CONSTANTS
  Composite = TRUE
  MaxTurns = 3
  Broken <- MCBroken
  Budget = 4
SPECIFICATION Spec
INVARIANTS
  TypeOK
  NoTurnSentTwice
  JournalNamesLastSend
  ResponseOfTurn
  GivenIsMeant
  SendsWithinBudget
CHECK_DEADLOCK FALSE
