----------------------------- MODULE EffectChain ------------------------------
(***************************************************************************)
(* What the effect journal tells about a file: the RESULT records of a     *)
(* path are a walk over contents that starts at the bound base content,    *)
(* and _terminal_effect_postimage (cli.py) computes where it ends from the *)
(* records alone, in no order.  The projection of a finished operation     *)
(* compares that end with the file and refuses the whole change set when   *)
(* they differ.                                                            *)
(***************************************************************************)
EXTENDS EffectJournal, Integers, FiniteSets

CONSTANT Mismatch    \* OPEN_SWE_CORE_CHANGESET_EFFECT_MISMATCH

ASSUME MismatchAssumption == Mismatch \notin Image

VARIABLE base        \* history: what the files held at first, or Mismatch, see below

chainVars == <<vars, base>>

Pending == {e \in Effects : rec[e].status = "INTENT"}

\* The base is forgotten where the walk is not promised: once others have changed
\* a file, and once an effect is begun although another one was interrupted and may
\* be taken up later (an edit that is executed again on its own result is one).
ChainInit == Init /\ base = file

ChainNext ==
  /\ Next
  /\ base' = IF \/ ext' > 0
                \/ pc = "idle" /\ eff' # Idle /\ Pending \ {<<eff'.call, eff'.post>>} # {}
               THEN Mismatch ELSE base

ChainSpec == ChainInit /\ [][ChainNext]_chainVars
-------------------------------------------------------------------------------
\* result_effects() of one path.
ResultEffects(f) == {e \in Effects : PathOf(e) = f /\ rec[e].status = "RESULT"}

Nodes(effects, start) == {start} \cup {rec[e].pre : e \in effects} \cup {PostOf(e) : e \in effects}

Balance(effects, n) ==
  Cardinality({e \in effects : rec[e].pre = n}) - Cardinality({e \in effects : PostOf(e) = n})

\* The contents connected to the start.
Reached(effects, start) ==
  {n \in Nodes(effects, start) :
     \A S \in SUBSET Nodes(effects, start) :
       (start \in S /\ \A e \in effects : rec[e].pre \in S <=> PostOf(e) \in S) => n \in S}

\* Fault: two records of the same change count once.
TerminalOfChanges(effects, start) ==
  LET changes == {<<rec[e].pre, PostOf(e)>> : e \in effects}
      Count(n) == Cardinality({p \in changes : p[1] = n}) - Cardinality({p \in changes : p[2] = n})
      ends == {n \in Nodes(effects, start) : Count(n) = -1}
      unbalanced == {n \in Nodes(effects, start) : Count(n) # 0}
  IN  IF Reached(effects, start) # Nodes(effects, start) THEN Mismatch
      ELSE IF unbalanced = {} THEN start
      ELSE IF \E n \in ends : unbalanced = {start, n} /\ Count(start) = 1
        THEN CHOOSE n \in ends : TRUE
      ELSE Mismatch

TerminalEffectPostimage(effects, start) ==
  LET nodes == Nodes(effects, start)
      unbalanced == {n \in nodes : Balance(effects, n) # 0}
      ends == {n \in nodes : Balance(effects, n) = -1}
  IN  IF Reached(effects, start) # nodes THEN Mismatch
      ELSE IF unbalanced = {} THEN start
      ELSE IF Balance(effects, start) = 1 /\ \E n \in ends : unbalanced = {start, n}
        THEN CHOOSE n \in ends : TRUE
      ELSE Mismatch

\* "The writes to one path form a walk": as long as nobody else changes files and
\* an interrupted effect is taken up before any other, the records of a path without
\* a pending one lead from the base content to what the file holds, however often
\* the process stopped and whatever texts come back.
JournalTellsFile ==
  base # Mismatch /\ pc = "idle" =>
    \A f \in Files :
      (\A e \in Effects : PathOf(e) = f => rec[e].status # "INTENT") =>
        TerminalEffectPostimage(ResultEffects(f), base[f]) = file[f]
===============================================================================
