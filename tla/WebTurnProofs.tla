---------------------------- MODULE WebTurnProofs -----------------------------
(***************************************************************************)
(* Any number of turns, of processes, of stops and of time-outs: no prompt *)
(* is sent twice, the journal always names the last one, and every process *)
(* keeps to its budget.  Where the composite call, which the journal       *)
(* rewrites, comes last, the journaled response is one to the journaled    *)
(* turn and no call that drifted in a repair is acted on.                  *)
(***************************************************************************)
EXTENDS WebTurn, TLAPS

\* The order in which an operation may send the prompts of its turns.
Order(k) == IF k = "turn" THEN 0 ELSE IF k = "resume" THEN 1 ELSE IF k = "repair" THEN 2 ELSE 3
Rank(t) == 4 * t[1] + Order(t[2])

\* The process sent the turn it waits for, or is about to.
Live == mem.mode = "run" \/ Repairing
Sending == {"reserve", "ask"}
Waiting == {"send", "timeout", "scan", "bind", "read", "save", "origin", "store", "settle",
            "refresh", "check"}

\* The page has the prompts in order, none of them after the journaled turn.
OrderInv ==
  /\ \A i, k \in 1..Len(web) : i < k => Rank(web[i].turn) < Rank(web[k].turn)
  /\ \A i \in 1..Len(web) : Rank(web[i].turn) <= Rank(jrn.turn)
  /\ pc = "send" => \A i \in 1..Len(web) : Rank(web[i].turn) < Rank(jrn.turn)
  /\ pc \in Sending => Rank(jrn.turn) < Rank(mem.turn)

\* The turns that are named are turns.
NamedInv ==
  /\ pc \in Sending => mem.turn \in Turns
  /\ pc \in Waiting \cup {"bound"} \/ jrn.conv # 0 \/ jrn.rstatus # "none" => jrn.turn \in Turns

\* A process resumes once, repairs once, and only what no earlier one repaired.
ProcessInv ==
  /\ pc \in Sending \cup {"send"} => Live
  /\ pc = "bound" => ~Live
  /\ pc \in Waiting /\ Live => mem.turn = jrn.turn
  /\ pc \in Sending \cup Waiting /\ Live =>
       /\ ~mem.resumed => mem.turn[2] \in {"turn", "repair"}
       /\ ~Repairing => mem.turn[2] \notin Repairs
  /\ pc \in Sending /\ mem.turn[2] \in Repairs => jrn.origin # NoReply
  /\ jrn.turn[2] \in Repairs => jrn.origin # NoReply

\* A prompt is reserved before it is sent.
BudgetInv == mem.sends + (IF pc \in {"ask", "send"} THEN 1 ELSE 0) <= mem.used

ExchangeInv == TypeOK /\ NamedInv /\ OrderInv /\ ProcessInv /\ BudgetInv
-------------------------------------------------------------------------------
Prompts == [turn : Turns, conv : Nat, reply : Replies]

\* A turn is its number and its kind.
LEMMA TurnIs ==
  ASSUME WebAssumption, NEW t \in Turns
  PROVE  t[1] \in 1..MaxTurns /\ t[1] \in Nat /\ t[2] \in Kinds /\ t = <<t[1], t[2]>>
  BY DEF Turns, WebAssumption

\* The kinds have places of their own.
LEMMA OrderIs ==
  ASSUME NEW k \in Kinds
  PROVE  /\ Order(k) \in 0..3
         /\ \A j \in Kinds : Order(j) = Order(k) => j = k
  BY DEF Order, Kinds

\* Turns are placed by numbers.
LEMMA RankTyped ==
  ASSUME WebAssumption, NEW t \in Named
  PROVE  Rank(t) \in Nat
  <1>1. CASE t \in Turns
    <2> DEFINE n == t[1]
               o == Order(t[2])
    <2>1. n \in Nat /\ o \in 0..3
      BY <1>1, TurnIs, OrderIs
    <2>2. Rank(t) = 4 * n + o
      BY DEF Rank
    <2> HIDE DEF n, o
    <2> QED
      BY <2>1, <2>2
  <1>2. CASE t = NoTurn
    <2>1. t[1] = 0 /\ t[2] = "turn"
      BY <1>2 DEF NoTurn
    <2> QED
      BY <2>1 DEF Rank, Order
  <1> QED
    BY <1>1, <1>2 DEF Named

\* No two turns have the same place in the order.
LEMMA RankOne ==
  ASSUME WebAssumption, NEW t \in Turns, NEW u \in Turns, Rank(t) = Rank(u)
  PROVE  t = u
  <1> DEFINE n == t[1]
             o == Order(t[2])
             m == u[1]
             p == Order(u[2])
  <1>1. n \in Nat /\ o \in 0..3 /\ m \in Nat /\ p \in 0..3
    BY TurnIs, OrderIs
  <1>2. 4 * n + o = 4 * m + p
    BY DEF Rank
  <1>3. n = m /\ o = p
    <2> HIDE DEF n, o, m, p
    <2> QED
      BY <1>1, <1>2
  <1>4. t[2] = u[2]
    BY <1>3, TurnIs, OrderIs
  <1> QED
    BY <1>3, <1>4, TurnIs

\* A turn of a kind is placed by its number and its kind.
LEMMA RankOf ==
  ASSUME NEW n, NEW k
  PROVE  Rank(<<n, k>>) = 4 * n + Order(k)
  BY DEF Rank

\* The next turn, the resume turn and the repair turn come after the turn they follow.
LEMMA RankNext ==
  ASSUME WebAssumption, NEW t \in Named
  PROVE  /\ Rank(t) < Rank(<<t[1] + 1, "turn">>)
         /\ t[2] \in {"turn", "repair"} => Rank(t) < Rank(ResumeTurn(t))
         /\ t[2] \notin Repairs => Rank(t) < Rank(<<t[1], "repair">>)
  <1> DEFINE n == t[1]
             o == Order(t[2])
  <1>1. n \in Nat /\ o \in 0..3 /\ t[2] \in Kinds
    <2>1. CASE t \in Turns
      BY <2>1, TurnIs, OrderIs
    <2>2. CASE t = NoTurn
      BY <2>2 DEF NoTurn, Order, Kinds
    <2> QED
      BY <2>1, <2>2 DEF Named
  <1>2. Rank(t) = 4 * n + o
    BY DEF Rank
  <1>3. Order("turn") = 0 /\ Order("resume") = 1 /\ Order("repair") = 2
        /\ Order("repair_resume") = 3
    BY DEF Order
  <1>4. Rank(<<n + 1, "turn">>) = 4 * (n + 1)
    <2>1. Rank(<<n + 1, "turn">>) = 4 * (n + 1) + Order("turn")
      BY RankOf
    <2> HIDE DEF n
    <2> QED
      BY <2>1, <1>1, <1>3
  <1>5. Rank(<<n, "repair">>) = 4 * n + 2 /\ Rank(<<n, "resume">>) = 4 * n + 1
        /\ Rank(<<n, "repair_resume">>) = 4 * n + 3
    BY RankOf, <1>3
  <1>6. t[2] = "turn" => o = 0 /\ ResumeTurn(t) = <<n, "resume">>
    BY <1>3 DEF ResumeTurn, Repairs
  <1>7. t[2] = "repair" => o = 2 /\ ResumeTurn(t) = <<n, "repair_resume">>
    BY <1>3 DEF ResumeTurn, Repairs
  <1>8. t[2] \notin Repairs => o \in 0..1
    BY <1>1, <1>3 DEF Repairs, Kinds
  <1>9. 4 * n + o < 4 * (n + 1)
    <2> HIDE DEF n, o
    <2> QED
      BY <1>1
  <1>10. t[2] \in {"turn", "repair"} => Rank(t) < Rank(ResumeTurn(t))
    <2> DEFINE r == Rank(ResumeTurn(t))
    <2>1. t[2] = "turn" => o = 0 /\ r = 4 * n + 1
      BY <1>5, <1>6
    <2>2. t[2] = "repair" => o = 2 /\ r = 4 * n + 3
      BY <1>5, <1>7
    <2> HIDE DEF n, o, r
    <2>3. o = 0 /\ r = 4 * n + 1 => 4 * n + o < r
      BY <1>1
    <2>4. o = 2 /\ r = 4 * n + 3 => 4 * n + o < r
      BY <1>1
    <2>5. t[2] \in {"turn", "repair"} => 4 * n + o < r
      BY <2>1, <2>2, <2>3, <2>4
    <2> QED
      BY <1>2, <2>5 DEF r
  <1>11. o \in 0..1 => 4 * n + o < 4 * n + 2
    <2> HIDE DEF n, o
    <2> QED
      BY <1>1
  <1> QED
    BY <1>2, <1>4, <1>5, <1>8, <1>9, <1>10, <1>11

\* What one more prompt makes of the page.
LEMMA Sent ==
  ASSUME WebAssumption, TypeOK, mem.turn \in Turns, NEW c \in Opens, web' = Prompt(c)
  PROVE  /\ Len(web) \in Nat /\ Len(web') = Len(web) + 1 /\ web' \in Seq(Prompts)
         /\ \A i \in 1..Len(web) : web'[i] = web[i]
         /\ web'[Len(web) + 1].turn = mem.turn
         /\ web'[Len(web) + 1].conv = c
         /\ web'[Len(web) + 1].reply = [NoReply EXCEPT !.form = "pending"]
         /\ c \in 1..(Len(web) + 1)
  <1> DEFINE e == [turn |-> mem.turn, conv |-> c, reply |-> [NoReply EXCEPT !.form = "pending"]]
  <1>1. web \in Seq(Prompts) /\ Len(web) \in Nat /\ mem.conv \in 0..Len(web)
    <2>1. web \in Seq(Prompts)
      BY DEF TypeOK, Prompts
    <2> HIDE DEF Prompts
    <2> QED
      BY <2>1 DEF TypeOK
  <1>2. c \in 1..(Len(web) + 1)
    BY <1>1 DEF Opens
  <1>3. [NoReply EXCEPT !.form = "pending"] \in Replies
    BY DEF NoReply, Replies, WebAssumption
  <1>4. e \in Prompts
    BY <1>2, <1>3 DEF Prompts
  <1>5. web' = Append(web, e)
    BY DEF Prompt
  <1>6. e.turn = mem.turn /\ e.conv = c /\ e.reply = [NoReply EXCEPT !.form = "pending"]
    OBVIOUS
  <1> HIDE DEF e, Prompts
  <1>7. /\ Len(web') = Len(web) + 1 /\ web' \in Seq(Prompts)
        /\ \A i \in 1..Len(web) : web'[i] = web[i]
        /\ web'[Len(web) + 1] = e
    BY <1>1, <1>4, <1>5
  <1> QED
    BY <1>1, <1>2, <1>6, <1>7

\* What the page's own step makes of it: the replies change, the prompts stay.
LEMMA Paged ==
  ASSUME WebAssumption, TypeOK, Page
  PROVE  /\ web' \in Seq(Prompts) /\ Len(web') = Len(web)
         /\ \A i \in 1..Len(web) : web'[i].turn = web[i].turn /\ web'[i].conv = web[i].conv
  <1>1. web \in Seq(Prompts) /\ Len(web) \in Nat
        /\ \A i \in 1..Len(web) : web[i] \in Prompts
    <2>1. web \in Seq(Prompts)
      BY DEF TypeOK, Prompts
    <2> HIDE DEF Prompts
    <2> QED
      BY <2>1
  <1>2. PICK i \in 1..Len(web), r \in Replies : web' = [web EXCEPT ![i].reply = r]
    <2>1. PICK i \in 1..Len(web) :
             \/ \E r \in Answers(web[i]) \cup {[NoReply EXCEPT !.form = "stopped"]} :
                  web' = [web EXCEPT ![i].reply = r]
             \/ web' = [web EXCEPT ![i].reply.form = "complete"]
      BY DEF Page
    <2>2. web[i] \in Prompts /\ web[i].turn \in Turns /\ web[i].reply \in Replies
      BY <1>1 DEF Prompts
    <2>3. [NoReply EXCEPT !.form = "stopped"] \in Replies
      BY DEF NoReply, Replies, WebAssumption
    <2>4. Answers(web[i]) \subseteq Replies
      <3>1. web[i].turn[1] \in 1..MaxTurns /\ Intents(web[i].turn) \subseteq 0..MaxTurns
        BY <2>2, TurnIs DEF Intents, WebAssumption
      <3>2. Broken[web[i].turn[1]] \subseteq Forms
        BY <3>1 DEF WebAssumption
      <3> QED
        BY <2>2, <3>1, <3>2 DEF Answers, Replies
    <2>5. CASE web' = [web EXCEPT ![i].reply.form = "complete"]
      <3>1. web' = [web EXCEPT ![i].reply = [web[i].reply EXCEPT !.form = "complete"]]
        BY <2>5
      <3>2. [web[i].reply EXCEPT !.form = "complete"] \in Replies
        BY <2>2 DEF Replies
      <3> QED
        BY <3>1, <3>2
    <2>6. CASE \E r \in Answers(web[i]) \cup {[NoReply EXCEPT !.form = "stopped"]} :
                 web' = [web EXCEPT ![i].reply = r]
      BY <2>3, <2>4, <2>6
    <2> QED
      BY <2>1, <2>5, <2>6
  <1> DEFINE e == [web[i] EXCEPT !.reply = r]
  <1>3. e \in Prompts /\ e.turn = web[i].turn /\ e.conv = web[i].conv
    BY <1>1 DEF Prompts
  <1>4. web' = [web EXCEPT ![i] = e]
    BY <1>2
  <1> HIDE DEF e, Prompts
  <1>5. web' \in Seq(Prompts) /\ Len(web') = Len(web) /\ web'[i] = e
        /\ \A k \in 1..Len(web) : k # i => web'[k] = web[k]
    BY <1>1, <1>3, <1>4
  <1> QED
    BY <1>3, <1>5
-------------------------------------------------------------------------------
\* The replies that are made, repaired, canonical or read are replies.
LEMMA ReplyTyped ==
  ASSUME WebAssumption
  PROVE  /\ NoReply \in Replies /\ NoTurn \in Named
         /\ \A r \in Replies : /\ [r EXCEPT !.form = "complete"] \in Replies
                              /\ Canonical(r) \in Replies
  <1>1. NoTurn \in Named /\ NoReply \in Replies
    BY DEF Named, NoReply, Replies, WebAssumption
  <1>2. \A r \in Replies : [r EXCEPT !.form = "complete"] \in Replies
    BY DEF Replies
  <1> QED
    BY <1>1, <1>2 DEF Canonical

\* The rows of the page, and what is read of them.
LEMMA RowTyped ==
  ASSUME TypeOK
  PROVE  /\ web \in Seq(Prompts) /\ Len(web) \in Nat
         /\ \A i \in 1..Len(web) : web[i].turn \in Turns /\ web[i].reply \in Replies
                                   /\ web[i].conv \in 1..i /\ web[i].conv \in 1..Len(web)
         /\ \A c, t : Shown(c, t) \subseteq Replies
  <1>1. web \in Seq(Prompts)
    BY DEF TypeOK, Prompts
  <1>2. Len(web) \in Nat /\ \A i \in 1..Len(web) : web[i] \in Prompts
    <2> HIDE DEF Prompts
    <2> QED
      BY <1>1
  <1>3. \A i \in 1..Len(web) : web[i].conv \in 1..i
    BY DEF TypeOK
  <1>4. \A i \in 1..Len(web) : web[i].turn \in Turns /\ web[i].reply \in Replies
    BY <1>2 DEF Prompts
  <1> QED
    BY <1>1, <1>2, <1>3, <1>4 DEF Shown, Rows

Pcs == {"model", "reserve", "ask", "send", "timeout", "scan", "bind", "read", "save",
        "origin", "store", "settle", "refresh", "check", "bound", "down"}

\* A step that leaves the page alone keeps the types when the process and the
\* journal keep theirs.
LEMMA SamePage ==
  ASSUME TypeOK, web' = web, pc' \in Pcs, mem' \in MemType, jrn' \in JrnType,
         {mem'.conv, mem'.prior, jrn'.conv, jrn'.rconv} \subseteq 0..Len(web)
  PROVE  TypeOK'
  BY DEF TypeOK, Pcs, MemType, JrnType, Replies, Turns, Named, Kinds, Forms

\* A step that sends a prompt keeps the types when the process keeps its own.
LEMMA OnePrompt ==
  ASSUME WebAssumption, TypeOK, mem.turn \in Turns, NEW c \in Opens, web' = Prompt(c),
         pc' \in Pcs, jrn' = jrn, mem' \in MemType,
         {mem'.conv, mem'.prior} \subseteq 0..(Len(web) + 1)
  PROVE  TypeOK'
  <1>1. /\ Len(web) \in Nat /\ Len(web') = Len(web) + 1 /\ web' \in Seq(Prompts)
        /\ \A i \in 1..Len(web) : web'[i] = web[i]
        /\ web'[Len(web) + 1].conv = c /\ c \in 1..(Len(web) + 1)
    BY Sent
  <1>2. \A i \in 1..Len(web) : web[i].conv \in 1..i
    BY RowTyped
  <1>3. \A i \in 1..Len(web') : web'[i].conv \in 1..i
    BY <1>1, <1>2
  <1>4. {mem'.conv, mem'.prior, jrn'.conv, jrn'.rconv} \subseteq 0..Len(web')
    BY <1>1 DEF TypeOK
  <1>5. jrn' \in JrnType
    BY DEF TypeOK
  <1> QED
    BY <1>1, <1>3, <1>4, <1>5 DEF TypeOK, Pcs, Prompts, MemType, JrnType, Replies, Turns, Named,
       Kinds, Forms

\* The number of the next turn.
LEMMA NextTurn ==
  ASSUME WebAssumption, TypeOK, Generate
  PROVE  <<jrn.turn[1] + 1, "turn">> \in Turns
  <1>1. jrn.turn \in Named
    BY DEF TypeOK, JrnType
  <1>2. jrn.turn[1] \in 0..MaxTurns /\ jrn.turn[1] < MaxTurns
    <2>1. jrn.turn \in Turns => jrn.turn[1] \in 1..MaxTurns
      BY TurnIs
    <2>2. jrn.turn = NoTurn => jrn.turn[1] = 0
      BY DEF NoTurn
    <2> QED
      BY <1>1, <2>1, <2>2 DEF Generate, Named, WebAssumption
  <1> DEFINE n == jrn.turn[1]
  <1>3. n + 1 \in 1..MaxTurns
    <2> HIDE DEF n
    <2> QED
      BY <1>2 DEF WebAssumption, n
  <1> QED
    BY <1>3 DEF Turns, Kinds

\* The turn a resume or a repair makes of a turn.
LEMMA FollowingTurns ==
  ASSUME WebAssumption, NEW t \in Turns
  PROVE  ResumeTurn(t) \in Turns /\ <<t[1], "repair">> \in Turns
  <1>1. t[1] \in 1..MaxTurns
    BY TurnIs
  <1> QED
    BY <1>1 DEF ResumeTurn, Turns, Kinds
\* Every step keeps the types.
LEMMA TypeStep ==
  ASSUME WebAssumption, TypeOK, NamedInv, ProcessInv, [Next]_vars
  PROVE  TypeOK'
  <1> USE DEF Pcs
  <1>1. /\ mem \in MemType /\ jrn \in JrnType /\ Len(web) \in Nat
        /\ {mem.conv, mem.prior, jrn.conv, jrn.rconv} \subseteq 0..Len(web)
        /\ jrn.turn \in Named /\ mem.turn \in Named /\ mem.resp \in Replies
        /\ mem.invalid \in Replies /\ jrn.origin \in Replies /\ jrn.resp \in Replies
        /\ mem.used \in 0..Budget /\ mem.sends \in Nat
    <2>1. mem \in MemType /\ jrn \in JrnType /\ Len(web) \in Nat
      BY RowTyped DEF TypeOK
    <2> QED
      BY <2>1 DEF TypeOK, MemType, JrnType
  <1>2. Fresh \in MemType /\ Fresh.conv = 0 /\ Fresh.prior = 0
    <2>1. Budget \in Nat
      BY DEF WebAssumption
    <2> QED
      BY <2>1, ReplyTyped DEF Fresh, MemType
  <1>3. pc \in Waiting => jrn.turn \in Turns
    BY DEF NamedInv
  <1>4. pc = "send" => mem.turn \in Turns
    BY <1>3 DEF ProcessInv, Waiting
  <1>5. \A c, t : Shown(c, t) \subseteq Replies
    BY RowTyped
  <1>6. NoReply \in Replies
    BY ReplyTyped
  <1>7. Len(web) \in Nat /\ 0 \in 0..Len(web) /\ Budget \in Nat
    BY <1>1 DEF WebAssumption
  <1>8. CASE Generate
    <2>1. <<jrn.turn[1] + 1, "turn">> \in Turns
      BY <1>8, NextTurn
    <2>2. mem.used + 1 \in 0..Budget
      BY <1>1, <1>7, <1>8 DEF Generate
    <2> DEFINE t == <<jrn.turn[1] + 1, "turn">>
    <2>3. mem' = [mem EXCEPT !.mode = "run", !.base = t, !.turn = t, !.used = mem.used + 1,
                             !.fresh = FALSE, !.invalid = NoReply, !.resp = NoReply]
          /\ web' = web /\ jrn' = jrn /\ pc' = "ask"
      BY <1>8 DEF Generate
    <2>4. t \in Named
      BY <2>1 DEF Named
    <2> HIDE DEF t
    <2>5. mem' \in MemType /\ mem'.conv = mem.conv /\ mem'.prior = mem.prior
      BY <1>1, <1>6, <2>2, <2>3, <2>4 DEF MemType
    <2> QED
      BY <1>1, <2>3, <2>5, SamePage
  <1>9. CASE Reserve
    <2>1. mem.used + 1 \in 0..Budget
      BY <1>1, <1>7, <1>9 DEF Reserve
    <2>2. mem' \in MemType /\ mem'.conv = mem.conv /\ mem'.prior = mem.prior
      BY <1>1, <1>9, <2>1 DEF Reserve, MemType
    <2> QED
      BY <1>1, <1>9, <2>2, SamePage DEF Reserve
  <1>10. CASE JournalAsk
    <2>1. mem' \in MemType /\ mem'.conv = mem.conv /\ mem'.prior = mem.conv
      BY <1>1, <1>10 DEF JournalAsk, MemType
    <2>2. jrn' \in JrnType /\ jrn'.conv = jrn.conv /\ jrn'.rconv = jrn.rconv
      BY <1>1, <1>10 DEF JournalAsk, JrnType
    <2> QED
      BY <1>1, <1>10, <2>1, <2>2, SamePage DEF JournalAsk
  <1>11. CASE AskFails
    <2>1. PICK c \in Opens : web' = Prompt(c)
      BY <1>11 DEF AskFails
    <2>2. mem' = Fresh /\ jrn' = jrn /\ pc' = "down" /\ pc = "send"
      BY <1>11 DEF AskFails
    <2>3. {Fresh.conv, Fresh.prior} \subseteq 0..(Len(web) + 1)
      BY <1>2, <1>7
    <2> QED
      BY <1>2, <1>4, <2>1, <2>2, <2>3, OnePrompt
  <1>12. CASE AskTimesOut
    <2>1. CASE \E c \in Opens : Reaches(c)
      <3>1. PICK c \in Opens : Reaches(c)
        BY <2>1
      <3>2. web' = Prompt(c) /\ mem' = [mem EXCEPT !.sends = mem.sends + 1]
            /\ jrn' = jrn /\ pc' = "timeout" /\ pc = "send"
        BY <1>12, <3>1 DEF Reaches, AskTimesOut
      <3>3. mem.sends + 1 \in Nat
        BY <1>1
      <3>4. mem' \in MemType /\ mem'.conv = mem.conv /\ mem'.prior = mem.prior
        BY <1>1, <3>2, <3>3 DEF MemType
      <3>5. {mem'.conv, mem'.prior} \subseteq 0..(Len(web) + 1)
        BY <1>1, <3>4
      <3> QED
        BY <1>4, <3>2, <3>4, <3>5, OnePrompt
    <2>2. CASE UNCHANGED <<web, mem>>
      BY <1>1, <1>12, <2>2, SamePage DEF AskTimesOut
    <2> QED
      BY <1>12, <2>1, <2>2 DEF AskTimesOut
  <1>13. CASE AskReturns
    <2>1. PICK c \in Opens :
             web' = Prompt(c) /\ mem' = [mem EXCEPT !.sends = mem.sends + 1, !.conv = c]
      BY <1>13 DEF AskReturns
    <2>2. jrn' = jrn /\ pc' = "bind" /\ pc = "send"
      BY <1>13 DEF AskReturns
    <2>3. mem.sends + 1 \in Nat
      BY <1>1
    <2>4. c \in 1..(Len(web) + 1)
      BY <1>4, <2>1, <2>2, Sent
    <2>5. mem' \in MemType /\ mem'.conv = c /\ mem'.prior = mem.prior
      <3>1. c \in Nat
        BY <1>1, <2>4
      <3> QED
        BY <1>1, <2>1, <2>3, <3>1 DEF MemType
    <2>6. {mem'.conv, mem'.prior} \subseteq 0..(Len(web) + 1)
      BY <1>1, <2>4, <2>5
    <2> QED
      BY <1>4, <2>1, <2>2, <2>5, <2>6, OnePrompt
  <1>14. CASE Bind
    <2>1. jrn' \in JrnType /\ jrn'.conv = mem.conv /\ jrn'.rconv = jrn.rconv
      BY <1>1, <1>14 DEF Bind, JrnType, MemType
    <2>2. pc' \in Pcs /\ mem' = mem /\ web' = web
      BY <1>14 DEF Bind
    <2> QED
      BY <1>1, <2>1, <2>2, SamePage
  <1>15. CASE TurnTimedOut
    <2>1. mem' \in MemType /\ mem'.conv = mem.conv /\ mem'.prior = mem.prior
      BY <1>1, <1>15 DEF TurnTimedOut, MemType
    <2>2. pc' \in Pcs /\ jrn' = jrn /\ web' = web
      BY <1>15 DEF TurnTimedOut
    <2> QED
      BY <1>1, <2>1, <2>2, SamePage
  <1>16. CASE RepairTimedOut
    <2>1. pc' \in Pcs /\ jrn' = jrn /\ web' = web
      BY <1>16 DEF RepairTimedOut
    <2>2. CASE Projectable
      <3> DEFINE r == [jrn.origin EXCEPT !.form = "complete"]
                 c == jrn.rconv
      <3>1. r \in Replies /\ c \in Nat /\ c \in 0..Len(web) /\ mem \in MemType
        BY <1>1, ReplyTyped DEF JrnType
      <3>2. mem' = [mem EXCEPT !.conv = c, !.resp = r]
        BY <1>16, <2>2 DEF RepairTimedOut
      <3> HIDE DEF r, c
      <3> DEFINE m == [mem EXCEPT !.conv = c]
      <3>3. m \in MemType /\ mem' = [m EXCEPT !.resp = r]
        BY <3>1, <3>2 DEF MemType
      <3> HIDE DEF m
      <3>4. mem' \in MemType
        BY <3>1, <3>3 DEF MemType
      <3>5. mem'.conv = c /\ mem'.prior = mem.prior
        BY <1>1, <3>2 DEF MemType
      <3> QED
        BY <1>1, <2>1, <3>1, <3>4, <3>5, SamePage
    <2>3. CASE ~Projectable
      <3>1. mem' = [mem EXCEPT !.late = TRUE] /\ mem \in MemType
        BY <1>1, <1>16, <2>3 DEF RepairTimedOut
      <3>2. mem' \in MemType /\ mem'.conv = mem.conv /\ mem'.prior = mem.prior
        BY <3>1 DEF MemType
      <3> QED
        BY <1>1, <2>1, <3>2, SamePage
    <2> QED
      BY <2>2, <2>3
  <1>17. CASE Scan
    <2>1. PICK i \in Found : mem' = [mem EXCEPT !.conv = web[i].conv]
      BY <1>17 DEF Scan
    <2>2. web[i].conv \in 1..Len(web) /\ web[i].conv \in Nat
      BY <1>1, RowTyped DEF Found
    <2>3. mem' \in MemType /\ mem'.conv = web[i].conv /\ mem'.prior = mem.prior
      BY <1>1, <2>1, <2>2 DEF MemType
    <2> QED
      BY <1>1, <1>17, <2>2, <2>3, SamePage DEF Scan
  <1>18. CASE Read
    <2>1. PICK r \in Replies : mem' = [mem EXCEPT !.resp = r]
      BY <1>5, <1>18 DEF Read
    <2>2. mem' \in MemType /\ mem'.conv = mem.conv /\ mem'.prior = mem.prior
      BY <1>1, <2>1 DEF MemType
    <2> QED
      BY <1>1, <1>18, <2>2, SamePage DEF Read
  <1>19. CASE Resume
    <2>1. ResumeTurn(mem.turn) \in Named
      <3>1. mem.turn \in Turns
        <4>1. PICK i \in Rows(mem.conv, mem.turn) : TRUE
          BY <1>19 DEF Resume, MayResume
        <4> QED
          BY <4>1, RowTyped DEF Rows
      <3> QED
        BY <3>1, FollowingTurns DEF Named
    <2> DEFINE t == ResumeTurn(mem.turn)
    <2>2. mem' = [mem EXCEPT !.turn = t, !.resumed = TRUE, !.fresh = FALSE]
          /\ pc' = "reserve" /\ web' = web /\ jrn' = jrn
      BY <1>19 DEF Resume
    <2> HIDE DEF t
    <2>3. t \in Named
      BY <2>1 DEF t
    <2>4. mem' \in MemType /\ mem'.conv = mem.conv /\ mem'.prior = mem.prior
      BY <1>1, <2>2, <2>3 DEF MemType
    <2> QED
      BY <1>1, <2>2, <2>4, SamePage
  <1>20. CASE SaveOrigin
    <2>1. jrn' \in JrnType /\ jrn'.conv = jrn.conv /\ jrn'.rconv = jrn.conv
      BY <1>1, <1>20 DEF SaveOrigin, RepairStarted, JrnType
    <2> QED
      BY <1>1, <1>20, <2>1, SamePage DEF SaveOrigin
  <1>21. CASE SaveRepaired
    <2>1. jrn' \in JrnType /\ jrn'.conv = jrn.conv /\ jrn'.rconv = jrn.rconv
      BY <1>1, <1>21 DEF SaveRepaired, RepairRecovered, JrnType
    <2> QED
      BY <1>1, <1>21, <2>1, SamePage DEF SaveRepaired
  <1>22. CASE Save
    <2> DEFINE r == Canonical(mem.resp)
    <2>1. r \in Replies
      BY <1>1, ReplyTyped
    <2>2. jrn' = [jrn EXCEPT !.status = "RESPONSE_RECOVERED", !.resp = r]
          /\ mem' = mem /\ web' = web /\ pc' \in Pcs
      BY <1>22 DEF Save, ResponseRecovered, AfterSave
    <2> HIDE DEF r
    <2>3. jrn' \in JrnType /\ jrn'.conv = jrn.conv /\ jrn'.rconv = jrn.rconv
      BY <1>1, <2>1, <2>2 DEF JrnType
    <2> QED
      BY <1>1, <2>2, <2>3, SamePage
  <1>23. CASE Settle
    <2>1. jrn' \in JrnType /\ jrn'.conv = jrn.conv /\ jrn'.rconv = jrn.rconv
      BY <1>1, <1>23 DEF Settle, RepairRecovered, JrnType
    <2> QED
      BY <1>1, <1>23, <2>1, SamePage DEF Settle, AfterSave
  <1>24. CASE Refresh
    <2>1. PICK r \in Replies : mem' = [mem EXCEPT !.resp = r]
      <3>1. Canonical(mem.resp) \in Replies
        BY <1>1, ReplyTyped
      <3> QED
        BY <1>5, <1>24, <3>1 DEF Refresh
    <2>2. mem' \in MemType /\ mem'.conv = mem.conv /\ mem'.prior = mem.prior
      BY <1>1, <2>1 DEF MemType
    <2> QED
      BY <1>1, <1>24, <2>2, SamePage DEF Refresh
  <1>25. CASE Accept
    BY <1>1, <1>25, SamePage DEF Accept
  <1>26. CASE StartRepair
    <2> DEFINE t == <<jrn.turn[1], "repair">>
    <2>1. t \in Named
      BY <1>3, <1>26, FollowingTurns DEF StartRepair, Waiting, Named
    <2>2. /\ jrn' = [jrn EXCEPT !.origin = mem.resp, !.rturn = t, !.rconv = jrn.conv,
                                !.rstatus = "DISPATCHING"]
          /\ mem' = [mem EXCEPT !.turn = t, !.fresh = TRUE, !.invalid = mem.resp, !.resp = NoReply]
          /\ pc' = "reserve" /\ web' = web
      BY <1>26 DEF StartRepair, RepairStarted
    <2> HIDE DEF t
    <2>3. jrn' \in JrnType /\ jrn'.conv = jrn.conv /\ jrn'.rconv = jrn.conv
      BY <1>1, <2>1, <2>2 DEF JrnType
    <2>4. mem' \in MemType /\ mem'.conv = mem.conv /\ mem'.prior = mem.prior
      BY <1>1, <1>6, <2>1, <2>2 DEF MemType
    <2> QED
      BY <1>1, <2>2, <2>3, <2>4, SamePage
  <1>27. CASE Down
    BY <1>1, <1>2, <1>7, <1>27, SamePage DEF Down
  <1>28. CASE Reconcile
    <2>1. Rewritten \in JrnType /\ {Rewritten.conv, Rewritten.rconv} \subseteq 0..Len(web)
      <3> DEFINE r == Canonical(jrn.resp)
      <3>1. r \in Replies
        BY <1>1, ReplyTyped
      <3>2. Rewritten = jrn \/ Rewritten =
              [jrn EXCEPT !.origin = jrn.resp, !.rturn = jrn.turn, !.rconv = jrn.conv,
                          !.rstatus = "RECOVERED", !.status = "RESPONSE_RECOVERED", !.resp = r]
        BY <1>1 DEF Rewritten, ResponseRecovered, RepairRecovered, RepairStarted, JrnType
      <3> HIDE DEF r
      <3> DEFINE k == [jrn EXCEPT !.origin = jrn.resp, !.rturn = jrn.turn, !.rconv = jrn.conv,
                                  !.rstatus = "RECOVERED", !.status = "RESPONSE_RECOVERED",
                                  !.resp = r]
      <3>3. k \in JrnType /\ k.conv = jrn.conv /\ k.rconv = jrn.conv
        BY <1>1, <3>1 DEF JrnType
      <3>4. Rewritten = jrn \/ Rewritten = k
        BY <3>2
      <3> HIDE DEF k
      <3> QED
        BY <1>1, <3>3, <3>4
    <2> DEFINE j == Rewritten
    <2>2. /\ jrn' = j /\ web' = web /\ pc' \in Pcs
          /\ \/ mem' = [Fresh EXCEPT !.mode = "reconcile", !.conv = j.conv, !.turn = j.rturn,
                                     !.fresh = TRUE, !.prior = j.rconv]
             \/ mem' = [Fresh EXCEPT !.mode = "reconcile", !.conv = j.conv, !.turn = j.turn,
                                     !.resp = IF j.status = "RESPONSE_RECOVERED"
                                                THEN j.resp ELSE NoReply]
      BY <1>28 DEF Reconcile
    <2> HIDE DEF j
    <2>3. j \in JrnType /\ {j.conv, j.rconv} \subseteq 0..Len(web)
      BY <2>1 DEF j
    <2>4. j.turn \in Named /\ j.rturn \in Named /\ j.conv \in Nat /\ j.rconv \in Nat
          /\ j.resp \in Replies
      BY <2>3 DEF JrnType
    <2> DEFINE r == IF j.status = "RESPONSE_RECOVERED" THEN j.resp ELSE NoReply
    <2>5. r \in Replies
      BY <1>6, <2>4
    <2>6. \/ mem' = [Fresh EXCEPT !.mode = "reconcile", !.conv = j.conv, !.turn = j.rturn,
                                   !.fresh = TRUE, !.prior = j.rconv]
          \/ mem' = [Fresh EXCEPT !.mode = "reconcile", !.conv = j.conv, !.turn = j.turn,
                                   !.resp = r]
      BY <2>2
    <2> HIDE DEF r
    <2>7. mem' \in MemType
      <3>1. CASE mem' = [Fresh EXCEPT !.mode = "reconcile", !.conv = j.conv, !.turn = j.rturn,
                                      !.fresh = TRUE, !.prior = j.rconv]
        BY <1>2, <2>4, <3>1 DEF MemType
      <3>2. CASE mem' = [Fresh EXCEPT !.mode = "reconcile", !.conv = j.conv, !.turn = j.turn,
                                      !.resp = r]
        BY <1>2, <2>4, <2>5, <3>2 DEF MemType
      <3> QED
        BY <2>6, <3>1, <3>2
    <2>8. mem'.conv = j.conv /\ mem'.prior \in {0, j.rconv}
      BY <1>2, <2>6 DEF MemType
    <2> QED
      BY <1>7, <2>2, <2>3, <2>7, <2>8, SamePage
  <1>29. CASE ReadBound
    <2>1. PICK r \in Replies : mem' = [mem EXCEPT !.resp = r]
                               /\ jrn' = [jrn EXCEPT !.status = "RESPONSE_RECOVERED", !.resp = r]
      BY <1>5, <1>29 DEF ReadBound, ResponseRecovered
    <2>2. mem' \in MemType /\ mem'.conv = mem.conv /\ mem'.prior = mem.prior
      BY <1>1, <2>1 DEF MemType
    <2>3. jrn' \in JrnType /\ jrn'.conv = jrn.conv /\ jrn'.rconv = jrn.rconv
      BY <1>1, <2>1 DEF JrnType
    <2> QED
      BY <1>1, <1>29, <2>2, <2>3, SamePage DEF ReadBound
  <1>30. CASE Page
    <2>1. /\ web' \in Seq(Prompts) /\ Len(web') = Len(web)
          /\ \A i \in 1..Len(web) : web'[i].conv = web[i].conv
      BY <1>30, Paged
    <2>2. \A i \in 1..Len(web) : web[i].conv \in 1..i
      BY RowTyped
    <2>3. pc' = pc /\ mem' = mem /\ jrn' = jrn
      BY <1>30 DEF Page
    <2>4. \A i \in 1..Len(web') : web'[i].conv \in 1..i
      BY <2>1, <2>2
    <2>5. {mem'.conv, mem'.prior, jrn'.conv, jrn'.rconv} \subseteq 0..Len(web')
      BY <1>1, <2>1, <2>3
    <2>6. pc' \in Pcs /\ mem' \in MemType /\ jrn' \in JrnType
      BY <2>3 DEF TypeOK
    <2> QED
      BY <2>1, <2>4, <2>5, <2>6 DEF TypeOK, Prompts, MemType, JrnType, Replies, Turns, Named,
         Kinds, Forms
  <1>31. CASE UNCHANGED vars
    BY <1>1, <1>31, SamePage DEF TypeOK, vars
  <1> QED
    BY <1>8, <1>9, <1>10, <1>11, <1>12, <1>13, <1>14, <1>15, <1>16, <1>17, <1>18, <1>19, <1>20,
       <1>21, <1>22, <1>23, <1>24, <1>25, <1>26, <1>27, <1>28, <1>29, <1>30, <1>31 DEF Next
-------------------------------------------------------------------------------
\* The order of the prompts when the page has no new one.
LEMMA OrderKept ==
  ASSUME OrderInv, Len(web') = Len(web), \A i \in 1..Len(web) : web'[i].turn = web[i].turn,
         jrn'.turn = jrn.turn,
         pc' = "send" => pc = "send",
         pc' \in Sending => Rank(jrn'.turn) < Rank(mem'.turn)
  PROVE  OrderInv'
  BY DEF OrderInv, Sending

\* The order of the prompts when the journaled turn was sent.
LEMMA OrderSent ==
  ASSUME WebAssumption, TypeOK, NamedInv, OrderInv, pc = "send", mem.turn \in Turns,
         mem.turn = jrn.turn, NEW c \in Opens, web' = Prompt(c), jrn' = jrn,
         pc' # "send", pc' \notin Sending
  PROVE  OrderInv'
  <1>1. /\ Len(web) \in Nat /\ Len(web') = Len(web) + 1
        /\ \A i \in 1..Len(web) : web'[i] = web[i]
        /\ web'[Len(web) + 1].turn = jrn.turn
    BY Sent
  <1>2. Rank(jrn.turn) \in Nat /\ \A i \in 1..Len(web) : Rank(web[i].turn) \in Nat
    BY RowTyped, RankTyped DEF TypeOK, JrnType, Named
  <1>3. \A i \in 1..Len(web) : Rank(web[i].turn) < Rank(jrn.turn)
    BY DEF OrderInv
  <1>4. \A i, k \in 1..Len(web) : i < k => Rank(web[i].turn) < Rank(web[k].turn)
    BY DEF OrderInv
  <1>5. \A i, k \in 1..Len(web') : i < k => Rank(web'[i].turn) < Rank(web'[k].turn)
    <2> SUFFICES ASSUME NEW i \in 1..Len(web'), NEW k \in 1..Len(web'), i < k
                 PROVE  Rank(web'[i].turn) < Rank(web'[k].turn)
      OBVIOUS
    <2>1. i \in 1..Len(web)
      BY <1>1
    <2>2. CASE k \in 1..Len(web)
      BY <1>1, <1>4, <2>1, <2>2
    <2>3. CASE k = Len(web) + 1
      BY <1>1, <1>3, <2>1, <2>3
    <2> QED
      BY <1>1, <2>2, <2>3
  <1>6. \A i \in 1..Len(web') : Rank(web'[i].turn) <= Rank(jrn'.turn)
    <2> SUFFICES ASSUME NEW i \in 1..Len(web')
                 PROVE  Rank(web'[i].turn) <= Rank(jrn.turn)
      OBVIOUS
    <2>1. CASE i \in 1..Len(web)
      BY <1>1, <1>2, <1>3, <2>1
    <2>2. CASE i = Len(web) + 1
      BY <1>1, <1>2, <2>2
    <2> QED
      BY <1>1, <2>1, <2>2
  <1> QED
    BY <1>5, <1>6 DEF OrderInv, Sending

-------------------------------------------------------------------------------
\* What the journal's own updates leave alone.
LEMMA UpdatesKeep ==
  ASSUME TypeOK
  PROVE  /\ \A r : ResponseRecovered(jrn, r).turn = jrn.turn
         /\ \A r : ResponseRecovered(jrn, r).conv = jrn.conv
         /\ \A r : ResponseRecovered(jrn, r).origin = jrn.origin
         /\ \A r : ResponseRecovered(jrn, r).rstatus = jrn.rstatus
         /\ RepairRecovered(jrn).turn = jrn.turn /\ RepairRecovered(jrn).conv = jrn.conv
         /\ RepairRecovered(jrn).origin = jrn.origin
         /\ \A o, t : RepairStarted(jrn, o, t).turn = jrn.turn
         /\ \A o, t : RepairStarted(jrn, o, t).conv = jrn.conv
         /\ \A o, t : RepairStarted(jrn, o, t).origin = o
         /\ Rewritten.turn = jrn.turn /\ Rewritten.conv = jrn.conv
         /\ Rewritten # jrn => jrn.conv # 0 /\ Rewritten.origin = jrn.resp
                               /\ Canonical(jrn.resp) # jrn.resp
  <1> USE DEF TypeOK, JrnType
  <1> QED
    BY DEF ResponseRecovered, RepairRecovered, RepairStarted, Rewritten
\* How reconcile sets the process up.
LEMMA Reconciles ==
  ASSUME Reconcile
  PROVE  /\ jrn' = Rewritten /\ mem'.mode = "reconcile" /\ mem'.invalid = NoReply
         /\ mem'.used = 0 /\ mem'.sends = 0
         /\ \/ /\ pc' = "timeout" /\ mem'.resp = NoReply
               /\ mem'.fresh /\ mem'.turn = Rewritten.rturn
            \/ pc' = "bound" /\ mem'.resp = NoReply /\ mem'.turn = Rewritten.turn
            \/ /\ pc' = "refresh" /\ mem'.resp = Rewritten.resp /\ mem'.turn = Rewritten.turn
               /\ Rewritten.status = "RESPONSE_RECOVERED"
  <1> DEFINE j == Rewritten
             m == [Fresh EXCEPT !.mode = "reconcile", !.conv = j.conv]
             a == [m EXCEPT !.turn = j.rturn, !.fresh = TRUE, !.prior = j.rconv]
             b(r) == [m EXCEPT !.turn = j.turn, !.resp = r]
  <1>1. /\ jrn' = j
        /\ \/ pc' = "timeout" /\ mem' = a
           \/ pc' = "bound" /\ mem' = b(NoReply)
           \/ pc' = "refresh" /\ mem' = b(j.resp) /\ j.status = "RESPONSE_RECOVERED"
    BY DEF Reconcile
  <1> HIDE DEF j
  <1>2. /\ m.mode = "reconcile" /\ m.invalid = NoReply /\ m.used = 0 /\ m.sends = 0
        /\ m.resp = NoReply
        /\ m \in [{"mode", "base", "turn", "conv", "prior", "fresh", "late", "resumed", "resp",
                   "invalid", "used", "sends"} -> {m[f] : f \in DOMAIN m}]
    BY DEF Fresh
  <1> HIDE DEF m
  <1>3. /\ a.mode = "reconcile" /\ a.invalid = NoReply /\ a.used = 0 /\ a.sends = 0
        /\ a.resp = NoReply /\ a.fresh /\ a.turn = j.rturn
    BY <1>2
  <1>4. \A r : /\ b(r).mode = "reconcile" /\ b(r).invalid = NoReply /\ b(r).used = 0
               /\ b(r).sends = 0 /\ b(r).resp = r /\ b(r).turn = j.turn
    BY <1>2
  <1> HIDE DEF a, b
  <1> QED
    BY <1>1, <1>3, <1>4 DEF j

\* The turns that are named stay turns.
LEMMA NamedStep ==
  ASSUME WebAssumption, TypeOK, NamedInv, ProcessInv, [Next]_vars
  PROVE  NamedInv'
  <1> USE DEF NamedInv, Sending, Waiting
  <1>1. mem \in MemType /\ jrn \in JrnType
    BY DEF TypeOK
  <1>2. CASE Generate
    BY <1>1, NextTurn, <1>2 DEF Generate, MemType
  <1>3. CASE Reserve
    BY <1>1, UpdatesKeep, <1>3 DEF Reserve, MemType
  <1>4. CASE JournalAsk
    BY <1>1, UpdatesKeep, <1>4 DEF JournalAsk, JrnType
  <1>5. CASE AskFails
    BY <1>1, UpdatesKeep, <1>5 DEF AskFails
  <1>6. CASE AskTimesOut
    BY <1>1, UpdatesKeep, <1>6 DEF AskTimesOut
  <1>7. CASE AskReturns
    BY <1>1, UpdatesKeep, <1>7 DEF AskReturns
  <1>8. CASE Bind
    BY <1>1, UpdatesKeep, <1>8 DEF Bind, JrnType
  <1>9. CASE TurnTimedOut
    BY <1>1, UpdatesKeep, <1>9 DEF TurnTimedOut
  <1>10. CASE RepairTimedOut
    BY <1>1, UpdatesKeep, <1>10 DEF RepairTimedOut
  <1>11. CASE Scan
    BY <1>1, UpdatesKeep, <1>11 DEF Scan
  <1>12. CASE Read
    BY <1>1, UpdatesKeep, <1>12 DEF Read
  <1>13. CASE Resume
    <2>1. mem.turn \in Turns
      BY <1>13, RowTyped DEF Resume, MayResume, Rows
    <2> QED
      BY <1>1, <2>1, FollowingTurns, <1>13 DEF Resume, MemType
  <1>14. CASE SaveOrigin
    BY <1>1, UpdatesKeep, <1>14 DEF SaveOrigin
  <1>15. CASE SaveRepaired
    BY <1>1, UpdatesKeep, <1>15 DEF SaveRepaired
  <1>16. CASE Save
    BY <1>1, UpdatesKeep, <1>16 DEF Save, AfterSave
  <1>17. CASE Settle
    BY <1>1, UpdatesKeep, <1>17 DEF Settle, AfterSave
  <1>18. CASE Refresh
    BY <1>1, UpdatesKeep, <1>18 DEF Refresh
  <1>19. CASE Accept
    BY <1>1, UpdatesKeep, <1>19 DEF Accept
  <1>20. CASE StartRepair
    BY <1>1, UpdatesKeep, FollowingTurns, <1>20 DEF StartRepair, MemType
  <1>21. CASE Down
    BY <1>1, UpdatesKeep, <1>21 DEF Down
  <1>22. CASE Reconcile
    BY <1>1, UpdatesKeep, <1>22 DEF Reconcile
  <1>23. CASE ReadBound
    BY <1>1, UpdatesKeep, <1>23 DEF ReadBound
  <1>24. CASE Page
    BY <1>1, UpdatesKeep, <1>24 DEF Page
  <1>25. CASE UNCHANGED vars
    BY <1>1, UpdatesKeep, <1>25 DEF vars
  <1> QED
    BY <1>2, <1>3, <1>4, <1>5, <1>6, <1>7, <1>8, <1>9, <1>10, <1>11, <1>12, <1>13, <1>14, <1>15,
       <1>16, <1>17, <1>18, <1>19, <1>20, <1>21, <1>22, <1>23, <1>24, <1>25 DEF Next

\* A process keeps to one repair and one resume.
LEMMA ProcessStep ==
  ASSUME WebAssumption, TypeOK, NamedInv, ProcessInv, [Next]_vars
  PROVE  ProcessInv'
  <1> USE DEF ProcessInv, Live, Repairing, Sending, Waiting, Repairs
  <1>1. mem \in MemType /\ jrn \in JrnType
    BY DEF TypeOK
  <1>2. Fresh.invalid = NoReply
    BY DEF Fresh
  <1>3. CASE Generate
    BY <1>1, <1>3 DEF Generate, MemType
  <1>4. CASE Reserve
    BY <1>1, <1>2, UpdatesKeep, <1>4 DEF Reserve, MemType
  <1>5. CASE JournalAsk
    BY <1>1, <1>2, UpdatesKeep, <1>5 DEF JournalAsk, JrnType, MemType
  <1>6. CASE AskFails
    BY <1>1, <1>2, UpdatesKeep, <1>6 DEF AskFails
  <1>7. CASE AskTimesOut
    BY <1>1, <1>2, UpdatesKeep, <1>7 DEF AskTimesOut, Reaches, MemType
  <1>8. CASE AskReturns
    BY <1>1, <1>2, UpdatesKeep, <1>8 DEF AskReturns, MemType
  <1>9. CASE Bind
    BY <1>1, <1>2, UpdatesKeep, <1>9 DEF Bind, JrnType
  <1>10. CASE TurnTimedOut
    <2>1. mem'.mode = mem.mode /\ mem'.turn = mem.turn /\ mem'.invalid = mem.invalid
          /\ mem'.resumed = mem.resumed
      BY <1>1, <1>10 DEF TurnTimedOut, MemType
    <2>2. jrn' = jrn /\ pc = "timeout" /\ pc' \in {"read", "scan"}
      BY <1>10 DEF TurnTimedOut
    <2> QED
      BY <2>1, <2>2
  <1>11. CASE RepairTimedOut
    <2>1. mem'.mode = mem.mode /\ mem'.turn = mem.turn /\ mem'.invalid = mem.invalid
          /\ mem'.resumed = mem.resumed
      BY <1>1, <1>11 DEF RepairTimedOut, MemType
    <2>2. jrn' = jrn /\ pc = "timeout" /\ pc' \in {"bind", "scan"}
      BY <1>11 DEF RepairTimedOut
    <2> QED
      BY <2>1, <2>2
  <1>12. CASE Scan
    BY <1>1, <1>2, UpdatesKeep, <1>12 DEF Scan, MemType
  <1>13. CASE Read
    BY <1>1, <1>2, UpdatesKeep, <1>13 DEF Read, MemType
  <1>14. CASE Resume
    <2>1. mem.turn = jrn.turn /\ mem.turn[2] \in {"turn", "repair"}
          /\ (~Repairing => mem.turn[2] \notin Repairs)
      BY <1>14 DEF Resume, MayResume
    <2> DEFINE t == ResumeTurn(mem.turn)
    <2>2. t[2] \in Repairs <=> mem.turn[2] \in Repairs
      BY DEF ResumeTurn
    <2>3. mem' = [mem EXCEPT !.turn = t, !.resumed = TRUE, !.fresh = FALSE] /\ jrn' = jrn
          /\ pc' = "reserve"
      BY <1>14 DEF Resume
    <2>4. mem.mode = "run" \/ Repairing
      BY <1>14 DEF Resume, MayResume
    <2> HIDE DEF t
    <2>5. mem'.mode = mem.mode /\ mem'.turn = t /\ mem'.invalid = mem.invalid /\ mem'.resumed
      BY <1>1, <2>3 DEF MemType
    <2> QED
      BY <2>1, <2>2, <2>3, <2>4, <2>5
  <1>15. CASE SaveOrigin
    <2>1. mem.resp # NoReply
      BY <1>15 DEF SaveOrigin, NeedsOrigin, Canonical, NoReply
    <2> QED
      BY <1>1, UpdatesKeep, <2>1, <1>15 DEF SaveOrigin
  <1>16. CASE SaveRepaired
    BY <1>1, <1>2, UpdatesKeep, <1>16 DEF SaveRepaired
  <1>17. CASE Save
    BY <1>1, <1>2, UpdatesKeep, <1>17 DEF Save, AfterSave
  <1>18. CASE Settle
    BY <1>1, <1>2, UpdatesKeep, <1>18 DEF Settle, AfterSave
  <1>19. CASE Refresh
    BY <1>1, <1>2, UpdatesKeep, <1>19 DEF Refresh, MemType
  <1>20. CASE Accept
    BY <1>1, <1>2, UpdatesKeep, <1>20 DEF Accept
  <1>21. CASE StartRepair
    <2>1. mem.resp # NoReply
      BY <1>21 DEF StartRepair, NoReply
    <2> QED
      BY <1>1, UpdatesKeep, <2>1, <1>21 DEF StartRepair, MemType, Origin
  <1>22. CASE Down
    BY <1>1, <1>2, UpdatesKeep, <1>22 DEF Down
  <1>23. CASE Reconcile
    <2>1. Rewritten = jrn \/ Rewritten.origin # NoReply
      BY UpdatesKeep DEF Canonical, NoReply
    <2> QED
      BY UpdatesKeep, <2>1, <1>23, Reconciles
  <1>24. CASE ReadBound
    BY <1>1, <1>2, UpdatesKeep, <1>24 DEF ReadBound, MemType
  <1>25. CASE Page
    BY <1>1, <1>2, UpdatesKeep, <1>25 DEF Page
  <1>26. CASE UNCHANGED vars
    BY <1>1, <1>2, UpdatesKeep, <1>26 DEF vars
  <1> QED
    BY <1>3, <1>4, <1>5, <1>6, <1>7, <1>8, <1>9, <1>10, <1>11, <1>12, <1>13, <1>14, <1>15, <1>16,
       <1>17, <1>18, <1>19, <1>20, <1>21, <1>22, <1>23, <1>24, <1>25, <1>26 DEF Next

\* No prompt reaches the page after a later one.
LEMMA OrderStep ==
  ASSUME WebAssumption, TypeOK, NamedInv, OrderInv, ProcessInv, [Next]_vars
  PROVE  OrderInv'
  <1>1. mem \in MemType /\ jrn \in JrnType /\ jrn.turn \in Named /\ mem.turn \in Named
    BY DEF TypeOK, MemType, JrnType
  <1>2. pc = "send" => mem.turn \in Turns /\ mem.turn = jrn.turn
    BY DEF NamedInv, ProcessInv, Waiting
  <1>3. pc \in Sending => Rank(jrn.turn) < Rank(mem.turn)
    BY DEF OrderInv
  <1>4. \A s \in {"down", "timeout", "bind", "read", "scan", "save", "origin", "store", "settle",
                  "refresh", "check", "model", "bound"} : s # "send" /\ s \notin Sending
    BY DEF Sending
  <1>5. CASE Generate
    <2> DEFINE t == <<jrn.turn[1] + 1, "turn">>
    <2>1. Rank(jrn.turn) < Rank(t)
      BY <1>1, RankNext
    <2>2. mem'.turn = t
      BY <1>1, <1>5 DEF Generate, MemType
    <2> HIDE DEF t
    <2> QED
      BY <2>1, <2>2, OrderKept, <1>5 DEF Generate
  <1>6. CASE Reserve
    BY <1>1, <1>3, OrderKept, <1>6 DEF Reserve, Sending, MemType
  <1>7. CASE JournalAsk
    <2>1. Rank(jrn.turn) < Rank(mem.turn) /\ web' = web /\ jrn'.turn = mem.turn /\ pc' = "send"
      BY <1>1, <1>3, <1>7 DEF JournalAsk, Sending, JrnType
    <2>2. Rank(jrn.turn) \in Nat /\ Rank(mem.turn) \in Nat
      BY <1>1, RankTyped
    <2>3. \A i \in 1..Len(web) : Rank(web[i].turn) \in Nat
      BY RowTyped, RankTyped DEF Named
    <2>4. \A i \in 1..Len(web) : Rank(web[i].turn) < Rank(mem.turn)
      BY <2>1, <2>2, <2>3 DEF OrderInv
    <2>5. \A i \in 1..Len(web) : Rank(web[i].turn) <= Rank(mem.turn)
      BY <2>2, <2>3, <2>4
    <2> QED
      BY <2>1, <2>4, <2>5 DEF OrderInv, Sending
  <1>8. CASE AskFails
    <2>1. PICK c \in Opens : web' = Prompt(c)
      BY <1>8 DEF AskFails
    <2> QED
      BY <1>2, <1>4, <2>1, OrderSent, <1>8 DEF AskFails
  <1>9. CASE AskTimesOut
    <2>1. CASE \E c \in Opens : Reaches(c)
      <3>1. PICK c \in Opens : web' = Prompt(c)
        BY <2>1 DEF Reaches
      <3> QED
        BY <1>2, <1>4, <3>1, OrderSent, <1>9 DEF AskTimesOut
    <2>2. CASE UNCHANGED <<web, mem>>
      BY <1>4, <2>2, OrderKept, <1>9 DEF AskTimesOut
    <2> QED
      BY <2>1, <2>2, <1>9 DEF AskTimesOut
  <1>10. CASE AskReturns
    <2>1. PICK c \in Opens : web' = Prompt(c)
      BY <1>10 DEF AskReturns
    <2> QED
      BY <1>2, <1>4, <2>1, OrderSent, <1>10 DEF AskReturns
  <1>11. CASE Bind
    BY <1>1, <1>4, UpdatesKeep, OrderKept, <1>11 DEF Bind, JrnType
  <1>12. CASE TurnTimedOut
    BY <1>1, <1>4, UpdatesKeep, OrderKept, <1>12 DEF TurnTimedOut
  <1>13. CASE RepairTimedOut
    BY <1>1, <1>4, UpdatesKeep, OrderKept, <1>13 DEF RepairTimedOut
  <1>14. CASE Scan
    BY <1>1, <1>4, UpdatesKeep, OrderKept, <1>14 DEF Scan
  <1>15. CASE Read
    BY <1>1, <1>4, UpdatesKeep, OrderKept, <1>15 DEF Read
  <1>16. CASE Resume
    <2>1. mem.turn = jrn.turn /\ mem.turn[2] \in {"turn", "repair"}
      BY <1>16 DEF Resume, MayResume, ProcessInv, Live, Repairing, Waiting
    <2>2. Rank(mem.turn) < Rank(ResumeTurn(mem.turn))
      BY <1>1, <2>1, RankNext
    <2>3. mem'.turn = ResumeTurn(mem.turn)
      BY <1>1, <1>16 DEF Resume, MemType
    <2> QED
      BY <2>1, <2>2, <2>3, OrderKept, <1>16 DEF Resume
  <1>17. CASE SaveOrigin
    BY <1>1, <1>4, UpdatesKeep, OrderKept, <1>17 DEF SaveOrigin
  <1>18. CASE SaveRepaired
    BY <1>1, <1>4, UpdatesKeep, OrderKept, <1>18 DEF SaveRepaired
  <1>19. CASE Save
    BY <1>1, <1>4, UpdatesKeep, OrderKept, <1>19 DEF Save, AfterSave
  <1>20. CASE Settle
    BY <1>1, <1>4, UpdatesKeep, OrderKept, <1>20 DEF Settle, AfterSave
  <1>21. CASE Refresh
    BY <1>1, <1>4, UpdatesKeep, OrderKept, <1>21 DEF Refresh
  <1>22. CASE Accept
    BY <1>1, <1>4, UpdatesKeep, OrderKept, <1>22 DEF Accept
  <1>23. CASE StartRepair
    <2>1. jrn.turn[2] \notin Repairs
      BY <1>23 DEF StartRepair, Origin, ProcessInv, Live, Repairing, Waiting, TypeOK, MemType
    <2>2. Rank(jrn.turn) < Rank(<<jrn.turn[1], "repair">>)
      BY <1>1, <2>1, RankNext
    <2>3. mem'.turn = <<jrn.turn[1], "repair">>
      BY <1>1, <1>23 DEF StartRepair, MemType
    <2>4. jrn'.turn = jrn.turn
      BY UpdatesKeep, <1>23 DEF StartRepair
    <2> QED
      BY <2>2, <2>3, <2>4, OrderKept, <1>23 DEF StartRepair
  <1>24. CASE Down
    BY <1>1, <1>4, UpdatesKeep, OrderKept, <1>24 DEF Down
  <1>25. CASE Reconcile
    BY <1>1, <1>4, UpdatesKeep, OrderKept, <1>25 DEF Reconcile
  <1>26. CASE ReadBound
    BY <1>1, <1>4, UpdatesKeep, OrderKept, <1>26 DEF ReadBound
  <1>27. CASE Page
    BY Paged, OrderKept, <1>3, <1>27 DEF Page
  <1>28. CASE UNCHANGED vars
    BY <1>3, OrderKept, <1>28 DEF vars
  <1> QED
    BY <1>5, <1>6, <1>7, <1>8, <1>9, <1>10, <1>11, <1>12, <1>13, <1>14, <1>15, <1>16, <1>17,
       <1>18, <1>19, <1>20, <1>21, <1>22, <1>23, <1>24, <1>25, <1>26, <1>27, <1>28 DEF Next

\* No prompt is sent without a reservation.
LEMMA BudgetStep ==
  ASSUME WebAssumption, TypeOK, BudgetInv, [Next]_vars
  PROVE  BudgetInv'
  <1> USE DEF BudgetInv
  <1>1. mem \in MemType /\ mem.used \in Nat /\ mem.sends \in Nat
    <2>1. mem \in MemType /\ Budget \in Nat
      BY DEF TypeOK, WebAssumption
    <2> QED
      BY <2>1 DEF MemType
  <1>2. Fresh.used = 0 /\ Fresh.sends = 0
    BY DEF Fresh
  <1>3. CASE Generate
    <2>1. mem'.used = mem.used + 1 /\ mem'.sends = mem.sends
      BY <1>1, <1>3 DEF Generate, MemType
    <2> QED
      BY <1>1, <2>1, <1>3 DEF Generate
  <1>4. CASE Reserve
    <2>1. mem'.used = mem.used + 1 /\ mem'.sends = mem.sends
      BY <1>1, <1>4 DEF Reserve, MemType
    <2> QED
      BY <1>1, <2>1, <1>4 DEF Reserve
  <1>5. CASE JournalAsk
    <2>1. mem'.used = mem.used /\ mem'.sends = mem.sends
      BY <1>1, <1>5 DEF JournalAsk, MemType
    <2> QED
      BY <1>1, <2>1, <1>5 DEF JournalAsk
  <1>6. CASE AskFails
    BY <1>1, <1>2, <1>6 DEF AskFails
  <1>7. CASE AskTimesOut
    <2>1. mem'.used = mem.used /\ mem'.sends \in {mem.sends, mem.sends + 1}
      BY <1>1, <1>7 DEF AskTimesOut, Reaches, MemType
    <2> QED
      BY <1>1, <2>1, <1>7 DEF AskTimesOut
  <1>8. CASE AskReturns
    <2>1. mem'.used = mem.used /\ mem'.sends = mem.sends + 1
      BY <1>1, <1>8 DEF AskReturns, MemType
    <2> QED
      BY <1>1, <2>1, <1>8 DEF AskReturns
  <1>9. CASE Bind
    BY <1>1, <1>2, <1>9 DEF Bind
  <1>10. CASE TurnTimedOut
    <2>1. mem'.used = mem.used /\ mem'.sends = mem.sends
      BY <1>1, <1>10 DEF TurnTimedOut, MemType
    <2> QED
      BY <1>1, <2>1, <1>10 DEF TurnTimedOut
  <1>11. CASE RepairTimedOut
    <2>1. mem'.used = mem.used /\ mem'.sends = mem.sends
      BY <1>1, <1>11 DEF RepairTimedOut, MemType
    <2> QED
      BY <1>1, <2>1, <1>11 DEF RepairTimedOut
  <1>12. CASE Scan
    <2>1. mem'.used = mem.used /\ mem'.sends = mem.sends
      BY <1>1, <1>12 DEF Scan, MemType
    <2> QED
      BY <1>1, <2>1, <1>12 DEF Scan
  <1>13. CASE Read
    <2>1. mem'.used = mem.used /\ mem'.sends = mem.sends
      BY <1>1, <1>13 DEF Read, MemType
    <2> QED
      BY <1>1, <2>1, <1>13 DEF Read
  <1>14. CASE Resume
    <2>1. mem'.used = mem.used /\ mem'.sends = mem.sends
      BY <1>1, <1>14 DEF Resume, MemType
    <2> QED
      BY <1>1, <2>1, <1>14 DEF Resume
  <1>15. CASE SaveOrigin
    BY <1>1, <1>2, <1>15 DEF SaveOrigin
  <1>16. CASE SaveRepaired
    BY <1>1, <1>2, <1>16 DEF SaveRepaired
  <1>17. CASE Save
    BY <1>1, <1>2, <1>17 DEF Save, AfterSave
  <1>18. CASE Settle
    BY <1>1, <1>2, <1>18 DEF Settle, AfterSave
  <1>19. CASE Refresh
    <2>1. mem'.used = mem.used /\ mem'.sends = mem.sends
      BY <1>1, <1>19 DEF Refresh, MemType
    <2> QED
      BY <1>1, <2>1, <1>19 DEF Refresh
  <1>20. CASE Accept
    BY <1>1, <1>2, <1>20 DEF Accept
  <1>21. CASE StartRepair
    <2>1. mem'.used = mem.used /\ mem'.sends = mem.sends
      BY <1>1, <1>21 DEF StartRepair, MemType
    <2> QED
      BY <1>1, <2>1, <1>21 DEF StartRepair
  <1>22. CASE Down
    BY <1>1, <1>2, <1>22 DEF Down
  <1>23. CASE Reconcile
    BY <1>23, Reconciles
  <1>24. CASE ReadBound
    <2>1. mem'.used = mem.used /\ mem'.sends = mem.sends
      BY <1>1, <1>24 DEF ReadBound, MemType
    <2> QED
      BY <1>1, <2>1, <1>24 DEF ReadBound
  <1>25. CASE Page
    BY <1>1, <1>2, <1>25 DEF Page
  <1>26. CASE UNCHANGED vars
    BY <1>1, <1>2, <1>26 DEF vars
  <1> QED
    BY <1>3, <1>4, <1>5, <1>6, <1>7, <1>8, <1>9, <1>10, <1>11, <1>12, <1>13, <1>14, <1>15, <1>16,
       <1>17, <1>18, <1>19, <1>20, <1>21, <1>22, <1>23, <1>24, <1>25, <1>26 DEF Next

\* The invariant holds at the start.
LEMMA InitInv ==
  ASSUME WebAssumption, Init
  PROVE  ExchangeInv
  <1>1. web = <<>> /\ Len(web) = 0 /\ web \in Seq([turn : Turns, conv : Nat, reply : Replies])
    BY DEF Init
  <1>2. jrn.turn = NoTurn /\ jrn.conv = 0 /\ jrn.rconv = 0 /\ jrn.rstatus = "none"
        /\ jrn.origin = NoReply
    BY DEF Init
  <1>3. mem = Fresh /\ pc = "model"
    BY DEF Init
  <1>4. TypeOK
    <2>1. Budget \in Nat
      BY DEF WebAssumption
    <2>2. Fresh \in MemType /\ Fresh.conv = 0 /\ Fresh.prior = 0
      BY <2>1, ReplyTyped DEF Fresh, MemType
    <2>3. jrn \in JrnType
      BY ReplyTyped DEF Init, JrnType
    <2> QED
      BY <1>1, <1>2, <1>3, <2>2, <2>3 DEF TypeOK
  <1>5. NamedInv
    BY <1>2, <1>3 DEF NamedInv, Sending, Waiting
  <1>6. OrderInv
    BY <1>1, <1>3 DEF OrderInv, Sending
  <1>7. ProcessInv
    BY <1>2, <1>3 DEF ProcessInv, Sending, Waiting, NoTurn, Repairs
  <1>8. BudgetInv
    BY <1>3 DEF BudgetInv, Fresh
  <1> QED
    BY <1>4, <1>5, <1>6, <1>7, <1>8 DEF ExchangeInv
-------------------------------------------------------------------------------
\* The inductive invariant holds for every number of turns and every budget.
THEOREM Invariance ==
  ASSUME WebAssumption
  PROVE  Spec => []ExchangeInv
  <1>1. Init => ExchangeInv
    BY InitInv
  <1>2. ExchangeInv /\ [Next]_vars => ExchangeInv'
    BY TypeStep, NamedStep, OrderStep, ProcessStep, BudgetStep DEF ExchangeInv
  <1> QED
    BY <1>1, <1>2, PTL DEF Spec

\* Type correctness.
THEOREM TypeCorrect ==
  ASSUME WebAssumption
  PROVE  Spec => []TypeOK
  <1>1. ExchangeInv => TypeOK
    BY DEF ExchangeInv
  <1> QED
    BY <1>1, Invariance, PTL

\* No prompt reaches the page twice, over any time-outs, stops and restarts
\* (_run_ask_once, _reconcile_timeout, worker_reconcile).
THEOREM SentOnce ==
  ASSUME WebAssumption
  PROVE  Spec => []NoTurnSentTwice
  <1>1. ExchangeInv => NoTurnSentTwice
    <2> SUFFICES ASSUME ExchangeInv, NEW i \in 1..Len(web), NEW k \in 1..Len(web),
                        web[i].turn = web[k].turn, i < k
                 PROVE  FALSE
      <3>1. Len(web) \in Nat
        BY RowTyped DEF ExchangeInv
      <3> QED
        BY <3>1 DEF NoTurnSentTwice
    <2>1. Rank(web[i].turn) \in Nat
      BY RowTyped, RankTyped DEF ExchangeInv, Named
    <2>2. Rank(web[i].turn) < Rank(web[k].turn)
      BY DEF ExchangeInv, OrderInv
    <2> QED
      BY <2>1, <2>2
  <1> QED
    BY <1>1, Invariance, PTL

\* The journal names the last prompt or one that is still to come
\* (journal_model_turn before _run_ask).
THEOREM NamesLastSend ==
  ASSUME WebAssumption
  PROVE  Spec => []JournalNamesLastSend
  <1>1. ExchangeInv => JournalNamesLastSend
    <2> SUFFICES ASSUME ExchangeInv, NEW i \in 1..Len(web), web[i].turn = jrn.turn, i # Len(web)
                 PROVE  FALSE
      BY DEF JournalNamesLastSend
    <2> DEFINE n == Len(web)
               a == Rank(web[i].turn)
               b == Rank(web[n].turn)
    <2>1. n \in Nat /\ i \in 1..n /\ i # n
      BY RowTyped DEF ExchangeInv
    <2>2. n \in 1..Len(web) /\ i < n
      <3> HIDE DEF n
      <3>1. n \in 1..n /\ i < n
        BY <2>1
      <3> QED
        BY <3>1 DEF n
    <2>3. a \in Nat /\ b \in Nat
      BY <2>2, RowTyped, RankTyped DEF ExchangeInv, Named
    <2>4. a < b /\ b <= a
      BY <2>2 DEF ExchangeInv, OrderInv
    <2> HIDE DEF a, b
    <2> QED
      BY <2>3, <2>4
  <1> QED
    BY <1>1, Invariance, PTL

\* A process sends no more prompts than its budget (_reserve_web_turn).
THEOREM WithinBudget ==
  ASSUME WebAssumption
  PROVE  Spec => []SendsWithinBudget
  <1>1. ExchangeInv => SendsWithinBudget
    <2> SUFFICES ASSUME ExchangeInv
                 PROVE  mem.sends <= Budget
      BY DEF SendsWithinBudget
    <2>1. Budget \in Nat /\ mem.used \in 0..Budget /\ mem.sends \in Nat
      BY DEF ExchangeInv, TypeOK, MemType, WebAssumption
    <2> QED
      BY <2>1 DEF ExchangeInv, BudgetInv
  <1> QED
    BY <1>1, Invariance, PTL

-------------------------------------------------------------------------------
\* What a reply to a turn may intend; a reply that was never compared may have
\* drifted only when it answers a repair.
Intended(r, t) == r.intent = t[1] \/ (r.intent = 0 /\ t[2] \in Repairs)
Local(r) == r = [jrn.origin EXCEPT !.form = "complete"]
Answer(r, t) == Intended(r, t) /\ (r.turn = t \/ (t[2] = "repair" /\ Local(r)))

\* The page answers the prompt it was given.
PageInv ==
  \A i \in 1..Len(web) :
    web[i].reply.form \notin {"pending", "stopped"} =>
      web[i].reply.turn = web[i].turn /\ Intended(web[i].reply, web[i].turn)

\* A reply intends the call of its turn or has drifted, in a form its turn may have.
Meant(r) ==
  /\ r.intent \in {0, r.turn[1]}
  /\ r.form \in Forms => r.turn[1] \in 1..MaxTurns /\ r.form \in Broken[r.turn[1]]

\* A turn the composite call may answer in its direct form is not repaired.
Direct(t) == t[1] \in 1..MaxTurns /\ "direct" \in Broken[t[1]]
Single(t) == Direct(t) => t[2] \notin Repairs

FormInv ==
  /\ \A i \in 1..Len(web) : Meant(web[i].reply)
  /\ Meant(mem.resp) /\ Meant(jrn.resp) /\ Meant(jrn.origin)
  /\ Single(mem.turn) /\ Single(jrn.turn) /\ Single(jrn.rturn)

\* A direct form the journal holds is the last thing it holds, until a restart
\* rewrites it.
DirectInv ==
  /\ pc \in {"origin", "store"} => NeedsOrigin
  /\ jrn.resp.form = "direct" =>
       /\ pc \in {"refresh", "check", "model", "down"}
       /\ jrn.conv # 0 /\ jrn.status = "RESPONSE_RECOVERED"

\* A repair is about a response whose call is known; the repair a restart finds
\* under way is the one the process had started, or a rewriting that was cut off.
OriginInv ==
  /\ jrn.origin # NoReply => jrn.origin.intent # 0
  /\ mem.invalid # NoReply => mem.invalid.intent # 0
  /\ jrn.rstatus = "DISPATCHING" =>
       /\ jrn.rturn[2] = "repair" \/ jrn.origin.form = "direct"
       /\ jrn.origin.intent = jrn.rturn[1]
  /\ pc \in Sending \cup {"send", "timeout"} /\ mem.fresh => mem.turn = jrn.rturn
  /\ pc = "timeout" /\ ~Live => mem.fresh

\* What a process and the journal hold answers the turn they hold it for.
HeldInv ==
  /\ pc \in {"origin", "store"} => mem.resp.turn = mem.turn
  /\ pc \in Sending \cup {"send", "timeout", "scan", "read"} => mem.resp = NoReply
  /\ pc \in {"save", "origin", "store"} \/ (pc = "bind" /\ mem.resp # NoReply) =>
       Answer(mem.resp, mem.turn)
  /\ pc \in {"settle", "refresh", "check"} => Intended(mem.resp, jrn.turn)
  /\ jrn.status = "RESPONSE_RECOVERED" => Answer(jrn.resp, jrn.turn)
  /\ pc \in {"send", "timeout", "scan"} /\ Live => jrn.status = "ASK_DISPATCHING"
  /\ pc \in {"read", "save", "origin", "store"} => jrn.status # "RESPONSE_RECOVERED"
  /\ pc \in Sending \cup Waiting /\ mem.mode = "run" =>
       mem.base[1] = mem.turn[1] /\ mem.base[2] \notin Repairs
  /\ pc = "refresh" => ~Repairing

ReplyInv ==
  ExchangeInv /\ PageInv /\ FormInv /\ DirectInv /\ OriginInv /\ HeldInv /\ GivenIsMeant

\* The composite call comes last: only a last turn is answered in its direct form,
\* and no repair is due there.
DirectLast ==
  \A n \in 1..MaxTurns :
    "direct" \in Broken[n] => n = MaxTurns /\ Broken[n] \cap {"tail", "write"} = {}
-------------------------------------------------------------------------------
\* What rewriting does to a reply.
LEMMA CanonicalIs ==
  ASSUME NEW r \in Replies
  PROVE  /\ Canonical(r) \in Replies
         /\ Canonical(r).turn = r.turn /\ Canonical(r).intent = r.intent
         /\ Composite => Canonical(r).form # "direct"
         /\ ~(Composite /\ r.form = "direct") => Canonical(r) = r
         /\ Composite /\ r.form = "direct" => Canonical(r).form = "complete" /\ Canonical(r) # r
  <1> DEFINE c == [r EXCEPT !.form = "complete"]
  <1>1. c \in Replies /\ c.turn = r.turn /\ c.intent = r.intent /\ c.form = "complete"
    BY DEF Replies
  <1>2. r.form = "direct" => c # r
    BY <1>1
  <1>3. Canonical(r) = IF Composite /\ r.form = "direct" THEN c ELSE r
    BY DEF Canonical
  <1> HIDE DEF c
  <1> QED
    BY <1>1, <1>2, <1>3

\* A local repair is complete, and its call is that of the response repaired.
LEMMA LocalIs ==
  ASSUME NEW o \in Replies
  PROVE  /\ [o EXCEPT !.form = "complete"].form = "complete"
         /\ [o EXCEPT !.form = "complete"].turn = o.turn
         /\ [o EXCEPT !.form = "complete"].intent = o.intent
         /\ Meant(o) => Meant([o EXCEPT !.form = "complete"])
  <1> DEFINE c == [o EXCEPT !.form = "complete"]
  <1>1. c.turn = o.turn /\ c.intent = o.intent /\ c.form = "complete"
    BY DEF Replies
  <1> HIDE DEF c
  <1>2. Meant(o) => Meant(c)
    BY <1>1 DEF Meant, Forms
  <1> QED
    BY <1>1, <1>2 DEF c

\* A direct form is one of the composite tool.
LEMMA DirectForm ==
  ASSUME WebAssumption, NEW r, Meant(r), r.form = "direct"
  PROVE  Composite /\ Direct(r.turn)
  BY DEF WebAssumption, Meant, Forms, Direct

\* A reply that has to be rewritten is one to its turn, and it is no repair.
LEMMA DirectAnswer ==
  ASSUME WebAssumption, TypeOK, FormInv, NEW r \in Replies, NEW t, Meant(r), Single(t),
         r.form = "direct", Answer(r, t)
  PROVE  r.turn = t /\ Direct(t) /\ t[1] # 0 /\ r.intent = t[1] /\ Composite
  <1>1. ~Local(r)
    <2>1. jrn.origin \in Replies
      BY DEF TypeOK, JrnType
    <2> QED
      BY <2>1, LocalIs DEF Local
  <1>2. r.turn = t /\ Intended(r, t)
    BY <1>1 DEF Answer
  <1>3. Direct(t) /\ Composite
    BY <1>2, DirectForm
  <1>4. t[1] # 0
    BY <1>3 DEF Direct, WebAssumption
  <1> QED
    BY <1>2, <1>3, <1>4 DEF Single, Intended

\* What a restart finds in the journal.
LEMMA RewrittenIs ==
  ASSUME WebAssumption, TypeOK, FormInv, DirectInv, HeldInv
  PROVE  \/ Rewritten = jrn /\ jrn.resp.form # "direct"
         \/ /\ jrn.resp.turn = jrn.turn /\ jrn.resp.intent = jrn.turn[1] /\ jrn.turn[1] # 0
            /\ Rewritten.resp \in Replies /\ Rewritten.resp.turn = jrn.turn
            /\ Rewritten.resp.intent = jrn.turn[1] /\ Rewritten.resp.form = "complete"
            /\ Rewritten.origin = jrn.resp /\ Rewritten.rturn = jrn.turn
            /\ Rewritten.rstatus = "RECOVERED" /\ Rewritten.turn = jrn.turn
            /\ Rewritten.status = "RESPONSE_RECOVERED"
  <1>1. jrn \in JrnType /\ jrn.resp \in Replies
    BY DEF TypeOK, JrnType
  <1>2. CASE jrn.resp.form # "direct"
    BY <1>1, <1>2, CanonicalIs DEF Rewritten
  <1>3. CASE jrn.resp.form = "direct"
    <2>1. jrn.conv # 0 /\ Answer(jrn.resp, jrn.turn)
      BY <1>3 DEF DirectInv, HeldInv
    <2>2. jrn.resp.turn = jrn.turn /\ jrn.turn[1] # 0 /\ jrn.resp.intent = jrn.turn[1] /\ Composite
      BY <1>1, <1>3, <2>1, DirectAnswer DEF FormInv
    <2> DEFINE c == Canonical(jrn.resp)
    <2>3. c \in Replies /\ c.turn = jrn.turn /\ c.intent = jrn.turn[1] /\ c.form = "complete"
          /\ c # jrn.resp
      BY <1>1, <1>3, <2>2, CanonicalIs
    <2>4. Rewritten = ResponseRecovered(RepairRecovered(RepairStarted(jrn, jrn.resp, jrn.turn)), c)
      BY <2>1, <2>3 DEF Rewritten
    <2> HIDE DEF c
    <2>5. /\ Rewritten.resp = c /\ Rewritten.origin = jrn.resp /\ Rewritten.rturn = jrn.turn
          /\ Rewritten.rstatus = "RECOVERED" /\ Rewritten.turn = jrn.turn
          /\ Rewritten.status = "RESPONSE_RECOVERED"
      BY <1>1, <2>4 DEF ResponseRecovered, RepairRecovered, RepairStarted, JrnType
    <2> QED
      BY <2>2, <2>3, <2>5
  <1> QED
    BY <1>2, <1>3

\* What is shown for a turn answers that turn.
LEMMA ShownAnswers ==
  ASSUME TypeOK, PageInv, NEW c, NEW t, NEW r \in Shown(c, t)
  PROVE  r \in Replies /\ r.turn = t /\ Intended(r, t) /\ Answer(r, t)
  <1>1. PICK i \in 1..Len(web) : web[i].turn = t /\ web[i].reply = r
                                  /\ web[i].reply.form \notin {"pending", "stopped"}
    BY DEF Shown, Rows
  <1>2. r \in Replies
    BY RowTyped
  <1> QED
    BY <1>1, <1>2 DEF PageInv, Answer

\* The page answers the prompt it was given.
LEMMA PageStep ==
  ASSUME WebAssumption, TypeOK, NamedInv, ProcessInv, PageInv, [Next]_vars
  PROVE  PageInv'
  <1>1. CASE \E c \in Opens : pc = "send" /\ web' = Prompt(c)
    <2>1. PICK c \in Opens : pc = "send" /\ web' = Prompt(c)
      BY <1>1
    <2>2. mem.turn \in Turns
      BY <2>1 DEF NamedInv, ProcessInv, Waiting
    <2>3. /\ Len(web) \in Nat /\ Len(web') = Len(web) + 1
          /\ \A i \in 1..Len(web) : web'[i] = web[i]
          /\ web'[Len(web) + 1].reply = [NoReply EXCEPT !.form = "pending"]
      BY <2>1, <2>2, Sent
    <2>4. [NoReply EXCEPT !.form = "pending"].form = "pending"
      BY DEF NoReply
    <2>5. web'[Len(web) + 1].reply.form = "pending"
      BY <2>3, <2>4
    <2>6. \A i \in 1..Len(web') : i \in 1..Len(web) \/ i = Len(web) + 1
      BY <2>3
    <2> QED
      BY <2>3, <2>5, <2>6 DEF PageInv, Intended
  <1>2. CASE Page
    <2>1. /\ web \in Seq(Prompts) /\ Len(web) \in Nat
          /\ \A i \in 1..Len(web) : web[i] \in Prompts /\ web[i].reply \in Replies
      <3>1. web \in Seq(Prompts)
        BY DEF TypeOK, Prompts
      <3> HIDE DEF Prompts
      <3> QED
        BY <3>1, RowTyped
    <2>2. PICK i \in 1..Len(web) :
             \/ \E r \in Answers(web[i]) \cup {[NoReply EXCEPT !.form = "stopped"]} :
                  web' = [web EXCEPT ![i].reply = r]
             \/ /\ web[i].reply.form \in {"tail", "garbage"}
                /\ web' = [web EXCEPT ![i].reply.form = "complete"]
      BY <1>2 DEF Page
    <2>3. PICK r : /\ web' = [web EXCEPT ![i].reply = r]
                   /\ r.form \notin {"pending", "stopped"} =>
                        r.turn = web[i].turn /\ Intended(r, web[i].turn)
      <3>1. CASE \E r \in Answers(web[i]) : web' = [web EXCEPT ![i].reply = r]
        <4>1. PICK r \in Answers(web[i]) : web' = [web EXCEPT ![i].reply = r]
          BY <3>1
        <4>2. r.turn = web[i].turn /\ Intended(r, web[i].turn)
          BY DEF Answers, Intents, Intended
        <4> QED
          BY <4>1, <4>2
      <3>2. CASE web' = [web EXCEPT ![i].reply = [NoReply EXCEPT !.form = "stopped"]]
        <4>1. [NoReply EXCEPT !.form = "stopped"].form = "stopped"
          BY DEF NoReply
        <4> QED
          BY <3>2, <4>1
      <3>3. CASE /\ web[i].reply.form \in {"tail", "garbage"}
                 /\ web' = [web EXCEPT ![i].reply.form = "complete"]
        <4> DEFINE r == [web[i].reply EXCEPT !.form = "complete"]
        <4>1. web' = [web EXCEPT ![i].reply = r]
          BY <3>3
        <4>2. web[i].reply.turn = web[i].turn /\ Intended(web[i].reply, web[i].turn)
          BY <3>3 DEF PageInv
        <4>3. r.turn = web[i].reply.turn /\ r.intent = web[i].reply.intent
          BY <2>1 DEF Replies
        <4> HIDE DEF r
        <4> QED
          BY <4>1, <4>2, <4>3 DEF Intended
      <3> QED
        BY <2>2, <3>1, <3>2, <3>3
    <2> DEFINE e == [web[i] EXCEPT !.reply = r]
    <2>4. e.turn = web[i].turn /\ e.reply = r
      BY <2>1 DEF Prompts
    <2>5. web' = [web EXCEPT ![i] = e]
      BY <2>3
    <2> HIDE DEF e, Prompts
    <2>6. Len(web') = Len(web) /\ web'[i] = e /\ \A k \in 1..Len(web) : k # i => web'[k] = web[k]
      BY <2>1, <2>5
    <2>7. \A k \in 1..Len(web) : web'[k].reply.form \notin {"pending", "stopped"} =>
                web'[k].reply.turn = web'[k].turn /\ Intended(web'[k].reply, web'[k].turn)
      BY <2>3, <2>4, <2>6 DEF PageInv
    <2> QED
      BY <2>6, <2>7 DEF PageInv, Intended
  <1>3. CASE web' = web
    BY <1>3 DEF PageInv, Intended
  <1> QED
    BY <1>1, <1>2, <1>3 DEF Next, vars, Generate, Reserve, JournalAsk, AskFails, AskTimesOut,
       AskReturns, Reaches, Bind, TurnTimedOut, RepairTimedOut, Scan, Read, Resume, SaveOrigin,
       SaveRepaired, Save, Settle, Refresh, Accept, StartRepair, Down, Reconcile, ReadBound

\* A response that is repaired is meant as the turn says.
LEMMA RepairedMeant ==
  ASSUME WebAssumption, ReplyInv, StartRepair
  PROVE  /\ mem.resp.intent = jrn.turn[1] /\ jrn.turn[1] # 0 /\ jrn.turn[2] \notin Repairs
         /\ mem.resp # NoReply
  <1>1. jrn.turn[2] \notin Repairs
    BY DEF ReplyInv, ExchangeInv, StartRepair, Origin, ProcessInv, Live, Repairing, Waiting,
       TypeOK, MemType
  <1>2. Intended(mem.resp, jrn.turn)
    BY DEF ReplyInv, HeldInv, StartRepair
  <1>3. jrn.turn \in Turns
    BY DEF ReplyInv, ExchangeInv, NamedInv, Waiting, StartRepair
  <1>4. jrn.turn[1] # 0
    BY <1>3, TurnIs
  <1>5. mem.resp # NoReply
    BY DEF StartRepair, NoReply
  <1> QED
    BY <1>1, <1>2, <1>4, <1>5 DEF Intended

\* A response that is repaired answers a turn that no direct form answers.
LEMMA RepairedMany ==
  ASSUME WebAssumption, DirectLast, ReplyInv, StartRepair
  PROVE  ~Direct(jrn.turn)
  <1>1. mem.resp.intent = jrn.turn[1] /\ jrn.turn[1] # 0
    BY RepairedMeant
  <1>2. mem.resp.form \in {"tail", "write"} /\ Meant(mem.resp)
    BY DEF StartRepair, ReplyInv, FormInv
  <1>3. mem.resp.turn[1] = jrn.turn[1] /\ mem.resp.form \in Broken[jrn.turn[1]]
    BY <1>1, <1>2 DEF Meant, Forms
  <1> QED
    BY <1>2, <1>3 DEF Direct, DirectLast

\* What is read of the page has a form its turn may have.
LEMMA ShownMeant ==
  ASSUME TypeOK, FormInv, NEW c, NEW t, NEW r \in Shown(c, t)
  PROVE  Meant(r) /\ c # 0
  <1>1. PICK i \in 1..Len(web) : web[i].reply = r /\ web[i].conv = c
    BY DEF Shown, Rows
  <1> QED
    BY <1>1 DEF FormInv, TypeOK

\* No reply, and no turn, has a form of its own.
LEMMA FormsOfNone ==
  /\ Meant(NoReply) /\ Single(NoTurn)
  /\ \A f : f \notin Forms => Meant([NoReply EXCEPT !.form = f])
  /\ \A n : Single(<<n, "turn">>)
  /\ \A t : Single(t) => Single(ResumeTurn(t))
  /\ Fresh.resp = NoReply /\ Fresh.turn = NoTurn
  <1>1. NoReply.intent = 0 /\ NoReply.form = "none" /\ NoReply.turn[1] = 0
    BY DEF NoReply, NoTurn
  <1>2. \A f : [NoReply EXCEPT !.form = f].intent = 0 /\ [NoReply EXCEPT !.form = f].form = f
    BY DEF NoReply
  <1>3. \A n : <<n, "turn">>[2] = "turn"
    OBVIOUS
  <1>4. Single(NoTurn) /\ \A n : Single(<<n, "turn">>)
    BY <1>3 DEF Single, Repairs, NoTurn
  <1>5. ASSUME NEW t, Single(t)
        PROVE  Single(ResumeTurn(t))
    <2> DEFINE k == IF t[2] \in Repairs THEN "repair_resume" ELSE "resume"
    <2>1. ResumeTurn(t)[1] = t[1] /\ ResumeTurn(t)[2] = k
      BY DEF ResumeTurn
    <2>2. k \in Repairs => t[2] \in Repairs
      BY DEF Repairs
    <2> QED
      BY <1>5, <2>1, <2>2 DEF Single, Direct
  <1> QED
    BY <1>1, <1>2, <1>4, <1>5 DEF Meant, Forms, Fresh

\* What is held has a form its turn may have.
LEMMA FormStep ==
  ASSUME WebAssumption, DirectLast, ReplyInv, [Next]_vars
  PROVE  FormInv'
  <1>1. mem \in MemType /\ jrn \in JrnType /\ TypeOK /\ FormInv /\ DirectInv /\ HeldInv
    BY DEF ReplyInv, ExchangeInv, TypeOK
  <1>2. mem.resp \in Replies /\ jrn.resp \in Replies /\ jrn.origin \in Replies
    BY <1>1 DEF MemType, JrnType
  <1> USE DEF FormInv
  <1>3. CASE web' = web /\ mem'.turn = mem.turn /\ mem'.resp = mem.resp /\ jrn' = jrn
    BY <1>1, <1>3
  <1>4. CASE Generate
    <2> DEFINE t == <<jrn.turn[1] + 1, "turn">>
    <2>1. mem' = [mem EXCEPT !.mode = "run", !.base = t, !.turn = t, !.used = mem.used + 1,
                             !.fresh = FALSE, !.invalid = NoReply, !.resp = NoReply]
          /\ jrn' = jrn /\ web' = web /\ Single(t)
      BY <1>4, FormsOfNone DEF Generate
    <2> HIDE DEF t
    <2>2. mem'.turn = t /\ mem'.resp = NoReply
      BY <1>1, <2>1 DEF MemType
    <2> QED
      BY <1>1, <2>1, <2>2, FormsOfNone
  <1>5. CASE JournalAsk
    <2>1. mem'.turn = mem.turn /\ mem'.resp = mem.resp /\ web' = web
      BY <1>1, <1>5 DEF JournalAsk, MemType
    <2>2. jrn'.resp = jrn.resp /\ jrn'.origin = jrn.origin /\ jrn'.turn = mem.turn
          /\ jrn'.rturn = jrn.rturn
      BY <1>1, <1>5 DEF JournalAsk, JrnType
    <2> QED
      BY <1>1, <2>1, <2>2
  <1>6. CASE \E c \in Opens : pc = "send" /\ web' = Prompt(c) /\ jrn' = jrn
                                /\ (mem' = Fresh \/ (mem'.turn = mem.turn /\ mem'.resp = mem.resp))
    <2>1. PICK c \in Opens : /\ pc = "send" /\ web' = Prompt(c) /\ jrn' = jrn
                             /\ mem' = Fresh \/ (mem'.turn = mem.turn /\ mem'.resp = mem.resp)
      BY <1>6
    <2>2. mem.turn \in Turns
      BY <2>1 DEF ReplyInv, ExchangeInv, NamedInv, ProcessInv, Waiting
    <2>3. /\ Len(web) \in Nat /\ Len(web') = Len(web) + 1
          /\ \A i \in 1..Len(web) : web'[i] = web[i]
          /\ web'[Len(web) + 1].reply = [NoReply EXCEPT !.form = "pending"]
      BY <1>1, <2>1, <2>2, Sent
    <2>4. Meant([NoReply EXCEPT !.form = "pending"])
      BY FormsOfNone DEF Forms
    <2>5. \A i \in 1..Len(web') : i \in 1..Len(web) \/ i = Len(web) + 1
      BY <2>3
    <2>6. \A i \in 1..Len(web') : Meant(web'[i].reply)
      BY <1>1, <2>3, <2>4, <2>5
    <2> QED
      BY <1>1, <2>1, <2>6, FormsOfNone
  <1>7. CASE Bind
    <2>1. jrn'.turn = jrn.turn /\ jrn'.resp = jrn.resp /\ jrn'.origin = jrn.origin
          /\ jrn'.rturn = jrn.rturn /\ mem' = mem /\ web' = web
      BY <1>1, <1>7 DEF Bind, JrnType
    <2> QED
      BY <1>1, <2>1
  <1>8. CASE RepairTimedOut
    <2> DEFINE r == [jrn.origin EXCEPT !.form = "complete"]
    <2>1. Meant(r)
      BY <1>1, <1>2, LocalIs
    <2> HIDE DEF r
    <2>2. mem'.turn = mem.turn /\ mem'.resp \in {mem.resp, r} /\ jrn' = jrn /\ web' = web
      BY <1>1, <1>8 DEF RepairTimedOut, MemType, r
    <2> QED
      BY <1>1, <2>1, <2>2
  <1>9. CASE Read
    <2>1. PICK r \in Shown(mem.conv, mem.turn) : mem' = [mem EXCEPT !.resp = r]
      BY <1>9 DEF Read
    <2>2. Meant(r) /\ mem'.turn = mem.turn /\ mem'.resp = r /\ jrn' = jrn /\ web' = web
      BY <1>1, <1>9, <2>1, ShownMeant DEF Read, MemType
    <2> QED
      BY <1>1, <2>2
  <1>10. CASE Resume
    <2> DEFINE t == ResumeTurn(mem.turn)
    <2>1. mem' = [mem EXCEPT !.turn = t, !.resumed = TRUE, !.fresh = FALSE] /\ jrn' = jrn
          /\ web' = web /\ Single(t)
      BY <1>1, <1>10, FormsOfNone DEF Resume
    <2> HIDE DEF t
    <2>2. mem'.turn = t /\ mem'.resp = mem.resp
      BY <1>1, <2>1 DEF MemType
    <2> QED
      BY <1>1, <2>1, <2>2
  <1>11. CASE SaveOrigin
    <2>1. jrn'.turn = jrn.turn /\ jrn'.resp = jrn.resp /\ jrn'.origin = mem.resp
          /\ jrn'.rturn = mem.turn /\ mem' = mem /\ web' = web
      BY <1>1, <1>11 DEF SaveOrigin, RepairStarted, JrnType
    <2> QED
      BY <1>1, <2>1
  <1>12. CASE SaveRepaired \/ Settle
    <2>1. jrn'.turn = jrn.turn /\ jrn'.resp = jrn.resp /\ jrn'.origin = jrn.origin
          /\ jrn'.rturn = jrn.rturn /\ mem' = mem /\ web' = web
      BY <1>1, <1>12 DEF SaveRepaired, Settle, RepairRecovered, JrnType
    <2> QED
      BY <1>1, <2>1
  <1>13. CASE Save
    <2> DEFINE c == Canonical(mem.resp)
    <2>1. Meant(c)
      BY <1>1, <1>2, LocalIs DEF Canonical
    <2>2. jrn' = ResponseRecovered(jrn, c) /\ mem' = mem /\ web' = web
      BY <1>13 DEF Save
    <2> HIDE DEF c
    <2>3. jrn'.turn = jrn.turn /\ jrn'.resp = c /\ jrn'.origin = jrn.origin
          /\ jrn'.rturn = jrn.rturn
      BY <1>1, <2>2 DEF ResponseRecovered, JrnType
    <2> QED
      BY <1>1, <2>1, <2>2, <2>3
  <1>14. CASE Refresh
    <2> DEFINE c == Canonical(mem.resp)
               t == IF mem.mode = "run" THEN mem.base ELSE jrn.turn
    <2>1. Meant(c)
      BY <1>1, <1>2, LocalIs DEF Canonical
    <2>2. \/ mem' = [mem EXCEPT !.resp = c]
          \/ \E r \in Shown(mem.conv, t) : mem' = [mem EXCEPT !.resp = r]
      BY <1>14 DEF Refresh
    <2> HIDE DEF c, t
    <2>3. PICK r : Meant(r) /\ mem' = [mem EXCEPT !.resp = r]
      BY <1>1, <2>1, <2>2, ShownMeant
    <2>4. mem'.turn = mem.turn /\ mem'.resp = r /\ jrn' = jrn /\ web' = web
      BY <1>1, <1>14, <2>3 DEF Refresh, MemType
    <2> QED
      BY <1>1, <2>3, <2>4
  <1>15. CASE StartRepair
    <2> DEFINE t == <<jrn.turn[1], "repair">>
    <2>1. ~Direct(t)
      BY <1>15, RepairedMany DEF Direct
    <2>2. /\ jrn' = [jrn EXCEPT !.origin = mem.resp, !.rturn = t, !.rconv = jrn.conv,
                                !.rstatus = "DISPATCHING"]
          /\ mem' = [mem EXCEPT !.turn = t, !.fresh = TRUE, !.invalid = mem.resp, !.resp = NoReply]
          /\ web' = web
      BY <1>15 DEF StartRepair, RepairStarted
    <2> HIDE DEF t
    <2>3. jrn'.turn = jrn.turn /\ jrn'.resp = jrn.resp /\ jrn'.origin = mem.resp
          /\ jrn'.rturn = t /\ mem'.turn = t /\ mem'.resp = NoReply
      BY <1>1, <2>2 DEF JrnType, MemType
    <2> QED
      BY <1>1, <2>1, <2>2, <2>3, FormsOfNone DEF Single
  <1>16. CASE Down
    BY <1>1, <1>16, FormsOfNone DEF Down
  <1>17. CASE Reconcile
    <2>1. jrn' = Rewritten /\ web' = web
          /\ mem'.turn \in {Rewritten.turn, Rewritten.rturn}
          /\ mem'.resp \in {NoReply, Rewritten.resp}
      BY <1>17, Reconciles DEF Reconcile
    <2>2. CASE Rewritten = jrn
      BY <1>1, <2>1, <2>2, FormsOfNone
    <2>3. CASE Rewritten # jrn
      <3>1. /\ Rewritten.resp.turn = jrn.turn /\ Rewritten.resp.intent = jrn.turn[1]
            /\ Rewritten.resp.form = "complete" /\ Rewritten.origin = jrn.resp
            /\ Rewritten.rturn = jrn.turn /\ Rewritten.turn = jrn.turn
        BY <1>1, <2>3, RewrittenIs
      <3>2. Meant(Rewritten.resp)
        BY <3>1 DEF Meant, Forms
      <3> QED
        BY <1>1, <2>1, <3>1, <3>2, FormsOfNone
    <2> QED
      BY <2>2, <2>3
  <1>18. CASE ReadBound
    <2>1. PICK r \in Shown(jrn.conv, jrn.turn) : mem' = [mem EXCEPT !.resp = r]
                               /\ jrn' = ResponseRecovered(jrn, r)
      BY <1>18 DEF ReadBound
    <2>2. Meant(r) /\ mem'.turn = mem.turn /\ mem'.resp = r /\ web' = web
      BY <1>1, <1>18, <2>1, ShownMeant DEF ReadBound, MemType
    <2>3. jrn'.turn = jrn.turn /\ jrn'.resp = r /\ jrn'.origin = jrn.origin
          /\ jrn'.rturn = jrn.rturn
      BY <1>1, <2>1 DEF ResponseRecovered, JrnType
    <2> QED
      BY <1>1, <2>2, <2>3
  <1>19. CASE Page
    <2>1. /\ web \in Seq(Prompts) /\ Len(web) \in Nat
          /\ \A i \in 1..Len(web) : web[i] \in Prompts /\ web[i].reply \in Replies
                                      /\ web[i].turn \in Turns
      <3>1. web \in Seq(Prompts)
        BY <1>1 DEF TypeOK, Prompts
      <3> HIDE DEF Prompts
      <3> QED
        BY <1>1, <3>1, RowTyped
    <2>2. PICK i \in 1..Len(web) :
             \/ \E r \in Answers(web[i]) \cup {[NoReply EXCEPT !.form = "stopped"]} :
                  web' = [web EXCEPT ![i].reply = r]
             \/ web' = [web EXCEPT ![i].reply.form = "complete"]
      BY <1>19 DEF Page
    <2>3. PICK r : web' = [web EXCEPT ![i].reply = r] /\ Meant(r)
      <3>1. CASE \E r \in Answers(web[i]) : web' = [web EXCEPT ![i].reply = r]
        <4>1. PICK r \in Answers(web[i]) : web' = [web EXCEPT ![i].reply = r]
          BY <3>1
        <4>2. r.turn = web[i].turn /\ r.intent \in {web[i].turn[1], 0}
              /\ r.form \in {"complete"} \cup Broken[web[i].turn[1]]
          BY DEF Answers, Intents
        <4>3. web[i].turn[1] \in 1..MaxTurns
          BY <2>1, TurnIs
        <4> QED
          BY <4>1, <4>2, <4>3 DEF Meant, Forms
      <3>2. CASE web' = [web EXCEPT ![i].reply = [NoReply EXCEPT !.form = "stopped"]]
        BY <3>2, FormsOfNone DEF Forms
      <3>3. CASE web' = [web EXCEPT ![i].reply.form = "complete"]
        <4> DEFINE r == [web[i].reply EXCEPT !.form = "complete"]
        <4>1. web' = [web EXCEPT ![i].reply = r]
          BY <3>3
        <4>2. Meant(r)
          BY <1>1, <2>1, LocalIs
        <4> HIDE DEF r
        <4> QED
          BY <4>1, <4>2
      <3> QED
        BY <2>2, <3>1, <3>2, <3>3
    <2> DEFINE e == [web[i] EXCEPT !.reply = r]
    <2>4. e.reply = r
      BY <2>1 DEF Prompts
    <2>5. web' = [web EXCEPT ![i] = e]
      BY <2>3
    <2> HIDE DEF e, Prompts
    <2>6. Len(web') = Len(web) /\ web'[i] = e /\ \A k \in 1..Len(web) : k # i => web'[k] = web[k]
      BY <2>1, <2>5
    <2>7. \A k \in 1..Len(web') : Meant(web'[k].reply)
      BY <1>1, <2>3, <2>4, <2>6
    <2> QED
      BY <1>1, <1>19, <2>7 DEF Page
  <1>20. CASE Reserve \/ Scan \/ TurnTimedOut \/ Accept \/ UNCHANGED vars
    <2>1. web' = web /\ mem'.turn = mem.turn /\ mem'.resp = mem.resp /\ jrn' = jrn
      BY <1>1, <1>20 DEF Reserve, Scan, TurnTimedOut, Accept, vars, MemType
    <2> QED
      BY <2>1, <1>3
  <1>21. CASE AskFails
    BY <1>6, <1>21 DEF AskFails
  <1>22. CASE AskTimesOut
    <2>1. CASE UNCHANGED <<web, mem>>
      BY <1>3, <1>22, <2>1 DEF AskTimesOut
    <2>2. CASE \E c \in Opens : Reaches(c)
      <3>1. PICK c \in Opens : Reaches(c)
        BY <2>2
      <3>2. mem'.turn = mem.turn /\ mem'.resp = mem.resp /\ web' = Prompt(c)
        BY <1>1, <3>1 DEF Reaches, MemType
      <3> QED
        BY <1>6, <1>22, <3>2 DEF AskTimesOut
    <2> QED
      BY <1>22, <2>1, <2>2 DEF AskTimesOut
  <1>23. CASE AskReturns
    <2>1. PICK c \in Opens : web' = Prompt(c) /\ mem' = [mem EXCEPT !.sends = mem.sends + 1, !.conv = c]
      BY <1>23 DEF AskReturns
    <2>2. mem'.turn = mem.turn /\ mem'.resp = mem.resp
      BY <1>1, <2>1 DEF MemType
    <2> QED
      BY <1>6, <1>23, <2>1, <2>2 DEF AskReturns
  <1> QED
    BY <1>4, <1>5, <1>7, <1>8, <1>9, <1>10, <1>11, <1>12, <1>13, <1>14, <1>15, <1>16, <1>17,
       <1>18, <1>19, <1>20, <1>21, <1>22, <1>23 DEF Next

\* A response that has to be rewritten is meant as its turn says.
LEMMA RewriteDue ==
  ASSUME WebAssumption, ReplyInv, NeedsOrigin, pc \in {"save", "origin", "store"}
  PROVE  /\ mem.resp.form = "direct" /\ mem.resp.turn = mem.turn
         /\ mem.turn[1] # 0 /\ mem.resp.intent = mem.turn[1]
  <1>1. TypeOK /\ mem.resp \in Replies /\ FormInv /\ Answer(mem.resp, mem.turn)
    BY DEF ReplyInv, ExchangeInv, TypeOK, MemType, HeldInv
  <1>2. mem.resp.form = "direct"
    BY <1>1, CanonicalIs DEF NeedsOrigin
  <1> QED
    BY <1>1, <1>2, DirectAnswer DEF FormInv

\* A direct form in the journal is never followed by another turn.
LEMMA DirectStep ==
  ASSUME WebAssumption, DirectLast, ReplyInv, [Next]_vars
  PROVE  DirectInv'
  <1>1. /\ mem \in MemType /\ jrn \in JrnType /\ TypeOK /\ FormInv /\ DirectInv /\ HeldInv
        /\ mem.resp \in Replies /\ jrn.resp \in Replies
    BY DEF ReplyInv, ExchangeInv, TypeOK, MemType, JrnType
  <1>2. jrn.resp.form = "direct" => Direct(jrn.turn)
    BY <1>1, DirectAnswer DEF DirectInv, HeldInv, FormInv
  <1> USE DEF DirectInv
  <1>3. CASE Generate
    <2>1. ~Direct(jrn.turn)
      <3>1. jrn.turn[1] < MaxTurns /\ MaxTurns \in Nat
        BY <1>3 DEF Generate, WebAssumption
      <3> QED
        BY <3>1 DEF Direct, DirectLast
    <2> QED
      BY <1>1, <1>2, <1>3, <2>1 DEF Generate
  <1>4. CASE \/ Reserve \/ AskFails \/ AskTimesOut \/ AskReturns \/ TurnTimedOut \/ RepairTimedOut
             \/ Scan \/ Read \/ Resume
    BY <1>1, <1>4 DEF Reserve, AskFails, AskTimesOut, AskReturns, TurnTimedOut, RepairTimedOut,
       Scan, Read, Resume, MayResume
  <1>5. CASE JournalAsk \/ Bind \/ SaveOrigin \/ SaveRepaired \/ Settle
    <2>1. jrn'.resp = jrn.resp /\ jrn.resp.form # "direct"
      BY <1>1, <1>5 DEF JournalAsk, Bind, SaveOrigin, SaveRepaired, Settle, RepairStarted,
         RepairRecovered, JrnType
    <2>2. pc' \in {"origin", "store"} => NeedsOrigin /\ mem' = mem
      BY <1>1, <1>5 DEF JournalAsk, Bind, SaveOrigin, SaveRepaired, Settle, AfterSave
    <2> QED
      BY <2>1, <2>2 DEF NeedsOrigin, Canonical
  <1>6. CASE Save
    <2> DEFINE c == Canonical(mem.resp)
    <2>1. c.form # "direct"
      <3>1. CASE Composite
        BY <1>1, <3>1, CanonicalIs
      <3>2. CASE ~Composite
        BY <1>1, <3>2, CanonicalIs, DirectForm DEF FormInv
      <3> QED
        BY <3>1, <3>2
    <2>2. jrn' = ResponseRecovered(jrn, c) /\ pc' \notin {"origin", "store"}
      BY <1>6 DEF Save, AfterSave
    <2> HIDE DEF c
    <2>3. jrn'.resp = c
      BY <1>1, <2>2 DEF ResponseRecovered, JrnType
    <2> QED
      BY <2>1, <2>2, <2>3
  <1>7. CASE Refresh \/ Accept \/ Down
    BY <1>1, <1>7 DEF Refresh, Accept, Down
  <1>8. CASE StartRepair
    <2>1. jrn.resp.form # "direct"
      BY <1>2, <1>8, RepairedMany
    <2>2. jrn'.resp = jrn.resp /\ pc' = "reserve"
      BY <1>1, <1>8 DEF StartRepair, RepairStarted, JrnType
    <2> QED
      BY <2>1, <2>2
  <1>9. CASE Reconcile
    <2>1. jrn' = Rewritten /\ Rewritten.resp.form # "direct"
      BY <1>1, <1>9, Reconciles, RewrittenIs
    <2> QED
      BY <2>1, <1>9 DEF Reconcile
  <1>10. CASE ReadBound
    <2>1. PICK r \in Shown(jrn.conv, jrn.turn) : jrn' = ResponseRecovered(jrn, r)
      BY <1>10 DEF ReadBound
    <2>2. jrn.conv # 0
      BY <1>1, <2>1, ShownMeant
    <2>3. jrn'.status = "RESPONSE_RECOVERED" /\ jrn'.conv = jrn.conv
      BY <1>1, <2>1 DEF ResponseRecovered, JrnType
    <2> QED
      BY <2>2, <2>3, <1>10 DEF ReadBound
  <1>11. CASE Page \/ UNCHANGED vars
    BY <1>1, <1>11 DEF Page, vars, NeedsOrigin, Canonical
  <1> QED
    BY <1>3, <1>4, <1>5, <1>6, <1>7, <1>8, <1>9, <1>10, <1>11 DEF Next

\* A repair is about a response that was understood.
LEMMA OriginStep ==
  ASSUME WebAssumption, DirectLast, ReplyInv, [Next]_vars
  PROVE  OriginInv'
  <1> USE DEF OriginInv, Sending
  <1>1. mem \in MemType /\ jrn \in JrnType
    BY DEF ReplyInv, ExchangeInv, TypeOK
  <1>2. Fresh.invalid = NoReply /\ Fresh.mode = "run"
    BY DEF Fresh
  <1>3. OriginInv
    BY DEF ReplyInv
  <1>4. pc \in Sending \cup {"send"} => Live
    BY DEF ReplyInv, ExchangeInv, ProcessInv
  <1>5. CASE Generate
    <2>1. mem'.invalid = NoReply /\ ~mem'.fresh /\ mem'.mode = "run"
      BY <1>1, <1>5 DEF Generate, MemType
    <2> QED
      BY <1>3, <2>1, <1>5 DEF Generate
  <1>6. CASE Reserve
    <2>1. mem'.mode = mem.mode /\ mem'.turn = mem.turn /\ mem'.fresh = mem.fresh
          /\ mem'.invalid = mem.invalid
      BY <1>1, <1>6 DEF Reserve, MemType
    <2> QED
      BY <1>1, <1>2, <1>3, <1>4, <2>1, <1>6 DEF Reserve, Live, Repairing
  <1>7. CASE JournalAsk
    <2>1. mem'.mode = mem.mode /\ mem'.turn = mem.turn /\ mem'.fresh = mem.fresh
          /\ mem'.invalid = mem.invalid
      BY <1>1, <1>7 DEF JournalAsk, MemType
    <2>2. jrn'.origin = jrn.origin /\ jrn'.rstatus = jrn.rstatus /\ jrn'.rturn = jrn.rturn
      BY <1>1, <1>7 DEF JournalAsk, JrnType
    <2> QED
      BY <1>3, <2>1, <2>2, <1>7 DEF JournalAsk
  <1>8. CASE AskFails
    BY <1>1, <1>2, <1>3, <1>4, <1>8 DEF AskFails
  <1>9. CASE AskTimesOut
    <2>1. mem'.mode = mem.mode /\ mem'.turn = mem.turn /\ mem'.fresh = mem.fresh
          /\ mem'.invalid = mem.invalid
      BY <1>1, <1>9 DEF AskTimesOut, Reaches, MemType
    <2> QED
      BY <1>3, <1>4, <2>1, <1>9 DEF AskTimesOut, Live, Repairing
  <1>10. CASE AskReturns
    <2>1. mem'.mode = mem.mode /\ mem'.turn = mem.turn /\ mem'.fresh = mem.fresh
          /\ mem'.invalid = mem.invalid
      BY <1>1, <1>10 DEF AskReturns, MemType
    <2> QED
      BY <1>1, <1>2, <1>3, <1>4, <2>1, <1>10 DEF AskReturns, Live, Repairing
  <1>11. CASE Bind
    <2>1. jrn'.origin = jrn.origin /\ jrn'.rstatus = jrn.rstatus /\ jrn'.rturn = jrn.rturn
      BY <1>1, <1>11 DEF Bind, JrnType
    <2> QED
      BY <1>3, <2>1, <1>11 DEF Bind
  <1>12. CASE TurnTimedOut
    <2>1. mem'.mode = mem.mode /\ mem'.turn = mem.turn /\ mem'.fresh = mem.fresh
          /\ mem'.invalid = mem.invalid
      BY <1>1, <1>12 DEF TurnTimedOut, MemType
    <2> QED
      BY <1>1, <1>2, <1>3, <1>4, <2>1, <1>12 DEF TurnTimedOut, Live, Repairing
  <1>13. CASE RepairTimedOut
    <2>1. mem'.invalid = mem.invalid
      BY <1>1, <1>13 DEF RepairTimedOut, MemType
    <2> QED
      BY <1>3, <2>1, <1>13 DEF RepairTimedOut
  <1>14. CASE Scan
    <2>1. mem'.mode = mem.mode /\ mem'.turn = mem.turn /\ mem'.fresh = mem.fresh
          /\ mem'.invalid = mem.invalid
      BY <1>1, <1>14 DEF Scan, MemType
    <2> QED
      BY <1>1, <1>2, <1>3, <1>4, <2>1, <1>14 DEF Scan, Live, Repairing
  <1>15. CASE Read
    <2>1. mem'.mode = mem.mode /\ mem'.turn = mem.turn /\ mem'.fresh = mem.fresh
          /\ mem'.invalid = mem.invalid
      BY <1>1, <1>15 DEF Read, MemType
    <2> QED
      BY <1>1, <1>2, <1>3, <1>4, <2>1, <1>15 DEF Read, Live, Repairing
  <1>16. CASE Resume
    <2>1. mem'.invalid = mem.invalid /\ ~mem'.fresh
      BY <1>1, <1>16 DEF Resume, MemType
    <2> QED
      BY <1>3, <2>1, <1>16 DEF Resume
  <1>17. CASE SaveOrigin
    <2>1. mem.resp.form = "direct" /\ mem.resp.intent = mem.turn[1] /\ mem.turn[1] # 0
      BY <1>17, RewriteDue DEF SaveOrigin
    <2>2. jrn'.origin = mem.resp /\ jrn'.rturn = mem.turn /\ mem' = mem /\ pc' = "origin"
      BY <1>1, <1>17 DEF SaveOrigin, RepairStarted, JrnType
    <2> QED
      BY <1>3, <2>1, <2>2
  <1>18. CASE SaveRepaired
    <2>1. jrn'.origin = jrn.origin /\ jrn'.rstatus = "RECOVERED" /\ mem' = mem /\ pc' = "store"
      BY <1>1, <1>18 DEF SaveRepaired, RepairRecovered, JrnType
    <2> QED
      BY <1>3, <2>1
  <1>19. CASE Save
    <2>1. jrn'.origin = jrn.origin /\ jrn'.rstatus = jrn.rstatus /\ jrn'.rturn = jrn.rturn
      BY <1>1, <1>19 DEF Save, ResponseRecovered, JrnType
    <2> QED
      BY <1>3, <2>1, <1>19 DEF Save, AfterSave
  <1>20. CASE Settle
    <2>1. jrn'.origin = jrn.origin /\ jrn'.rstatus = "RECOVERED"
      BY <1>1, <1>20 DEF Settle, RepairRecovered, JrnType
    <2> QED
      BY <1>3, <2>1, <1>20 DEF Settle, AfterSave
  <1>21. CASE Refresh
    <2>1. mem'.invalid = mem.invalid
      BY <1>1, <1>21 DEF Refresh, MemType
    <2> QED
      BY <1>3, <2>1, <1>21 DEF Refresh
  <1>22. CASE Accept
    BY <1>1, <1>2, <1>3, <1>4, <1>22 DEF Accept
  <1>23. CASE StartRepair
    <2> DEFINE t == <<jrn.turn[1], "repair">>
    <2>1. mem.resp.intent = jrn.turn[1] /\ jrn.turn[1] # 0 /\ mem.resp # NoReply
      BY RepairedMeant, <1>23 DEF ReplyInv
    <2>2. t[1] = jrn.turn[1] /\ t[2] = "repair"
      OBVIOUS
    <2>3. /\ jrn' = [jrn EXCEPT !.origin = mem.resp, !.rturn = t, !.rconv = jrn.conv,
                                !.rstatus = "DISPATCHING"]
          /\ mem' = [mem EXCEPT !.turn = t, !.fresh = TRUE, !.invalid = mem.resp, !.resp = NoReply]
          /\ pc' = "reserve"
      BY <1>23 DEF StartRepair, RepairStarted
    <2> HIDE DEF t
    <2>4. jrn'.origin = mem.resp /\ jrn'.rturn = t /\ mem'.turn = t /\ mem'.invalid = mem.resp
      BY <1>1, <2>3 DEF JrnType, MemType
    <2> QED
      BY <2>1, <2>2, <2>3, <2>4
  <1>24. CASE Down
    BY <1>1, <1>2, <1>3, <1>4, <1>24 DEF Down
  <1>25. CASE Reconcile
    <2>1. /\ jrn' = Rewritten /\ mem'.invalid = NoReply
          /\ \/ pc' = "timeout" /\ mem'.fresh /\ mem'.turn = Rewritten.rturn
             \/ pc' \in {"bound", "refresh"}
      BY <1>25, Reconciles
    <2>2. \/ Rewritten = jrn
          \/ Rewritten.origin.intent # 0 /\ Rewritten.rstatus = "RECOVERED"
      BY RewrittenIs DEF ReplyInv, ExchangeInv
    <2> QED
      BY <1>3, <2>1, <2>2
  <1>26. CASE ReadBound
    <2>1. mem'.invalid = mem.invalid
      BY <1>1, <1>26 DEF ReadBound, MemType
    <2>2. jrn'.origin = jrn.origin /\ jrn'.rstatus = jrn.rstatus /\ jrn'.rturn = jrn.rturn
      BY <1>1, <1>26 DEF ReadBound, ResponseRecovered, JrnType
    <2> QED
      BY <1>3, <2>1, <2>2, <1>26 DEF ReadBound
  <1>27. CASE Page
    BY <1>3, <1>27 DEF Page, Live, Repairing
  <1>28. CASE UNCHANGED vars
    BY <1>3, <1>28 DEF vars, Live, Repairing
  <1> QED
    BY <1>5, <1>6, <1>7, <1>8, <1>9, <1>10, <1>11, <1>12, <1>13, <1>14, <1>15, <1>16, <1>17,
       <1>18, <1>19, <1>20, <1>21, <1>22, <1>23, <1>24, <1>25, <1>26, <1>27, <1>28 DEF Next

\* A call that was given stays what was meant.
LEMMA MeantStep ==
  ASSUME WebAssumption, DirectLast, ReplyInv, [Next]_vars
  PROVE  GivenIsMeant'
  <1> USE DEF GivenIsMeant
  <1>1. CASE Accept
    <2>1. given' = <<jrn.turn[1], mem.resp.intent>> /\ pc = "check"
      BY <1>1 DEF Accept
    <2>2. Intended(mem.resp, jrn.turn)
      BY <2>1 DEF ReplyInv, HeldInv
    <2>3. CASE mem.resp.intent = 0 /\ jrn.turn[2] \in Repairs
      <3>1. jrn.origin # NoReply
        BY <2>3 DEF ReplyInv, ExchangeInv, ProcessInv
      <3>2. Origin # NoReply
        <4>1. CASE Repairing
          BY <4>1 DEF Origin, Repairing
        <4>2. CASE ~Repairing
          <5>1. mem.mode # "run"
            BY <2>1, <2>3, <4>2 DEF ReplyInv, ExchangeInv, ProcessInv, Live, Waiting
          <5>2. mem.mode = "reconcile"
            BY <5>1 DEF ReplyInv, ExchangeInv, TypeOK, MemType
          <5> QED
            BY <3>1, <4>2, <5>2 DEF Origin
        <4> QED
          BY <4>1, <4>2
      <3>3. Origin.intent # 0
        BY <3>2 DEF Origin, ReplyInv, OriginInv
      <3> QED
        BY <1>1, <2>3, <3>2, <3>3 DEF Accept, Matches
    <2> QED
      BY <2>1, <2>2, <2>3 DEF Intended
  <1>2. CASE given' = given
    BY <1>2 DEF ReplyInv
  <1> QED
    BY <1>1, <1>2 DEF Next, vars, Generate, Reserve, JournalAsk, AskFails, AskTimesOut,
       AskReturns, Bind, TurnTimedOut, RepairTimedOut, Scan, Read, Resume, SaveOrigin,
       SaveRepaired, Save, Settle, Refresh, StartRepair, Down, Reconcile, ReadBound, Page

\* What is held answers the turn it is held for.
LEMMA HeldStep ==
  ASSUME WebAssumption, DirectLast, ReplyInv, [Next]_vars
  PROVE  HeldInv'
  <1> USE DEF Sending, Waiting, Live, Repairing
  <1>1. mem \in MemType /\ jrn \in JrnType
    BY DEF ReplyInv, ExchangeInv, TypeOK
  <1>2. Fresh.invalid = NoReply /\ Fresh.mode = "run" /\ Fresh.resp = NoReply
    BY DEF Fresh
  <1>3. HeldInv /\ ProcessInv /\ OriginInv /\ PageInv /\ TypeOK
    BY DEF ReplyInv, ExchangeInv
  <1>4. CASE Generate
    <2> DEFINE t == <<jrn.turn[1] + 1, "turn">>
    <2>1. t[2] \notin Repairs
      BY DEF Repairs
    <2>2. mem' = [mem EXCEPT !.mode = "run", !.base = t, !.turn = t, !.used = mem.used + 1,
                             !.fresh = FALSE, !.invalid = NoReply, !.resp = NoReply]
          /\ jrn' = jrn /\ pc' = "ask"
      BY <1>4 DEF Generate
    <2> HIDE DEF t
    <2>3. mem'.base = t /\ mem'.turn = t /\ mem'.resp = NoReply
      BY <1>1, <2>2 DEF MemType
    <2> QED
      BY <1>3, <2>1, <2>2, <2>3 DEF HeldInv, Answer, Intended, Local
  <1>5. CASE Reserve
    <2>1. mem'.mode = mem.mode /\ mem'.base = mem.base /\ mem'.turn = mem.turn
          /\ mem'.invalid = mem.invalid /\ mem'.resp = mem.resp
      BY <1>1, <1>5 DEF Reserve, MemType
    <2> QED
      BY <1>3, <2>1, <1>5 DEF Reserve, HeldInv, Answer, Intended, Local
  <1>6. CASE JournalAsk
    <2>1. mem'.mode = mem.mode /\ mem'.base = mem.base /\ mem'.turn = mem.turn
          /\ mem'.invalid = mem.invalid /\ mem'.resp = mem.resp
      BY <1>1, <1>6 DEF JournalAsk, MemType
    <2>2. jrn'.resp = jrn.resp /\ jrn'.origin = jrn.origin /\ jrn'.turn = mem.turn
          /\ jrn'.status = "ASK_DISPATCHING"
      BY <1>1, <1>6 DEF JournalAsk, JrnType
    <2> QED
      BY <1>3, <2>1, <2>2, <1>6 DEF JournalAsk, HeldInv, Answer, Intended, Local
  <1>7. CASE AskFails
    BY <1>3, <1>7 DEF AskFails, HeldInv, Answer, Intended, Local
  <1>8. CASE AskTimesOut
    <2>1. mem'.mode = mem.mode /\ mem'.base = mem.base /\ mem'.turn = mem.turn
          /\ mem'.invalid = mem.invalid /\ mem'.resp = mem.resp
      BY <1>1, <1>8 DEF AskTimesOut, MemType, Reaches
    <2> QED
      BY <1>3, <2>1, <1>8 DEF AskTimesOut, HeldInv, Answer, Intended, Local
  <1>9. CASE AskReturns
    <2>1. mem'.mode = mem.mode /\ mem'.base = mem.base /\ mem'.turn = mem.turn
          /\ mem'.invalid = mem.invalid /\ mem'.resp = mem.resp
      BY <1>1, <1>9 DEF AskReturns, MemType
    <2> QED
      BY <1>3, <2>1, <1>9 DEF AskReturns, HeldInv, Answer, Intended, Local
  <1>10. CASE Bind
    <2>1. jrn'.turn = jrn.turn /\ jrn'.resp = jrn.resp /\ jrn'.origin = jrn.origin
          /\ jrn'.status = "CONVERSATION_BOUND"
      BY <1>1, <1>10 DEF Bind, JrnType
    <2> QED
      BY <1>3, <2>1, <1>10 DEF Bind, HeldInv, Answer, Intended, Local
  <1>11. CASE TurnTimedOut
    <2>1. Live /\ pc' \in {"read", "scan"} /\ jrn' = jrn /\ jrn.status = "ASK_DISPATCHING"
      BY <1>3, <1>11 DEF TurnTimedOut, OriginInv, HeldInv
    <2>2. mem'.mode = mem.mode /\ mem'.base = mem.base /\ mem'.turn = mem.turn
          /\ mem'.invalid = mem.invalid /\ mem'.resp = mem.resp
      BY <1>1, <1>11 DEF TurnTimedOut, MemType
    <2> QED
      BY <1>3, <2>1, <2>2, <1>11 DEF TurnTimedOut, HeldInv, Answer, Intended, Local
  <1>12. CASE RepairTimedOut
    <2>1. CASE Projectable
      <3> DEFINE r == [jrn.origin EXCEPT !.form = "complete"]
      <3>1. mem.turn = jrn.rturn /\ jrn.rturn[2] = "repair" /\ jrn.origin.intent = jrn.rturn[1]
        BY <1>3, <2>1, <1>12 DEF RepairTimedOut, Projectable, OriginInv
      <3>2. r.intent = jrn.origin.intent /\ Local(r)
        BY <1>1 DEF JrnType, Replies, Local
      <3>3. Answer(r, mem.turn)
        BY <3>1, <3>2 DEF Answer, Intended
      <3>4. mem' = [mem EXCEPT !.conv = jrn.rconv, !.resp = r] /\ pc' = "bind" /\ jrn' = jrn
        BY <2>1, <1>12 DEF RepairTimedOut
      <3> HIDE DEF r
      <3>5. mem'.resp = r /\ mem'.turn = mem.turn /\ mem'.mode = mem.mode /\ mem'.base = mem.base
            /\ mem'.invalid = mem.invalid
        BY <1>1, <3>4 DEF MemType
      <3> QED
        BY <1>3, <3>3, <3>4, <3>5, <1>12 DEF RepairTimedOut, HeldInv, Answer, Intended, Local
    <2>2. CASE ~Projectable
      <3>1. mem'.mode = mem.mode /\ mem'.base = mem.base /\ mem'.turn = mem.turn
            /\ mem'.invalid = mem.invalid /\ mem'.resp = mem.resp /\ pc' = "scan" /\ jrn' = jrn
        BY <1>1, <2>2, <1>12 DEF RepairTimedOut, MemType
      <3> QED
        BY <1>3, <3>1, <1>12 DEF RepairTimedOut, HeldInv, Answer, Intended, Local
    <2> QED
      BY <2>1, <2>2
  <1>13. CASE Scan
    <2>1. mem'.mode = mem.mode /\ mem'.base = mem.base /\ mem'.turn = mem.turn
          /\ mem'.invalid = mem.invalid /\ mem'.resp = mem.resp
      BY <1>1, <1>13 DEF Scan, MemType
    <2> QED
      BY <1>3, <2>1, <1>13 DEF Scan, HeldInv, Answer, Intended, Local
  <1>14. CASE Read
    <2>1. PICK r \in Shown(mem.conv, mem.turn) : mem' = [mem EXCEPT !.resp = r]
      BY <1>14 DEF Read
    <2>2. Answer(r, mem.turn)
      BY <1>3, <2>1, ShownAnswers
    <2>3. mem'.mode = mem.mode /\ mem'.base = mem.base /\ mem'.turn = mem.turn
          /\ mem'.invalid = mem.invalid /\ mem'.resp = r
      BY <1>1, <2>1 DEF MemType
    <2> QED
      BY <1>3, <2>2, <2>3, <1>14 DEF Read, HeldInv, Answer, Intended, Local
  <1>15. CASE Resume
    <2> DEFINE t == ResumeTurn(mem.turn)
    <2>1. t[1] = mem.turn[1]
      BY DEF ResumeTurn
    <2>2. mem' = [mem EXCEPT !.turn = t, !.resumed = TRUE, !.fresh = FALSE] /\ jrn' = jrn
          /\ pc' = "reserve"
      BY <1>15 DEF Resume
    <2>3. pc = "read"
      BY <1>15 DEF Resume, MayResume
    <2> HIDE DEF t
    <2>4. mem'.mode = mem.mode /\ mem'.base = mem.base /\ mem'.turn = t
          /\ mem'.invalid = mem.invalid /\ mem'.resp = mem.resp
      BY <1>1, <2>2 DEF MemType
    <2> QED
      BY <1>3, <2>1, <2>2, <2>3, <2>4 DEF HeldInv, Answer, Intended, Local
  <1>16. CASE SaveOrigin
    <2>1. mem.resp.turn = mem.turn /\ mem.resp.intent = mem.turn[1]
      BY <1>16, RewriteDue DEF SaveOrigin
    <2>2. pc = "save" /\ pc' = "origin" /\ mem' = mem /\ jrn'.status = jrn.status
      BY <1>1, <1>16 DEF SaveOrigin, RepairStarted, JrnType
    <2> QED
      BY <1>3, <2>1, <2>2 DEF HeldInv, Answer, Intended
  <1>17. CASE SaveRepaired
    <2>1. pc = "origin" /\ pc' = "store" /\ mem' = mem /\ jrn'.status = jrn.status
          /\ jrn'.origin = jrn.origin
      BY <1>1, <1>17 DEF SaveRepaired, RepairRecovered, JrnType
    <2> QED
      BY <1>3, <2>1 DEF HeldInv, Answer, Intended, Local
  <1>18. CASE Save
    <2> DEFINE c == Canonical(mem.resp)
    <2>1. pc \in {"save", "store"} /\ jrn.turn = mem.turn /\ mem' = mem
          /\ jrn' = ResponseRecovered(jrn, c)
      BY <1>18 DEF Save, MayRecover
    <2>2. Answer(mem.resp, mem.turn) /\ mem.resp \in Replies
      BY <1>1, <1>3, <2>1 DEF HeldInv, MemType
    <2>3. Answer(c, mem.turn)
      <3>1. CASE pc = "save"
        <4>1. c = mem.resp
          BY <1>18, <3>1 DEF Save, NeedsOrigin
        <4> QED
          BY <2>2, <4>1
      <3>2. CASE pc = "store"
        <4>1. mem.resp.turn = mem.turn
          BY <1>3, <3>2 DEF HeldInv
        <4> QED
          BY <2>2, <4>1, CanonicalIs DEF Answer, Intended
      <3> QED
        BY <2>1, <3>1, <3>2
    <2> HIDE DEF c
    <2>4. Answer(jrn.resp, jrn.turn)'
      <3>1. jrn'.turn = jrn.turn /\ jrn'.origin = jrn.origin /\ jrn'.resp = c
        BY <1>1, <2>1 DEF ResponseRecovered, JrnType
      <3> QED
        BY <2>1, <2>3, <3>1 DEF Answer, Local, Intended
    <2>7. jrn'.turn = jrn.turn
      BY <1>1, <2>1 DEF ResponseRecovered, JrnType
    <2>5. Intended(mem'.resp, jrn'.turn)
      BY <2>1, <2>2, <2>7 DEF Answer
    <2>6. pc' \in {"settle", "check", "refresh"} /\ (pc' = "refresh" => ~Repairing)
      BY <1>18 DEF Save, AfterSave
    <2> QED
      BY <1>3, <2>1, <2>4, <2>5, <2>6 DEF HeldInv
  <1>19. CASE Settle
    <2>1. jrn'.turn = jrn.turn /\ jrn'.status = jrn.status /\ jrn'.resp = jrn.resp
          /\ jrn'.origin = jrn.origin
      BY <1>1, <1>19 DEF Settle, JrnType, RepairRecovered
    <2> QED
      BY <1>3, <2>1, <1>19 DEF Settle, HeldInv, Answer, Intended, Local, AfterSave
  <1>20. CASE Refresh
    <2>1. Intended(mem'.resp, jrn.turn)
      <3> DEFINE c == Canonical(mem.resp)
      <3>0. c.intent = mem.resp.intent
        BY <1>1, CanonicalIs DEF MemType
      <3> HIDE DEF c
      <3>1. CASE mem'.resp = c
        BY <1>3, <3>0, <3>1, <1>20 DEF Refresh, HeldInv, Intended
      <3>2. CASE mem'.resp # c
        <4> DEFINE t == IF mem.mode = "run" THEN mem.base ELSE jrn.turn
        <4>1. PICK s \in Shown(mem.conv, t) : mem' = [mem EXCEPT !.resp = s]
          <5>1. mem' # [mem EXCEPT !.resp = c]
            BY <1>1, <3>2 DEF MemType
          <5> QED
            BY <5>1, <1>20 DEF Refresh, c
        <4>2. Intended(s, t)
          BY <1>3, ShownAnswers
        <4>3. mem'.resp = s
          BY <1>1, <4>1 DEF MemType
        <4>4. mem.mode = "run" =>
                mem.turn = jrn.turn /\ mem.base[1] = jrn.turn[1] /\ mem.base[2] \notin Repairs
          BY <1>3, <1>20 DEF Refresh, HeldInv, ProcessInv
        <4> QED
          BY <4>2, <4>3, <4>4 DEF Intended
      <3> QED
        BY <3>1, <3>2
    <2>2. mem'.mode = mem.mode /\ mem'.base = mem.base /\ mem'.turn = mem.turn
          /\ mem'.invalid = mem.invalid
      BY <1>1, <1>20 DEF Refresh, MemType
    <2>3. jrn' = jrn /\ pc' = "check"
      BY <1>20 DEF Refresh
    <2> QED
      BY <1>3, <2>1, <2>2, <2>3, <1>20 DEF Refresh, HeldInv, Answer, Intended, Local
  <1>21. CASE Accept
    BY <1>3, <1>21 DEF Accept, HeldInv, Answer, Intended, Local
  <1>22. CASE StartRepair
    <2> DEFINE t == <<jrn.turn[1], "repair">>
    <2>1. t[1] = jrn.turn[1]
      OBVIOUS
    <2>2. jrn.turn[2] # "repair"
      BY RepairedMeant, <1>22 DEF Repairs
    <2>3. mem.mode = "run" => mem.turn = jrn.turn
      BY <1>3, <1>22 DEF StartRepair, ProcessInv
    <2>4. mem' = [mem EXCEPT !.turn = t, !.fresh = TRUE, !.invalid = mem.resp, !.resp = NoReply]
          /\ pc' = "reserve" /\ pc = "check"
      BY <1>22 DEF StartRepair
    <2>5. jrn'.turn = jrn.turn /\ jrn'.status = jrn.status /\ jrn'.resp = jrn.resp
      BY <1>1, <1>22 DEF StartRepair, RepairStarted, JrnType
    <2> HIDE DEF t
    <2>6. mem'.mode = mem.mode /\ mem'.base = mem.base /\ mem'.turn = t
          /\ mem'.resp = NoReply
      BY <1>1, <2>4 DEF MemType
    <2>7. jrn.status = "RESPONSE_RECOVERED" =>
            Intended(jrn.resp, jrn.turn) /\ jrn.resp.turn = jrn.turn
      BY <1>3, <2>2 DEF HeldInv, Answer
    <2> QED
      BY <1>3, <2>1, <2>3, <2>4, <2>5, <2>6, <2>7 DEF HeldInv, Answer, Intended, Local
  <1>23. CASE Down
    BY <1>3, <1>23 DEF Down, HeldInv, Answer, Intended, Local
  <1>24. CASE Reconcile
    <2>1. /\ jrn' = Rewritten /\ mem'.mode = "reconcile" /\ mem'.invalid = NoReply
          /\ \/ pc' \in {"timeout", "bound"} /\ mem'.resp = NoReply
             \/ /\ pc' = "refresh" /\ mem'.resp = Rewritten.resp
                /\ Rewritten.status = "RESPONSE_RECOVERED"
      BY <1>24, Reconciles
    <2>2. Rewritten.status = "RESPONSE_RECOVERED" =>
            Answer(jrn.resp, jrn.turn)' /\ Intended(Rewritten.resp, Rewritten.turn)
      <3>1. CASE Rewritten = jrn
        BY <1>3, <2>1, <3>1 DEF HeldInv, Answer, Intended, Local
      <3>2. CASE Rewritten # jrn
        <4>1. Rewritten.resp.turn = Rewritten.turn /\ Rewritten.resp.intent = Rewritten.turn[1]
          BY <1>3, <3>2, RewrittenIs DEF ReplyInv
        <4> QED
          BY <2>1, <4>1 DEF Answer, Intended
      <3> QED
        BY <3>1, <3>2
    <2> QED
      BY <2>1, <2>2 DEF HeldInv, Intended
  <1>25. CASE ReadBound
    <2>1. PICK r \in Shown(jrn.conv, jrn.turn) : mem' = [mem EXCEPT !.resp = r]
                               /\ jrn' = ResponseRecovered(jrn, r)
      BY <1>25 DEF ReadBound
    <2>2. r.turn = jrn.turn /\ Intended(r, jrn.turn)
      BY <1>3, <2>1, ShownAnswers
    <2>3. mem'.mode = mem.mode /\ mem'.base = mem.base /\ mem'.turn = mem.turn
          /\ mem'.invalid = mem.invalid /\ mem'.resp = r
      BY <1>1, <2>1 DEF MemType
    <2>4. jrn'.turn = jrn.turn /\ jrn'.resp = r /\ jrn'.origin = jrn.origin
      BY <1>1, <2>1 DEF ResponseRecovered, JrnType
    <2>5. ~Live
      BY <1>3, <1>25 DEF ReadBound, ProcessInv
    <2> QED
      BY <1>3, <2>2, <2>3, <2>4, <2>5, <1>25 DEF ReadBound, HeldInv, Answer, Intended, Local
  <1>26. CASE Page
    BY <1>3, <1>26 DEF Page, HeldInv, Answer, Intended, Local
  <1>27. CASE UNCHANGED vars
    BY <1>3, <1>27 DEF vars, HeldInv, Answer, Intended, Local
  <1> QED
    BY <1>4, <1>5, <1>6, <1>7, <1>8, <1>9, <1>10, <1>11, <1>12, <1>13, <1>14, <1>15, <1>16, <1>17,
       <1>18, <1>19, <1>20, <1>21, <1>22, <1>23, <1>24, <1>25, <1>26, <1>27 DEF Next

\* So does the one of the replies.
LEMMA InitReply ==
  ASSUME WebAssumption, Init
  PROVE  ReplyInv
  <1>1. mem = Fresh /\ pc = "model" /\ web = <<>> /\ Len(web) = 0 /\ given = <<0, 0>>
    BY DEF Init
  <1>2. jrn.status = "PREPARED" /\ jrn.origin = NoReply /\ jrn.rstatus = "none"
    BY DEF Init
  <1>3. Fresh.invalid = NoReply
    BY DEF Fresh
  <1>4. PageInv
    BY <1>1 DEF PageInv
  <1>5. OriginInv
    BY <1>1, <1>2, <1>3 DEF OriginInv, Sending
  <1>6. HeldInv
    BY <1>1, <1>2 DEF HeldInv, Sending, Waiting
  <1>7. FormInv
    BY <1>1, FormsOfNone DEF FormInv, Init
  <1>8. DirectInv
    BY <1>1 DEF DirectInv, Init, NoReply
  <1> QED
    BY <1>1, <1>4, <1>5, <1>6, <1>7, <1>8, InitInv DEF ReplyInv, GivenIsMeant
-------------------------------------------------------------------------------
\* The inductive invariant of the replies, when the composite call comes last.
THEOREM RepliesInvariance ==
  ASSUME WebAssumption, DirectLast
  PROVE  Spec => []ReplyInv
  <1>1. Init => ReplyInv
    BY InitReply
  <1>2. ReplyInv /\ [Next]_vars => ReplyInv'
    <2> SUFFICES ASSUME ReplyInv, [Next]_vars
                 PROVE  ReplyInv'
      OBVIOUS
    <2>1. ExchangeInv'
      BY TypeStep, NamedStep, OrderStep, ProcessStep, BudgetStep DEF ReplyInv, ExchangeInv
    <2>2. PageInv'
      BY PageStep DEF ReplyInv, ExchangeInv
    <2> QED
      BY <2>1, <2>2, FormStep, DirectStep, OriginStep, HeldStep, MeantStep DEF ReplyInv
  <1> QED
    BY <1>1, <1>2, PTL DEF Spec

\* The response the journal holds is one to the turn it names, or its local repair
\* (_journal_response, _reconcile_fresh_repair_timeout, reconcile_bound_turn).
THEOREM ResponseToTurn ==
  ASSUME WebAssumption, DirectLast
  PROVE  Spec => []ResponseOfTurn
  <1>1. ReplyInv => ResponseOfTurn
    BY DEF ReplyInv, HeldInv, Answer, Local, ResponseOfTurn
  <1> QED
    BY <1>1, RepliesInvariance, PTL

\* No call that drifted in a repair is let through, however often the process
\* stops (_repair_protocol_response, _repair_matches_invalid_response).
THEOREM NoDrift ==
  ASSUME WebAssumption, DirectLast
  PROVE  Spec => []GivenIsMeant
  <1>1. ReplyInv => GivenIsMeant
    BY DEF ReplyInv
  <1> QED
    BY <1>1, RepliesInvariance, PTL

===============================================================================
