------------------------- MODULE SessionBindingProofs -------------------------
(***************************************************************************)
(* Scope and provenance of bound work, for any number of operations, files *)
(* and scopes: nothing is written under an identity outside its scope, and *)
(* a projected tree holds only what operations of its identity journaled.  *)
(***************************************************************************)
EXTENDS SessionBinding, TLAPS

Early == {"idle", "proven", "bind", "write", "continue", "workspace", "prior", "recheck"}
Late == {"work", "tree", "record", "done"}

\* An identity that anybody has read belongs to an operation that passed its own
\* admission: from then on that operation keeps its paths.
Bound(i) == i \in Ops /\ core[i] = i /\ pc[i] \in Late

FilesInv ==
  /\ \A o \in Ops : pc[o] # "idle" => session # None
  /\ \A o \in Ops : pc[o] = "write" => context[o] # None
  /\ \A o \in Ops : pc[o] \in {"tree", "record"} => core[o] # None
  /\ \A o \in Ops : target[o] # None => core[o] # None /\ pc[o] \in {"record", "done"}
NoEarlyEffect == \A o \in Ops : pc[o] \in Early => Journaled(o) = {}
NoEarlyCore ==
  \A o \in Ops : pc[o] \in {"idle", "proven", "bind", "write", "continue"} => core[o] = None
IdentityInv ==
  /\ session # None /\ session.core # None => Bound(session.core)
  /\ \A o \in Ops : core[o] # None => Bound(core[o])
ScopeAgrees ==
  \A o \in Ops : core[o] # None /\ pc[o] # "workspace" => scope[o] = scope[core[o]]
InScope == \A o \in Ops : Journaled(o) \subseteq scope[o]

ScopeInv ==
  /\ TypeOK /\ FilesInv
  /\ NoEarlyEffect /\ NoEarlyCore /\ IdentityInv /\ ScopeAgrees /\ InScope
-------------------------------------------------------------------------------
\* Every step keeps the types.
LEMMA TypeStep ==
  ASSUME SessionAssumption, TypeOK, FilesInv, [Next]_vars
  PROVE  TypeOK'
  <1> USE DEF TypeOK, Labels, Goto, mine, shared
  <1>1. SourceTree \in Trees
    BY DEF SourceTree, Trees, Content
  <1>2. ASSUME NEW o \in Ops, NEW paths \in Scopes, WorkerContext(o, paths) PROVE TypeOK'
    BY <1>2 DEF WorkerContext, Sessions
  <1>3. ASSUME NEW o \in Ops, RetainedContext(o) PROVE TypeOK'
    BY <1>3 DEF RetainedContext, Sessions
  <1>4. ASSUME NEW o \in Ops, AdmitProven(o) \/ AdmitPrior(o) \/ Recheck(o) PROVE TypeOK'
    BY <1>4, ZenonT(60) DEF AdmitProven, AdmitPrior, Recheck
  <1>5. ASSUME NEW o \in Ops, ReadContext(o) PROVE TypeOK'
    <2>1. session \in Sessions
      BY <1>5 DEF ReadContext, FilesInv
    <2> QED
      BY <1>5, <2>1 DEF ReadContext
  <1>6. ASSUME NEW o \in Ops, BindIdentity(o) PROVE TypeOK'
    <2>1. context[o] \in Sessions
      BY <1>6 DEF BindIdentity, FilesInv
    <2>2. session' \in Sessions
      BY <1>6, <2>1 DEF BindIdentity, Sessions
    <2> QED
      BY <1>6, <2>2 DEF BindIdentity
  <1>7. ASSUME NEW o \in Ops, ReadIdentity(o) PROVE TypeOK'
    <2>1. session \in Sessions
      BY <1>7 DEF ReadIdentity, FilesInv
    <2> QED
      BY <1>7, <2>1 DEF ReadIdentity, Sessions
  <1>8. ASSUME NEW o \in Ops, AdmitWorkspace(o) PROVE TypeOK'
    BY <1>8 DEF AdmitWorkspace
  <1>9. ASSUME NEW o \in Ops, Refuse(o) PROVE TypeOK'
    BY <1>1, <1>9 DEF Refuse
  <1>10. ASSUME NEW o \in Ops, NEW f \in Paths, Effect(o, f) PROVE TypeOK'
    <2>1. work' \in Trees
      BY <1>10 DEF Effect, Trees, Content
    <2>2. pre' \in [Ops -> [Paths -> Content \cup {None}]]
      BY <1>10 DEF Effect, Trees
    <2>3. disturbed' \in [Ops -> BOOLEAN]
      BY <1>10 DEF Effect
    <2> QED
      BY <1>10, <2>1, <2>2, <2>3 DEF Effect
  <1>11. ASSUME NEW o \in Ops, Project(o) PROVE TypeOK'
    BY <1>11 DEF Project, Diff
  <1>12. ASSUME NEW o \in Ops, WriteTree(o) PROVE TypeOK'
    <2>1. [f \in Paths |-> IF f \in changed[o] THEN work[f] ELSE Source] \in Trees
      BY DEF Trees, Content
    <2> QED
      BY <1>12, <2>1 DEF WriteTree
  <1>13. ASSUME NEW o \in Ops, Record(o) PROVE TypeOK'
    <2>1. target[o] = None \/ (target[o] \in Trees /\ core[o] \in Ops)
      BY DEF FilesInv
    <2> QED
      BY <1>13, <2>1 DEF Record
  <1>14. ASSUME NEW o \in Ops, Interrupt(o) PROVE TypeOK'
    BY <1>14 DEF Interrupt
  <1>15. CASE Commit \/ Reset
    BY <1>1, <1>15 DEF Commit, Reset
  <1>16. CASE UNCHANGED vars
    BY <1>16 DEF vars
  <1> QED
    BY <1>2, <1>3, <1>4, <1>5, <1>6, <1>7, <1>8, <1>9, <1>10, <1>11, <1>12, <1>13, <1>14,
       <1>15, <1>16 DEF Next, Step

\* Every step keeps what exists at which point: a session file once somebody
\* started, an identity for whoever projects.
LEMMA FilesStep ==
  ASSUME SessionAssumption, TypeOK, FilesInv, IdentityInv, NoEarlyCore, [Next]_vars
  PROVE  FilesInv'
  <1> USE DEF TypeOK, Labels, Goto, mine, shared, FilesInv
  <1>1. ASSUME NEW o \in Ops, NEW paths \in Scopes, WorkerContext(o, paths) PROVE FilesInv'
    <2>1. session' # None
      BY <1>1 DEF WorkerContext, SessionAssumption, Sessions
    <2> QED
      BY <1>1, <2>1 DEF WorkerContext
  <1>2. ASSUME NEW o \in Ops, RetainedContext(o) PROVE FilesInv'
    BY <1>2 DEF RetainedContext
  <1>3. ASSUME NEW o \in Ops, AdmitProven(o) \/ AdmitPrior(o) \/ Recheck(o) PROVE FilesInv'
    BY <1>3, SMTT(30) DEF AdmitProven, AdmitPrior, Recheck
  <1>4. ASSUME NEW o \in Ops, ReadContext(o) PROVE FilesInv'
    BY <1>4 DEF ReadContext
  <1>5. ASSUME NEW o \in Ops, BindIdentity(o) PROVE FilesInv'
    <2>1. session' # None
      <3>1. context[o] \in Sessions
        BY <1>5 DEF BindIdentity
      <3> QED
        BY <1>5, <3>1 DEF BindIdentity, SessionAssumption, Sessions, Content
    <2> QED
      BY <1>5, <2>1 DEF BindIdentity, SessionAssumption
  <1>6. ASSUME NEW o \in Ops, ReadIdentity(o) PROVE FilesInv'
    BY <1>6 DEF ReadIdentity
  <1>7. ASSUME NEW o \in Ops, AdmitWorkspace(o) PROVE FilesInv'
    BY <1>7 DEF AdmitWorkspace
  <1>8. ASSUME NEW o \in Ops, Refuse(o) PROVE FilesInv'
    BY <1>8 DEF Refuse
  <1>9. ASSUME NEW o \in Ops, NEW f \in Paths, Effect(o, f) PROVE FilesInv'
    BY <1>9 DEF Effect
  <1>10. ASSUME NEW o \in Ops, Project(o) \/ WriteTree(o) PROVE FilesInv'
    BY <1>10, ZenonT(60) DEF Project, WriteTree
  <1>11. ASSUME NEW o \in Ops, Record(o) \/ Interrupt(o) PROVE FilesInv'
    BY <1>11, ZenonT(60) DEF Record, Interrupt
  <1>12. CASE Commit \/ Reset \/ UNCHANGED vars
    BY <1>12 DEF Commit, Reset, vars
  <1> QED
    BY <1>1, <1>2, <1>3, <1>4, <1>5, <1>6, <1>7, <1>8, <1>9, <1>10, <1>11, <1>12 DEF Next, Step

\* What is journaled stays journaled, and only an operation at work adds to it.
LEMMA JournalGrows ==
  ASSUME TypeOK, [Next]_vars, NEW o \in Ops
  PROVE  /\ Journaled(o) \subseteq Journaled(o)'
         /\ pc[o] # "work" => Journaled(o)' = Journaled(o)
         /\ Journaled(o)' \subseteq Journaled(o) \cup scope[o]
  <1> USE DEF TypeOK, mine, shared, Journaled
  <1>1. ASSUME NEW q \in Ops, NEW f \in Paths, Effect(q, f)
        PROVE  /\ Journaled(o) \subseteq Journaled(o)'
               /\ pc[o] # "work" => Journaled(o)' = Journaled(o)
               /\ Journaled(o)' \subseteq Journaled(o) \cup scope[o]
    BY <1>1 DEF Effect
  <1>2. CASE UNCHANGED pre
    BY <1>2
  <1> QED
    BY <1>1, <1>2 DEF Next, Step, WorkerContext, RetainedContext, AdmitProven, AdmitPrior, Recheck,
       ReadContext, BindIdentity, ReadIdentity, AdmitWorkspace, Refuse, Project, WriteTree,
       Record, Interrupt, Commit, Reset, vars

\* An operation that is bound stays so, and keeps its paths.
LEMMA BoundStays ==
  ASSUME TypeOK, [Next]_vars, NEW i, Bound(i)
  PROVE  Bound(i)' /\ scope'[i] = scope[i]
  <1> USE DEF TypeOK, Labels, mine, shared, Goto, Bound, Late
  <1>1. ASSUME NEW o \in Ops, NEW paths \in Scopes, WorkerContext(o, paths)
        PROVE  Bound(i)' /\ scope'[i] = scope[i]
    BY <1>1 DEF WorkerContext
  <1>2. ASSUME NEW o \in Ops, \/ RetainedContext(o) \/ AdmitProven(o) \/ AdmitPrior(o) \/ Recheck(o)
                              \/ ReadContext(o) \/ AdmitWorkspace(o) \/ Project(o) \/ WriteTree(o) \/ Record(o)
                              \/ Interrupt(o)
        PROVE  Bound(i)' /\ scope'[i] = scope[i]
    BY <1>2 DEF RetainedContext, AdmitProven, AdmitPrior, Recheck, ReadContext, AdmitWorkspace, Project,
                WriteTree, Record, Interrupt
  <1>3. ASSUME NEW o \in Ops, BindIdentity(o) \/ ReadIdentity(o) \/ Refuse(o)
        PROVE  Bound(i)' /\ scope'[i] = scope[i]
    BY <1>3 DEF BindIdentity, ReadIdentity, Refuse
  <1>4. ASSUME NEW o \in Ops, NEW f \in Paths, Effect(o, f)
        PROVE  Bound(i)' /\ scope'[i] = scope[i]
    BY <1>4 DEF Effect
  <1>5. CASE Commit \/ Reset \/ UNCHANGED vars
    BY <1>5 DEF Commit, Reset, vars
  <1> QED
    BY <1>1, <1>2, <1>3, <1>4, <1>5 DEF Next, Step

\* The parts of the invariant that speak of one operation alone.
LEMMA EarlyStep ==
  ASSUME SessionAssumption, TypeOK, NoEarlyEffect, NoEarlyCore, InScope, [Next]_vars
  PROVE  NoEarlyEffect' /\ NoEarlyCore' /\ InScope'
  <1> USE DEF TypeOK, Labels, mine, shared, Goto
  <1>1. NoEarlyEffect'
    <2> SUFFICES ASSUME NEW o \in Ops, pc'[o] \in Early
                 PROVE  Journaled(o)' = {}
      BY DEF NoEarlyEffect
    <2>1. pc[o] \in Early
      BY DEF Early, Next, Step, WorkerContext, RetainedContext, AdmitProven, AdmitPrior, Recheck,
         ReadContext, BindIdentity, ReadIdentity, AdmitWorkspace, Refuse, Effect, Project,
         WriteTree, Record, Interrupt, Commit, Reset, vars
    <2> QED
      BY <2>1, JournalGrows DEF NoEarlyEffect, Early
  <1>2. NoEarlyCore'
    BY DEF NoEarlyCore, Next, Step, WorkerContext, RetainedContext, AdmitProven, AdmitPrior,
       Recheck, ReadContext, BindIdentity, ReadIdentity, AdmitWorkspace, Refuse, Effect, Project,
       WriteTree, Record, Interrupt, Commit, Reset, vars
  <1>3. InScope'
    <2> SUFFICES ASSUME NEW o \in Ops
                 PROVE  Journaled(o)' \subseteq scope'[o]
      BY DEF InScope
    <2>1. CASE pc[o] \in Early
      BY <2>1, JournalGrows DEF Early, NoEarlyEffect
    <2>2. CASE pc[o] \notin Early
      <3>1. scope'[o] = scope[o]
        BY <2>2 DEF Early, Next, Step, WorkerContext, RetainedContext, AdmitProven, AdmitPrior,
           Recheck, ReadContext, BindIdentity, ReadIdentity, AdmitWorkspace, Refuse, Effect,
           Project, WriteTree, Record, Interrupt, Commit, Reset, vars
      <3> QED
        BY <3>1, JournalGrows DEF InScope
    <2> QED
      BY <2>1, <2>2
  <1> QED
    BY <1>1, <1>2, <1>3

\* Whoever has read an identity has read a bound one.
LEMMA IdentityStep ==
  ASSUME SessionAssumption, TypeOK, FilesInv, IdentityInv, [Next]_vars
  PROVE  IdentityInv'
  <1> USE DEF TypeOK, Labels, mine, shared, Goto
  <1>1. ASSUME NEW o \in Ops, NEW paths \in Scopes, WorkerContext(o, paths) PROVE IdentityInv'
    <2>1. session'.core = None /\ core' = core
      BY <1>1 DEF WorkerContext
    <2> QED
      BY <2>1, BoundStays DEF IdentityInv
  <1>2. ASSUME NEW o \in Ops, BindIdentity(o) PROVE IdentityInv'
    <2>1. context[o] \in Sessions
      BY <1>2 DEF BindIdentity, FilesInv
    <2>2. session'.core = o
      BY <1>2, <2>1 DEF BindIdentity, Sessions
    <2>3. core'[o] = o /\ pc'[o] = "work" /\ \A q \in Ops : q # o => core'[q] = core[q]
      BY <1>2 DEF BindIdentity
    <2>4. Bound(o)'
      BY <2>3 DEF Bound, Late
    <2> QED
      BY <2>2, <2>3, <2>4, BoundStays DEF IdentityInv
  <1>3. ASSUME NEW o \in Ops, ReadIdentity(o) PROVE IdentityInv'
    <2>1. session' = session /\ core'[o] = session.core /\ \A q \in Ops : q # o => core'[q] = core[q]
      BY <1>3 DEF ReadIdentity
    <2>2. session # None
      BY <1>3 DEF ReadIdentity, FilesInv
    <2> QED
      BY <2>1, <2>2, BoundStays DEF IdentityInv
  <1>4. ASSUME NEW o \in Ops, Refuse(o) PROVE IdentityInv'
    <2>1. session' = session /\ core'[o] = None /\ \A q \in Ops : q # o => core'[q] = core[q]
      BY <1>4 DEF Refuse
    <2> QED
      BY <2>1, BoundStays DEF IdentityInv
  <1>5. CASE UNCHANGED <<session, core>>
    BY <1>5, BoundStays DEF IdentityInv
  <1> QED
    BY <1>1, <1>2, <1>3, <1>4, <1>5 DEF Next, Step, RetainedContext, AdmitProven, AdmitPrior,
       Recheck, ReadContext, AdmitWorkspace, Effect, Project, WriteTree, Record, Interrupt,
       Commit, Reset, vars

\* The comparison of the artifact's scope is what carries over to the effects.
LEMMA AgreesStep ==
  ASSUME SessionAssumption, ScopeInv, [Next]_vars
  PROVE  ScopeAgrees'
  <1> USE DEF TypeOK, Labels, mine, shared, Goto
  <1> SUFFICES ASSUME NEW o \in Ops, core'[o] # None, pc'[o] # "workspace"
               PROVE  scope'[o] = scope'[core'[o]]
    BY DEF ScopeAgrees
  <1>1. TypeOK
    BY DEF ScopeInv
  <1>2. CASE BindIdentity(o)
    BY <1>1, <1>2 DEF BindIdentity
  <1>3. CASE AdmitWorkspace(o)
    <2>1. core'[o] = core[o] /\ scope' = scope
      BY <1>3 DEF AdmitWorkspace
    <2> QED
      BY <1>3, <2>1 DEF AdmitWorkspace, ScopeMatches
  <1>4. CASE ~BindIdentity(o) /\ ~AdmitWorkspace(o)
    <2>1. core'[o] = core[o] /\ scope'[o] = scope[o] /\ pc[o] # "workspace"
      BY <1>1, <1>4 DEF ScopeInv, NoEarlyCore, Next, Step, WorkerContext, RetainedContext, AdmitProven,
         AdmitPrior, Recheck, ReadContext, BindIdentity, ReadIdentity, AdmitWorkspace, Refuse,
         Effect, Project, WriteTree, Record, Interrupt, Commit, Reset, vars
    <2>2. Bound(core[o])
      BY <2>1 DEF ScopeInv, IdentityInv
    <2> QED
      BY <1>1, <2>1, <2>2, BoundStays DEF ScopeInv, ScopeAgrees
  <1> QED
    BY <1>2, <1>3, <1>4

\* The scope invariant holds always.
THEOREM ScopeInvariance ==
  ASSUME SessionAssumption
  PROVE  Spec => []ScopeInv
  <1>1. Init => ScopeInv
    BY DEF SessionAssumption, Init, ScopeInv, TypeOK, FilesInv, NoEarlyEffect, NoEarlyCore,
       IdentityInv, ScopeAgrees, InScope, Journaled, SourceTree, Trees, Content, Labels
  <1>2. ScopeInv /\ [Next]_vars => ScopeInv'
    BY TypeStep, FilesStep, EarlyStep, IdentityStep, AgreesStep DEF ScopeInv
  <1> QED
    BY <1>1, <1>2, PTL DEF Spec

\* The state is well typed, for any operations, files and scopes.
THEOREM TypeCorrect ==
  ASSUME SessionAssumption
  PROVE  Spec => []TypeOK
  <1>1. ScopeInv => TypeOK
    BY DEF ScopeInv
  <1> QED
    BY <1>1, ScopeInvariance, PTL

\* No operation writes outside the scope of the identity it runs under, whatever
\* happens to the session file between its three reads.
THEOREM ScopeKept ==
  ASSUME SessionAssumption
  PROVE  Spec => []BoundScope
  <1>1. ScopeInv => BoundScope
    BY DEF ScopeInv, BoundScope, ScopeAgrees, InScope, NoEarlyEffect, Early, TypeOK, Labels
  <1> QED
    BY <1>1, ScopeInvariance, PTL
-------------------------------------------------------------------------------
\* A tree whose changes to the source were all journaled under one identity.
Owned(t, i) ==
  \A f \in Diff(t, SourceTree) :
    t[f] \in Ops /\ core[t[f]] = i /\ f \in Journaled(t[f])

\* No tree projected under the identity was computed while files changed.
Calm(i) == \A q \in Ops : target[q] # None /\ core[q] = i => ~disturbed[q]

TargetInv == \A o \in Ops : target[o] # None /\ Calm(core[o]) => Owned(target[o], core[o])

\* The index and the continuations start from a tree that was projected.
Projected(t, i) == \E q \in Ops : target[q] = t /\ core[q] = i
IndexInv == index # None => Projected(index.tree, index.core)
BaseInv ==
  \A o \in Ops :
    core[o] # None /\ pc[o] \notin {"workspace", "prior"} =>
      \/ core[o] = o /\ base[o] = SourceTree
      \/ Projected(base[o], core[o])
\* Before its admission an operation has the source as its base.
FreshBase ==
  \A o \in Ops : pc[o] \in {"idle", "proven", "bind", "write", "continue", "workspace"} =>
    base[o] = SourceTree

\* Between its checks and its tree, an undisturbed projection still sees them.
TreeSeen ==
  \A o \in Ops : pc[o] = "tree" /\ ~disturbed[o] =>
    \A f \in changed[o] : \/ work[f] = o /\ f \in Journaled(o)
                          \/ work[f] = base[o][f]

TreeInv ==
  /\ ScopeInv
  /\ TargetInv /\ IndexInv /\ BaseInv /\ FreshBase /\ TreeSeen

\* A projected tree, its identity and whether it was disturbed are final.
LEMMA TargetStays ==
  ASSUME ScopeInv, [Next]_vars, NEW q \in Ops, target[q] # None
  PROVE  /\ target'[q] = target[q] /\ core'[q] = core[q] /\ disturbed'[q] = disturbed[q]
         /\ core[q] # None
  <1> USE DEF TypeOK, Labels, mine, shared, Goto
  <1>1. pc[q] \in {"record", "done"} /\ core[q] # None /\ TypeOK
    BY DEF ScopeInv, FilesInv
  <1>2. target'[q] = target[q] /\ core'[q] = core[q]
    BY <1>1 DEF Next, Step, WorkerContext, RetainedContext, AdmitProven, AdmitPrior, Recheck,
       ReadContext, BindIdentity, ReadIdentity, AdmitWorkspace, Refuse, Effect, Project,
       WriteTree, Record, Interrupt, Commit, Reset, vars
  <1>3. ASSUME NEW o \in Ops, NEW f \in Paths, Effect(o, f) PROVE disturbed'[q] = disturbed[q]
    <2>1. disturbed'[q] = (disturbed[q] \/ pc[q] = "tree")
      BY <1>3 DEF Effect
    <2>2. disturbed[q] \in BOOLEAN /\ pc[q] # "tree"
      BY <1>1
    <2> QED
      BY <2>1, <2>2, Zenon
  <1>4. CASE ~ \E o \in Ops, f \in Paths : Effect(o, f)
    BY <1>1, <1>4 DEF Next, Step, WorkerContext, RetainedContext, AdmitProven, AdmitPrior, Recheck,
       ReadContext, BindIdentity, ReadIdentity, AdmitWorkspace, Refuse, Project,
       WriteTree, Record, Interrupt, Commit, Reset, vars
  <1> QED
    BY <1>1, <1>2, <1>3, <1>4

\* What makes a tree projected under an identity does not change any more.
LEMMA ProjectedStays ==
  ASSUME SessionAssumption, ScopeInv, [Next]_vars, NEW t \in Trees, NEW i, Projected(t, i)
  PROVE  Projected(t, i)'
  <1>1. t # None
    BY DEF SessionAssumption
  <1>2. PICK q \in Ops : target[q] = t /\ core[q] = i
    BY DEF Projected
  <1>3. target'[q] = t /\ core'[q] = i
    BY <1>1, <1>2, TargetStays
  <1> QED
    BY <1>3 DEF Projected

\* Calm projections now were calm before, and what is owned stays owned.
LEMMA CalmBefore ==
  ASSUME ScopeInv, [Next]_vars, NEW i, Calm(i)'
  PROVE  Calm(i)
  BY TargetStays DEF Calm

\* Contents that belong to an identity go on belonging to it.
LEMMA OwnedStays ==
  ASSUME ScopeInv, [Next]_vars, NEW t \in Trees, NEW i, Owned(t, i)
  PROVE  Owned(t, i)'
  <1> SUFFICES ASSUME NEW f \in Diff(t, SourceTree)
               PROVE  t[f] \in Ops /\ core'[t[f]] = i /\ f \in Journaled(t[f])'
    BY DEF Owned, Diff, SourceTree
  <1> DEFINE q == t[f]
  <1>1. q \in Ops /\ core[q] = i /\ f \in Journaled(q)
    BY DEF Owned
  <1>2. pc[q] \notin Early
    BY <1>1 DEF ScopeInv, NoEarlyEffect
  <1>3. core'[q] = core[q]
    BY <1>1, <1>2 DEF Early, ScopeInv, TypeOK, Labels, mine, shared, Goto, Next, Step, WorkerContext,
       RetainedContext, AdmitProven, AdmitPrior, Recheck, ReadContext, BindIdentity, ReadIdentity,
       AdmitWorkspace, Refuse, Effect, Project, WriteTree, Record, Interrupt, Commit, Reset, vars
  <1>4. f \in Journaled(q)'
    BY <1>1, JournalGrows DEF ScopeInv
  <1> QED
    BY <1>1, <1>3, <1>4

\* The tree of an operation is its base overlaid with its own journaled writes.
LEMMA TargetStep ==
  ASSUME SessionAssumption, TreeInv, [Next]_vars
  PROVE  TargetInv'
  <1> SUFFICES ASSUME NEW o \in Ops, NEW t, NEW i, target'[o] = t, core'[o] = i,
                      t # None, Calm(i)'
               PROVE  Owned(t, i)'
    BY DEF TargetInv, Calm, Owned, Diff, Journaled
  <1> USE DEF TreeInv
  <1>0. TypeOK
    BY DEF ScopeInv
  <1>1. CASE target[o] # None
    <2>1. target[o] = t /\ core[o] = i
      BY <1>1, TargetStays
    <2>2. Calm(i)
      BY CalmBefore
    <2>3. Owned(t, i)
      BY <1>1, <2>1, <2>2 DEF TargetInv
    <2>4. t \in Trees
      BY <1>0, <1>1, <2>1 DEF TypeOK
    <2> QED
      BY <2>1, <2>3, <2>4, OwnedStays
  <1>2. CASE target[o] = None
    <2>1. WriteTree(o)
      BY <1>0, <1>2 DEF TypeOK, mine, shared, Next, Step, WorkerContext, RetainedContext, AdmitProven,
         AdmitPrior, Recheck, ReadContext, BindIdentity, ReadIdentity, AdmitWorkspace, Refuse,
         Effect, Project, WriteTree, Record, Interrupt, Commit, Reset, vars
    <2>2. /\ core' = core /\ disturbed' = disturbed /\ pre' = pre
          /\ t = [f \in Paths |-> IF f \in changed[o] THEN work[f] ELSE Source]
          /\ pc[o] = "tree" /\ core[o] = i
      BY <1>0, <2>1 DEF WriteTree, TypeOK
    <2>3. core[o] # None
      BY <2>2 DEF ScopeInv, FilesInv
    <2>4. ~disturbed[o]
      BY <2>2 DEF Calm
    <2>5. Calm(core[o])
      BY <2>2, CalmBefore
    <2>6. ASSUME NEW f \in Paths, base[o][f] # Source
          PROVE  base[o][f] \in Ops /\ core[base[o][f]] = core[o] /\ f \in Journaled(base[o][f])
      <3>1. base[o] # SourceTree
        BY <2>6 DEF SourceTree
      <3>2. PICK q \in Ops : target[q] = base[o] /\ core[q] = core[o]
        BY <2>2, <2>3, <3>1 DEF BaseInv, Projected
      <3>3. base[o] \in Trees /\ base[o] # None
        BY <1>0 DEF TypeOK, SessionAssumption
      <3>4. Owned(base[o], core[o])
        BY <2>5, <3>2, <3>3 DEF TargetInv
      <3> QED
        BY <2>6, <3>4 DEF Owned, Diff, SourceTree
    <2>7. ASSUME NEW f \in Diff(t, SourceTree)
          PROVE  LET q == t[f] IN q \in Ops /\ core[q] = core[o] /\ f \in Journaled(q)
      <3>1. f \in Paths /\ f \in changed[o] /\ t[f] = work[f] /\ work[f] # Source
        BY <2>2, <2>7 DEF Diff, SourceTree
      <3>2. CASE work[f] = o /\ f \in Journaled(o)
        BY <3>1, <3>2
      <3>3. CASE work[f] = base[o][f]
        BY <2>6, <3>1, <3>3
      <3> QED
        BY <2>2, <2>4, <3>1, <3>2, <3>3 DEF TreeSeen
    <2> QED
      BY <2>2, <2>7 DEF Owned, Diff, Journaled, SourceTree
  <1> QED
    BY <1>1, <1>2

\* Every step keeps the index at a tree that was projected under its identity.
LEMMA IndexStep ==
  ASSUME SessionAssumption, TreeInv, [Next]_vars
  PROVE  IndexInv'
  <1> SUFFICES ASSUME NEW t, NEW i, index' # None, index'.tree = t, index'.core = i
               PROVE  Projected(t, i)'
    BY DEF IndexInv, Projected
  <1> USE DEF TreeInv, mine, shared, Goto
  <1>1. ASSUME NEW o \in Ops, Record(o) PROVE Projected(t, i)'
    <2>1. target' = target /\ core' = core /\ t = target[o] /\ i = core[o]
      BY <1>1 DEF Record
    <2> QED
      BY <2>1 DEF Projected
  <1>2. ASSUME index' = index PROVE Projected(t, i)'
    <2>1. Projected(t, i)
      BY <1>2 DEF IndexInv
    <2>2. t \in Trees
      BY <1>2 DEF ScopeInv, TypeOK
    <2> QED
      BY <2>1, <2>2, ProjectedStays
  <1> QED
    BY <1>1, <1>2 DEF Next, Step, WorkerContext, RetainedContext, AdmitProven, AdmitPrior, Recheck,
       ReadContext, BindIdentity, ReadIdentity, AdmitWorkspace, Refuse, Effect, Project,
       WriteTree, Interrupt, Commit, Reset, vars

\* Every step keeps the base of a continuation at the source or a projected tree.
LEMMA BaseStep ==
  ASSUME SessionAssumption, TreeInv, [Next]_vars
  PROVE  FreshBase' /\ BaseInv'
  <1> USE DEF TreeInv, mine, shared, Goto
  <1>0. TypeOK
    BY DEF ScopeInv
  <1>1. FreshBase'
    BY <1>0 DEF TypeOK, FreshBase, Next, Step, WorkerContext, RetainedContext, AdmitProven, AdmitPrior,
       Recheck, ReadContext, BindIdentity, ReadIdentity, AdmitWorkspace, Refuse, Effect,
       Project, WriteTree, Record, Interrupt, Commit, Reset, vars
  <1>2. BaseInv'
    <2> SUFFICES ASSUME NEW o \in Ops, NEW i, NEW t, core'[o] = i, base'[o] = t, i # None,
                        pc'[o] \notin {"workspace", "prior"}
                 PROVE  (i = o /\ t = SourceTree) \/ Projected(t, i)'
      BY DEF BaseInv, Projected
    <2>1. CASE BindIdentity(o)
      BY <1>0, <2>1 DEF BindIdentity, FreshBase, TypeOK
    <2>2. CASE AdmitPrior(o)
      <3>1. index # None /\ index.core = i /\ index.tree = t /\ t \in Trees
        BY <1>0, <2>2 DEF AdmitPrior, PriorBound, TypeOK
      <3>2. Projected(t, i)
        BY <3>1 DEF IndexInv
      <3> QED
        BY <3>1, <3>2, ProjectedStays
    <2>3. CASE ~BindIdentity(o) /\ ~AdmitPrior(o)
      <3>1. core[o] = i /\ base[o] = t /\ pc[o] \notin {"workspace", "prior"}
        BY <1>0, <2>3 DEF TypeOK, Labels, Next, Step, WorkerContext, RetainedContext, AdmitProven,
           AdmitPrior, Recheck, ReadContext, BindIdentity, ReadIdentity, AdmitWorkspace, Refuse,
           Effect, Project, WriteTree, Record, Interrupt, Commit, Reset, vars
      <3>2. t \in Trees
        BY <1>0, <3>1 DEF TypeOK
      <3> QED
        BY <3>1, <3>2, ProjectedStays DEF BaseInv
    <2> QED
      BY <2>1, <2>2, <2>3
  <1> QED
    BY <1>1, <1>2

\* Whatever changes a file while a projection is at its tree marks it.
LEMMA SeenStep ==
  ASSUME SessionAssumption, TreeInv, [Next]_vars
  PROVE  TreeSeen'
  <1> SUFFICES ASSUME NEW o \in Ops, pc'[o] = "tree", ~disturbed'[o], NEW f \in changed'[o]
               PROVE  \/ work'[f] = o /\ f \in Journaled(o)'
                      \/ work'[f] = base'[o][f]
    BY DEF TreeSeen
  <1> USE DEF TreeInv, mine, shared, Goto
  <1>0. TypeOK
    BY DEF ScopeInv
  <1>1. CASE Project(o)
    <2>1. work' = work /\ base' = base /\ pre' = pre /\ changed'[o] = Diff(work, SourceTree)
      BY <1>0, <1>1 DEF Project, TypeOK
    <2>2. Checked(o)
      BY <1>1 DEF Project
    <2>3. CASE f \in Journaled(o)
      BY <2>1, <2>2, <2>3 DEF Checked, Journaled
    <2>4. CASE f \notin Journaled(o)
      BY <2>1, <2>2, <2>4 DEF Checked, Diff
    <2> QED
      BY <2>3, <2>4
  <1>2. CASE pc[o] = "tree"
    <2>1. /\ work' = work /\ base'[o] = base[o] /\ changed'[o] = changed[o]
          /\ ~disturbed[o]
      <3>1. ASSUME NEW q \in Ops, NEW g \in Paths, Effect(q, g) PROVE FALSE
        BY <1>0, <1>2, <3>1 DEF Effect, TypeOK
      <3> QED
        BY <1>0, <1>2, <3>1 DEF TypeOK, Labels, Next, Step, WorkerContext, RetainedContext, AdmitProven,
           AdmitPrior, Recheck, ReadContext, BindIdentity, ReadIdentity, AdmitWorkspace, Refuse,
           Project, WriteTree, Record, Interrupt, Commit, Reset, vars
    <2>2. Journaled(o)' = Journaled(o)
      BY <1>0, <1>2, JournalGrows
    <2> QED
      BY <1>2, <2>1, <2>2 DEF TreeSeen
  <1>3. Project(o) \/ pc[o] = "tree"
    BY <1>0 DEF TypeOK, Next, Step, WorkerContext, RetainedContext, AdmitProven, AdmitPrior, Recheck,
       ReadContext, BindIdentity, ReadIdentity, AdmitWorkspace, Refuse, Effect, Project,
       WriteTree, Record, Interrupt, Commit, Reset, vars
  <1> QED
    BY <1>1, <1>2, <1>3

\* The invariant of the projected trees holds always.
THEOREM TreeInvariance ==
  ASSUME SessionAssumption
  PROVE  Spec => []TreeInv
  <1>1. Init /\ ScopeInv => TreeInv
    BY DEF Init, TreeInv, TargetInv, IndexInv, BaseInv, FreshBase, TreeSeen
  <1>2. TreeInv /\ [Next]_vars /\ ScopeInv' => TreeInv'
    BY TargetStep, IndexStep, BaseStep, SeenStep DEF TreeInv
  <1> QED
    BY <1>1, <1>2, ScopeInvariance, PTL DEF Spec

\* What a projection reports as bound was journaled under its identity, along any
\* chain of continuations whose projections nobody disturbed.
THEOREM TreesJournaled ==
  ASSUME SessionAssumption
  PROVE  Spec => []BoundTreeJournaled
  <1>1. TreeInv => BoundTreeJournaled
    BY DEF TreeInv, BoundTreeJournaled, TargetInv, Calm, Owned
  <1> QED
    BY <1>1, TreeInvariance, PTL
===============================================================================
