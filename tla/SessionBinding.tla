---------------------------- MODULE SessionBinding ----------------------------
(***************************************************************************)
(* The session of one task unit and the Core identity bound to it (cli.py):*)
(* the session file, the workspace index and the workspace itself, shared  *)
(* by operations that run side by side.  The operation fence keeps two     *)
(* requests of one operation apart; different operations of the session    *)
(* share no lock, and a session file is read and replaced as a whole.      *)
(*                                                                         *)
(* An operation is one actor: a stop followed by a reconcile is a delay,   *)
(* with the UNKNOWN that the index shows meanwhile (Interrupt).  A binding *)
(* names its operation, so that an identity is called after the operation  *)
(* it was admitted for, and its scope is that operation's.  A file content *)
(* is called after the operation that wrote it; an operation writes a path *)
(* at most once here.  The checks that read nothing the others write       *)
(* (schemas, hashes, deadline, symlinks, card, origin) are Refuse, which   *)
(* may happen at any time before the first effect.  The index holds either *)
(* a COMPLETED BOUND result with its projected tree or nothing that a      *)
(* continuation accepts.                                                   *)
(*                                                                         *)
(* Environment: the controller commits the workspace whenever it likes and *)
(* takes it back to the bound source between operations.  The hash-pinned  *)
(* repair artifact of a continuation names the scope its binding was       *)
(* admitted with.                                                          *)
(***************************************************************************)
EXTENDS Naturals, FiniteSets

CONSTANTS
  Ops,       \* operations, and the identities bound to them
  Paths,     \* files of the workspace
  Scopes,    \* sets of paths a request may name
  Source,    \* the content every file has in the bound source tree
  None       \* no identity, no session, no entry, no tree, not written

Content == Ops \cup {Source}
Trees == [Paths -> Content]
Sessions == [paths : Scopes, core : Ops \cup {None}]

ASSUME SessionAssumption ==
  /\ Source \notin Ops
  /\ None \notin Content \cup Trees \cup Sessions \cup [core : Ops, tree : Trees]
  /\ Scopes \subseteq (SUBSET Paths) \ {{}}

SourceTree == [f \in Paths |-> Source]

VARIABLES
  session,   \* the session file: its allowed paths and its Core identity
  index,     \* the workspace index: identity and projected tree
  head,      \* the committed tree
  work,      \* the files
  pc,        \* what each operation does next
  scope,     \* allowed_paths, as the operation read them
  core,      \* the Core identity the operation runs under
  context,   \* the session file as read for the bind
  base,      \* the tree its effects start from
  pre,       \* pre[o][f]: preimage of its journaled write of f
  changed,   \* actual_paths of its projection
  target,    \* the tree it projected
  disturbed  \* history: files changed while it computed that tree

shared == <<session, index, head, work>>
mine == <<scope, core, context, base, pre, changed, target, disturbed>>
vars == <<shared, pc, mine>>

Init ==
  /\ session = None /\ index = None
  /\ head = SourceTree /\ work = SourceTree
  /\ pc = [o \in Ops |-> "idle"]
  /\ scope = [o \in Ops |-> {}]
  /\ core = [o \in Ops |-> None]
  /\ context = [o \in Ops |-> None]
  /\ base = [o \in Ops |-> SourceTree]
  /\ pre = [o \in Ops |-> [f \in Paths |-> None]]
  /\ changed = [o \in Ops |-> {}]
  /\ target = [o \in Ops |-> None]
  /\ disturbed = [o \in Ops |-> FALSE]

Goto(o, l) == pc' = [pc EXCEPT ![o] = l]
Diff(t, u) == {f \in Paths : t[f] # u[f]}
Journaled(o) == {f \in Paths : pre[o][f] # None}

\* _worker_context without a session identity: the session file is replaced,
\* whatever it held and whatever becomes of the request.  Without a proven packet
\* the operation is a legacy one and goes to work unbound.
WorkerContext(o, paths) ==
  /\ pc[o] = "idle"
  /\ session' = [paths |-> paths, core |-> None]
  /\ scope' = [scope EXCEPT ![o] = paths]
  /\ \E next \in {"proven", "work"} : Goto(o, next)
  /\ UNCHANGED <<index, head, work, core, context, base, pre, changed, target, disturbed>>

\* _worker_context with one: worker_run keeps to the session's paths and ignores
\* its identity (its own binding would be refused: the session has none, or another
\* one); worker_continue reads the file again for the identity.
RetainedContext(o) ==
  /\ pc[o] = "idle" /\ session # None
  /\ scope' = [scope EXCEPT ![o] = session.paths]
  /\ \E next \in {"work", "continue"} : Goto(o, next)
  /\ UNCHANGED <<shared, core, context, base, pre, changed, target, disturbed>>

\* _semantic_v2_admission of a proven packet: the clean workspace stands on the
\* bound source.
AdmitProven(o) ==
  /\ pc[o] = "proven"
  /\ head = SourceTree /\ work = head
  /\ Goto(o, "bind")
  /\ UNCHANGED <<shared, mine>>

\* _bind_session_core_identity at the first bind: the context is read ...
ReadContext(o) ==
  /\ pc[o] = "bind"
  /\ session.core = None
  /\ context' = [context EXCEPT ![o] = session]
  /\ Goto(o, "write")
  /\ UNCHANGED <<shared, scope, core, base, pre, changed, target, disturbed>>

\* ... and replaced by that context with the identity, over what is there now.
BindIdentity(o) ==
  /\ pc[o] = "write"
  /\ session' = [context[o] EXCEPT !.core = o]
  /\ context' = [context EXCEPT ![o] = None]
  /\ core' = [core EXCEPT ![o] = o]
  /\ Goto(o, "work")
  /\ UNCHANGED <<index, head, work, scope, base, pre, changed, target, disturbed>>

\* Continuation: an unbound session is continued as one, unless hashes are sent.
ReadIdentity(o) ==
  /\ pc[o] = "continue"
  /\ core' = [core EXCEPT ![o] = session.core]
  /\ Goto(o, IF session.core = None THEN "work" ELSE "workspace")
  /\ UNCHANGED <<shared, scope, context, base, pre, changed, target, disturbed>>

\* Fault: the artifact's scope is not compared.
AnyScope(o) == TRUE

\* _bound_continuation_admission: the artifact's scope, the clean workspace on the
\* parent candidate, and the changes since the bound source.
ScopeMatches(o) == scope[core[o]] = scope[o]

AdmitWorkspace(o) ==
  /\ pc[o] = "workspace"
  /\ ScopeMatches(o)
  /\ work = head /\ head # SourceTree
  /\ Diff(head, SourceTree) \subseteq scope[o]
  /\ base' = [base EXCEPT ![o] = head]
  /\ Goto(o, "prior")
  /\ UNCHANGED <<shared, scope, core, context, pre, changed, target, disturbed>>

\* Fault: the parent is not compared with the tree the prior result projected.
PriorCompleted(o) == index # None /\ index.core = core[o]

\* The index: a completed bound result of this identity that projected the parent.
PriorBound(o) ==
  index # None /\ index.core = core[o] /\ index.tree = base[o]

AdmitPrior(o) ==
  /\ pc[o] = "prior"
  /\ PriorBound(o)
  /\ Goto(o, "recheck")
  /\ UNCHANGED <<shared, mine>>

\* _bind_session_core_identity again: the session still has the identity.
Recheck(o) ==
  /\ pc[o] = "recheck"
  /\ session.core = core[o]
  /\ Goto(o, "work")
  /\ UNCHANGED <<shared, mine>>

\* Any check fails before the first effect: the result is UNKNOWN, in the index too.
Refuse(o) ==
  /\ pc[o] \in {"proven", "bind", "write", "continue", "workspace", "prior", "recheck"}
  /\ index' = None
  /\ scope' = [scope EXCEPT ![o] = {}]
  /\ core' = [core EXCEPT ![o] = None]
  /\ context' = [context EXCEPT ![o] = None]
  /\ base' = [base EXCEPT ![o] = SourceTree]
  /\ Goto(o, "done")
  /\ UNCHANGED <<session, head, work, pre, changed, target, disturbed>>

\* A write of the repair: inside the allowed paths, with its journal entry.
\* Whoever computes a tree meanwhile may see either content.
Effect(o, f) ==
  /\ pc[o] = "work"
  /\ f \in scope[o] /\ pre[o][f] = None
  /\ pre' = [pre EXCEPT ![o][f] = work[f]]
  /\ work' = [work EXCEPT ![f] = o]
  /\ disturbed' = [q \in Ops |-> disturbed[q] \/ pc[q] = "tree"]
  /\ UNCHANGED <<session, index, head, pc, scope, core, context, base, changed, target>>

\* _physical_core_changeset_projection, its checks: every change is inside the
\* scope, every journaled path went from the base content to what is in the file,
\* and every change on top of the base is journaled.
Checked(o) ==
  /\ Diff(work, SourceTree) \subseteq scope[o]
  /\ \A f \in Journaled(o) : pre[o][f] = base[o][f] /\ work[f] = o
  /\ Diff(work, base[o]) \subseteq Journaled(o)

\* The checks pass.  The code reads the workspace several times for them; they are
\* one step here.  A change by another operation between two of those reads is of
\* the kind of one between the checks and the tree, which "disturbed" remembers.
Project(o) ==
  /\ pc[o] = "work" /\ core[o] # None
  /\ Checked(o)
  /\ changed' = [changed EXCEPT ![o] = Diff(work, SourceTree)]
  /\ disturbed' = [disturbed EXCEPT ![o] = FALSE]
  /\ Goto(o, IF work = SourceTree THEN "record" ELSE "tree")
  /\ UNCHANGED <<shared, scope, core, context, base, pre, target>>

\* Its tree: the bound source with the changed files as they are read now.
WriteTree(o) ==
  /\ pc[o] = "tree"
  /\ target' = [target EXCEPT ![o] =
                 [f \in Paths |-> IF f \in changed[o] THEN work[f] ELSE Source]]
  /\ changed' = [changed EXCEPT ![o] = {}]
  /\ Goto(o, "record")
  /\ UNCHANGED <<shared, scope, core, context, base, pre, disturbed>>

\* Fault: a result without a projected tree goes into the index like one with it.
RecordUnprojected(o) ==
  /\ pc[o] = "record" \/ (pc[o] = "work" /\ core[o] = None)
  /\ index' = [core |-> core[o], tree |-> target[o]]
  /\ Goto(o, "done")
  /\ UNCHANGED <<session, head, work, mine>>

\* _write_terminal: the index takes the result of whoever writes last; an
\* unbound operation has nothing projected.
Record(o) ==
  /\ pc[o] = "record" \/ (pc[o] = "work" /\ core[o] = None)
  /\ index' = IF target[o] = None THEN None ELSE [core |-> core[o], tree |-> target[o]]
  /\ Goto(o, "done")
  /\ UNCHANGED <<session, head, work, mine>>

\* An exception or a stop behind the first effect: UNKNOWN in the index until a
\* reconcile takes the operation up again; a projection begins anew.
Interrupt(o) ==
  /\ pc[o] \in {"work", "tree", "record"}
  /\ index' = None
  /\ Goto(o, IF pc[o] = "tree" THEN "work" ELSE pc[o])
  /\ UNCHANGED <<session, head, work, mine>>

\* The controller: commits what is in the workspace and, between operations,
\* takes it back to the source.
Commit ==
  /\ head # work
  /\ head' = work
  /\ UNCHANGED <<session, index, work, pc, mine>>

Reset ==
  /\ <<head, work>> # <<SourceTree, SourceTree>>
  /\ \A o \in Ops : pc[o] \in {"idle", "done"}
  /\ head' = SourceTree
  /\ work' = SourceTree
  /\ UNCHANGED <<session, index, pc, mine>>

Step(o) ==
  \/ \E paths \in Scopes : WorkerContext(o, paths)
  \/ RetainedContext(o) \/ AdmitProven(o)
  \/ ReadContext(o) \/ BindIdentity(o)
  \/ ReadIdentity(o) \/ AdmitWorkspace(o) \/ AdmitPrior(o) \/ Recheck(o)
  \/ \E f \in Paths : Effect(o, f)
  \/ Project(o) \/ WriteTree(o) \/ Record(o)
  \/ Refuse(o) \/ Interrupt(o)

Next == Commit \/ Reset \/ \E o \in Ops : Step(o)

Spec == Init /\ [][Next]_vars
-------------------------------------------------------------------------------
Labels == {"idle", "proven", "continue", "bind", "write", "workspace",
           "prior", "recheck", "work", "tree", "record", "done"}

TypeOK ==
  /\ session \in Sessions \cup {None}
  /\ index \in [core : Ops, tree : Trees] \cup {None}
  /\ head \in Trees /\ work \in Trees
  /\ pc \in [Ops -> Labels]
  /\ scope \in [Ops -> Scopes \cup {{}}]
  /\ core \in [Ops -> Ops \cup {None}]
  /\ context \in [Ops -> Sessions \cup {None}]
  /\ base \in [Ops -> Trees]
  /\ pre \in [Ops -> [Paths -> Content \cup {None}]]
  /\ changed \in [Ops -> SUBSET Paths]
  /\ target \in [Ops -> Trees \cup {None}]
  /\ disturbed \in [Ops -> BOOLEAN]

\* What is written under a Core identity stays inside the paths its binding was
\* admitted with, also by a continuation that reads the session file three times
\* while others replace it, and although a bind may put an identity into a file
\* that has meanwhile got other paths.
BoundScope ==
  \A o \in Ops : core[o] # None => Journaled(o) \subseteq scope[core[o]]

\* "No unjournaled change can be carried into the continuation as if it were
\* already bound": each changed file of a projected tree has the content that an
\* operation of the same identity journaled, along the whole chain of
\* continuations; the exception is a chain one of whose projections was computed
\* while somebody else changed files.
BoundTreeJournaled ==
  \A o \in Ops :
    (target[o] # None /\ \A q \in Ops : core[q] = core[o] => ~disturbed[q]) =>
      \A f \in Diff(target[o], SourceTree) :
        LET q == target[o][f] IN core[q] = core[o] /\ f \in Journaled(q)
===============================================================================
