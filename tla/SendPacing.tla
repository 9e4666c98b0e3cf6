----------------------------- MODULE SendPacing -----------------------------
(***************************************************************************)
(* Which pacing a send goes through (_initialize_durable_pacing and        *)
(* _send_and_reconcile): a model with a profile and a state root uses the  *)
(* durable backend, any other the registry of its process. The two share   *)
(* no state, so a behaviour of this module is one of either.               *)
(***************************************************************************)
EXTENDS DurablePacing, PacingRegistry

VARIABLE backend      \* "durable" or "registry"

sendVars == <<backend, durableVars, registryVars>>

SendInit == backend \in {"durable", "registry"} /\ Init /\ RegistryInit

DurableTick == backend = "durable" /\ Tick /\ UNCHANGED <<backend, registryVars>>
DurableProceed(p) == backend = "durable" /\ Proceed(p) /\ UNCHANGED <<backend, registryVars>>
DurableNext == backend = "durable" /\ Next /\ UNCHANGED <<backend, registryVars>>

InProcessTick == backend = "registry" /\ RegistryTick /\ UNCHANGED <<backend, durableVars>>
InProcessProceed(t) ==
  backend = "registry" /\ ThreadStep(t) /\ UNCHANGED <<backend, durableVars>>
InProcessNext == backend = "registry" /\ RegistryNext /\ UNCHANGED <<backend, durableVars>>

SendNext == DurableNext \/ InProcessNext

SendSpec == SendInit /\ [][SendNext]_sendVars

\* Time passes, the scheduler runs processes and threads, every send ends. A
\* process that was refused or has sent asks again.
FairSpec ==
  /\ SendSpec
  /\ WF_sendVars(DurableTick)
  /\ WF_sendVars(InProcessTick)
  /\ \A p \in Processes : WF_sendVars(DurableProceed(p))
  /\ \A t \in Threads : WF_sendVars(InProcessProceed(t))

-----------------------------------------------------------------------------
\* No state the processes leave behind makes them refuse to send for good.
SendingGoesOn == backend = "durable" => []<>(\E p \in Processes : at[p] = "send")
=============================================================================
