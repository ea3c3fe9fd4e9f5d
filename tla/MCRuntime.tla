------------------------------- MODULE MCRuntime -------------------------------
(***************************************************************************)
(* The parts of the runtime that threads share, on small instances: the    *)
(* ring of a Channel, a blocking submission and its wake-ups, the life of  *)
(* a Context, the Ports of a physical device and the registration of HIDs. *)
(* They have no state in common: a behaviour is that of one part, chosen   *)
(* at its start, and the others stay in their initial states.              *)
(***************************************************************************)
EXTENDS Naturals

CONSTANTS
  Parts,                     \* the parts to check
  RingSlots, NoSlot, Word,   \* IndexRing
  Devices, None,             \* ContextLife, PortRegistry, Registration
  TimeoutErrors, BusyErrors, MaxPollFailures, \* ContextLife
  Ports, Interfaces,         \* PortRegistry
  Nodes, Fragments, MaxId    \* Registration

VARIABLES
  part,
  slots, head, tail, producer, consumer, popped, outside,
  waiter, callback, whose, others, used, inflight, dirty, generation, seen,
  waiters, mutex, notified, resends,
  where, busy, closeError, deferred, terminal, dead, stop, event, app, holds,
  outcome, back, pumped, destroying, first, observed, failures, owed,
  swallowed,
  references, ports, handles, claims, kernel, device, pc, port, dying, probe,
  state, owner, id, reserved, retained, opened, present, linked, domain, next,
  call, target

Ring == INSTANCE IndexRing WITH Slots <- RingSlots

Wait == INSTANCE BlockingWait WITH
  Slots <- 3, Resends <- 2, app <- waiter, event <- callback

Context == INSTANCE ContextLife

\* The modules with their proofs, which RuntimeProofs cites.
Registry == INSTANCE PortRegistryProofs

HIDs == INSTANCE RegistrationProofs WITH device <- owner

ASSUME RuntimeAssumptions ==
  /\ Parts \subseteq {"ring", "wait", "context", "ports", "hids"}
  /\ Ring!SlotsAssumption /\ Ring!SizeAssumption /\ Ring!WordAssumption
  /\ Wait!WaitAssumption
  /\ Context!ContextLifeAssumption
  /\ Registry!PortRegistryAssumption
  /\ HIDs!RegistrationAssumption

ringVars == <<slots, head, tail, producer, consumer, popped, outside>>
waitVars == <<waiter, callback, whose, others, used, inflight, dirty, generation, seen,
              waiters, mutex, notified, resends>>
contextVars == <<where, busy, closeError, deferred, terminal, dead, stop, event, app, holds,
                 outcome, back, pumped, destroying, first, observed, failures, owed,
                 swallowed>>
portVars == <<references, ports, handles, claims, kernel, device, pc, port, dying, probe>>
hidVars == <<state, owner, id, reserved, retained, opened, present, linked, domain, next,
             call, target>>
vars == <<part, ringVars, waitVars, contextVars, portVars, hidVars>>

Init ==
  /\ part \in Parts
  /\ Ring!Init /\ Wait!Init /\ Context!Init /\ Registry!Init /\ HIDs!Init
  /\ part # "wait" => others = 0
  /\ part # "context" => event = "poll"

Next ==
  /\ UNCHANGED part
  /\ \/ /\ part = "ring" /\ Ring!Next
        /\ UNCHANGED <<waitVars, contextVars, portVars, hidVars>>
     \/ /\ part = "wait" /\ Wait!Next
        /\ UNCHANGED <<ringVars, contextVars, portVars, hidVars>>
     \/ /\ part = "context" /\ Context!Next
        /\ UNCHANGED <<ringVars, waitVars, portVars, hidVars>>
     \/ /\ part = "ports" /\ Registry!Next
        /\ UNCHANGED <<ringVars, waitVars, contextVars, hidVars>>
     \/ /\ part = "hids" /\ HIDs!Next
        /\ UNCHANGED <<ringVars, waitVars, contextVars, portVars>>

\* The fairness of BlockingWait and of ContextLife, where they run.
Fairness ==
  /\ WF_waitVars(part = "wait" /\ Wait!App)
  /\ SF_waitVars(part = "wait" /\ Wait!Event)
  /\ WF_contextVars(part = "context" /\ Context!Event)
  /\ WF_contextVars(part = "context" /\ Context!InCall)
  /\ WF_contextVars(part = "context" /\ Context!CloseSteps)
  /\ WF_contextVars(part = "context" /\ Context!DrainEnds)
  /\ SF_contextVars(part = "context" /\ Context!Delivers)

Spec == Init /\ [][Next]_vars /\ Fairness

-----------------------------------------------------------------------------
(* The properties of the modules.                                           *)

(* The ring is a queue (IndexRing).                                         *)
ImplementsQueue == Ring!ImplementsQueue

(* No wake-up of a blocking submission is lost (BlockingWait).              *)
BlockedSubmissionEnds == part = "wait" => Wait!BlockedSubmissionEnds

(* A Device has one owner, and nothing outlives its Context (ContextLife).  *)
TeardownIsExclusive == Context!TeardownIsExclusive

(* Errors of the event thread and of Devices reach the application, but for *)
(* a TIMEOUT or BUSY that a wait takes for its own (ContextLife).           *)
NoErrorIsLost == Context!NoErrorIsLost

(* A blocking destruction ends without its deadline (ContextLife).          *)
DestroyIsPossible == Context!DestroyIsPossible

(* Counts, handles and claims of a Port fit its users (PortRegistry).       *)
PortOutlivesItsUsers == Registry!PortOutlivesItsUsers

(* Discovery never holds a second handle to a device (PortRegistry).        *)
ProbesAlone == Registry!ProbesAlone

(* A HID ID is registered only where the target has none (Registration).    *)
IdIsFresh == HIDs!IdIsFresh

(* A Node is registered, reserved and counted, or not at all (Registration).*)
OpenIsAllOrNothing == HIDs!OpenIsAllOrNothing
================================================================================
