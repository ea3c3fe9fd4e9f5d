------------------------------ MODULE BlockingWait -----------------------------
(***************************************************************************)
(* How poll_until_idle (src/api/c_api.cpp) waits while the event thread    *)
(* runs the callbacks (transfer_complete, src/profiles/state.cpp): for a   *)
(* transfer slot while other Nodes hold them all, for its own transfer     *)
(* once it is submitted.  Both are condition variables; the application    *)
(* thread also wakes every 10 ms, which nothing may depend on.             *)
(*                                                                         *)
(* One Context with an event thread, one submitting thread.  What a report *)
(* holds, errors and the deadline are the matter of ReportNode.            *)
(***************************************************************************)
EXTENDS Naturals

CONSTANTS
  Slots,  \* the transfers of the Device's pool
  Resends \* bound: how often the Node is dirty again after a completion

WaitAssumption == Slots \in Nat \ {0} /\ Resends \in Nat

VARIABLES
  app,        \* where the submitting thread is, and at which condition
  event,      \* where the event thread is
  whose,      \* the transfer whose callback runs: "own" or "other"
  others,     \* transfers of other Nodes in flight
  used,       \* slots in use
  inflight,   \* transfer_inflight of the Node
  dirty,      \* the Node has a change to send
  generation, \* slot_generation
  seen,       \* the generation read before the submission
  waiters,    \* slot_waiters and completion_waiters
  mutex,      \* slot_mutex and completion_mutex: held by the waiter
  notified,   \* the sleeping thread was notified
  resends

vars == <<app, event, whose, others, used, inflight, dirty, generation, seen,
          waiters, mutex, notified, resends>>

Conditions == {"slot", "completion"}

Init ==
  /\ app = <<"loop", "none">> /\ event = "idle" /\ whose = "other"
  /\ others \in 0..Slots /\ used = others
  /\ inflight = FALSE /\ dirty = TRUE
  /\ generation = 0 /\ seen = 0
  /\ waiters = [c \in Conditions |-> 0]
  /\ mutex = [c \in Conditions |-> FALSE]
  /\ notified = FALSE /\ resends = 0

-----------------------------------------------------------------------------
(* The submitting thread: poll_until_idle *)

eventVars == <<event, whose, others, generation, resends>>

Loop ==
  /\ app = <<"loop", "none">>
  /\ app' = CASE inflight -> <<"lock", "completion">>
              [] ~inflight /\ dirty -> <<"submit", "none">>
              [] OTHER -> <<"idle", "none">>
  /\ seen' = IF ~inflight /\ dirty THEN generation ELSE seen
  /\ UNCHANGED <<eventVars, used, inflight, dirty, waiters, mutex, notified>>

\* aoahid_node_submit: BUSY without a free slot
Submit ==
  /\ app = <<"submit", "none">>
  /\ IF used < Slots
     THEN used' = used + 1 /\ inflight' = TRUE /\ app' = <<"lock", "completion">>
     ELSE UNCHANGED <<used, inflight>> /\ app' = <<"lock", "slot">>
  /\ UNCHANGED <<eventVars, dirty, seen, waiters, mutex, notified>>

Lock(c) ==
  /\ app = <<"lock", c>> /\ ~mutex[c]
  /\ mutex' = [mutex EXCEPT ![c] = TRUE]
  /\ waiters' = [waiters EXCEPT ![c] = @ + 1]
  /\ app' = <<"check", c>>
  /\ UNCHANGED <<eventVars, used, inflight, dirty, seen, notified>>

Predicate(c) == IF c = "slot" THEN generation # seen ELSE ~inflight

\* The predicate of wait_until, evaluated under the mutex.
Check(c) ==
  /\ app = <<"check", c>>
  /\ app' = <<IF Predicate(c) THEN "leave" ELSE "sleep", c>>
  /\ UNCHANGED <<eventVars, used, inflight, dirty, seen, waiters, mutex, notified>>

Sleep(c) ==
  /\ app = <<"sleep", c>>
  /\ mutex' = [mutex EXCEPT ![c] = FALSE]
  /\ notified' = FALSE /\ app' = <<"asleep", c>>
  /\ UNCHANGED <<eventVars, used, inflight, dirty, seen, waiters>>

Woken(c) ==
  /\ app = <<"asleep", c>> /\ notified /\ ~mutex[c]
  /\ mutex' = [mutex EXCEPT ![c] = TRUE]
  /\ app' = <<"check", c>>
  /\ UNCHANGED <<eventVars, used, inflight, dirty, seen, waiters, notified>>

\* The quantum, or the deadline.
TimedOut(c) ==
  /\ app = <<"asleep", c>> /\ ~mutex[c]
  /\ mutex' = [mutex EXCEPT ![c] = TRUE]
  /\ app' = <<"leave", c>>
  /\ UNCHANGED <<eventVars, used, inflight, dirty, seen, waiters, notified>>

Leave(c) ==
  /\ app = <<"leave", c>>
  /\ mutex' = [mutex EXCEPT ![c] = FALSE]
  /\ waiters' = [waiters EXCEPT ![c] = @ - 1]
  /\ app' = <<"loop", "none">>
  /\ UNCHANGED <<eventVars, used, inflight, dirty, seen, notified>>

App ==
  \/ Loop \/ Submit
  \/ \E c \in Conditions : Lock(c) \/ Check(c) \/ Sleep(c) \/ Woken(c) \/ Leave(c)

-----------------------------------------------------------------------------
(* The event thread: one callback at a time *)

appVars == <<app, inflight, dirty, seen, waiters, mutex>>

\* The transport frees the slot and calls back.
Complete ==
  /\ event = "idle"
  /\ \/ others > 0 /\ whose' = "other" /\ others' = others - 1
     \/ inflight /\ whose' = "own" /\ UNCHANGED others
  /\ used' = used - 1 /\ event' = "bump"
  /\ UNCHANGED <<appVars, generation, notified, resends>>

Bump ==
  /\ event = "bump"
  /\ generation' = generation + 1 /\ event' = "look"
  /\ UNCHANGED <<appVars, whose, others, used, notified, resends>>

LookForWaiters ==
  /\ event = "look"
  /\ event' = IF waiters["slot"] # 0 THEN "notify" ELSE "publish"
  /\ UNCHANGED <<appVars, whose, others, used, generation, notified, resends>>

\* Mutant of NotifySlot: slot_mutex is not taken.
NotifySlotUnlocked ==
  /\ event = "notify"
  /\ notified' = (notified \/ app = <<"asleep", "slot">>)
  /\ event' = "publish"
  /\ UNCHANGED <<appVars, whose, others, used, generation, resends>>

NotifySlot ==
  /\ event = "notify" /\ ~mutex["slot"]
  /\ notified' = (notified \/ app = <<"asleep", "slot">>)
  /\ event' = "publish"
  /\ UNCHANGED <<appVars, whose, others, used, generation, resends>>

\* Under completion_mutex of the Node the transfer belongs to; the Node is
\* dirty again if the report was refused or the frame goes on.
Publish ==
  /\ event = "publish"
  /\ IF whose = "own"
     THEN /\ ~mutex["completion"]
          /\ inflight' = FALSE
          /\ \E again \in BOOLEAN :
               /\ again => resends < Resends
               /\ dirty' = again /\ resends' = IF again THEN resends + 1 ELSE resends
          /\ notified' = (notified \/ (waiters["completion"] # 0
                                       /\ app = <<"asleep", "completion">>))
     ELSE UNCHANGED <<inflight, dirty, resends, notified>>
  /\ event' = "idle"
  /\ UNCHANGED <<app, seen, waiters, mutex, whose, others, used, generation>>

Event == Complete \/ Bump \/ LookForWaiters \/ NotifySlot \/ Publish

-----------------------------------------------------------------------------
Next == App \/ (\E c \in Conditions : TimedOut(c)) \/ Event

(* Both threads run, every transfer ends (it has a timeout), and a mutex    *)
(* that is released again and again is obtained, its holder going to sleep  *)
(* for milliseconds in between.  No fairness for the quantum.               *)
Spec == Init /\ [][Next]_vars /\ WF_vars(App) /\ SF_vars(Event)

-----------------------------------------------------------------------------
(* No wake-up is lost: without a single 10 ms quantum, a blocked submission *)
(* goes on after every release of a slot and ends when its report has been  *)
(* delivered, although slot_generation changes without the mutex under      *)
(* which it is checked (the comments at state.cpp:657-658 and               *)
(* c_api.cpp:635-638).                                                      *)
BlockedSubmissionEnds == <>(app[1] = "idle")
===============================================================================
