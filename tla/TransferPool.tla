----------------------------- MODULE TransferPool -----------------------------
(***************************************************************************)
(* The per-Device pool of request 57 transfers (src/transport/transport    *)
(* .cpp, class Device): the LIFO stack of free slots, the reservations of  *)
(* the Nodes, the error latch, cancellation and the drain test that lets   *)
(* the Device be freed.                                                    *)
(*                                                                         *)
(* Two threads touch the pool.  "app" stands for the application thread:   *)
(* every public call on one Context is serialized by the caller.  "event"  *)
(* is the thread that runs libusb callbacks, the library's own event       *)
(* thread.  A region the code runs under StateGuard is one step; the       *)
(* completion it delivers after unlocking, and the decrement of            *)
(* callbacks_active after that, are further steps of the same thread.      *)
(* In caller-poll mode the callbacks run inside the application thread's   *)
(* poll, so its behaviours are those in which "app" waits for "event".     *)
(*                                                                         *)
(* libusb itself is external and is the variable wire.                     *)
(***************************************************************************)
EXTENDS Integers, Sequences, FiniteSets

CONSTANTS
  Slots,      \* the transfer slots of the Device (config.pool_slots of them)
  Nodes,      \* the HID IDs of the Nodes that may be open on the Device
  NoNode,     \* no Node: the null user pointer of a slot
  NoSlot,     \* no slot: the null transfer pointer of cancel_all
  Statuses    \* the libusb_transfer statuses that may be reported

AllStatuses == {"COMPLETED", "SHORT", "TIMED_OUT", "STALL", "NO_DEVICE",
                "OVERFLOW", "CANCELLED", "ERROR"}

ASSUME PoolAssumption ==
  /\ IsFiniteSet(Slots) /\ Slots # {}
  /\ IsFiniteSet(Nodes)
  /\ NoNode \notin Nodes
  /\ NoSlot \notin Slots
  /\ Statuses \subseteq AllStatuses

VARIABLES
  slot_state,      \* Slot::state
  slot_user,       \* Slot::user and Slot::reservation: the Node that holds it
  slot_counted,    \* Slot::reservation_counted
  free_stack,      \* Impl::free_stack, the top last
  reservations,    \* the Nodes with an entry in Impl::reservations
  capacity,        \* Reservation::capacity
  in_use,          \* Reservation::in_use
  reserved_total,  \* Impl::reserved_capacity_total
  unfilled_total,  \* Impl::unfilled_reserved_total
  outstanding,     \* Impl::outstanding
  callbacks_active,\* Impl::callbacks_active
  latched,         \* Impl::latched, its result and native status
  present,         \* Impl::present
  closing,         \* Impl::closing
  notice,          \* the Notice a thread carries out of StateGuard, and how far
                   \* deliver_terminal has come with it
  inflight,        \* aoahid_node::transfer_inflight, the client's own flag
  cancel_todo,     \* the slots the loop of cancel_all has still to visit
  cancel_target,   \* the transfer cancel_all has picked and not yet cancelled
  wire,            \* libusb: the transfers it owns, and those asked to cancel
  freed            \* the Device has been deleted

poolVars == <<slot_state, slot_user, slot_counted, free_stack, outstanding>>
ledgerVars == <<reservations, capacity, in_use, reserved_total, unfilled_total>>
latchVars == <<latched, present>>
cancelVars == <<closing, cancel_todo, cancel_target>>
callbackVars == <<callbacks_active, notice>>
vars == <<slot_state, slot_user, slot_counted, free_stack, outstanding,
          reservations, capacity, in_use, reserved_total, unfilled_total,
          latched, present, closing, cancel_todo, cancel_target,
          callbacks_active, notice, inflight, wire, freed>>

-----------------------------------------------------------------------------
(* Values *)

Threads == {"app", "event"}
SlotStates == {"free", "prepared", "submitted"}
Stages == {"none", "deliver", "return"}

\* map_libusb_error and completion_result on the statuses the pool can see.
Results == {"OK", "SHORT_TRANSFER", "TIMEOUT", "STALL", "NO_DEVICE",
            "OVERFLOW", "IO", "PARAM"}

\* A failing libusb_submit_transfer and the argument check of submit_prepared
\* report negative libusb codes instead of a transfer status.
Natives == AllStatuses \union {"NONE", "E_IO", "E_NO_DEVICE", "E_INVALID_PARAM"}

NoError == [result |-> "OK", native |-> "NONE"]
NoNotice == [stage |-> "none", user |-> NoNode]

CompletionResult(status) ==
  CASE status = "COMPLETED" -> "OK"
    [] status = "SHORT"     -> "SHORT_TRANSFER"
    [] status = "TIMED_OUT" -> "TIMEOUT"
    [] status = "STALL"     -> "STALL"
    [] status = "NO_DEVICE" -> "NO_DEVICE"
    [] status = "OVERFLOW"  -> "OVERFLOW"
    [] OTHER                -> "IO"

PoolSize == Cardinality(Slots)

TypeOK ==
  /\ slot_state \in [Slots -> SlotStates]
  /\ slot_user \in [Slots -> Nodes \union {NoNode}]
  /\ slot_counted \in [Slots -> BOOLEAN]
  /\ free_stack \in Seq(Slots)
  /\ reservations \subseteq Nodes
  /\ capacity \in [Nodes -> {0, 1}]
  /\ in_use \in [Nodes -> Nat]
  /\ reserved_total \in Nat
  /\ unfilled_total \in Nat
  /\ outstanding \in Nat
  /\ callbacks_active \in Nat
  /\ latched \in [result : Results, native : Natives]
  /\ present \in BOOLEAN
  /\ closing \in BOOLEAN
  /\ notice \in [Threads -> [stage : Stages, user : Nodes \union {NoNode}]]
  /\ inflight \in [Nodes -> BOOLEAN]
  /\ cancel_todo \subseteq Slots
  /\ cancel_target \in Slots \union {NoSlot}
  /\ wire \in [Slots -> {"idle", "flying", "cancelling"}]
  /\ freed \in BOOLEAN

Init ==
  /\ slot_state = [s \in Slots |-> "free"]
  /\ slot_user = [s \in Slots |-> NoNode]
  /\ slot_counted = [s \in Slots |-> FALSE]
  /\ free_stack \in {q \in [1..PoolSize -> Slots] :
                       \A i, j \in 1..PoolSize : q[i] = q[j] => i = j}
  /\ reservations = {}
  /\ capacity = [n \in Nodes |-> 0]
  /\ in_use = [n \in Nodes |-> 0]
  /\ reserved_total = 0
  /\ unfilled_total = 0
  /\ outstanding = 0
  /\ callbacks_active = 0
  /\ latched = NoError
  /\ present = TRUE
  /\ closing = FALSE
  /\ notice = [t \in Threads |-> NoNotice]
  /\ inflight = [n \in Nodes |-> FALSE]
  /\ cancel_todo = {}
  /\ cancel_target = NoSlot
  /\ wire = [s \in Slots |-> "idle"]
  /\ freed = FALSE

-----------------------------------------------------------------------------
(* Helpers that run under StateGuard *)

Idle(t) == notice[t].stage = "none"

\* The application thread can start a call: it is inside none.
AppReady ==
  /\ ~freed
  /\ Idle("app")
  /\ cancel_todo = {} /\ cancel_target = NoSlot

\* latch_locked: the first error stays, a lost device displaces any other, and
\* a cancellation the teardown asked for is not an error.
Latch(result, native) ==
  IF result = "OK" \/ (closing /\ native = "CANCELLED")
  THEN UNCHANGED latchVars
  ELSE IF result = "NO_DEVICE"
  THEN /\ present' = FALSE
       /\ latched' = [result |-> result, native |-> native]
  ELSE /\ latched' = IF latched.result = "OK"
                     THEN [result |-> result, native |-> native]
                     ELSE latched
       /\ UNCHANGED present

\* Mutant of ReleaseReservation: a unit is given back for every slot.
ReleaseUncounted(s) ==
  /\ in_use' = [in_use EXCEPT ![slot_user[s]] = @ - 1]
  /\ unfilled_total' = unfilled_total + 1
  /\ slot_counted' = [slot_counted EXCEPT ![s] = FALSE]
  /\ UNCHANGED <<reservations, capacity, reserved_total>>

\* release_reservation_locked: the reservation of the Node that holds s.
ReleaseReservation(s) ==
  LET n == slot_user[s] IN
  /\ IF in_use[n] > 0
     THEN /\ in_use' = [in_use EXCEPT ![n] = @ - 1]
          /\ unfilled_total' = IF slot_counted[s] THEN unfilled_total + 1
                                                  ELSE unfilled_total
     ELSE UNCHANGED <<in_use, unfilled_total>>
  /\ slot_counted' = [slot_counted EXCEPT ![s] = FALSE]
  /\ UNCHANGED <<reservations, capacity, reserved_total>>

\* Mutant of PushFree: outstanding is not decremented.
PushFreeStaysOutstanding(s) ==
  /\ slot_state' = [slot_state EXCEPT ![s] = "free"]
  /\ slot_user' = [slot_user EXCEPT ![s] = NoNode]
  /\ free_stack' = Append(free_stack, s)
  /\ UNCHANGED outstanding

\* The slot goes back on top of the stack.
PushFree(s) ==
  /\ slot_state' = [slot_state EXCEPT ![s] = "free"]
  /\ slot_user' = [slot_user EXCEPT ![s] = NoNode]
  /\ outstanding' = IF outstanding > 0 THEN outstanding - 1 ELSE outstanding
  /\ free_stack' = Append(free_stack, s)

\* finish_locked, run by thread t: the slot is free from here on, and t owes
\* the Node its completion.
Finish(t, s, result, native) ==
  /\ notice' = [notice EXCEPT ![t] = [stage |-> "deliver", user |-> slot_user[s]]]
  /\ callbacks_active' = callbacks_active + 1
  /\ Latch(result, native)
  /\ ReleaseReservation(s)
  /\ PushFree(s)

-----------------------------------------------------------------------------
(* Calls of the application thread *)

\* Mutant of LeavesSharedSlot: the pool may be reserved to the last slot.
ReservesWholePool(count) ==
  count > 0 => /\ count < PoolSize
               /\ reserved_total <= PoolSize - count

\* The bound of set_reservation: one slot stays outside every reservation.
LeavesSharedSlot(count) ==
  count > 0 => /\ count < PoolSize
               /\ reserved_total < PoolSize - count

\* Device::set_reservation, called by aoahid_node_open with zero or one slot.
SetReservation(n, count) ==
  /\ AppReady /\ present /\ ~closing
  /\ n \notin reservations
  /\ LeavesSharedSlot(count)
  /\ reservations' = reservations \union {n}
  /\ capacity' = [capacity EXCEPT ![n] = count]
  /\ in_use' = [in_use EXCEPT ![n] = 0]
  /\ reserved_total' = reserved_total + count
  /\ unfilled_total' = unfilled_total + count
  /\ UNCHANGED <<poolVars, latchVars, cancelVars, callbackVars, inflight, wire,
                 freed>>

\* Device::clear_reservation, called by aoahid_node_close once the Node has no
\* report in flight.
ClearReservation(n) ==
  /\ AppReady
  /\ n \in reservations
  /\ ~inflight[n]
  /\ in_use[n] = 0
  /\ reservations' = reservations \ {n}
  /\ capacity' = [capacity EXCEPT ![n] = 0]
  /\ reserved_total' = reserved_total - capacity[n]
  /\ unfilled_total' = unfilled_total - capacity[n]
  /\ UNCHANGED <<poolVars, in_use, latchVars, cancelVars, callbackVars, inflight,
                 wire, freed>>

FillingOwnReservation(n) == in_use[n] < capacity[n]

\* Mutant of SlotAvailableTo: off by one.
SlotAvailableOffByOne(n) ==
  /\ free_stack # <<>>
  /\ FillingOwnReservation(n) \/ Len(free_stack) >= unfilled_total

\* The pool condition of acquire: a slot of the Node's own reservation, or one
\* nobody's unfilled reservation needs.
SlotAvailableTo(n) ==
  /\ free_stack # <<>>
  /\ FillingOwnReservation(n) \/ Len(free_stack) > unfilled_total

\* aoahid_node_submit sets transfer_inflight, then calls Device::acquire; a
\* refusal resets the flag, so it is no step.
Acquire(n) ==
  LET s == free_stack[Len(free_stack)] IN
  /\ AppReady /\ n \in reservations /\ ~inflight[n]
  /\ present /\ ~closing
  /\ SlotAvailableTo(n)
  /\ inflight' = [inflight EXCEPT ![n] = TRUE]
  /\ free_stack' = SubSeq(free_stack, 1, Len(free_stack) - 1)
  /\ slot_state' = [slot_state EXCEPT ![s] = "prepared"]
  /\ slot_user' = [slot_user EXCEPT ![s] = n]
  /\ slot_counted' = [slot_counted EXCEPT ![s] = FillingOwnReservation(n)]
  /\ in_use' = [in_use EXCEPT ![n] = @ + 1]
  /\ unfilled_total' = IF FillingOwnReservation(n) THEN unfilled_total - 1
                                                   ELSE unfilled_total
  /\ outstanding' = outstanding + 1
  /\ UNCHANGED <<reservations, capacity, reserved_total, latchVars, cancelVars,
                 callbackVars, wire, freed>>

\* Device::submit on a prepared slot, accepted by libusb.
SubmitAccepted(s) ==
  /\ AppReady /\ slot_state[s] = "prepared" /\ present /\ ~closing
  /\ slot_state' = [slot_state EXCEPT ![s] = "submitted"]
  /\ wire' = [wire EXCEPT ![s] = "flying"]
  /\ UNCHANGED <<slot_user, slot_counted, free_stack, outstanding, ledgerVars,
                 latchVars, cancelVars, callbackVars, inflight, freed>>

\* The ways submit_prepared finishes the slot itself: a wrong length or payload
\* pointer, a closing or lost Device, or a refusal by libusb_submit_transfer.
SubmitFailure ==
  {[result |-> "PARAM", native |-> "E_INVALID_PARAM"]} \union
  IF closing \/ ~present
  THEN {[result |-> IF present THEN "IO" ELSE "NO_DEVICE",
         native |-> IF closing THEN "CANCELLED" ELSE "E_NO_DEVICE"]}
  ELSE {[result |-> "IO", native |-> "E_IO"],
        [result |-> "NO_DEVICE", native |-> "E_NO_DEVICE"]}

SubmitRejected(s) ==
  /\ AppReady /\ slot_state[s] = "prepared"
  /\ \E f \in SubmitFailure : Finish("app", s, f.result, f.native)
  /\ UNCHANGED <<cancelVars, inflight, wire, freed>>

\* Mutant of Abandon: the caller's flag stays set.
AbandonKeepsInflight(s) ==
  /\ AppReady /\ slot_state[s] = "prepared"
  /\ ReleaseReservation(s)
  /\ PushFree(s)
  /\ UNCHANGED <<latchVars, cancelVars, callbackVars, inflight, wire, freed>>

\* Device::abandon, after a serializer or validation failure; the caller then
\* clears its own flag.
Abandon(s) ==
  /\ AppReady /\ slot_state[s] = "prepared"
  /\ ReleaseReservation(s)
  /\ PushFree(s)
  /\ inflight' = [inflight EXCEPT ![slot_user[s]] = FALSE]
  /\ UNCHANGED <<latchVars, cancelVars, callbackVars, wire, freed>>

\* Device::latched_error returns the latch and clears it, unless the device is
\* lost.
LatchedError ==
  /\ AppReady
  /\ latched.result # "NO_DEVICE"
  /\ latched' = NoError
  /\ UNCHANGED <<poolVars, ledgerVars, present, cancelVars, callbackVars,
                 inflight, wire, freed>>

\* observe_control_result: request 54, 55 or 56 found the device gone.
ControlRequestLosesDevice ==
  /\ AppReady /\ present
  /\ present' = FALSE
  /\ latched' = [result |-> "NO_DEVICE", native |-> "E_NO_DEVICE"]
  /\ UNCHANGED <<poolVars, ledgerVars, cancelVars, callbackVars, inflight, wire,
                 freed>>

\* Device::cancel_all: closing is set first, then every slot is visited.  Its
\* only caller besides the destructor is device_close_impl, which runs once.
CancelAll ==
  /\ AppReady /\ ~closing
  /\ closing' = TRUE
  /\ cancel_todo' = Slots
  /\ UNCHANGED <<poolVars, ledgerVars, latchVars, cancel_target, callbackVars,
                 inflight, wire, freed>>

\* Mutant of CancelVisit: a submitted slot is finished on the spot.
CancelFinishesSubmitted(s) ==
  /\ Idle("app") /\ cancel_target = NoSlot
  /\ s \in cancel_todo
  /\ cancel_todo' = cancel_todo \ {s}
  /\ IF slot_state[s] # "free"
     THEN Finish("app", s, "IO", "CANCELLED")
     ELSE UNCHANGED <<poolVars, ledgerVars, latchVars, callbackVars>>
  /\ UNCHANGED <<cancel_target, closing, inflight, wire, freed>>

CancelVisit(s) ==
  /\ Idle("app") /\ cancel_target = NoSlot
  /\ s \in cancel_todo
  /\ cancel_todo' = cancel_todo \ {s}
  /\ CASE slot_state[s] = "submitted" ->
            /\ cancel_target' = s
            /\ UNCHANGED <<poolVars, ledgerVars, latchVars, callbackVars>>
       [] slot_state[s] = "prepared" ->
            /\ Finish("app", s, "IO", "CANCELLED")
            /\ UNCHANGED cancel_target
       [] OTHER ->
            UNCHANGED <<poolVars, ledgerVars, latchVars, callbackVars, cancel_target>>
  /\ UNCHANGED <<closing, inflight, wire, freed>>

\* libusb_cancel_transfer, outside the lock.  The callback may have won the race
\* (NOT_FOUND), and the request itself may fail and leave the transfer alone.
CancelTransfer ==
  /\ cancel_target # NoSlot
  /\ wire' \in {wire, [wire EXCEPT ![cancel_target] =
                         IF @ = "flying" THEN "cancelling" ELSE @]}
  /\ cancel_target' = NoSlot
  /\ UNCHANGED <<poolVars, ledgerVars, latchVars, closing, cancel_todo,
                 callbackVars, inflight, freed>>

-----------------------------------------------------------------------------
(* The event thread *)

\* libusb reports a transfer once: CANCELLED only if it was asked to cancel.
\* transfer_finished then runs under StateGuard.
TransferFinished(s, status) ==
  /\ Idle("event") /\ ~freed
  /\ wire[s] # "idle"
  /\ status = "CANCELLED" => wire[s] = "cancelling"
  /\ wire' = [wire EXCEPT ![s] = "idle"]
  /\ IF slot_state[s] = "submitted"
     THEN Finish("event", s, CompletionResult(status), status)
     ELSE UNCHANGED <<poolVars, ledgerVars, latchVars, callbackVars>>
  /\ UNCHANGED <<cancelVars, inflight, freed>>

-----------------------------------------------------------------------------
(* deliver_terminal, in either thread, with the lock released *)

\* The Node's completion runs; its last store clears transfer_inflight.
Deliver(t) ==
  /\ notice[t].stage = "deliver"
  /\ inflight' = [inflight EXCEPT ![notice[t].user] = FALSE]
  /\ notice' = [notice EXCEPT ![t].stage = "return"]
  /\ UNCHANGED <<poolVars, ledgerVars, latchVars, cancelVars, callbacks_active,
                 wire, freed>>

\* The thread takes the lock again and gives up its hold on the Device.
CallbackReturns(t) ==
  /\ notice[t].stage = "return"
  /\ callbacks_active' = IF callbacks_active > 0 THEN callbacks_active - 1
                                                 ELSE callbacks_active
  /\ notice' = [notice EXCEPT ![t] = NoNotice]
  /\ UNCHANGED <<poolVars, ledgerVars, latchVars, cancelVars, inflight, wire,
                 freed>>

-----------------------------------------------------------------------------
(* Destruction *)

Drained == outstanding = 0 /\ callbacks_active = 0

\* ~Device on a drained Device.  device_close_impl runs it in the application
\* thread, reap_graveyard in the event thread after a poll; cancel_all has
\* returned in both cases.
DestroyDevice ==
  /\ ~freed /\ closing
  /\ cancel_todo = {} /\ cancel_target = NoSlot
  /\ \E t \in Threads : Idle(t)
  /\ Drained
  /\ freed' = TRUE
  /\ UNCHANGED <<poolVars, ledgerVars, latchVars, cancelVars, callbackVars,
                 inflight, wire>>

Next ==
  \/ \E n \in Nodes, count \in {0, 1} : SetReservation(n, count)
  \/ \E n \in Nodes : ClearReservation(n) \/ Acquire(n)
  \/ \E s \in Slots : SubmitAccepted(s) \/ SubmitRejected(s) \/ Abandon(s)
  \/ LatchedError
  \/ ControlRequestLosesDevice
  \/ CancelAll
  \/ \E s \in Slots : CancelVisit(s)
  \/ CancelTransfer
  \/ \E s \in Slots, status \in Statuses : TransferFinished(s, status)
  \/ \E t \in Threads : Deliver(t) \/ CallbackReturns(t)
  \/ DestroyDevice

Spec == Init /\ [][Next]_vars

-----------------------------------------------------------------------------
(* Safety *)

BusySlots == {s \in Slots : slot_state[s] # "free"}
HeldBy(n) == {s \in Slots : slot_user[s] = n}
OwedBy(n) == {t \in Threads : notice[t] = [stage |-> "deliver", user |-> n]}
Reserving == {n \in Nodes : capacity[n] = 1}
Unfilled == {n \in Reserving : in_use[n] = 0}

(***************************************************************************)
(* The free stack holds exactly the free slots, each once, and             *)
(* outstanding counts the others: no interleaving of submit failures,      *)
(* completions and cancellation frees a slot twice or loses one            *)
(* (finish_locked, abandon, acquire).                                      *)
(***************************************************************************)
PoolAccounting ==
  /\ \A i, j \in 1..Len(free_stack) : free_stack[i] = free_stack[j] => i = j
  /\ \A s \in Slots : s \notin BusySlots <=>
                         \E i \in 1..Len(free_stack) : free_stack[i] = s
  /\ outstanding = Cardinality(BusySlots)

(***************************************************************************)
(* The two running totals agree with the reservations they summarize, a    *)
(* Node never holds two slots, and one slot always stays outside every     *)
(* reservation (acquire, release_reservation_locked, set_reservation,      *)
(* clear_reservation).                                                     *)
(***************************************************************************)
ReservationLedger ==
  /\ reserved_total = Cardinality(Reserving)
  /\ unfilled_total = Cardinality(Unfilled)
  /\ reserved_total < PoolSize
  /\ \A n \in Nodes : in_use[n] = Cardinality(HeldBy(n)) /\ in_use[n] <= 1

(***************************************************************************)
(* A Node whose transfer_inflight is set is owed exactly one completion:   *)
(* by the slot it holds, or by the one thread that carries its Notice.  A  *)
(* Node whose flag is clear is owed none, so no callback can reach a Node  *)
(* that aoahid_node_close has found idle and freed.                        *)
(***************************************************************************)
OneCompletionOwed ==
  \A n \in Nodes : Cardinality(HeldBy(n)) + Cardinality(OwedBy(n)) =
                     IF inflight[n] THEN 1 ELSE 0

(***************************************************************************)
(* libusb owns the transfer and the buffer of a slot exactly while the     *)
(* slot is submitted, so a buffer is never rewritten under a transfer; and *)
(* a freed Device has no transfer in libusb and no thread in a callback.   *)
(***************************************************************************)
BufferOwnership ==
  /\ \A s \in Slots : wire[s] # "idle" <=> slot_state[s] = "submitted"
  /\ freed => \A t \in Threads : Idle(t)
  /\ freed => \A s \in Slots : wire[s] = "idle"

(***************************************************************************)
(* The latch reads NO_DEVICE exactly when the device is not present,       *)
(* whichever of a completion, a submission or a control request found it   *)
(* gone (latch_locked, observe_control_result, latched_error).             *)
(***************************************************************************)
LatchMatchesPresence == present <=> latched.result # "NO_DEVICE"

(***************************************************************************)
(* The cancellations of a teardown are never latched as errors of the      *)
(* device: cancel_all sets closing before the first cancellation it asks   *)
(* for can come back (latch_locked).                                       *)
(***************************************************************************)
TeardownNotLatched == latched.native # "CANCELLED"

\* The free slots cover every reservation that is not in use.
Funded == Len(free_stack) >= unfilled_total

(***************************************************************************)
(* While the reservations are funded, an idle Node with a reserved slot    *)
(* finds one: the pool never answers BUSY to it (acquire).                 *)
(***************************************************************************)
FundedReservationIsHonoured ==
  Funded => \A n \in Reserving : ~inflight[n] => SlotAvailableTo(n)

(***************************************************************************)
(* Nothing any Node or either thread does takes a slot that an unfilled    *)
(* reservation needs; only a new reservation, made while others hold the   *)
(* slots, can leave the pool short.                                        *)
(***************************************************************************)
ReservationStaysFunded ==
  [][Funded => Funded' \/ reserved_total' > reserved_total]_vars

(***************************************************************************)
(* The latch keeps the first error until it is read, except that a lost    *)
(* device displaces it and is kept for good.                               *)
(***************************************************************************)
LatchPriority ==
  [][latched' # latched =>
       /\ latched.result # "NO_DEVICE" \/ latched'.result = "NO_DEVICE"
       /\ latched.result # "OK" => latched'.result \in {"OK", "NO_DEVICE"}]_vars

-----------------------------------------------------------------------------
(* Liveness *)

(***************************************************************************)
(* Every transfer has a timeout, so libusb reports each one; a thread      *)
(* inside deliver_terminal or cancel_all goes on; aoahid_node_submit       *)
(* submits or abandons the slot it prepared; and the Device is freed when  *)
(* close, or the reaper after a poll, finds it drained.                    *)
(***************************************************************************)
Fairness ==
  /\ \A s \in Slots : SF_vars(\E status \in Statuses : TransferFinished(s, status))
  /\ \A s \in Slots : SF_vars(SubmitAccepted(s) \/ SubmitRejected(s) \/ Abandon(s))
  /\ \A t \in Threads : WF_vars(Deliver(t) \/ CallbackReturns(t))
  /\ WF_vars(CancelTransfer \/ \E s \in Slots : CancelVisit(s))
  /\ WF_vars(DestroyDevice)

FairSpec == Spec /\ Fairness

(***************************************************************************)
(* A report that was accepted is answered: transfer_inflight does not stay *)
(* set, whatever mix of failures, cancellation and device loss ends it.    *)
(***************************************************************************)
EveryReportCompletes == \A n \in Nodes : inflight[n] ~> ~inflight[n]

(***************************************************************************)
(* A reservation made while other Nodes hold every slot is covered sooner  *)
(* or later, however eagerly they submit.                                  *)
(***************************************************************************)
ReservationEventuallyFunded == []<>(Funded \/ freed)

=============================================================================
