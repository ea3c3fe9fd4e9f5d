------------------------------- MODULE Channel --------------------------------
(***************************************************************************)
(* A bulk Channel (src/transport/channel.cpp): one thread reads, one       *)
(* writes, the event thread completes transfers, and the application       *)
(* closes.  One action per access to state that another thread uses.       *)
(*                                                                         *)
(* The atomics involved in a wake-up are seq_cst, so interleaving is       *)
(* their semantics.  A push or pop is one action (see IndexRing).  Bytes   *)
(* are left out: a transfer brings data, nothing, or an error.             *)
(***************************************************************************)
EXTENDS Integers, Sequences, FiniteSets

CONSTANTS
  InTransfers, OutTransfers,  \* the transfers a Channel may allocate
  NoSlot,                     \* no_slot
  MaxSlots                    \* bound: the transfers of the two pools together

ASSUME ChannelAssumption ==
  /\ IsFiniteSet(InTransfers) /\ IsFiniteSet(OutTransfers)
  /\ InTransfers \intersect OutTransfers = {}
  /\ NoSlot \notin InTransfers \union OutTransfers
  /\ MaxSlots \in Nat

Threads == {"reader", "writer", "event", "closer"}
Sides == {"in", "out"}

\* How libusb ends a transfer; "fail" stands for every status but NO_DEVICE.
Statuses == {"data", "empty", "fail", "gone"}

VARIABLES
  requestReads,     \* request_reads: AOAHID_CHANNEL_READ_REQUEST
  inSlots,          \* in_slots
  outSlots,         \* out_slots
  xfer,             \* per slot: its libusb transfer
  inFlight,         \* in_flight
  readyIn,          \* ready_in
  freeOut,          \* free_out
  lost,             \* lost
  writeError,       \* write_error
  current,          \* current
  requestPending,   \* request_pending
  spare,            \* spare
  thread,           \* where each thread is
  freed,            \* the Channel is deleted
  swept,            \* history: a lose() has cancelled every transfer
  failureReturned   \* history: a read has returned the failure of a transfer

Slots == inSlots \union outSlots

opened == <<requestReads, inSlots, outSlots>>
usb == <<xfer, inFlight>>
rings == <<readyIn, freeOut>>
flags == <<lost, writeError>>
local == <<current, requestPending, spare>>
history == <<freed, swept, failureReturned>>
shared == <<opened, usb, rings, flags, local, history>>
vars == <<shared, thread>>

Resting == [flying |-> FALSE, cancelled |-> FALSE, status |-> "data"]

\* notify: the waiters still to be notified; locking: the first is to be woken;
\* sweep: the transfers lose() has still to cancel.
Quiet ==
  [pc |-> "idle", slot |-> NoSlot, after |-> "idle",
   notify |-> <<>>, locking |-> FALSE, sweep |-> {}]

\* The thread t is at the label and has no call to complete first.
At(t, label) ==
  thread[t].pc = label /\ thread[t].notify = <<>> /\ thread[t].sweep = {}

Goto(t, label) == thread' = [thread EXCEPT ![t].pc = label]

\* A step of t that changes nothing else.
Move(t, label) == Goto(t, label) /\ UNCHANGED shared

\* t has the slot s to submit and goes on at the label afterwards.
Takes(t, s, label) ==
  thread' = [thread EXCEPT ![t].pc = "submit", ![t].slot = s, ![t].after = label]

\* t gives its slot away.
Drops(t, label) ==
  thread' = [thread EXCEPT ![t].pc = label, ![t].slot = NoSlot, ![t].after = "idle"]

\* t stores lost and notifies both waiters, then goes to the label.
MarkLost(t, label) ==
  /\ lost' = TRUE
  /\ thread' = [thread EXCEPT ![t].notify = <<"in", "out">>, ![t].pc = label]

\* t marks the Channel lost and cancels every transfer.
Lose(t, label) ==
  /\ lost' = TRUE
  /\ thread' = [thread EXCEPT ![t].notify = <<"in", "out">>, ![t].pc = label,
                              ![t].sweep = Slots]

\* The transfers of one pool, some of those in T.
Pools(T) == SUBSET T \ {{}}

\* The pool of OUT transfers in any order; request mode has one IN transfer, and
\* stream mode has submitted every IN transfer.
Init ==
  /\ requestReads \in BOOLEAN
  /\ inSlots \in Pools(InTransfers)
  /\ outSlots \in Pools(OutTransfers)
  /\ Cardinality(inSlots) + Cardinality(outSlots) <= MaxSlots
  /\ requestReads => Cardinality(inSlots) = 1
  /\ xfer = [s \in Slots |->
              [Resting EXCEPT !.flying = s \in inSlots /\ ~requestReads]]
  /\ inFlight = IF requestReads THEN 0 ELSE Cardinality(inSlots)
  /\ readyIn = <<>>
  /\ freeOut \in {q \in [1..Cardinality(outSlots) -> outSlots] :
                    \A i, j \in DOMAIN q : q[i] = q[j] => i = j}
  /\ lost = FALSE
  /\ writeError = "ok"
  /\ current = NoSlot
  /\ requestPending = FALSE
  /\ spare = NoSlot
  /\ thread = [t \in Threads |-> Quiet]
  /\ freed = FALSE
  /\ swept = FALSE
  /\ failureReturned = FALSE

-----------------------------------------------------------------------------
(* Waiter *)

WaitingThread(side) == IF side = "in" THEN "reader" ELSE "writer"

\* The predicate of the two waits.
Ready(side) == lost \/ (IF side = "in" THEN readyIn ELSE freeOut) # <<>>

\* waiters_ counts the thread from its fetch_add to its fetch_sub.
Waiters(side) ==
  thread[WaitingThread(side)].pc \in {"registered", "checked", "asleep"}

\* Mutant of NotifyLooks: only a sleeping thread is counted.
NotifyLooksForSleeper(t) ==
  /\ thread[t].notify # <<>> /\ ~thread[t].locking
  /\ thread' = IF thread[WaitingThread(Head(thread[t].notify))].pc = "asleep"
                 THEN [thread EXCEPT ![t].locking = TRUE]
                 ELSE [thread EXCEPT ![t].notify = Tail(@)]
  /\ UNCHANGED shared

\* notify reads waiters_.
NotifyLooks(t) ==
  /\ thread[t].notify # <<>> /\ ~thread[t].locking
  /\ thread' = IF Waiters(Head(thread[t].notify))
                 THEN [thread EXCEPT ![t].locking = TRUE]
                 ELSE [thread EXCEPT ![t].notify = Tail(@)]
  /\ UNCHANGED shared

\* notify takes the mutex, which a thread that has just found its predicate
\* false still holds, and wakes the thread if it sleeps.
NotifyWakes(t) ==
  /\ thread[t].locking
  /\ LET w == WaitingThread(Head(thread[t].notify)) IN
       /\ thread[w].pc # "checked"
       /\ thread' = [thread EXCEPT
            ![t].locking = FALSE,
            ![t].notify = Tail(@),
            ![w].pc = IF @ = "asleep" THEN "registered" ELSE @]
  /\ UNCHANGED shared

\* wait_until adds the thread to waiters_.
WaitRegisters(t) == At(t, "wait") /\ Move(t, "registered")

\* With the mutex, the predicate is evaluated; when it holds the wait is over.
WaitChecks(side) ==
  /\ At(WaitingThread(side), "registered")
  /\ Move(WaitingThread(side), IF Ready(side) THEN "loop" ELSE "checked")

\* cv_ releases the mutex and sleeps.
WaitSleeps(t) == At(t, "checked") /\ Move(t, "asleep")

\* The deadline passes.
WaitExpires(t) == At(t, "asleep") /\ Move(t, "loop")

-----------------------------------------------------------------------------
(* callback: the event thread *)

\* An IN transfer ends: the callback pushes its slot.
InCompletes(s, status) ==
  /\ At("event", "idle")
  /\ s \in inSlots /\ xfer[s].flying
  /\ xfer' = [xfer EXCEPT ![s] = [Resting EXCEPT !.status = status]]
  /\ readyIn' = Append(readyIn, s)
  /\ thread' = [thread EXCEPT !["event"].pc = "count", !["event"].notify = <<"in">>]
  /\ UNCHANGED <<opened, inFlight, freeOut, flags, local, history>>

\* The first failure since the last write is kept.
RecordError(status) ==
  writeError' = IF writeError = "ok" /\ status # "data" THEN status ELSE writeError

\* An OUT transfer ends; a short transfer is a failure too.
OutCompletes(s, status) ==
  /\ At("event", "idle")
  /\ s \in outSlots /\ xfer[s].flying
  /\ status # "empty"
  /\ xfer' = [xfer EXCEPT ![s] = [Resting EXCEPT !.status = status]]
  /\ RecordError(status)
  /\ thread' = [thread EXCEPT
       !["event"].pc = IF status = "gone" THEN "lose" ELSE "free",
       !["event"].slot = s]
  /\ UNCHANGED <<opened, inFlight, rings, lost, local, freed, swept, failureReturned>>

\* NO_DEVICE loses the Channel; the push that follows notifies the writer.
OutLoses ==
  /\ At("event", "lose")
  /\ lost' = TRUE
  /\ thread' = [thread EXCEPT !["event"].pc = "free", !["event"].notify = <<"in">>]
  /\ UNCHANGED <<opened, usb, rings, writeError, local, history>>

OutFrees ==
  /\ At("event", "free")
  /\ freeOut' = Append(freeOut, thread["event"].slot)
  /\ thread' = [thread EXCEPT !["event"].pc = "count", !["event"].slot = NoSlot,
                              !["event"].notify = <<"out">>]
  /\ UNCHANGED <<opened, usb, readyIn, flags, local, history>>

\* Mutant of CallbackEnds: the count is given back before the notification.
CallbackEndsEarly ==
  /\ thread["event"].pc = "count"
  /\ inFlight' = inFlight - 1
  /\ Goto("event", "idle")
  /\ UNCHANGED <<opened, xfer, rings, flags, local, history>>

\* The last access of the callback to the Channel.
CallbackEnds ==
  /\ At("event", "count")
  /\ inFlight' = inFlight - 1
  /\ Goto("event", "idle")
  /\ UNCHANGED <<opened, xfer, rings, flags, local, history>>

-----------------------------------------------------------------------------
(* submit, submit_in: the reader and the writer *)

\* Where a refused submission leads; see ReadRefused and WriteRefused.
SubmitLooks(t) ==
  /\ At(t, "submit")
  /\ IF lost
       THEN Goto(t, "refused") /\ UNCHANGED inFlight
       ELSE Goto(t, "submitting") /\ inFlight' = inFlight + 1
  /\ UNCHANGED <<opened, xfer, rings, flags, local, history>>

LibusbAccepts(t) ==
  /\ At(t, "submitting")
  /\ xfer' = [xfer EXCEPT ![thread[t].slot] = [Resting EXCEPT !.flying = TRUE]]
  /\ Goto(t, "recheck")
  /\ UNCHANGED <<opened, inFlight, rings, flags, local, history>>

\* Mutant of LibusbRejects: the count is not given back.
LibusbRejectsCounted(t, label) == At(t, "submitting") /\ Move(t, label)

\* libusb_submit_transfer fails.
LibusbRejects(t, label) ==
  /\ At(t, "submitting")
  /\ inFlight' = inFlight - 1
  /\ Goto(t, label)
  /\ UNCHANGED <<opened, xfer, rings, flags, local, history>>

Cancelled(s) == [xfer EXCEPT ![s].cancelled = xfer[s].flying]

\* Mutant of SubmitRechecks: a loss since the first look is not noticed.
SubmitTrusts(t) == At(t, "recheck") /\ Move(t, "submitted")

\* lose() may have run since the first look at lost.
SubmitRechecks(t) ==
  /\ At(t, "recheck")
  /\ xfer' = IF lost THEN Cancelled(thread[t].slot) ELSE xfer
  /\ Goto(t, "submitted")
  /\ UNCHANGED <<opened, inFlight, rings, flags, local, history>>

\* lose() cancels the IN transfers, then the OUT transfers.
SweepCancels(t, s) ==
  /\ thread[t].notify = <<>>
  /\ s \in thread[t].sweep
  /\ s \in outSlots => thread[t].sweep \subseteq outSlots
  /\ xfer' = Cancelled(s)
  /\ thread' = [thread EXCEPT ![t].sweep = @ \ {s}]
  /\ swept' = (swept \/ thread[t].sweep = {s})
  /\ UNCHANGED <<opened, inFlight, rings, flags, local, freed, failureReturned>>

-----------------------------------------------------------------------------
(* read *)

\* A read or write is never concurrent with closing the Channel.
InUse == ~freed /\ At("closer", "idle")

ReadBegins ==
  /\ InUse /\ At("reader", "idle")
  /\ Move("reader", "loop")

\* The caller's buffer is too small for what current still holds.
ReadCopiesPart ==
  /\ At("reader", "loop") /\ current # NoSlot
  /\ Move("reader", "idle")

ReadCopiesAll ==
  /\ At("reader", "loop") /\ current # NoSlot
  /\ current' = NoSlot
  /\ IF requestReads THEN Goto("reader", "idle") ELSE Takes("reader", current, "idle")
  /\ UNCHANGED <<opened, usb, rings, flags, requestPending, spare, history>>

\* Request mode sizes and submits its transfer when it has none.
ReadRequests ==
  /\ At("reader", "loop")
  /\ current = NoSlot /\ requestReads /\ ~requestPending
  /\ \E s \in inSlots : Takes("reader", s, "request")
  /\ UNCHANGED shared

PopEnabled ==
  At("reader", "loop") /\ current = NoSlot /\ (requestReads => requestPending)

\* Mutant of Consumed: a transfer that brought nothing is thought pending.
ConsumedUnlessEmpty(status) == requestPending /\ status = "empty"

\* request_pending after a transfer was popped.
Consumed(status) == FALSE

ReadPops ==
  /\ PopEnabled
  /\ readyIn # <<>>
  /\ LET s == Head(readyIn)  status == xfer[s].status IN
       /\ readyIn' = Tail(readyIn)
       /\ requestPending' = Consumed(status)
       /\ \/ /\ status = "data"
             /\ current' = s
             /\ UNCHANGED thread
          \/ /\ status = "empty"
             /\ IF requestReads THEN UNCHANGED thread ELSE Takes("reader", s, "loop")
             /\ UNCHANGED current
          \/ /\ status \in {"fail", "gone"}
             /\ thread' = [thread EXCEPT !["reader"].pc = "failed", !["reader"].slot = s]
             /\ UNCHANGED current
  /\ UNCHANGED <<opened, usb, freeOut, flags, spare, history>>

\* A failure loses the Channel; on a lost one it is NO_DEVICE.
ReadFails ==
  /\ At("reader", "failed")
  /\ IF lost
       THEN Drops("reader", "idle") /\ UNCHANGED lost
       ELSE Lose("reader", "failing")
  /\ UNCHANGED <<opened, usb, rings, writeError, local, history>>

ReadReturnsFailure ==
  /\ At("reader", "failing")
  /\ Drops("reader", "idle")
  /\ failureReturned' = TRUE
  /\ UNCHANGED <<opened, usb, rings, flags, local, freed, swept>>

ReadFindsNone ==
  /\ PopEnabled
  /\ readyIn = <<>>
  /\ Move("reader", "look")

\* After an empty ring: lost, the timeout, or the wait.
Looks(t) ==
  /\ At(t, "look")
  /\ \/ Move(t, "idle")
     \/ ~lost /\ Move(t, "wait")

\* submit_in marks the Channel lost when libusb refuses the transfer.
ReadMarks ==
  /\ At("reader", "marking")
  /\ MarkLost("reader", "refused")
  /\ UNCHANGED <<opened, usb, rings, writeError, local, history>>

\* A refused IN transfer is given up; only a request is reported at once.
ReadRefused ==
  /\ At("reader", "refused")
  /\ Drops("reader", IF thread["reader"].after = "loop" THEN "loop" ELSE "idle")
  /\ UNCHANGED shared

\* request_pending after a transfer was submitted.
Requested == requestPending \/ thread["reader"].after = "request"

ReadSubmitted ==
  /\ At("reader", "submitted")
  /\ requestPending' = Requested
  /\ Drops("reader", IF thread["reader"].after = "idle" THEN "idle" ELSE "loop")
  /\ UNCHANGED <<opened, usb, rings, flags, current, spare, history>>

-----------------------------------------------------------------------------
(* write *)

\* On a lost Channel the write returns NO_DEVICE and changes nothing.
WriteBegins ==
  /\ InUse /\ At("writer", "idle")
  /\ ~lost
  /\ Move("writer", "exchange")

\* An earlier failure is what this write returns; an empty write ends here.
WriteExchanges ==
  /\ At("writer", "exchange")
  /\ writeError' = "ok"
  /\ IF writeError = "ok"
       THEN \E label \in {"loop", "idle"} : Goto("writer", label)
       ELSE Goto("writer", "idle")
  /\ UNCHANGED <<opened, usb, rings, lost, local, freed, swept, failureReturned>>

WriteTakesSpare ==
  /\ At("writer", "loop")
  /\ spare # NoSlot
  /\ spare' = NoSlot
  /\ Takes("writer", spare, "idle")
  /\ UNCHANGED <<opened, usb, rings, flags, current, requestPending, history>>

WritePops ==
  /\ At("writer", "loop")
  /\ spare = NoSlot /\ freeOut # <<>>
  /\ freeOut' = Tail(freeOut)
  /\ Takes("writer", Head(freeOut), "idle")
  /\ UNCHANGED <<opened, usb, readyIn, flags, local, history>>

WriteFindsNone ==
  /\ At("writer", "loop")
  /\ spare = NoSlot /\ freeOut = <<>>
  /\ Move("writer", "look")

\* Mutant of KeepsSpare: the slot is forgotten.
ForgetsSpare == UNCHANGED spare

\* A slot that was not submitted is kept for the next write.
KeepsSpare == spare' = thread["writer"].slot

\* NO_DEVICE loses the Channel.
WriteRefused ==
  /\ At("writer", "refused")
  /\ KeepsSpare
  /\ lost' = TRUE
  /\ thread' = [thread EXCEPT !["writer"].pc = "idle", !["writer"].slot = NoSlot,
                              !["writer"].notify = <<"in", "out">>]
  /\ UNCHANGED <<opened, usb, rings, writeError, current, requestPending, history>>

WriteFails ==
  /\ At("writer", "failed")
  /\ KeepsSpare
  /\ Drops("writer", "idle")
  /\ UNCHANGED <<opened, usb, rings, flags, current, requestPending, history>>

\* The write has more to send, or returns.
WriteSubmitted ==
  /\ At("writer", "submitted")
  /\ \E label \in {"loop", "idle"} : Drops("writer", label)
  /\ UNCHANGED shared

-----------------------------------------------------------------------------
(* aoahid_channel_close *)

CloseBegins ==
  /\ InUse /\ At("reader", "idle") /\ At("writer", "idle")
  /\ Lose("closer", "drain")
  /\ UNCHANGED <<opened, usb, rings, writeError, local, history>>

\* CLOSE_PENDING: the lost Channel stays the caller's.
CloseGivesUp ==
  /\ At("closer", "drain")
  /\ inFlight # 0
  /\ Move("closer", "idle")

CloseFrees ==
  /\ At("closer", "drain")
  /\ inFlight = 0
  /\ freed' = TRUE
  /\ Goto("closer", "idle")
  /\ UNCHANGED <<opened, usb, rings, flags, local, swept, failureReturned>>

-----------------------------------------------------------------------------

EventNext ==
  \/ \E s \in Slots, status \in Statuses : InCompletes(s, status) \/ OutCompletes(s, status)
  \/ OutLoses
  \/ OutFrees
  \/ CallbackEnds

SubmitNext(t) == SubmitLooks(t) \/ LibusbAccepts(t) \/ SubmitRechecks(t)

WaitNext(side) ==
  \/ WaitRegisters(WaitingThread(side)) \/ WaitSleeps(WaitingThread(side))
  \/ WaitChecks(side)

NotifyNext(t) == NotifyLooks(t) \/ NotifyWakes(t) \/ \E s \in Slots : SweepCancels(t, s)

\* The steps of a read after its first.
ReadNext ==
  \/ ReadCopiesPart \/ ReadCopiesAll
  \/ ReadRequests
  \/ ReadPops \/ ReadFails \/ ReadReturnsFailure
  \/ ReadFindsNone \/ Looks("reader") \/ WaitNext("in")
  \/ SubmitNext("reader") \/ LibusbRejects("reader", "marking")
  \/ ReadMarks \/ ReadRefused \/ ReadSubmitted

\* The steps of a write after its first.
WriteNext ==
  \/ WriteExchanges
  \/ WriteTakesSpare \/ WritePops
  \/ WriteFindsNone \/ Looks("writer") \/ WaitNext("out")
  \/ SubmitNext("writer")
  \/ \E label \in {"refused", "failed"} : LibusbRejects("writer", label)
  \/ WriteRefused \/ WriteFails \/ WriteSubmitted

Next ==
  \/ EventNext
  \/ \E t \in Threads : NotifyNext(t)
  \/ ReadBegins \/ ReadNext
  \/ WriteBegins \/ WriteNext
  \/ \E t \in {"reader", "writer"} : WaitExpires(t)
  \/ CloseBegins \/ CloseGivesUp \/ CloseFrees

Spec == Init /\ [][Next]_vars

CallbackGoesOn == OutLoses \/ OutFrees \/ CallbackEnds

CancelledCompletes(s) ==
  xfer[s].cancelled
  /\ \E status \in Statuses : InCompletes(s, status) \/ OutCompletes(s, status)

\* A callback that began ends; libusb completes a cancelled transfer.
EventFairness ==
  /\ WF_vars(CallbackGoesOn)
  /\ \A s \in InTransfers \union OutTransfers :
       WF_vars(s \in Slots /\ CancelledCompletes(s))

\* Threads run; the deadline of a wait need not come.
ThreadFairness ==
  /\ \A t \in Threads : WF_vars(NotifyNext(t))
  /\ WF_vars(ReadNext)
  /\ WF_vars(WriteNext)
  /\ WF_vars(CloseFrees)

LiveSpec == Spec /\ EventFairness /\ ThreadFairness

-----------------------------------------------------------------------------
(* Properties *)

Holding == {"submit", "submitting", "refused", "marking", "failed", "failing", "free", "lose"}

\* How many hold the slot: libusb, a ring, the reader, the writer, a thread.
Owners(s) ==
  Cardinality({i \in DOMAIN readyIn : readyIn[i] = s})
  + Cardinality({i \in DOMAIN freeOut : freeOut[i] = s})
  + Cardinality({x \in {<<"usb", xfer[s].flying>>, <<"current", current = s>>,
                        <<"spare", spare = s>>} : x[2]})
  + Cardinality({t \in Threads : thread[t].slot = s /\ thread[t].pc \in Holding})

(***************************************************************************)
(* Every transfer is in one place: no buffer is filled while it is read or *)
(* sent while it is written, and none is lost before the Channel is, but   *)
(* for a request that is not pending (Slot, IndexRing, current, spare).    *)
(***************************************************************************)
OneOwner ==
  \A s \in Slots :
    /\ Owners(s) <= 1
    /\ Owners(s) = 0 => s \in inSlots /\ (lost \/ requestReads)

(***************************************************************************)
(* No wake-up is lost: a thread that sleeps, or is about to, while what it *)
(* waits for is there is on the list of someone who will notify it         *)
(* (Waiter::notify, Waiter::wait_until).                                   *)
(***************************************************************************)
NoLostWakeup ==
  \A side \in Sides :
    thread[WaitingThread(side)].pc \in {"checked", "asleep"} /\ Ready(side) =>
      \/ \E t \in Threads : \E i \in DOMAIN thread[t].notify : thread[t].notify[i] = side
      \/ side = "out" /\ thread["event"].pc = "free"

(***************************************************************************)
(* Once lose() has gone through the transfers, one that is still with      *)
(* libusb is cancelled, or the thread that submitted it is about to look   *)
(* (Channel::lose, submit).                                                *)
(***************************************************************************)
LossReachesEveryTransfer ==
  swept => \A s \in Slots :
    xfer[s].flying /\ ~xfer[s].cancelled =>
      \E t \in {"reader", "writer"} : thread[t].slot = s /\ thread[t].pc = "recheck"

(***************************************************************************)
(* A deleted Channel is not touched: no transfer is out and no thread is   *)
(* inside (Channel::~Channel, callback).                                   *)
(***************************************************************************)
FreedChannelUntouched ==
  freed => /\ \A s \in Slots : ~xfer[s].flying
           /\ \A t \in Threads : At(t, "idle")

(***************************************************************************)
(* Request mode knows whether its transfer is out, whenever it is about to *)
(* submit, to pop or to wait (request_pending).                            *)
(***************************************************************************)
RequestPendingIsAccurate ==
  requestReads /\ thread["reader"].pc \in {"idle", "loop", "look", "wait", "asleep"} =>
    (requestPending <=> readyIn # <<>> \/ \E s \in inSlots : xfer[s].flying)

(***************************************************************************)
(* After a read has returned the failure of an IN transfer no read returns *)
(* data (docs/API.md).                                                     *)
(***************************************************************************)
NoDataAfterFailure == failureReturned => current = NoSlot

(***************************************************************************)
(* A read or write that is under way when the Channel is lost returns,     *)
(* also when it has no deadline (mark_lost, callback).                     *)
(***************************************************************************)
LossEndsCalls ==
  \A t \in {"reader", "writer"} : lost /\ thread[t].pc # "idle" ~> thread[t].pc = "idle"

(***************************************************************************)
(* A close that keeps waiting frees the Channel (aoahid_channel_close).    *)
(***************************************************************************)
ClosedChannelIsFreed ==
  thread["closer"].pc = "drain" ~> freed \/ thread["closer"].pc = "idle"
=============================================================================
