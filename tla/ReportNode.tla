------------------------------ MODULE ReportNode ------------------------------
(***************************************************************************)
(* The Nodes of one Device and the report each may have in flight: the     *)
(* pending state (src/profiles/state.cpp, keyboard profile), request 57    *)
(* from submission to completion, the blocking submit and aoahid_node      *)
(* _close (src/api/c_api.cpp).                                             *)
(*                                                                         *)
(* One application thread makes every call and one event thread runs the   *)
(* completions; a call that waits is a sequence of steps, and so is the    *)
(* tail of transfer_complete that clears transfer_inflight.  The pool of   *)
(* TransferPool appears as what it answers: a slot, a refusal, a result.   *)
(*                                                                         *)
(* External: the target, which applies a report at some moment while       *)
(* libusb has the transfer, and the outcome libusb then reports.           *)
(***************************************************************************)
EXTENDS Integers, FiniteSets

CONSTANTS
  Nodes,      \* the Nodes opened on the Device
  NoNode,     \* no Node
  Keys,       \* the Usages of every Node
  Outcomes    \* the results a report may complete with

\* IO stands for every outcome that leaves the delivery unknown: timeout,
\* cancellation, short transfer, overflow and error.
Results == {"OK", "STALL", "NO_DEVICE", "IO"}

ASSUME NodeAssumption ==
  /\ IsFiniteSet(Nodes) /\ NoNode \notin Nodes
  /\ IsFiniteSet(Keys)
  /\ Outcomes \subseteq Results

VARIABLES
  open,                 \* Device::nodes
  pressed,              \* KeyboardState::pressed_bitmap, the desired state
  pressed_bitmap_count, \* KeyboardState::pressed_bitmap_count
  key_transitions,      \* KeyboardState::key_transitions
  dirty,                \* aoahid_node::dirty
  emitted_non_neutral,  \* aoahid_node::emitted_non_neutral
  submitted_non_neutral,\* aoahid_node::submitted_non_neutral
  inflight,             \* aoahid_node::transfer_inflight
  completion_result,    \* aoahid_node::completion_result
  payload,              \* the keys in the buffer of the Node's transfer
  wire,                 \* what became of that transfer so far
  event,                \* the callback the event thread is inside
  call,                 \* the call the application thread is inside
  present,              \* Device::present()
  closing,              \* aoahid_device::closing
  registered,           \* external: the Nodes the target has registered
  target,               \* external: the keys the target holds
  knowledge             \* history: how target and pressed are related

stateVars == <<pressed, pressed_bitmap_count, key_transitions>>
sendVars == <<dirty, emitted_non_neutral, submitted_non_neutral, payload>>
flightVars == <<inflight, completion_result, wire, event>>
targetVars == <<registered, target>>
vars == <<open, pressed, pressed_bitmap_count, key_transitions, dirty,
          emitted_non_neutral, submitted_non_neutral, inflight,
          completion_result, payload, wire, event, call, present, closing,
          registered, target, knowledge>>

-----------------------------------------------------------------------------
(* Values *)

NoCall == [op |-> "none", node |-> NoNode]

NoEvent == [stage |-> "idle", node |-> NoNode]

Init ==
  /\ open = Nodes
  /\ pressed = [n \in Nodes |-> {}]
  /\ pressed_bitmap_count = [n \in Nodes |-> 0]
  /\ key_transitions = [n \in Nodes |-> {}]
  /\ dirty = [n \in Nodes |-> FALSE]
  /\ emitted_non_neutral = [n \in Nodes |-> FALSE]
  /\ submitted_non_neutral = [n \in Nodes |-> FALSE]
  /\ inflight = [n \in Nodes |-> FALSE]
  /\ completion_result = [n \in Nodes |-> "OK"]
  /\ payload = [n \in Nodes |-> {}]
  /\ wire = [n \in Nodes |-> "none"]
  /\ event = NoEvent
  /\ call = NoCall
  /\ present = TRUE
  /\ closing = FALSE
  /\ registered = Nodes
  /\ target = [n \in Nodes |-> {}]
  /\ knowledge = [n \in Nodes |-> "agreed"]

-----------------------------------------------------------------------------
(* The application changes the pending state *)

\* An application call on Node n may start.
Ready(n) == call = NoCall /\ ~closing /\ n \in open

\* The edge guard: the previous edge of the key is still to be sent.
EdgePending(n, k) == k \in key_transitions[n]

\* aoahid_kbd with a value that differs from the current one; usable() refuses
\* it while a report is in flight or once the device is gone.
Kbd(n, k) ==
  /\ Ready(n) /\ present /\ ~inflight[n]
  /\ ~EdgePending(n, k)
  /\ IF k \in pressed[n]
     THEN /\ pressed' = [pressed EXCEPT ![n] = @ \ {k}]
          /\ pressed_bitmap_count' = [pressed_bitmap_count EXCEPT ![n] = @ - 1]
     ELSE /\ pressed' = [pressed EXCEPT ![n] = @ \union {k}]
          /\ pressed_bitmap_count' = [pressed_bitmap_count EXCEPT ![n] = @ + 1]
  /\ key_transitions' = [key_transitions EXCEPT ![n] = @ \union {k}]
  /\ dirty' = [dirty EXCEPT ![n] = TRUE]
  /\ UNCHANGED <<open, emitted_non_neutral, submitted_non_neutral, payload,
                 flightVars, call, present, closing, targetVars, knowledge>>

-----------------------------------------------------------------------------
(* aoahid_node_submit, alone or inside the loop of poll_until_idle *)

InLoop(n) == call.node = n /\ call.op \in {"blocking", "drain", "neutral"}

\* A call on n that failed: aoahid_device_close stops its loop there.
Return(n) ==
  call' = IF closing THEN [op |-> "failed", node |-> n] ELSE NoCall

\* A report goes out: none is in flight, the last one's outcome has been read,
\* and there is something to send.
CanSend(n) == ~inflight[n] /\ completion_result[n] = "OK" /\ dirty[n]

\* consume_completion: the outcome of the last report is returned, once, by
\* aoahid_node_submit or by a call that polls.
ConsumeCompletion(n) ==
  /\ Ready(n) \/ InLoop(n)
  /\ ~inflight[n] /\ completion_result[n] # "OK"
  /\ completion_result' = [completion_result EXCEPT ![n] = "OK"]
  /\ IF InLoop(n) THEN Return(n) ELSE UNCHANGED call
  /\ UNCHANGED <<open, stateVars, sendVars, inflight, wire, event, present,
                 closing, targetVars, knowledge>>

\* has_non_neutral_state
NonNeutral(n) == pressed_bitmap_count[n] # 0

\* The report is serialized and libusb accepts it.
SubmitAccepted(n) ==
  /\ Ready(n) \/ InLoop(n)
  /\ CanSend(n) /\ present
  /\ inflight' = [inflight EXCEPT ![n] = TRUE]
  /\ payload' = [payload EXCEPT ![n] = pressed[n]]
  /\ submitted_non_neutral' = [submitted_non_neutral EXCEPT ![n] = NonNeutral(n)]
  /\ wire' = [wire EXCEPT ![n] = "sent"]
  /\ UNCHANGED <<open, stateVars, dirty, emitted_non_neutral, completion_result,
                 event, call, present, closing, targetVars, knowledge>>

\* No slot, or libusb refuses the transfer and its completion runs inside the
\* call with a negative status: the state stays pending, the caller gets the
\* error.  In a loop a BUSY pool is no return, hence no step.
SubmitRefused(n) ==
  /\ Ready(n) \/ InLoop(n)
  /\ CanSend(n)
  /\ present' \in {present, FALSE}
  /\ IF InLoop(n) THEN Return(n) ELSE UNCHANGED call
  /\ UNCHANGED <<open, stateVars, sendVars, flightVars, closing, targetVars,
                 knowledge>>

\* aoahid_node_submit_blocking
SubmitBlocking(n) ==
  /\ Ready(n)
  /\ call' = [op |-> "blocking", node |-> n]
  /\ UNCHANGED <<open, stateVars, sendVars, flightVars, present, closing,
                 targetVars, knowledge>>

\* poll_until_idle returns OK, and the call goes on.
LoopDone(n) ==
  /\ InLoop(n)
  /\ ~inflight[n] /\ completion_result[n] = "OK" /\ ~dirty[n]
  /\ call' = CASE call.op = "blocking" -> NoCall
               [] call.op = "drain"    -> [call EXCEPT !.op = "drained"]
               [] call.op = "neutral"  -> [call EXCEPT !.op = "unregister"]
  /\ UNCHANGED <<open, stateVars, sendVars, flightVars, present, closing,
                 targetVars, knowledge>>

\* The deadline passes, or the Context has an error to report.
LoopGivesUp(n) ==
  /\ InLoop(n)
  /\ Return(n)
  /\ UNCHANGED <<open, stateVars, sendVars, flightVars, present, closing,
                 targetVars, knowledge>>

-----------------------------------------------------------------------------
(* aoahid_node_close *)

\* A report in flight is waited for first, which also sends what is pending.
StartClose(n) ==
  call' = [op |-> IF inflight[n] THEN "drain" ELSE "drained", node |-> n]

NodeClose(n) ==
  /\ Ready(n)
  /\ StartClose(n)
  /\ UNCHANGED <<open, stateVars, sendVars, flightVars, present, closing,
                 targetVars, knowledge>>

\* Mutant of Neutralize: only the pending state decides whether to send.
NeutralizeDesiredOnly(n) ==
  /\ pressed' = [pressed EXCEPT ![n] = {}]
  /\ pressed_bitmap_count' = [pressed_bitmap_count EXCEPT ![n] = 0]
  /\ dirty' = [dirty EXCEPT ![n] = NonNeutral(n)]

\* make_neutral: every key up, to be sent if the pending state or anything the
\* target may have applied was not neutral.
Neutralize(n) ==
  /\ pressed' = [pressed EXCEPT ![n] = {}]
  /\ pressed_bitmap_count' = [pressed_bitmap_count EXCEPT ![n] = 0]
  /\ dirty' = [dirty EXCEPT ![n] = NonNeutral(n) \/ emitted_non_neutral[n]]

\* An unread outcome ends the close; otherwise a present device is sent the
\* neutral state.
CloseNeutralizes(n) ==
  /\ call = [op |-> "drained", node |-> n]
  /\ ~inflight[n]
  /\ IF completion_result[n] # "OK"
     THEN /\ completion_result' = [completion_result EXCEPT ![n] = "OK"]
          /\ Return(n)
          /\ UNCHANGED <<stateVars, dirty, knowledge>>
     ELSE /\ present
          /\ Neutralize(n)
          /\ knowledge' = [knowledge EXCEPT ![n] = "neutralizing"]
          /\ call' = [call EXCEPT !.op = "neutral"]
          /\ UNCHANGED <<completion_result, key_transitions>>
  /\ UNCHANGED <<open, emitted_non_neutral, submitted_non_neutral, payload,
                 inflight, wire, event, present, closing, targetVars>>

\* release_node_storage takes the completion mutex before it frees the Node.
CallbackGone(n) == ~inflight[n] /\ event.node # n

\* The reservation is cleared and the Node freed.
FreeNode(n) ==
  /\ CallbackGone(n)
  /\ open' = open \ {n}
  /\ call' = NoCall

\* A Device that is gone is not sent anything.
CloseLost(n) ==
  /\ call = [op |-> "drained", node |-> n]
  /\ ~inflight[n] /\ completion_result[n] = "OK" /\ ~present
  /\ FreeNode(n)
  /\ UNCHANGED <<stateVars, sendVars, flightVars, present, closing, targetVars,
                 knowledge>>

\* Request 55 succeeds, or finds the device gone.
CloseUnregisters(n) ==
  /\ call = [op |-> "unregister", node |-> n]
  /\ \/ n \in registered /\ registered' = registered \ {n} /\ UNCHANGED present
     \/ present' = FALSE /\ UNCHANGED registered
  /\ FreeNode(n)
  /\ UNCHANGED <<stateVars, sendVars, flightVars, closing, target, knowledge>>

\* Request 55 fails: the Node stays, although the target may have applied it.
CloseUnregisterFails(n) ==
  /\ call = [op |-> "unregister", node |-> n]
  /\ registered' \in {registered, registered \ {n}}
  /\ Return(n)
  /\ UNCHANGED <<open, stateVars, sendVars, flightVars, present, closing, target,
                 knowledge>>

-----------------------------------------------------------------------------
(* The target and the event thread *)

\* External: the target applies the report, if it knows the Node.
TargetApplies(n) ==
  /\ wire[n] = "sent" /\ n \in registered
  /\ wire' = [wire EXCEPT ![n] = "applied"]
  /\ target' = [target EXCEPT ![n] = payload[n]]
  /\ UNCHANGED <<open, stateVars, sendVars, inflight, completion_result, event,
                 call, present, closing, registered, knowledge>>

\* External: libusb reports OK for a report that was applied, STALL only for
\* one that was not.
Reported(n, result) ==
  /\ wire[n] # "none"
  /\ result = "OK" => wire[n] = "applied"
  /\ result = "STALL" => wire[n] = "sent"

\* Mutant of MayHaveApplied: a STALL is taken for a delivery.
MayHaveAppliedStall(result) == TRUE

\* A completion with a status of libusb's transfer; a STALL is a refusal.
MayHaveApplied(result) == result # "STALL"

\* Mutant of EmittedAfter: an unknown outcome is taken for a delivery.
EmittedAfterUnknown(n, result) ==
  IF MayHaveApplied(result) THEN submitted_non_neutral[n]
                            ELSE emitted_non_neutral[n]

\* What the target may hold once the report has ended.
EmittedAfter(n, result) ==
  CASE ~MayHaveApplied(result) -> emitted_non_neutral[n]
    [] result = "OK"           -> submitted_non_neutral[n]
    [] OTHER -> emitted_non_neutral[n] \/ submitted_non_neutral[n]

\* Mutant of DirtyAfter: an unknown outcome is sent again.
DirtyAfterRetry(result) == result # "OK"

\* Mutant of DirtyAfter: a delivered state stays pending.
DirtyAfterAlways(result) == TRUE

\* An unknown outcome is not retried by the library; a refused state stays
\* pending.
DirtyAfter(result) == ~MayHaveApplied(result)

\* transfer_complete up to the completion_result store; the transport noticed a
\* lost device before it called.
TransferComplete(n, result) ==
  /\ event = NoEvent
  /\ Reported(n, result)
  /\ wire' = [wire EXCEPT ![n] = "none"]
  /\ present' = (present /\ result # "NO_DEVICE")
  /\ dirty' = [dirty EXCEPT ![n] = DirtyAfter(result)]
  /\ key_transitions' = [key_transitions EXCEPT ![n] =
                           IF MayHaveApplied(result) THEN {} ELSE @]
  /\ emitted_non_neutral' = [emitted_non_neutral EXCEPT ![n] =
                               EmittedAfter(n, result)]
  /\ submitted_non_neutral' = [submitted_non_neutral EXCEPT ![n] = FALSE]
  /\ completion_result' = [completion_result EXCEPT ![n] = result]
  /\ knowledge' = [knowledge EXCEPT ![n] =
                     CASE result = "OK"    -> "agreed"
                       [] result = "STALL" -> @
                       [] OTHER            -> "unknown"]
  /\ event' = [stage |-> "publishing", node |-> n]
  /\ UNCHANGED <<open, pressed, pressed_bitmap_count, payload, inflight, call,
                 closing, targetVars>>

\* Its last block, which holds the completion mutex until it has left.
ClearInflight ==
  /\ event.stage = "publishing"
  /\ inflight' = [inflight EXCEPT ![event.node] = FALSE]
  /\ event' = [event EXCEPT !.stage = "leaving"]
  /\ UNCHANGED <<open, stateVars, sendVars, completion_result, wire, call,
                 present, closing, targetVars, knowledge>>

LeaveCallback ==
  /\ event.stage = "leaving"
  /\ event' = NoEvent
  /\ UNCHANGED <<open, stateVars, sendVars, inflight, completion_result, wire,
                 call, present, closing, targetVars, knowledge>>

\* Another transfer or a control request found the device gone.
DeviceLost ==
  /\ present
  /\ present' = FALSE
  /\ UNCHANGED <<open, stateVars, sendVars, flightVars, call, closing, targetVars,
                 knowledge>>

SubmitSteps(n) ==
  \/ ConsumeCompletion(n)
  \/ SubmitAccepted(n)
  \/ SubmitRefused(n)
  \/ LoopDone(n)
  \/ LoopGivesUp(n)

CloseSteps(n) ==
  \/ CloseNeutralizes(n)
  \/ CloseLost(n)
  \/ CloseUnregisters(n)
  \/ CloseUnregisterFails(n)

EventSteps ==
  \/ \E n \in Nodes : TargetApplies(n)
  \/ \E n \in Nodes, result \in Outcomes : TransferComplete(n, result)
  \/ ClearInflight
  \/ LeaveCallback
  \/ DeviceLost

Next ==
  \/ \E n \in Nodes, k \in Keys : Kbd(n, k)
  \/ \E n \in Nodes : SubmitSteps(n)
  \/ \E n \in Nodes : SubmitBlocking(n) \/ NodeClose(n) \/ CloseSteps(n)
  \/ EventSteps

Spec == Init /\ [][Next]_vars

-----------------------------------------------------------------------------
(* Safety *)

(***************************************************************************)
(* Whatever the target holds, the Node remembers that it may: either the   *)
(* flag is set or the report that changed the target is still in flight    *)
(* (transfer_complete, make_neutral).  A close that trusts a clear flag    *)
(* therefore leaves no key down.                                           *)
(***************************************************************************)
HeldStateIsRemembered ==
  \A n \in Nodes :
    target[n] # {} => \/ emitted_non_neutral[n]
                      \/ wire[n] # "none" /\ submitted_non_neutral[n]

(***************************************************************************)
(* aoahid_node_close sends request 55 only for a Node whose keys are up on *)
(* the target, through every mix of unknown outcomes, refusals and         *)
(* repeated close calls ("Neutral on close", docs/PROFILES.md).            *)
(***************************************************************************)
NeutralBeforeUnregister == \A n \in Nodes \ registered : target[n] = {}

(***************************************************************************)
(* A freed Node has no transfer in libusb, no report in flight and no      *)
(* callback inside its memory (release_node_storage).                      *)
(***************************************************************************)
FreedNodeIsQuiet ==
  \A n \in Nodes \ open : wire[n] = "none" /\ ~inflight[n] /\ event.node # n

(***************************************************************************)
(* An edge is replaced by the opposite one only once the target has seen   *)
(* it, or a report that carried it had an unknown outcome: a quick tap is  *)
(* not lost by coalescing (pending_transition, transfer_complete).         *)
(***************************************************************************)
EdgeReachesTarget ==
  [][\A n \in Nodes, k \in Keys :
       Kbd(n, k) /\ knowledge[n] = "agreed" =>
         (k \in target[n] <=> k \in pressed[n])]_vars

(***************************************************************************)
(* After an unknown outcome the library sends nothing of its own accord:   *)
(* the next report carries a new edge of the application or is the neutral *)
(* state of a close (transfer_complete).                                   *)
(***************************************************************************)
NoBlindResend ==
  [][\A n \in Nodes :
       wire[n] = "none" /\ wire'[n] = "sent" /\ knowledge[n] = "unknown" =>
         key_transitions[n] # {}]_vars

-----------------------------------------------------------------------------
(* Liveness *)

(***************************************************************************)
(* Every transfer has a timeout, so libusb reports it; a callback goes on; *)
(* and the application thread goes on inside a call.  The deadline of      *)
(* poll_until_idle is not used: LoopGivesUp is not fair.                   *)
(***************************************************************************)
CallSteps(n) ==
  \/ ConsumeCompletion(n) \/ SubmitAccepted(n) \/ SubmitRefused(n) \/ LoopDone(n)
  \/ CloseSteps(n)

Fairness ==
  /\ \A n \in Nodes : SF_vars(\E result \in Outcomes : TransferComplete(n, result))
  /\ WF_vars(ClearInflight \/ LeaveCallback)
  /\ WF_vars(call # NoCall /\ \E n \in Nodes : call.node = n /\ CallSteps(n))

FairSpec == Spec /\ Fairness

(***************************************************************************)
(* A blocking submit or a close returns even if its deadline never passes: *)
(* each outcome of a report either ends the loop or leaves it nothing to   *)
(* send (poll_until_idle).                                                 *)
(***************************************************************************)
CallsReturn == call # NoCall ~> call = NoCall
=============================================================================
