----------------------------- MODULE ReportFlight -----------------------------
(***************************************************************************)
(* What the Nodes of all profiles share: one report in flight, what        *)
(* transfer_complete records whatever the profile, and the way a Node is   *)
(* closed.  The profile modules extend this one with their own state.      *)
(*                                                                         *)
(* Threads, the pool and the loss of the device are in ReportNode and      *)
(* TransferPool; here a report is submitted, may be applied by the target, *)
(* and completes, each in one step.  A report libusb or the pool refuses   *)
(* leaves the Node as it was, hence is no step.                            *)
(***************************************************************************)
EXTENDS Integers

VARIABLES
  dirty,                 \* aoahid_node::dirty
  transfer_inflight,     \* aoahid_node::transfer_inflight
  completion_result,     \* aoahid_node::completion_result
  emitted_non_neutral,   \* aoahid_node::emitted_non_neutral
  submitted_non_neutral, \* aoahid_node::submitted_non_neutral
  stage,                 \* how far the application is with closing the Node
  applied                \* external: the target applied the report in flight

flightVars == <<dirty, transfer_inflight, completion_result,
                emitted_non_neutral, submitted_non_neutral, stage, applied>>

\* IO stands for every result that leaves the delivery unknown.
Results == {"OK", "STALL", "IO"}

FlightTypeOK ==
  /\ dirty \in BOOLEAN /\ transfer_inflight \in BOOLEAN /\ applied \in BOOLEAN
  /\ completion_result \in Results
  /\ emitted_non_neutral \in BOOLEAN /\ submitted_non_neutral \in BOOLEAN
  /\ stage \in {"open", "neutral", "closed"}

FlightInit ==
  /\ dirty = FALSE /\ transfer_inflight = FALSE /\ applied = FALSE
  /\ completion_result = "OK"
  /\ emitted_non_neutral = FALSE /\ submitted_non_neutral = FALSE
  /\ stage = "open"

\* usable: state calls are refused while a report is in flight.
Usable == stage # "closed" /\ ~transfer_inflight

\* A state call; one after a close that gave up takes the Node back.
Marks(changed) ==
  /\ dirty' = (dirty \/ changed)
  /\ stage' = "open"
  /\ UNCHANGED <<transfer_inflight, completion_result, emitted_non_neutral,
                 submitted_non_neutral, applied>>

\* aoahid_node_submit takes a report; nonNeutral is has_non_neutral_state.
Submits(nonNeutral) ==
  /\ Usable /\ completion_result = "OK" /\ dirty
  /\ transfer_inflight' = TRUE
  /\ submitted_non_neutral' = nonNeutral
  /\ UNCHANGED <<dirty, completion_result, emitted_non_neutral, stage, applied>>

\* The target applies the report, at any moment while libusb has it.
TargetApplies ==
  /\ transfer_inflight /\ ~applied
  /\ applied' = TRUE
  /\ UNCHANGED <<dirty, transfer_inflight, completion_result,
                 emitted_non_neutral, submitted_non_neutral, stage>>

\* What libusb may report of it: a STALL is the target refusing the request.
Fits(result) == CASE result = "OK" -> applied
                  [] result = "STALL" -> ~applied
                  [] OTHER -> TRUE

MayHaveApplied(result) == result # "STALL"

\* The part of transfer_complete that no profile changes; dirty is theirs.
Completes(result) ==
  /\ transfer_inflight /\ Fits(result)
  /\ transfer_inflight' = FALSE /\ applied' = FALSE
  /\ completion_result' = result
  /\ submitted_non_neutral' = FALSE
  /\ emitted_non_neutral' =
       CASE result = "OK" -> submitted_non_neutral
         [] result = "STALL" -> emitted_non_neutral
         [] OTHER -> emitted_non_neutral \/ submitted_non_neutral
  /\ UNCHANGED stage

\* consume_completion: the next submitting call, or the close that waits,
\* returns the failure and ends there.
ReadsOutcome ==
  /\ ~transfer_inflight /\ completion_result # "OK"
  /\ completion_result' = "OK"
  /\ stage' = "open"
  /\ UNCHANGED <<dirty, transfer_inflight, emitted_non_neutral,
                 submitted_non_neutral, applied>>

\* aoahid_node_close, its wait over, calls make_neutral.
Neutralizes(hadNonNeutral) ==
  /\ Usable /\ completion_result = "OK"
  /\ dirty' = (hadNonNeutral \/ emitted_non_neutral)
  /\ stage' = "neutral"
  /\ UNCHANGED <<transfer_inflight, completion_result, emitted_non_neutral,
                 submitted_non_neutral, applied>>

\* Everything neutral is sent: request 55 and the end of the Node.
Unregisters ==
  /\ stage = "neutral" /\ ~transfer_inflight
  /\ completion_result = "OK" /\ ~dirty
  /\ stage' = "closed"
  /\ UNCHANGED <<dirty, transfer_inflight, completion_result,
                 emitted_non_neutral, submitted_non_neutral, applied>>
===============================================================================
