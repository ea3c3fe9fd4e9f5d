----------------------------- MODULE DeviceClose ------------------------------
(***************************************************************************)
(* aoahid_device_close over the Nodes of ReportNode: the loop that closes  *)
(* each Node, the cancellation of what is left, and the destruction of the *)
(* drained Device, at once or by the reaper (src/api/c_api.cpp,            *)
(* device_close_impl, destroy_drained_device, reap_graveyard).             *)
(***************************************************************************)
EXTENDS ReportNode

VARIABLE
  device      \* how far the close of the Device has come:
              \* open, nodes, draining, destroying, freed

allVars == <<vars, device>>

DeviceInit == Init /\ device = "open"

\* The handle is consumed: no call of the application reaches the Device again.
DeviceCloseStarts ==
  /\ call = NoCall /\ device = "open"
  /\ device' = "nodes"
  /\ closing' = TRUE
  /\ UNCHANGED <<open, stateVars, sendVars, flightVars, call, present, targetVars,
                 knowledge>>

\* close_live_node_until starts on the next Node; its steps are those of
\* aoahid_node_close.
CloseNextNode(n) ==
  /\ device = "nodes" /\ call = NoCall /\ n \in open
  /\ StartClose(n)
  /\ UNCHANGED <<open, stateVars, sendVars, flightVars, present, closing,
                 targetVars, knowledge, device>>

\* Mutant of NodeLoopEnds: a Node that fails is tried again.
NodeLoopNeverFails == open = {} /\ call = NoCall

\* The loop stops when every Node is closed, or at the first that fails.
NodeLoopEnds == (open = {} /\ call = NoCall) \/ call.op = "failed"

\* cancel_all; from here the graph waits for its callbacks.
CancelNodes ==
  /\ device = "nodes" /\ NodeLoopEnds
  /\ device' = "draining"
  /\ call' = NoCall
  /\ UNCHANGED <<open, stateVars, sendVars, flightVars, present, closing,
                 targetVars, knowledge>>

\* Mutant of GraphDrained: a callback that has published counts as gone.
GraphDrainedEarly == \A n \in Nodes : wire[n] = "none" /\ ~inflight[n]

\* graph_drained: no transfer in libusb and no callback that has not returned.
GraphDrained == event = NoEvent /\ \A n \in Nodes : wire[n] = "none"

\* device_close_impl itself, or the reaper once the Device is in the graveyard.
StartDestroy ==
  /\ device = "draining" /\ GraphDrained
  /\ device' = "destroying"
  /\ UNCHANGED vars

\* destroy_drained_device on one Node: its unread outcome is remembered for the
\* close, and request 55 is sent if the device is present, whatever it returns.
DestroyNode(n) ==
  /\ device = "destroying" /\ n \in open
  /\ open' = open \ {n}
  /\ completion_result' = [completion_result EXCEPT ![n] = "OK"]
  /\ IF present
     THEN \/ registered' \in {registered, registered \ {n}} /\ UNCHANGED present
          \/ present' = FALSE /\ UNCHANGED registered
     ELSE UNCHANGED <<present, registered>>
  /\ UNCHANGED <<stateVars, sendVars, inflight, wire, event, call, closing, target,
                 knowledge, device>>

DestroyDevice ==
  /\ device = "destroying" /\ open = {}
  /\ device' = "freed"
  /\ UNCHANGED vars

DeviceSteps ==
  \/ CancelNodes
  \/ \E n \in Nodes : CloseNextNode(n) \/ DestroyNode(n)
  \/ StartDestroy
  \/ DestroyDevice

DeviceNext ==
  \/ Next /\ UNCHANGED device
  \/ DeviceCloseStarts
  \/ DeviceSteps

DeviceSpec == DeviceInit /\ [][DeviceNext]_allVars

-----------------------------------------------------------------------------
(* A claim of the documentation *)

\* The behaviours in which no close budget or deadline runs out.
PromptSpec ==
  DeviceInit /\ [][DeviceNext /\ ~\E n \in Nodes : LoopGivesUp(n)]_allVars

(***************************************************************************)
(* "Close nodes/channels/device so neutral state is completed before       *)
(* request 55" (README.md): a Node whose reports all arrived, and whose    *)
(* keys the target still holds when it is unregistered, was at least put   *)
(* in its neutral state.  The code breaks it: device_close_impl leaves its *)
(* loop at the first Node that fails, and destroy_drained_device sends     *)
(* request 55 for the others as they are.                                  *)
(***************************************************************************)
NeutralizedBeforeUnregister ==
  \A n \in Nodes \ registered :
    knowledge[n] = "agreed" /\ target[n] # {} => pressed[n] = {}

-----------------------------------------------------------------------------
(* Liveness *)

(***************************************************************************)
(* As in ReportNode, and the close of the Device goes on; its deadline is  *)
(* not used here either.                                                   *)
(***************************************************************************)
DeviceFairness ==
  /\ \A n \in Nodes : SF_allVars(\E result \in Outcomes : TransferComplete(n, result)
                                                          /\ UNCHANGED device)
  /\ WF_allVars((ClearInflight \/ LeaveCallback) /\ UNCHANGED device)
  /\ WF_allVars(\E n \in Nodes : call.node = n /\ CallSteps(n) /\ UNCHANGED device)
  /\ WF_allVars(DeviceSteps)

DeviceFairSpec == DeviceSpec /\ DeviceFairness

(***************************************************************************)
(* A Device whose close has started is freed: no failing Node keeps the    *)
(* loop going and every callback is waited for once.                       *)
(***************************************************************************)
DeviceCloseEnds == device = "nodes" ~> device = "freed"
=============================================================================
