--------------------------- MODULE ReportNodeProofs ---------------------------
(***************************************************************************)
(* ReportNode and DeviceClose for any number of Nodes and keys and any set *)
(* of outcomes: what a Node remembers of the target, what a close has      *)
(* established before request 55, and when a Node may be freed.            *)
(***************************************************************************)
EXTENDS DeviceClose, FiniteSetTheorems, TLAPS

Ops == {"none", "blocking", "drain", "drained", "neutral", "unregister", "failed"}

Types ==
  /\ open \subseteq Nodes /\ registered \subseteq Nodes
  /\ pressed \in [Nodes -> SUBSET Keys]
  /\ pressed_bitmap_count \in [Nodes -> Int]
  /\ key_transitions \in [Nodes -> SUBSET Keys]
  /\ dirty \in [Nodes -> BOOLEAN]
  /\ emitted_non_neutral \in [Nodes -> BOOLEAN]
  /\ submitted_non_neutral \in [Nodes -> BOOLEAN]
  /\ inflight \in [Nodes -> BOOLEAN]
  /\ completion_result \in [Nodes -> Results]
  /\ payload \in [Nodes -> SUBSET Keys]
  /\ wire \in [Nodes -> {"none", "sent", "applied"}]
  /\ event \in [stage : {"idle", "publishing", "leaving"}, node : Nodes \union {NoNode}]
  /\ call \in [op : Ops, node : Nodes \union {NoNode}]
  /\ present \in BOOLEAN /\ closing \in BOOLEAN
  /\ target \in [Nodes -> SUBSET Keys]
  /\ knowledge \in [Nodes -> {"agreed", "unknown", "neutralizing"}]

(* The count of the bitmap is that of the pressed keys.                     *)
CountInv == \A n \in Nodes : pressed_bitmap_count[n] = Cardinality(pressed[n])

(* A report in flight is with libusb or in the callback that publishes its  *)
(* result; as long as libusb has it, it says what is pressed, and the       *)
(* target has applied it or not.                                            *)
FlightInv ==
  /\ event.stage = "idle" => event = NoEvent
  /\ event.stage # "idle" => event.node \in Nodes
  /\ event.stage = "publishing" => inflight[event.node] /\ wire[event.node] = "none"
  /\ \A n \in Nodes :
       /\ inflight[n] => \/ wire[n] # "none"
                         \/ event.stage = "publishing" /\ event.node = n
       /\ wire[n] # "none" => /\ inflight[n]
                              /\ payload[n] = pressed[n]
                              /\ (submitted_non_neutral[n] <=> payload[n] # {})
       /\ wire[n] = "applied" => target[n] = payload[n]

(* What the target held before the report that it has not applied yet is    *)
(* what the flag remembers.                                                 *)
RememberInv ==
  \A n \in Nodes : wire[n] # "applied" /\ target[n] # {} => emitted_non_neutral[n]

(* After an answered report only the keys of pending edges differ.          *)
EdgeInv ==
  \A n \in Nodes : knowledge[n] = "agreed" =>
    \A k \in Keys : k \notin key_transitions[n] => (k \in target[n] <=> k \in pressed[n])

(* After an unknown outcome only a new edge makes the Node dirty.           *)
UnknownInv ==
  \A n \in Nodes : knowledge[n] = "unknown" /\ (dirty[n] \/ wire[n] # "none") =>
    key_transitions[n] # {}

(* A call and a callback work on Nodes that were not freed.                 *)
OwnerInv ==
  /\ call.op = "none" => call = NoCall
  /\ call.op # "none" => call.node \in open
  /\ FreedNodeIsQuiet

CoreInv ==
  Types /\ CountInv /\ FlightInv /\ RememberInv /\ EdgeInv /\ UnknownInv /\ OwnerInv

(* The steps of a call that leave the Nodes' reports alone ...               *)
CallChanges(n) ==
  /\ n \in open
  /\ call' \in [op : Ops, node : {n}] \union {NoCall}
  /\ call'.op = "none" => call' = NoCall
  /\ present' \in BOOLEAN /\ closing' \in BOOLEAN
  /\ registered' \subseteq Nodes
  /\ UNCHANGED <<open, stateVars, sendVars, flightVars, target, knowledge>>

(* ... and those that free one.                                             *)
NodeFreed(n) ==
  /\ FreeNode(n)
  /\ present' \in BOOLEAN
  /\ registered' \subseteq Nodes
  /\ UNCHANGED <<stateVars, sendVars, flightVars, closing, target, knowledge>>

-----------------------------------------------------------------------------
(* The count is zero exactly when no key is pressed.                        *)
LEMMA NonNeutralPressed ==
  ASSUME CoreInv, NEW n \in Nodes
  PROVE  NonNeutral(n) <=> pressed[n] # {}
  <1>1. IsFiniteSet(pressed[n])
    BY NodeAssumption, FS_Subset DEF CoreInv, Types
  <1> QED
    BY <1>1, FS_EmptySet DEF CoreInv, CountInv, NonNeutral

LEMMA InitCore ==
  ASSUME Init
  PROVE  CoreInv
  <1>1. Types
    <2>1. /\ event \in [stage : {"idle", "publishing", "leaving"}, node : Nodes \union {NoNode}]
          /\ call \in [op : Ops, node : Nodes \union {NoNode}]
          /\ completion_result \in [Nodes -> Results]
      BY DEF Init, NoCall, NoEvent, Ops, Results
    <2>2. /\ pressed \in [Nodes -> SUBSET Keys] /\ payload \in [Nodes -> SUBSET Keys]
          /\ key_transitions \in [Nodes -> SUBSET Keys] /\ target \in [Nodes -> SUBSET Keys]
          /\ pressed_bitmap_count \in [Nodes -> Int]
      BY DEF Init
    <2>3. /\ dirty \in [Nodes -> BOOLEAN] /\ inflight \in [Nodes -> BOOLEAN]
          /\ emitted_non_neutral \in [Nodes -> BOOLEAN]
          /\ submitted_non_neutral \in [Nodes -> BOOLEAN]
          /\ wire \in [Nodes -> {"none", "sent", "applied"}]
          /\ knowledge \in [Nodes -> {"agreed", "unknown", "neutralizing"}]
      BY DEF Init
    <2> QED
      BY <2>1, <2>2, <2>3 DEF Init, Types
  <1>2. CountInv
    BY FS_EmptySet DEF Init, CountInv
  <1>3. FlightInv /\ RememberInv /\ EdgeInv /\ UnknownInv /\ OwnerInv
    BY NodeAssumption DEF Init, FlightInv, RememberInv, EdgeInv, UnknownInv, OwnerInv,
                          FreedNodeIsQuiet, NoCall, NoEvent
  <1> QED
    BY <1>1, <1>2, <1>3 DEF CoreInv

LEMMA KbdStep ==
  ASSUME CoreInv, NEW n \in Nodes, NEW k \in Keys, Kbd(n, k)
  PROVE  CoreInv'
  <1>1. Types'
    <2>1. /\ pressed' \in [Nodes -> SUBSET Keys]
          /\ pressed_bitmap_count' \in [Nodes -> Int]
      BY DEF CoreInv, Types, Kbd
    <2> QED
      BY <2>1 DEF CoreInv, Types, Kbd, flightVars, targetVars
  <1>2. CountInv'
    <2>1. IsFiniteSet(pressed[n])
      BY NodeAssumption, FS_Subset DEF CoreInv, Types
    <2>2. CASE k \in pressed[n]
      <3>1. Cardinality(pressed[n] \ {k}) = Cardinality(pressed[n]) - 1
        BY <2>1, <2>2, FS_RemoveElement
      <3>2. /\ pressed' = [pressed EXCEPT ![n] = @ \ {k}]
            /\ pressed_bitmap_count' = [pressed_bitmap_count EXCEPT ![n] = @ - 1]
        BY <2>2 DEF Kbd
      <3> QED
        BY <3>1, <3>2 DEF CoreInv, Types, CountInv
    <2>3. CASE k \notin pressed[n]
      <3>1. Cardinality(pressed[n] \union {k}) = Cardinality(pressed[n]) + 1
        BY <2>1, <2>3, FS_AddElement
      <3>2. /\ pressed' = [pressed EXCEPT ![n] = @ \union {k}]
            /\ pressed_bitmap_count' = [pressed_bitmap_count EXCEPT ![n] = @ + 1]
        BY <2>3 DEF Kbd
      <3> QED
        BY <3>1, <3>2 DEF CoreInv, Types, CountInv
    <2> QED
      BY <2>2, <2>3
  <1>3. FlightInv'
    BY DEF CoreInv, Types, CountInv, FlightInv, Kbd, EdgePending, Ready, flightVars, targetVars,
           NoCall, NoEvent, Results, Ops
  <1>4. RememberInv'
    BY DEF CoreInv, Types, FlightInv, RememberInv, Kbd, EdgePending, Ready, flightVars,
           targetVars, NoCall, NoEvent, Results, Ops
  <1>5. EdgeInv'
    BY DEF CoreInv, Types, FlightInv, EdgeInv, Kbd, EdgePending, Ready, flightVars, targetVars,
           NoCall, NoEvent, Results, Ops
  <1>6. UnknownInv'
    BY DEF CoreInv, Types, FlightInv, UnknownInv, Kbd, EdgePending, Ready, flightVars,
           targetVars, NoCall, NoEvent, Results, Ops
  <1>7. OwnerInv'
    BY DEF CoreInv, Types, FlightInv, OwnerInv, FreedNodeIsQuiet, Kbd, EdgePending, Ready,
           flightVars, targetVars, NoCall, NoEvent, Results, Ops
  <1> QED
    BY <1>1, <1>2, <1>3, <1>4, <1>5, <1>6, <1>7 DEF CoreInv

LEMMA ConsumeCompletionStep ==
  ASSUME CoreInv, NEW n \in Nodes, ConsumeCompletion(n)
  PROVE  CoreInv'
  <1>1. Types'
    BY DEF CoreInv, Types, ConsumeCompletion, Return, Ready, InLoop, stateVars, sendVars,
           targetVars, NoCall, Results, Ops
  <1>2. CountInv'
    BY DEF CoreInv, Types, CountInv, ConsumeCompletion, Return, Ready, InLoop, stateVars,
           sendVars, targetVars, NoCall, Results, Ops
  <1>3. FlightInv'
    BY DEF CoreInv, Types, CountInv, FlightInv, ConsumeCompletion, Return, Ready, InLoop,
           stateVars, sendVars, targetVars, NoCall, NoEvent, Results, Ops
  <1>4. RememberInv'
    BY DEF CoreInv, Types, FlightInv, RememberInv, ConsumeCompletion, Return, Ready, InLoop,
           stateVars, sendVars, targetVars, NoCall, NoEvent, Results, Ops
  <1>5. EdgeInv'
    BY DEF CoreInv, Types, FlightInv, EdgeInv, ConsumeCompletion, Return, Ready, InLoop,
           stateVars, sendVars, targetVars, NoCall, NoEvent, Results, Ops
  <1>6. UnknownInv'
    BY DEF CoreInv, Types, FlightInv, UnknownInv, ConsumeCompletion, Return, Ready, InLoop,
           stateVars, sendVars, targetVars, NoCall, NoEvent, Results, Ops
  <1>7. OwnerInv'
    BY DEF CoreInv, Types, FlightInv, OwnerInv, FreedNodeIsQuiet, ConsumeCompletion, Return,
           Ready, InLoop, stateVars, sendVars, targetVars, NoCall, NoEvent, Results, Ops
  <1> QED
    BY <1>1, <1>2, <1>3, <1>4, <1>5, <1>6, <1>7 DEF CoreInv

LEMMA SubmitAcceptedStep ==
  ASSUME CoreInv, NEW n \in Nodes, SubmitAccepted(n)
  PROVE  CoreInv'
  <1>1. Types'
    BY DEF CoreInv, Types, SubmitAccepted, CanSend, NonNeutral, Ready, InLoop, stateVars,
           targetVars, NoCall, Results, Ops
  <1>2. CountInv'
    BY DEF CoreInv, Types, CountInv, SubmitAccepted, CanSend, NonNeutral, Ready, InLoop,
           stateVars, targetVars, NoCall, Results, Ops
  <1>3. FlightInv'
    <2>1. submitted_non_neutral'[n] <=> pressed[n] # {}
      BY NonNeutralPressed DEF SubmitAccepted, CoreInv, Types
    <2>2. \A m \in Nodes \ {n} : submitted_non_neutral'[m] = submitted_non_neutral[m]
      BY DEF SubmitAccepted, CoreInv, Types
    <2>3. UNCHANGED <<event, pressed, target>>
      BY DEF SubmitAccepted, stateVars, targetVars
    <2>4. /\ ~inflight[n]
          /\ inflight' = [inflight EXCEPT ![n] = TRUE]
          /\ payload' = [payload EXCEPT ![n] = pressed[n]]
          /\ wire' = [wire EXCEPT ![n] = "sent"]
      BY DEF SubmitAccepted, CanSend
    <2> QED
      BY <2>1, <2>2, <2>3, <2>4 DEF CoreInv, Types, FlightInv
  <1>4. RememberInv'
    BY DEF CoreInv, Types, FlightInv, RememberInv, SubmitAccepted, CanSend, NonNeutral, Ready,
           InLoop, stateVars, targetVars, NoCall, NoEvent, Results, Ops
  <1>5. EdgeInv'
    BY DEF CoreInv, Types, FlightInv, EdgeInv, SubmitAccepted, CanSend, NonNeutral, Ready,
           InLoop, stateVars, targetVars, NoCall, NoEvent, Results, Ops
  <1>6. UnknownInv'
    BY DEF CoreInv, Types, FlightInv, UnknownInv, SubmitAccepted, CanSend, NonNeutral, Ready,
           InLoop, stateVars, targetVars, NoCall, NoEvent, Results, Ops
  <1>7. OwnerInv'
    BY DEF CoreInv, Types, FlightInv, OwnerInv, FreedNodeIsQuiet, SubmitAccepted, CanSend,
           NonNeutral, Ready, InLoop, stateVars, targetVars, NoCall, NoEvent, Results, Ops
  <1> QED
    BY <1>1, <1>2, <1>3, <1>4, <1>5, <1>6, <1>7 DEF CoreInv

LEMMA CloseNeutralizesStep ==
  ASSUME CoreInv, NEW n \in Nodes, CloseNeutralizes(n)
  PROVE  CoreInv'
  <1>1. Types'
    <2>1. /\ call' \in [op : Ops, node : Nodes \union {NoNode}]
          /\ completion_result' \in [Nodes -> Results]
      BY DEF CoreInv, Types, CloseNeutralizes, Return, Ops, Results, NoCall
    <2>2. /\ pressed' \in [Nodes -> SUBSET Keys]
          /\ pressed_bitmap_count' \in [Nodes -> Int]
          /\ dirty' \in [Nodes -> BOOLEAN]
          /\ knowledge' \in [Nodes -> {"agreed", "unknown", "neutralizing"}]
      BY DEF CoreInv, Types, CloseNeutralizes, Neutralize, NonNeutral, stateVars
    <2> QED
      BY <2>1, <2>2 DEF CoreInv, Types, CloseNeutralizes, stateVars, targetVars
  <1>2. CountInv'
    <2>1. Cardinality({}) = 0
      BY FS_EmptySet
    <2>2. CASE completion_result[n] # "OK"
      BY <2>2 DEF CoreInv, CountInv, CloseNeutralizes, stateVars
    <2>3. CASE completion_result[n] = "OK"
      <3>1. /\ pressed' = [pressed EXCEPT ![n] = {}]
            /\ pressed_bitmap_count' = [pressed_bitmap_count EXCEPT ![n] = 0]
        BY <2>3 DEF CloseNeutralizes, Neutralize
      <3> QED
        BY <2>1, <3>1 DEF CoreInv, Types, CountInv
    <2> QED
      BY <2>2, <2>3
  <1>3. FlightInv'
    BY DEF CoreInv, Types, CountInv, FlightInv, CloseNeutralizes, Neutralize, NonNeutral,
           Return, stateVars, targetVars, NoCall, NoEvent, Results, Ops
  <1>4. RememberInv'
    BY DEF CoreInv, Types, FlightInv, RememberInv, CloseNeutralizes, Neutralize, NonNeutral,
           Return, stateVars, targetVars, NoCall, NoEvent, Results, Ops
  <1>5. EdgeInv'
    BY DEF CoreInv, Types, FlightInv, EdgeInv, CloseNeutralizes, Neutralize, NonNeutral, Return,
           stateVars, targetVars, NoCall, NoEvent, Results, Ops
  <1>6. UnknownInv'
    BY DEF CoreInv, Types, FlightInv, UnknownInv, CloseNeutralizes, Neutralize, NonNeutral,
           Return, stateVars, targetVars, NoCall, NoEvent, Results, Ops
  <1>7. OwnerInv'
    BY DEF CoreInv, Types, FlightInv, OwnerInv, FreedNodeIsQuiet, CloseNeutralizes, Neutralize,
           NonNeutral, Return, stateVars, targetVars, NoCall, NoEvent, Results, Ops
  <1> QED
    BY <1>1, <1>2, <1>3, <1>4, <1>5, <1>6, <1>7 DEF CoreInv

LEMMA TargetAppliesStep ==
  ASSUME CoreInv, NEW n \in Nodes, TargetApplies(n)
  PROVE  CoreInv'
  <1>1. Types'
    BY DEF CoreInv, Types, TargetApplies, stateVars, sendVars, Results, Ops
  <1>2. CountInv'
    BY DEF CoreInv, Types, CountInv, TargetApplies, stateVars, sendVars, Results, Ops
  <1>3. FlightInv'
    BY DEF CoreInv, Types, CountInv, FlightInv, TargetApplies, stateVars, sendVars, NoEvent,
           Results, Ops
  <1>4. RememberInv'
    BY DEF CoreInv, Types, FlightInv, RememberInv, TargetApplies, stateVars, sendVars, NoEvent,
           Results, Ops
  <1>5. EdgeInv'
    BY DEF CoreInv, Types, FlightInv, EdgeInv, TargetApplies, stateVars, sendVars, NoEvent,
           Results, Ops
  <1>6. UnknownInv'
    BY DEF CoreInv, Types, FlightInv, UnknownInv, TargetApplies, stateVars, sendVars, NoEvent,
           Results, Ops
  <1>7. OwnerInv'
    BY DEF CoreInv, Types, FlightInv, OwnerInv, FreedNodeIsQuiet, TargetApplies, stateVars,
           sendVars, NoCall, NoEvent, Results, Ops
  <1> QED
    BY <1>1, <1>2, <1>3, <1>4, <1>5, <1>6, <1>7 DEF CoreInv

LEMMA TransferCompleteStep ==
  ASSUME CoreInv, NEW n \in Nodes, NEW result \in Outcomes, TransferComplete(n, result)
  PROVE  CoreInv'
  <1>1. Types'
    <2>1. result \in Results
      BY NodeAssumption
    <2>2. /\ emitted_non_neutral' \in [Nodes -> BOOLEAN]
          /\ dirty' \in [Nodes -> BOOLEAN]
      BY DEF CoreInv, Types, TransferComplete, EmittedAfter, DirtyAfter
    <2>3. /\ knowledge' \in [Nodes -> {"agreed", "unknown", "neutralizing"}]
          /\ key_transitions' \in [Nodes -> SUBSET Keys]
      BY DEF CoreInv, Types, TransferComplete
    <2>4. /\ completion_result' \in [Nodes -> Results]
          /\ event' \in [stage : {"idle", "publishing", "leaving"},
                         node : Nodes \union {NoNode}]
          /\ present' \in BOOLEAN
      BY <2>1 DEF CoreInv, Types, TransferComplete
    <2> QED
      BY <2>2, <2>3, <2>4 DEF CoreInv, Types, TransferComplete, targetVars
  <1>2. CountInv'
    BY DEF CoreInv, Types, CountInv, TransferComplete, Reported, DirtyAfter, EmittedAfter,
           MayHaveApplied, targetVars, NoEvent, Results, Ops
  <1>3. FlightInv'
    BY DEF CoreInv, Types, CountInv, FlightInv, TransferComplete, Reported, DirtyAfter,
           EmittedAfter, MayHaveApplied, targetVars, NoEvent, Results, Ops
  <1>4. RememberInv'
    BY DEF CoreInv, Types, FlightInv, RememberInv, TransferComplete, Reported, DirtyAfter,
           EmittedAfter, MayHaveApplied, targetVars, NoEvent, Results, Ops
  <1>5. EdgeInv'
    BY DEF CoreInv, Types, FlightInv, EdgeInv, TransferComplete, Reported, DirtyAfter,
           EmittedAfter, MayHaveApplied, targetVars, NoEvent, Results, Ops
  <1>6. UnknownInv'
    <2>1. wire'[n] = "none" /\ \A m \in Nodes \ {n} : wire'[m] = wire[m]
      BY DEF CoreInv, Types, TransferComplete
    <2>2. \A m \in Nodes \ {n} : /\ knowledge'[m] = knowledge[m] /\ dirty'[m] = dirty[m]
                                 /\ key_transitions'[m] = key_transitions[m]
      BY DEF CoreInv, Types, TransferComplete
    <2>3. CASE result = "STALL"
      <3>1. wire[n] # "none" /\ knowledge'[n] = knowledge[n]
            /\ key_transitions'[n] = key_transitions[n]
        BY <2>3 DEF CoreInv, Types, TransferComplete, Reported, MayHaveApplied
      <3> QED
        BY <2>1, <2>2, <3>1 DEF CoreInv, UnknownInv
    <2>4. CASE result # "STALL"
      <3>1. ~dirty'[n]
        BY <2>4 DEF CoreInv, Types, TransferComplete, DirtyAfter, MayHaveApplied
      <3> QED
        BY <2>1, <2>2, <3>1 DEF CoreInv, UnknownInv
    <2> QED
      BY <2>3, <2>4
  <1>7. OwnerInv'
    BY DEF CoreInv, Types, FlightInv, OwnerInv, FreedNodeIsQuiet, TransferComplete, Reported,
           DirtyAfter, EmittedAfter, MayHaveApplied, targetVars, NoCall, NoEvent, Results, Ops
  <1> QED
    BY <1>1, <1>2, <1>3, <1>4, <1>5, <1>6, <1>7 DEF CoreInv

LEMMA ClearInflightStep ==
  ASSUME CoreInv, ClearInflight
  PROVE  CoreInv'
  <1>1. Types'
    BY DEF CoreInv, Types, ClearInflight, stateVars, sendVars, targetVars, Results, Ops
  <1>2. CountInv'
    BY DEF CoreInv, Types, CountInv, ClearInflight, stateVars, sendVars, targetVars, Results,
           Ops
  <1>3. FlightInv'
    BY DEF CoreInv, Types, CountInv, FlightInv, ClearInflight, stateVars, sendVars, targetVars,
           NoEvent, Results, Ops
  <1>4. RememberInv'
    BY DEF CoreInv, Types, FlightInv, RememberInv, ClearInflight, stateVars, sendVars,
           targetVars, NoEvent, Results, Ops
  <1>5. EdgeInv'
    BY DEF CoreInv, Types, FlightInv, EdgeInv, ClearInflight, stateVars, sendVars, targetVars,
           NoEvent, Results, Ops
  <1>6. UnknownInv'
    BY DEF CoreInv, Types, FlightInv, UnknownInv, ClearInflight, stateVars, sendVars,
           targetVars, NoEvent, Results, Ops
  <1>7. OwnerInv'
    BY DEF CoreInv, Types, FlightInv, OwnerInv, FreedNodeIsQuiet, ClearInflight, stateVars,
           sendVars, targetVars, NoCall, NoEvent, Results, Ops
  <1> QED
    BY <1>1, <1>2, <1>3, <1>4, <1>5, <1>6, <1>7 DEF CoreInv

LEMMA LeaveCallbackStep ==
  ASSUME CoreInv, LeaveCallback
  PROVE  CoreInv'
  <1>1. Types'
    BY DEF CoreInv, Types, LeaveCallback, stateVars, sendVars, targetVars, NoEvent, Results, Ops
  <1>2. CountInv'
    BY DEF CoreInv, Types, CountInv, LeaveCallback, stateVars, sendVars, targetVars, NoEvent,
           Results, Ops
  <1>3. FlightInv'
    BY DEF CoreInv, Types, CountInv, FlightInv, LeaveCallback, stateVars, sendVars, targetVars,
           NoEvent, Results, Ops
  <1>4. RememberInv'
    BY DEF CoreInv, Types, FlightInv, RememberInv, LeaveCallback, stateVars, sendVars,
           targetVars, NoEvent, Results, Ops
  <1>5. EdgeInv'
    BY DEF CoreInv, Types, FlightInv, EdgeInv, LeaveCallback, stateVars, sendVars, targetVars,
           NoEvent, Results, Ops
  <1>6. UnknownInv'
    BY DEF CoreInv, Types, FlightInv, UnknownInv, LeaveCallback, stateVars, sendVars,
           targetVars, NoEvent, Results, Ops
  <1>7. OwnerInv'
    BY NodeAssumption DEF CoreInv, OwnerInv, FreedNodeIsQuiet, LeaveCallback, NoEvent
  <1> QED
    BY <1>1, <1>2, <1>3, <1>4, <1>5, <1>6, <1>7 DEF CoreInv

LEMMA CallChangesStep ==
  ASSUME CoreInv, NEW n \in Nodes, CallChanges(n)
  PROVE  CoreInv'
  <1>1. Types'
    BY DEF CoreInv, Types, CallChanges, stateVars, sendVars, flightVars, NoCall, Results, Ops
  <1>2. CountInv'
    BY DEF CoreInv, Types, CountInv, CallChanges, stateVars, sendVars, flightVars, NoCall,
           Results, Ops
  <1>3. FlightInv'
    BY DEF CoreInv, Types, CountInv, FlightInv, CallChanges, stateVars, sendVars, flightVars,
           NoCall, NoEvent, Results, Ops
  <1>4. RememberInv'
    BY DEF CoreInv, Types, FlightInv, RememberInv, CallChanges, stateVars, sendVars, flightVars,
           NoCall, NoEvent, Results, Ops
  <1>5. EdgeInv'
    BY DEF CoreInv, Types, FlightInv, EdgeInv, CallChanges, stateVars, sendVars, flightVars,
           NoCall, NoEvent, Results, Ops
  <1>6. UnknownInv'
    BY DEF CoreInv, Types, FlightInv, UnknownInv, CallChanges, stateVars, sendVars, flightVars,
           NoCall, NoEvent, Results, Ops
  <1>7. OwnerInv'
    BY DEF CoreInv, Types, FlightInv, OwnerInv, FreedNodeIsQuiet, CallChanges, stateVars,
           sendVars, flightVars, NoCall, NoEvent, Results, Ops
  <1> QED
    BY <1>1, <1>2, <1>3, <1>4, <1>5, <1>6, <1>7 DEF CoreInv

LEMMA NodeFreedStep ==
  ASSUME CoreInv, NEW n \in Nodes, NodeFreed(n)
  PROVE  CoreInv'
  <1>1. Types'
    BY DEF CoreInv, Types, NodeFreed, FreeNode, CallbackGone, stateVars, sendVars, flightVars,
           NoCall, Results, Ops
  <1>2. CountInv'
    BY DEF CoreInv, Types, CountInv, NodeFreed, FreeNode, CallbackGone, stateVars, sendVars,
           flightVars, NoCall, Results, Ops
  <1>3. FlightInv'
    BY DEF CoreInv, Types, CountInv, FlightInv, NodeFreed, FreeNode, CallbackGone, stateVars,
           sendVars, flightVars, NoCall, NoEvent, Results, Ops
  <1>4. RememberInv'
    BY DEF CoreInv, Types, FlightInv, RememberInv, NodeFreed, FreeNode, CallbackGone, stateVars,
           sendVars, flightVars, NoCall, NoEvent, Results, Ops
  <1>5. EdgeInv'
    BY DEF CoreInv, Types, FlightInv, EdgeInv, NodeFreed, FreeNode, CallbackGone, stateVars,
           sendVars, flightVars, NoCall, NoEvent, Results, Ops
  <1>6. UnknownInv'
    BY DEF CoreInv, Types, FlightInv, UnknownInv, NodeFreed, FreeNode, CallbackGone, stateVars,
           sendVars, flightVars, NoCall, NoEvent, Results, Ops
  <1>7. OwnerInv'
    BY DEF CoreInv, Types, FlightInv, OwnerInv, FreedNodeIsQuiet, NodeFreed, FreeNode,
           CallbackGone, stateVars, sendVars, flightVars, NoCall, NoEvent, Results, Ops
  <1> QED
    BY <1>1, <1>2, <1>3, <1>4, <1>5, <1>6, <1>7 DEF CoreInv

(* What every step of Next does, apart from the two kinds above.            *)
LEMMA NextCore ==
  ASSUME CoreInv, [Next]_vars
  PROVE  CoreInv'
  <1>1. ASSUME NEW n \in Nodes, SubmitSteps(n) PROVE CoreInv'
    <2>1. ASSUME Ready(n) \/ InLoop(n) PROVE n \in open
      BY <2>1 DEF CoreInv, OwnerInv, Ready, InLoop
    <2>2. CASE SubmitRefused(n) \/ LoopDone(n) \/ LoopGivesUp(n)
      <3>1. n \in open
        BY <2>1, <2>2 DEF SubmitRefused, LoopDone, LoopGivesUp
      <3>2. call' \in [op : Ops, node : {n}] \union {NoCall} /\ (call'.op = "none" => call' = NoCall)
        <4>1. CASE SubmitRefused(n)
          BY <4>1 DEF CoreInv, Types, OwnerInv, SubmitRefused, Ready, InLoop, Return, Ops, NoCall
        <4>2. CASE LoopDone(n)
          BY <4>2 DEF CoreInv, Types, LoopDone, InLoop, Ops, NoCall
        <4>3. CASE LoopGivesUp(n)
          BY <4>3 DEF LoopGivesUp, Return, Ops, NoCall
        <4> QED
          BY <2>2, <4>1, <4>2, <4>3
      <3>3. present' \in BOOLEAN /\ closing' \in BOOLEAN /\ registered' \subseteq Nodes
        BY <2>2 DEF CoreInv, Types, SubmitRefused, LoopDone, LoopGivesUp, targetVars
      <3>4. UNCHANGED <<open, stateVars, sendVars, flightVars, target, knowledge>>
        BY <2>2 DEF SubmitRefused, LoopDone, LoopGivesUp, targetVars
      <3> QED
        BY <3>1, <3>2, <3>3, <3>4, CallChangesStep DEF CallChanges
    <2> QED
      BY <1>1, <2>2, ConsumeCompletionStep, SubmitAcceptedStep DEF SubmitSteps
  <1>2. ASSUME NEW n \in Nodes, SubmitBlocking(n) \/ NodeClose(n) PROVE CoreInv'
    <2>1. n \in open /\ call' \in [op : Ops, node : {n}] /\ call'.op # "none"
      BY <1>2 DEF SubmitBlocking, NodeClose, StartClose, Ready, Ops
    <2>2. present' \in BOOLEAN /\ closing' \in BOOLEAN /\ registered' \subseteq Nodes
      BY <1>2 DEF CoreInv, Types, SubmitBlocking, NodeClose, targetVars
    <2>3. UNCHANGED <<open, stateVars, sendVars, flightVars, target, knowledge>>
      BY <1>2 DEF SubmitBlocking, NodeClose, targetVars
    <2> QED
      BY <2>1, <2>2, <2>3, CallChangesStep DEF CallChanges
  <1>3. ASSUME NEW n \in Nodes, CloseLost(n) \/ CloseUnregisters(n) PROVE CoreInv'
    <2>1. NodeFreed(n)
      BY <1>3 DEF CoreInv, Types, CloseLost, CloseUnregisters, NodeFreed, targetVars
    <2> QED
      BY <2>1, NodeFreedStep
  <1>4. ASSUME NEW n \in Nodes, CloseUnregisterFails(n) PROVE CoreInv'
    <2>1. /\ n \in open /\ registered' \subseteq Nodes
          /\ call' \in [op : Ops, node : {n}] \union {NoCall}
          /\ call'.op = "none" => call' = NoCall
      BY <1>4 DEF CoreInv, Types, OwnerInv, CloseUnregisterFails, Return, Ops, NoCall
    <2> QED
      BY <1>4, <2>1, CallChangesStep DEF CoreInv, Types, CloseUnregisterFails, CallChanges
  <1>5. CASE EventSteps
    <2>1. CASE DeviceLost
      BY <2>1 DEF CoreInv, Types, CountInv, FlightInv, RememberInv, EdgeInv, UnknownInv,
         OwnerInv, FreedNodeIsQuiet, DeviceLost, stateVars, sendVars, flightVars, targetVars
    <2> QED
      BY <1>5, <2>1, TargetAppliesStep, TransferCompleteStep, ClearInflightStep,
         LeaveCallbackStep DEF EventSteps
  <1>6. CASE UNCHANGED vars
    BY <1>6 DEF CoreInv, Types, CountInv, FlightInv, RememberInv, EdgeInv, UnknownInv,
       OwnerInv, FreedNodeIsQuiet, vars
  <1> QED
    BY <1>1, <1>2, <1>3, <1>4, <1>5, <1>6, KbdStep, CloseNeutralizesStep DEF Next, CloseSteps

-----------------------------------------------------------------------------
(* What aoahid_node_close has established before request 55: every key is   *)
(* up, and once the neutral report is answered or was not needed, the       *)
(* target holds none.                                                       *)
NeutralInv ==
  /\ NeutralBeforeUnregister
  /\ call.op = "neutral" =>
       /\ pressed[call.node] = {}
       /\ wire[call.node] = "none" /\ completion_result[call.node] = "OK"
            /\ ~dirty[call.node] => target[call.node] = {}
  /\ call.op = "unregister" => target[call.node] = {} /\ wire[call.node] = "none"

IInv == CoreInv /\ NeutralInv

(* A step that changes nothing of the Nodes keeps it, if it leaves call     *)
(* alone or moves it to a stage that claims nothing.                        *)
LEMMA NeutralKept ==
  ASSUME NeutralInv, UNCHANGED <<registered, target, pressed, wire, completion_result, dirty>>,
         call' = call \/ call'.op \notin {"neutral", "unregister"}
  PROVE  NeutralInv'
  BY DEF NeutralInv, NeutralBeforeUnregister

LEMMA NextNeutral ==
  ASSUME IInv, [Next]_vars
  PROVE  NeutralInv'
  <1> USE DEF IInv
  <1>1. ASSUME NEW n \in Nodes, NEW k \in Keys, Kbd(n, k) PROVE NeutralInv'
    <2>1. call.op = "none" /\ UNCHANGED <<call, registered, target>>
      BY <1>1 DEF Kbd, Ready, NoCall, targetVars
    <2> QED
      BY <2>1 DEF NeutralInv, NeutralBeforeUnregister
  <1>2. ASSUME NEW n \in Nodes, ConsumeCompletion(n) PROVE NeutralInv'
    <2>1. UNCHANGED <<registered, target>> /\ call'.op \notin {"neutral", "unregister"}
      BY <1>2 DEF ConsumeCompletion, Ready, Return, NoCall, targetVars
    <2> QED
      BY <2>1 DEF NeutralInv, NeutralBeforeUnregister
  <1>3. ASSUME NEW n \in Nodes, SubmitAccepted(n) PROVE NeutralInv'
    <2>1. /\ UNCHANGED <<call, registered, target, pressed, completion_result, dirty>>
          /\ wire' = [wire EXCEPT ![n] = "sent"]
          /\ call.op # "unregister"
      BY <1>3 DEF SubmitAccepted, Ready, InLoop, NoCall, stateVars, targetVars
    <2> QED
      BY <2>1 DEF CoreInv, Types, OwnerInv, NeutralInv, NeutralBeforeUnregister
  <1>4. ASSUME NEW n \in Nodes, SubmitRefused(n) \/ LoopGivesUp(n) PROVE NeutralInv'
    <2>1. UNCHANGED <<registered, target, pressed, wire, completion_result, dirty>>
      BY <1>4 DEF SubmitRefused, LoopGivesUp, stateVars, sendVars, flightVars, targetVars
    <2>2. call' = call \/ call'.op \notin {"neutral", "unregister"}
      <3>1. Return(n) => call'.op \notin {"neutral", "unregister"}
        BY DEF Return, NoCall
      <3>2. call' = call \/ Return(n)
        BY <1>4 DEF SubmitRefused, LoopGivesUp
      <3> QED
        BY <3>1, <3>2
    <2> QED
      BY <2>1, <2>2, NeutralKept
  <1>5. ASSUME NEW n \in Nodes, LoopDone(n) PROVE NeutralInv'
    <2>1. UNCHANGED <<registered, target, pressed, wire, completion_result, dirty>>
      BY <1>5 DEF LoopDone, stateVars, sendVars, flightVars, targetVars
    <2>2. CASE call.op = "neutral"
      <3>1. call' = [op |-> "unregister", node |-> n]
        BY <1>5, <2>2 DEF LoopDone, InLoop, CoreInv, Types
      <3>2. target[n] = {} /\ wire[n] = "none"
        BY <1>5, <2>2 DEF LoopDone, InLoop, NeutralInv, CoreInv, Types, FlightInv
      <3> QED
        BY <2>1, <3>1, <3>2 DEF NeutralInv, NeutralBeforeUnregister
    <2>3. CASE call.op # "neutral"
      <3>1. call'.op \notin {"neutral", "unregister"}
        BY <1>5, <2>3 DEF LoopDone, InLoop, NoCall, CoreInv, Types
      <3> QED
        BY <2>1, <3>1, NeutralKept
    <2> QED
      BY <2>2, <2>3
  <1>6. ASSUME NEW n \in Nodes, SubmitBlocking(n) \/ NodeClose(n) PROVE NeutralInv'
    <2>1. UNCHANGED <<registered, target, pressed, wire, completion_result, dirty>>
      BY <1>6 DEF SubmitBlocking, NodeClose, stateVars, sendVars, flightVars, targetVars
    <2>2. call'.op \notin {"neutral", "unregister"}
      BY <1>6 DEF SubmitBlocking, NodeClose, StartClose
    <2> QED
      BY <2>1, <2>2, NeutralKept
  <1>7. ASSUME NEW n \in Nodes, CloseNeutralizes(n) PROVE NeutralInv'
    <2>1. UNCHANGED <<registered, target, wire>> /\ n \in Nodes /\ wire[n] = "none"
      BY <1>7 DEF CloseNeutralizes, targetVars, CoreInv, Types, FlightInv
    <2>2. CASE completion_result[n] # "OK"
      <3>1. call'.op \notin {"neutral", "unregister"}
        BY <1>7, <2>2 DEF CloseNeutralizes, Return, NoCall
      <3> QED
        BY <2>1, <3>1 DEF NeutralInv, NeutralBeforeUnregister
    <2>3. CASE completion_result[n] = "OK"
      <3>1. call' = [op |-> "neutral", node |-> n]
        BY <1>7, <2>3 DEF CloseNeutralizes
      <3>2. pressed'[n] = {} /\ (dirty'[n] <=> NonNeutral(n) \/ emitted_non_neutral[n])
        <4>1. Neutralize(n)
          BY <1>7, <2>3 DEF CloseNeutralizes
        <4>2. pressed' = [pressed EXCEPT ![n] = {}] /\ DOMAIN pressed = Nodes
          BY <4>1 DEF Neutralize, CoreInv, Types
        <4>3. /\ dirty' = [dirty EXCEPT ![n] = NonNeutral(n) \/ emitted_non_neutral[n]]
              /\ DOMAIN dirty = Nodes
          BY <4>1 DEF Neutralize, CoreInv, Types
        <4>4. pressed'[n] = {}
          BY <4>2
        <4>5. dirty'[n] = (NonNeutral(n) \/ emitted_non_neutral[n])
          BY <4>3, Zenon
        <4> QED
          BY <4>4, <4>5
      <3>3. target[n] # {} => emitted_non_neutral[n]
        BY <2>1 DEF CoreInv, RememberInv
      <3> QED
        BY <2>1, <3>1, <3>2, <3>3 DEF NeutralInv, NeutralBeforeUnregister
    <2> QED
      BY <2>2, <2>3
  <1>8. ASSUME NEW n \in Nodes, CloseLost(n) PROVE NeutralInv'
    <2>1. /\ UNCHANGED <<registered, target, pressed, wire, completion_result, dirty>>
          /\ call' = NoCall
      BY <1>8 DEF CloseLost, FreeNode, stateVars, sendVars, flightVars, targetVars
    <2> QED
      BY <2>1, NeutralKept DEF NoCall
  <1>9. ASSUME NEW n \in Nodes, CloseUnregisters(n) \/ CloseUnregisterFails(n) PROVE NeutralInv'
    <2>1. target[n] = {} /\ UNCHANGED target /\ registered \ {n} \subseteq registered'
      BY <1>9 DEF CloseUnregisters, CloseUnregisterFails, NeutralInv
    <2>2. call'.op \notin {"neutral", "unregister"}
      BY <1>9 DEF CloseUnregisters, CloseUnregisterFails, FreeNode, Return, NoCall
    <2> QED
      BY <2>1, <2>2 DEF NeutralInv, NeutralBeforeUnregister
  <1>10. ASSUME NEW n \in Nodes, TargetApplies(n) PROVE NeutralInv'
    <2>1. /\ UNCHANGED <<call, registered, pressed, completion_result, dirty>>
          /\ wire[n] = "sent" /\ n \in registered
          /\ wire' = [wire EXCEPT ![n] = "applied"]
          /\ target' = [target EXCEPT ![n] = payload[n]]
      BY <1>10 DEF TargetApplies, stateVars, sendVars
    <2> QED
      BY <2>1 DEF CoreInv, Types, NeutralInv, NeutralBeforeUnregister
  <1>11. ASSUME NEW n \in Nodes, NEW result \in Outcomes, TransferComplete(n, result)
         PROVE  NeutralInv'
    <2>1. /\ UNCHANGED <<call, registered, target, pressed>>
          /\ wire[n] # "none" /\ (result = "OK" => wire[n] = "applied")
          /\ wire' = [wire EXCEPT ![n] = "none"]
          /\ completion_result' = [completion_result EXCEPT ![n] = result]
      BY <1>11 DEF TransferComplete, Reported, targetVars
    <2>2. /\ wire[n] = "applied" => target[n] = pressed[n]
          /\ \A m \in Nodes \ {n} : dirty'[m] = dirty[m]
      BY <1>11 DEF TransferComplete, CoreInv, Types, FlightInv
    <2>3. call.op \in {"neutral", "unregister"} => call.node \in Nodes
      BY DEF CoreInv, Types, OwnerInv
    <2> QED
      BY <2>1, <2>2, <2>3 DEF CoreInv, Types, NeutralInv, NeutralBeforeUnregister
  <1>12. CASE ClearInflight \/ LeaveCallback \/ DeviceLost \/ UNCHANGED vars
    <2>1. UNCHANGED <<call, registered, target, pressed, wire, completion_result, dirty>>
      BY <1>12 DEF ClearInflight, LeaveCallback, DeviceLost, stateVars, sendVars, flightVars,
         targetVars, vars
    <2> QED
      BY <2>1, NeutralKept
  <1> QED
    BY <1>1, <1>2, <1>3, <1>4, <1>5, <1>6, <1>7, <1>8, <1>9, <1>10, <1>11, <1>12
       DEF Next, SubmitSteps, CloseSteps, EventSteps

-----------------------------------------------------------------------------
(* A Device being closed starts no report once its Nodes have been tried,   *)
(* and none is left when it is destroyed.                                   *)
DeviceInv ==
  /\ device \in {"open", "nodes", "draining", "destroying", "freed"}
  /\ device # "open" => closing
  /\ device \in {"draining", "destroying", "freed"} => call = NoCall
  /\ device = "destroying" =>
       event = NoEvent /\ \A n \in Nodes : wire[n] = "none" /\ ~inflight[n]

LEMMA DeviceNextCore ==
  ASSUME CoreInv, DeviceInv, [DeviceNext]_allVars
  PROVE  CoreInv'
  <1>1. CASE [Next]_vars
    BY <1>1, NextCore
  <1>2. CASE DeviceCloseStarts
    BY <1>2 DEF CoreInv, Types, CountInv, FlightInv, RememberInv, EdgeInv, UnknownInv, OwnerInv,
       FreedNodeIsQuiet, DeviceCloseStarts, stateVars, sendVars, flightVars, targetVars
  <1>3. ASSUME NEW n \in Nodes, CloseNextNode(n) PROVE CoreInv'
    <2>1. n \in open /\ call' \in [op : Ops, node : {n}] /\ call'.op # "none"
      BY <1>3 DEF CloseNextNode, StartClose, Ops
    <2>2. present' \in BOOLEAN /\ closing' \in BOOLEAN /\ registered' \subseteq Nodes
      BY <1>3 DEF CoreInv, Types, CloseNextNode, targetVars
    <2>3. UNCHANGED <<open, stateVars, sendVars, flightVars, target, knowledge>>
      BY <1>3 DEF CloseNextNode, targetVars
    <2> QED
      BY <2>1, <2>2, <2>3, CallChangesStep DEF CallChanges
  <1>4. CASE CancelNodes
    BY <1>4 DEF CoreInv, Types, CountInv, FlightInv, RememberInv, EdgeInv, UnknownInv, OwnerInv,
       FreedNodeIsQuiet, CancelNodes, stateVars, sendVars, flightVars, targetVars, NoCall, Ops
  <1>5. CASE StartDestroy \/ DestroyDevice
    BY <1>5, NextCore DEF StartDestroy, DestroyDevice
  <1>6. ASSUME NEW n \in Nodes, DestroyNode(n) PROVE CoreInv'
    <2>1. /\ open' = open \ {n} /\ call.op = "none" /\ event.node # n
          /\ wire[n] = "none" /\ ~inflight[n]
      BY <1>6, NodeAssumption DEF DestroyNode, DeviceInv, NoCall, NoEvent
    <2>2. /\ UNCHANGED <<stateVars, sendVars, inflight, wire, event, call, closing, target,
                         knowledge>>
          /\ completion_result' = [completion_result EXCEPT ![n] = "OK"]
      BY <1>6 DEF DestroyNode
    <2>3. present' \in BOOLEAN /\ registered' \subseteq Nodes
      BY <1>6 DEF DestroyNode, CoreInv, Types
    <2>4. Types'
      BY <2>1, <2>2, <2>3 DEF CoreInv, Types, Results, stateVars, sendVars
    <2>5. CountInv' /\ FlightInv' /\ RememberInv' /\ EdgeInv' /\ UnknownInv'
      BY <2>2 DEF CoreInv, CountInv, FlightInv, RememberInv, EdgeInv, UnknownInv, stateVars, sendVars
    <2>6. OwnerInv'
      BY <2>1, <2>2 DEF CoreInv, OwnerInv, FreedNodeIsQuiet
    <2> QED
      BY <2>4, <2>5, <2>6 DEF CoreInv
  <1> QED
    BY <1>1, <1>2, <1>3, <1>4, <1>5, <1>6 DEF DeviceNext, DeviceSteps, allVars

(* With the Device closing and no call under way only the event thread and  *)
(* the target go on, and they start nothing.                                *)
LEMMA OnlyEvents ==
  ASSUME CoreInv, closing, call = NoCall, Next
  PROVE  call' = NoCall /\ closing' /\ EventSteps
  <1>1. \A n \in Nodes : ~Ready(n) /\ ~InLoop(n) /\ call.op = "none"
    BY DEF Ready, InLoop, NoCall
  <1>2. EventSteps
    BY <1>1 DEF Next, Kbd, SubmitSteps, ConsumeCompletion, SubmitAccepted, SubmitRefused, LoopDone,
       LoopGivesUp, SubmitBlocking, NodeClose, CloseSteps, CloseNeutralizes, CloseLost,
       CloseUnregisters, CloseUnregisterFails, NoCall
  <1>3. UNCHANGED <<call, closing>>
    BY <1>2 DEF EventSteps, TargetApplies, TransferComplete, ClearInflight, LeaveCallback, DeviceLost
  <1> QED
    BY <1>2, <1>3

LEMMA DeviceNextInv ==
  ASSUME CoreInv, DeviceInv, [DeviceNext]_allVars
  PROVE  DeviceInv'
  <1>1. CASE Next /\ UNCHANGED device
    <2>1. closing => closing'
      BY <1>1 DEF Next, Kbd, SubmitSteps, ConsumeCompletion, SubmitAccepted, SubmitRefused, LoopDone,
         LoopGivesUp, SubmitBlocking, NodeClose, CloseSteps, CloseNeutralizes, CloseLost,
         CloseUnregisters, CloseUnregisterFails, EventSteps, TargetApplies, TransferComplete,
         ClearInflight, LeaveCallback, DeviceLost
    <2>2. CASE device \in {"open", "nodes"}
      BY <1>1, <2>1, <2>2 DEF DeviceInv
    <2>3. CASE device \in {"draining", "destroying", "freed"}
      <3>1. call' = NoCall /\ EventSteps
        BY <1>1, <2>3, OnlyEvents DEF DeviceInv
      <3>2. ASSUME device = "destroying"
            PROVE  event' = NoEvent /\ UNCHANGED <<wire, inflight>>
        <4>1. event.stage = "idle" /\ \A n \in Nodes : wire[n] = "none"
          BY <3>2 DEF DeviceInv, NoEvent
        <4>2. DeviceLost
          BY <3>1, <4>1 DEF EventSteps, TargetApplies, TransferComplete, Reported,
             ClearInflight, LeaveCallback
        <4> QED
          BY <3>2, <4>2 DEF DeviceLost, DeviceInv, flightVars
      <3> QED
        BY <1>1, <2>1, <3>1, <3>2 DEF DeviceInv
    <2> QED
      BY <2>2, <2>3 DEF DeviceInv
  <1>2. CASE DeviceCloseStarts
    BY <1>2 DEF DeviceInv, DeviceCloseStarts
  <1>3. ASSUME NEW n \in Nodes, CloseNextNode(n) PROVE DeviceInv'
    BY <1>3 DEF DeviceInv, CloseNextNode
  <1>4. CASE CancelNodes
    BY <1>4 DEF DeviceInv, CancelNodes
  <1>5. CASE StartDestroy
    BY <1>5 DEF DeviceInv, StartDestroy, GraphDrained, vars, CoreInv, FlightInv, NoEvent
  <1>6. CASE DestroyDevice \/ UNCHANGED allVars
    BY <1>6 DEF DeviceInv, DestroyDevice, vars, allVars
  <1>7. ASSUME NEW n \in Nodes, DestroyNode(n) PROVE DeviceInv'
    BY <1>7 DEF DeviceInv, DestroyNode
  <1> QED
    BY <1>1, <1>2, <1>3, <1>4, <1>5, <1>6, <1>7 DEF DeviceNext, DeviceSteps

-----------------------------------------------------------------------------
(* The inductive invariant of the Nodes of a Device.                        *)
THEOREM IInvHolds == Spec => []IInv
  <1>1. Init => IInv
    <2> SUFFICES ASSUME Init PROVE IInv
      OBVIOUS
    <2>1. NeutralInv
      BY DEF Init, NeutralInv, NeutralBeforeUnregister, NoCall
    <2> QED
      BY <2>1, InitCore DEF IInv
  <1>2. IInv /\ [Next]_vars => IInv'
    BY NextCore, NextNeutral DEF IInv
  <1> QED
    BY <1>1, <1>2, PTL DEF Spec

(* The types of all variables.                                              *)
THEOREM TypeCorrect == Spec => []Types
  <1>1. IInv => Types
    BY DEF IInv, CoreInv
  <1> QED
    BY <1>1, IInvHolds, PTL

(* Whatever the target holds the Node remembers (see HeldStateIsRemembered),*)
(* through every mix of outcomes.                                           *)
LEMMA CoreRemembers ==
  ASSUME CoreInv
  PROVE  HeldStateIsRemembered
  BY DEF CoreInv, Types, FlightInv, RememberInv, HeldStateIsRemembered

(* A Node knows when its target may hold a key (HeldStateIsRemembered),    *)
(* for any number of keys and any order of outcomes.                       *)
THEOREM HeldStateIsRememberedHolds == Spec => []HeldStateIsRemembered
  <1>1. IInv => HeldStateIsRemembered
    BY CoreRemembers DEF IInv
  <1> QED
    BY <1>1, IInvHolds, PTL

(* Request 55 of aoahid_node_close finds every key up on the target (see    *)
(* NeutralBeforeUnregister).                                                *)
THEOREM NeutralBeforeUnregisterHolds == Spec => []NeutralBeforeUnregister
  <1>1. IInv => NeutralBeforeUnregister
    BY DEF IInv, NeutralInv
  <1> QED
    BY <1>1, IInvHolds, PTL

(* A quick tap is not lost by coalescing (see EdgeReachesTarget).           *)
THEOREM EdgeReachesTargetHolds == Spec => EdgeReachesTarget
  <1>1. IInv /\ [Next]_vars =>
          [\A n \in Nodes, k \in Keys :
             Kbd(n, k) /\ knowledge[n] = "agreed" => (k \in target[n] <=> k \in pressed[n])]_vars
    BY DEF IInv, CoreInv, EdgeInv, Kbd, EdgePending
  <1> QED
    BY <1>1, IInvHolds, PTL DEF Spec, EdgeReachesTarget

(* The library sends nothing of its own accord after an unknown outcome     *)
(* (see NoBlindResend).                                                     *)
THEOREM NoBlindResendHolds == Spec => NoBlindResend
  <1>1. IInv /\ [Next]_vars =>
          [\A n \in Nodes :
             wire[n] = "none" /\ wire'[n] = "sent" /\ knowledge[n] = "unknown" =>
               key_transitions[n] # {}]_vars
    <2> SUFFICES ASSUME IInv, Next, NEW n \in Nodes,
                        wire[n] = "none", wire'[n] = "sent", knowledge[n] = "unknown"
                 PROVE  key_transitions[n] # {}
      OBVIOUS
    <2>1. ASSUME NEW m \in Nodes, NEW w \in {"none", "applied"}, wire' = [wire EXCEPT ![m] = w]
          PROVE  FALSE
      BY <2>1 DEF IInv, CoreInv, Types
    <2>2. ~EventSteps
      BY <2>1 DEF EventSteps, TargetApplies, TransferComplete, ClearInflight, LeaveCallback,
         DeviceLost, flightVars
    <2>3. PICK m \in Nodes : SubmitAccepted(m)
      BY <2>2 DEF Next, Kbd, SubmitSteps, ConsumeCompletion, SubmitRefused, LoopDone, LoopGivesUp,
         SubmitBlocking, NodeClose, CloseSteps, CloseNeutralizes, CloseLost, CloseUnregisters,
         CloseUnregisterFails, flightVars
    <2>4. m = n /\ dirty[m]
      BY <2>3 DEF SubmitAccepted, CanSend, IInv, CoreInv, Types
    <2> QED
      BY <2>4 DEF IInv, CoreInv, UnknownInv
  <1> QED
    BY <1>1, IInvHolds, PTL DEF Spec, NoBlindResend

(* The same invariant, but for what only aoahid_node_close establishes, of  *)
(* a Device that is closed with its Nodes.                                  *)
THEOREM DeviceInvHolds == DeviceSpec => [](CoreInv /\ DeviceInv)
  <1>1. DeviceInit => CoreInv /\ DeviceInv
    BY InitCore DEF DeviceInit, DeviceInv
  <1>2. CoreInv /\ DeviceInv /\ [DeviceNext]_allVars => (CoreInv /\ DeviceInv)'
    BY DeviceNextCore, DeviceNextInv
  <1> QED
    BY <1>1, <1>2, PTL DEF DeviceSpec

(* A freed Node has no transfer, no report in flight and no callback inside *)
(* (see FreedNodeIsQuiet), whoever freed it: its own close, the close of    *)
(* the Device or the reaper.                                                *)
THEOREM FreedNodeIsQuietHolds == DeviceSpec => []FreedNodeIsQuiet
  <1>1. CoreInv => FreedNodeIsQuiet
    BY DEF CoreInv, OwnerInv
  <1> QED
    BY <1>1, DeviceInvHolds, PTL

(* A Device close, too, forgets nothing that the target holds.              *)
THEOREM DeviceHeldStateHolds == DeviceSpec => []HeldStateIsRemembered
  <1>1. CoreInv => HeldStateIsRemembered
    BY CoreRemembers
  <1> QED
    BY <1>1, DeviceInvHolds, PTL

===============================================================================
