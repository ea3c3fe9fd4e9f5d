----------------------------- MODULE Registration -----------------------------
(***************************************************************************)
(* Opening and closing Nodes (aoahid_node_open, src/api/c_api.cpp) and the *)
(* requests that register a HID at the target (register_hid and            *)
(* unregister_hid, src/transport/transport.cpp): 54 with the length, 56    *)
(* for each fragment of the descriptor, 55 to take it back. A request may  *)
(* take effect although the host sees a failure. Devices on one physical   *)
(* port share a counter of HID IDs; a Device that was closed with its      *)
(* Nodes is destroyed by the application or, once parked, by the event     *)
(* thread, while the application opens the next one.                       *)
(***************************************************************************)
EXTENDS FiniteSets, Integers, Sequences

CONSTANTS Nodes, Devices,
          Fragments,     \* requests 56 a descriptor takes
          MaxId,         \* bound: stands for the last ID, 65535
          None

RegistrationAssumption ==
    /\ IsFiniteSet(Nodes) /\ IsFiniteSet(Devices)
    /\ Fragments \in Nat \ {0} /\ MaxId \in Nat \ {0}

VARIABLES
    state,      \* [Nodes -> States]
    device,     \* [Nodes -> the Node's Device, or None]
    id,         \* [Nodes -> node->hid_id, 0 before it is allocated]
    reserved,   \* Nodes whose transfer-pool reservation is installed
    retained,   \* Nodes that hold a reference of the Spec
    opened,     \* [Devices -> DeviceStates]
    present,    \* Devices the host still believes to be there
    linked,     \* Devices whose connection to the target lives
    domain,     \* [Devices -> its hid_id_domain_index, 0 before it is opened]
    next,       \* sequence of next_hid_id, one per domain
    call,       \* what node_open is doing: [step, node, fragment]
    target      \* [IDs the target knows -> fragments received]

vars == <<state, device, id, reserved, retained, opened, present, linked, domain, next,
          call, target>>
nodes == <<state, device, id, reserved, retained>>

States ==
    {"new", "opening", "open", "closeFailed", "failed", "failedUnsure", "freed", "freedUnsure"}
NoCall == [step |-> "idle", node |-> None, fragment |-> 0]

Init ==
    /\ state = [n \in Nodes |-> "new"]
    /\ device = [n \in Nodes |-> None]
    /\ id = [n \in Nodes |-> 0]
    /\ reserved = {} /\ retained = {}
    /\ opened = [d \in Devices |-> "no"]
    /\ present = {} /\ linked = {}
    /\ domain = [d \in Devices |-> 0]
    /\ next = <<>>
    /\ call = NoCall
    /\ target = [i \in {} |-> 0]

-----------------------------------------------------------------------------
(* Opening a Device. All Devices of this model are on one physical port.   *)

DomainPerDevice == Append(next, 1)
(* find_or_create_hid_id_domain finds the domain of the port, once there is one. *)
FindOrCreate == IF next = <<>> THEN <<1>> ELSE next

DeviceOpen(d) ==
    /\ call = NoCall /\ opened[d] = "no"
    /\ opened' = [opened EXCEPT ![d] = "yes"]
    /\ present' = present \cup {d} /\ linked' = linked \cup {d}
    /\ next' = FindOrCreate
    /\ domain' = [domain EXCEPT ![d] = Len(next')]
    /\ UNCHANGED <<nodes, call, target>>

-----------------------------------------------------------------------------
(* Requests *)

Results == {"OK", "STALL", "TIMEOUT", "NO_DEVICE"}
OnTheWay(i) == IF i \in DOMAIN target THEN target[i] ELSE -1

Forget(i) == [j \in DOMAIN target \ {i} |-> target[j]]
Enter(i, k) == [j \in DOMAIN target \cup {i} |-> IF j = i THEN k ELSE target[j]]

(* External: what the host may see of a request on a Device, and what it   *)
(* may have done. OK was applied, a stall refused; a failure may be either,*)
(* and a dead connection reaches nothing.                                  *)
Answer(d, result, applied) ==
    IF d \notin linked THEN result = "NO_DEVICE" /\ target' = target
    ELSE /\ result # "NO_DEVICE"
         /\ \/ result \in {"OK", "TIMEOUT"} /\ target' = applied
            \/ result \in {"STALL", "TIMEOUT"} /\ target' = target

(* observe_control_result *)
Observe(d, result) ==
    present' = IF result = "NO_DEVICE" THEN present \ {d} ELSE present

(* control_outcome_may_be_accepted: the failures after which request 54    *)
(* may still have taken effect.                                            *)
MayBeAcceptedIfLost(result) == result = "NO_DEVICE"
MayBeAccepted(result) == result \in {"TIMEOUT", "NO_DEVICE"}

-----------------------------------------------------------------------------
(* aoahid_node_open up to request 54: allocate_hid_id, which fails past    *)
(* the last ID, the Spec's reference and the reservation.                  *)
Exhausted(d) == next[domain[d]] > MaxId

NodeOpen(n, d) ==
    /\ call = NoCall /\ state[n] = "new" /\ opened[d] = "yes"
    /\ ~Exhausted(d)
    /\ id' = [id EXCEPT ![n] = next[domain[d]]]
    /\ next' = [next EXCEPT ![domain[d]] = @ + 1]
    /\ device' = [device EXCEPT ![n] = d]
    /\ IF d \in present
       THEN /\ state' = [state EXCEPT ![n] = "opening"]
            /\ retained' = retained \cup {n} /\ reserved' = reserved \cup {n}
            /\ call' = [step |-> "register", node |-> n, fragment |-> 0]
       ELSE /\ state' = [state EXCEPT ![n] = "failed"]
            /\ UNCHANGED <<retained, reserved, call>>
    /\ UNCHANGED <<opened, present, linked, domain, target>>

(* The last ID is taken: node_open fails before anything else happens.     *)
NodeOpenOverflows(n, d) ==
    /\ call = NoCall /\ state[n] = "new" /\ opened[d] = "yes"
    /\ Exhausted(d)
    /\ state' = [state EXCEPT ![n] = "failed"]
    /\ UNCHANGED <<device, id, reserved, retained, opened, present, linked, domain,
                   next, call, target>>

(* register_hid: request 54 ...                                            *)
Register ==
    LET n == call.node IN
    /\ call.step = "register"
    /\ \E result \in Results :
        /\ Answer(device[n], result, Enter(id[n], 0))
        /\ Observe(device[n], result)
        /\ call' = [call EXCEPT !.step =
                      IF result = "OK" THEN "fragments"
                      ELSE IF result # "NO_DEVICE" /\ MayBeAccepted(result)
                           THEN "cleanup" ELSE "undo"]
    /\ UNCHANGED <<nodes, opened, linked, domain, next>>

(* ... then 56 for each fragment, in order ...                             *)
SendFragment ==
    LET n == call.node IN
    /\ call.step = "fragments" /\ call.fragment < Fragments
    /\ \E result \in Results :
        /\ Answer(device[n], result,
                  IF OnTheWay(id[n]) = call.fragment
                  THEN Enter(id[n], call.fragment + 1) ELSE target)
        /\ Observe(device[n], result)
        /\ call' = IF result = "OK" THEN [call EXCEPT !.fragment = @ + 1]
                   ELSE [call EXCEPT !.step =
                           IF result = "NO_DEVICE" THEN "undo" ELSE "cleanup"]
    /\ UNCHANGED <<nodes, opened, linked, domain, next>>

(* ... and after a failure a best-effort 55, whose own failure is ignored. *)
Cleanup ==
    LET n == call.node IN
    /\ call.step = "cleanup"
    /\ \E result \in Results :
        /\ Answer(device[n], result, Forget(id[n]))
        /\ Observe(device[n], result)
        /\ call' = [call EXCEPT !.step = IF result = "OK" THEN "undo" ELSE "undoUnsure"]
    /\ UNCHANGED <<nodes, opened, linked, domain, next>>

(* The Node is published ...                                               *)
Publish ==
    /\ call.step = "fragments" /\ call.fragment = Fragments
    /\ state' = [state EXCEPT ![call.node] = "open"]
    /\ call' = NoCall
    /\ UNCHANGED <<device, id, reserved, retained, opened, present, linked, domain, next,
                   target>>

(* ... or its reservation and its reference of the Spec are given back.    *)
Undo == reserved' = reserved \ {call.node} /\ retained' = retained \ {call.node}

NodeOpenFails ==
    /\ call.step \in {"undo", "undoUnsure"}
    /\ Undo
    /\ state' = [state EXCEPT ![call.node] =
                   IF call.step = "undo" THEN "failed" ELSE "failedUnsure"]
    /\ call' = NoCall
    /\ UNCHANGED <<device, id, opened, present, linked, domain, next, target>>

-----------------------------------------------------------------------------
(* Closing. release_node_storage gives the reservation and the Spec back.  *)

FreeNode(n, as) ==
    /\ state' = [state EXCEPT ![n] = as]
    /\ reserved' = reserved \ {n} /\ retained' = retained \ {n}
    /\ UNCHANGED <<device, id>>

(* aoahid_node_close: a failed request 55 leaves the Node to be closed     *)
(* again, unless the device is gone.                                       *)
NodeClose(n) ==
    /\ call = NoCall /\ state[n] \in {"open", "closeFailed"} /\ opened[device[n]] = "yes"
    /\ IF device[n] \notin present
       THEN FreeNode(n, "freed") /\ UNCHANGED <<present, target>>
       ELSE \E result \in Results :
              /\ Answer(device[n], result, Forget(id[n]))
              /\ Observe(device[n], result)
              /\ IF result \in {"OK", "NO_DEVICE"} THEN FreeNode(n, "freed")
                 ELSE /\ state' = [state EXCEPT ![n] = "closeFailed"]
                      /\ UNCHANGED <<device, id, reserved, retained>>
    /\ UNCHANGED <<opened, linked, domain, next, call>>

(* The close of a Device consumes it, and one of the two threads destroys  *)
(* its Nodes, whether request 55 succeeds or not.                          *)
DeviceClose(d) ==
    /\ call = NoCall /\ opened[d] = "yes"
    /\ opened' = [opened EXCEPT ![d] = "closing"]
    /\ UNCHANGED <<nodes, present, linked, domain, next, call, target>>

DestroyNode(n) ==
    /\ state[n] \in {"open", "closeFailed"} /\ opened[device[n]] = "closing"
    /\ IF device[n] \notin present
       THEN FreeNode(n, "freed") /\ UNCHANGED <<present, target>>
       ELSE \E result \in Results :
              /\ Answer(device[n], result, Forget(id[n]))
              /\ Observe(device[n], result)
              /\ FreeNode(n, IF result \in {"OK", "NO_DEVICE"}
                             THEN "freed" ELSE "freedUnsure")
    /\ UNCHANGED <<opened, linked, domain, next, call>>

(* External: the target is unplugged and plugged in again; it forgets all. *)
Replug ==
    /\ linked # {}
    /\ linked' = {}
    /\ target' = [i \in {} |-> 0]
    /\ UNCHANGED <<nodes, opened, present, domain, next, call>>

-----------------------------------------------------------------------------
Next ==
    \/ Register \/ SendFragment \/ Cleanup \/ Publish \/ NodeOpenFails \/ Replug
    \/ \E d \in Devices : DeviceOpen(d) \/ DeviceClose(d)
    \/ \E n \in Nodes :
        \/ NodeClose(n) \/ DestroyNode(n)
        \/ \E d \in Devices : NodeOpen(n, d) \/ NodeOpenOverflows(n, d)

Spec == Init /\ [][Next]_vars

-----------------------------------------------------------------------------
(* Request 54 never names an ID the target already has an entry for: not   *)
(* one of another Device on the same port, and not one that a lost cleanup *)
(* or the destruction of an earlier Device left behind.                    *)
IdIsFresh == call.step = "register" => OnTheWay(id[call.node]) = -1

(* Opening a Node is all or nothing. A published Node is registered with   *)
(* its whole descriptor as long as its connection lives; an entry of the   *)
(* target belongs to a Node, unless the request 55 that should have        *)
(* removed it failed; reservations and references of the Spec are those of *)
(* the Nodes that are open or being opened.                                *)
Alive == {n \in Nodes : state[n] \in {"opening", "open", "closeFailed"}}
Unsure == {n \in Nodes : state[n] \in {"failedUnsure", "freedUnsure"}}

OpenIsAllOrNothing ==
    /\ \A n \in Nodes :
         state[n] = "open" /\ device[n] \in linked => OnTheWay(id[n]) = Fragments
    /\ DOMAIN target \subseteq {id[n] : n \in Alive \cup Unsure}
    /\ reserved = Alive /\ retained = Alive
=============================================================================
