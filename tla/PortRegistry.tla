----------------------------- MODULE PortRegistry -----------------------------
(***************************************************************************)
(* The Ports of one physical device (src/transport/port.cpp): each owns a  *)
(* libusb handle, is reference-counted by a Device, its Channels and the   *)
(* probes that borrow it, and is found by bus and address in the Runtime's *)
(* registry, which holds no reference of its own. The application opens,   *)
(* closes and probes; the event thread destroys parked Devices.            *)
(***************************************************************************)
EXTENDS FiniteSets, Naturals

CONSTANTS Devices,      \* the Devices opened on the physical device
          Ports,        \* bound: handles opened in a behaviour
          Interfaces,   \* USB interfaces a Device or a Channel may claim
          None

PortRegistryAssumption ==
    /\ IsFiniteSet(Devices) /\ IsFiniteSet(Ports) /\ IsFiniteSet(Interfaces)
    /\ None \notin Devices \cup Ports \cup Interfaces

VARIABLES
    references, \* [Ports -> Nat], Port::references_
    ports,      \* Runtime::ports_
    handles,    \* Ports whose libusb handle is open
    claims,     \* [Ports -> [Interfaces -> Nat]], Port::claims_
    kernel,     \* [Interfaces -> the Port that claimed it, or None]
    device,     \* [Devices -> state, Port, claimed interface, Channels]
    pc,         \* [Threads -> what the thread does to the Port it holds]
    port,       \* [Threads -> the Port the thread holds, or None]
    dying,      \* [Threads -> the Device the thread destroys, or None]
    probe       \* discovery has opened a handle of its own

vars == <<references, ports, handles, claims, kernel, device, pc, port, dying, probe>>

Threads == {"app", "event"}
Unused == Ports \ (handles \cup {p \in Ports : \E d \in Devices : device[d].port = p})

Init ==
    /\ references = [p \in Ports |-> 0]
    /\ ports = {} /\ handles = {}
    /\ claims = [p \in Ports |-> [i \in Interfaces |-> 0]]
    /\ kernel = [i \in Interfaces |-> None]
    /\ device = [d \in Devices |->
                   [state |-> "unopened", port |-> None, claim |-> None, channels |-> {}]]
    /\ pc = [t \in Threads |-> "idle"]
    /\ port = [t \in Threads |-> None]
    /\ dying = [t \in Threads |-> None]
    /\ probe = FALSE

-----------------------------------------------------------------------------
(* claim_interface and release_interface, each under claims_mutex. *)

MayClaim(p, i) == claims[p][i] > 0 \/ kernel[i] = None

Claim(p, i) ==
    /\ claims' = [claims EXCEPT ![p][i] = @ + 1]
    /\ kernel' = [kernel EXCEPT ![i] = p]

ReleaseInterface(p, i) ==
    /\ claims' = [claims EXCEPT ![p][i] = @ - 1]
    /\ kernel' = [kernel EXCEPT ![i] = IF claims[p][i] = 1 THEN None ELSE @]

(* The thread t goes on to give up the reference it took over or borrowed. *)
GiveUp(t, p) ==
    /\ port' = [port EXCEPT ![t] = p]
    /\ pc' = [pc EXCEPT ![t] = "release"]

-----------------------------------------------------------------------------
(* Runtime::acquire_port: a new handle, registered with one reference. *)
Acquire(p) ==
    /\ references' = [references EXCEPT ![p] = 1]
    /\ ports' = ports \cup {p}
    /\ handles' = handles \cup {p}

(* Device::open, with an interface to claim or without; a refused claim    *)
(* gives the new Port up again.                                            *)
OpenDevice(d, i) ==
    /\ pc["app"] = "idle" /\ device[d].state = "unopened"
    /\ \E p \in Unused :
        /\ Acquire(p)
        /\ IF i # None => MayClaim(p, i)
           THEN /\ device' = [device EXCEPT ![d] = [state |-> "open", port |-> p,
                                                    claim |-> i, channels |-> {}]]
                /\ IF i = None THEN UNCHANGED <<claims, kernel>> ELSE Claim(p, i)
                /\ UNCHANGED <<pc, port>>
           ELSE /\ GiveUp("app", p)
                /\ UNCHANGED <<claims, kernel, device>>
    /\ UNCHANGED <<dying, probe>>

(* Channel::open claims the interface and retains the Device's Port.       *)
OpenChannel(d, i) ==
    LET p == device[d].port IN
    /\ pc["app"] = "idle" /\ device[d].state = "open" /\ i \notin device[d].channels
    /\ MayClaim(p, i) /\ Claim(p, i)
    /\ references' = [references EXCEPT ![p] = @ + 1]
    /\ device' = [device EXCEPT ![d].channels = @ \cup {i}]
    /\ UNCHANGED <<ports, handles, pc, port, dying, probe>>

(* The storage of a Channel is released: by channel_close or by the        *)
(* destruction of its Device.                                              *)
FreeChannel(t, d, i) ==
    /\ ReleaseInterface(device[d].port, i)
    /\ device' = [device EXCEPT ![d].channels = @ \ {i}]
    /\ GiveUp(t, device[d].port)
    /\ UNCHANGED <<references, ports, handles, dying, probe>>

CloseChannel(d, i) ==
    /\ pc["app"] = "idle" /\ device[d].state = "open" /\ i \in device[d].channels
    /\ FreeChannel("app", d, i)

(* device_close destroys the graph at once or parks it for the event thread. *)
CloseDevice(d) ==
    /\ pc["app"] = "idle" /\ device[d].state = "open"
    /\ \/ /\ device' = [device EXCEPT ![d].state = "closing"]
          /\ dying' = [dying EXCEPT !["app"] = d]
          /\ pc' = [pc EXCEPT !["app"] = "destroy"]
       \/ /\ device' = [device EXCEPT ![d].state = "parked"]
          /\ UNCHANGED <<dying, pc>>
    /\ UNCHANGED <<references, ports, handles, claims, kernel, port, probe>>

ReapDevice(d) ==
    /\ pc["event"] = "idle" /\ device[d].state = "parked"
    /\ device' = [device EXCEPT ![d].state = "closing"]
    /\ dying' = [dying EXCEPT !["event"] = d]
    /\ pc' = [pc EXCEPT !["event"] = "destroy"]
    /\ UNCHANGED <<references, ports, handles, claims, kernel, port, probe>>

(* destroy_drained_device: the Channels, then the Device.                  *)
DestroyChannel(t) ==
    /\ pc[t] = "destroy"
    /\ \E i \in device[dying[t]].channels : FreeChannel(t, dying[t], i)

DestroyDevice(t) ==
    LET d == dying[t] IN
    /\ pc[t] = "destroy" /\ device[d].channels = {}
    /\ IF device[d].claim = None THEN UNCHANGED <<claims, kernel>>
       ELSE ReleaseInterface(device[d].port, device[d].claim)
    /\ device' = [device EXCEPT ![d].state = "freed"]
    /\ dying' = [dying EXCEPT ![t] = None]
    /\ GiveUp(t, device[d].port)
    /\ UNCHANGED <<references, ports, handles, probe>>

-----------------------------------------------------------------------------
(* retain_port: a registered Port of this bus and address whose count has  *)
(* not reached zero. try_retain never raises a count of zero.              *)
RetainsAny(p) == p \in ports
TryRetain(p) == p \in ports /\ references[p] # 0

Borrow ==
    /\ pc["app"] = "idle"
    /\ \E p \in Ports :
        /\ TryRetain(p)
        /\ references' = [references EXCEPT ![p] = @ + 1]
        /\ port' = [port EXCEPT !["app"] = p]
    /\ pc' = [pc EXCEPT !["app"] = "probe"]
    /\ UNCHANGED <<ports, handles, claims, kernel, device, dying, probe>>

(* With no Port to borrow, discovery opens the device itself, and the      *)
(* accessory start acquires a Port.                                        *)
OpenForProbe ==
    /\ pc["app"] = "idle" /\ \A p \in Ports : ~TryRetain(p)
    /\ \/ /\ probe' = TRUE
          /\ UNCHANGED <<references, ports, handles, port>>
       \/ \E p \in Unused :
            /\ Acquire(p)
            /\ port' = [port EXCEPT !["app"] = p]
            /\ UNCHANGED probe
    /\ pc' = [pc EXCEPT !["app"] = "probe"]
    /\ UNCHANGED <<claims, kernel, device, dying>>

(* Request 51, and 52 and 53 for an accessory start, then the release.     *)
ProbeEnds ==
    /\ pc["app"] = "probe"
    /\ pc' = [pc EXCEPT !["app"] = IF probe THEN "idle" ELSE "release"]
    /\ probe' = FALSE
    /\ UNCHANGED <<references, ports, handles, claims, kernel, device, port, dying>>

-----------------------------------------------------------------------------
(* Port::release: the last reference unregisters the Port, releases the    *)
(* claims left and closes the handle.                                      *)

Resume(t) == pc' = [pc EXCEPT ![t] = IF dying[t] = None THEN "idle" ELSE "destroy"]

Release(t) ==
    LET p == port[t] IN
    /\ pc[t] = "release"
    /\ references' = [references EXCEPT ![p] = @ - 1]
    /\ IF references[p] = 1
       THEN pc' = [pc EXCEPT ![t] = "unregister"] /\ UNCHANGED port
       ELSE Resume(t) /\ port' = [port EXCEPT ![t] = None]
    /\ UNCHANGED <<ports, handles, claims, kernel, device, dying, probe>>

UnregisterPort(t) ==
    /\ pc[t] = "unregister"
    /\ ports' = ports \ {port[t]}
    /\ pc' = [pc EXCEPT ![t] = "close"]
    /\ UNCHANGED <<references, handles, claims, kernel, device, port, dying, probe>>

CloseHandle(t) ==
    LET p == port[t] IN
    /\ pc[t] = "close"
    /\ kernel' = [i \in Interfaces |-> IF claims[p][i] > 0 THEN None ELSE kernel[i]]
    /\ claims' = [claims EXCEPT ![p] = [i \in Interfaces |-> 0]]
    /\ handles' = handles \ {p}
    /\ port' = [port EXCEPT ![t] = None]
    /\ Resume(t)
    /\ UNCHANGED <<references, ports, device, dying, probe>>

-----------------------------------------------------------------------------
Next ==
    \/ Borrow \/ OpenForProbe \/ ProbeEnds
    \/ \E d \in Devices :
        \/ CloseDevice(d) \/ ReapDevice(d)
        \/ \E i \in Interfaces \cup {None} : OpenDevice(d, i)
        \/ \E i \in Interfaces : OpenChannel(d, i) \/ CloseChannel(d, i)
    \/ \E t \in Threads :
        \/ DestroyChannel(t) \/ DestroyDevice(t)
        \/ Release(t) \/ UnregisterPort(t) \/ CloseHandle(t)

Spec == Init /\ [][Next]_vars

-----------------------------------------------------------------------------
(* A Port lives as long as anyone uses it: its count is the number of its  *)
(* Devices, Channels and borrowing calls, as long as there is one the      *)
(* handle is open and registered, and an interface is claimed by a Port    *)
(* exactly when one of its Devices or Channels wants it. (The registry     *)
(* hands out Ports another thread is releasing; Device and Channel may     *)
(* claim the same interface.)                                              *)
Owns(d, p) == device[d].port = p /\ device[d].state \in {"open", "parked", "closing"}
ChannelsOn(p) == {c \in Devices \X Interfaces : Owns(c[1], p) /\ c[2] \in device[c[1]].channels}
Borrowers(p) == {t \in Threads : port[t] = p /\ pc[t] \in {"probe", "release"}}
Users(p) ==
    Cardinality({d \in Devices : Owns(d, p)}) + Cardinality(ChannelsOn(p))
        + Cardinality(Borrowers(p))
Wanted(p) ==
    {c[2] : c \in ChannelsOn(p)} \cup {device[d].claim : d \in {x \in Devices : Owns(x, p)}}

PortOutlivesItsUsers ==
    \A p \in Ports :
        /\ references[p] = Users(p)
        /\ Users(p) > 0 => p \in handles \cap ports
        /\ {i \in Interfaces : kernel[i] = p} = Wanted(p) \ {None}

(* Discovery borrows the handle of an open Device, so that the process     *)
(* never holds two handles to one device.                                  *)
ProbesAlone == probe => handles = {}
=============================================================================
