-------------------------- MODULE PortRegistryProofs --------------------------
(***************************************************************************)
(* PortRegistry for any number of Devices, Ports and interfaces: the       *)
(* counts of a Port are those of its users, whoever opens, closes, probes  *)
(* or reaps.                                                               *)
(***************************************************************************)
EXTENDS PortRegistry, FiniteSetTheorems, TLAPS

Using == {"open", "parked", "closing"}

DeviceType ==
  [state : Using \cup {"unopened", "freed"}, port : Ports \cup {None},
   claim : Interfaces \cup {None}, channels : SUBSET Interfaces]

Types ==
  /\ references \in [Ports -> Int]
  /\ ports \subseteq Ports /\ handles \subseteq Ports
  /\ claims \in [Ports -> [Interfaces -> Int]]
  /\ kernel \in [Interfaces -> Ports \cup {None}]
  /\ device \in [Devices -> DeviceType]
  /\ pc \in [Threads -> {"idle", "probe", "destroy", "release", "unregister", "close"}]
  /\ port \in [Threads -> Ports \cup {None}]
  /\ dying \in [Threads -> Devices \cup {None}]
  /\ probe \in BOOLEAN

(* A Device that was opened and is not freed has a Port.                    *)
DeviceInv == \A d \in Devices : device[d].state \in Using => device[d].port \in Ports

(* What a thread works on, and that no two destroy the same Device.         *)
ThreadInv ==
  /\ \A t \in Threads :
       /\ pc[t] \in {"idle", "destroy"} => port[t] = None
       /\ pc[t] \in {"release", "unregister", "close"} => port[t] \in Ports
       /\ pc[t] = "destroy" => dying[t] # None
       /\ dying[t] # None => device[dying[t]].state = "closing"
  /\ dying["app"] # None => dying["app"] # dying["event"]
  /\ probe => pc["app"] = "probe"
  /\ pc["app"] = "probe" => (probe <=> port["app"] = None)
  /\ pc["event"] # "probe"

(* A Port with references is open and registered; the one that a thread is  *)
(* taking down has none left and is still open.                             *)
HandleInv ==
  /\ \A p \in Ports : references[p] # 0 => p \in handles \cap ports
  /\ \A t \in Threads : pc[t] \in {"unregister", "close"} =>
       port[t] \in handles /\ references[port[t]] = 0
  /\ pc["app"] \in {"unregister", "close"} /\ pc["event"] \in {"unregister", "close"} =>
       port["app"] # port["event"]

(* The count of a Port is that of its users.                                *)
CountInv == \A p \in Ports : references[p] = Users(p)

(* What claims an interface through a Port, and the count of claims.        *)
Claimants(p, i) ==
  {c \in Devices \X {"device", "channel"} :
     /\ Owns(c[1], p)
     /\ IF c[2] = "device" THEN device[c[1]].claim = i ELSE i \in device[c[1]].channels}

ClaimInv ==
  /\ \A p \in Ports, i \in Interfaces : claims[p][i] = Cardinality(Claimants(p, i))
  /\ \A p \in Ports, i \in Interfaces : kernel[i] = p <=> claims[p][i] # 0

Inv == Types /\ DeviceInv /\ ThreadInv /\ HandleInv /\ CountInv /\ ClaimInv

-----------------------------------------------------------------------------
DevicesOn(p) == {d \in Devices : Owns(d, p)}

LEMMA UsersFinite ==
  ASSUME PortRegistryAssumption, NEW p
  PROVE  /\ IsFiniteSet(DevicesOn(p)) /\ Cardinality(DevicesOn(p)) \in Nat
         /\ IsFiniteSet(ChannelsOn(p)) /\ Cardinality(ChannelsOn(p)) \in Nat
         /\ IsFiniteSet(Borrowers(p)) /\ Cardinality(Borrowers(p)) \in Nat
         /\ Users(p) = Cardinality(DevicesOn(p)) + Cardinality(ChannelsOn(p))
                         + Cardinality(Borrowers(p))
  <1>1. IsFiniteSet(DevicesOn(p))
    BY FS_Subset DEF PortRegistryAssumption, DevicesOn
  <1>2. IsFiniteSet(ChannelsOn(p))
    <2>1. IsFiniteSet(Devices \X Interfaces)
      BY FS_Product DEF PortRegistryAssumption
    <2> QED
      BY <2>1, FS_Subset DEF ChannelsOn
  <1>3. IsFiniteSet(Borrowers(p))
    <2>1. IsFiniteSet({"app"} \cup {"event"}) /\ Threads = {"app"} \cup {"event"}
      BY FS_Singleton, FS_AddElement DEF Threads
    <2> QED
      BY <2>1, FS_Subset DEF Borrowers
  <1> QED
    BY <1>1, <1>2, <1>3, FS_CardinalityType DEF Users, DevicesOn

LEMMA ClaimantsFinite ==
  ASSUME PortRegistryAssumption, NEW p, NEW i
  PROVE  IsFiniteSet(Claimants(p, i)) /\ Cardinality(Claimants(p, i)) \in Nat
  <1>1. IsFiniteSet({"device"} \cup {"channel"})
    BY FS_Singleton, FS_AddElement
  <1>2. {"device", "channel"} = {"device"} \cup {"channel"}
    OBVIOUS
  <1>3. IsFiniteSet(Devices \X {"device", "channel"})
    BY <1>1, <1>2, FS_Product DEF PortRegistryAssumption
  <1> QED
    BY <1>3, FS_Subset, FS_CardinalityType DEF Claimants

(* Whatever uses a Port keeps its count above zero.                         *)
LEMMA UsersCounted ==
  ASSUME PortRegistryAssumption, Inv, NEW p \in Ports
  PROVE  /\ Users(p) \in Nat
         /\ \A d \in Devices : Owns(d, p) => references[p] > 0
         /\ \A t \in Borrowers(p) : references[p] > 0
  <1>1. references[p] = Cardinality(DevicesOn(p)) + Cardinality(ChannelsOn(p))
                          + Cardinality(Borrowers(p))
    BY UsersFinite DEF Inv, CountInv
  <1>2. \A d \in Devices : Owns(d, p) => Cardinality(DevicesOn(p)) # 0
    <2>1. DevicesOn(p) # {} => Cardinality(DevicesOn(p)) # 0
      BY UsersFinite, FS_EmptySet
    <2> QED
      BY <2>1 DEF DevicesOn
  <1>3. Borrowers(p) # {} => Cardinality(Borrowers(p)) # 0
    BY UsersFinite, FS_EmptySet
  <1> QED
    BY <1>1, <1>2, <1>3, UsersFinite DEF Inv, CountInv

-----------------------------------------------------------------------------
(* What a change of one component of a Device leaves alone.                 *)
LEMMA StateChanges ==
  ASSUME Types, NEW d \in Devices, NEW s \in Using \cup {"unopened", "freed"},
         device' = [device EXCEPT ![d].state = s]
  PROVE  /\ device' \in [Devices -> DeviceType]
         /\ \A e \in Devices : /\ device'[e].port = device[e].port
                               /\ device'[e].claim = device[e].claim
                               /\ device'[e].channels = device[e].channels
                               /\ device'[e].state = IF e = d THEN s ELSE device[e].state
  <1>1. device[d] \in DeviceType
    BY DEF Types
  <1>2. [device[d] EXCEPT !.state = s] \in DeviceType
    BY <1>1 DEF DeviceType
  <1> QED
    BY <1>1, <1>2 DEF Types, DeviceType

LEMMA ChannelsChange ==
  ASSUME Types, NEW d \in Devices, NEW C \in SUBSET Interfaces,
         device' = [device EXCEPT ![d].channels = C]
  PROVE  /\ device' \in [Devices -> DeviceType]
         /\ \A e \in Devices : /\ device'[e].port = device[e].port
                               /\ device'[e].claim = device[e].claim
                               /\ device'[e].state = device[e].state
                               /\ device'[e].channels = IF e = d THEN C ELSE device[e].channels
  <1>1. device[d] \in DeviceType
    BY DEF Types
  <1>2. [device[d] EXCEPT !.channels = C] \in DeviceType
    BY <1>1 DEF DeviceType
  <1> QED
    BY <1>1, <1>2 DEF Types, DeviceType

LEMMA DeviceOpens ==
  ASSUME Types, NEW d \in Devices, NEW p \in Ports, NEW i \in Interfaces \cup {None},
         device' = [device EXCEPT ![d] = [state |-> "open", port |-> p,
                                          claim |-> i, channels |-> {}]]
  PROVE  /\ device' \in [Devices -> DeviceType]
         /\ \A e \in Devices \ {d} : device'[e] = device[e]
         /\ device'[d].state = "open" /\ device'[d].port = p
         /\ device'[d].claim = i /\ device'[d].channels = {}
  BY DEF Types, DeviceType, Using

(* The counts of a Port follow from those of its users: nothing changes, or *)
(* only for one Port.                                                       *)
SameUsers(q) ==
  /\ DevicesOn(q)' = DevicesOn(q)
  /\ ChannelsOn(q)' = ChannelsOn(q)
  /\ Borrowers(q)' = Borrowers(q)

LEMMA CountKept ==
  ASSUME CountInv, UNCHANGED references, \A q \in Ports : SameUsers(q)
  PROVE  CountInv'
  BY DEF CountInv, SameUsers, Users, DevicesOn

LEMMA CountChanges ==
  ASSUME CountInv, NEW p \in Ports,
         \A q \in Ports \ {p} : references'[q] = references[q] /\ SameUsers(q),
         references'[p] = Cardinality(DevicesOn(p)') + Cardinality(ChannelsOn(p)')
                            + Cardinality(Borrowers(p)')
  PROVE  CountInv'
  BY DEF CountInv, SameUsers, Users, DevicesOn

(* The same for the claims of an interface.                                 *)
LEMMA ClaimKept ==
  ASSUME ClaimInv, UNCHANGED <<claims, kernel>>,
         \A q \in Ports, j \in Interfaces : Claimants(q, j)' = Claimants(q, j)
  PROVE  ClaimInv'
  BY DEF ClaimInv

LEMMA ClaimAdds ==
  ASSUME PortRegistryAssumption, Inv, NEW p \in Ports, NEW i \in Interfaces, NEW c,
         MayClaim(p, i), Claim(p, i),
         c \notin Claimants(p, i), Claimants(p, i)' = Claimants(p, i) \cup {c},
         \A q \in Ports, j \in Interfaces :
           q # p \/ j # i => Claimants(q, j)' = Claimants(q, j)
  PROVE  ClaimInv'
  <1>1. Cardinality(Claimants(p, i)') = Cardinality(Claimants(p, i)) + 1
    BY ClaimantsFinite, FS_AddElement
  <1>2. claims'[p][i] = claims[p][i] + 1 /\ claims[p][i] \in Nat /\ kernel'[i] = p
    BY ClaimantsFinite DEF Claim, Inv, Types, ClaimInv
  <1>3. \A q \in Ports, j \in Interfaces :
          q # p \/ j # i => claims'[q][j] = claims[q][j]
    BY DEF Claim, Inv, Types
  <1>4. \A j \in Interfaces \ {i} : kernel'[j] = kernel[j]
    BY DEF Claim, Inv, Types
  <1>5. \A q \in Ports \ {p} : claims[q][i] = 0
    BY ClaimantsFinite, PortRegistryAssumption
       DEF PortRegistryAssumption, MayClaim, Inv, Types, ClaimInv
  <1>6. ASSUME NEW q \in Ports, NEW j \in Interfaces
        PROVE  claims'[q][j] = Cardinality(Claimants(q, j)')
    <2>1. CASE q = p /\ j = i
      BY <1>1, <1>2, <2>1 DEF Inv, ClaimInv
    <2>2. CASE q # p \/ j # i
      <3>1. Claimants(q, j)' = Claimants(q, j) /\ claims'[q][j] = claims[q][j]
        BY <1>3, <2>2
      <3> QED
        BY <3>1 DEF Inv, ClaimInv
    <2> QED
      BY <2>1, <2>2
  <1>7. \A q \in Ports, j \in Interfaces : kernel'[j] = q <=> claims'[q][j] # 0
    BY <1>2, <1>3, <1>4, <1>5 DEF Inv, ClaimInv
  <1> QED
    BY <1>6, <1>7 DEF ClaimInv

LEMMA ClaimRemoves ==
  ASSUME PortRegistryAssumption, Inv, NEW p \in Ports, NEW i \in Interfaces, NEW c,
         ReleaseInterface(p, i),
         c \in Claimants(p, i), Claimants(p, i)' = Claimants(p, i) \ {c},
         \A q \in Ports, j \in Interfaces :
           q # p \/ j # i => Claimants(q, j)' = Claimants(q, j)
  PROVE  ClaimInv'
  <1>1. Cardinality(Claimants(p, i)') = Cardinality(Claimants(p, i)) - 1
    BY ClaimantsFinite, FS_RemoveElement
  <1>2. claims'[p][i] = claims[p][i] - 1 /\ claims[p][i] \in Nat
    BY ClaimantsFinite DEF ReleaseInterface, Inv, Types, ClaimInv
  <1>3. kernel'[i] = IF claims[p][i] = 1 THEN None ELSE kernel[i]
    BY DEF ReleaseInterface, Inv, Types
  <1>4. \A q \in Ports, j \in Interfaces :
          q # p \/ j # i => claims'[q][j] = claims[q][j]
    BY DEF ReleaseInterface, Inv, Types
  <1>5. \A j \in Interfaces \ {i} : kernel'[j] = kernel[j]
    BY DEF ReleaseInterface, Inv, Types
  <1>6. claims[p][i] # 0
    <2>1. Claimants(p, i) # {} => Cardinality(Claimants(p, i)) # 0
      BY ClaimantsFinite, FS_EmptySet
    <2> QED
      BY <2>1 DEF Inv, ClaimInv
  <1>7. ASSUME NEW q \in Ports, NEW j \in Interfaces
        PROVE  claims'[q][j] = Cardinality(Claimants(q, j)')
    <2>1. CASE q = p /\ j = i
      BY <1>1, <1>2, <2>1 DEF Inv, ClaimInv
    <2>2. CASE q # p \/ j # i
      <3>1. Claimants(q, j)' = Claimants(q, j) /\ claims'[q][j] = claims[q][j]
        BY <1>4, <2>2
      <3> QED
        BY <3>1 DEF Inv, ClaimInv
    <2> QED
      BY <2>1, <2>2
  <1>8. \A q \in Ports, j \in Interfaces : kernel'[j] = q <=> claims'[q][j] # 0
    <2>1. kernel[i] = p
      BY <1>6 DEF Inv, ClaimInv
    <2> QED
      BY <1>2, <1>3, <1>4, <1>5, <2>1, PortRegistryAssumption
         DEF PortRegistryAssumption, Inv, ClaimInv
  <1> QED
    BY <1>7, <1>8 DEF ClaimInv

-----------------------------------------------------------------------------
(* Whether a Device uses a Port, and for what, is said by its record.       *)
SameDevice(e) ==
  /\ device'[e].port = device[e].port
  /\ device'[e].state \in Using <=> device[e].state \in Using

LEMMA DevicesKept ==
  ASSUME NEW q, \A e \in Devices : SameDevice(e)
  PROVE  DevicesOn(q)' = DevicesOn(q)
  BY DEF SameDevice, DevicesOn, Owns, Using

LEMMA DeviceSetsKept ==
  ASSUME NEW q, \A e \in Devices : SameDevice(e) /\ device'[e].channels = device[e].channels
  PROVE  /\ DevicesOn(q)' = DevicesOn(q)
         /\ ChannelsOn(q)' = ChannelsOn(q)
  <1>1. \A e \in Devices : Owns(e, q)' <=> Owns(e, q)
    BY DEF SameDevice, Owns, Using
  <1>2. \A c \in Devices \X Interfaces :
          c[2] \in device'[c[1]].channels <=> c[2] \in device[c[1]].channels
    OBVIOUS
  <1> QED
    BY <1>1, <1>2 DEF DevicesOn, ChannelsOn

LEMMA ClaimantsKept ==
  ASSUME NEW q, NEW j,
         \A e \in Devices : /\ SameDevice(e)
                            /\ device'[e].channels = device[e].channels
                            /\ device'[e].claim = device[e].claim
  PROVE  Claimants(q, j)' = Claimants(q, j)
  <1>1. \A e \in Devices : Owns(e, q)' <=> Owns(e, q)
    BY DEF SameDevice, Owns, Using
  <1>2. \A c \in Devices \X {"device", "channel"} :
          /\ device'[c[1]].claim = device[c[1]].claim
          /\ device'[c[1]].channels = device[c[1]].channels
    OBVIOUS
  <1> QED
    BY <1>1, <1>2 DEF Claimants

(* A step that touches no Device of which a Port may be used.               *)
LEMMA NoDeviceStep ==
  ASSUME Inv, UNCHANGED <<device, references, claims, kernel>>,
         \A q \in Ports : Borrowers(q)' = Borrowers(q)
  PROVE  CountInv' /\ ClaimInv'
  <1>1. \A q \in Ports : SameUsers(q)
    BY DEF SameUsers, DevicesOn, ChannelsOn, Owns
  <1>2. \A q \in Ports, j \in Interfaces : Claimants(q, j)' = Claimants(q, j)
    BY DEF Claimants, Owns
  <1> QED
    BY <1>1, <1>2, CountKept, ClaimKept DEF Inv

(* A thread borrows one more reference.                                     *)
LEMMA BorrowerComes ==
  ASSUME PortRegistryAssumption, Inv, NEW t \in Threads, NEW p \in Ports,
         UNCHANGED <<device, claims, kernel>>,
         pc[t] \notin {"probe", "release"},
         port' = [port EXCEPT ![t] = p],
         \E l \in {"probe", "release"} : pc' = [pc EXCEPT ![t] = l],
         references' = [references EXCEPT ![p] = @ + 1]
  PROVE  CountInv' /\ ClaimInv'
  <1>1. Borrowers(p)' = Borrowers(p) \cup {t} /\ t \notin Borrowers(p)
    BY DEF Borrowers, Inv, Types
  <1>2. \A q \in Ports \ {p} : Borrowers(q)' = Borrowers(q)
    BY DEF Borrowers, Inv, Types
  <1>3. \A q \in Ports : DevicesOn(q)' = DevicesOn(q) /\ ChannelsOn(q)' = ChannelsOn(q)
    BY DEF DevicesOn, ChannelsOn, Owns
  <1>4. \A q \in Ports, j \in Interfaces : Claimants(q, j)' = Claimants(q, j)
    BY DEF Claimants, Owns
  <1>5. Cardinality(Borrowers(p)') = Cardinality(Borrowers(p)) + 1
    BY <1>1, UsersFinite, FS_AddElement
  <1>6. \A q \in Ports \ {p} : references'[q] = references[q] /\ SameUsers(q)
    BY <1>2, <1>3 DEF SameUsers, Inv, Types
  <1>7. references'[p] = Cardinality(DevicesOn(p)') + Cardinality(ChannelsOn(p)')
                           + Cardinality(Borrowers(p)')
    <2>1. references'[p] = Users(p) + 1
      BY DEF Inv, Types, CountInv
    <2> QED
      BY <1>3, <1>5, <2>1, UsersFinite
  <1> QED
    BY <1>4, <1>6, <1>7, CountChanges, ClaimKept DEF Inv

(* A reference goes back to the Port.                                       *)
LEMMA BorrowerGoes ==
  ASSUME PortRegistryAssumption, Inv, NEW t \in Threads, Release(t)
  PROVE  CountInv' /\ ClaimInv'
  <1>0. PICK p \in Ports : p = port[t]
    BY DEF Release, Inv, ThreadInv
  <1>1. UNCHANGED <<device, claims, kernel>>
    BY DEF Release
  <1>2. Borrowers(p)' = Borrowers(p) \ {t} /\ t \in Borrowers(p)
    BY <1>0, PortRegistryAssumption
       DEF Borrowers, Inv, Types, Release, Resume, PortRegistryAssumption
  <1>3. \A q \in Ports \ {p} : Borrowers(q)' = Borrowers(q)
    BY <1>0, PortRegistryAssumption
       DEF Borrowers, Inv, Types, Release, Resume, PortRegistryAssumption
  <1>4. \A q \in Ports : DevicesOn(q)' = DevicesOn(q) /\ ChannelsOn(q)' = ChannelsOn(q)
    BY <1>1 DEF DevicesOn, ChannelsOn, Owns
  <1>5. \A q \in Ports, j \in Interfaces : Claimants(q, j)' = Claimants(q, j)
    BY <1>1 DEF Claimants, Owns
  <1>6. Cardinality(Borrowers(p)') = Cardinality(Borrowers(p)) - 1
    BY <1>2, UsersFinite, FS_RemoveElement
  <1>7. \A q \in Ports \ {p} : references'[q] = references[q] /\ SameUsers(q)
    BY <1>0, <1>1, <1>3, <1>4 DEF SameUsers, Inv, Types, Release
  <1>8. references'[p] = Cardinality(DevicesOn(p)') + Cardinality(ChannelsOn(p)')
                           + Cardinality(Borrowers(p)')
    <2>1. references'[p] = Users(p) - 1
      BY <1>0 DEF Inv, Types, CountInv, Release
    <2> QED
      BY <1>4, <1>6, <2>1, UsersFinite
  <1> QED
    BY <1>1, <1>5, <1>7, <1>8, CountChanges, ClaimKept DEF Inv

(* The reference of a Channel or a Device goes to the thread that will      *)
(* release it.                                                              *)
LEMMA FreeChannelCounts ==
  ASSUME PortRegistryAssumption, Inv, NEW t \in Threads, NEW d \in Devices, NEW i \in Interfaces,
         pc[t] \in {"idle", "destroy"}, device[d].state \in Using, i \in device[d].channels,
         FreeChannel(t, d, i)
  PROVE  CountInv' /\ ClaimInv'
  <1> DEFINE C == device[d].channels \ {i}
  <1>1. PICK p \in Ports : p = device[d].port /\ Owns(d, p)
    BY DEF Inv, DeviceInv, Owns, Using
  <1>2. C \in SUBSET Interfaces /\ device' = [device EXCEPT ![d].channels = C]
    BY DEF FreeChannel, Inv, Types, DeviceType
  <1>3. \A e \in Devices : /\ SameDevice(e)
                           /\ device'[e].claim = device[e].claim
                           /\ device'[e].channels = IF e = d THEN C ELSE device[e].channels
    BY <1>2, ChannelsChange, ZenonT(30) DEF Inv, SameDevice
  <1>4. \A e \in Devices, q \in Ports : Owns(e, q)' <=> Owns(e, q)
    BY <1>3 DEF SameDevice, Owns, Using
  <1>5. \A q \in Ports : DevicesOn(q)' = DevicesOn(q)
    BY <1>4 DEF DevicesOn
  <1>6. \A q \in Ports \ {p} : ~Owns(d, q)
    BY <1>1 DEF Owns
  <1>7. /\ ChannelsOn(p)' = ChannelsOn(p) \ {<<d, i>>} /\ <<d, i>> \in ChannelsOn(p)
        /\ \A q \in Ports \ {p} : ChannelsOn(q)' = ChannelsOn(q)
    BY <1>1, <1>3, <1>4, <1>6 DEF ChannelsOn
  <1>8. /\ Borrowers(p)' = Borrowers(p) \cup {t} /\ t \notin Borrowers(p)
        /\ \A q \in Ports \ {p} : Borrowers(q)' = Borrowers(q)
    BY <1>1 DEF Borrowers, Inv, Types, FreeChannel, GiveUp
  <1>9. CountInv'
    <2>a. Cardinality(ChannelsOn(p)') = Cardinality(ChannelsOn(p)) - 1
      <3>1. IsFiniteSet(ChannelsOn(p))
        BY UsersFinite
      <3>2. Cardinality(ChannelsOn(p) \ {<<d, i>>}) = Cardinality(ChannelsOn(p)) - 1
        BY <1>7, <3>1, FS_RemoveElement
      <3> QED
        BY <1>7, <3>2
    <2>b. Cardinality(Borrowers(p)') = Cardinality(Borrowers(p)) + 1
      BY <1>8, UsersFinite, FS_AddElement
    <2>2. references'[p] = Users(p)
      BY <1>1 DEF FreeChannel, Inv, CountInv
    <2>3. references'[p] = Cardinality(DevicesOn(p)') + Cardinality(ChannelsOn(p)')
                             + Cardinality(Borrowers(p)')
      BY <1>1, <1>5, <2>a, <2>b, <2>2, UsersFinite
    <2>4. \A q \in Ports \ {p} : references'[q] = references[q] /\ SameUsers(q)
      BY <1>5, <1>7, <1>8 DEF SameUsers, FreeChannel
    <2> QED
      BY <1>1, <2>3, <2>4, CountChanges DEF Inv
  <1>10. ClaimInv'
    <2>1. /\ <<d, "channel">> \in Claimants(p, i)
          /\ Claimants(p, i)' = Claimants(p, i) \ {<<d, "channel">>}
      BY <1>1, <1>3, <1>4 DEF Claimants
    <2>2. \A q \in Ports, j \in Interfaces :
            q # p \/ j # i => Claimants(q, j)' = Claimants(q, j)
      BY <1>3, <1>4, <1>6 DEF Claimants
    <2> QED
      BY <1>1, <2>1, <2>2, ClaimRemoves DEF FreeChannel
  <1> QED
    BY <1>9, <1>10

LEMMA DestroyDeviceCounts ==
  ASSUME PortRegistryAssumption, Inv, NEW t \in Threads, DestroyDevice(t)
  PROVE  CountInv' /\ ClaimInv'
  <1>a. PICK d \in Devices : d = dying[t] /\ device[d].state = "closing"
    BY DEF DestroyDevice, Inv, Types, ThreadInv
  <1>b. PICK p \in Ports : p = device[d].port /\ Owns(d, p)
    BY <1>a DEF Inv, DeviceInv, Owns, Using
  <1>c. PICK i \in Interfaces \cup {None} : i = device[d].claim
    BY DEF Inv, Types, DeviceType
  <1>1. d = dying[t] /\ p = device[d].port /\ Owns(d, p) /\ i = device[d].claim
    BY <1>a, <1>b, <1>c
  <1>2. /\ device' = [device EXCEPT ![d].state = "freed"]
        /\ device[d].channels = {}
    BY <1>1 DEF DestroyDevice
  <1>3. \A e \in Devices : /\ device'[e].port = device[e].port
                           /\ device'[e].claim = device[e].claim
                           /\ device'[e].channels = device[e].channels
                           /\ device'[e].state = IF e = d THEN "freed" ELSE device[e].state
    <2>1. "freed" \in Using \cup {"unopened", "freed"}
      OBVIOUS
    <2> QED
      BY <1>2, <2>1, StateChanges DEF Inv
  <1>4. /\ \A q \in Ports : ~Owns(d, q)'
        /\ \A e \in Devices \ {d}, q \in Ports : Owns(e, q)' <=> Owns(e, q)
        /\ \A q \in Ports \ {p} : ~Owns(d, q)
    BY <1>1, <1>3 DEF Owns, Using
  <1>5. /\ DevicesOn(p)' = DevicesOn(p) \ {d} /\ d \in DevicesOn(p)
        /\ \A q \in Ports \ {p} : DevicesOn(q)' = DevicesOn(q)
    BY <1>1, <1>4 DEF DevicesOn
  <1>6. \A q \in Ports : ChannelsOn(q)' = ChannelsOn(q)
    BY <1>2, <1>3, <1>4 DEF ChannelsOn
  <1>7. /\ Borrowers(p)' = Borrowers(p) \cup {t} /\ t \notin Borrowers(p)
        /\ \A q \in Ports \ {p} : Borrowers(q)' = Borrowers(q)
    BY <1>1 DEF Borrowers, Inv, Types, DestroyDevice, GiveUp
  <1>8. CountInv'
    <2>a. Cardinality(DevicesOn(p)') = Cardinality(DevicesOn(p)) - 1
      BY <1>5, UsersFinite, FS_RemoveElement
    <2>b. Cardinality(Borrowers(p)') = Cardinality(Borrowers(p)) + 1
      BY <1>7, UsersFinite, FS_AddElement
    <2>2. references'[p] = Users(p)
      BY <1>1 DEF DestroyDevice, Inv, CountInv
    <2>3. references'[p] = Cardinality(DevicesOn(p)') + Cardinality(ChannelsOn(p)')
                             + Cardinality(Borrowers(p)')
      BY <1>1, <1>6, <2>a, <2>b, <2>2, UsersFinite
    <2>4. \A q \in Ports \ {p} : references'[q] = references[q] /\ SameUsers(q)
      BY <1>5, <1>6, <1>7 DEF SameUsers, DestroyDevice
    <2> QED
      BY <1>1, <2>3, <2>4, CountChanges DEF Inv
  <1>9. CASE i = None
    <2>1. UNCHANGED <<claims, kernel>>
      BY <1>1, <1>9 DEF DestroyDevice
    <2>2. ASSUME NEW q \in Ports, NEW j \in Interfaces
          PROVE  Claimants(q, j)' = Claimants(q, j)
      <3>1. \A c \in Devices \X {"device", "channel"} : c[1] = d =>
              c \notin Claimants(q, j) /\ c \notin Claimants(q, j)'
        BY <1>1, <1>2, <1>4, <1>9, PortRegistryAssumption DEF Claimants, PortRegistryAssumption
      <3>2. \A c \in Devices \X {"device", "channel"} : c[1] # d =>
              (c \in Claimants(q, j)' <=> c \in Claimants(q, j))
        BY <1>3, <1>4 DEF Claimants
      <3>3. /\ Claimants(q, j) \subseteq Devices \X {"device", "channel"}
            /\ Claimants(q, j)' \subseteq Devices \X {"device", "channel"}
        BY DEF Claimants
      <3> QED
        BY <3>1, <3>2, <3>3
    <2> QED
      BY <1>8, <2>1, <2>2, ClaimKept DEF Inv
  <1>10. CASE i # None
    <2>1. i \in Interfaces /\ ReleaseInterface(p, i)
      BY <1>1, <1>10 DEF DestroyDevice
    <2>2. /\ <<d, "device">> \in Claimants(p, i)
          /\ Claimants(p, i)' = Claimants(p, i) \ {<<d, "device">>}
      BY <1>1, <1>2, <1>3, <1>4 DEF Claimants
    <2>3. ASSUME NEW q \in Ports, NEW j \in Interfaces, q # p \/ j # i
          PROVE  Claimants(q, j)' = Claimants(q, j)
      <3>1. \A c \in Devices \X {"device", "channel"} : c[1] = d =>
              c \notin Claimants(q, j) /\ c \notin Claimants(q, j)'
        BY <1>1, <1>2, <1>4, <2>3 DEF Claimants
      <3>2. \A c \in Devices \X {"device", "channel"} : c[1] # d =>
              (c \in Claimants(q, j)' <=> c \in Claimants(q, j))
        BY <1>3, <1>4 DEF Claimants
      <3>3. /\ Claimants(q, j) \subseteq Devices \X {"device", "channel"}
            /\ Claimants(q, j)' \subseteq Devices \X {"device", "channel"}
        BY DEF Claimants
      <3> QED
        BY <3>1, <3>2, <3>3
    <2> QED
      BY <1>1, <1>8, <2>1, <2>2, <2>3, ClaimRemoves
  <1> QED
    BY <1>9, <1>10

(* A Channel claims its interface and retains the Port.                     *)
LEMMA OpenChannelCounts ==
  ASSUME PortRegistryAssumption, Inv, NEW d \in Devices, NEW i \in Interfaces, OpenChannel(d, i)
  PROVE  CountInv' /\ ClaimInv'
  <1> DEFINE C == device[d].channels \cup {i}
  <1>1. PICK p \in Ports : p = device[d].port /\ Owns(d, p)
    BY DEF OpenChannel, Inv, DeviceInv, Owns, Using
  <1>2. C \in SUBSET Interfaces /\ device' = [device EXCEPT ![d].channels = C]
    BY DEF OpenChannel, Inv, Types, DeviceType
  <1>3. \A e \in Devices : /\ SameDevice(e)
                           /\ device'[e].claim = device[e].claim
                           /\ device'[e].channels = IF e = d THEN C ELSE device[e].channels
    BY <1>2, ChannelsChange DEF Inv, SameDevice
  <1>4. \A e \in Devices, q \in Ports : Owns(e, q)' <=> Owns(e, q)
    BY <1>3 DEF SameDevice, Owns, Using
  <1>5. \A q \in Ports : DevicesOn(q)' = DevicesOn(q) /\ Borrowers(q)' = Borrowers(q)
    BY <1>4 DEF DevicesOn, Borrowers, OpenChannel
  <1>6. \A q \in Ports \ {p} : ~Owns(d, q)
    BY <1>1 DEF Owns
  <1>7. /\ ChannelsOn(p)' = ChannelsOn(p) \cup {<<d, i>>} /\ <<d, i>> \notin ChannelsOn(p)
        /\ \A q \in Ports \ {p} : ChannelsOn(q)' = ChannelsOn(q)
    BY <1>1, <1>3, <1>4, <1>6 DEF ChannelsOn, OpenChannel
  <1>8. CountInv'
    <2>1. Cardinality(ChannelsOn(p)') = Cardinality(ChannelsOn(p)) + 1
      BY <1>7, UsersFinite, FS_AddElement
    <2>2. references'[p] = Users(p) + 1
      BY <1>1 DEF OpenChannel, Inv, Types, CountInv
    <2>3. references'[p] = Cardinality(DevicesOn(p)') + Cardinality(ChannelsOn(p)')
                             + Cardinality(Borrowers(p)')
      BY <1>1, <1>5, <2>1, <2>2, UsersFinite
    <2>4. \A q \in Ports \ {p} : references'[q] = references[q] /\ SameUsers(q)
      BY <1>1, <1>5, <1>7 DEF SameUsers, OpenChannel, Inv, Types
    <2> QED
      BY <1>1, <2>3, <2>4, CountChanges DEF Inv
  <1>9. ClaimInv'
    <2>1. /\ <<d, "channel">> \notin Claimants(p, i)
          /\ Claimants(p, i)' = Claimants(p, i) \cup {<<d, "channel">>}
      BY <1>1, <1>3, <1>4 DEF Claimants, OpenChannel
    <2>2. \A q \in Ports, j \in Interfaces :
            q # p \/ j # i => Claimants(q, j)' = Claimants(q, j)
      BY <1>3, <1>4, <1>6 DEF Claimants
    <2> QED
      BY <1>1, <2>1, <2>2, ClaimAdds DEF OpenChannel
  <1> QED
    BY <1>8, <1>9


(* A Device is opened on a new Port, or the Port is given up again.         *)
LEMMA OpenDeviceCounts ==
  ASSUME PortRegistryAssumption, Inv, NEW d \in Devices, NEW i \in Interfaces \cup {None},
         OpenDevice(d, i)
  PROVE  CountInv' /\ ClaimInv'
  <1>1. PICK p \in Unused :
          /\ Acquire(p)
          /\ IF i # None => MayClaim(p, i)
             THEN /\ device' = [device EXCEPT ![d] = [state |-> "open", port |-> p,
                                                      claim |-> i, channels |-> {}]]
                  /\ IF i = None THEN UNCHANGED <<claims, kernel>> ELSE Claim(p, i)
                  /\ UNCHANGED <<pc, port>>
             ELSE /\ GiveUp("app", p)
                  /\ UNCHANGED <<claims, kernel, device>>
    BY DEF OpenDevice
  <1>2. /\ p \in Ports /\ references[p] = 0
        /\ references' = [references EXCEPT ![p] = @ + 1]
    <2>1. p \in Ports /\ p \notin handles
      BY DEF Unused
    <2>2. references[p] = 0
      BY <2>1 DEF Inv, HandleInv
    <2> QED
      BY <1>1, <2>1, <2>2 DEF Acquire, Inv, Types
  <1>3. CASE ~(i # None => MayClaim(p, i))
    BY <1>1, <1>2, <1>3, BorrowerComes DEF GiveUp, OpenDevice, Threads
  <1>4. CASE i # None => MayClaim(p, i)
    <2>1. /\ \A e \in Devices \ {d} : device'[e] = device[e]
          /\ device'[d].state = "open" /\ device'[d].port = p
          /\ device'[d].claim = i /\ device'[d].channels = {}
      BY <1>1, <1>2, <1>4, DeviceOpens DEF Inv
    <2>2. /\ \A q \in Ports : ~Owns(d, q)
          /\ Owns(d, p)' /\ \A q \in Ports \ {p} : ~Owns(d, q)'
          /\ \A e \in Devices \ {d}, q \in Ports : Owns(e, q)' <=> Owns(e, q)
      BY <2>1 DEF Owns, OpenDevice, Using
    <2>3. /\ DevicesOn(p)' = DevicesOn(p) \cup {d} /\ d \notin DevicesOn(p)
          /\ \A q \in Ports \ {p} : DevicesOn(q)' = DevicesOn(q)
      BY <1>2, <2>2 DEF DevicesOn
    <2>4. \A q \in Ports : ChannelsOn(q)' = ChannelsOn(q)
      BY <2>1, <2>2 DEF ChannelsOn
    <2>5. \A q \in Ports : Borrowers(q)' = Borrowers(q)
      BY <1>1, <1>4 DEF Borrowers
    <2>6. CountInv'
      <3>1. Cardinality(DevicesOn(p)') = Cardinality(DevicesOn(p)) + 1
        BY <2>3, UsersFinite, FS_AddElement
      <3>2. references'[p] = Users(p) + 1
        BY <1>2 DEF Inv, Types, CountInv
      <3>3. references'[p] = Cardinality(DevicesOn(p)') + Cardinality(ChannelsOn(p)')
                               + Cardinality(Borrowers(p)')
        BY <1>2, <2>4, <2>5, <3>1, <3>2, UsersFinite
      <3>4. \A q \in Ports \ {p} : references'[q] = references[q] /\ SameUsers(q)
        BY <1>2, <2>3, <2>4, <2>5 DEF SameUsers, Inv, Types
      <3> QED
        BY <1>2, <3>3, <3>4, CountChanges DEF Inv
    <2>7. \A q \in Ports, j \in Interfaces, c \in Devices \X {"device", "channel"} :
            c[1] # d => (c \in Claimants(q, j)' <=> c \in Claimants(q, j))
      BY <2>1, <2>2 DEF Claimants
    <2>8. \A q \in Ports, j \in Interfaces, c \in Devices \X {"device", "channel"} :
            c[1] = d => /\ c \notin Claimants(q, j)
                        /\ c \in Claimants(q, j)' <=> q = p /\ j = i /\ c[2] = "device"
      BY <2>1, <2>2 DEF Claimants
    <2>9. \A q \in Ports, j \in Interfaces :
            /\ Claimants(q, j) \subseteq Devices \X {"device", "channel"}
            /\ Claimants(q, j)' \subseteq Devices \X {"device", "channel"}
      BY DEF Claimants
    <2>10. ASSUME NEW q \in Ports, NEW j \in Interfaces, q # p \/ j # i
           PROVE  Claimants(q, j)' = Claimants(q, j)
      <3>1. \A c \in Devices \X {"device", "channel"} :
              c \in Claimants(q, j)' <=> c \in Claimants(q, j)
        BY <2>7, <2>8, <2>10
      <3> QED
        BY <2>9, <3>1
    <2>11. CASE i = None
      BY <1>1, <2>6, <2>10, <2>11, ClaimKept, PortRegistryAssumption
         DEF Inv, PortRegistryAssumption
    <2>12. CASE i # None
      <3>1. /\ <<d, "device">> \notin Claimants(p, i)
            /\ Claimants(p, i)' = Claimants(p, i) \cup {<<d, "device">>}
        BY <1>2, <2>7, <2>8, <2>9, <2>12
      <3> QED
        BY <1>1, <1>2, <1>4, <2>6, <2>10, <2>12, <3>1, ClaimAdds
    <2> QED
      BY <2>11, <2>12
  <1> QED
    BY <1>3, <1>4

(* A Port that is taken down claims nothing any more.                       *)
LEMMA CloseHandleCounts ==
  ASSUME PortRegistryAssumption, Inv, NEW t \in Threads, CloseHandle(t)
  PROVE  CountInv' /\ ClaimInv'
  <1>1. PICK p \in Ports : p = port[t] /\ references[p] = 0
    BY DEF CloseHandle, Inv, ThreadInv, HandleInv
  <1>2. \A i \in Interfaces : claims[p][i] = 0
    <2> SUFFICES ASSUME NEW i \in Interfaces PROVE claims[p][i] = 0
      OBVIOUS
    <2>1. Claimants(p, i) = {}
      BY <1>1, UsersCounted DEF Claimants
    <2>2. Cardinality(Claimants(p, i)) = 0
      BY <2>1, FS_EmptySet
    <2> QED
      BY <2>2 DEF Inv, ClaimInv
  <1>3. UNCHANGED <<claims, kernel>>
    BY <1>1, <1>2 DEF CloseHandle, Inv, Types
  <1>4. \A q \in Ports : Borrowers(q)' = Borrowers(q)
    BY <1>1, PortRegistryAssumption
       DEF Borrowers, CloseHandle, Resume, Inv, Types, PortRegistryAssumption
  <1> QED
    BY <1>3, <1>4, NoDeviceStep DEF CloseHandle

-----------------------------------------------------------------------------
(* The types, and what the threads are at, step by step.                    *)
TypesAndThreads == Types /\ DeviceInv /\ ThreadInv

LEMMA OpenDeviceTypes ==
  ASSUME PortRegistryAssumption, Inv, NEW d \in Devices, NEW i \in Interfaces \cup {None},
         OpenDevice(d, i)
  PROVE  TypesAndThreads'
  <1>1. PICK p \in Unused :
          /\ Acquire(p)
          /\ \/ /\ device' = [device EXCEPT ![d] = [state |-> "open", port |-> p,
                                                    claim |-> i, channels |-> {}]]
                /\ UNCHANGED <<claims, kernel>> \/ (i \in Interfaces /\ Claim(p, i))
                /\ UNCHANGED <<pc, port>>
             \/ /\ GiveUp("app", p)
                /\ UNCHANGED <<claims, kernel, device>>
    BY DEF OpenDevice
  <1>2. p \in Ports /\ pc["app"] = "idle" /\ device[d].state = "unopened"
        /\ UNCHANGED <<dying, probe>>
    BY DEF Unused, OpenDevice
  <1>3. /\ references' \in [Ports -> Int] /\ ports' \subseteq Ports /\ handles' \subseteq Ports
        /\ claims' \in [Ports -> [Interfaces -> Int]]
        /\ kernel' \in [Interfaces -> Ports \cup {None}]
    <2>1. references' \in [Ports -> Int] /\ ports' \subseteq Ports /\ handles' \subseteq Ports
      BY <1>1, <1>2 DEF Acquire, Inv, Types
    <2>2. CASE UNCHANGED <<claims, kernel>>
      BY <2>1, <2>2 DEF Inv, Types
    <2>3. CASE i \in Interfaces /\ Claim(p, i)
      BY <1>2, <2>1, <2>3 DEF Claim, Inv, Types
    <2> QED
      BY <1>1, <2>2, <2>3
  <1>4. CASE GiveUp("app", p) /\ UNCHANGED <<claims, kernel, device>>
    BY <1>2, <1>3, <1>4, PortRegistryAssumption
       DEF TypesAndThreads, Inv, Types, DeviceInv, ThreadInv, GiveUp, Threads,
           PortRegistryAssumption
  <1>5. CASE /\ device' = [device EXCEPT ![d] = [state |-> "open", port |-> p,
                                                 claim |-> i, channels |-> {}]]
             /\ UNCHANGED <<pc, port>>
    <2>1. /\ device' \in [Devices -> DeviceType]
          /\ \A e \in Devices \ {d} : device'[e] = device[e]
          /\ device'[d].port = p
      BY <1>2, <1>5, DeviceOpens DEF Inv
    <2>2. Types'
      BY <1>2, <1>3, <1>5, <2>1 DEF Inv, Types
    <2>3. DeviceInv'
      BY <1>2, <2>1 DEF Inv, DeviceInv
    <2>4. \A t \in Threads : dying[t] # None => dying[t] \in Devices \ {d}
      BY <1>2 DEF Inv, Types, ThreadInv
    <2>5. ThreadInv'
      BY <1>2, <1>5, <2>1, <2>4 DEF Inv, ThreadInv
    <2> QED
      BY <2>2, <2>3, <2>5 DEF TypesAndThreads
  <1> QED
    BY <1>1, <1>4, <1>5

LEMMA OpenChannelTypes ==
  ASSUME Inv, NEW d \in Devices, NEW i \in Interfaces, OpenChannel(d, i)
  PROVE  TypesAndThreads'
  <1> DEFINE C == device[d].channels \cup {i}
  <1>1. C \in SUBSET Interfaces /\ device' = [device EXCEPT ![d].channels = C]
    BY DEF OpenChannel, Inv, Types, DeviceType
  <1>2. /\ device' \in [Devices -> DeviceType]
        /\ \A e \in Devices : /\ device'[e].port = device[e].port
                              /\ device'[e].state = device[e].state
    BY <1>1, ChannelsChange DEF Inv
  <1>3. Types'
    BY <1>2 DEF Inv, Types, DeviceInv, Using, OpenChannel, Claim
  <1>4. DeviceInv' /\ ThreadInv'
    BY <1>2 DEF Inv, Types, DeviceInv, ThreadInv, OpenChannel
  <1> QED
    BY <1>3, <1>4 DEF TypesAndThreads

LEMMA FreeChannelTypes ==
  ASSUME PortRegistryAssumption, Inv, NEW t \in Threads, NEW d \in Devices, NEW i \in Interfaces,
         (t = "app" /\ pc[t] = "idle") \/ pc[t] = "destroy",
         device[d].state \in Using, FreeChannel(t, d, i)
  PROVE  TypesAndThreads'
  <1> DEFINE C == device[d].channels \ {i}
  <1>1. C \in SUBSET Interfaces /\ device' = [device EXCEPT ![d].channels = C]
    BY DEF FreeChannel, Inv, Types, DeviceType
  <1>2. /\ device' \in [Devices -> DeviceType]
        /\ \A e \in Devices : /\ device'[e].port = device[e].port
                              /\ device'[e].state = device[e].state
    BY <1>1, ChannelsChange DEF Inv
  <1>3. PICK p \in Ports : p = device[d].port
    BY DEF Inv, DeviceInv
  <1>4. Types'
    BY <1>2, <1>3 DEF Inv, Types, FreeChannel, ReleaseInterface, GiveUp
  <1>5. DeviceInv'
    BY <1>2 DEF Inv, DeviceInv
  <1>6. ThreadInv'
    BY <1>2, <1>3, PortRegistryAssumption
       DEF Inv, Types, ThreadInv, FreeChannel, GiveUp, PortRegistryAssumption, Threads
  <1> QED
    BY <1>4, <1>5, <1>6 DEF TypesAndThreads

LEMMA DestroyDeviceTypes ==
  ASSUME PortRegistryAssumption, Inv, NEW t \in Threads, DestroyDevice(t)
  PROVE  TypesAndThreads'
  <1>1. PICK d \in Devices : d = dying[t] /\ device[d].state = "closing"
    BY DEF DestroyDevice, Inv, Types, ThreadInv
  <1>2. PICK p \in Ports : p = device[d].port
    BY <1>1 DEF Inv, DeviceInv, Using
  <1>3. PICK i \in Interfaces \cup {None} : i = device[d].claim
    BY DEF Inv, Types, DeviceType
  <1>4. /\ device' \in [Devices -> DeviceType]
        /\ \A e \in Devices : /\ device'[e].port = device[e].port
                              /\ device'[e].state = IF e = d THEN "freed" ELSE device[e].state
    <2>1. "freed" \in Using \cup {"unopened", "freed"}
      OBVIOUS
    <2>2. device' = [device EXCEPT ![d].state = "freed"]
      BY <1>1 DEF DestroyDevice
    <2> QED
      BY <2>1, <2>2, StateChanges DEF Inv
  <1>5. Types'
    <2>1. /\ claims' \in [Ports -> [Interfaces -> Int]]
          /\ kernel' \in [Interfaces -> Ports \cup {None}]
      <3>1. CASE i = None
        BY <1>1, <1>3, <3>1 DEF DestroyDevice, Inv, Types
      <3>2. CASE i \in Interfaces
        <4>1. ReleaseInterface(p, i)
          BY <1>1, <1>2, <1>3, <3>2, PortRegistryAssumption
             DEF DestroyDevice, PortRegistryAssumption
        <4> QED
          BY <3>2, <4>1 DEF ReleaseInterface, Inv, Types
      <3> QED
        BY <3>1, <3>2
    <2> QED
      BY <1>1, <1>2, <1>4, <2>1 DEF Inv, Types, DestroyDevice, GiveUp
  <1>6. DeviceInv'
    BY <1>4 DEF Inv, DeviceInv, Using
  <1>7. ThreadInv'
    BY <1>1, <1>2, <1>4, PortRegistryAssumption
       DEF Inv, Types, ThreadInv, DestroyDevice, GiveUp, PortRegistryAssumption, Threads
  <1> QED
    BY <1>5, <1>6, <1>7 DEF TypesAndThreads

LEMMA CloseDeviceTypes ==
  ASSUME PortRegistryAssumption, Inv, NEW d \in Devices, CloseDevice(d) \/ ReapDevice(d)
  PROVE  TypesAndThreads'
  <1>1. PICK s \in {"closing", "parked"} : /\ device' = [device EXCEPT ![d].state = s]
                                           /\ s = "parked" => UNCHANGED <<dying, pc>>
    BY DEF CloseDevice, ReapDevice
  <1>2. s \in Using \cup {"unopened", "freed"} /\ device[d].state \in {"open", "parked"}
    BY DEF Using, CloseDevice, ReapDevice
  <1>3. /\ device' \in [Devices -> DeviceType]
        /\ \A e \in Devices : /\ device'[e].port = device[e].port
                              /\ device'[e].state = IF e = d THEN s ELSE device[e].state
    BY <1>1, <1>2, StateChanges, ZenonT(30) DEF Inv
  <1>4. Types'
    <2>1. /\ dying' \in [Threads -> Devices \cup {None}]
          /\ pc' \in [Threads -> {"idle", "probe", "destroy", "release", "unregister", "close"}]
      BY DEF Inv, Types, CloseDevice, ReapDevice
    <2>2. UNCHANGED <<references, ports, handles, claims, kernel, port, probe>>
      BY DEF CloseDevice, ReapDevice
    <2> QED
      BY <1>3, <2>1, <2>2 DEF Inv, Types
  <1>5. DeviceInv'
    BY <1>2, <1>3 DEF Inv, DeviceInv, Using
  <1>6. \A t \in Threads : dying[t] # d
    BY <1>2, PortRegistryAssumption DEF Inv, ThreadInv, PortRegistryAssumption
  <1>7. ThreadInv'
    BY <1>1, <1>2, <1>3, <1>6, PortRegistryAssumption
       DEF Inv, Types, ThreadInv, CloseDevice, ReapDevice, PortRegistryAssumption, Threads
  <1> QED
    BY <1>4, <1>5, <1>7 DEF TypesAndThreads

LEMMA BorrowTypes ==
  ASSUME PortRegistryAssumption, Inv, Borrow \/ OpenForProbe \/ ProbeEnds
  PROVE  TypesAndThreads'
  <1>1. Types'
    <2>1. /\ references' \in [Ports -> Int] /\ ports' \subseteq Ports /\ handles' \subseteq Ports
          /\ port' \in [Threads -> Ports \cup {None}]
      BY DEF Borrow, OpenForProbe, ProbeEnds, Acquire, Unused, Inv, Types
    <2>2. probe' \in BOOLEAN
      BY DEF Borrow, OpenForProbe, ProbeEnds, Inv, Types
    <2> QED
      BY <2>1, <2>2 DEF Borrow, OpenForProbe, ProbeEnds, Inv, Types, Threads
  <1>2. DeviceInv' /\ ThreadInv'
    BY PortRegistryAssumption
       DEF Borrow, OpenForProbe, ProbeEnds, TryRetain, Unused, Inv, Types, DeviceInv, ThreadInv,
           Threads, PortRegistryAssumption
  <1> QED
    BY <1>1, <1>2 DEF TypesAndThreads

LEMMA ReleaseTypes ==
  ASSUME PortRegistryAssumption, Inv, NEW t \in Threads,
         Release(t) \/ UnregisterPort(t) \/ CloseHandle(t)
  PROVE  TypesAndThreads'
  <1>1. Types'
    <2>1. CASE Release(t)
      <3>1. references' \in [Ports -> Int]
        BY <2>1 DEF Release, Inv, Types, ThreadInv
      <3>2. pc' \in [Threads -> {"idle", "probe", "destroy", "release", "unregister", "close"}]
        BY <2>1 DEF Release, Resume, Inv, Types
      <3>3. port' \in [Threads -> Ports \cup {None}]
        BY <2>1 DEF Release, Inv, Types
      <3> QED
        BY <2>1, <3>1, <3>2, <3>3 DEF Release, Inv, Types
    <2>2. CASE UnregisterPort(t)
      BY <2>2 DEF UnregisterPort, Inv, Types
    <2>3. CASE CloseHandle(t)
      BY <2>3 DEF CloseHandle, Resume, Inv, Types, ThreadInv
    <2> QED
      BY <2>1, <2>2, <2>3
  <1>2. DeviceInv' /\ ThreadInv'
    BY PortRegistryAssumption
       DEF Release, UnregisterPort, CloseHandle, Resume, Inv, Types, DeviceInv, ThreadInv,
           Threads, PortRegistryAssumption
  <1> QED
    BY <1>1, <1>2 DEF TypesAndThreads

-----------------------------------------------------------------------------
LEMMA NextInv ==
  ASSUME PortRegistryAssumption, Inv, [Next]_vars
  PROVE  Inv'
  <1> USE DEF PortRegistryAssumption
  <1>1. ASSUME NEW d \in Devices, NEW i \in Interfaces \cup {None}, OpenDevice(d, i)
        PROVE  Inv'
    <2>1. HandleInv'
      BY <1>1 DEF OpenDevice, Unused, Acquire, GiveUp, Inv, Types, HandleInv, Threads
    <2> QED
      BY <1>1, <2>1, OpenDeviceTypes, OpenDeviceCounts DEF Inv, TypesAndThreads
  <1>2. ASSUME NEW d \in Devices, NEW i \in Interfaces, OpenChannel(d, i) PROVE Inv'
    <2>1. HandleInv'
      BY <1>2, UsersCounted
         DEF OpenChannel, Inv, Types, DeviceInv, HandleInv, ThreadInv, Owns, Using
    <2> QED
      BY <1>2, <2>1, OpenChannelTypes, OpenChannelCounts DEF Inv, TypesAndThreads
  <1>3. ASSUME NEW d \in Devices, NEW i \in Interfaces, CloseChannel(d, i) PROVE Inv'
    <2>1. HandleInv'
      BY <1>3 DEF CloseChannel, FreeChannel, GiveUp, Inv, Types, HandleInv, Threads
    <2>2. /\ "app" \in Threads /\ pc["app"] = "idle" /\ i \in device[d].channels
          /\ device[d].state \in Using /\ FreeChannel("app", d, i)
      BY <1>3 DEF CloseChannel, Threads, Using
    <2> QED
      BY <2>1, <2>2, FreeChannelTypes, FreeChannelCounts DEF Inv, TypesAndThreads
  <1>4. ASSUME NEW t \in Threads, DestroyChannel(t) PROVE Inv'
    <2>1. PICK d \in Devices : d = dying[t] /\ device[d].state \in Using
      BY <1>4 DEF DestroyChannel, Inv, Types, ThreadInv, Using
    <2>2. PICK i \in Interfaces : i \in device[d].channels /\ FreeChannel(t, d, i)
      BY <1>4, <2>1 DEF DestroyChannel, Inv, Types, DeviceType
    <2>3. pc[t] = "destroy"
      BY <1>4 DEF DestroyChannel
    <2>4. HandleInv'
      BY <2>2, <2>3 DEF FreeChannel, GiveUp, Inv, Types, HandleInv, Threads
    <2> QED
      BY <2>1, <2>2, <2>3, <2>4, FreeChannelTypes, FreeChannelCounts DEF Inv, TypesAndThreads
  <1>5. ASSUME NEW t \in Threads, DestroyDevice(t) PROVE Inv'
    <2>1. HandleInv'
      BY <1>5 DEF DestroyDevice, GiveUp, Inv, Types, HandleInv, Threads
    <2> QED
      BY <1>5, <2>1, DestroyDeviceTypes, DestroyDeviceCounts DEF Inv, TypesAndThreads
  <1>6. ASSUME NEW d \in Devices, CloseDevice(d) \/ ReapDevice(d) PROVE Inv'
    <2>1. PICK s \in {"closing", "parked"} : device' = [device EXCEPT ![d].state = s]
      BY <1>6 DEF CloseDevice, ReapDevice
    <2>2. s \in Using \cup {"unopened", "freed"} /\ device[d].state \in Using
      BY <1>6 DEF Using, CloseDevice, ReapDevice
    <2>3. \A e \in Devices : /\ SameDevice(e)
                             /\ device'[e].channels = device[e].channels
                             /\ device'[e].claim = device[e].claim
      BY <2>1, <2>2, StateChanges DEF Inv, SameDevice, Using
    <2>4. \A q \in Ports : Borrowers(q)' = Borrowers(q)
      BY <1>6 DEF CloseDevice, ReapDevice, Borrowers, Inv, Types
    <2>5. \A q \in Ports : SameUsers(q)
      BY <2>3, <2>4, DeviceSetsKept DEF SameUsers
    <2>6. \A q \in Ports, j \in Interfaces : Claimants(q, j)' = Claimants(q, j)
      BY <2>3, ClaimantsKept
    <2>7. CountInv' /\ ClaimInv'
      BY <1>6, <2>5, <2>6, CountKept, ClaimKept DEF CloseDevice, ReapDevice, Inv
    <2>8. HandleInv'
      BY <1>6 DEF CloseDevice, ReapDevice, Inv, Types, HandleInv, Threads
    <2> QED
      BY <1>6, <2>7, <2>8, CloseDeviceTypes DEF Inv, TypesAndThreads
  <1>7. CASE Borrow \/ OpenForProbe \/ ProbeEnds
    <2>1. HandleInv'
      BY <1>7 DEF Borrow, OpenForProbe, ProbeEnds, TryRetain, Unused, Acquire, Inv, Types,
                  HandleInv, Threads
    <2>2. ASSUME ProbeEnds \/ (OpenForProbe /\ probe')
          PROVE  CountInv' /\ ClaimInv'
      <3>1. UNCHANGED <<device, references, claims, kernel>>
        BY <2>2 DEF ProbeEnds, OpenForProbe, Inv, ThreadInv
      <3>2. \A q \in Ports : Borrowers(q)' = Borrowers(q)
        BY <2>2 DEF ProbeEnds, OpenForProbe, Borrowers, Inv, Types, ThreadInv, Threads
      <3> QED
        BY <3>1, <3>2, NoDeviceStep
    <2>3. ASSUME Borrow \/ (OpenForProbe /\ ~probe')
          PROVE  CountInv' /\ ClaimInv'
      <3>1. PICK p \in Ports : /\ port' = [port EXCEPT !["app"] = p]
                               /\ references' = [references EXCEPT ![p] = @ + 1]
        <4>1. CASE Borrow
          BY <4>1 DEF Borrow
        <4>2. CASE OpenForProbe /\ ~probe'
          <5>1. PICK p \in Unused : Acquire(p) /\ port' = [port EXCEPT !["app"] = p]
            BY <4>2 DEF OpenForProbe
          <5>2. p \in Ports /\ references[p] = 0
            BY DEF Unused, Inv, HandleInv
          <5>3. references' = [references EXCEPT ![p] = @ + 1]
            BY <5>1, <5>2 DEF Acquire, Inv, Types
          <5> QED
            BY <5>1, <5>2, <5>3
        <4> QED
          BY <2>3, <4>1, <4>2
      <3>2. /\ "app" \in Threads /\ UNCHANGED <<device, claims, kernel>>
            /\ pc["app"] \notin {"probe", "release"} /\ pc' = [pc EXCEPT !["app"] = "probe"]
        BY <2>3 DEF Borrow, OpenForProbe, Threads
      <3> QED
        BY <3>1, <3>2, BorrowerComes
    <2> QED
      BY <1>7, <2>1, <2>2, <2>3, BorrowTypes DEF Inv, TypesAndThreads
  <1>8. ASSUME NEW t \in Threads, Release(t) PROVE Inv'
    <2>1. port[t] \in Ports /\ references[port[t]] > 0
      BY <1>8, UsersCounted DEF Release, Inv, ThreadInv, Borrowers
    <2>2. HandleInv'
      BY <1>8, <2>1 DEF Release, Resume, Inv, Types, HandleInv, Threads
    <2> QED
      BY <1>8, <2>2, ReleaseTypes, BorrowerGoes DEF Inv, TypesAndThreads
  <1>9. ASSUME NEW t \in Threads, UnregisterPort(t) PROVE Inv'
    <2>1. HandleInv'
      BY <1>9 DEF UnregisterPort, Inv, Types, HandleInv, Threads
    <2>2. \A q \in Ports : Borrowers(q)' = Borrowers(q)
      BY <1>9 DEF UnregisterPort, Borrowers, Inv, Types
    <2> QED
      BY <1>9, <2>1, <2>2, NoDeviceStep, ReleaseTypes
         DEF UnregisterPort, Inv, TypesAndThreads
  <1>10. ASSUME NEW t \in Threads, CloseHandle(t) PROVE Inv'
    <2>1. HandleInv'
      BY <1>10 DEF CloseHandle, Resume, Inv, Types, HandleInv, Threads
    <2> QED
      BY <1>10, <2>1, ReleaseTypes, CloseHandleCounts DEF Inv, TypesAndThreads
  <1>11. CASE UNCHANGED vars
    <2>1. \A q \in Ports : Borrowers(q)' = Borrowers(q)
      BY <1>11 DEF vars, Borrowers
    <2>2. CountInv' /\ ClaimInv'
      BY <1>11, <2>1, NoDeviceStep DEF vars
    <2> QED
      BY <1>11, <2>2 DEF vars, Inv, Types, DeviceInv, ThreadInv, HandleInv
  <1> QED
    BY <1>1, <1>2, <1>3, <1>4, <1>5, <1>6, <1>7, <1>8, <1>9, <1>10, <1>11 DEF Next

LEMMA InitInv ==
  ASSUME PortRegistryAssumption, Init
  PROVE  Inv
  <1>1. \A d \in Devices, p \in Ports : ~Owns(d, p)
    BY DEF Init, Owns
  <1>2. Types
    <2>1. /\ device \in [Devices -> DeviceType]
          /\ claims \in [Ports -> [Interfaces -> Int]]
      BY DEF Init, DeviceType
    <2>2. /\ references \in [Ports -> Int]
          /\ kernel \in [Interfaces -> Ports \cup {None}]
          /\ pc \in [Threads -> {"idle", "probe", "destroy", "release", "unregister", "close"}]
          /\ port \in [Threads -> Ports \cup {None}]
          /\ dying \in [Threads -> Devices \cup {None}]
      BY DEF Init
    <2> QED
      BY <2>1, <2>2 DEF Init, Types
  <1>3. DeviceInv /\ ThreadInv /\ HandleInv
    BY DEF Init, DeviceInv, ThreadInv, HandleInv, Using, Threads
  <1>4. CountInv
    <2>1. \A p \in Ports : DevicesOn(p) = {} /\ ChannelsOn(p) = {} /\ Borrowers(p) = {}
      BY <1>1, PortRegistryAssumption
         DEF Init, DevicesOn, ChannelsOn, Borrowers, PortRegistryAssumption
    <2>2. \A p \in Ports : Users(p) = 0
      BY <2>1, UsersFinite, FS_EmptySet
    <2> QED
      BY <2>2 DEF CountInv, Init
  <1>5. ClaimInv
    <2>1. \A p \in Ports, i \in Interfaces : Claimants(p, i) = {}
      BY <1>1 DEF Claimants
    <2>2. \A p \in Ports, i \in Interfaces : Cardinality(Claimants(p, i)) = 0
      BY <2>1, FS_EmptySet
    <2> QED
      BY <2>2, PortRegistryAssumption DEF ClaimInv, Init, PortRegistryAssumption
  <1> QED
    BY <1>2, <1>3, <1>4, <1>5 DEF Inv

-----------------------------------------------------------------------------
(* The inductive invariant of the Ports.                                    *)
THEOREM InvHolds ==
  ASSUME PortRegistryAssumption
  PROVE  Spec => []Inv
  <1>1. Init => Inv
    BY InitInv
  <1>2. Inv /\ [Next]_vars => Inv'
    BY NextInv
  <1> QED
    BY <1>1, <1>2, PTL DEF Spec

(* The counts of a Port are those of its users, its handle is open and      *)
(* registered as long as it has one, and an interface is claimed by the     *)
(* Port that wants it (see PortOutlivesItsUsers).                           *)
LEMMA InvCounts ==
  ASSUME PortRegistryAssumption, Inv
  PROVE  PortOutlivesItsUsers
  <1> SUFFICES ASSUME NEW p \in Ports
               PROVE  /\ references[p] = Users(p)
                      /\ Users(p) > 0 => p \in handles \cap ports
                      /\ {i \in Interfaces : kernel[i] = p} = Wanted(p) \ {None}
    BY DEF PortOutlivesItsUsers
  <1>1. references[p] = Users(p)
    BY DEF Inv, CountInv
  <1>2. Users(p) > 0 => p \in handles \cap ports
    BY <1>1 DEF Inv, HandleInv
  <1>3. \A i \in Interfaces : kernel[i] = p <=> Claimants(p, i) # {}
    BY ClaimantsFinite, FS_EmptySet DEF Inv, ClaimInv
  <1>4. \A i \in Interfaces : Claimants(p, i) # {} <=>
          \E d \in Devices : Owns(d, p) /\ (device[d].claim = i \/ i \in device[d].channels)
    <2> SUFFICES ASSUME NEW i \in Interfaces
                 PROVE  Claimants(p, i) # {} <=> \E d \in Devices :
                          Owns(d, p) /\ (device[d].claim = i \/ i \in device[d].channels)
      OBVIOUS
    <2>1. ASSUME NEW d \in Devices, Owns(d, p), device[d].claim = i \/ i \in device[d].channels
          PROVE  Claimants(p, i) # {}
      <3>1. <<d, "device">> \in Claimants(p, i) \/ <<d, "channel">> \in Claimants(p, i)
        BY <2>1 DEF Claimants
      <3> QED
        BY <3>1
    <2>2. ASSUME NEW c \in Claimants(p, i)
          PROVE  \E d \in Devices :
                   Owns(d, p) /\ (device[d].claim = i \/ i \in device[d].channels)
      BY <2>2 DEF Claimants
    <2> QED
      BY <2>1, <2>2
  <1>5. \A i : i \in Wanted(p) \ {None} <=>
          /\ i \in Interfaces
          /\ \E d \in Devices : Owns(d, p) /\ (device[d].claim = i \/ i \in device[d].channels)
    <2>1. \A d \in Devices : /\ device[d].claim \in Interfaces \cup {None}
                             /\ device[d].channels \subseteq Interfaces
      BY DEF Inv, Types, DeviceType
    <2>2. \A i : i \in {c[2] : c \in ChannelsOn(p)} <=>
            /\ i \in Interfaces
            /\ \E d \in Devices : Owns(d, p) /\ i \in device[d].channels
      <3>1. ASSUME NEW i \in Interfaces, NEW d \in Devices, Owns(d, p), i \in device[d].channels
            PROVE  i \in {c[2] : c \in ChannelsOn(p)}
        <4>1. <<d, i>> \in ChannelsOn(p)
          BY <3>1 DEF ChannelsOn
        <4> QED
          BY <4>1
      <3> QED
        BY <3>1 DEF ChannelsOn
    <2> QED
      BY <2>1, <2>2, PortRegistryAssumption DEF Wanted, PortRegistryAssumption
  <1>6. \A i : i \in {j \in Interfaces : kernel[j] = p} <=> i \in Wanted(p) \ {None}
    BY <1>3, <1>4, <1>5
  <1> QED
    BY <1>1, <1>2, <1>6

(* The counts and the claims of a Port are those of its users (see         *)
(* PortOutlivesItsUsers), for any number of Devices, Ports and interfaces. *)
THEOREM PortOutlivesItsUsersHolds ==
  ASSUME PortRegistryAssumption
  PROVE  Spec => []PortOutlivesItsUsers
  <1>1. Inv => PortOutlivesItsUsers
    BY InvCounts
  <1> QED
    BY <1>1, InvHolds, PTL

===============================================================================
