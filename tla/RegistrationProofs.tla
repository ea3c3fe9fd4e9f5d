--------------------------- MODULE RegistrationProofs ---------------------------
(***************************************************************************)
(* Registration for any Nodes, Devices and descriptors: no ID is used      *)
(* twice, and opening a Node is all or nothing.                            *)
(***************************************************************************)
EXTENDS Registration, SequenceTheorems, TLAPS

Steps == {"idle", "register", "fragments", "cleanup", "undo", "undoUnsure"}

Types ==
  /\ state \in [Nodes -> States]
  /\ device \in [Nodes -> Devices \cup {None}]
  /\ id \in [Nodes -> Nat]
  /\ reserved \subseteq Nodes /\ retained \subseteq Nodes
  /\ opened \in [Devices -> {"no", "yes", "closing"}]
  /\ present \subseteq Devices /\ linked \subseteq present
  /\ domain \in [Devices -> Nat]
  /\ next \in Seq(Nat) /\ Len(next) <= 1
  /\ call \in [step : Steps, node : Nodes \cup {None}, fragment : Nat]
  /\ DOMAIN target \subseteq Nat /\ \A i \in DOMAIN target : target[i] \in Nat

(* There is one domain, whose counter is past every ID given out; an ID     *)
(* belongs to one Node, on a Device that was opened.                        *)
IdInv ==
  /\ \A d \in Devices : opened[d] # "no" => domain[d] = 1 /\ Len(next) = 1
  /\ Len(next) = 1 => next[1] > 0
  /\ \A n \in Nodes : id[n] # 0 =>
       /\ device[n] \in Devices /\ opened[device[n]] # "no"
       /\ Len(next) = 1 /\ id[n] < next[1]
  /\ \A m, n \in Nodes : id[m] # 0 /\ id[m] = id[n] => m = n
  /\ \A n \in Alive \cup Unsure \cup {m \in Nodes : state[m] = "freed"} : id[n] # 0
  /\ \A n \in Nodes : state[n] = "new" => id[n] = 0

(* The call works on the one Node that is being opened.  It has nothing at  *)
(* the target before request 54 and after a clean end, and in between all   *)
(* the fragments sent, as long as the connection lives.                     *)
CallInv ==
  /\ call.step = "idle" => call = NoCall
  /\ call.step # "idle" => call.node \in Nodes /\ state[call.node] = "opening"
  /\ \A n \in Nodes : state[n] = "opening" => call.step # "idle" /\ call.node = n
  /\ call.step \in {"register", "undo"} => id[call.node] \notin DOMAIN target
  /\ call.step = "register" => call.fragment = 0
  /\ call.step = "fragments" =>
       /\ call.fragment <= Fragments
       /\ device[call.node] \in linked =>
            /\ id[call.node] \in DOMAIN target
            /\ target[id[call.node]] = call.fragment

(* What the target knows belongs to a Node that is open, being opened or    *)
(* left behind, over the connection that lives.                             *)
TargetInv ==
  /\ \A i \in DOMAIN target : \E n \in Alive \cup Unsure : i = id[n]
  /\ \A n \in Nodes : id[n] # 0 /\ id[n] \in DOMAIN target => device[n] \in linked
  /\ \A n \in Nodes : state[n] = "open" /\ device[n] \in linked =>
       id[n] \in DOMAIN target /\ target[id[n]] = Fragments

(* Reservations and references of the Spec are those of the Alive Nodes.    *)
HeldInv == reserved = Alive /\ retained = Alive

IInv == Types /\ IdInv /\ CallInv /\ TargetInv /\ HeldInv

Counts == Fragments \in Nat \ {0} /\ MaxId \in Nat \ {0}

-----------------------------------------------------------------------------
(* What request 55 leaves at the target: every other entry, and not that of *)
(* the ID once it was answered.                                             *)
LEMMA AnswerForget ==
  ASSUME Types, NEW d, NEW result, NEW i, Answer(d, result, Forget(i))
  PROVE  /\ DOMAIN target' \subseteq DOMAIN target
         /\ \A j \in DOMAIN target' : target'[j] = target[j]
         /\ \A j \in DOMAIN target : j # i => j \in DOMAIN target'
         /\ d \in linked /\ result = "OK" => i \notin DOMAIN target'
         /\ d \in linked <=> result # "NO_DEVICE"
  BY DEF Answer, Forget

(* What the requests 54 and 56 leave: every other entry, and that of the ID *)
(* once they were answered.                                                 *)
LEMMA AnswerEnter ==
  ASSUME Types, NEW d, NEW result, NEW i, NEW k \in Nat, Answer(d, result, Enter(i, k))
  PROVE  /\ DOMAIN target' \subseteq DOMAIN target \cup {i}
         /\ \A j \in DOMAIN target : j # i => j \in DOMAIN target' /\ target'[j] = target[j]
         /\ i \in DOMAIN target' => i \in DOMAIN target \/ target'[i] = k
         /\ \A j \in DOMAIN target' : target'[j] \in Nat
         /\ d \in linked /\ result = "OK" => i \in DOMAIN target' /\ target'[i] = k
         /\ d \notin linked \/ result = "STALL" => target' = target
         /\ d \in linked <=> result # "NO_DEVICE"
  <1>1. /\ DOMAIN Enter(i, k) = DOMAIN target \cup {i}
        /\ Enter(i, k)[i] = k
        /\ \A j \in DOMAIN target : j # i => Enter(i, k)[j] = target[j]
    BY DEF Enter
  <1>2. target' = target \/ target' = Enter(i, k)
    BY DEF Answer
  <1> QED
    BY <1>1, <1>2 DEF Answer, Types

(* Only a connection that is dead makes the host believe so.                *)
LEMMA ObserveKeeps ==
  ASSUME Types, NEW d, NEW result, NEW applied,
         Answer(d, result, applied), Observe(d, result)
  PROVE  present' \subseteq Devices /\ linked \subseteq present'
  BY DEF Types, Answer, Observe

LEMMA InitIInv ==
  ASSUME Init
  PROVE  IInv
  <1>1. Types
    BY EmptySeq DEF Types, Init, States, Steps, NoCall
  <1>2. IdInv /\ CallInv /\ TargetInv /\ HeldInv
    BY DEF Init, IdInv, CallInv, TargetInv, HeldInv, Alive, Unsure, NoCall
  <1> QED
    BY <1>1, <1>2 DEF IInv

LEMMA DeviceOpenStep ==
  ASSUME Counts, IInv, NEW d \in Devices, DeviceOpen(d)
  PROVE  IInv'
  <1>1. Types'
    BY DEF IInv, Types, DeviceOpen, FindOrCreate, nodes
  <1>2. IdInv'
    <2>1. UNCHANGED <<state, device, id>> /\ Alive' = Alive /\ Unsure' = Unsure
      BY DEF DeviceOpen, nodes, Alive, Unsure
    <2>2. /\ Len(next') = 1 /\ next'[1] > 0
          /\ Len(next) = 1 => next' = next
      <3>1. CASE next = <<>>
        <4>1. next' = <<1>> /\ Len(next) = 0
          BY <3>1, EmptySeq DEF DeviceOpen, FindOrCreate
        <4> QED
          BY <4>1
      <3>2. CASE next # <<>>
        <4>1. next' = next /\ Len(next) = 1
          BY <3>2, EmptySeq DEF IInv, Types, DeviceOpen, FindOrCreate
        <4> QED
          BY <4>1 DEF IInv, IdInv
      <3> QED
        BY <3>1, <3>2
    <2>3. /\ opened'[d] = "yes" /\ domain'[d] = 1
          /\ \A e \in Devices \ {d} : opened'[e] = opened[e] /\ domain'[e] = domain[e]
      BY <2>2 DEF IInv, Types, DeviceOpen
    <2> QED
      BY <2>1, <2>2, <2>3 DEF IInv, IdInv
  <1>3. CallInv'
    BY DEF IInv, IdInv, CallInv, DeviceOpen, nodes, Alive
  <1>4. TargetInv'
    BY DEF IInv, IdInv, TargetInv, DeviceOpen, nodes, Alive, Unsure
  <1>5. HeldInv'
    BY DEF IInv, HeldInv, DeviceOpen, nodes, Alive
  <1> QED
    BY <1>1, <1>2, <1>3, <1>4, <1>5 DEF IInv

(* The ID given out is new to every Node, hence to the target.              *)
LEMMA NodeOpenStep ==
  ASSUME Counts, IInv, NEW n \in Nodes, NEW d \in Devices, NodeOpen(n, d)
  PROVE  IInv'
  <1>1. /\ state[n] = "new" /\ id[n] = 0 /\ call.step = "idle" /\ n \notin Alive
        /\ domain[d] = 1 /\ Len(next) = 1 /\ next[1] \in Nat \ {0}
    BY DEF IInv, Types, IdInv, CallInv, NodeOpen, NoCall, Alive
  <1>2. /\ next' \in Seq(Nat) /\ Len(next') = 1 /\ next'[1] = next[1] + 1
        /\ id' = [id EXCEPT ![n] = next[1]]
        /\ device' = [device EXCEPT ![n] = d]
        /\ UNCHANGED <<opened, present, linked, domain, target>>
    <2>1. next' = [next EXCEPT ![1] = next[1] + 1]
      BY <1>1 DEF NodeOpen
    <2>2. next' \in Seq(Nat) /\ Len(next') = Len(next)
      <3>1. next \in Seq(Nat) /\ 1 \in 1..Len(next) /\ next[1] + 1 \in Nat
        BY <1>1 DEF IInv, Types
      <3> QED
        BY <2>1, <3>1, ExceptSeq
    <2> QED
      BY <1>1, <2>1, <2>2 DEF NodeOpen, IInv, Types
  <1>3. /\ id'[n] = next[1] /\ device'[n] = d
        /\ \A m \in Nodes \ {n} : id'[m] = id[m] /\ device'[m] = device[m]
        /\ id' \in [Nodes -> Nat] /\ device' \in [Nodes -> Devices \cup {None}]
    BY <1>1, <1>2 DEF IInv, Types
  <1>4. \A m \in Nodes : id[m] # next[1]
    BY <1>1 DEF IInv, Types, IdInv
  <1>5. next[1] \notin DOMAIN target
    BY <1>4 DEF IInv, TargetInv, Alive, Unsure
  <1>6. PICK as \in {"opening", "failed"} :
          /\ state' = [state EXCEPT ![n] = as]
          /\ as = "opening" =>
               /\ retained' = retained \cup {n} /\ reserved' = reserved \cup {n}
               /\ call' = [step |-> "register", node |-> n, fragment |-> 0]
          /\ as = "failed" => UNCHANGED <<retained, reserved, call>>
    BY DEF NodeOpen
  <1>7. state'[n] = as /\ \A m \in Nodes \ {n} : state'[m] = state[m]
    BY <1>6 DEF IInv, Types
  <1>8. /\ Alive' = IF as = "opening" THEN Alive \cup {n} ELSE Alive
        /\ Unsure' = Unsure
    BY <1>1, <1>7 DEF Alive, Unsure
  <1>11. Types'
    <2>1. state' \in [Nodes -> States] /\ retained' \subseteq Nodes /\ reserved' \subseteq Nodes
      BY <1>6 DEF IInv, Types, States
    <2>2. call' \in [step : Steps, node : Nodes \cup {None}, fragment : Nat]
      <3>1. CASE as = "opening"
        BY <1>6, <3>1 DEF Steps
      <3>2. CASE as = "failed"
        BY <1>6, <3>2 DEF IInv, Types
      <3> QED
        BY <3>1, <3>2
    <2> QED
      BY <1>2, <1>3, <2>1, <2>2, SMTT(30) DEF IInv, Types
  <1>12. IdInv'
    <2>1. \A m \in Nodes : id'[m] # 0 =>
            /\ device'[m] \in Devices /\ opened[device'[m]] # "no"
            /\ id'[m] < next[1] + 1
      BY <1>1, <1>3 DEF IInv, Types, IdInv, NodeOpen
    <2>2. \A l, m \in Nodes : id'[l] # 0 /\ id'[l] = id'[m] => l = m
      BY <1>3, <1>4 DEF IInv, IdInv
    <2>3. \A m \in (Alive \cup Unsure \cup {l \in Nodes : state[l] = "freed"})' : id'[m] # 0
      <3>1. \A m \in Nodes \ {n} :
              m \in (Alive \cup Unsure \cup {l \in Nodes : state[l] = "freed"})' =>
                m \in Alive \cup Unsure \cup {l \in Nodes : state[l] = "freed"}
        BY <1>7 DEF Alive, Unsure
      <3>2. (Alive \cup Unsure \cup {l \in Nodes : state[l] = "freed"})' \subseteq Nodes
        BY DEF Alive, Unsure
      <3> QED
        BY <1>1, <1>3, <3>1, <3>2 DEF IInv, IdInv
    <2>4. \A m \in Nodes : state'[m] = "new" => id'[m] = 0
      BY <1>3, <1>6, <1>7 DEF IInv, IdInv
    <2> QED
      BY <1>1, <1>2, <2>1, <2>2, <2>3, <2>4 DEF IInv, IdInv
  <1>13. CallInv'
    <2>1. \A m \in Nodes : state[m] # "opening"
      BY <1>1 DEF IInv, CallInv
    <2>2. CASE as = "opening"
      BY <1>2, <1>3, <1>5, <1>6, <1>7, <2>1, <2>2 DEF CallInv
    <2>3. CASE as = "failed"
      BY <1>1, <1>6, <1>7, <2>1, <2>3 DEF IInv, CallInv, NoCall
    <2> QED
      BY <2>2, <2>3
  <1>14. TargetInv'
    <2>1. \A i \in DOMAIN target : \E m \in (Alive \cup Unsure) \ {n} : i = id[m]
      BY <1>1 DEF IInv, TargetInv, Alive, Unsure
    <2>2. \A i \in DOMAIN target : \E m \in (Alive \cup Unsure)' : i = id'[m]
      <3>1. \A m \in (Alive \cup Unsure) \ {n} : m \in Nodes /\ m \in (Alive \cup Unsure)'
        BY <1>7 DEF Alive, Unsure
      <3> QED
        BY <1>3, <2>1, <3>1
    <2>3. \A m \in Nodes : id'[m] # 0 /\ id'[m] \in DOMAIN target => device'[m] \in linked
      BY <1>3, <1>5 DEF IInv, TargetInv
    <2>4. ASSUME NEW m \in Nodes, state'[m] = "open", device'[m] \in linked
          PROVE  id'[m] \in DOMAIN target /\ target[id'[m]] = Fragments
      BY <1>3, <1>6, <1>7, <2>4 DEF IInv, TargetInv
    <2> QED
      BY <1>2, <2>2, <2>3, <2>4 DEF TargetInv
  <1>15. HeldInv'
    BY <1>6, <1>8 DEF IInv, HeldInv
  <1> QED
    BY <1>11, <1>12, <1>13, <1>14, <1>15 DEF IInv

LEMMA NodeOpenOverflowsStep ==
  ASSUME Counts, IInv, NEW n \in Nodes, NEW d \in Devices, NodeOpenOverflows(n, d)
  PROVE  IInv'
  <1>1. Types'
    BY DEF IInv, Types, NodeOpenOverflows, States
  <1>2. IdInv'
    BY DEF IInv, IdInv, NodeOpenOverflows, Alive, Unsure
  <1>3. CallInv'
    BY DEF IInv, CallInv, NodeOpenOverflows
  <1>4. TargetInv'
    BY DEF IInv, IdInv, TargetInv, NodeOpenOverflows, NoCall, Alive, Unsure
  <1>5. HeldInv'
    BY DEF IInv, HeldInv, NodeOpenOverflows, Alive
  <1> QED
    BY <1>1, <1>2, <1>3, <1>4, <1>5 DEF IInv

(* The three requests of a call touch the entry of its ID alone.            *)
LEMMA RegisterStep ==
  ASSUME Counts, IInv, Register
  PROVE  IInv'
  <1> DEFINE n == call.node
  <1>1. /\ n \in Nodes /\ state[n] = "opening" /\ n \in Alive
        /\ id[n] \in Nat \ {0} /\ device[n] \in Devices
    BY DEF IInv, Types, IdInv, CallInv, Alive, Register
  <1>2. PICK result \in Results :
          /\ Answer(device[n], result, Enter(id[n], 0))
          /\ Observe(device[n], result)
          /\ call' = [call EXCEPT !.step =
                    IF result = "OK" THEN "fragments"
                    ELSE IF result # "NO_DEVICE" /\ MayBeAccepted(result)
                         THEN "cleanup" ELSE "undo"]
    BY DEF Register
  <1>3. UNCHANGED <<state, device, id, reserved, retained, opened, linked, domain, next>>
    BY DEF Register, nodes
  <1> HIDE DEF n
  <1>4. present' \subseteq Devices /\ linked \subseteq present'
    BY <1>2, ObserveKeeps DEF IInv
  <1>5. /\ call' \in [step : Steps, node : Nodes \cup {None}, fragment : Nat]
        /\ call'.node = n /\ call'.fragment = 0
        /\ call'.step = IF result = "OK" THEN "fragments"
                        ELSE IF result = "TIMEOUT" THEN "cleanup" ELSE "undo"
    BY <1>2 DEF IInv, Types, CallInv, Register, Steps, Results, MayBeAccepted, n
  <1>a. id[n] \notin DOMAIN target
    BY DEF IInv, CallInv, Register, n
  <1>b. /\ DOMAIN target' \subseteq DOMAIN target \cup {id[n]}
        /\ \A j \in DOMAIN target : j # id[n] => j \in DOMAIN target' /\ target'[j] = target[j]
        /\ \A j \in DOMAIN target' : target'[j] \in Nat
        /\ device[n] \in linked /\ result = "OK" =>
             id[n] \in DOMAIN target' /\ target'[id[n]] = 0
        /\ device[n] \notin linked \/ result = "STALL" => target' = target
        /\ device[n] \in linked <=> result # "NO_DEVICE"
    BY <1>1, <1>2, AnswerEnter DEF IInv
  <1>6. /\ DOMAIN target' \subseteq DOMAIN target \cup {id[n]}
        /\ \A j \in DOMAIN target : j # id[n] => j \in DOMAIN target' /\ target'[j] = target[j]
    BY <1>b
  <1>7. /\ DOMAIN target' \subseteq Nat /\ \A j \in DOMAIN target' : target'[j] \in Nat
        /\ id[n] \in DOMAIN target' => device[n] \in linked
    BY <1>1, <1>a, <1>b DEF IInv, Types
  <1>8. /\ call'.step = "undo" => id[n] \notin DOMAIN target'
        /\ call'.step = "fragments" /\ device[n] \in linked =>
             id[n] \in DOMAIN target' /\ target'[id[n]] = 0
        /\ 0 <= Fragments
    BY <1>5, <1>a, <1>b DEF Results, Counts
  <1>u. Alive' = Alive /\ Unsure' = Unsure
    BY <1>3 DEF Alive, Unsure
  <1>11. Types'
    BY <1>3, <1>4, <1>5, <1>6, <1>7 DEF IInv, Types
  <1>12. IdInv'
    BY <1>3, <1>u DEF IInv, IdInv
  <1>13. CallInv'
    BY <1>1, <1>2, <1>3, <1>5, <1>8 DEF IInv, CallInv, Types, n
  <1>14. TargetInv'
    <2>1. \A i \in DOMAIN target' : \E m \in Alive \cup Unsure : i = id[m]
      BY <1>1, <1>6 DEF IInv, TargetInv
    <2>2. \A m \in Nodes : id[m] # 0 /\ id[m] \in DOMAIN target' => device[m] \in linked
      BY <1>1, <1>6, <1>7 DEF IInv, TargetInv, IdInv
    <2>3. ASSUME NEW m \in Nodes, state[m] = "open", device[m] \in linked
          PROVE  id[m] \in DOMAIN target' /\ target'[id[m]] = Fragments
      <3>1. m # n /\ id[m] # 0
        BY <1>1, <2>3 DEF IInv, IdInv, Alive
      <3>2. id[m] # id[n]
        BY <1>1, <3>1 DEF IInv, IdInv
      <3> QED
        BY <2>3, <3>2, <1>6 DEF IInv, TargetInv
    <2> QED
      BY <2>1, <2>2, <2>3, <1>3, <1>u DEF TargetInv
  <1>15. HeldInv'
    BY <1>3, <1>u DEF IInv, HeldInv
  <1> QED
    BY <1>11, <1>12, <1>13, <1>14, <1>15 DEF IInv

LEMMA SendFragmentStep ==
  ASSUME Counts, IInv, SendFragment
  PROVE  IInv'
  <1> DEFINE n == call.node
  <1>1. /\ n \in Nodes /\ state[n] = "opening" /\ n \in Alive
        /\ id[n] \in Nat \ {0} /\ device[n] \in Devices
    BY DEF IInv, Types, IdInv, CallInv, Alive, SendFragment
  <1>2. PICK result \in Results :
          /\ Answer(device[n], result, IF OnTheWay(id[n]) = call.fragment
                                     THEN Enter(id[n], call.fragment + 1) ELSE target)
          /\ Observe(device[n], result)
          /\ call' = IF result = "OK" THEN [call EXCEPT !.fragment = @ + 1]
                     ELSE [call EXCEPT !.step =
                             IF result = "NO_DEVICE" THEN "undo" ELSE "cleanup"]
    BY DEF SendFragment
  <1>3. UNCHANGED <<state, device, id, reserved, retained, opened, linked, domain, next>>
    BY DEF SendFragment, nodes
  <1> HIDE DEF n
  <1>4. present' \subseteq Devices /\ linked \subseteq present'
    BY <1>2, ObserveKeeps DEF IInv
  <1>c. /\ call.step = "fragments" /\ call.fragment \in Nat /\ call.fragment < Fragments
        /\ device[n] \in linked =>
             id[n] \in DOMAIN target /\ target[id[n]] = call.fragment
    BY DEF IInv, Types, CallInv, SendFragment, n
  <1>5. /\ call' \in [step : Steps, node : Nodes \cup {None}, fragment : Nat]
        /\ call'.node = n
        /\ call'.step = IF result = "OK" THEN "fragments"
                        ELSE IF result = "NO_DEVICE" THEN "undo" ELSE "cleanup"
        /\ result = "OK" => call'.fragment = call.fragment + 1
    <2>1. call \in [step : Steps, node : Nodes \cup {None}, fragment : Nat]
      BY DEF IInv, Types
    <2>2. CASE result = "OK"
      BY <1>2, <1>c, <2>1, <2>2 DEF n
    <2>3. CASE result # "OK"
      BY <1>2, <2>1, <2>3 DEF Steps, n
    <2> QED
      BY <2>2, <2>3
  <1>a. id[n] \in DOMAIN target => device[n] \in linked
    BY <1>1 DEF IInv, TargetInv
  <1>b. /\ DOMAIN target' \subseteq DOMAIN target \cup {id[n]}
        /\ \A j \in DOMAIN target : j # id[n] => j \in DOMAIN target' /\ target'[j] = target[j]
        /\ \A j \in DOMAIN target' : target'[j] \in Nat
        /\ device[n] \in linked /\ result = "OK" =>
             id[n] \in DOMAIN target' /\ target'[id[n]] = call.fragment + 1
        /\ device[n] \notin linked => target' = target
        /\ device[n] \in linked <=> result # "NO_DEVICE"
    <2>1. CASE device[n] \in linked
      <3>1. Answer(device[n], result, Enter(id[n], call.fragment + 1))
        BY <1>2, <1>c, <2>1 DEF OnTheWay
      <3> QED
        BY <2>1, <3>1, <1>c, AnswerEnter DEF IInv
    <2>2. CASE device[n] \notin linked
      BY <1>2, <2>2 DEF Answer, IInv, Types
    <2> QED
      BY <2>1, <2>2
  <1>6. /\ DOMAIN target' \subseteq DOMAIN target \cup {id[n]}
        /\ \A j \in DOMAIN target : j # id[n] => j \in DOMAIN target' /\ target'[j] = target[j]
    BY <1>b
  <1>7. /\ DOMAIN target' \subseteq Nat /\ \A j \in DOMAIN target' : target'[j] \in Nat
        /\ id[n] \in DOMAIN target' => device[n] \in linked
    BY <1>1, <1>a, <1>b DEF IInv, Types
  <1>8. /\ call'.step = "undo" => id[n] \notin DOMAIN target'
        /\ call'.step = "fragments" =>
             /\ call'.fragment <= Fragments
             /\ device[n] \in linked =>
                  id[n] \in DOMAIN target' /\ target'[id[n]] = call'.fragment
    BY <1>5, <1>a, <1>b, <1>c DEF Counts, Results
  <1>u. Alive' = Alive /\ Unsure' = Unsure
    BY <1>3 DEF Alive, Unsure
  <1>11. Types'
    BY <1>3, <1>4, <1>5, <1>6, <1>7 DEF IInv, Types
  <1>12. IdInv'
    BY <1>3, <1>u DEF IInv, IdInv
  <1>13. CallInv'
    BY <1>1, <1>2, <1>3, <1>5, <1>8 DEF IInv, CallInv, Types, n
  <1>14. TargetInv'
    <2>1. \A i \in DOMAIN target' : \E m \in Alive \cup Unsure : i = id[m]
      BY <1>1, <1>6 DEF IInv, TargetInv
    <2>2. \A m \in Nodes : id[m] # 0 /\ id[m] \in DOMAIN target' => device[m] \in linked
      BY <1>1, <1>6, <1>7 DEF IInv, TargetInv, IdInv
    <2>3. ASSUME NEW m \in Nodes, state[m] = "open", device[m] \in linked
          PROVE  id[m] \in DOMAIN target' /\ target'[id[m]] = Fragments
      <3>1. m # n /\ id[m] # 0
        BY <1>1, <2>3 DEF IInv, IdInv, Alive
      <3>2. id[m] # id[n]
        BY <1>1, <3>1 DEF IInv, IdInv
      <3> QED
        BY <2>3, <3>2, <1>6 DEF IInv, TargetInv
    <2> QED
      BY <2>1, <2>2, <2>3, <1>3, <1>u DEF TargetInv
  <1>15. HeldInv'
    BY <1>3, <1>u DEF IInv, HeldInv
  <1> QED
    BY <1>11, <1>12, <1>13, <1>14, <1>15 DEF IInv

LEMMA CleanupStep ==
  ASSUME Counts, IInv, Cleanup
  PROVE  IInv'
  <1> DEFINE n == call.node
  <1>1. /\ n \in Nodes /\ state[n] = "opening" /\ n \in Alive
        /\ id[n] \in Nat \ {0} /\ device[n] \in Devices
    BY DEF IInv, Types, IdInv, CallInv, Alive, Cleanup
  <1>2. PICK result \in Results :
          /\ Answer(device[n], result, Forget(id[n]))
          /\ Observe(device[n], result)
          /\ call' = [call EXCEPT !.step = IF result = "OK" THEN "undo" ELSE "undoUnsure"]
    BY DEF Cleanup
  <1>3. UNCHANGED <<state, device, id, reserved, retained, opened, linked, domain, next>>
    BY DEF Cleanup, nodes
  <1> HIDE DEF n
  <1>4. present' \subseteq Devices /\ linked \subseteq present'
    BY <1>2, ObserveKeeps DEF IInv
  <1>5. /\ call' \in [step : Steps, node : Nodes \cup {None}, fragment : Nat]
        /\ call'.node = n
        /\ call'.step = IF result = "OK" THEN "undo" ELSE "undoUnsure"
    BY <1>2 DEF IInv, Types, Steps, Results, n
  <1>b. /\ DOMAIN target' \subseteq DOMAIN target
        /\ \A j \in DOMAIN target' : target'[j] = target[j]
        /\ \A j \in DOMAIN target : j # id[n] => j \in DOMAIN target'
        /\ device[n] \in linked /\ result = "OK" => id[n] \notin DOMAIN target'
        /\ device[n] \in linked <=> result # "NO_DEVICE"
    BY <1>2, AnswerForget DEF IInv
  <1>6. /\ DOMAIN target' \subseteq DOMAIN target \cup {id[n]}
        /\ \A j \in DOMAIN target : j # id[n] => j \in DOMAIN target' /\ target'[j] = target[j]
    BY <1>b
  <1>7. /\ DOMAIN target' \subseteq Nat /\ \A j \in DOMAIN target' : target'[j] \in Nat
        /\ id[n] \in DOMAIN target' => device[n] \in linked
    BY <1>1, <1>b DEF IInv, Types, TargetInv
  <1>8. call'.step = "undo" => id[n] \notin DOMAIN target'
    BY <1>5, <1>b
  <1>u. Alive' = Alive /\ Unsure' = Unsure
    BY <1>3 DEF Alive, Unsure
  <1>11. Types'
    BY <1>3, <1>4, <1>5, <1>6, <1>7 DEF IInv, Types
  <1>12. IdInv'
    BY <1>3, <1>u DEF IInv, IdInv
  <1>13. CallInv'
    BY <1>1, <1>2, <1>3, <1>5, <1>8 DEF IInv, CallInv, Types, n
  <1>14. TargetInv'
    <2>1. \A i \in DOMAIN target' : \E m \in Alive \cup Unsure : i = id[m]
      BY <1>1, <1>6 DEF IInv, TargetInv
    <2>2. \A m \in Nodes : id[m] # 0 /\ id[m] \in DOMAIN target' => device[m] \in linked
      BY <1>1, <1>6, <1>7 DEF IInv, TargetInv, IdInv
    <2>3. ASSUME NEW m \in Nodes, state[m] = "open", device[m] \in linked
          PROVE  id[m] \in DOMAIN target' /\ target'[id[m]] = Fragments
      <3>1. m # n /\ id[m] # 0
        BY <1>1, <2>3 DEF IInv, IdInv, Alive
      <3>2. id[m] # id[n]
        BY <1>1, <3>1 DEF IInv, IdInv
      <3> QED
        BY <2>3, <3>2, <1>6 DEF IInv, TargetInv
    <2> QED
      BY <2>1, <2>2, <2>3, <1>3, <1>u DEF TargetInv
  <1>15. HeldInv'
    BY <1>3, <1>u DEF IInv, HeldInv
  <1> QED
    BY <1>11, <1>12, <1>13, <1>14, <1>15 DEF IInv

(* After the last fragment the entry is complete; after a clean end of a    *)
(* failed call there is none.                                               *)
LEMMA PublishStep ==
  ASSUME Counts, IInv, Publish
  PROVE  IInv'
  <1> DEFINE n == call.node
  <1>1. /\ n \in Nodes /\ state[n] = "opening" /\ n \in Alive
        /\ device[n] \in linked => id[n] \in DOMAIN target /\ target[id[n]] = Fragments
    BY DEF IInv, CallInv, Alive, Publish
  <1>2. /\ state' = [state EXCEPT ![n] = "open"] /\ call' = NoCall
        /\ UNCHANGED <<device, id, reserved, retained, opened, present, linked, domain,
                       next, target>>
    BY DEF Publish
  <1>3. \A m \in Nodes : state[m] = "opening" => m = n
    BY DEF IInv, CallInv
  <1> HIDE DEF n
  <1>4. state'[n] = "open" /\ \A m \in Nodes \ {n} : state'[m] = state[m]
    BY <1>1, <1>2 DEF IInv, Types
  <1>5. Alive' = Alive /\ Unsure' = Unsure
    BY <1>1, <1>4 DEF Alive, Unsure
  <1>11. Types'
    BY <1>2 DEF IInv, Types, States, Steps, NoCall
  <1>12. IdInv'
    BY <1>2, <1>4, <1>5 DEF IInv, IdInv
  <1>13. CallInv'
    BY <1>2, <1>3, <1>4 DEF CallInv, NoCall
  <1>14. TargetInv'
    BY <1>1, <1>2, <1>4, <1>5 DEF IInv, TargetInv
  <1>15. HeldInv'
    BY <1>2, <1>5 DEF IInv, HeldInv
  <1> QED
    BY <1>11, <1>12, <1>13, <1>14, <1>15 DEF IInv

LEMMA NodeOpenFailsStep ==
  ASSUME Counts, IInv, NodeOpenFails
  PROVE  IInv'
  <1> DEFINE n == call.node
           as == IF call.step = "undo" THEN "failed" ELSE "failedUnsure"
  <1>1. /\ n \in Nodes /\ state[n] = "opening" /\ n \in Alive /\ id[n] # 0
        /\ as = "failed" => id[n] \notin DOMAIN target
        /\ as \in {"failed", "failedUnsure"}
    BY DEF IInv, IdInv, CallInv, Alive, NodeOpenFails
  <1>2. /\ state' = [state EXCEPT ![n] = as] /\ call' = NoCall
        /\ reserved' = reserved \ {n} /\ retained' = retained \ {n}
        /\ UNCHANGED <<device, id, opened, present, linked, domain, next, target>>
    BY DEF NodeOpenFails, Undo
  <1>3. \A m \in Nodes : state[m] = "opening" => m = n
    BY DEF IInv, CallInv
  <1> HIDE DEF n, as
  <1>4. state'[n] = as /\ \A m \in Nodes \ {n} : state'[m] = state[m]
    BY <1>1, <1>2 DEF IInv, Types
  <1>5. /\ Alive' = Alive \ {n}
        /\ Unsure' = IF as = "failed" THEN Unsure ELSE Unsure \cup {n}
    BY <1>1, <1>4 DEF Alive, Unsure
  <1>11. Types'
    <2>1. state' \in [Nodes -> States]
      BY <1>1, <1>2 DEF IInv, Types, States
    <2> QED
      BY <1>2, <2>1 DEF IInv, Types, Steps, NoCall
  <1>12. IdInv'
    BY <1>1, <1>2, <1>4, <1>5 DEF IInv, IdInv
  <1>13. CallInv'
    BY <1>1, <1>2, <1>3, <1>4 DEF CallInv, NoCall
  <1>14. TargetInv'
    <2>1. \A i \in DOMAIN target : \E m \in (Alive \cup Unsure)' : i = id[m]
      BY <1>1, <1>5 DEF IInv, TargetInv
    <2> QED
      BY <1>1, <1>2, <1>4, <2>1 DEF IInv, TargetInv
  <1>15. HeldInv'
    BY <1>2, <1>5 DEF IInv, HeldInv
  <1> QED
    BY <1>11, <1>12, <1>13, <1>14, <1>15 DEF IInv

(* What the close of a Node and the destruction of its Device do to it.     *)
LEMMA Ends ==
  ASSUME Counts, IInv, NEW n \in Nodes, state[n] \in {"open", "closeFailed"},
         NEW as \in {"closeFailed", "freed", "freedUnsure"},
         state' = [state EXCEPT ![n] = as],
         IF as = "closeFailed" THEN UNCHANGED <<reserved, retained>>
         ELSE reserved' = reserved \ {n} /\ retained' = retained \ {n},
         UNCHANGED <<device, id, opened, linked, domain, next, call>>,
         present' \subseteq Devices, linked \subseteq present',
         DOMAIN target' \subseteq DOMAIN target,
         \A j \in DOMAIN target' : target'[j] = target[j],
         \A j \in DOMAIN target : j # id[n] => j \in DOMAIN target',
         as = "freed" => id[n] \notin DOMAIN target'
  PROVE  IInv'
  <1>1. /\ state'[n] = as /\ \A m \in Nodes \ {n} : state'[m] = state[m]
        /\ n \in Alive /\ id[n] # 0
    BY DEF IInv, Types, IdInv, Alive
  <1>2. \A m \in Nodes : id[m] = id[n] => m = n
    BY <1>1 DEF IInv, IdInv
  <1>3. /\ Alive' = IF as = "closeFailed" THEN Alive ELSE Alive \ {n}
        /\ Unsure' = IF as = "freedUnsure" THEN Unsure \cup {n} ELSE Unsure
    BY <1>1 DEF Alive, Unsure
  <1>11. Types'
    BY DEF IInv, Types, States
  <1>12. IdInv'
    <2>1. \A m \in (Alive \cup Unsure \cup {l \in Nodes : state[l] = "freed"})' : id[m] # 0
      BY <1>1, <1>3 DEF IInv, IdInv
    <2> QED
      BY <1>1, <2>1 DEF IInv, IdInv
  <1>13. CallInv'
    <2>1. call.step # "idle" => call.node # n
      BY DEF IInv, CallInv
    <2>2. call.step # "idle" => id[call.node] # id[n]
      BY <1>2, <2>1 DEF IInv, CallInv
    <2>3. \A m \in Nodes : state'[m] = "opening" <=> state[m] = "opening"
      BY <1>1
    <2> QED
      BY <2>2, <2>3 DEF IInv, CallInv, NoCall
  <1>14. TargetInv'
    <2>1. \A i \in DOMAIN target' : \E m \in (Alive \cup Unsure)' : i = id[m]
      <3>1. \A i \in DOMAIN target' : \E m \in Alive \cup Unsure : i = id[m]
        BY DEF IInv, TargetInv
      <3>2. \A m \in Alive \cup Unsure : (m = n /\ as = "freed") \/ m \in (Alive \cup Unsure)'
        BY <1>1, <1>3
      <3> QED
        BY <3>1, <3>2
    <2>2. \A m \in Nodes : state'[m] = "open" => state[m] = "open" /\ m # n
      BY <1>1
    <2> QED
      BY <1>2, <2>1, <2>2, ZenonT(30) DEF IInv, TargetInv
  <1>15. HeldInv'
    BY <1>3 DEF IInv, HeldInv
  <1> QED
    BY <1>11, <1>12, <1>13, <1>14, <1>15 DEF IInv

(* An entry of the target goes with the connection, hence a Node whose      *)
(* device is gone has none.                                                 *)
LEMMA GoneIsForgotten ==
  ASSUME IInv, NEW n \in Nodes, device[n] \notin linked, id[n] # 0
  PROVE  id[n] \notin DOMAIN target
  BY DEF IInv, TargetInv

LEMMA NodeCloseStep ==
  ASSUME Counts, IInv, NEW n \in Nodes, NodeClose(n)
  PROVE  IInv'
  <1>1. /\ state[n] \in {"open", "closeFailed"} /\ id[n] # 0
        /\ UNCHANGED <<device, id, opened, linked, domain, next, call>>
    BY DEF IInv, IdInv, Alive, NodeClose, FreeNode
  <1>2. CASE device[n] \notin present
    <2>1. id[n] \notin DOMAIN target
      BY <1>1, <1>2, GoneIsForgotten DEF IInv, Types
    <2>2. FreeNode(n, "freed") /\ UNCHANGED <<present, target>>
      BY <1>2 DEF NodeClose
    <2>3. present' \subseteq Devices /\ linked \subseteq present'
      BY <2>2 DEF IInv, Types
    <2> QED
      BY <1>1, <2>1, <2>2, <2>3, Ends DEF FreeNode
  <1>3. CASE device[n] \in present
    <2>1. PICK result \in Results :
            /\ Answer(device[n], result, Forget(id[n]))
            /\ Observe(device[n], result)
            /\ IF result \in {"OK", "NO_DEVICE"} THEN FreeNode(n, "freed")
               ELSE /\ state' = [state EXCEPT ![n] = "closeFailed"]
                    /\ UNCHANGED <<device, id, reserved, retained>>
      BY <1>3 DEF NodeClose
    <2>2. present' \subseteq Devices /\ linked \subseteq present'
      BY <2>1, ObserveKeeps DEF IInv
    <2>3. /\ DOMAIN target' \subseteq DOMAIN target
          /\ \A j \in DOMAIN target' : target'[j] = target[j]
          /\ \A j \in DOMAIN target : j # id[n] => j \in DOMAIN target'
          /\ device[n] \in linked /\ result = "OK" => id[n] \notin DOMAIN target'
          /\ device[n] \in linked <=> result # "NO_DEVICE"
      BY <2>1, AnswerForget DEF IInv
    <2>4. result \in {"OK", "NO_DEVICE"} => id[n] \notin DOMAIN target'
      BY <1>1, <2>3, GoneIsForgotten
    <2>5. CASE result \in {"OK", "NO_DEVICE"}
      BY <1>1, <2>1, <2>2, <2>3, <2>4, <2>5, Ends DEF FreeNode
    <2>6. CASE result \notin {"OK", "NO_DEVICE"}
      BY <1>1, <2>1, <2>2, <2>3, <2>6, Ends
    <2> QED
      BY <2>5, <2>6
  <1> QED
    BY <1>2, <1>3

LEMMA DeviceCloseStep ==
  ASSUME Counts, IInv, NEW d \in Devices, DeviceClose(d)
  PROVE  IInv'
  <1>1. Types'
    BY DEF IInv, Types, DeviceClose, nodes
  <1>2. IdInv'
    BY DEF IInv, IdInv, DeviceClose, nodes, Alive, Unsure
  <1>3. CallInv'
    BY DEF IInv, CallInv, DeviceClose, nodes
  <1>4. TargetInv'
    BY DEF IInv, TargetInv, DeviceClose, nodes, Alive, Unsure
  <1>5. HeldInv'
    BY DEF IInv, HeldInv, DeviceClose, nodes, Alive
  <1> QED
    BY <1>1, <1>2, <1>3, <1>4, <1>5 DEF IInv

LEMMA DestroyNodeStep ==
  ASSUME Counts, IInv, NEW n \in Nodes, DestroyNode(n)
  PROVE  IInv'
  <1>1. /\ state[n] \in {"open", "closeFailed"} /\ id[n] # 0
        /\ UNCHANGED <<device, id, opened, linked, domain, next, call>>
    BY DEF IInv, IdInv, Alive, DestroyNode, FreeNode
  <1>2. CASE device[n] \notin present
    <2>1. id[n] \notin DOMAIN target
      BY <1>1, <1>2, GoneIsForgotten DEF IInv, Types
    <2>2. FreeNode(n, "freed") /\ UNCHANGED <<present, target>>
      BY <1>2 DEF DestroyNode
    <2>3. present' \subseteq Devices /\ linked \subseteq present'
      BY <2>2 DEF IInv, Types
    <2> QED
      BY <1>1, <2>1, <2>2, <2>3, Ends DEF FreeNode
  <1>3. CASE device[n] \in present
    <2>1. PICK result \in Results :
            /\ Answer(device[n], result, Forget(id[n]))
            /\ Observe(device[n], result)
            /\ FreeNode(n, IF result \in {"OK", "NO_DEVICE"}
                         THEN "freed" ELSE "freedUnsure")
      BY <1>3 DEF DestroyNode
    <2>2. present' \subseteq Devices /\ linked \subseteq present'
      BY <2>1, ObserveKeeps DEF IInv
    <2>3. /\ DOMAIN target' \subseteq DOMAIN target
          /\ \A j \in DOMAIN target' : target'[j] = target[j]
          /\ \A j \in DOMAIN target : j # id[n] => j \in DOMAIN target'
          /\ device[n] \in linked /\ result = "OK" => id[n] \notin DOMAIN target'
          /\ device[n] \in linked <=> result # "NO_DEVICE"
      BY <2>1, AnswerForget DEF IInv
    <2>4. result \in {"OK", "NO_DEVICE"} => id[n] \notin DOMAIN target'
      BY <1>1, <2>3, GoneIsForgotten
    <2>5. CASE result \in {"OK", "NO_DEVICE"}
      BY <1>1, <2>1, <2>2, <2>3, <2>4, <2>5, Ends DEF FreeNode
    <2>6. CASE result \notin {"OK", "NO_DEVICE"}
      BY <1>1, <2>1, <2>2, <2>3, <2>6, Ends DEF FreeNode
    <2> QED
      BY <2>5, <2>6
  <1> QED
    BY <1>2, <1>3

LEMMA ReplugStep ==
  ASSUME Counts, IInv, Replug
  PROVE  IInv'
  <1>1. Types'
    BY DEF IInv, Types, Replug, nodes
  <1>2. IdInv'
    BY DEF IInv, IdInv, Replug, nodes, Alive, Unsure
  <1>3. CallInv'
    BY DEF IInv, CallInv, Replug, nodes
  <1>4. TargetInv'
    BY DEF IInv, TargetInv, Replug
  <1>5. HeldInv'
    BY DEF IInv, HeldInv, Replug, nodes, Alive
  <1> QED
    BY <1>1, <1>2, <1>3, <1>4, <1>5 DEF IInv

LEMMA NextIInv ==
  ASSUME Counts, IInv, [Next]_vars
  PROVE  IInv'
  <1>1. CASE Register
    BY <1>1, RegisterStep
  <1>2. CASE SendFragment
    BY <1>2, SendFragmentStep
  <1>3. CASE Cleanup
    BY <1>3, CleanupStep
  <1>4. CASE Publish
    BY <1>4, PublishStep
  <1>5. CASE NodeOpenFails
    BY <1>5, NodeOpenFailsStep
  <1>6. CASE Replug
    BY <1>6, ReplugStep
  <1>7. CASE \E d \in Devices : DeviceOpen(d) \/ DeviceClose(d)
    BY <1>7, DeviceOpenStep, DeviceCloseStep
  <1>8. CASE \E n \in Nodes : NodeClose(n) \/ DestroyNode(n)
    BY <1>8, NodeCloseStep, DestroyNodeStep
  <1>9. CASE \E n \in Nodes, d \in Devices : NodeOpen(n, d) \/ NodeOpenOverflows(n, d)
    BY <1>9, NodeOpenStep, NodeOpenOverflowsStep
  <1>10. CASE UNCHANGED vars
    <2>1. Types'
      BY <1>10 DEF IInv, Types, vars
    <2>2. Alive' = Alive /\ Unsure' = Unsure
      BY <1>10 DEF Alive, Unsure, vars
    <2> QED
      BY <1>10, <2>1, <2>2 DEF IInv, IdInv, CallInv, TargetInv, HeldInv, vars
  <1> QED
    BY <1>1, <1>2, <1>3, <1>4, <1>5, <1>6, <1>7, <1>8, <1>9, <1>10 DEF Next

-----------------------------------------------------------------------------
(* The inductive invariant holds of every behaviour of Registration.        *)
THEOREM IInvHolds ==
  ASSUME RegistrationAssumption
  PROVE  Spec => []IInv
  <1>1. Init => IInv
    BY InitIInv
  <1>2. IInv /\ [Next]_vars => IInv'
    BY NextIInv DEF RegistrationAssumption, Counts
  <1> QED
    BY <1>1, <1>2, PTL DEF Spec

(* Request 54 never names an ID the target already has an entry for (see    *)
(* IdIsFresh), for any number of Nodes, Devices and fragments.              *)
THEOREM IdIsFreshHolds ==
  ASSUME RegistrationAssumption
  PROVE  Spec => []IdIsFresh
  <1>1. IInv => IdIsFresh
    BY DEF IInv, CallInv, IdIsFresh, OnTheWay
  <1> QED
    BY <1>1, IInvHolds, PTL

(* Opening a Node is all or nothing (see OpenIsAllOrNothing), whichever     *)
(* request fails, whatever it did at the target, and whoever closes.        *)
THEOREM OpenIsAllOrNothingHolds ==
  ASSUME RegistrationAssumption
  PROVE  Spec => []OpenIsAllOrNothing
  <1>1. IInv => OpenIsAllOrNothing
    <2> SUFFICES ASSUME IInv PROVE OpenIsAllOrNothing
      OBVIOUS
    <2>1. \A n \in Nodes : state[n] = "open" /\ device[n] \in linked => OnTheWay(id[n]) = Fragments
      BY DEF IInv, TargetInv, OnTheWay
    <2>2. DOMAIN target \subseteq {id[n] : n \in Alive \cup Unsure}
      BY DEF IInv, TargetInv
    <2> QED
      BY <2>1, <2>2 DEF IInv, HeldInv, OpenIsAllOrNothing
  <1> QED
    BY <1>1, IInvHolds, PTL

===============================================================================
