-------------------------- MODULE TransferPoolProofs --------------------------
(***************************************************************************)
(* The invariants of TransferPool, for every finite set of slots and       *)
(* Nodes.                                                                  *)
(***************************************************************************)
EXTENDS TransferPool, FiniteSetTheorems, SequenceTheorems, TLAPS

Held(n) == \E s \in Slots : slot_user[s] = n
Owes(t, n) == notice[t].stage = "deliver" /\ notice[t].user = n

(* Who holds a slot, and what the Node's reservation says of it. *)
HolderInv ==
  /\ \A s \in Slots : slot_state[s] = "free" <=> slot_user[s] = NoNode
  /\ \A s \in Slots : slot_user[s] # NoNode => slot_user[s] \in reservations
  /\ \A r, s \in Slots : slot_user[r] # NoNode /\ slot_user[r] = slot_user[s] => r = s
  /\ \A n \in Nodes : in_use[n] = IF Held(n) THEN 1 ELSE 0
  /\ \A s \in Slots : slot_user[s] # NoNode =>
                        (slot_counted[s] <=> capacity[slot_user[s]] = 1)
  /\ \A n \in Nodes : n \notin reservations => capacity[n] = 0

(* The running totals. *)
TotalsInv ==
  /\ reserved_total = Cardinality(Reserving)
  /\ unfilled_total = Cardinality(Unfilled)
  /\ reserved_total < PoolSize

(* Who owes a Node its completion. *)
OwedInv ==
  /\ \A n \in Nodes : inflight[n] <=> Held(n) \/ \E t \in Threads : Owes(t, n)
  /\ \A n \in Nodes, t \in Threads : ~(Held(n) /\ Owes(t, n))
  /\ \A n \in Nodes : ~(Owes("app", n) /\ Owes("event", n))
  /\ \A t \in Threads : notice[t].stage = "deliver" => notice[t].user \in Nodes

(* callbacks_active counts the threads inside deliver_terminal. *)
CallbackInv ==
  callbacks_active = (IF Idle("app") THEN 0 ELSE 1) + (IF Idle("event") THEN 0 ELSE 1)

(* libusb and the slots agree; only cancel_all asks for cancellations. *)
WireInv ==
  /\ \A s \in Slots : wire[s] # "idle" <=> slot_state[s] = "submitted"
  /\ \A s \in Slots : wire[s] = "cancelling" => closing
  /\ cancel_todo # {} \/ cancel_target # NoSlot => closing

LatchInv ==
  /\ present <=> latched.result # "NO_DEVICE"
  /\ latched.native # "CANCELLED"

FreedInv == freed => Drained /\ cancel_todo = {} /\ cancel_target = NoSlot

IInv ==
  /\ TypeOK
  /\ PoolAccounting
  /\ HolderInv
  /\ TotalsInv
  /\ OwedInv
  /\ CallbackInv
  /\ WireInv
  /\ LatchInv
  /\ FreedInv

-----------------------------------------------------------------------------
(* The free stack *)

LEMMA BusyFinite == IsFiniteSet(BusySlots) /\ Cardinality(BusySlots) \in Nat
<1>1. BusySlots \in SUBSET Slots
  BY DEF BusySlots
<1>2. IsFiniteSet(BusySlots)
  BY <1>1, FS_Subset, PoolAssumption
<1> QED
  BY <1>2, FS_CardinalityType

(* Freeing a busy slot keeps the stack and outstanding right (finish_locked, *)
(* abandon).                                                                 *)
LEMMA PushFreePool ==
  ASSUME TypeOK, PoolAccounting, NEW s \in Slots, slot_state[s] # "free", PushFree(s)
  PROVE  PoolAccounting' /\ outstanding' \in Nat
<1>1. BusySlots' = BusySlots \ {s}
  BY DEF BusySlots, PushFree, TypeOK
<1>2. s \in BusySlots
  BY DEF BusySlots
<1>3. Cardinality(BusySlots') = Cardinality(BusySlots) - 1
  BY <1>1, <1>2, BusyFinite, FS_RemoveElement
<1>4. Cardinality(BusySlots') \in Nat
  BY <1>1, BusyFinite, FS_RemoveElement, FS_CardinalityType
<1>5. outstanding' \in Nat /\ outstanding' = Cardinality(BusySlots')
  BY <1>3, <1>4, BusyFinite DEF PushFree, PoolAccounting
<1>6. /\ free_stack \in Seq(Slots)
      /\ free_stack' = Append(free_stack, s)
  BY DEF PushFree, TypeOK
<1>7. /\ Len(free_stack') = Len(free_stack) + 1
      /\ \A i \in 1..Len(free_stack) : free_stack'[i] = free_stack[i]
      /\ free_stack'[Len(free_stack) + 1] = s
      /\ Len(free_stack) \in Nat
  BY <1>6, AppendProperties, LenProperties
<1>8. \A i \in 1..Len(free_stack) : free_stack[i] # s
  BY <1>2 DEF PoolAccounting
<1>9. \A i \in 1..Len(free_stack') :
         i \in 1..Len(free_stack) \/ i = Len(free_stack) + 1
  BY <1>7
<1>10. \A i, j \in 1..Len(free_stack') : free_stack'[i] = free_stack'[j] => i = j
  BY <1>7, <1>8, <1>9 DEF PoolAccounting
<1>11. \A r \in Slots : r \notin BusySlots' <=>
                        \E i \in 1..Len(free_stack') : free_stack'[i] = r
  <2> TAKE r \in Slots
  <2>1. CASE r = s
    <3>1. Len(free_stack) + 1 \in 1..Len(free_stack')
      BY <1>7
    <3> QED
      BY <2>1, <3>1, <1>1, <1>7
  <2>2. CASE r # s
    <3>1. r \notin BusySlots' <=> \E i \in 1..Len(free_stack) : free_stack[i] = r
      BY <2>2, <1>1 DEF PoolAccounting
    <3>2. 1..Len(free_stack) \subseteq 1..Len(free_stack')
      BY <1>7
    <3> QED
      BY <2>2, <3>1, <3>2, <1>7, <1>9
  <2> QED
    BY <2>1, <2>2
<1> QED
  BY <1>5, <1>10, <1>11 DEF PoolAccounting

(* Taking the top slot keeps them right (acquire). *)
LEMMA AcquirePool ==
  ASSUME TypeOK, PoolAccounting, NEW n \in Nodes, Acquire(n)
  PROVE  /\ PoolAccounting'
         /\ free_stack[Len(free_stack)] \in Slots
         /\ slot_state[free_stack[Len(free_stack)]] = "free"
         /\ Len(free_stack') = Len(free_stack) - 1
         /\ free_stack' \in Seq(Slots)
<1> DEFINE top == Len(free_stack)
           s == free_stack[top]
<1>1. /\ free_stack \in Seq(Slots) /\ free_stack # <<>>
      /\ free_stack' = SubSeq(free_stack, 1, top - 1)
      /\ slot_state' = [slot_state EXCEPT ![s] = "prepared"]
      /\ outstanding' = outstanding + 1
  BY DEF TypeOK, Acquire, SlotAvailableTo
<1>2. top \in Nat /\ top > 0 /\ top \in 1..top /\ s \in Slots
  BY <1>1, EmptySeq, LenProperties, ElementOfSeq
<1>3. /\ Len(free_stack') = top - 1
      /\ \A i \in 1..(top - 1) : free_stack'[i] = free_stack[i]
      /\ free_stack' \in Seq(Slots)
  <2>1. \A i \in 1..(top - 1) : free_stack[i] \in Slots
    BY <1>1, <1>2, ElementOfSeq
  <2>2. top - 1 \in Int /\ 1 \in Int
    BY <1>2
  <2>3. /\ SubSeq(free_stack, 1, top - 1) \in Seq(Slots)
        /\ Len(SubSeq(free_stack, 1, top - 1)) =
             IF 1 <= top - 1 THEN (top - 1) - 1 + 1 ELSE 0
        /\ \A i \in 1..((top - 1) - 1 + 1) :
              SubSeq(free_stack, 1, top - 1)[i] = free_stack[1 + i - 1]
    BY <2>1, <2>2, SubSeqProperties
  <2>4. Len(free_stack') = top - 1
    <3>1. ASSUME NEW k \in Nat, k > 0
          PROVE  (IF 1 <= k - 1 THEN (k - 1) - 1 + 1 ELSE 0) = k - 1
      BY <3>1
    <3> QED
      BY <1>1, <1>2, <2>3, <3>1, Zenon
  <2>5. ASSUME NEW i \in 1..(top - 1)
        PROVE  free_stack'[i] = free_stack[i]
    <3>1. i \in 1..((top - 1) - 1 + 1) /\ 1 + i - 1 = i
      BY <1>2
    <3> QED
      BY <1>1, <2>3, <3>1
  <2> QED
    BY <1>1, <2>3, <2>4, <2>5
<1>4. s \notin BusySlots
  BY <1>2 DEF PoolAccounting
<1>5. BusySlots' = BusySlots \union {s}
  BY <1>1, <1>2 DEF BusySlots, TypeOK
<1>6. Cardinality(BusySlots') = Cardinality(BusySlots) + 1
  BY <1>4, <1>5, BusyFinite, FS_AddElement
<1>7. \A i \in 1..(top - 1) : i \in 1..top /\ free_stack[i] # s
  BY <1>2 DEF PoolAccounting
<1>8. \A r \in Slots : r \notin BusySlots' <=>
                       \E i \in 1..(top - 1) : free_stack'[i] = r
  <2> TAKE r \in Slots
  <2>1. CASE r = s
    BY <2>1, <1>3, <1>5, <1>7
  <2>2. CASE r # s
    <3>1. r \notin BusySlots' <=> \E i \in 1..top : free_stack[i] = r
      BY <2>2, <1>5 DEF PoolAccounting
    <3>2. \A i \in 1..top : i \in 1..(top - 1) \/ i = top
      BY <1>2
    <3> QED
      BY <2>2, <3>1, <3>2, <1>3, <1>7
  <2> QED
    BY <2>1, <2>2
<1>9. \A i, j \in 1..Len(free_stack') : free_stack'[i] = free_stack'[j] => i = j
  BY <1>3, <1>7 DEF PoolAccounting
<1>10. slot_state[s] = "free"
  BY <1>2, <1>4 DEF BusySlots
<1> QED
  BY <1>1, <1>2, <1>3, <1>6, <1>8, <1>9, <1>10 DEF PoolAccounting

-----------------------------------------------------------------------------
(* Reservations *)

LEMMA ReservingFinite ==
  /\ IsFiniteSet(Reserving) /\ IsFiniteSet(Unfilled)
  /\ Cardinality(Reserving) \in Nat /\ Cardinality(Unfilled) \in Nat
<1>1. Reserving \in SUBSET Nodes /\ Unfilled \in SUBSET Nodes
  BY DEF Reserving, Unfilled
<1>2. IsFiniteSet(Reserving) /\ IsFiniteSet(Unfilled)
  BY <1>1, FS_Subset, PoolAssumption
<1> QED
  BY <1>2, FS_CardinalityType

LEMMA PoolSizeNat == PoolSize \in Nat /\ PoolSize > 0
<1>1. PoolSize \in Nat /\ PoolSize # 0
  BY PoolAssumption, FS_CardinalityType, FS_EmptySet DEF PoolSize
<1> QED
  BY <1>1

(* Freeing the slot of Node n gives its reserved unit back and touches no    *)
(* other Node (release_reservation_locked).                                  *)
LEMMA ReleaseSlot ==
  ASSUME TypeOK, HolderInv, TotalsInv, NEW s \in Slots, slot_state[s] # "free",
         ReleaseReservation(s), PushFree(s), NEW n, n = slot_user[s]
  PROVE  /\ HolderInv' /\ TotalsInv'
         /\ n \in Nodes /\ Held(n) /\ ~Held(n)'
         /\ \A m \in Nodes : m # n => (Held(m)' <=> Held(m))
         /\ in_use' \in [Nodes -> Nat] /\ unfilled_total' \in Nat
<1>1. n \in Nodes /\ n \in reservations /\ n # NoNode
  BY PoolAssumption DEF HolderInv, TypeOK
<1>2. Held(n) /\ in_use[n] = 1
  BY <1>1 DEF Held, HolderInv
<1>3. in_use' = [in_use EXCEPT ![n] = 0]
  BY <1>1, <1>2 DEF ReleaseReservation, TypeOK
<1>4. slot_user' = [slot_user EXCEPT ![s] = NoNode]
  BY DEF PushFree
<1>5. ~Held(n)'
  BY <1>1, <1>4, PoolAssumption DEF Held, HolderInv, TypeOK
<1>6. ASSUME NEW m \in Nodes, m # n
      PROVE  Held(m)' <=> Held(m)
  <2>1. m # NoNode
    BY PoolAssumption
  <2>2. \A r \in Slots : slot_user'[r] = m <=> slot_user[r] = m
    BY <1>4, <1>6, <2>1 DEF TypeOK
  <2> QED
    BY <2>2 DEF Held
<1>7. HolderInv'
  <2>1. \A r \in Slots : slot_state'[r] = "free" <=> slot_user'[r] = NoNode
    BY <1>4 DEF PushFree, HolderInv, TypeOK
  <2>2. \A r \in Slots : slot_user'[r] # NoNode => slot_user'[r] \in reservations'
    BY <1>4 DEF HolderInv, TypeOK, ReleaseReservation
  <2>3. \A q, r \in Slots : slot_user'[q] # NoNode /\ slot_user'[q] = slot_user'[r]
                             => q = r
    BY <1>4 DEF HolderInv, TypeOK
  <2>4. ASSUME NEW m \in Nodes
        PROVE  in_use'[m] = IF Held(m)' THEN 1 ELSE 0
    <3>1. CASE m = n
      BY <3>1, <1>1, <1>3, <1>5 DEF TypeOK
    <3>2. CASE m # n
      <4>1. in_use[m] = IF Held(m) THEN 1 ELSE 0
        BY DEF HolderInv
      <4>2. in_use'[m] = in_use[m]
        BY <3>2, <1>3 DEF TypeOK
      <4>3. Held(m)' <=> Held(m)
        BY <3>2, <1>6
      <4> QED
        BY <4>1, <4>2, <4>3
    <3> QED
      BY <3>1, <3>2
  <2>5. \A r \in Slots : slot_user'[r] # NoNode =>
                           (slot_counted'[r] <=> capacity'[slot_user'[r]] = 1)
    <3> SUFFICES ASSUME NEW r \in Slots, slot_user'[r] # NoNode
                 PROVE  slot_counted'[r] <=> capacity'[slot_user'[r]] = 1
      OBVIOUS
    <3>1. r # s /\ slot_user'[r] = slot_user[r]
      BY <1>4 DEF TypeOK
    <3>2. slot_counted'[r] = slot_counted[r] /\ capacity' = capacity
      BY <3>1 DEF ReleaseReservation, TypeOK
    <3> QED
      BY <3>1, <3>2 DEF HolderInv
  <2>6. \A m \in Nodes : m \notin reservations' => capacity'[m] = 0
    BY DEF HolderInv, ReleaseReservation
  <2> QED
    BY <2>1, <2>2, <2>3, <2>4, <2>5, <2>6 DEF HolderInv
<1>8. TotalsInv'
  <2>1. Reserving' = Reserving
    BY DEF Reserving, ReleaseReservation
  <2>2. slot_counted[s] <=> capacity[n] = 1
    BY <1>1 DEF HolderInv
  <2>3. CASE capacity[n] = 1
    <3>1. Unfilled' = Unfilled \union {n} /\ n \notin Unfilled
      BY <1>1, <1>2, <1>3, <2>1, <2>3 DEF Unfilled, Reserving, TypeOK
    <3>2. Cardinality(Unfilled') = Cardinality(Unfilled) + 1
      BY <3>1, ReservingFinite, FS_AddElement
    <3>3. unfilled_total' = unfilled_total + 1
      BY <1>2, <2>2, <2>3 DEF ReleaseReservation
    <3> QED
      BY <2>1, <3>2, <3>3 DEF TotalsInv, ReleaseReservation
  <2>4. CASE capacity[n] # 1
    <3>1. Unfilled' = Unfilled
      BY <1>3, <2>1, <2>4 DEF Unfilled, Reserving, TypeOK
    <3>2. unfilled_total' = unfilled_total
      BY <1>2, <2>2, <2>4 DEF ReleaseReservation
    <3> QED
      BY <2>1, <3>1, <3>2 DEF TotalsInv, ReleaseReservation
  <2> QED
    BY <2>3, <2>4
<1>9. in_use' \in [Nodes -> Nat]
  BY <1>3 DEF TypeOK
<1>10. unfilled_total' \in Nat
  <2>1. unfilled_total' = unfilled_total \/ unfilled_total' = unfilled_total + 1
    BY <1>2 DEF ReleaseReservation
  <2> QED
    BY <2>1 DEF TypeOK
<1> QED
  BY <1>1, <1>2, <1>5, <1>6, <1>7, <1>8, <1>9, <1>10

-----------------------------------------------------------------------------
(* Finishing a slot *)

(* finish_locked moves the completion a Node is owed from its slot to the    *)
(* thread, whichever thread it is and whatever ended the transfer.           *)
LEMMA FinishStep ==
  ASSUME IInv, NEW t \in Threads, Idle(t), NEW s \in Slots, slot_state[s] # "free",
         NEW r \in Results, NEW code \in Natives, code = "CANCELLED" => closing,
         Finish(t, s, r, code),
         UNCHANGED <<closing, inflight, freed>>,
         cancel_todo' \subseteq Slots, cancel_target' \in Slots \union {NoSlot},
         wire' \in [Slots -> {"idle", "flying", "cancelling"}]
  PROVE  /\ TypeOK' /\ PoolAccounting' /\ HolderInv' /\ TotalsInv'
         /\ OwedInv' /\ CallbackInv' /\ LatchInv'
<1> PICK n : n = slot_user[s]
  OBVIOUS
<1> USE DEF IInv
<1>1. /\ ReleaseReservation(s) /\ PushFree(s) /\ Latch(r, code)
      /\ notice' = [notice EXCEPT ![t] = [stage |-> "deliver", user |-> n]]
      /\ callbacks_active' = callbacks_active + 1
  BY DEF Finish
<1>2. /\ HolderInv' /\ TotalsInv'
      /\ n \in Nodes /\ Held(n) /\ ~Held(n)'
      /\ \A m \in Nodes : m # n => (Held(m)' <=> Held(m))
      /\ in_use' \in [Nodes -> Nat] /\ unfilled_total' \in Nat
  BY <1>1, ReleaseSlot
<1>3. PoolAccounting' /\ outstanding' \in Nat
  BY <1>1, PushFreePool
<1>4. TypeOK'
  <2>1. free_stack' \in Seq(Slots)
    BY <1>1, AppendProperties DEF PushFree, TypeOK
  <2>2. /\ slot_state' \in [Slots -> SlotStates]
        /\ slot_user' \in [Slots -> Nodes \union {NoNode}]
    BY <1>1 DEF PushFree, TypeOK, SlotStates
  <2>3. /\ slot_counted' \in [Slots -> BOOLEAN]
        /\ UNCHANGED <<reservations, capacity, reserved_total>>
    BY <1>1 DEF ReleaseReservation, TypeOK
  <2>4. latched' \in [result : Results, native : Natives] /\ present' \in BOOLEAN
    <3>1. \/ UNCHANGED latchVars
          \/ /\ latched' = [result |-> r, native |-> code] \/ latched' = latched
             /\ present' = FALSE \/ present' = present
      BY <1>1 DEF Latch
    <3>2. [result |-> r, native |-> code] \in [result : Results, native : Natives]
      OBVIOUS
    <3>3. latched' = latched \/ latched' = [result |-> r, native |-> code]
      BY <3>1 DEF latchVars
    <3>4. present' = present \/ present' = FALSE
      BY <3>1 DEF latchVars
    <3>5. latched \in [result : Results, native : Natives] /\ present \in BOOLEAN
      BY DEF TypeOK
    <3>6. latched' \in [result : Results, native : Natives]
      BY <3>2, <3>3, <3>5
    <3>7. present' \in BOOLEAN
      BY <3>4, <3>5, Zenon
    <3> QED
      BY <3>6, <3>7
  <2>5. notice' \in [Threads -> [stage : Stages, user : Nodes \union {NoNode}]]
    BY <1>1, <1>2 DEF TypeOK, Stages
  <2> QED
    BY <1>1, <1>2, <1>3, <2>1, <2>2, <2>3, <2>4, <2>5 DEF TypeOK
<1>5. OwedInv'
  <2>1. /\ Owes(t, n)'
        /\ \A m \in Nodes : ~Owes(t, m) /\ (m # n => ~Owes(t, m)')
        /\ \A u \in Threads : u # t => \A m \in Nodes : Owes(u, m)' <=> Owes(u, m)
    BY <1>1, <1>2 DEF Owes, Idle, TypeOK, Threads
  <2>2. \A u \in Threads : ~Owes(u, n)
    BY <1>2 DEF OwedInv
  <2>3. inflight[n] /\ inflight' = inflight
    BY <1>2 DEF OwedInv
  <2>4. ASSUME NEW m \in Nodes
        PROVE  inflight'[m] <=> Held(m)' \/ \E u \in Threads : Owes(u, m)'
    BY <1>2, <2>1, <2>2, <2>3 DEF OwedInv
  <2>5. ASSUME NEW m \in Nodes, NEW u \in Threads
        PROVE  ~(Held(m)' /\ Owes(u, m)')
    BY <1>2, <2>1, <2>2 DEF OwedInv
  <2>6. ASSUME NEW m \in Nodes
        PROVE  ~(Owes("app", m)' /\ Owes("event", m)')
    BY <1>2, <2>1, <2>2 DEF OwedInv, Threads
  <2>7. \A u \in Threads : notice'[u].stage = "deliver" => notice'[u].user \in Nodes
    BY <1>1, <1>2 DEF OwedInv, TypeOK
  <2> QED
    BY <2>4, <2>5, <2>6, <2>7 DEF OwedInv
<1>6. CallbackInv'
  BY <1>1 DEF CallbackInv, Idle, Threads, TypeOK
<1>7. LatchInv'
  BY <1>1 DEF Latch, LatchInv, latchVars, TypeOK
<1> QED
  BY <1>2, <1>3, <1>4, <1>5, <1>6, <1>7

-----------------------------------------------------------------------------
(* The inductive invariant *)

(* The invariants that do not read the variables a step leaves alone.        *)
LEMMA SameSlots ==
  ASSUME IInv, UNCHANGED <<poolVars, ledgerVars>>
  PROVE  PoolAccounting' /\ HolderInv' /\ TotalsInv'
BY DEF IInv, poolVars, ledgerVars, PoolAccounting, BusySlots, HolderInv, Held,
       TotalsInv, Reserving, Unfilled

LEMMA InitIInv == Init => IInv
<1> SUFFICES ASSUME Init
             PROVE  IInv
  OBVIOUS
<1>1. /\ free_stack \in [1..PoolSize -> Slots]
      /\ \A i, j \in 1..PoolSize : free_stack[i] = free_stack[j] => i = j
  BY DEF Init
<1>2. free_stack \in Seq(Slots) /\ Len(free_stack) = PoolSize
  BY <1>1, PoolSizeNat, SeqDef, LenProperties
<1>3. TypeOK
  BY <1>2 DEF Init, TypeOK, SlotStates, NoError, NoNotice, Results, Natives, Stages
<1>4. BusySlots = {} /\ Reserving = {} /\ Unfilled = {}
  BY DEF Init, BusySlots, Reserving, Unfilled
<1>5. Cardinality({}) = 0
  BY FS_EmptySet
<1>6. ASSUME NEW s \in Slots
      PROVE  \E i \in 1..PoolSize : free_stack[i] = s
  <2>1. IsFiniteSet(1..PoolSize) /\ Cardinality(1..PoolSize) = PoolSize
    BY PoolSizeNat, FS_Interval
  <2>2. free_stack \in Injection(1..PoolSize, Slots)
    BY <1>1 DEF Injection, IsInjective
  <2>3. free_stack \in Surjection(1..PoolSize, Slots)
    BY <2>1, <2>2, PoolAssumption, FS_Injection DEF PoolSize
  <2> QED
    BY <2>3 DEF Surjection
<1>7. PoolAccounting
  BY <1>1, <1>2, <1>4, <1>5, <1>6 DEF PoolAccounting, Init
<1>8. HolderInv
  BY PoolAssumption DEF HolderInv, Held, Init
<1>9. TotalsInv
  BY <1>4, <1>5, PoolSizeNat DEF TotalsInv, Init
<1>10. OwedInv /\ CallbackInv
  BY PoolAssumption DEF OwedInv, CallbackInv, Held, Owes, Idle, Init, NoNotice, Threads
<1>11. WireInv /\ LatchInv /\ FreedInv
  BY DEF WireInv, LatchInv, FreedInv, Init, NoError
<1> QED
  BY <1>3, <1>7, <1>8, <1>9, <1>10, <1>11 DEF IInv

LEMMA SetReservationStep ==
  ASSUME IInv, NEW n \in Nodes, NEW count \in {0, 1}, SetReservation(n, count)
  PROVE  IInv'
<1> USE DEF IInv
<1>1. TypeOK'
  BY DEF SetReservation, TypeOK, poolVars, latchVars, cancelVars, callbackVars
<1>2. PoolAccounting'
  BY DEF SetReservation, PoolAccounting, BusySlots, poolVars
<1>3. ~Held(n) /\ capacity[n] = 0 /\ in_use[n] = 0
  BY PoolAssumption DEF SetReservation, HolderInv, Held
<1>4. HolderInv'
  BY <1>3 DEF SetReservation, HolderInv, Held, TypeOK, poolVars
<1>5. TotalsInv'
  <2>1. n \notin Reserving /\ n \notin Unfilled
    BY <1>3 DEF Reserving, Unfilled
  <2>2. CASE count = 0
    <3>1. Reserving' = Reserving /\ Unfilled' = Unfilled
      BY <2>2, <1>3 DEF SetReservation, Reserving, Unfilled, TypeOK
    <3> QED
      BY <2>2, <3>1 DEF SetReservation, TotalsInv, TypeOK, PoolSize
  <2>3. CASE count = 1
    <3>1. Reserving' = Reserving \union {n} /\ Unfilled' = Unfilled \union {n}
      BY <2>3, <1>3 DEF SetReservation, Reserving, Unfilled, TypeOK
    <3>2. /\ Cardinality(Reserving') = Cardinality(Reserving) + 1
          /\ Cardinality(Unfilled') = Cardinality(Unfilled) + 1
      BY <2>1, <3>1, ReservingFinite, FS_AddElement
    <3>3. reserved_total + 1 < PoolSize
      BY <2>3, PoolSizeNat DEF SetReservation, LeavesSharedSlot, TypeOK
    <3> QED
      BY <2>3, <3>2, <3>3 DEF SetReservation, TotalsInv, PoolSize
  <2> QED
    BY <2>2, <2>3
<1>6. OwedInv' /\ CallbackInv' /\ WireInv' /\ LatchInv' /\ FreedInv'
  BY DEF SetReservation, OwedInv, Held, Owes, CallbackInv, Idle, WireInv,
         LatchInv, FreedInv, AppReady, poolVars, latchVars, cancelVars, callbackVars
<1> QED
  BY <1>1, <1>2, <1>4, <1>5, <1>6

LEMMA ClearReservationStep ==
  ASSUME IInv, NEW n \in Nodes, ClearReservation(n)
  PROVE  IInv'
<1> USE DEF IInv
<1>1. ~Held(n) /\ capacity[n] \in {0, 1}
  BY DEF ClearReservation, OwedInv, TypeOK
<1>2. TotalsInv' /\ reserved_total' \in Nat /\ unfilled_total' \in Nat
  <2>1. CASE capacity[n] = 0
    <3>1. Reserving' = Reserving /\ Unfilled' = Unfilled
      BY <2>1 DEF ClearReservation, Reserving, Unfilled, TypeOK
    <3> QED
      BY <2>1, <3>1 DEF ClearReservation, TotalsInv, TypeOK, PoolSize
  <2>2. CASE capacity[n] = 1
    <3>1. /\ Reserving' = Reserving \ {n} /\ Unfilled' = Unfilled \ {n}
          /\ n \in Reserving /\ n \in Unfilled
      BY <2>2 DEF ClearReservation, Reserving, Unfilled, TypeOK
    <3>2. /\ Cardinality(Reserving') = Cardinality(Reserving) - 1
          /\ Cardinality(Unfilled') = Cardinality(Unfilled) - 1
      BY <3>1, ReservingFinite, FS_RemoveElement
    <3>3. Cardinality(Reserving') \in Nat /\ Cardinality(Unfilled') \in Nat
      BY <3>1, ReservingFinite, FS_RemoveElement, FS_CardinalityType
    <3>4. /\ reserved_total' = reserved_total - 1
          /\ unfilled_total' = unfilled_total - 1
      BY <2>2 DEF ClearReservation
    <3>5. PoolSize' = PoolSize
      BY DEF PoolSize
    <3> QED
      BY <3>2, <3>3, <3>4, <3>5, PoolSizeNat, ReservingFinite DEF TotalsInv
  <2> QED
    BY <1>1, <2>1, <2>2
<1>3. TypeOK'
  BY <1>2 DEF ClearReservation, TypeOK, poolVars, latchVars, cancelVars, callbackVars
<1>4. PoolAccounting'
  BY DEF ClearReservation, PoolAccounting, BusySlots, poolVars
<1>5. HolderInv'
  BY <1>1 DEF ClearReservation, HolderInv, Held, TypeOK, poolVars
<1>6. OwedInv' /\ CallbackInv' /\ WireInv' /\ LatchInv' /\ FreedInv'
  BY DEF ClearReservation, OwedInv, Held, Owes, CallbackInv, Idle, WireInv,
         LatchInv, FreedInv, AppReady, poolVars, latchVars, cancelVars, callbackVars
<1> QED
  BY <1>2, <1>3, <1>4, <1>5, <1>6

LEMMA AcquireStep ==
  ASSUME IInv, NEW n \in Nodes, Acquire(n)
  PROVE  IInv'
<1> USE DEF IInv
<1> PICK s : s = free_stack[Len(free_stack)]
  OBVIOUS
<1>1. /\ PoolAccounting' /\ s \in Slots /\ slot_state[s] = "free"
      /\ free_stack' \in Seq(Slots)
  BY AcquirePool
<1>2. ~Held(n) /\ in_use[n] = 0 /\ \A t \in Threads : ~Owes(t, n)
  BY DEF Acquire, OwedInv, HolderInv
<1>3. n # NoNode /\ capacity[n] \in {0, 1} /\ slot_user[s] = NoNode
  BY <1>1, PoolAssumption DEF TypeOK, HolderInv
<1>4. /\ inflight' = [inflight EXCEPT ![n] = TRUE]
      /\ slot_state' = [slot_state EXCEPT ![s] = "prepared"]
      /\ slot_user' = [slot_user EXCEPT ![s] = n]
      /\ slot_counted' = [slot_counted EXCEPT ![s] = (capacity[n] = 1)]
      /\ in_use' = [in_use EXCEPT ![n] = 1]
      /\ unfilled_total' = IF capacity[n] = 1 THEN unfilled_total - 1
                                              ELSE unfilled_total
      /\ outstanding' = outstanding + 1
      /\ n \in reservations
      /\ UNCHANGED <<reservations, capacity, reserved_total, latchVars, cancelVars,
                     callbackVars, wire, freed>>
  <2>1. FillingOwnReservation(n) = (capacity[n] = 1)
    BY <1>2, <1>3 DEF FillingOwnReservation
  <2>2. /\ slot_counted' = [slot_counted EXCEPT ![s] = FillingOwnReservation(n)]
        /\ unfilled_total' = IF FillingOwnReservation(n) THEN unfilled_total - 1
                                                         ELSE unfilled_total
    BY Zenon DEF Acquire
  <2>3. /\ slot_counted' = [slot_counted EXCEPT ![s] = (capacity[n] = 1)]
        /\ unfilled_total' = IF capacity[n] = 1 THEN unfilled_total - 1
                                                ELSE unfilled_total
    BY <2>1, <2>2, Zenon
  <2>4. in_use' = [in_use EXCEPT ![n] = in_use[n] + 1]
    BY DEF Acquire
  <2>5. in_use' = [in_use EXCEPT ![n] = 1]
    BY <1>2, <2>4
  <2> QED
    BY <2>3, <2>5 DEF Acquire
<1>5. TotalsInv' /\ unfilled_total' \in Nat
  <2>1. Reserving' = Reserving
    BY <1>4 DEF Reserving
  <2>2. CASE capacity[n] = 1
    <3>1. n \in Unfilled /\ Unfilled' = Unfilled \ {n}
      BY <1>2, <1>4, <2>1, <2>2 DEF Reserving, Unfilled, TypeOK
    <3>2. Cardinality(Unfilled') = Cardinality(Unfilled) - 1
      BY <3>1, ReservingFinite, FS_RemoveElement
    <3>3. Cardinality(Unfilled') \in Nat
      BY <3>1, ReservingFinite, FS_RemoveElement, FS_CardinalityType
    <3> QED
      BY <1>4, <2>1, <2>2, <3>2, <3>3 DEF TotalsInv, PoolSize
  <2>3. CASE capacity[n] = 0
    <3>1. Unfilled' = Unfilled
      BY <1>4, <2>1, <2>3 DEF Reserving, Unfilled, TypeOK
    <3> QED
      BY <1>4, <2>1, <2>3, <3>1 DEF TotalsInv, PoolSize, TypeOK
  <2> QED
    BY <1>3, <2>2, <2>3
<1>6. TypeOK'
  BY <1>1, <1>4, <1>5
  DEF TypeOK, SlotStates, latchVars, cancelVars, callbackVars
<1>7. Held(n)' /\ \A m \in Nodes : m # n => (Held(m)' <=> Held(m))
  <2>1. \A r \in Slots : slot_user'[r] = IF r = s THEN n ELSE slot_user[r]
    BY <1>1, <1>4 DEF TypeOK
  <2>2. \A m \in Nodes : m # NoNode
    BY PoolAssumption
  <2> QED
    BY <1>1, <1>3, <2>1, <2>2 DEF Held
<1>8. HolderInv'
  <2>1. \A r \in Slots : slot_user'[r] = IF r = s THEN n ELSE slot_user[r]
    BY <1>4 DEF TypeOK
  <2>2. \A r \in Slots : slot_state'[r] = "free" <=> slot_user'[r] = NoNode
    BY <1>3, <1>4, <2>1 DEF HolderInv, TypeOK
  <2>3. \A r \in Slots : slot_user'[r] # NoNode => slot_user'[r] \in reservations'
    BY <1>4, <2>1 DEF HolderInv
  <2>4. \A q, r \in Slots : slot_user'[q] # NoNode /\ slot_user'[q] = slot_user'[r]
                             => q = r
    BY <1>2, <2>1 DEF HolderInv, Held
  <2>5. ASSUME NEW m \in Nodes
        PROVE  in_use'[m] = IF Held(m)' THEN 1 ELSE 0
    <3>1. CASE m = n
      BY <3>1, <1>4, <1>7 DEF TypeOK
    <3>2. CASE m # n
      <4>1. in_use'[m] = in_use[m]
        BY <3>2, <1>4 DEF TypeOK
      <4> QED
        BY <3>2, <4>1, <1>7 DEF HolderInv
    <3> QED
      BY <3>1, <3>2
  <2>6. ASSUME NEW r \in Slots, slot_user'[r] # NoNode
        PROVE  slot_counted'[r] <=> capacity'[slot_user'[r]] = 1
    <3>1. CASE r = s
      BY <3>1, <1>1, <1>4, <2>1 DEF TypeOK
    <3>2. CASE r # s
      <4>1. slot_counted'[r] = slot_counted[r] /\ slot_user'[r] = slot_user[r]
        BY <3>2, <1>4, <2>1 DEF TypeOK
      <4> QED
        BY <4>1, <2>6, <1>4 DEF HolderInv
    <3> QED
      BY <3>1, <3>2
  <2>7. \A m \in Nodes : m \notin reservations' => capacity'[m] = 0
    BY <1>4 DEF HolderInv
  <2> QED
    BY <2>2, <2>3, <2>4, <2>5, <2>6, <2>7 DEF HolderInv
<1>9. OwedInv'
  <2>1. \A t \in Threads, m \in Nodes : Owes(t, m)' <=> Owes(t, m)
    BY <1>4 DEF Owes, callbackVars
  <2>2. \A t \in Threads : notice'[t].stage = "deliver" => notice'[t].user \in Nodes
    BY <1>4 DEF OwedInv, callbackVars
  <2>3. \A m \in Nodes : inflight'[m] <=> m = n \/ inflight[m]
    BY <1>4 DEF TypeOK
  <2>4. "app" \in Threads /\ "event" \in Threads
    BY DEF Threads
  <2>5. ASSUME NEW m \in Nodes
        PROVE  /\ inflight'[m] <=> Held(m)' \/ \E t \in Threads : Owes(t, m)'
               /\ \A t \in Threads : ~(Held(m)' /\ Owes(t, m)')
               /\ ~(Owes("app", m)' /\ Owes("event", m)')
    BY <1>2, <1>7, <2>1, <2>3, <2>4 DEF OwedInv
  <2> QED
    BY <2>2, <2>5 DEF OwedInv
<1>10. CallbackInv' /\ LatchInv'
  BY <1>4 DEF CallbackInv, Idle, LatchInv, callbackVars, latchVars
<1>11. WireInv'
  BY <1>1, <1>4 DEF WireInv, TypeOK, cancelVars
<1>12. FreedInv'
  BY <1>4 DEF FreedInv, Acquire, AppReady
<1> QED
  BY <1>1, <1>5, <1>6, <1>8, <1>9, <1>10, <1>11, <1>12

LEMMA SubmitAcceptedStep ==
  ASSUME IInv, NEW s \in Slots, SubmitAccepted(s)
  PROVE  IInv'
<1> USE DEF IInv
<1>1. TypeOK'
  BY DEF SubmitAccepted, TypeOK, SlotStates, ledgerVars, latchVars, cancelVars,
         callbackVars
<1>2. BusySlots' = BusySlots
  BY DEF SubmitAccepted, BusySlots, TypeOK
<1>3. PoolAccounting'
  BY <1>2 DEF SubmitAccepted, PoolAccounting
<1>4. HolderInv' /\ TotalsInv'
  BY DEF SubmitAccepted, HolderInv, Held, TotalsInv, Reserving, Unfilled, PoolSize,
         TypeOK, ledgerVars
<1>5. OwedInv' /\ CallbackInv' /\ LatchInv' /\ FreedInv'
  BY DEF SubmitAccepted, OwedInv, Held, Owes, CallbackInv, Idle, LatchInv, FreedInv,
         AppReady, latchVars, callbackVars
<1>6. WireInv'
  BY DEF SubmitAccepted, WireInv, TypeOK, cancelVars
<1> QED
  BY <1>1, <1>3, <1>4, <1>5, <1>6

LEMMA SubmitRejectedStep ==
  ASSUME IInv, NEW s \in Slots, SubmitRejected(s)
  PROVE  IInv'
<1> USE DEF IInv
<1>1. PICK f \in SubmitFailure : Finish("app", s, f.result, f.native)
  BY DEF SubmitRejected
<1>2. /\ f.result \in Results /\ f.native \in Natives
      /\ f.native = "CANCELLED" => closing
  BY DEF SubmitFailure, Results, Natives, AllStatuses
<1>3. Idle("app") /\ "app" \in Threads /\ slot_state[s] = "prepared"
  BY DEF SubmitRejected, AppReady, Threads
<1>4. UNCHANGED <<closing, cancel_todo, cancel_target, inflight, wire, freed>>
  BY DEF SubmitRejected, cancelVars
<1>5. /\ cancel_todo' \subseteq Slots /\ cancel_target' \in Slots \union {NoSlot}
      /\ wire' \in [Slots -> {"idle", "flying", "cancelling"}]
  BY <1>4 DEF TypeOK
<1>6. /\ TypeOK' /\ PoolAccounting' /\ HolderInv' /\ TotalsInv'
      /\ OwedInv' /\ CallbackInv' /\ LatchInv'
  BY <1>1, <1>2, <1>3, <1>4, <1>5, FinishStep
<1>7. slot_state' = [slot_state EXCEPT ![s] = "free"]
  BY <1>1 DEF Finish, PushFree
<1>8. WireInv'
  BY <1>3, <1>4, <1>7 DEF WireInv, TypeOK
<1>9. FreedInv'
  BY <1>4 DEF FreedInv, SubmitRejected, AppReady
<1> QED
  BY <1>6, <1>8, <1>9

LEMMA AbandonStep ==
  ASSUME IInv, NEW s \in Slots, Abandon(s)
  PROVE  IInv'
<1> USE DEF IInv
<1> PICK n : n = slot_user[s]
  OBVIOUS
<1>1. /\ ReleaseReservation(s) /\ PushFree(s) /\ slot_state[s] = "prepared"
      /\ inflight' = [inflight EXCEPT ![n] = FALSE]
      /\ UNCHANGED <<latchVars, cancelVars, callbackVars, wire, freed>>
  BY DEF Abandon
<1>2. /\ HolderInv' /\ TotalsInv'
      /\ n \in Nodes /\ Held(n) /\ ~Held(n)'
      /\ \A m \in Nodes : m # n => (Held(m)' <=> Held(m))
      /\ in_use' \in [Nodes -> Nat] /\ unfilled_total' \in Nat
  BY <1>1, ReleaseSlot
<1>3. PoolAccounting' /\ outstanding' \in Nat
  BY <1>1, PushFreePool
<1>4. TypeOK'
  <2>1. free_stack' \in Seq(Slots)
    BY <1>1, AppendProperties DEF PushFree, TypeOK
  <2>2. /\ slot_state' \in [Slots -> SlotStates]
        /\ slot_user' \in [Slots -> Nodes \union {NoNode}]
    BY <1>1 DEF PushFree, TypeOK, SlotStates
  <2>3. /\ slot_counted' \in [Slots -> BOOLEAN]
        /\ UNCHANGED <<reservations, capacity, reserved_total>>
    BY <1>1 DEF ReleaseReservation, TypeOK
  <2> QED
    BY <1>1, <1>2, <1>3, <2>1, <2>2, <2>3
    DEF TypeOK, latchVars, cancelVars, callbackVars
<1>5. OwedInv'
  <2>1. \A t \in Threads, m \in Nodes : Owes(t, m)' <=> Owes(t, m)
    BY <1>1 DEF Owes, callbackVars
  <2>2. \A t \in Threads : ~Owes(t, n)
    BY <1>2 DEF OwedInv
  <2>3. \A t \in Threads : notice'[t].stage = "deliver" => notice'[t].user \in Nodes
    BY <1>1 DEF OwedInv, callbackVars
  <2>4. \A m \in Nodes : inflight'[m] <=> m # n /\ inflight[m]
    BY <1>1 DEF TypeOK
  <2>5. ASSUME NEW m \in Nodes
        PROVE  /\ inflight'[m] <=> Held(m)' \/ \E t \in Threads : Owes(t, m)'
               /\ \A t \in Threads : ~(Held(m)' /\ Owes(t, m)')
               /\ ~(Owes("app", m)' /\ Owes("event", m)')
    BY <1>2, <2>1, <2>2, <2>4 DEF OwedInv, Threads
  <2> QED
    BY <2>3, <2>5 DEF OwedInv
<1>6. CallbackInv' /\ LatchInv'
  BY <1>1 DEF CallbackInv, Idle, LatchInv, callbackVars, latchVars
<1>7. WireInv'
  BY <1>1 DEF WireInv, PushFree, TypeOK, cancelVars
<1>8. FreedInv'
  BY <1>1 DEF FreedInv, Abandon, AppReady
<1> QED
  BY <1>2, <1>3, <1>4, <1>5, <1>6, <1>7, <1>8

(* Steps that touch neither a slot nor a reservation.                        *)
LEMMA OtherStep ==
  ASSUME IInv,
         \/ LatchedError \/ ControlRequestLosesDevice \/ CancelAll
         \/ CancelTransfer \/ DestroyDevice \/ UNCHANGED vars
  PROVE  IInv'
<1> USE DEF IInv
<1>1. UNCHANGED <<poolVars, ledgerVars, callbackVars, inflight>>
  BY DEF LatchedError, ControlRequestLosesDevice, CancelAll, CancelTransfer,
         DestroyDevice, vars, poolVars, ledgerVars, callbackVars
<1>2. PoolAccounting' /\ HolderInv' /\ TotalsInv'
  BY <1>1, SameSlots
<1>3. OwedInv' /\ CallbackInv'
  BY <1>1 DEF OwedInv, Held, Owes, CallbackInv, Idle, poolVars, callbackVars
<1>4. slot_state' = slot_state /\ outstanding' = outstanding
      /\ callbacks_active' = callbacks_active
  BY <1>1 DEF poolVars, callbackVars
<1>5. TypeOK' /\ WireInv' /\ LatchInv' /\ FreedInv'
  <2>1. CASE LatchedError
    <3>1. TypeOK'
      BY <2>1 DEF LatchedError, TypeOK, NoError, Results, Natives, poolVars,
                  ledgerVars, cancelVars, callbackVars
    <3> QED
      BY <2>1, <3>1, <1>4 DEF LatchedError, WireInv, LatchInv, FreedInv, NoError,
                              AppReady, cancelVars
  <2>2. CASE ControlRequestLosesDevice
    <3>1. TypeOK'
      BY <2>2 DEF ControlRequestLosesDevice, TypeOK, Results, Natives, poolVars,
                  ledgerVars, cancelVars, callbackVars
    <3> QED
      BY <2>2, <3>1, <1>4 DEF ControlRequestLosesDevice, WireInv, LatchInv, FreedInv,
                              AppReady, cancelVars
  <2>3. CASE CancelAll
    <3>1. TypeOK'
      BY <2>3 DEF CancelAll, TypeOK, poolVars, ledgerVars, latchVars, callbackVars
    <3> QED
      BY <2>3, <3>1, <1>4 DEF CancelAll, WireInv, LatchInv, FreedInv, AppReady, latchVars
  <2>4. CASE CancelTransfer
    <3>1. closing /\ closing' = closing /\ cancel_target' = NoSlot
          /\ UNCHANGED <<cancel_todo, latched, present, freed>>
      BY <2>4 DEF CancelTransfer, WireInv, latchVars
    <3>2. cancel_target \in Slots /\ ~freed
      BY <2>4 DEF CancelTransfer, TypeOK, FreedInv
    <3>3. /\ wire' \in [Slots -> {"idle", "flying", "cancelling"}]
          /\ \A s \in Slots : wire'[s] # "idle" <=> wire[s] # "idle"
      BY <2>4, <3>2 DEF CancelTransfer, TypeOK
    <3>4. TypeOK'
      BY <1>1, <3>1, <3>3 DEF TypeOK, poolVars, ledgerVars, callbackVars
    <3> QED
      BY <1>4, <3>1, <3>2, <3>3, <3>4 DEF WireInv, LatchInv, FreedInv
  <2>5. CASE DestroyDevice
    <3>1. TypeOK'
      BY <2>5 DEF DestroyDevice, TypeOK, poolVars, ledgerVars, latchVars, cancelVars,
                  callbackVars
    <3> QED
      BY <2>5, <3>1, <1>4 DEF DestroyDevice, WireInv, LatchInv, FreedInv, Drained,
                              latchVars, cancelVars
  <2>6. CASE UNCHANGED vars
    BY <2>6 DEF vars, TypeOK, WireInv, LatchInv, FreedInv, Drained
  <2> QED
    BY <2>1, <2>2, <2>3, <2>4, <2>5, <2>6
<1> QED
  BY <1>2, <1>3, <1>5

LEMMA CancelVisitStep ==
  ASSUME IInv, NEW s \in Slots, CancelVisit(s)
  PROVE  IInv'
<1> USE DEF IInv
<1>1. /\ closing /\ ~freed /\ Idle("app") /\ "app" \in Threads
      /\ UNCHANGED <<closing, inflight, wire, freed>>
      /\ cancel_todo' = cancel_todo \ {s}
      /\ cancel_target = NoSlot
  BY DEF CancelVisit, WireInv, FreedInv, Threads
<1>2. CASE slot_state[s] = "prepared"
  <2>1. Finish("app", s, "IO", "CANCELLED") /\ cancel_target' = cancel_target
    BY <1>2 DEF CancelVisit
  <2>2. "IO" \in Results /\ "CANCELLED" \in Natives
    BY DEF Results, Natives, AllStatuses
  <2>3. /\ cancel_todo' \subseteq Slots /\ cancel_target' \in Slots \union {NoSlot}
        /\ wire' \in [Slots -> {"idle", "flying", "cancelling"}]
    BY <1>1, <2>1 DEF TypeOK
  <2>4. /\ TypeOK' /\ PoolAccounting' /\ HolderInv' /\ TotalsInv'
        /\ OwedInv' /\ CallbackInv' /\ LatchInv'
    BY <1>1, <1>2, <2>1, <2>2, <2>3, FinishStep
  <2>5. slot_state' = [slot_state EXCEPT ![s] = "free"]
    BY <2>1 DEF Finish, PushFree
  <2>6. WireInv' /\ FreedInv'
    BY <1>1, <1>2, <2>1, <2>5 DEF WireInv, FreedInv, TypeOK
  <2> QED
    BY <2>4, <2>6
<1>3. CASE slot_state[s] # "prepared"
  <2>1. /\ UNCHANGED <<poolVars, ledgerVars, latchVars, callbackVars>>
        /\ cancel_target' = cancel_target \/ cancel_target' = s
    BY <1>3 DEF CancelVisit
  <2>2. PoolAccounting' /\ HolderInv' /\ TotalsInv'
    BY <2>1, SameSlots
  <2>3. OwedInv' /\ CallbackInv' /\ LatchInv'
    BY <1>1, <2>1 DEF OwedInv, Held, Owes, CallbackInv, Idle, LatchInv, poolVars,
                      callbackVars, latchVars
  <2>4. TypeOK'
    BY <1>1, <2>1 DEF TypeOK, poolVars, ledgerVars, latchVars, callbackVars
  <2>5. WireInv' /\ FreedInv'
    BY <1>1, <2>1 DEF WireInv, FreedInv, TypeOK, poolVars
  <2> QED
    BY <2>2, <2>3, <2>4, <2>5
<1> QED
  BY <1>2, <1>3

LEMMA TransferFinishedStep ==
  ASSUME IInv, NEW s \in Slots, NEW status \in Statuses, TransferFinished(s, status)
  PROVE  IInv'
<1> USE DEF IInv
<1>1. /\ slot_state[s] = "submitted" /\ ~freed /\ Idle("event") /\ "event" \in Threads
      /\ Finish("event", s, CompletionResult(status), status)
      /\ wire' = [wire EXCEPT ![s] = "idle"]
      /\ UNCHANGED <<closing, cancel_todo, cancel_target, inflight, freed>>
  BY DEF TransferFinished, WireInv, Threads, cancelVars
<1>2. status = "CANCELLED" => closing
  BY DEF TransferFinished, WireInv
<1>3. status \in Natives /\ CompletionResult(status) \in Results
  BY PoolAssumption DEF Natives, CompletionResult, Results
<1>4. /\ cancel_todo' \subseteq Slots /\ cancel_target' \in Slots \union {NoSlot}
      /\ wire' \in [Slots -> {"idle", "flying", "cancelling"}]
  BY <1>1 DEF TypeOK
<1>5. /\ TypeOK' /\ PoolAccounting' /\ HolderInv' /\ TotalsInv'
      /\ OwedInv' /\ CallbackInv' /\ LatchInv'
  BY <1>1, <1>2, <1>3, <1>4, FinishStep
<1>6. slot_state' = [slot_state EXCEPT ![s] = "free"]
  BY <1>1 DEF Finish, PushFree
<1>7. WireInv' /\ FreedInv'
  BY <1>1, <1>6 DEF WireInv, FreedInv, TypeOK
<1> QED
  BY <1>5, <1>7

LEMMA DeliverStep ==
  ASSUME IInv, NEW t \in Threads, Deliver(t)
  PROVE  IInv'
<1> USE DEF IInv
<1> PICK n : n = notice[t].user
  OBVIOUS
<1>1. /\ n \in Nodes /\ Owes(t, n)
      /\ inflight' = [inflight EXCEPT ![n] = FALSE]
      /\ notice' = [notice EXCEPT ![t].stage = "return"]
      /\ UNCHANGED <<poolVars, ledgerVars, latchVars, cancelVars, callbacks_active,
                     wire, freed>>
  BY DEF Deliver, Owes, OwedInv
<1>2. PoolAccounting' /\ HolderInv' /\ TotalsInv'
  BY <1>1, SameSlots
<1>3. /\ notice'[t] = [stage |-> "return", user |-> n]
      /\ \A u \in Threads : u # t => notice'[u] = notice[u]
  BY <1>1 DEF TypeOK
<1>4. TypeOK'
  <2>1. notice' \in [Threads -> [stage : Stages, user : Nodes \union {NoNode}]]
    <3>1. [stage |-> "return", user |-> n] \in [stage : Stages, user : Nodes \union {NoNode}]
      BY <1>1 DEF Stages
    <3>2. \A u \in Threads : notice'[u] \in [stage : Stages, user : Nodes \union {NoNode}]
      BY <1>3, <3>1 DEF TypeOK
    <3>3. notice' = [u \in Threads |-> notice'[u]]
      BY <1>1 DEF TypeOK
    <3> QED
      BY <3>2, <3>3
  <2>2. inflight' \in [Nodes -> BOOLEAN]
    BY <1>1 DEF TypeOK
  <2> QED
    BY <1>1, <2>1, <2>2 DEF TypeOK, poolVars, ledgerVars, latchVars, cancelVars
<1>5. OwedInv'
  <2>1. \A m \in Nodes : Held(m)' <=> Held(m)
    BY <1>1 DEF Held, poolVars
  <2>2. /\ \A m \in Nodes : ~Owes(t, m)' /\ (m # n => ~Owes(t, m))
        /\ \A u \in Threads, m \in Nodes : u # t => (Owes(u, m)' <=> Owes(u, m))
    BY <1>1, <1>3 DEF Owes
  <2>3. ~Held(n) /\ \A u \in Threads : u # t => ~Owes(u, n)
    BY <1>1 DEF OwedInv, Threads
  <2>4. \A m \in Nodes : inflight'[m] <=> m # n /\ inflight[m]
    BY <1>1 DEF TypeOK
  <2>5. ASSUME NEW m \in Nodes
        PROVE  inflight'[m] <=> Held(m)' \/ \E u \in Threads : Owes(u, m)'
    <3>1. CASE m = n
      BY <3>1, <2>1, <2>2, <2>3, <2>4
    <3>2. CASE m # n
      <4>1. \A u \in Threads : Owes(u, m)' <=> Owes(u, m)
        BY <3>2, <2>2
      <4> QED
        BY <3>2, <4>1, <2>1, <2>4 DEF OwedInv
    <3> QED
      BY <3>1, <3>2
  <2>6. ASSUME NEW m \in Nodes, NEW u \in Threads
        PROVE  Owes(u, m)' => Owes(u, m)
    BY <2>2
  <2>7. "app" \in Threads /\ "event" \in Threads
    BY DEF Threads
  <2>8. ASSUME NEW m \in Nodes
        PROVE  /\ \A u \in Threads : ~(Held(m)' /\ Owes(u, m)')
               /\ ~(Owes("app", m)' /\ Owes("event", m)')
    BY <2>1, <2>6, <2>7 DEF OwedInv
  <2>9. \A u \in Threads : notice'[u].stage = "deliver" => notice'[u].user \in Nodes
    BY <1>3 DEF OwedInv
  <2> QED
    BY <2>5, <2>8, <2>9 DEF OwedInv
<1>6. CallbackInv'
  BY <1>1, <1>3 DEF CallbackInv, Idle, Threads, Deliver
<1>7. WireInv' /\ LatchInv' /\ FreedInv'
  BY <1>1 DEF WireInv, LatchInv, FreedInv, Drained, poolVars, latchVars, cancelVars
<1> QED
  BY <1>2, <1>4, <1>5, <1>6, <1>7

LEMMA CallbackReturnsStep ==
  ASSUME IInv, NEW t \in Threads, CallbackReturns(t)
  PROVE  IInv'
<1> USE DEF IInv
<1>1. /\ notice[t].stage = "return"
      /\ notice' = [notice EXCEPT ![t] = NoNotice]
      /\ callbacks_active' = IF callbacks_active > 0 THEN callbacks_active - 1
                                                     ELSE callbacks_active
      /\ UNCHANGED <<poolVars, ledgerVars, latchVars, cancelVars, inflight, wire, freed>>
  BY DEF CallbackReturns
<1>2. PoolAccounting' /\ HolderInv' /\ TotalsInv'
  BY <1>1, SameSlots
<1>3. /\ notice'[t] = NoNotice
      /\ \A u \in Threads : u # t => notice'[u] = notice[u]
      /\ ~Idle(t) /\ Idle(t)'
  BY <1>1 DEF TypeOK, Idle, NoNotice
<1>4. callbacks_active > 0 /\ callbacks_active' = callbacks_active - 1
  BY <1>1, <1>3 DEF CallbackInv, Threads
<1>5. TypeOK'
  BY <1>1, <1>4 DEF TypeOK, Stages, NoNotice, poolVars, ledgerVars, latchVars, cancelVars
<1>6. OwedInv'
  <2>1. \A m \in Nodes : Held(m)' <=> Held(m)
    BY <1>1 DEF Held, poolVars
  <2>2. \A u \in Threads, m \in Nodes : Owes(u, m)' <=> Owes(u, m)
    BY <1>1, <1>3 DEF Owes, NoNotice
  <2>3. \A u \in Threads : notice'[u].stage = "deliver" => notice'[u].user \in Nodes
    BY <1>3 DEF OwedInv, NoNotice
  <2>4. "app" \in Threads /\ "event" \in Threads
    BY DEF Threads
  <2>5. ASSUME NEW m \in Nodes
        PROVE  /\ inflight'[m] <=> Held(m)' \/ \E u \in Threads : Owes(u, m)'
               /\ \A u \in Threads : ~(Held(m)' /\ Owes(u, m)')
               /\ ~(Owes("app", m)' /\ Owes("event", m)')
    BY <1>1, <2>1, <2>2, <2>4 DEF OwedInv
  <2> QED
    BY <2>3, <2>5 DEF OwedInv
<1>7. CallbackInv'
  BY <1>3, <1>4 DEF CallbackInv, Idle, Threads
<1>8. WireInv' /\ LatchInv'
  BY <1>1 DEF WireInv, LatchInv, poolVars, latchVars, cancelVars
<1>9. FreedInv'
  BY <1>1, <1>4 DEF FreedInv, Drained
<1> QED
  BY <1>2, <1>5, <1>6, <1>7, <1>8, <1>9

LEMMA NextIInv == IInv /\ [Next]_vars => IInv'
<1> SUFFICES ASSUME IInv, [Next]_vars
             PROVE  IInv'
  OBVIOUS
<1>1. CASE \E n \in Nodes, count \in {0, 1} : SetReservation(n, count)
  BY <1>1, SetReservationStep
<1>2. CASE \E n \in Nodes : ClearReservation(n) \/ Acquire(n)
  BY <1>2, ClearReservationStep, AcquireStep
<1>3. CASE \E s \in Slots : SubmitAccepted(s) \/ SubmitRejected(s) \/ Abandon(s)
  BY <1>3, SubmitAcceptedStep, SubmitRejectedStep, AbandonStep
<1>4. CASE \E s \in Slots : CancelVisit(s)
  BY <1>4, CancelVisitStep
<1>5. CASE \E s \in Slots, status \in Statuses : TransferFinished(s, status)
  BY <1>5, TransferFinishedStep
<1>6. CASE \E t \in Threads : Deliver(t) \/ CallbackReturns(t)
  BY <1>6, DeliverStep, CallbackReturnsStep
<1>7. CASE \/ LatchedError \/ ControlRequestLosesDevice \/ CancelAll
           \/ CancelTransfer \/ DestroyDevice \/ UNCHANGED vars
  BY <1>7, OtherStep
<1> QED
  BY <1>1, <1>2, <1>3, <1>4, <1>5, <1>6, <1>7 DEF Next

(* The strengthened invariant holds of every behaviour.                      *)
THEOREM IInvHolds == Spec => []IInv
BY InitIInv, NextIInv, PTL DEF Spec

-----------------------------------------------------------------------------
(* What the invariant implies *)

(* A Node holds at most one slot, so the number it holds is 0 or 1.          *)
LEMMA HeldCount ==
  ASSUME IInv, NEW n \in Nodes
  PROVE  Cardinality(HeldBy(n)) = IF Held(n) THEN 1 ELSE 0
<1>1. CASE Held(n)
  <2>1. PICK s \in Slots : slot_user[s] = n
    BY <1>1 DEF Held
  <2>2. HeldBy(n) = {s}
    BY <2>1, PoolAssumption DEF HeldBy, IInv, HolderInv
  <2> QED
    BY <1>1, <2>2, FS_Singleton
<1>2. CASE ~Held(n)
  <2>1. HeldBy(n) = {}
    BY <1>2 DEF Held, HeldBy
  <2> QED
    BY <1>2, <2>1, FS_EmptySet
<1> QED
  BY <1>1, <1>2

(* At most one thread carries the completion of a Node.                      *)
LEMMA OwedCount ==
  ASSUME IInv, NEW n \in Nodes
  PROVE  Cardinality(OwedBy(n)) = IF \E t \in Threads : Owes(t, n) THEN 1 ELSE 0
<1>1. \A t \in Threads : t \in OwedBy(n) <=> Owes(t, n)
  <2> TAKE t \in Threads
  <2>1. notice[t] \in [stage : Stages, user : Nodes \union {NoNode}]
    BY DEF IInv, TypeOK
  <2> QED
    BY <2>1 DEF OwedBy, Owes
<1>2. CASE \E t \in Threads : Owes(t, n)
  <2>1. PICK t \in Threads : Owes(t, n)
    BY <1>2
  <2>2. OwedBy(n) = {t}
    BY <1>1, <2>1 DEF OwedBy, IInv, OwedInv, Threads
  <2> QED
    BY <1>2, <2>2, FS_Singleton
<1>3. CASE ~\E t \in Threads : Owes(t, n)
  <2>1. OwedBy(n) = {}
    BY <1>1, <1>3 DEF OwedBy
  <2> QED
    BY <1>3, <2>1, FS_EmptySet
<1> QED
  BY <1>2, <1>3

(* Every variable keeps its type; the counters in_use, unfilled_total,       *)
(* outstanding and callbacks_active, size_t in the code, never go below 0.   *)
THEOREM TypeCorrect == Spec => []TypeOK
<1>1. IInv => TypeOK
  BY DEF IInv
<1> QED
  BY <1>1, IInvHolds, PTL

(* The free stack and outstanding account for every slot exactly once.       *)
THEOREM PoolAccountingHolds == Spec => []PoolAccounting
<1>1. IInv => PoolAccounting
  BY DEF IInv
<1> QED
  BY <1>1, IInvHolds, PTL

(* The totals of the ledger agree with the reservations and the slots held.  *)
THEOREM ReservationLedgerHolds == Spec => []ReservationLedger
<1>1. IInv => ReservationLedger
  <2> SUFFICES ASSUME IInv
               PROVE  ReservationLedger
    OBVIOUS
  <2>1. \A n \in Nodes : in_use[n] = Cardinality(HeldBy(n)) /\ in_use[n] <= 1
    BY HeldCount DEF IInv, HolderInv
  <2> QED
    BY <2>1 DEF IInv, TotalsInv, ReservationLedger
<1> QED
  BY <1>1, IInvHolds, PTL

(* A Node is owed one completion while its flag is set and none otherwise.   *)
THEOREM OneCompletionOwedHolds == Spec => []OneCompletionOwed
<1>1. IInv => OneCompletionOwed
  <2> SUFFICES ASSUME IInv, NEW n \in Nodes
               PROVE  Cardinality(HeldBy(n)) + Cardinality(OwedBy(n)) =
                        IF inflight[n] THEN 1 ELSE 0
    BY DEF OneCompletionOwed
  <2>1. /\ inflight[n] <=> Held(n) \/ \E t \in Threads : Owes(t, n)
        /\ \A t \in Threads : ~(Held(n) /\ Owes(t, n))
    BY DEF IInv, OwedInv
  <2> QED
    BY <2>1, HeldCount, OwedCount
<1> QED
  BY <1>1, IInvHolds, PTL

(* libusb owns a buffer while its slot is submitted; a freed Device has no   *)
(* transfer in libusb and no thread in a callback.                           *)
THEOREM BufferOwnershipHolds == Spec => []BufferOwnership
<1>1. IInv => BufferOwnership
  <2> SUFFICES ASSUME IInv
               PROVE  BufferOwnership
    OBVIOUS
  <2>1. \A s \in Slots : wire[s] # "idle" <=> slot_state[s] = "submitted"
    BY DEF IInv, WireInv
  <2>2. freed => \A t \in Threads : Idle(t)
    BY DEF IInv, FreedInv, Drained, CallbackInv, Threads
  <2>3. freed => \A s \in Slots : slot_state[s] = "free"
    <3>1. freed => Cardinality(BusySlots) = 0
      BY DEF IInv, FreedInv, Drained, PoolAccounting
    <3>2. freed => BusySlots = {}
      BY <3>1, BusyFinite, FS_EmptySet
    <3> QED
      BY <3>2 DEF BusySlots
  <2> QED
    BY <2>1, <2>2, <2>3 DEF BufferOwnership
<1> QED
  BY <1>1, IInvHolds, PTL

(* The latch says NO_DEVICE exactly when the device is gone.                 *)
THEOREM LatchMatchesPresenceHolds == Spec => []LatchMatchesPresence
<1>1. IInv => LatchMatchesPresence
  BY DEF IInv, LatchInv, LatchMatchesPresence
<1> QED
  BY <1>1, IInvHolds, PTL

(* The library's own cancellations never reach the latch.                    *)
THEOREM TeardownNotLatchedHolds == Spec => []TeardownNotLatched
<1>1. IInv => TeardownNotLatched
  BY DEF IInv, LatchInv, TeardownNotLatched
<1> QED
  BY <1>1, IInvHolds, PTL

(* While the free slots cover the unfilled reservations, a Node with a       *)
(* reserved slot and no report in flight is never refused one.               *)
THEOREM FundedReservationIsHonouredHolds == Spec => []FundedReservationIsHonoured
<1>1. IInv => FundedReservationIsHonoured
  <2> SUFFICES ASSUME IInv, Funded, NEW n \in Reserving, ~inflight[n]
               PROVE  SlotAvailableTo(n)
    BY DEF FundedReservationIsHonoured
  <2>1. n \in Nodes /\ capacity[n] = 1 /\ in_use[n] = 0
    BY DEF Reserving, IInv, OwedInv, HolderInv
  <2>2. n \in Unfilled
    BY <2>1 DEF Unfilled
  <2>3. unfilled_total # 0
    BY <2>2, ReservingFinite, FS_EmptySet DEF IInv, TotalsInv
  <2>4. Len(<<>>) = 0
    OBVIOUS
  <2>5. free_stack # <<>>
    BY <2>3, <2>4 DEF Funded, IInv, TypeOK
  <2> QED
    BY <2>1, <2>5 DEF SlotAvailableTo, FillingOwnReservation
<1> QED
  BY <1>1, IInvHolds, PTL

(* A slot that is freed pays for the reserved unit it gives back.            *)
LEMMA ReleaseStaysFunded ==
  ASSUME IInv, Funded, NEW s \in Slots, slot_state[s] # "free",
         ReleaseReservation(s), PushFree(s)
  PROVE  Funded'
<1>1. Len(free_stack') = Len(free_stack) + 1 /\ Len(free_stack) \in Nat
  BY AppendProperties, LenProperties DEF PushFree, IInv, TypeOK
<1>2. unfilled_total' = unfilled_total \/ unfilled_total' = unfilled_total + 1
  BY DEF ReleaseReservation
<1> QED
  BY <1>1, <1>2 DEF Funded, IInv, TypeOK

(* Only a new reservation can leave the pool short of reserved slots.        *)
THEOREM ReservationStaysFundedHolds == Spec => ReservationStaysFunded
<1>1. IInv /\ [Next]_vars => [Funded => Funded' \/ reserved_total' > reserved_total]_vars
  <2> SUFFICES ASSUME IInv, Next, Funded
               PROVE  Funded' \/ reserved_total' > reserved_total
    OBVIOUS
  <2>1. ASSUME NEW n \in Nodes, NEW count \in {0, 1}, SetReservation(n, count)
        PROVE  Funded' \/ reserved_total' > reserved_total
    BY <2>1 DEF SetReservation, Funded, poolVars, IInv, TypeOK
  <2>2. ASSUME NEW n \in Nodes, ClearReservation(n)
        PROVE  Funded'
    <3>1. free_stack' = free_stack /\ unfilled_total' = unfilled_total - capacity[n]
      BY <2>2 DEF ClearReservation, poolVars
    <3>2. capacity[n] \in Nat /\ unfilled_total \in Nat /\ Len(free_stack) \in Nat
      BY LenProperties DEF IInv, TypeOK
    <3> QED
      BY <3>1, <3>2 DEF Funded
  <2>3. ASSUME NEW n \in Nodes, Acquire(n)
        PROVE  Funded'
    <3>1. Len(free_stack') = Len(free_stack) - 1 /\ Len(free_stack) \in Nat
      BY <2>3, AcquirePool, LenProperties DEF IInv, TypeOK
    <3>2. CASE FillingOwnReservation(n)
      BY <2>3, <3>1, <3>2 DEF Acquire, Funded, IInv, TypeOK
    <3>3. CASE ~FillingOwnReservation(n)
      BY <2>3, <3>1, <3>3 DEF Acquire, SlotAvailableTo, Funded, IInv, TypeOK
    <3> QED
      BY <3>2, <3>3
  <2>4. ASSUME NEW s \in Slots, SubmitAccepted(s) \/ SubmitRejected(s) \/ Abandon(s)
        PROVE  Funded'
    <3>1. CASE SubmitAccepted(s)
      BY <3>1 DEF SubmitAccepted, Funded, ledgerVars
    <3>2. CASE SubmitRejected(s) \/ Abandon(s)
      BY <3>2, ReleaseStaysFunded DEF SubmitRejected, Abandon, Finish
    <3> QED
      BY <2>4, <3>1, <3>2
  <2>5. ASSUME NEW s \in Slots, CancelVisit(s)
        PROVE  Funded'
    <3>1. CASE slot_state[s] = "prepared"
      BY <2>5, <3>1, ReleaseStaysFunded DEF CancelVisit, Finish
    <3>2. CASE slot_state[s] # "prepared"
      BY <2>5, <3>2 DEF CancelVisit, Funded, poolVars, ledgerVars
    <3> QED
      BY <3>1, <3>2
  <2>6. ASSUME NEW s \in Slots, NEW status \in Statuses, TransferFinished(s, status)
        PROVE  Funded'
    <3>1. CASE slot_state[s] = "submitted"
      BY <2>6, <3>1, ReleaseStaysFunded DEF TransferFinished, Finish
    <3>2. CASE slot_state[s] # "submitted"
      BY <2>6, <3>2 DEF TransferFinished, Funded, poolVars, ledgerVars
    <3> QED
      BY <3>1, <3>2
  <2>7. ASSUME \/ LatchedError \/ ControlRequestLosesDevice \/ CancelAll
               \/ CancelTransfer \/ DestroyDevice
               \/ \E t \in Threads : Deliver(t) \/ CallbackReturns(t)
        PROVE  Funded'
    <3>1. UNCHANGED <<poolVars, ledgerVars>>
      BY <2>7 DEF LatchedError, ControlRequestLosesDevice, CancelAll, CancelTransfer,
                  DestroyDevice, Deliver, CallbackReturns
    <3> QED
      BY <3>1 DEF Funded, poolVars, ledgerVars
  <2> QED
    BY <2>1, <2>2, <2>3, <2>4, <2>5, <2>6, <2>7 DEF Next
<1> QED
  BY <1>1, IInvHolds, PTL DEF Spec, ReservationStaysFunded

(* The latch moves only from nothing to an error, from any error to a lost   *)
(* device, or back to nothing when it is read; a lost device stays.          *)
THEOREM LatchPriorityHolds == Spec => LatchPriority
<1> DEFINE Allowed ==
      latched' # latched =>
        /\ latched.result # "NO_DEVICE" \/ latched'.result = "NO_DEVICE"
        /\ latched.result # "OK" => latched'.result \in {"OK", "NO_DEVICE"}
<1>1. ASSUME NEW r, NEW code, Latch(r, code)
      PROVE  Allowed
  <2>1. \/ latched' = latched
        \/ r = "NO_DEVICE" /\ latched' = [result |-> r, native |-> code]
        \/ latched.result = "OK"
    BY <1>1 DEF Latch, latchVars
  <2> QED
    BY <2>1
<1>2. [Next]_vars => [Allowed]_vars
  <2> SUFFICES ASSUME Next
               PROVE  Allowed
    OBVIOUS
  <2>1. CASE \E s \in Slots : SubmitRejected(s)
    BY <2>1, <1>1 DEF SubmitRejected, Finish
  <2>2. CASE \E s \in Slots : CancelVisit(s)
    BY <2>2, <1>1 DEF CancelVisit, Finish, latchVars
  <2>3. CASE \E s \in Slots, status \in Statuses : TransferFinished(s, status)
    BY <2>3, <1>1 DEF TransferFinished, Finish, latchVars
  <2>4. CASE LatchedError
    BY <2>4 DEF LatchedError, NoError
  <2>5. CASE ControlRequestLosesDevice
    BY <2>5 DEF ControlRequestLosesDevice
  <2>6. CASE \/ \E n \in Nodes, count \in {0, 1} : SetReservation(n, count)
             \/ \E n \in Nodes : ClearReservation(n) \/ Acquire(n)
             \/ \E s \in Slots : SubmitAccepted(s) \/ Abandon(s)
             \/ CancelAll \/ CancelTransfer \/ DestroyDevice
             \/ \E t \in Threads : Deliver(t) \/ CallbackReturns(t)
    BY <2>6 DEF SetReservation, ClearReservation, Acquire, SubmitAccepted, Abandon,
                CancelAll, CancelTransfer, DestroyDevice, Deliver, CallbackReturns,
                latchVars
  <2> QED
    BY <2>1, <2>2, <2>3, <2>4, <2>5, <2>6 DEF Next
<1> QED
  BY <1>2, PTL DEF Spec, LatchPriority
=============================================================================
