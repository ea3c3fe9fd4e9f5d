------------------------------ MODULE IndexRing -------------------------------
(***************************************************************************)
(* IndexRing (src/transport/channel.cpp): the lock-free ring that carries  *)
(* slot indices from one producer to one consumer, one action per access   *)
(* to shared memory.  head_ and tail_ are size_t counters that wrap; they  *)
(* are modelled modulo Word.                                               *)
(*                                                                         *)
(* The two clients push a slot only while it is theirs, and it is theirs   *)
(* again once pop has returned it: outside holds those slots.  That this   *)
(* is so is an invariant of Channel.                                       *)
(***************************************************************************)
EXTENDS Integers, Sequences, FiniteSets

CONSTANTS
  Slots,      \* the indices of the transfers
  NoSlot,     \* no index
  Word        \* the number of values of a size_t

SlotsAssumption ==
  IsFiniteSet(Slots) /\ Slots # {} /\ NoSlot \notin Slots

VARIABLES
  slots,      \* slots_
  head,       \* head_
  tail,       \* tail_
  producer,   \* the push in progress
  consumer,   \* the pop in progress
  popped,     \* the slot pop returned last
  outside     \* the slots that a client owns

vars == <<slots, head, tail, producer, consumer, popped, outside>>

Capacity == Cardinality(Slots)
Powers == {2^k : k \in 0..Capacity}

\* init: the least power of two that holds Capacity slots.
Size ==
  CHOOSE p \in Powers : p >= Capacity /\ \A q \in Powers : q >= Capacity => p <= q

\* There is such a power, as 2^n >= n for every n; the provers know no powers.
SizeAssumption == Size \in Nat /\ Size >= Capacity

\* The counters wrap at a power of two that is larger than the ring.
WordAssumption == Word \in Nat /\ Word > Size /\ Word % Size = 0

\* Mutant of At: the ring has as many places as slots.
AtCapacity(i) == i % Capacity

\* The place of the counter i: i & mask_.
At(i) == i % Size

\* The number of slots in the ring; the subtraction wraps.
Used(h, t) == (t - h) % Word

Idle == [pc |-> "idle", slot |-> NoSlot]

Init ==
  /\ slots = [i \in 0..Size - 1 |-> NoSlot]
  /\ head = 0
  /\ tail = 0
  /\ producer = Idle
  /\ consumer = Idle
  /\ popped = NoSlot
  /\ outside = Slots

-----------------------------------------------------------------------------
(* push *)

\* head_ is read and the ring has room; what push returns is not looked at.
PushChecks(s) ==
  /\ producer = Idle /\ s \in outside
  /\ Used(head, tail) # Size
  /\ producer' = [pc |-> "checked", slot |-> s]
  /\ outside' = outside \ {s}
  /\ UNCHANGED <<slots, head, tail, consumer, popped>>

PushStores ==
  /\ producer.pc = "checked"
  /\ slots' = [slots EXCEPT ![At(tail)] = producer.slot]
  /\ producer' = [producer EXCEPT !.pc = "stored"]
  /\ UNCHANGED <<head, tail, consumer, popped, outside>>

PushPublishes ==
  /\ producer.pc = "stored"
  /\ tail' = (tail + 1) % Word
  /\ producer' = Idle
  /\ UNCHANGED <<slots, head, consumer, popped, outside>>

-----------------------------------------------------------------------------
(* pop *)

\* tail_ is read and the ring is not empty; otherwise pop returns false.
PopSees ==
  /\ consumer = Idle
  /\ head # tail
  /\ consumer' = [consumer EXCEPT !.pc = "seen"]
  /\ UNCHANGED <<slots, head, tail, producer, popped, outside>>

PopReads ==
  /\ consumer.pc = "seen"
  /\ consumer' = [pc |-> "read", slot |-> slots[At(head)]]
  /\ UNCHANGED <<slots, head, tail, producer, popped, outside>>

\* head_ is published; the slot is the caller's.
PopReturns ==
  /\ consumer.pc = "read"
  /\ head' = (head + 1) % Word
  /\ popped' = consumer.slot
  /\ outside' = outside \union {consumer.slot}
  /\ consumer' = Idle
  /\ UNCHANGED <<slots, tail, producer>>

Next ==
  \/ \E s \in Slots : PushChecks(s)
  \/ PushStores
  \/ PushPublishes
  \/ PopSees
  \/ PopReads
  \/ PopReturns

Spec == Init /\ [][Next]_vars

-----------------------------------------------------------------------------
(* Properties *)

\* The slots in the ring, the oldest first.
Contents == [i \in 1..Used(head, tail) |-> slots[At(head + i - 1)]]

Queue == INSTANCE SpscQueue WITH queue <- Contents

(***************************************************************************)
(* The ring is a queue: what was pushed is popped once and in order, a     *)
(* push takes effect at the store of tail_ and a pop at the store of head_ *)
(* (IndexRing).                                                            *)
(***************************************************************************)
ImplementsQueue == Queue!Spec
=============================================================================
