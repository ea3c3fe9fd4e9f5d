------------------------------ MODULE SpscQueue -------------------------------
(***************************************************************************)
(* What src/transport/channel.cpp expects of an IndexRing: a queue of      *)
(* transfer slots between one producer and one consumer, in which every    *)
(* push and every pop takes effect at one moment.                          *)
(***************************************************************************)
EXTENDS Sequences, Integers

CONSTANTS
  Slots,      \* the indices of the transfers that pass through the queue
  NoSlot      \* nothing popped yet

VARIABLES
  queue,      \* the slots pushed and not yet popped, the oldest first
  popped      \* the slot the consumer obtained last

Init == queue = <<>> /\ popped = NoSlot

Push(s) ==
  /\ queue' = Append(queue, s)
  /\ UNCHANGED popped

Pop ==
  /\ queue # <<>>
  /\ popped' = Head(queue)
  /\ queue' = Tail(queue)

Next == Pop \/ \E s \in Slots : Push(s)

Spec == Init /\ [][Next]_<<queue, popped>>
=============================================================================
