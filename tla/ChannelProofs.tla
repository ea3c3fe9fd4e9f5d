---------------------------- MODULE ChannelProofs -----------------------------
(***************************************************************************)
(* Channel for any number of transfers, in both modes: where each transfer *)
(* is, what in_flight counts, and who is still to be woken or cancelled.   *)
(***************************************************************************)
EXTENDS Channel, FiniteSetTheorems, TLAPS

(* What is in a ring, and that it is there once.                           *)
In(q, s) == \E i \in DOMAIN q : q[i] = s

Once(q) == \A i, j \in DOMAIN q : q[i] = q[j] => i = j

(* The thread t works on the transfer.                                     *)
Holds(t, s) == thread[t].slot = s /\ thread[t].pc \in Holding

(* Where a transfer can be: with libusb, in a ring, kept by the reader or  *)
(* the writer between two calls, or with a thread that works on it.        *)
Places == {"usb", "ready", "free", "current", "spare"} \union Threads

Has(p, s) ==
  \/ p = "usb" /\ xfer[s].flying
  \/ p = "ready" /\ In(readyIn, s)
  \/ p = "free" /\ In(freeOut, s)
  \/ p = "current" /\ current = s
  \/ p = "spare" /\ spare = s
  \/ p \in Threads /\ Holds(p, s)

(* The steps of wait_until, of a submission, and of the callback after it  *)
(* has taken the transfer.                                                 *)
Waits == {"wait", "registered", "checked", "asleep"}

Submits == {"submit", "submitting", "recheck", "submitted", "refused"}

ReaderLabels == {"idle", "loop", "look", "marking", "failed", "failing"} \union Waits \union Submits

WriterLabels == {"idle", "exchange", "loop", "look", "failed"} \union Waits \union Submits

Labels == ReaderLabels \union WriterLabels \union {"count", "lose", "free", "drain"}

Transfer == [flying : BOOLEAN, cancelled : BOOLEAN, status : Statuses]

Position ==
  [pc : Labels, slot : Slots \union {NoSlot}, after : {"idle", "loop", "request"},
   notify : Seq(Sides), locking : BOOLEAN, sweep : SUBSET Slots]

Types ==
  /\ requestReads \in BOOLEAN
  /\ inSlots \subseteq InTransfers /\ outSlots \subseteq OutTransfers
  /\ requestReads => \E s \in inSlots : inSlots = {s}
  /\ xfer \in [Slots -> Transfer]
  /\ inFlight \in Int
  /\ readyIn \in Seq(inSlots) /\ freeOut \in Seq(outSlots)
  /\ lost \in BOOLEAN /\ freed \in BOOLEAN /\ swept \in BOOLEAN
  /\ requestPending \in BOOLEAN
  /\ current \in inSlots \union {NoSlot} /\ spare \in outSlots \union {NoSlot}
  /\ thread \in [Threads -> Position]

(* A thread that locks has someone to wake.                                *)
LockInv == \A t \in Threads : thread[t].locking => thread[t].notify # <<>>

(* Where each thread can be, and what it holds there.                      *)
ReaderInv ==
  /\ thread["reader"].pc \in ReaderLabels
  /\ thread["reader"].slot \in inSlots \union {NoSlot}
  /\ thread["reader"].pc \in Submits \union {"marking", "failed", "failing"} =>
       thread["reader"].slot # NoSlot
  /\ thread["reader"].pc \in {"refused", "failing"} => lost

WriterInv ==
  /\ thread["writer"].pc \in WriterLabels
  /\ thread["writer"].slot \in outSlots \union {NoSlot}
  /\ thread["writer"].pc \in Submits \union {"failed"} => thread["writer"].slot # NoSlot
  /\ thread["writer"].pc \in {"submit", "submitting", "refused", "failed"} => spare = NoSlot

EventInv ==
  /\ thread["event"].pc \in {"idle", "count", "lose", "free"}
  /\ thread["event"].pc \in {"lose", "free"} => thread["event"].slot \in outSlots
  /\ thread["event"].notify # <<>> => thread["event"].pc \in {"count", "free"}
  /\ thread["event"].sweep = {}

(* The application closes only when it neither reads nor writes.           *)
CloserInv ==
  /\ thread["closer"].pc \in {"idle", "drain"}
  /\ thread["closer"].pc = "idle" => At("closer", "idle")
  /\ freed => thread["closer"].pc = "idle"
  /\ thread["closer"].pc = "drain" \/ freed => At("reader", "idle") /\ At("writer", "idle")

(* A slot is in one place, once, or in none that counts.                   *)
PlaceInv ==
  /\ Once(readyIn) /\ Once(freeOut)
  /\ \A s \in Slots : \A p, q \in Places : Has(p, s) /\ Has(q, s) => p = q
  /\ \A s \in Slots : (\E p \in Places : Has(p, s)) \/ (s \in inSlots /\ (lost \/ requestReads))

(* In request mode: the transfer is out exactly when request_pending says  *)
(* so, and while the reader submits it the answer is still to come.        *)
Out == readyIn # <<>> \/ \E s \in inSlots : xfer[s].flying

RequestInv ==
  requestReads =>
    /\ thread["reader"].pc \in {"idle", "loop", "look"} \union Waits => (requestPending <=> Out)
    /\ thread["reader"].pc \in Submits \union {"marking"} =>
         thread["reader"].after = "request" /\ ~requestPending
    /\ thread["reader"].pc \in {"recheck", "submitted"} => Out
    /\ thread["reader"].pc \in {"failed", "failing"} => ~requestPending

(* in_flight counts the transfers that are with libusb, the submission and *)
(* the callback under way.                                                 *)
Flying == {s \in Slots : xfer[s].flying}

Counted == {t \in Threads : thread[t].pc \in {"submitting", "count", "lose", "free"}}

CountInv ==
  /\ inFlight = Cardinality(Flying) + Cardinality(Counted)
  /\ freed => inFlight = 0

(* A sweep is of a lost Channel, and has still to cancel what is not.      *)
Rechecked(s) ==
  \E t \in {"reader", "writer"} : thread[t].slot = s /\ thread[t].pc = "recheck"

LostInv == swept \/ (\E t \in Threads : thread[t].sweep # {}) => lost

SweepInv ==
  \A t \in Threads : \A s \in Slots :
    thread[t].sweep # {} /\ xfer[s].flying /\ ~xfer[s].cancelled =>
      s \in thread[t].sweep \/ Rechecked(s)

Inv ==
  /\ Types /\ LockInv /\ ReaderInv /\ WriterInv /\ EventInv /\ CloserInv
  /\ PlaceInv /\ RequestInv /\ CountInv /\ LostInv /\ SweepInv
  /\ LossReachesEveryTransfer /\ NoLostWakeup

(* The labels at which a thread holds no slot and owes no answer.          *)
Free(t) ==
  {"idle", "loop", "look"} \union Waits \union (IF t = "writer" THEN {"exchange"} ELSE {})

-----------------------------------------------------------------------------
(* The step of the thread t, field by field: every other thread is where   *)
(* it was.                                                                 *)
Becomes(t, pc, slot, after, notify, sweep) ==
  /\ thread' \in [Threads -> Position]
  /\ \A u \in Threads :
       /\ thread'[u].pc = IF u = t THEN pc ELSE thread[u].pc
       /\ thread'[u].slot = IF u = t THEN slot ELSE thread[u].slot
       /\ thread'[u].after = IF u = t THEN after ELSE thread[u].after
       /\ thread'[u].notify = IF u = t THEN notify ELSE thread[u].notify
       /\ thread'[u].sweep = IF u = t THEN sweep ELSE thread[u].sweep
       /\ thread'[u].locking = thread[u].locking

(* A step of notify by t: the waiter w, if it sleeps, is woken, and n is   *)
(* who is left to be notified.                                             *)
Notified(t, w, n, locking) ==
  /\ thread' \in [Threads -> Position]
  /\ \A u \in Threads :
       /\ thread'[u].pc =
            IF u = w /\ thread[u].pc = "asleep" THEN "registered" ELSE thread[u].pc
       /\ thread'[u].slot = thread[u].slot
       /\ thread'[u].after = thread[u].after
       /\ thread'[u].notify = IF u = t THEN n ELSE thread[u].notify
       /\ thread'[u].sweep = thread[u].sweep
       /\ thread'[u].locking = IF u = t THEN locking ELSE thread[u].locking

-----------------------------------------------------------------------------
(* Rings *)

(* A push adds the slot, and once if it was not there.                     *)
LEMMA Pushed ==
  ASSUME NEW S, NEW q \in Seq(S), NEW e \in S
  PROVE  /\ \A s : In(Append(q, e), s) <=> In(q, s) \/ s = e
         /\ Once(q) /\ ~In(q, e) => Once(Append(q, e))
         /\ Append(q, e) # <<>>
  <1>1. DOMAIN q = 1..Len(q) /\ DOMAIN Append(q, e) = 1..Len(q) + 1
    OBVIOUS
  <1>2. \A i \in 1..Len(q) : Append(q, e)[i] = q[i]
    OBVIOUS
  <1>3. Append(q, e)[Len(q) + 1] = e
    OBVIOUS
  <1>4. Len(q) \in Nat
    OBVIOUS
  <1>5. Append(q, e) # <<>>
    BY <1>1, <1>4
  <1>6. ASSUME NEW s
        PROVE  In(Append(q, e), s) <=> In(q, s) \/ s = e
    BY <1>1, <1>2, <1>3, <1>4 DEF In
  <1>7. ASSUME Once(q), ~In(q, e)
        PROVE  Once(Append(q, e))
    BY <1>1, <1>2, <1>3, <1>4, <1>7 DEF In, Once
  <1> QED
    BY <1>5, <1>6, <1>7

(* A pop takes out the first slot, and no copy of it stays.                *)
LEMMA Popped ==
  ASSUME NEW S, NEW q \in Seq(S), q # <<>>, Once(q)
  PROVE  /\ In(q, Head(q)) /\ Head(q) \in S
         /\ \A s : In(Tail(q), s) <=> In(q, s) /\ s # Head(q)
         /\ Once(Tail(q)) /\ Tail(q) \in Seq(S)
  <1>1. DOMAIN q = 1..Len(q) /\ DOMAIN Tail(q) = 1..Len(q) - 1 /\ Len(q) \in Nat /\ Len(q) > 0
    OBVIOUS
  <1>2. \A i \in 1..Len(q) - 1 : Tail(q)[i] = q[i + 1]
    OBVIOUS
  <1>3. Head(q) = q[1] /\ Head(q) \in S
    OBVIOUS
  <1>4. Tail(q) \in Seq(S)
    OBVIOUS
  <1>5. In(q, Head(q))
    BY <1>1, <1>3 DEF In
  <1>6. ASSUME NEW s, In(Tail(q), s)
        PROVE  In(q, s) /\ s # Head(q)
    <2>1. PICK i \in 1..Len(q) - 1 : Tail(q)[i] = s
      BY <1>1, <1>6 DEF In
    <2>2. i + 1 \in 1..Len(q) /\ i + 1 # 1 /\ 1 \in 1..Len(q)
      BY <1>1
    <2>3. q[i + 1] = s
      BY <1>2, <2>1
    <2> QED
      BY <1>1, <1>3, <2>2, <2>3 DEF In, Once
  <1>7. ASSUME NEW s, In(q, s), s # Head(q)
        PROVE  In(Tail(q), s)
    <2>1. PICK i \in 1..Len(q) : q[i] = s
      BY <1>1, <1>7 DEF In
    <2>2. i # 1
      BY <1>3, <1>7, <2>1
    <2>3. i - 1 \in 1..Len(q) - 1 /\ (i - 1) + 1 = i
      BY <1>1, <2>2
    <2>4. Tail(q)[i - 1] = s
      BY <1>2, <2>1, <2>3
    <2> QED
      BY <1>1, <2>3, <2>4 DEF In
  <1>8. Once(Tail(q))
    <2> SUFFICES ASSUME NEW i \in 1..Len(q) - 1, NEW j \in 1..Len(q) - 1, Tail(q)[i] = Tail(q)[j]
                 PROVE  i = j
      BY <1>1 DEF Once
    <2>1. q[i + 1] = q[j + 1]
      BY <1>2
    <2>2. i + 1 \in DOMAIN q /\ j + 1 \in DOMAIN q
      BY <1>1
    <2>3. i + 1 = j + 1
      BY <2>1, <2>2 DEF Once
    <2> QED
      BY <2>3
  <1> QED
    BY <1>3, <1>4, <1>5, <1>6, <1>7, <1>8

(* What is not the first stays in the tail.                                *)
LEMMA TailKeeps ==
  ASSUME NEW S, NEW q \in Seq(S), q # <<>>, NEW s, s # Head(q), \E i \in DOMAIN q : q[i] = s
  PROVE  \E i \in DOMAIN Tail(q) : Tail(q)[i] = s
  <1>1. PICK i \in DOMAIN q : q[i] = s
    OBVIOUS
  <1>2. DOMAIN q = 1..Len(q) /\ DOMAIN Tail(q) = 1..Len(q) - 1 /\ Len(q) \in Nat
        /\ Head(q) = q[1]
    OBVIOUS
  <1>3. i # 1
    BY <1>1, <1>2
  <1>4. i - 1 \in DOMAIN Tail(q) /\ (i - 1) + 1 = i
    BY <1>2, <1>3
  <1>5. Tail(q)[i - 1] = q[i]
    BY <1>2, <1>4
  <1> QED
    BY <1>1, <1>4, <1>5

-----------------------------------------------------------------------------
(* Places *)

(* A step that leaves every transfer where it is.                          *)
LEMMA SlotsStay ==
  ASSUME PlaceInv, UNCHANGED <<requestReads, inSlots, outSlots, readyIn, freeOut>>,
         lost => lost',
         \A p \in Places : \A s \in Slots : Has(p, s)' <=> Has(p, s)
  PROVE  PlaceInv'
  BY DEF PlaceInv, Slots

(* In request mode the transfer that the reader works on is not out.       *)
LEMMA ReaderHoldsRequest ==
  ASSUME Inv, requestReads, thread["reader"].slot # NoSlot, thread["reader"].pc \in Holding
  PROVE  ~Out
  <1> DEFINE s == thread["reader"].slot
  <1>1. s \in inSlots /\ inSlots = {s}
    BY DEF Inv, ReaderInv, Types
  <1>2. Has("reader", s) /\ "reader" \in Places /\ s \in Slots
    BY <1>1 DEF Has, Holds, Places, Threads, Slots
  <1>3. \A p \in Places : Has(p, s) => p = "reader"
    BY <1>2 DEF Inv, PlaceInv
  <1>4. ~Has("usb", s) /\ ~Has("ready", s)
    BY <1>3 DEF Places
  <1>5. ~xfer[s].flying /\ ~In(readyIn, s)
    BY <1>4 DEF Has
  <1>6. readyIn \in Seq({s})
    BY <1>1 DEF Inv, Types
  <1>7. readyIn = <<>>
    <2> SUFFICES ASSUME readyIn # <<>>
                 PROVE  FALSE
      OBVIOUS
    <2>1. 1 \in DOMAIN readyIn /\ readyIn[1] = s
      BY <1>6
    <2> QED
      BY <1>5, <2>1 DEF In
  <1> QED
    BY <1>1, <1>5, <1>7 DEF Out

(* A step that moves the transfer x from the place a to the place b.       *)
LEMMA SlotMoves ==
  ASSUME PlaceInv, UNCHANGED <<requestReads, inSlots, outSlots>>, lost => lost',
         NEW x \in Slots, NEW a \in Places, NEW b \in Places, Has(a, x),
         Once(readyIn)', Once(freeOut)',
         \A p \in Places : \A s \in Slots :
           Has(p, s)' <=> (Has(p, s) /\ ~(p = a /\ s = x)) \/ (p = b /\ s = x)
  PROVE  PlaceInv'
  BY DEF PlaceInv, Slots

(* A step that takes the transfer x, which was nowhere, to the place b.    *)
LEMMA SlotIsTaken ==
  ASSUME PlaceInv, UNCHANGED <<requestReads, inSlots, outSlots>>, lost => lost',
         NEW x \in Slots, NEW b \in Places, \A p \in Places : ~Has(p, x),
         Once(readyIn)', Once(freeOut)',
         \A p \in Places : \A s \in Slots : Has(p, s)' <=> Has(p, s) \/ (p = b /\ s = x)
  PROVE  PlaceInv'
  BY DEF PlaceInv, Slots

(* A step that gives the IN transfer x up.                                 *)
LEMMA SlotDrops ==
  ASSUME PlaceInv, UNCHANGED <<requestReads, inSlots, outSlots>>, lost => lost',
         NEW x \in inSlots, NEW a \in Places, Has(a, x), lost' \/ requestReads,
         Once(readyIn)', Once(freeOut)',
         \A p \in Places : \A s \in Slots : Has(p, s)' <=> Has(p, s) /\ ~(p = a /\ s = x)
  PROVE  PlaceInv'
  BY DEF PlaceInv, Slots

-----------------------------------------------------------------------------
(* The operators on threads, field by field *)

LEMMA GotoBecomes ==
  ASSUME Types, NEW t \in Threads, NEW label \in Labels, Goto(t, label)
  PROVE  Becomes(t, label, thread[t].slot, thread[t].after, thread[t].notify, thread[t].sweep)
  <1>1. thread \in [Threads -> Position]
    BY DEF Types
  <1>2. thread' = [thread EXCEPT ![t].pc = label]
    BY DEF Goto
  <1>3. [thread[t] EXCEPT !.pc = label] \in Position
    BY <1>1 DEF Position
  <1>4. thread' \in [Threads -> Position]
    BY <1>1, <1>2, <1>3
  <1> QED
    BY <1>1, <1>2, <1>4 DEF Becomes, Position

LEMMA TakesBecomes ==
  ASSUME Types, NEW t \in Threads, NEW s \in Slots, NEW label \in {"idle", "loop", "request"},
         Takes(t, s, label)
  PROVE  Becomes(t, "submit", s, label, thread[t].notify, thread[t].sweep)
  <1>1. thread \in [Threads -> Position]
    BY DEF Types
  <1>2. thread' = [thread EXCEPT ![t].pc = "submit", ![t].slot = s, ![t].after = label]
    BY DEF Takes
  <1>3. "submit" \in Labels
    BY DEF Labels, ReaderLabels, Submits
  <1>4. [thread[t] EXCEPT !.pc = "submit", !.slot = s, !.after = label] \in Position
    BY <1>1, <1>3 DEF Position
  <1>5. thread' \in [Threads -> Position]
    BY <1>1, <1>2, <1>4
  <1> QED
    BY <1>1, <1>2, <1>5 DEF Becomes, Position

LEMMA DropsBecomes ==
  ASSUME Types, NEW t \in Threads, NEW label \in Labels, Drops(t, label)
  PROVE  Becomes(t, label, NoSlot, "idle", thread[t].notify, thread[t].sweep)
  <1>1. thread \in [Threads -> Position]
    BY DEF Types
  <1>2. thread' = [thread EXCEPT ![t].pc = label, ![t].slot = NoSlot, ![t].after = "idle"]
    BY DEF Drops
  <1>3. [thread[t] EXCEPT !.pc = label, !.slot = NoSlot, !.after = "idle"] \in Position
    BY <1>1 DEF Position
  <1>4. thread' \in [Threads -> Position]
    BY <1>1, <1>2, <1>3
  <1> QED
    BY <1>1, <1>2, <1>4 DEF Becomes, Position

(* t goes to the label with waiters to notify.                             *)
LEMMA NotifiesBecomes ==
  ASSUME Types, NEW t \in Threads, NEW label \in Labels, NEW n \in Seq(Sides),
         thread' = [thread EXCEPT ![t].pc = label, ![t].notify = n]
  PROVE  Becomes(t, label, thread[t].slot, thread[t].after, n, thread[t].sweep)
  <1>1. thread \in [Threads -> Position]
    BY DEF Types
  <1>2. [thread[t] EXCEPT !.pc = label, !.notify = n] \in Position
    BY <1>1 DEF Position
  <1>3. thread' \in [Threads -> Position]
    BY <1>1, <1>2
  <1> QED
    BY <1>1, <1>3 DEF Becomes, Position

(* t goes to the label and keeps a slot.                                   *)
LEMMA KeepsBecomes ==
  ASSUME Types, NEW t \in Threads, NEW label \in Labels, NEW s \in Slots,
         thread' = [thread EXCEPT ![t].pc = label, ![t].slot = s]
  PROVE  Becomes(t, label, s, thread[t].after, thread[t].notify, thread[t].sweep)
  <1>1. thread \in [Threads -> Position]
    BY DEF Types
  <1>2. [thread[t] EXCEPT !.pc = label, !.slot = s] \in Position
    BY <1>1 DEF Position
  <1>3. thread' \in [Threads -> Position]
    BY <1>1, <1>2
  <1> QED
    BY <1>1, <1>3 DEF Becomes, Position

(* t gives its slot away and has waiters to notify.                        *)
LEMMA GivesBecomes ==
  ASSUME Types, NEW t \in Threads, NEW label \in Labels, NEW n \in Seq(Sides),
         thread' = [thread EXCEPT ![t].pc = label, ![t].slot = NoSlot, ![t].notify = n]
  PROVE  Becomes(t, label, NoSlot, thread[t].after, n, thread[t].sweep)
  <1>1. thread \in [Threads -> Position]
    BY DEF Types
  <1>2. [thread[t] EXCEPT !.pc = label, !.slot = NoSlot, !.notify = n] \in Position
    BY <1>1 DEF Position
  <1>3. thread' \in [Threads -> Position]
    BY <1>1, <1>2
  <1> QED
    BY <1>1, <1>3 DEF Becomes, Position

(* t has the transfers still to cancel.                                    *)
LEMMA SweepsBecomes ==
  ASSUME Types, NEW t \in Threads, NEW S \in SUBSET Slots,
         thread' = [thread EXCEPT ![t].sweep = S]
  PROVE  Becomes(t, thread[t].pc, thread[t].slot, thread[t].after, thread[t].notify, S)
  <1>1. thread \in [Threads -> Position]
    BY DEF Types
  <1>2. [thread[t] EXCEPT !.sweep = S] \in Position
    BY <1>1 DEF Position
  <1>3. thread' \in [Threads -> Position]
    BY <1>1, <1>2
  <1> QED
    BY <1>1, <1>3 DEF Becomes, Position

LEMMA MarkLostBecomes ==
  ASSUME Types, NEW t \in Threads, NEW label \in Labels, MarkLost(t, label)
  PROVE  lost' /\ Becomes(t, label, thread[t].slot, thread[t].after, <<"in", "out">>,
                          thread[t].sweep)
  <1>1. thread \in [Threads -> Position]
    BY DEF Types
  <1>2. thread' = [thread EXCEPT ![t].notify = <<"in", "out">>, ![t].pc = label]
    BY DEF MarkLost
  <1>3. <<"in", "out">> \in Seq(Sides)
    BY DEF Sides
  <1>4. [thread[t] EXCEPT !.notify = <<"in", "out">>, !.pc = label] \in Position
    BY <1>1, <1>3 DEF Position
  <1>5. thread' \in [Threads -> Position]
    BY <1>1, <1>2, <1>4
  <1> QED
    BY <1>1, <1>2, <1>5 DEF Becomes, Position, MarkLost

LEMMA LoseBecomes ==
  ASSUME Types, NEW t \in Threads, NEW label \in Labels, Lose(t, label)
  PROVE  lost' /\ Becomes(t, label, thread[t].slot, thread[t].after, <<"in", "out">>, Slots)
  <1>1. thread \in [Threads -> Position]
    BY DEF Types
  <1>2. thread' = [thread EXCEPT ![t].notify = <<"in", "out">>, ![t].pc = label,
                                 ![t].sweep = Slots]
    BY DEF Lose
  <1>3. <<"in", "out">> \in Seq(Sides)
    BY DEF Sides
  <1>4. [thread[t] EXCEPT !.notify = <<"in", "out">>, !.pc = label, !.sweep = Slots] \in Position
    BY <1>1, <1>3 DEF Position
  <1>5. thread' \in [Threads -> Position]
    BY <1>1, <1>2, <1>4
  <1> QED
    BY <1>1, <1>2, <1>5 DEF Becomes, Position, Lose

-----------------------------------------------------------------------------
(* Counting *)

LEMMA CountsAreFinite ==
  ASSUME Types
  PROVE  /\ IsFiniteSet(Flying) /\ Cardinality(Flying) \in Nat
         /\ IsFiniteSet(Counted) /\ Cardinality(Counted) \in Nat
  <1>1. IsFiniteSet(InTransfers \union OutTransfers)
    BY ChannelAssumption, FS_Union
  <1>2. Flying \subseteq InTransfers \union OutTransfers
    BY DEF Types, Flying, Slots
  <1>3. IsFiniteSet(Flying)
    BY <1>1, <1>2, FS_Subset
  <1>4. IsFiniteSet({"reader", "writer", "event", "closer"})
    <2>1. IsFiniteSet({}) /\ IsFiniteSet({} \union {"reader"})
      BY FS_EmptySet, FS_AddElement
    <2>2. IsFiniteSet({"reader"} \union {"writer"})
      BY <2>1, FS_AddElement
    <2>3. IsFiniteSet({"reader", "writer"} \union {"event"})
      BY <2>2, FS_AddElement
    <2>4. IsFiniteSet({"reader", "writer", "event"} \union {"closer"})
      BY <2>3, FS_AddElement
    <2> QED
      BY <2>4
  <1>5. IsFiniteSet(Counted)
    BY <1>4, FS_Subset DEF Counted, Threads
  <1> QED
    BY <1>3, <1>5, FS_CardinalityType

(* Nothing is under way in a freed Channel.                                *)
LEMMA FreedIsEmpty ==
  ASSUME Types, CountInv, freed
  PROVE  Flying = {} /\ Counted = {}
  <1>1. Cardinality(Flying) = 0 /\ Cardinality(Counted) = 0
    BY CountsAreFinite DEF CountInv
  <1> QED
    BY <1>1, CountsAreFinite, FS_EmptySet

(* One more, one less.                                                     *)
LEMMA OneMore ==
  ASSUME NEW S, IsFiniteSet(S), NEW x, x \notin S
  PROVE  Cardinality(S \union {x}) = Cardinality(S) + 1
  BY FS_AddElement

LEMMA OneLess ==
  ASSUME NEW S, IsFiniteSet(S), NEW x, x \in S
  PROVE  Cardinality(S \ {x}) = Cardinality(S) - 1
  BY FS_RemoveElement

(* Cancelling a transfer that is out.                                      *)
LEMMA CancelKeepsTypes ==
  ASSUME Types, NEW s \in Slots
  PROVE  Cancelled(s) \in [Slots -> Transfer]
  <1>1. xfer \in [Slots -> Transfer]
    BY DEF Types
  <1>2. [xfer[s] EXCEPT !.cancelled = xfer[s].flying] \in Transfer
    BY <1>1 DEF Transfer
  <1> QED
    BY <1>1, <1>2 DEF Cancelled

-----------------------------------------------------------------------------
(* The steps *)

(* A thread without a slot goes on; it returns only from a Channel that is *)
(* not being closed, and sleeps only if it has seen its predicate false.   *)
LEMMA Walk ==
  ASSUME Inv, NEW t \in {"reader", "writer"}, NEW label \in Free(t), Goto(t, label),
         UNCHANGED <<opened, usb, rings, lost, local, history>>,
         thread[t].pc \in Free(t), thread[t].pc = "idle" => InUse,
         label \in {"checked", "asleep"} =>
           \/ thread[t].pc = "checked"
           \/ (t = "reader" /\ ~Ready("in")) \/ (t = "writer" /\ ~Ready("out"))
  PROVE  Inv'
  <1> USE DEF Inv, Types, Threads, Slots, At, opened, usb, rings, flags, local, history, Free,
              InUse, Waits
  <1>1. Becomes(t, label, thread[t].slot, thread[t].after, thread[t].notify, thread[t].sweep)
    BY GotoBecomes DEF Labels, ReaderLabels, WriterLabels, Submits
  <1>2. Types'
    BY <1>1 DEF Transfer, Position, ReaderInv, WriterInv, Becomes, Goto, Statuses, Sides,
                Submits,
                ReaderLabels, WriterLabels
  <1>3. LockInv' /\ ReaderInv' /\ WriterInv' /\ EventInv' /\ CloserInv'
    BY <1>1 DEF LockInv, ReaderInv, WriterInv, EventInv, CloserInv, Becomes, Goto, Submits,
                ReaderLabels, WriterLabels
  <1>4. PlaceInv'
    <2>1. \A p \in Threads : \A z \in Slots : Holds(p, z)' <=> Holds(p, z)
      BY <1>1 DEF Becomes, Holds, Holding
    <2>2. \A p \in Places : \A z \in Slots : Has(p, z)' <=> Has(p, z)
      BY <2>1 DEF Has
    <2>3. UNCHANGED <<requestReads, inSlots, outSlots, readyIn, freeOut>> /\ (lost => lost')
      OBVIOUS
    <2> QED
      BY <2>2, <2>3, SlotsStay
  <1>5. RequestInv'
    <2>1. Out' <=> Out
      BY DEF Out
    <2>2. /\ thread'["reader"].after = thread["reader"].after
          /\ thread'["reader"].pc = thread["reader"].pc \/
               /\ thread["reader"].pc \in {"idle", "loop", "look"} \union Waits
               /\ thread'["reader"].pc \in {"idle", "loop", "look"} \union Waits
      BY <1>1 DEF Becomes
    <2>3. RequestInv /\ UNCHANGED <<requestReads, requestPending>>
      OBVIOUS
    <2> HIDE DEF Inv, Types, Threads, Slots, At, opened, usb, rings, flags, local, history,
                 Free, InUse
    <2> QED
      BY <2>1, <2>2, <2>3 DEF RequestInv, Submits
  <1>6. CountInv'
    <2>1. Flying' = Flying
      BY <1>1 DEF Transfer, Flying, Becomes, Statuses
    <2>2. Counted' = Counted
      BY <1>1 DEF Transfer, Counted, Becomes, Statuses
    <2> QED
      BY <2>1, <2>2 DEF CountInv
  <1>7. LostInv' /\ SweepInv' /\ LossReachesEveryTransfer'
    BY <1>1 DEF Transfer, EventInv, LostInv, SweepInv, LossReachesEveryTransfer, Becomes, Goto,
                Statuses, Rechecked
  <1>8. NoLostWakeup'
    BY <1>1 DEF EventInv, NoLostWakeup, Becomes, Goto, WaitingThread, Ready, Sides
  <1> QED
    BY <1>2, <1>3, <1>4, <1>5, <1>6, <1>7, <1>8

(* A step of notify: nobody who waits, or is about to, is forgotten.       *)
LEMMA NotifyKeeps ==
  ASSUME Inv, NEW t \in Threads, NEW w \in {"reader", "writer", "nobody"}, NEW n \in Seq(Sides),
         NEW locking \in BOOLEAN, Notified(t, w, n, locking), UNCHANGED shared,
         thread[t].notify # <<>>, locking => n # <<>>,
         \A side \in Sides :
           thread'[WaitingThread(side)].pc \in {"checked", "asleep"}
           /\ (\E i \in DOMAIN thread[t].notify : thread[t].notify[i] = side)
             => \E i \in DOMAIN n : n[i] = side
  PROVE  Inv'
  <1> USE DEF Inv, Types, Threads, Slots, At, opened, usb, rings, flags, local, history, shared,
              Notified
  <1>1. Notified(t, w, n, locking)
    OBVIOUS
  <1>2. Types'
    BY <1>1 DEF Transfer, Position, ReaderInv, WriterInv, Statuses, Sides, Submits,
                ReaderLabels,
                WriterLabels, Waits
  <1>3. LockInv' /\ ReaderInv' /\ WriterInv' /\ EventInv' /\ CloserInv'
    BY <1>1 DEF LockInv, ReaderInv, WriterInv, EventInv, CloserInv, Submits, ReaderLabels,
                WriterLabels, Waits
  <1>4. PlaceInv'
    <2>1. \A p \in Threads : \A z \in Slots : Holds(p, z)' <=> Holds(p, z)
      BY DEF Holds, Holding
    <2>2. \A p \in Places : \A z \in Slots : Has(p, z)' <=> Has(p, z)
      BY <2>1 DEF Has
    <2>3. UNCHANGED <<requestReads, inSlots, outSlots, readyIn, freeOut>> /\ (lost => lost')
      OBVIOUS
    <2> QED
      BY <2>2, <2>3, SlotsStay
  <1>5. RequestInv'
    BY <1>1 DEF ReaderInv, PlaceInv, RequestInv, Has, In, Once, Submits, ReaderLabels, Places,
                Waits, Out, Holds, Holding
  <1>6. CountInv'
    <2>1. Flying' = Flying
      BY <1>1 DEF Transfer, Flying, Becomes, Statuses
    <2>2. Counted' = Counted
      BY <1>1 DEF Transfer, Counted, Becomes, Statuses
    <2> QED
      BY <2>1, <2>2 DEF CountInv
  <1>7. LostInv' /\ SweepInv' /\ LossReachesEveryTransfer'
    BY <1>1 DEF Transfer, EventInv, LostInv, SweepInv, LossReachesEveryTransfer, Statuses,
                Rechecked
  <1>8. NoLostWakeup'
    BY <1>1 DEF EventInv, NoLostWakeup, WaitingThread, Ready, Sides
  <1> QED
    BY <1>2, <1>3, <1>4, <1>5, <1>6, <1>7, <1>8

LEMMA InCompletesStep ==
  ASSUME Inv, NEW s \in Slots, NEW status \in Statuses, InCompletes(s, status)
  PROVE  Inv'
  <1> USE DEF Inv, Types, Threads, Slots, At, opened, usb, rings, flags, local, history, Resting,
              InCompletes
  <1>1. Becomes("event", "count", thread["event"].slot, thread["event"].after, <<"in">>,
     thread["event"].sweep)
    <2>1. <<"in">> \in Seq(Sides)
      BY DEF Sides
    <2> QED
      BY <2>1, NotifiesBecomes DEF Labels, ReaderLabels, WriterLabels, Waits, Submits
  <1>2. Types'
    <2>1. xfer' \in [Slots' -> Transfer']
      BY <1>1 DEF Transfer, Becomes, Statuses
    <2>2. readyIn' \in Seq(inSlots') /\ freeOut' \in Seq(outSlots')
      BY <1>1 DEF EventInv
    <2>3. /\ requestReads' \in BOOLEAN /\ inSlots' \subseteq InTransfers
          /\ outSlots' \subseteq OutTransfers
          /\ requestReads' => \E z \in inSlots' : inSlots' = {z}
          /\ inFlight' \in Int /\ lost' \in BOOLEAN /\ freed' \in BOOLEAN /\ swept' \in BOOLEAN
          /\ requestPending' \in BOOLEAN
          /\ current' \in inSlots' \union {NoSlot} /\ spare' \in outSlots' \union {NoSlot}
      BY <1>1
    <2>4. thread' \in [Threads -> Position']
      BY <1>1 DEF Position, Becomes, Sides
    <2> QED
      BY <2>1, <2>2, <2>3, <2>4
  <1>3. LockInv' /\ ReaderInv' /\ WriterInv' /\ EventInv' /\ CloserInv'
    <2>1. LockInv'
      BY <1>1 DEF LockInv, Becomes
    <2>2. ReaderInv'
      BY <1>1 DEF ReaderInv, Becomes, Submits, ReaderLabels, Waits
    <2>3. WriterInv'
      BY <1>1 DEF WriterInv, Becomes, Submits, WriterLabels, Waits
    <2>4. EventInv'
      BY <1>1 DEF EventInv, Becomes
    <2>5. CloserInv'
      BY <1>1 DEF CloserInv, Becomes
    <2> QED
      BY <2>1, <2>2, <2>3, <2>4, <2>5
  <1>4. PlaceInv'
    <2>1. ~In(readyIn, s)
      BY DEF PlaceInv, Has, EventInv, Places, Holds, Holding
    <2>2. (\A z : In(readyIn', z) <=> In(readyIn, z) \/ z = s) /\ Once(readyIn')
      BY <2>1, Pushed DEF PlaceInv, EventInv, Places
    <2>3. \A p \in Places : \A z \in Slots :
            Has(p, z)' <=> (Has(p, z) /\ ~(p = "usb" /\ z = s)) \/ (p = "ready" /\ z = s)
      BY ChannelAssumption, <1>1, <2>2 DEF ChannelAssumption, Transfer, Position, ReaderInv,
                                           WriterInv, EventInv, CloserInv, Has, Becomes, Statuses,
                                           Sides, Submits, ReaderLabels, WriterLabels, Holds,
                                           Waits, Holding
    <2>4. s \in Slots /\ Has("usb", s)
      BY ChannelAssumption, <2>2 DEF ChannelAssumption, Position, ReaderInv, WriterInv,
                                     EventInv,
                                     Has, Sides, Submits, ReaderLabels, WriterLabels, Holds,
                                     Waits, Holding
    <2>5. Once(readyIn)' /\ Once(freeOut)'
      BY <2>2 DEF PlaceInv
    <2>6. "usb" \in Places /\ "ready" \in Places
          /\ UNCHANGED <<requestReads, inSlots, outSlots>>
          /\ (lost => lost')
      BY DEF Places
    <2> QED
      BY <2>3, <2>4, <2>5, <2>6, SlotMoves
  <1>5. RequestInv'
    <2>1. Out
      BY DEF Out
    <2>2. Out'
      BY Pushed DEF Out
    <2> QED
      BY <1>1, <2>1, <2>2 DEF Becomes, RequestInv, Waits, Submits
  <1>6. CountInv'
    <2>1. Flying' = Flying \ {s} /\ s \in Flying
      BY <1>1 DEF Transfer, Flying, Becomes
    <2>2. Counted' = Counted \union {"event"} /\ "event" \notin Counted
      BY <1>1 DEF Counted, Becomes
    <2>3. Cardinality(Flying') = Cardinality(Flying) - 1
      BY <2>1, CountsAreFinite, OneLess
    <2>4. Cardinality(Counted') = Cardinality(Counted) + 1
      BY <2>2, CountsAreFinite, OneMore
    <2>5. ~freed
      BY FreedIsEmpty, <2>1, <2>2 DEF CloserInv
    <2> QED
      BY <2>3, <2>4, <2>5, CountsAreFinite DEF CountInv
  <1>7. LostInv' /\ SweepInv' /\ LossReachesEveryTransfer'
    <2>1. LostInv'
      BY <1>1 DEF Transfer, LostInv, Becomes, Statuses
    <2>2. SweepInv'
      BY <1>1 DEF Transfer, LostInv, SweepInv, Becomes, Statuses, Rechecked
    <2>3. LossReachesEveryTransfer'
      BY <1>1 DEF Transfer, LostInv, LossReachesEveryTransfer, Becomes, Statuses
    <2> QED
      BY <2>1, <2>2, <2>3
  <1>8. NoLostWakeup'
    <2> SUFFICES ASSUME NEW side \in Sides,
                        thread[WaitingThread(side)].pc' \in {"checked", "asleep"},
                        Ready(side)'
                 PROVE  \/ (\E u \in Threads :
                              \E i \in DOMAIN thread[u].notify : thread[u].notify[i] = side)'
                        \/ side = "out" /\ thread["event"].pc' = "free"
      BY DEF NoLostWakeup, WaitingThread
    <2>1. 1 \in DOMAIN thread'["event"].notify /\ thread'["event"].notify[1] = "in"
      BY <1>1 DEF Becomes
    <2>2. CASE side = "in"
      BY <2>1, <2>2
    <2>3. CASE side = "out"
      <3>1. thread[WaitingThread(side)].pc \in {"checked", "asleep"} /\ Ready(side)
        BY <1>1, <2>3 DEF Becomes, WaitingThread, Ready
      <3>2. PICK u \in Threads : \E i \in DOMAIN thread[u].notify : thread[u].notify[i] = side
        BY <2>3, <3>1 DEF NoLostWakeup
      <3>3. u # "event"
        BY <3>2
      <3>4. thread'[u].notify = thread[u].notify
        BY <1>1, <3>3 DEF Becomes
      <3> QED
        BY <3>2, <3>4
    <2> QED
      BY <2>2, <2>3 DEF Sides
  <1> QED
    BY <1>2, <1>3, <1>4, <1>5, <1>6, <1>7, <1>8

LEMMA OutCompletesStep ==
  ASSUME Inv, NEW s \in Slots, NEW status \in Statuses, OutCompletes(s, status)
  PROVE  Inv'
  <1> USE DEF Inv, Types, Threads, Slots, At, opened, usb, rings, flags, local, history, Resting,
              RecordError, OutCompletes
  <1>1. Becomes("event", IF status = "gone" THEN "lose" ELSE "free", s, thread["event"].after,
     thread["event"].notify, thread["event"].sweep)
    BY KeepsBecomes DEF Labels, ReaderLabels, WriterLabels, Waits, Submits
  <1>2. Types'
    <2>1. xfer' \in [Slots' -> Transfer']
      BY <1>1 DEF Transfer, Becomes, Statuses
    <2>2. readyIn' \in Seq(inSlots') /\ freeOut' \in Seq(outSlots')
      BY <1>1 DEF EventInv
    <2>3. /\ requestReads' \in BOOLEAN /\ inSlots' \subseteq InTransfers
          /\ outSlots' \subseteq OutTransfers
          /\ requestReads' => \E z \in inSlots' : inSlots' = {z}
          /\ inFlight' \in Int /\ lost' \in BOOLEAN /\ freed' \in BOOLEAN /\ swept' \in BOOLEAN
          /\ requestPending' \in BOOLEAN
          /\ current' \in inSlots' \union {NoSlot} /\ spare' \in outSlots' \union {NoSlot}
      BY <1>1
    <2>4. thread' \in [Threads -> Position']
      BY <1>1 DEF Position, Becomes, Sides
    <2> QED
      BY <2>1, <2>2, <2>3, <2>4
  <1>3. LockInv' /\ ReaderInv' /\ WriterInv' /\ EventInv' /\ CloserInv'
    <2>1. LockInv'
      BY <1>1 DEF LockInv, Becomes
    <2>2. ReaderInv'
      BY <1>1 DEF ReaderInv, Becomes, Submits, ReaderLabels, Waits
    <2>3. WriterInv'
      BY <1>1 DEF WriterInv, Becomes, Submits, WriterLabels, Waits
    <2>4. EventInv'
      BY <1>1 DEF EventInv, Becomes
    <2>5. CloserInv'
      BY <1>1 DEF CloserInv, Becomes
    <2> QED
      BY <2>1, <2>2, <2>3, <2>4, <2>5
  <1>4. PlaceInv'
    <2>1. \A p \in Places : \A z \in Slots :
            Has(p, z)' <=> (Has(p, z) /\ ~(p = "usb" /\ z = s)) \/ (p = "event" /\ z = s)
      BY ChannelAssumption, <1>1 DEF ChannelAssumption, Transfer, Position, ReaderInv,
                                     WriterInv,
                                     EventInv, CloserInv, Has, Becomes, Statuses, Sides, Submits,
                                     ReaderLabels, WriterLabels, Holds, Waits, Holding
    <2>2. s \in Slots /\ Has("usb", s)
      BY ChannelAssumption DEF ChannelAssumption, Position, ReaderInv, WriterInv, EventInv, Has,
                               Sides, Submits, ReaderLabels, WriterLabels, Holds, Waits, Holding
    <2>3. Once(readyIn)' /\ Once(freeOut)'
      BY DEF PlaceInv
    <2>4. "usb" \in Places /\ "event" \in Places
          /\ UNCHANGED <<requestReads, inSlots, outSlots>>
          /\ (lost => lost')
      BY DEF Places
    <2> QED
      BY <2>1, <2>2, <2>3, <2>4, SlotMoves
  <1>5. RequestInv'
    <2>1. Out' <=> Out
      BY <1>1, ChannelAssumption DEF Out, ChannelAssumption, Transfer
    <2> QED
      BY <1>1, <2>1 DEF Becomes, RequestInv, Waits, Submits
  <1>6. CountInv'
    <2>1. Flying' = Flying \ {s} /\ s \in Flying
      BY <1>1 DEF Transfer, Flying, Becomes
    <2>2. Counted' = Counted \union {"event"} /\ "event" \notin Counted
      BY <1>1 DEF Counted, Becomes
    <2>3. Cardinality(Flying') = Cardinality(Flying) - 1
      BY <2>1, CountsAreFinite, OneLess
    <2>4. Cardinality(Counted') = Cardinality(Counted) + 1
      BY <2>2, CountsAreFinite, OneMore
    <2>5. ~freed
      BY FreedIsEmpty, <2>1, <2>2 DEF CloserInv
    <2> QED
      BY <2>3, <2>4, <2>5, CountsAreFinite DEF CountInv
  <1>7. LostInv' /\ SweepInv' /\ LossReachesEveryTransfer'
    <2>1. LostInv'
      BY <1>1 DEF Transfer, LostInv, Becomes, Statuses
    <2>2. SweepInv'
      BY <1>1 DEF Transfer, LostInv, SweepInv, Becomes, Statuses, Rechecked
    <2>3. LossReachesEveryTransfer'
      BY <1>1 DEF Transfer, LostInv, LossReachesEveryTransfer, Becomes, Statuses
    <2> QED
      BY <2>1, <2>2, <2>3
  <1>8. NoLostWakeup'
    <2>1. thread["event"].notify = <<>> /\ thread["event"].pc = "idle"
      OBVIOUS
    <2>2. \A side \in Sides : thread'[WaitingThread(side)].pc = thread[WaitingThread(side)].pc
      BY <1>1 DEF Becomes, WaitingThread
    <2>3. \A u \in Threads : thread'[u].notify = thread[u].notify
      BY <1>1 DEF Becomes
    <2>4. \A side \in Sides : Ready(side)' <=> Ready(side)
      BY DEF Ready
    <2>5. NoLostWakeup
      OBVIOUS
    <2> HIDE DEF Inv, Types, Threads, Slots, At, opened, usb, rings, flags, local, history,
             Resting, RecordError, OutCompletes
    <2> QED
      BY <2>1, <2>2, <2>3, <2>4, <2>5 DEF NoLostWakeup
  <1> QED
    BY <1>2, <1>3, <1>4, <1>5, <1>6, <1>7, <1>8

LEMMA OutLosesStep ==
  ASSUME Inv, OutLoses
  PROVE  Inv'
  <1> USE DEF Inv, Types, Threads, Slots, At, opened, usb, rings, flags, local, history, OutLoses
  <1>1. Becomes("event", "free", thread["event"].slot, thread["event"].after, <<"in">>,
     thread["event"].sweep)
    <2>1. <<"in">> \in Seq(Sides)
      BY DEF Sides
    <2> QED
      BY <2>1, NotifiesBecomes DEF Labels, ReaderLabels, WriterLabels, Waits, Submits
  <1>2. Types'
    BY <1>1 DEF Transfer, Position, ReaderInv, WriterInv, Becomes, Statuses, Sides, Submits,
                ReaderLabels, WriterLabels, Waits
  <1>3. LockInv' /\ ReaderInv' /\ WriterInv' /\ EventInv' /\ CloserInv'
    BY <1>1 DEF LockInv, ReaderInv, WriterInv, EventInv, CloserInv, Becomes, Submits,
                ReaderLabels, WriterLabels, Waits
  <1>4. PlaceInv'
    <2>1. \A p \in Places : \A z \in Slots : Has(p, z)' <=> Has(p, z)
      BY ChannelAssumption, <1>1 DEF ChannelAssumption, Transfer, Position, ReaderInv,
                                     WriterInv,
                                     EventInv, CloserInv, Has, Becomes, Statuses, Sides, Submits,
                                     ReaderLabels, WriterLabels, Holds, Waits, Holding
    <2>2. UNCHANGED <<requestReads, inSlots, outSlots, readyIn, freeOut>> /\ (lost => lost')
      OBVIOUS
    <2> QED
      BY <2>1, <2>2, SlotsStay
  <1>5. RequestInv'
    BY <1>1 DEF ReaderInv, RequestInv, Becomes, Submits, ReaderLabels, Waits, Out
  <1>6. CountInv'
    <2>1. Flying' = Flying
      BY <1>1 DEF Transfer, Flying, Becomes, Statuses
    <2>2. Counted' = Counted
      BY <1>1 DEF Transfer, Counted, Becomes, Statuses
    <2> QED
      BY <2>1, <2>2 DEF CountInv
  <1>7. LostInv' /\ SweepInv' /\ LossReachesEveryTransfer'
    <2>1. LostInv'
      BY <1>1 DEF Transfer, LostInv, Becomes, Statuses
    <2>2. SweepInv'
      <3>1. \A z \in Slots : Rechecked(z)' <=> Rechecked(z)
        BY <1>1 DEF Rechecked, Becomes
      <3>2. \A u \in Threads : thread'[u].sweep = thread[u].sweep
        BY <1>1 DEF Becomes
      <3> QED
        BY <3>1, <3>2 DEF SweepInv
    <2>3. LossReachesEveryTransfer'
      BY <1>1 DEF Transfer, LostInv, LossReachesEveryTransfer, Becomes, Statuses
    <2> QED
      BY <2>1, <2>2, <2>3
  <1>8. NoLostWakeup'
    BY <1>1 DEF EventInv, NoLostWakeup, Becomes, WaitingThread, Ready, Sides
  <1> QED
    BY <1>2, <1>3, <1>4, <1>5, <1>6, <1>7, <1>8

LEMMA OutFreesStep ==
  ASSUME Inv, OutFrees
  PROVE  Inv'
  <1> USE DEF Inv, Types, Threads, Slots, At, opened, usb, rings, flags, local, history, OutFrees
  <1>1. Becomes("event", "count", NoSlot, thread["event"].after, <<"out">>, thread["event"].sweep)
    <2>1. <<"out">> \in Seq(Sides)
      BY DEF Sides
    <2> QED
      BY <2>1, GivesBecomes DEF Labels, ReaderLabels, WriterLabels, Waits, Submits
  <1>2. Types'
    <2>1. xfer' \in [Slots' -> Transfer']
      BY <1>1 DEF Transfer, Becomes, Statuses
    <2>2. readyIn' \in Seq(inSlots') /\ freeOut' \in Seq(outSlots')
      BY <1>1 DEF EventInv
    <2>3. /\ requestReads' \in BOOLEAN /\ inSlots' \subseteq InTransfers
          /\ outSlots' \subseteq OutTransfers
          /\ requestReads' => \E z \in inSlots' : inSlots' = {z}
          /\ inFlight' \in Int /\ lost' \in BOOLEAN /\ freed' \in BOOLEAN /\ swept' \in BOOLEAN
          /\ requestPending' \in BOOLEAN
          /\ current' \in inSlots' \union {NoSlot} /\ spare' \in outSlots' \union {NoSlot}
      BY <1>1
    <2>4. thread' \in [Threads -> Position']
      BY <1>1 DEF Position, Becomes, Sides
    <2> QED
      BY <2>1, <2>2, <2>3, <2>4
  <1>3. LockInv' /\ ReaderInv' /\ WriterInv' /\ EventInv' /\ CloserInv'
    <2>1. LockInv'
      BY <1>1 DEF LockInv, Becomes
    <2>2. ReaderInv'
      BY <1>1 DEF ReaderInv, Becomes, Submits, ReaderLabels, Waits
    <2>3. WriterInv'
      BY <1>1 DEF WriterInv, Becomes, Submits, WriterLabels, Waits
    <2>4. EventInv'
      BY <1>1 DEF EventInv, Becomes
    <2>5. CloserInv'
      BY <1>1 DEF CloserInv, Becomes
    <2> QED
      BY <2>1, <2>2, <2>3, <2>4, <2>5
  <1>4. PlaceInv'
    <2>1. ~In(freeOut, thread["event"].slot)
      BY DEF PlaceInv, Has, EventInv, Places, Holds, Holding
    <2>2. (\A z : In(freeOut', z) <=> In(freeOut, z) \/ z = thread["event"].slot)
          /\ Once(freeOut')
      BY <2>1, Pushed DEF PlaceInv, EventInv, Places
    <2>3. \A p \in Places : \A z \in Slots :
            Has(p, z)' <=> (Has(p, z) /\ ~(p = "event" /\ z = thread["event"].slot))
                           \/ (p = "free" /\ z = thread["event"].slot)
      BY ChannelAssumption, <1>1, <2>2 DEF ChannelAssumption, Transfer, Position, ReaderInv,
                                           WriterInv, EventInv, CloserInv, Has, Becomes, Statuses,
                                           Sides, Submits, ReaderLabels, WriterLabels, Holds,
                                           Waits, Holding
    <2>4. thread["event"].slot \in Slots /\ Has("event", thread["event"].slot)
      BY ChannelAssumption, <2>2 DEF ChannelAssumption, Position, ReaderInv, WriterInv,
                                     EventInv,
                                     Has, Sides, Submits, ReaderLabels, WriterLabels, Holds,
                                     Waits, Holding
    <2>5. Once(readyIn)' /\ Once(freeOut)'
      BY <2>2 DEF PlaceInv
    <2>6. "event" \in Places /\ "free" \in Places
          /\ UNCHANGED <<requestReads, inSlots, outSlots>>
          /\ (lost => lost')
      BY DEF Places
    <2>7. PlaceInv
      OBVIOUS
    <2> HIDE DEF Inv, Types, Threads, Slots, At, opened, usb, rings, flags, local, history,
                 OutFrees
    <2> QED
      BY <2>3, <2>4, <2>5, <2>6, <2>7, SlotMoves
  <1>5. RequestInv'
    BY <1>1 DEF ReaderInv, RequestInv, Becomes, Submits, ReaderLabels, Waits, Out
  <1>6. CountInv'
    <2>1. Flying' = Flying
      BY <1>1 DEF Transfer, Flying, Becomes, Statuses
    <2>2. Counted' = Counted
      BY <1>1 DEF Transfer, Counted, Becomes, Statuses
    <2> QED
      BY <2>1, <2>2 DEF CountInv
  <1>7. LostInv' /\ SweepInv' /\ LossReachesEveryTransfer'
    <2>1. LostInv'
      BY <1>1 DEF Transfer, LostInv, Becomes, Statuses
    <2>2. SweepInv'
      <3>1. \A z \in Slots : Rechecked(z)' <=> Rechecked(z)
        BY <1>1 DEF Rechecked, Becomes
      <3>2. \A u \in Threads : thread'[u].sweep = thread[u].sweep
        BY <1>1 DEF Becomes
      <3> QED
        BY <3>1, <3>2 DEF SweepInv
    <2>3. LossReachesEveryTransfer'
      BY <1>1 DEF Transfer, LostInv, LossReachesEveryTransfer, Becomes, Statuses
    <2> QED
      BY <2>1, <2>2, <2>3
  <1>8. NoLostWakeup'
    <2> SUFFICES ASSUME NEW side \in Sides,
                        thread[WaitingThread(side)].pc' \in {"checked", "asleep"},
                        Ready(side)'
                 PROVE  \/ (\E u \in Threads :
                              \E i \in DOMAIN thread[u].notify : thread[u].notify[i] = side)'
                        \/ side = "out" /\ thread["event"].pc' = "free"
      BY DEF NoLostWakeup, WaitingThread
    <2>1. 1 \in DOMAIN thread'["event"].notify /\ thread'["event"].notify[1] = "out"
      BY <1>1 DEF Becomes
    <2>2. CASE side = "out"
      BY <2>1, <2>2
    <2>3. CASE side = "in"
      <3>1. thread[WaitingThread(side)].pc \in {"checked", "asleep"} /\ Ready(side)
        BY <1>1, <2>3 DEF Becomes, WaitingThread, Ready
      <3>2. PICK u \in Threads : \E i \in DOMAIN thread[u].notify : thread[u].notify[i] = side
        BY <2>3, <3>1 DEF NoLostWakeup
      <3>3. u # "event"
        BY <3>2
      <3>4. thread'[u].notify = thread[u].notify
        BY <1>1, <3>3 DEF Becomes
      <3> QED
        BY <3>2, <3>4
    <2> QED
      BY <2>2, <2>3 DEF Sides
  <1> QED
    BY <1>2, <1>3, <1>4, <1>5, <1>6, <1>7, <1>8

LEMMA CallbackEndsStep ==
  ASSUME Inv, CallbackEnds
  PROVE  Inv'
  <1> USE DEF Inv, Types, Threads, Slots, At, opened, usb, rings, flags, local, history,
              CallbackEnds
  <1>1. Becomes("event", "idle", thread["event"].slot, thread["event"].after,
     thread["event"].notify, thread["event"].sweep)
    BY GotoBecomes DEF Labels, ReaderLabels, WriterLabels, Waits, Submits
  <1>2. Types'
    BY <1>1 DEF Transfer, Position, ReaderInv, WriterInv, Becomes, Statuses, Sides, Submits,
                ReaderLabels, WriterLabels, Waits
  <1>3. LockInv' /\ ReaderInv' /\ WriterInv' /\ EventInv' /\ CloserInv'
    BY <1>1 DEF LockInv, ReaderInv, WriterInv, EventInv, CloserInv, Becomes, Submits,
                ReaderLabels, WriterLabels, Waits
  <1>4. PlaceInv'
    <2>1. \A p \in Places : \A z \in Slots : Has(p, z)' <=> Has(p, z)
      BY ChannelAssumption, <1>1 DEF ChannelAssumption, Transfer, Position, ReaderInv,
                                     WriterInv,
                                     EventInv, CloserInv, Has, Becomes, Statuses, Sides, Submits,
                                     ReaderLabels, WriterLabels, Holds, Waits, Holding
    <2>2. UNCHANGED <<requestReads, inSlots, outSlots, readyIn, freeOut>> /\ (lost => lost')
      OBVIOUS
    <2> QED
      BY <2>1, <2>2, SlotsStay
  <1>5. RequestInv'
    BY <1>1 DEF ReaderInv, RequestInv, Becomes, Submits, ReaderLabels, Waits, Out
  <1>6. CountInv'
    <2>1. Flying' = Flying
      BY <1>1 DEF Transfer, Flying, Becomes, Statuses
    <2>2. Counted' = Counted \ {"event"} /\ "event" \in Counted
      BY <1>1 DEF Counted, Becomes
    <2>3. Cardinality(Flying') = Cardinality(Flying)
      BY <2>1, CountsAreFinite
    <2>4. Cardinality(Counted') = Cardinality(Counted) - 1
      BY <2>2, CountsAreFinite, OneLess
    <2>5. ~freed
      BY FreedIsEmpty, <2>1, <2>2 DEF CloserInv
    <2> QED
      BY <2>3, <2>4, <2>5, CountsAreFinite DEF CountInv
  <1>7. LostInv' /\ SweepInv' /\ LossReachesEveryTransfer'
    BY <1>1 DEF Transfer, EventInv, LostInv, SweepInv, LossReachesEveryTransfer, Becomes,
                Statuses, Rechecked
  <1>8. NoLostWakeup'
    BY <1>1 DEF EventInv, NoLostWakeup, Becomes, WaitingThread, Ready, Sides
  <1> QED
    BY <1>2, <1>3, <1>4, <1>5, <1>6, <1>7, <1>8

LEMMA SweepCancelsStep ==
  ASSUME Inv, NEW t \in Threads, NEW s \in Slots, SweepCancels(t, s)
  PROVE  Inv'
  <1> USE DEF Inv, Types, Threads, Slots, At, opened, usb, rings, flags, local, history,
              SweepCancels
  <1>1. Becomes(t, thread[t].pc, thread[t].slot, thread[t].after, thread[t].notify,
     thread[t].sweep \ {s})
    <2>1. thread[t].sweep \ {s} \in SUBSET Slots
      BY DEF Position
    <2> QED
      BY <2>1, SweepsBecomes
  <1>2. Types'
    <2>1. xfer' \in [Slots' -> Transfer']
      BY CancelKeepsTypes
    <2>2. readyIn' \in Seq(inSlots') /\ freeOut' \in Seq(outSlots')
      BY <1>1 DEF EventInv
    <2>3. /\ requestReads' \in BOOLEAN /\ inSlots' \subseteq InTransfers
          /\ outSlots' \subseteq OutTransfers
          /\ requestReads' => \E z \in inSlots' : inSlots' = {z}
          /\ inFlight' \in Int /\ lost' \in BOOLEAN /\ freed' \in BOOLEAN /\ swept' \in BOOLEAN
          /\ requestPending' \in BOOLEAN
          /\ current' \in inSlots' \union {NoSlot} /\ spare' \in outSlots' \union {NoSlot}
      BY <1>1
    <2>4. thread' \in [Threads -> Position']
      BY <1>1 DEF Position, Becomes, Sides
    <2> QED
      BY <2>1, <2>2, <2>3, <2>4
  <1>3. LockInv' /\ ReaderInv' /\ WriterInv' /\ EventInv' /\ CloserInv'
    BY <1>1 DEF LockInv, ReaderInv, WriterInv, EventInv, CloserInv, Becomes, Submits,
                ReaderLabels, WriterLabels, Cancelled, Waits
  <1>4. PlaceInv'
    <2>1. \A p \in Places : \A z \in Slots : Has(p, z)' <=> Has(p, z)
      BY ChannelAssumption, <1>1 DEF ChannelAssumption, Transfer, Position, ReaderInv,
                                     WriterInv,
                                     EventInv, CloserInv, Has, Becomes, Statuses, Sides, Submits,
                                     ReaderLabels, WriterLabels, Holds, Cancelled, Waits, Holding
    <2>2. UNCHANGED <<requestReads, inSlots, outSlots, readyIn, freeOut>> /\ (lost => lost')
      OBVIOUS
    <2> QED
      BY <2>1, <2>2, SlotsStay
  <1>5. RequestInv'
    <2>1. Out' <=> Out
      BY DEF Out, Cancelled, Transfer
    <2> QED
      BY <1>1, <2>1 DEF Becomes, RequestInv, Waits, Submits
  <1>6. CountInv'
    <2>1. Flying' = Flying
      BY <1>1 DEF Transfer, Flying, Becomes, Statuses, Cancelled
    <2>2. Counted' = Counted
      BY <1>1 DEF Transfer, Counted, Becomes, Statuses, Cancelled
    <2> QED
      BY <2>1, <2>2 DEF CountInv
  <1>7. LostInv' /\ SweepInv' /\ LossReachesEveryTransfer'
    <2>1. LostInv'
      BY <1>1 DEF Transfer, LostInv, Becomes, Statuses, Cancelled
    <2>2. SweepInv'
      BY <1>1 DEF Transfer, LostInv, SweepInv, Becomes, Statuses, Rechecked, Cancelled
    <2>3. LossReachesEveryTransfer'
      BY <1>1 DEF Transfer, Cancelled, LostInv, SweepInv, LossReachesEveryTransfer, Becomes,
                  Rechecked, Statuses
    <2> QED
      BY <2>1, <2>2, <2>3
  <1>8. NoLostWakeup'
    BY <1>1, SMTT(30) DEF NoLostWakeup, Becomes, WaitingThread, Ready, Sides
  <1> QED
    BY <1>2, <1>3, <1>4, <1>5, <1>6, <1>7, <1>8

LEMMA ReadCopiesAllRequestedStep ==
  ASSUME Inv, ReadCopiesAll, requestReads
  PROVE  Inv'
  <1> USE DEF Inv, Types, Threads, Slots, At, opened, usb, rings, flags, local, history,
              ReadCopiesAll
  <1>1. Becomes("reader", "idle", thread["reader"].slot, thread["reader"].after,
     thread["reader"].notify, thread["reader"].sweep)
    BY GotoBecomes DEF Labels, ReaderLabels, WriterLabels, Waits, Submits
  <1>2. Types'
    BY <1>1 DEF Transfer, Position, ReaderInv, WriterInv, Becomes, Statuses, Sides, Submits,
                ReaderLabels, WriterLabels, Waits
  <1>3. LockInv' /\ ReaderInv' /\ WriterInv' /\ EventInv' /\ CloserInv'
    BY <1>1 DEF LockInv, ReaderInv, WriterInv, EventInv, CloserInv, Becomes, Submits,
                ReaderLabels, WriterLabels, Waits
  <1>4. PlaceInv'
    <2>1. \A p \in Places : \A z \in Slots :
            Has(p, z)' <=> Has(p, z) /\ ~(p = "current" /\ z = current)
      BY ChannelAssumption, <1>1 DEF ChannelAssumption, Transfer, Position, ReaderInv,
                                     WriterInv,
                                     EventInv, CloserInv, Has, Becomes, Statuses, Sides, Submits,
                                     ReaderLabels, WriterLabels, Holds, Waits, Holding
    <2>2. current \in inSlots /\ Has("current", current)
      BY ChannelAssumption DEF ChannelAssumption, Position, ReaderInv, WriterInv, EventInv, Has,
                               Sides, Submits, ReaderLabels, WriterLabels, Holds, Waits, Holding
    <2>3. Once(readyIn)' /\ Once(freeOut)'
      BY DEF PlaceInv
    <2>4. "current" \in Places /\ UNCHANGED <<requestReads, inSlots, outSlots>>
          /\ (lost => lost') /\ (lost' \/ requestReads)
      BY DEF Places, ReaderInv
    <2>5. PlaceInv
      OBVIOUS
    <2> HIDE DEF Inv, Types, Threads, Slots, At, opened, usb, rings, flags, local, history,
                 ReadCopiesAll
    <2> QED
      BY <2>1, <2>2, <2>3, <2>4, <2>5, SlotDrops
  <1>5. RequestInv'
    BY <1>1 DEF ReaderInv, RequestInv, Becomes, Submits, ReaderLabels, Waits, Out
  <1>6. CountInv'
    <2>1. Flying' = Flying
      BY DEF Flying
    <2>2. Counted' = Counted
      BY <1>1 DEF Counted, Becomes
    <2> QED
      BY <2>1, <2>2 DEF CountInv
  <1>7. LostInv' /\ SweepInv' /\ LossReachesEveryTransfer'
    BY <1>1 DEF Transfer, EventInv, LostInv, SweepInv, LossReachesEveryTransfer, Becomes,
                Statuses, Rechecked
  <1>8. NoLostWakeup'
    BY <1>1 DEF EventInv, NoLostWakeup, Becomes, WaitingThread, Ready, Sides
  <1> QED
    BY <1>2, <1>3, <1>4, <1>5, <1>6, <1>7, <1>8

LEMMA ReadCopiesAllStreamStep ==
  ASSUME Inv, ReadCopiesAll, ~requestReads
  PROVE  Inv'
  <1> USE DEF Inv, Types, Threads, Slots, At, opened, usb, rings, flags, local, history,
              ReadCopiesAll
  <1>1. Becomes("reader", "submit", current, "idle", thread["reader"].notify,
     thread["reader"].sweep)
    <2>1. current \in Slots
      OBVIOUS
    <2> QED
      BY <2>1, TakesBecomes
  <1>2. Types'
    BY <1>1 DEF Transfer, Position, ReaderInv, WriterInv, Becomes, Statuses, Sides, Submits,
                ReaderLabels, WriterLabels, Waits
  <1>3. LockInv' /\ ReaderInv' /\ WriterInv' /\ EventInv' /\ CloserInv'
    BY <1>1 DEF LockInv, ReaderInv, WriterInv, EventInv, CloserInv, Becomes, Submits,
                ReaderLabels, WriterLabels, Waits
  <1>4. PlaceInv'
    <2>1. \A p \in Places : \A z \in Slots :
            Has(p, z)' <=> (Has(p, z) /\ ~(p = "current" /\ z = current))
                           \/ (p = "reader" /\ z = current)
      BY ChannelAssumption, <1>1 DEF ChannelAssumption, Transfer, Position, ReaderInv,
                                     WriterInv,
                                     EventInv, CloserInv, Has, Becomes, Statuses, Sides, Submits,
                                     ReaderLabels, WriterLabels, Holds, Waits, Holding
    <2>2. current \in Slots /\ Has("current", current)
      BY ChannelAssumption DEF ChannelAssumption, Position, ReaderInv, WriterInv, EventInv, Has,
                               Sides, Submits, ReaderLabels, WriterLabels, Holds, Waits, Holding
    <2>3. Once(readyIn)' /\ Once(freeOut)'
      BY DEF PlaceInv
    <2>4. "current" \in Places /\ "reader" \in Places
          /\ UNCHANGED <<requestReads, inSlots, outSlots>>
          /\ (lost => lost')
      BY DEF Places
    <2>5. PlaceInv
      OBVIOUS
    <2> HIDE DEF Inv, Types, Threads, Slots, At, opened, usb, rings, flags, local, history,
                 ReadCopiesAll
    <2> QED
      BY <2>1, <2>2, <2>3, <2>4, <2>5, SlotMoves
  <1>5. RequestInv'
    BY <1>1 DEF ReaderInv, RequestInv, Becomes, Submits, ReaderLabels, Waits, Out
  <1>6. CountInv'
    <2>1. Flying' = Flying
      BY DEF Flying
    <2>2. Counted' = Counted
      BY <1>1 DEF Counted, Becomes
    <2> QED
      BY <2>1, <2>2 DEF CountInv
  <1>7. LostInv' /\ SweepInv' /\ LossReachesEveryTransfer'
    BY <1>1 DEF Transfer, EventInv, LostInv, SweepInv, LossReachesEveryTransfer, Becomes,
                Statuses, Rechecked
  <1>8. NoLostWakeup'
    BY <1>1 DEF EventInv, NoLostWakeup, Becomes, WaitingThread, Ready, Sides
  <1> QED
    BY <1>2, <1>3, <1>4, <1>5, <1>6, <1>7, <1>8

LEMMA ReadRequestsStep ==
  ASSUME Inv, NEW s \in inSlots, Takes("reader", s, "request"), ReadRequests
  PROVE  Inv'
  <1> USE DEF Inv, Types, Threads, Slots, At, opened, usb, rings, flags, local, history, shared,
              ReadRequests
  <1>1. Becomes("reader", "submit", s, "request", thread["reader"].notify, thread["reader"].sweep)
    <2>1. s \in Slots
      OBVIOUS
    <2> QED
      BY <2>1, TakesBecomes
  <1>2. Types'
    BY <1>1 DEF Transfer, Position, ReaderInv, WriterInv, Becomes, Statuses, Sides, Submits,
                ReaderLabels, WriterLabels, Waits
  <1>3. LockInv' /\ ReaderInv' /\ WriterInv' /\ EventInv' /\ CloserInv'
    <2>1. LockInv'
      BY <1>1 DEF LockInv, Becomes
    <2>2. ReaderInv'
      BY <1>1, ChannelAssumption DEF ChannelAssumption, ReaderInv, Becomes, Submits,
                                     ReaderLabels, Waits
    <2>3. WriterInv'
      BY <1>1 DEF WriterInv, Becomes, Submits, WriterLabels, Waits
    <2>4. EventInv'
      BY <1>1 DEF EventInv, Becomes
    <2>5. CloserInv'
      BY <1>1 DEF CloserInv, Becomes
    <2> QED
      BY <2>1, <2>2, <2>3, <2>4, <2>5
  <1>4. PlaceInv'
    <2>1. \A p \in Places : \A z \in Slots : Has(p, z)' <=> Has(p, z) \/ (p = "reader" /\ z = s)
      BY ChannelAssumption, <1>1 DEF ChannelAssumption, Transfer, Position, ReaderInv,
                                     WriterInv,
                                     EventInv, CloserInv, Has, Becomes, Statuses, Sides, Submits,
                                     ReaderLabels, WriterLabels, Holds, Waits, Holding
    <2>2. ~Out
      BY DEF RequestInv
    <2>3. \A p \in Places \ Threads : ~Has(p, s)
      BY <2>2, ChannelAssumption DEF Out, ChannelAssumption, Places, Has, In
    <2>4. \A p \in Threads : ~Has(p, s)
      BY ChannelAssumption DEF ChannelAssumption, ReaderInv, WriterInv, EventInv, CloserInv,
                               Has, Holds,
                               Holding
    <2>5. \A p \in Places : ~Has(p, s)
      BY <2>3, <2>4
    <2>6. Once(readyIn)' /\ Once(freeOut)'
      BY DEF PlaceInv
    <2>7. "reader" \in Places /\ UNCHANGED <<requestReads, inSlots, outSlots>> /\ (lost => lost')
          /\ s \in Slots
      BY DEF Places
    <2> QED
      BY <2>1, <2>5, <2>6, <2>7, SlotIsTaken
  <1>5. RequestInv'
    BY <1>1 DEF ReaderInv, RequestInv, Becomes, Submits, ReaderLabels, Waits, Out
  <1>6. CountInv'
    <2>1. Flying' = Flying
      BY DEF Flying
    <2>2. Counted' = Counted
      BY <1>1 DEF Counted, Becomes
    <2> QED
      BY <2>1, <2>2 DEF CountInv
  <1>7. LostInv' /\ SweepInv' /\ LossReachesEveryTransfer'
    BY <1>1 DEF Transfer, EventInv, LostInv, SweepInv, LossReachesEveryTransfer, Becomes,
                Statuses, Rechecked
  <1>8. NoLostWakeup'
    BY <1>1 DEF EventInv, NoLostWakeup, Becomes, WaitingThread, Ready, Sides
  <1> QED
    BY <1>2, <1>3, <1>4, <1>5, <1>6, <1>7, <1>8

LEMMA ReadPopsDataStep ==
  ASSUME Inv, NEW h \in inSlots, h = Head(readyIn), ReadPops, xfer[h].status = "data"
  PROVE  Inv'
  <1> USE DEF Inv, Types, Threads, Slots, At, opened, usb, rings, flags, local, history,
              PopEnabled, Consumed, ReadPops
  <1>1. UNCHANGED thread
    OBVIOUS
  <1>2. Types'
    <2>1. xfer' \in [Slots' -> Transfer']
      BY <1>1 DEF Transfer, Becomes, Statuses
    <2>2. readyIn' \in Seq(inSlots') /\ freeOut' \in Seq(outSlots')
      BY <1>1 DEF EventInv
    <2>3. /\ requestReads' \in BOOLEAN /\ inSlots' \subseteq InTransfers
          /\ outSlots' \subseteq OutTransfers
          /\ requestReads' => \E z \in inSlots' : inSlots' = {z}
          /\ inFlight' \in Int /\ lost' \in BOOLEAN /\ freed' \in BOOLEAN /\ swept' \in BOOLEAN
          /\ requestPending' \in BOOLEAN
          /\ current' \in inSlots' \union {NoSlot} /\ spare' \in outSlots' \union {NoSlot}
      BY <1>1
    <2>4. thread' \in [Threads -> Position']
      BY <1>1 DEF Position, Becomes, Sides
    <2> QED
      BY <2>1, <2>2, <2>3, <2>4
  <1>3. LockInv' /\ ReaderInv' /\ WriterInv' /\ EventInv' /\ CloserInv'
    BY <1>1 DEF LockInv, ReaderInv, WriterInv, EventInv, CloserInv, Submits, ReaderLabels,
                WriterLabels, Waits
  <1>4. PlaceInv'
    <2>1. In(readyIn, h)
      BY Popped DEF PlaceInv, Places
    <2>2. (\A z : In(readyIn', z) <=> In(readyIn, z) /\ z # h) /\ Once(readyIn')
      BY Popped DEF PlaceInv, Places
    <2>3. \A p \in Places : \A z \in Slots :
            Has(p, z)' <=> (Has(p, z) /\ ~(p = "ready" /\ z = h)) \/ (p = "current" /\ z = h)
      BY ChannelAssumption, <1>1, <2>1, <2>2 DEF ChannelAssumption, Transfer, Position,
                                                 ReaderInv,
                                                 WriterInv, EventInv, CloserInv, Has, Statuses,
                                                 Sides, Submits, ReaderLabels, WriterLabels,
                                                 Holds, Waits, Holding
    <2>4. h \in Slots /\ Has("ready", h)
      BY ChannelAssumption, <2>1, <2>2 DEF ChannelAssumption, Position, ReaderInv, WriterInv,
                                           EventInv, Has, Sides, Submits, ReaderLabels,
                                           WriterLabels, Holds, Waits, Holding
    <2>5. Once(readyIn)' /\ Once(freeOut)'
      BY <2>1, <2>2 DEF PlaceInv
    <2>6. "ready" \in Places /\ "current" \in Places
          /\ UNCHANGED <<requestReads, inSlots, outSlots>>
          /\ (lost => lost')
      BY DEF Places
    <2> QED
      BY <2>3, <2>4, <2>5, <2>6, SlotMoves
  <1>5. RequestInv'
    BY <1>1 DEF ReaderInv, PlaceInv, RequestInv, Has, In, Once, Submits, ReaderLabels, Places,
                Waits, Out, Holds, Holding
  <1>6. CountInv'
    BY <1>1 DEF CountInv, Flying, Counted
  <1>7. LostInv' /\ SweepInv' /\ LossReachesEveryTransfer'
    BY <1>1 DEF Transfer, EventInv, LostInv, SweepInv, LossReachesEveryTransfer, Statuses,
                Rechecked
  <1>8. NoLostWakeup'
    BY <1>1 DEF EventInv, NoLostWakeup, WaitingThread, Ready, Sides
  <1> QED
    BY <1>2, <1>3, <1>4, <1>5, <1>6, <1>7, <1>8

LEMMA ReadPopsEmptyRequestedStep ==
  ASSUME Inv, NEW h \in inSlots, h = Head(readyIn), ReadPops, xfer[h].status = "empty",
         requestReads
  PROVE  Inv'
  <1> USE DEF Inv, Types, Threads, Slots, At, opened, usb, rings, flags, local, history,
              PopEnabled, Consumed, ReadPops
  <1>1. UNCHANGED thread
    OBVIOUS
  <1>2. Types'
    <2>1. xfer' \in [Slots' -> Transfer']
      BY <1>1 DEF Transfer, Becomes, Statuses
    <2>2. readyIn' \in Seq(inSlots') /\ freeOut' \in Seq(outSlots')
      BY <1>1 DEF EventInv
    <2>3. /\ requestReads' \in BOOLEAN /\ inSlots' \subseteq InTransfers
          /\ outSlots' \subseteq OutTransfers
          /\ requestReads' => \E z \in inSlots' : inSlots' = {z}
          /\ inFlight' \in Int /\ lost' \in BOOLEAN /\ freed' \in BOOLEAN /\ swept' \in BOOLEAN
          /\ requestPending' \in BOOLEAN
          /\ current' \in inSlots' \union {NoSlot} /\ spare' \in outSlots' \union {NoSlot}
      BY <1>1
    <2>4. thread' \in [Threads -> Position']
      BY <1>1 DEF Position, Becomes, Sides
    <2> QED
      BY <2>1, <2>2, <2>3, <2>4
  <1>3. LockInv' /\ ReaderInv' /\ WriterInv' /\ EventInv' /\ CloserInv'
    BY <1>1 DEF LockInv, ReaderInv, WriterInv, EventInv, CloserInv, Submits, ReaderLabels,
                WriterLabels, Waits
  <1>4. PlaceInv'
    <2>1. In(readyIn, h)
      BY Popped DEF PlaceInv, Places
    <2>2. (\A z : In(readyIn', z) <=> In(readyIn, z) /\ z # h) /\ Once(readyIn')
      BY Popped DEF PlaceInv, Places
    <2>3. \A p \in Places : \A z \in Slots :
            Has(p, z)' <=> Has(p, z) /\ ~(p = "ready" /\ z = h)
      BY ChannelAssumption, <1>1, <2>1, <2>2 DEF ChannelAssumption, Transfer, Position,
                                                 ReaderInv,
                                                 WriterInv, EventInv, CloserInv, Has, Statuses,
                                                 Sides, Submits, ReaderLabels, WriterLabels,
                                                 Holds, Waits, Holding
    <2>4. h \in inSlots /\ Has("ready", h)
      BY ChannelAssumption, <2>1, <2>2 DEF ChannelAssumption, Position, ReaderInv, WriterInv,
                                           EventInv, Has, Sides, Submits, ReaderLabels,
                                           WriterLabels, Holds, Waits, Holding
    <2>5. Once(readyIn)' /\ Once(freeOut)'
      BY <2>1, <2>2 DEF PlaceInv
    <2>6. "ready" \in Places /\ UNCHANGED <<requestReads, inSlots, outSlots>>
          /\ (lost => lost') /\ (lost' \/ requestReads)
      BY DEF Places, ReaderInv
    <2> QED
      BY <2>3, <2>4, <2>5, <2>6, SlotDrops
  <1>5. RequestInv'
    BY <1>1 DEF ReaderInv, PlaceInv, RequestInv, Has, In, Once, Submits, ReaderLabels, Places,
                Waits, Out, Holds, Holding
  <1>6. CountInv'
    BY <1>1 DEF CountInv, Flying, Counted
  <1>7. LostInv' /\ SweepInv' /\ LossReachesEveryTransfer'
    BY <1>1 DEF Transfer, EventInv, LostInv, SweepInv, LossReachesEveryTransfer, Statuses,
                Rechecked
  <1>8. NoLostWakeup'
    BY <1>1 DEF EventInv, NoLostWakeup, WaitingThread, Ready, Sides
  <1> QED
    BY <1>2, <1>3, <1>4, <1>5, <1>6, <1>7, <1>8

LEMMA ReadPopsEmptyStreamStep ==
  ASSUME Inv, NEW h \in inSlots, h = Head(readyIn), ReadPops, xfer[h].status = "empty",
         ~requestReads
  PROVE  Inv'
  <1> USE DEF Inv, Types, Threads, Slots, At, opened, usb, rings, flags, local, history,
              PopEnabled, Consumed, ReadPops
  <1>1. Becomes("reader", "submit", h, "loop", thread["reader"].notify, thread["reader"].sweep)
    <2>1. h \in Slots
      OBVIOUS
    <2> QED
      BY <2>1, TakesBecomes
  <1>2. Types'
    <2>1. xfer' \in [Slots' -> Transfer']
      BY <1>1 DEF Transfer, Becomes, Statuses
    <2>2. readyIn' \in Seq(inSlots') /\ freeOut' \in Seq(outSlots')
      BY <1>1 DEF EventInv
    <2>3. /\ requestReads' \in BOOLEAN /\ inSlots' \subseteq InTransfers
          /\ outSlots' \subseteq OutTransfers
          /\ requestReads' => \E z \in inSlots' : inSlots' = {z}
          /\ inFlight' \in Int /\ lost' \in BOOLEAN /\ freed' \in BOOLEAN /\ swept' \in BOOLEAN
          /\ requestPending' \in BOOLEAN
          /\ current' \in inSlots' \union {NoSlot} /\ spare' \in outSlots' \union {NoSlot}
      BY <1>1
    <2>4. thread' \in [Threads -> Position']
      BY <1>1 DEF Position, Becomes, Sides
    <2> QED
      BY <2>1, <2>2, <2>3, <2>4
  <1>3. LockInv' /\ ReaderInv' /\ WriterInv' /\ EventInv' /\ CloserInv'
    <2>1. LockInv'
      BY <1>1 DEF LockInv, Becomes
    <2>2. ReaderInv'
      BY <1>1, ChannelAssumption DEF ChannelAssumption, ReaderInv, Becomes, Submits,
                                     ReaderLabels, Waits
    <2>3. WriterInv'
      BY <1>1 DEF WriterInv, Becomes, Submits, WriterLabels, Waits
    <2>4. EventInv'
      BY <1>1 DEF EventInv, Becomes
    <2>5. CloserInv'
      BY <1>1 DEF CloserInv, Becomes
    <2> QED
      BY <2>1, <2>2, <2>3, <2>4, <2>5
  <1>4. PlaceInv'
    <2>1. In(readyIn, h)
      BY Popped DEF PlaceInv, Places
    <2>2. (\A z : In(readyIn', z) <=> In(readyIn, z) /\ z # h) /\ Once(readyIn')
      BY Popped DEF PlaceInv, Places
    <2>3. \A p \in Places : \A z \in Slots :
            Has(p, z)' <=> (Has(p, z) /\ ~(p = "ready" /\ z = h)) \/ (p = "reader" /\ z = h)
      BY ChannelAssumption, <1>1, <2>1, <2>2 DEF ChannelAssumption, Transfer, Position,
                                                 ReaderInv,
                                                 WriterInv, EventInv, CloserInv, Has, Becomes,
                                                 Statuses, Sides, Submits, ReaderLabels,
                                                 WriterLabels, Holds, Waits, Holding
    <2>4. h \in Slots /\ Has("ready", h)
      BY ChannelAssumption, <2>1, <2>2 DEF ChannelAssumption, Position, ReaderInv, WriterInv,
                                           EventInv, Has, Sides, Submits, ReaderLabels,
                                           WriterLabels, Holds, Waits, Holding
    <2>5. Once(readyIn)' /\ Once(freeOut)'
      BY <2>1, <2>2 DEF PlaceInv
    <2>6. "ready" \in Places /\ "reader" \in Places
          /\ UNCHANGED <<requestReads, inSlots, outSlots>>
          /\ (lost => lost')
      BY DEF Places
    <2> QED
      BY <2>3, <2>4, <2>5, <2>6, SlotMoves
  <1>5. RequestInv'
    BY <1>1 DEF ReaderInv, RequestInv, Becomes, Submits, ReaderLabels, Waits, Out
  <1>6. CountInv'
    <2>1. Flying' = Flying
      BY DEF Flying
    <2>2. Counted' = Counted
      BY <1>1 DEF Counted, Becomes
    <2> QED
      BY <2>1, <2>2 DEF CountInv
  <1>7. LostInv' /\ SweepInv' /\ LossReachesEveryTransfer'
    BY <1>1 DEF Transfer, EventInv, LostInv, SweepInv, LossReachesEveryTransfer, Becomes,
                Statuses, Rechecked
  <1>8. NoLostWakeup'
    BY <1>1 DEF EventInv, NoLostWakeup, Becomes, WaitingThread, Ready, Sides
  <1> QED
    BY <1>2, <1>3, <1>4, <1>5, <1>6, <1>7, <1>8

LEMMA ReadPopsFailedStep ==
  ASSUME Inv, NEW h \in inSlots, h = Head(readyIn), ReadPops, xfer[h].status \in {"fail",
         "gone"}
  PROVE  Inv'
  <1> USE DEF Inv, Types, Threads, Slots, At, opened, usb, rings, flags, local, history,
              PopEnabled, Consumed, ReadPops
  <1>1. Becomes("reader", "failed", h, thread["reader"].after, thread["reader"].notify,
     thread["reader"].sweep)
    BY KeepsBecomes DEF Labels, ReaderLabels, WriterLabels, Waits, Submits
  <1>2. Types'
    <2>1. xfer' \in [Slots' -> Transfer']
      BY <1>1 DEF Transfer, Becomes, Statuses
    <2>2. readyIn' \in Seq(inSlots') /\ freeOut' \in Seq(outSlots')
      BY <1>1 DEF EventInv
    <2>3. /\ requestReads' \in BOOLEAN /\ inSlots' \subseteq InTransfers
          /\ outSlots' \subseteq OutTransfers
          /\ requestReads' => \E z \in inSlots' : inSlots' = {z}
          /\ inFlight' \in Int /\ lost' \in BOOLEAN /\ freed' \in BOOLEAN /\ swept' \in BOOLEAN
          /\ requestPending' \in BOOLEAN
          /\ current' \in inSlots' \union {NoSlot} /\ spare' \in outSlots' \union {NoSlot}
      BY <1>1
    <2>4. thread' \in [Threads -> Position']
      BY <1>1 DEF Position, Becomes, Sides
    <2> QED
      BY <2>1, <2>2, <2>3, <2>4
  <1>3. LockInv' /\ ReaderInv' /\ WriterInv' /\ EventInv' /\ CloserInv'
    <2>1. LockInv'
      BY <1>1 DEF LockInv, Becomes
    <2>2. ReaderInv'
      BY <1>1, ChannelAssumption DEF ChannelAssumption, ReaderInv, Becomes, Submits,
                                     ReaderLabels, Waits
    <2>3. WriterInv'
      BY <1>1 DEF WriterInv, Becomes, Submits, WriterLabels, Waits
    <2>4. EventInv'
      BY <1>1 DEF EventInv, Becomes
    <2>5. CloserInv'
      BY <1>1 DEF CloserInv, Becomes
    <2> QED
      BY <2>1, <2>2, <2>3, <2>4, <2>5
  <1>4. PlaceInv'
    <2>1. In(readyIn, h)
      BY Popped DEF PlaceInv, Places
    <2>2. (\A z : In(readyIn', z) <=> In(readyIn, z) /\ z # h) /\ Once(readyIn')
      BY Popped DEF PlaceInv, Places
    <2>3. \A p \in Places : \A z \in Slots :
            Has(p, z)' <=> (Has(p, z) /\ ~(p = "ready" /\ z = h)) \/ (p = "reader" /\ z = h)
      BY ChannelAssumption, <1>1, <2>1, <2>2 DEF ChannelAssumption, Transfer, Position,
                                                 ReaderInv,
                                                 WriterInv, EventInv, CloserInv, Has, Becomes,
                                                 Statuses, Sides, Submits, ReaderLabels,
                                                 WriterLabels, Holds, Waits, Holding
    <2>4. h \in Slots /\ Has("ready", h)
      BY ChannelAssumption, <2>1, <2>2 DEF ChannelAssumption, Position, ReaderInv, WriterInv,
                                           EventInv, Has, Sides, Submits, ReaderLabels,
                                           WriterLabels, Holds, Waits, Holding
    <2>5. Once(readyIn)' /\ Once(freeOut)'
      BY <2>1, <2>2 DEF PlaceInv
    <2>6. "ready" \in Places /\ "reader" \in Places
          /\ UNCHANGED <<requestReads, inSlots, outSlots>>
          /\ (lost => lost')
      BY DEF Places
    <2> QED
      BY <2>3, <2>4, <2>5, <2>6, SlotMoves
  <1>5. RequestInv'
    BY <1>1 DEF ReaderInv, RequestInv, Becomes, Submits, ReaderLabels, Waits, Out
  <1>6. CountInv'
    <2>1. Flying' = Flying
      BY DEF Flying
    <2>2. Counted' = Counted
      BY <1>1 DEF Counted, Becomes
    <2> QED
      BY <2>1, <2>2 DEF CountInv
  <1>7. LostInv' /\ SweepInv' /\ LossReachesEveryTransfer'
    BY <1>1 DEF Transfer, EventInv, LostInv, SweepInv, LossReachesEveryTransfer, Becomes,
                Statuses, Rechecked
  <1>8. NoLostWakeup'
    BY <1>1 DEF EventInv, NoLostWakeup, Becomes, WaitingThread, Ready, Sides
  <1> QED
    BY <1>2, <1>3, <1>4, <1>5, <1>6, <1>7, <1>8

LEMMA ReadFailsLostStep ==
  ASSUME Inv, ReadFails, lost
  PROVE  Inv'
  <1> USE DEF Inv, Types, Threads, Slots, At, opened, usb, rings, flags, local, history, ReadFails
  <1>1. Becomes("reader", "idle", NoSlot, "idle", thread["reader"].notify, thread["reader"].sweep)
    BY DropsBecomes DEF Labels, ReaderLabels, WriterLabels, Waits, Submits
  <1>2. Types'
    BY <1>1 DEF Transfer, Position, ReaderInv, WriterInv, Becomes, Statuses, Sides, Submits,
                ReaderLabels, WriterLabels, Waits
  <1>3. LockInv' /\ ReaderInv' /\ WriterInv' /\ EventInv' /\ CloserInv'
    BY <1>1 DEF LockInv, ReaderInv, WriterInv, EventInv, CloserInv, Becomes, Submits,
                ReaderLabels, WriterLabels, Waits
  <1>4. PlaceInv'
    <2>1. \A p \in Places : \A z \in Slots :
            Has(p, z)' <=> Has(p, z) /\ ~(p = "reader" /\ z = thread["reader"].slot)
      BY ChannelAssumption, <1>1 DEF ChannelAssumption, Transfer, Position, ReaderInv,
                                     WriterInv,
                                     EventInv, CloserInv, Has, Becomes, Statuses, Sides, Submits,
                                     ReaderLabels, WriterLabels, Holds, Waits, Holding
    <2>2. thread["reader"].slot \in inSlots /\ Has("reader", thread["reader"].slot)
      BY ChannelAssumption DEF ChannelAssumption, Position, ReaderInv, WriterInv, EventInv, Has,
                               Sides, Submits, ReaderLabels, WriterLabels, Holds, Waits, Holding
    <2>3. Once(readyIn)' /\ Once(freeOut)'
      BY DEF PlaceInv
    <2>4. "reader" \in Places /\ UNCHANGED <<requestReads, inSlots, outSlots>>
          /\ (lost => lost') /\ (lost' \/ requestReads)
      BY DEF Places, ReaderInv
    <2>5. PlaceInv
      OBVIOUS
    <2> HIDE DEF Inv, Types, Threads, Slots, At, opened, usb, rings, flags, local, history,
                 ReadFails
    <2> QED
      BY <2>1, <2>2, <2>3, <2>4, <2>5, SlotDrops
  <1>5. RequestInv'
    <2>1. requestReads => ~Out
      BY ReaderHoldsRequest DEF ReaderInv, Holding, Submits
    <2>2. Out' <=> Out
      BY DEF Out
    <2> QED
      BY <1>1, <2>1, <2>2 DEF ReaderInv, RequestInv, Becomes, Submits, Waits
  <1>6. CountInv'
    <2>1. Flying' = Flying
      BY DEF Flying
    <2>2. Counted' = Counted
      BY <1>1 DEF Counted, Becomes
    <2> QED
      BY <2>1, <2>2 DEF CountInv
  <1>7. LostInv' /\ SweepInv' /\ LossReachesEveryTransfer'
    BY <1>1 DEF Transfer, EventInv, LostInv, SweepInv, LossReachesEveryTransfer, Becomes,
                Statuses, Rechecked
  <1>8. NoLostWakeup'
    BY <1>1 DEF EventInv, NoLostWakeup, Becomes, WaitingThread, Ready, Sides
  <1> QED
    BY <1>2, <1>3, <1>4, <1>5, <1>6, <1>7, <1>8

LEMMA ReadFailsFirstStep ==
  ASSUME Inv, ReadFails, ~lost
  PROVE  Inv'
  <1> USE DEF Inv, Types, Threads, Slots, At, opened, usb, rings, flags, local, history, ReadFails
  <1>1. lost' /\ Becomes("reader", "failing", thread["reader"].slot, thread["reader"].after,
     <<"in", "out">>, Slots)
    BY LoseBecomes DEF Labels, ReaderLabels, WriterLabels, Waits, Submits
  <1>2. Types'
    BY <1>1 DEF Transfer, Position, ReaderInv, WriterInv, Becomes, Statuses, Sides, Submits,
                ReaderLabels, WriterLabels, Waits
  <1>3. LockInv' /\ ReaderInv' /\ WriterInv' /\ EventInv' /\ CloserInv'
    BY <1>1 DEF LockInv, ReaderInv, WriterInv, EventInv, CloserInv, Becomes, Submits,
                ReaderLabels, WriterLabels, Waits
  <1>4. PlaceInv'
    <2>1. \A p \in Places : \A z \in Slots : Has(p, z)' <=> Has(p, z)
      BY ChannelAssumption, <1>1 DEF ChannelAssumption, Transfer, Position, ReaderInv,
                                     WriterInv,
                                     EventInv, CloserInv, Has, Becomes, Statuses, Sides, Submits,
                                     ReaderLabels, WriterLabels, Holds, Waits, Holding
    <2>2. UNCHANGED <<requestReads, inSlots, outSlots, readyIn, freeOut>> /\ (lost => lost')
      BY <1>1
    <2> QED
      BY <2>1, <2>2, SlotsStay
  <1>5. RequestInv'
    BY <1>1 DEF ReaderInv, RequestInv, Becomes, Submits, ReaderLabels, Waits, Out
  <1>6. CountInv'
    <2>1. Flying' = Flying
      BY DEF Flying
    <2>2. Counted' = Counted
      BY <1>1 DEF Counted, Becomes
    <2> QED
      BY <2>1, <2>2 DEF CountInv
  <1>7. LostInv' /\ SweepInv' /\ LossReachesEveryTransfer'
    <2>1. LostInv'
      BY <1>1 DEF Transfer, LostInv, Becomes, Statuses
    <2>2. SweepInv'
      BY <1>1 DEF Transfer, LostInv, SweepInv, Becomes, Statuses, Rechecked
    <2>3. LossReachesEveryTransfer'
      BY <1>1 DEF Transfer, LostInv, LossReachesEveryTransfer, Becomes, Statuses
    <2> QED
      BY <2>1, <2>2, <2>3
  <1>8. NoLostWakeup'
    <2>1. thread'["reader"].notify = <<"in", "out">>
      BY <1>1 DEF Becomes
    <2>2. 1 \in DOMAIN <<"in", "out">> /\ 2 \in DOMAIN <<"in", "out">>
      OBVIOUS
    <2>3. \A side \in Sides :
            \E i \in DOMAIN thread'["reader"].notify : thread'["reader"].notify[i] = side
      BY <2>1, <2>2 DEF Sides
    <2> QED
      BY <2>3 DEF NoLostWakeup
  <1> QED
    BY <1>2, <1>3, <1>4, <1>5, <1>6, <1>7, <1>8

LEMMA ReadReturnsFailureStep ==
  ASSUME Inv, ReadReturnsFailure
  PROVE  Inv'
  <1> USE DEF Inv, Types, Threads, Slots, At, opened, usb, rings, flags, local, history,
              ReadReturnsFailure
  <1>1. Becomes("reader", "idle", NoSlot, "idle", thread["reader"].notify, thread["reader"].sweep)
    BY DropsBecomes DEF Labels, ReaderLabels, WriterLabels, Waits, Submits
  <1>2. Types'
    BY <1>1 DEF Transfer, Position, ReaderInv, WriterInv, Becomes, Statuses, Sides, Submits,
                ReaderLabels, WriterLabels, Waits
  <1>3. LockInv' /\ ReaderInv' /\ WriterInv' /\ EventInv' /\ CloserInv'
    BY <1>1 DEF LockInv, ReaderInv, WriterInv, EventInv, CloserInv, Becomes, Submits,
                ReaderLabels, WriterLabels, Waits
  <1>4. PlaceInv'
    <2>1. \A p \in Places : \A z \in Slots :
            Has(p, z)' <=> Has(p, z) /\ ~(p = "reader" /\ z = thread["reader"].slot)
      BY ChannelAssumption, <1>1 DEF ChannelAssumption, Transfer, Position, ReaderInv,
                                     WriterInv,
                                     EventInv, CloserInv, Has, Becomes, Statuses, Sides, Submits,
                                     ReaderLabels, WriterLabels, Holds, Waits, Holding
    <2>2. thread["reader"].slot \in inSlots /\ Has("reader", thread["reader"].slot)
      BY ChannelAssumption DEF ChannelAssumption, Position, ReaderInv, WriterInv, EventInv, Has,
                               Sides, Submits, ReaderLabels, WriterLabels, Holds, Waits, Holding
    <2>3. Once(readyIn)' /\ Once(freeOut)'
      BY DEF PlaceInv
    <2>4. "reader" \in Places /\ UNCHANGED <<requestReads, inSlots, outSlots>>
          /\ (lost => lost') /\ (lost' \/ requestReads)
      BY DEF Places, ReaderInv
    <2>5. PlaceInv
      OBVIOUS
    <2> HIDE DEF Inv, Types, Threads, Slots, At, opened, usb, rings, flags, local, history,
                 ReadReturnsFailure
    <2> QED
      BY <2>1, <2>2, <2>3, <2>4, <2>5, SlotDrops
  <1>5. RequestInv'
    <2>1. requestReads => ~Out
      BY ReaderHoldsRequest DEF ReaderInv, Holding, Submits
    <2>2. Out' <=> Out
      BY DEF Out
    <2> QED
      BY <1>1, <2>1, <2>2 DEF ReaderInv, RequestInv, Becomes, Submits, Waits
  <1>6. CountInv'
    <2>1. Flying' = Flying
      BY DEF Flying
    <2>2. Counted' = Counted
      BY <1>1 DEF Counted, Becomes
    <2> QED
      BY <2>1, <2>2 DEF CountInv
  <1>7. LostInv' /\ SweepInv' /\ LossReachesEveryTransfer'
    BY <1>1, SMTT(30) DEF Transfer, EventInv, LostInv, SweepInv, LossReachesEveryTransfer, Becomes,
                Statuses, Rechecked
  <1>8. NoLostWakeup'
    BY <1>1 DEF EventInv, NoLostWakeup, Becomes, WaitingThread, Ready, Sides
  <1> QED
    BY <1>2, <1>3, <1>4, <1>5, <1>6, <1>7, <1>8

LEMMA SubmitLooksLostStep ==
  ASSUME Inv, NEW t \in {"reader", "writer"}, SubmitLooks(t), lost
  PROVE  Inv'
  <1> USE DEF Inv, Types, Threads, Slots, At, opened, usb, rings, flags, local, history,
              SubmitLooks
  <1>1. Becomes(t, "refused", thread[t].slot, thread[t].after, thread[t].notify, thread[t].sweep)
    BY GotoBecomes DEF Labels, ReaderLabels, WriterLabels, Waits, Submits
  <1>2. Types'
    BY <1>1 DEF Transfer, Position, ReaderInv, WriterInv, Becomes, Statuses, Sides, Submits,
                ReaderLabels, WriterLabels, Waits
  <1>3. LockInv' /\ ReaderInv' /\ WriterInv' /\ EventInv' /\ CloserInv'
    BY <1>1 DEF LockInv, ReaderInv, WriterInv, EventInv, CloserInv, Becomes, Submits,
                ReaderLabels, WriterLabels, Waits
  <1>4. PlaceInv'
    <2>1. \A p \in Places : \A z \in Slots : Has(p, z)' <=> Has(p, z)
      BY ChannelAssumption, <1>1 DEF ChannelAssumption, Transfer, Position, ReaderInv,
                                     WriterInv,
                                     EventInv, CloserInv, Has, Becomes, Statuses, Sides, Submits,
                                     ReaderLabels, WriterLabels, Holds, Waits, Holding
    <2>2. UNCHANGED <<requestReads, inSlots, outSlots, readyIn, freeOut>> /\ (lost => lost')
      OBVIOUS
    <2> QED
      BY <2>1, <2>2, SlotsStay
  <1>5. RequestInv'
    BY <1>1 DEF ReaderInv, RequestInv, Becomes, Submits, ReaderLabels, Waits, Out
  <1>6. CountInv'
    <2>1. Flying' = Flying
      BY <1>1 DEF Transfer, Flying, Becomes, Statuses
    <2>2. Counted' = Counted
      BY <1>1 DEF Transfer, Counted, Becomes, Statuses
    <2> QED
      BY <2>1, <2>2 DEF CountInv
  <1>7. LostInv' /\ SweepInv' /\ LossReachesEveryTransfer'
    BY <1>1 DEF Transfer, EventInv, LostInv, SweepInv, LossReachesEveryTransfer, Becomes,
                Statuses, Rechecked
  <1>8. NoLostWakeup'
    BY <1>1 DEF EventInv, NoLostWakeup, Becomes, WaitingThread, Ready, Sides
  <1> QED
    BY <1>2, <1>3, <1>4, <1>5, <1>6, <1>7, <1>8

LEMMA SubmitLooksCountsStep ==
  ASSUME Inv, NEW t \in {"reader", "writer"}, SubmitLooks(t), ~lost
  PROVE  Inv'
  <1> USE DEF Inv, Types, Threads, Slots, At, opened, usb, rings, flags, local, history,
              SubmitLooks
  <1>1. Becomes(t, "submitting", thread[t].slot, thread[t].after, thread[t].notify,
     thread[t].sweep)
    BY GotoBecomes DEF Labels, ReaderLabels, WriterLabels, Waits, Submits
  <1>2. Types'
    <2>1. xfer' \in [Slots' -> Transfer']
      BY <1>1 DEF Transfer, Becomes, Statuses
    <2>2. readyIn' \in Seq(inSlots') /\ freeOut' \in Seq(outSlots')
      BY <1>1 DEF EventInv
    <2>3. /\ requestReads' \in BOOLEAN /\ inSlots' \subseteq InTransfers
          /\ outSlots' \subseteq OutTransfers
          /\ requestReads' => \E z \in inSlots' : inSlots' = {z}
          /\ inFlight' \in Int /\ lost' \in BOOLEAN /\ freed' \in BOOLEAN /\ swept' \in BOOLEAN
          /\ requestPending' \in BOOLEAN
          /\ current' \in inSlots' \union {NoSlot} /\ spare' \in outSlots' \union {NoSlot}
      BY <1>1
    <2>4. thread' \in [Threads -> Position']
      BY <1>1 DEF Position, Becomes, Sides
    <2> QED
      BY <2>1, <2>2, <2>3, <2>4
  <1>3. LockInv' /\ ReaderInv' /\ WriterInv' /\ EventInv' /\ CloserInv'
    BY <1>1 DEF LockInv, ReaderInv, WriterInv, EventInv, CloserInv, Becomes, Submits,
                ReaderLabels, WriterLabels, Waits
  <1>4. PlaceInv'
    <2>1. \A p \in Places : \A z \in Slots : Has(p, z)' <=> Has(p, z)
      BY ChannelAssumption, <1>1 DEF ChannelAssumption, Transfer, Position, ReaderInv,
                                     WriterInv,
                                     EventInv, CloserInv, Has, Becomes, Statuses, Sides, Submits,
                                     ReaderLabels, WriterLabels, Holds, Waits, Holding
    <2>2. UNCHANGED <<requestReads, inSlots, outSlots, readyIn, freeOut>> /\ (lost => lost')
      OBVIOUS
    <2> QED
      BY <2>1, <2>2, SlotsStay
  <1>5. RequestInv'
    BY <1>1 DEF ReaderInv, RequestInv, Becomes, Submits, ReaderLabels, Waits, Out
  <1>6. CountInv'
    <2>1. Flying' = Flying
      BY <1>1 DEF Transfer, Flying, Becomes, Statuses
    <2>2. Counted' = Counted \union {t} /\ t \notin Counted
      BY <1>1 DEF Counted, Becomes
    <2>3. Cardinality(Flying') = Cardinality(Flying)
      BY <2>1, CountsAreFinite
    <2>4. Cardinality(Counted') = Cardinality(Counted) + 1
      BY <2>2, CountsAreFinite, OneMore
    <2>5. ~freed
      BY FreedIsEmpty, <2>1, <2>2 DEF CloserInv
    <2> QED
      BY <2>3, <2>4, <2>5, CountsAreFinite DEF CountInv
  <1>7. LostInv' /\ SweepInv' /\ LossReachesEveryTransfer'
    BY <1>1 DEF Transfer, EventInv, LostInv, SweepInv, LossReachesEveryTransfer, Becomes,
                Statuses, Rechecked
  <1>8. NoLostWakeup'
    BY <1>1 DEF EventInv, NoLostWakeup, Becomes, WaitingThread, Ready, Sides
  <1> QED
    BY <1>2, <1>3, <1>4, <1>5, <1>6, <1>7, <1>8

LEMMA LibusbAcceptsStep ==
  ASSUME Inv, NEW t \in {"reader", "writer"}, LibusbAccepts(t)
  PROVE  Inv'
  <1> USE DEF Inv, Types, Threads, Slots, At, opened, usb, rings, flags, local, history, Resting,
              LibusbAccepts
  <1>1. Becomes(t, "recheck", thread[t].slot, thread[t].after, thread[t].notify, thread[t].sweep)
    BY GotoBecomes DEF Labels, ReaderLabels, WriterLabels, Waits, Submits
  <1>2. Types'
    BY <1>1 DEF Transfer, Position, ReaderInv, WriterInv, Becomes, Statuses, Sides, Submits,
                ReaderLabels, WriterLabels, Waits
  <1>3. LockInv' /\ ReaderInv' /\ WriterInv' /\ EventInv' /\ CloserInv'
    BY <1>1 DEF LockInv, ReaderInv, WriterInv, EventInv, CloserInv, Becomes, Submits,
                ReaderLabels, WriterLabels, Waits
  <1>4. PlaceInv'
    <2>1. thread[t].slot \in Slots /\ t \in Places /\ "usb" \in Places /\ Has(t, thread[t].slot)
      BY DEF Places, Has, Holds, Holding, ReaderInv, WriterInv, Submits
    <2>2. \A p \in Threads : \A z \in Slots :
            Holds(p, z)' <=> Holds(p, z) /\ ~(p = t /\ z = thread[t].slot)
      BY <1>1 DEF Becomes, Holds, Holding
    <2>3. \A z \in Slots : xfer'[z].flying <=> xfer[z].flying \/ z = thread[t].slot
      BY <2>1 DEF Transfer
    <2>4. \A p \in Places : \A z \in Slots :
            Has(p, z)' <=> (Has(p, z) /\ ~(p = t /\ z = thread[t].slot))
                           \/ (p = "usb" /\ z = thread[t].slot)
      BY <2>2, <2>3 DEF Has
    <2>5. Once(readyIn)' /\ Once(freeOut)' /\ UNCHANGED <<requestReads, inSlots, outSlots>>
          /\ (lost => lost')
      BY DEF PlaceInv
    <2>6. PlaceInv
      OBVIOUS
    <2> HIDE DEF Inv, Types, Threads, Slots, At, opened, usb, rings, flags, local, history,
             Resting, LibusbAccepts
    <2> QED
      BY <2>1, <2>4, <2>5, <2>6, SlotMoves
  <1>5. RequestInv'
    <2>1. t = "reader" => Out'
      <3>1. CASE t = "reader"
        <4>1. thread[t].slot \in inSlots' /\ xfer'[thread[t].slot].flying
          BY <3>1 DEF ReaderInv, Submits
        <4> QED
          BY <4>1 DEF Out
      <3> QED
        BY <3>1
    <2>2. t = "writer" => (Out' <=> Out)
      <3>1. CASE t = "writer"
        <4>1. thread[t].slot \in outSlots
          BY <3>1 DEF WriterInv, Submits
        <4>2. \A z \in inSlots : xfer'[z].flying <=> xfer[z].flying
          BY <4>1, ChannelAssumption DEF ChannelAssumption
        <4> QED
          BY <4>2 DEF Out
      <3> QED
        BY <3>1
    <2> QED
      BY <1>1, <2>1, <2>2 DEF Becomes, RequestInv, Waits, Submits
  <1>6. CountInv'
    <2>1. Flying' = Flying \union {thread[t].slot} /\ thread[t].slot \notin Flying
      <3>1. t \in Places /\ "usb" \in Places /\ t # "usb"
        BY DEF Places
      <3>2. thread[t].slot \in Slots
        BY DEF ReaderInv, WriterInv, Submits
      <3>3. Has(t, thread[t].slot)
        BY DEF Has, Holds, Holding
      <3>4. ~Has("usb", thread[t].slot)
        BY <3>1, <3>2, <3>3 DEF PlaceInv
      <3> QED
        BY <3>2, <3>4 DEF Flying, Has, Transfer
    <2>2. Counted' = Counted \ {t} /\ t \in Counted
      BY <1>1 DEF Counted, Becomes
    <2>3. Cardinality(Flying') = Cardinality(Flying) + 1
      BY <2>1, CountsAreFinite, OneMore
    <2>4. Cardinality(Counted') = Cardinality(Counted) - 1
      BY <2>2, CountsAreFinite, OneLess
    <2>5. ~freed
      BY FreedIsEmpty, <2>1, <2>2 DEF CloserInv
    <2> QED
      BY <2>3, <2>4, <2>5, CountsAreFinite DEF CountInv
  <1>7. LostInv' /\ SweepInv' /\ LossReachesEveryTransfer'
    BY <1>1 DEF Transfer, EventInv, LostInv, SweepInv, LossReachesEveryTransfer, Becomes,
                Statuses, Rechecked
  <1>8. NoLostWakeup'
    BY <1>1 DEF EventInv, NoLostWakeup, Becomes, WaitingThread, Ready, Sides
  <1> QED
    BY <1>2, <1>3, <1>4, <1>5, <1>6, <1>7, <1>8

LEMMA SubmitRechecksStep ==
  ASSUME Inv, NEW t \in {"reader", "writer"}, SubmitRechecks(t)
  PROVE  Inv'
  <1> USE DEF Inv, Types, Threads, Slots, At, opened, usb, rings, flags, local, history,
              SubmitRechecks
  <1>1. Becomes(t, "submitted", thread[t].slot, thread[t].after, thread[t].notify,
     thread[t].sweep)
    BY GotoBecomes DEF Labels, ReaderLabels, WriterLabels, Waits, Submits
  <1>2. Types'
    <2>1. xfer' \in [Slots' -> Transfer']
      BY CancelKeepsTypes DEF ReaderInv, WriterInv, Submits, ReaderLabels, WriterLabels, Waits
    <2>2. readyIn' \in Seq(inSlots') /\ freeOut' \in Seq(outSlots')
      BY <1>1 DEF EventInv
    <2>3. /\ requestReads' \in BOOLEAN /\ inSlots' \subseteq InTransfers
          /\ outSlots' \subseteq OutTransfers
          /\ requestReads' => \E z \in inSlots' : inSlots' = {z}
          /\ inFlight' \in Int /\ lost' \in BOOLEAN /\ freed' \in BOOLEAN /\ swept' \in BOOLEAN
          /\ requestPending' \in BOOLEAN
          /\ current' \in inSlots' \union {NoSlot} /\ spare' \in outSlots' \union {NoSlot}
      BY <1>1
    <2>4. thread' \in [Threads -> Position']
      BY <1>1 DEF Position, Becomes, Sides
    <2> QED
      BY <2>1, <2>2, <2>3, <2>4
  <1>3. LockInv' /\ ReaderInv' /\ WriterInv' /\ EventInv' /\ CloserInv'
    BY <1>1 DEF LockInv, ReaderInv, WriterInv, EventInv, CloserInv, Becomes, Submits,
                ReaderLabels, WriterLabels, Cancelled, Waits
  <1>4. PlaceInv'
    <2>1. \A p \in Threads : \A z \in Slots : Holds(p, z)' <=> Holds(p, z)
      BY <1>1 DEF Becomes, Holds, Holding
    <2>2. \A p \in Places : \A z \in Slots : Has(p, z)' <=> Has(p, z)
      BY <2>1 DEF Has, Cancelled, Transfer
    <2>3. UNCHANGED <<requestReads, inSlots, outSlots, readyIn, freeOut>> /\ (lost => lost')
      OBVIOUS
    <2> QED
      BY <2>2, <2>3, SlotsStay
  <1>5. RequestInv'
    <2>1. Out' <=> Out
      BY DEF Out, Cancelled, Transfer, ReaderInv, WriterInv, Submits
    <2> QED
      BY <1>1, <2>1 DEF Becomes, RequestInv, Waits, Submits
  <1>6. CountInv'
    <2>1. Flying' = Flying
      BY <1>1 DEF Transfer, Flying, Becomes, Statuses, Cancelled
    <2>2. Counted' = Counted
      BY <1>1 DEF Transfer, Counted, Becomes, Statuses, Cancelled
    <2> QED
      BY <2>1, <2>2 DEF CountInv
  <1>7. LostInv' /\ SweepInv' /\ LossReachesEveryTransfer'
    <2>1. LostInv'
      BY <1>1 DEF Transfer, LostInv, Becomes, Statuses, Cancelled
    <2>2. SweepInv'
      BY <1>1 DEF Transfer, LostInv, SweepInv, Becomes, Statuses, Rechecked, Cancelled
    <2>3. LossReachesEveryTransfer'
      BY <1>1 DEF Transfer, LostInv, LossReachesEveryTransfer, Becomes, Statuses, Cancelled
    <2> QED
      BY <2>1, <2>2, <2>3
  <1>8. NoLostWakeup'
    BY <1>1, SMTT(30) DEF NoLostWakeup, Becomes, WaitingThread, Ready, Sides
  <1> QED
    BY <1>2, <1>3, <1>4, <1>5, <1>6, <1>7, <1>8

LEMMA LibusbRejectsReadStep ==
  ASSUME Inv, LibusbRejects("reader", "marking")
  PROVE  Inv'
  <1> USE DEF Inv, Types, Threads, Slots, At, opened, usb, rings, flags, local, history,
              LibusbRejects
  <1>1. Becomes("reader", "marking", thread["reader"].slot, thread["reader"].after,
     thread["reader"].notify, thread["reader"].sweep)
    BY GotoBecomes DEF Labels, ReaderLabels, WriterLabels, Waits, Submits
  <1>2. Types'
    <2>1. xfer' \in [Slots' -> Transfer']
      BY <1>1 DEF Transfer, Becomes, Statuses
    <2>2. readyIn' \in Seq(inSlots') /\ freeOut' \in Seq(outSlots')
      BY <1>1 DEF EventInv
    <2>3. /\ requestReads' \in BOOLEAN /\ inSlots' \subseteq InTransfers
          /\ outSlots' \subseteq OutTransfers
          /\ requestReads' => \E z \in inSlots' : inSlots' = {z}
          /\ inFlight' \in Int /\ lost' \in BOOLEAN /\ freed' \in BOOLEAN /\ swept' \in BOOLEAN
          /\ requestPending' \in BOOLEAN
          /\ current' \in inSlots' \union {NoSlot} /\ spare' \in outSlots' \union {NoSlot}
      BY <1>1
    <2>4. thread' \in [Threads -> Position']
      BY <1>1 DEF Position, Becomes, Sides
    <2> QED
      BY <2>1, <2>2, <2>3, <2>4
  <1>3. LockInv' /\ ReaderInv' /\ WriterInv' /\ EventInv' /\ CloserInv'
    BY <1>1 DEF LockInv, ReaderInv, WriterInv, EventInv, CloserInv, Becomes, Submits,
                ReaderLabels, WriterLabels, Waits
  <1>4. PlaceInv'
    <2>1. \A p \in Places : \A z \in Slots : Has(p, z)' <=> Has(p, z)
      BY ChannelAssumption, <1>1 DEF ChannelAssumption, Transfer, Position, ReaderInv,
                                     WriterInv,
                                     EventInv, CloserInv, Has, Becomes, Statuses, Sides, Submits,
                                     ReaderLabels, WriterLabels, Holds, Waits, Holding
    <2>2. UNCHANGED <<requestReads, inSlots, outSlots, readyIn, freeOut>> /\ (lost => lost')
      OBVIOUS
    <2> QED
      BY <2>1, <2>2, SlotsStay
  <1>5. RequestInv'
    BY <1>1 DEF ReaderInv, RequestInv, Becomes, Submits, ReaderLabels, Waits, Out
  <1>6. CountInv'
    <2>1. Flying' = Flying
      BY <1>1 DEF Transfer, Flying, Becomes, Statuses
    <2>2. Counted' = Counted \ {"reader"} /\ "reader" \in Counted
      BY <1>1 DEF Counted, Becomes
    <2>3. Cardinality(Flying') = Cardinality(Flying)
      BY <2>1, CountsAreFinite
    <2>4. Cardinality(Counted') = Cardinality(Counted) - 1
      BY <2>2, CountsAreFinite, OneLess
    <2>5. ~freed
      BY FreedIsEmpty, <2>1, <2>2 DEF CloserInv
    <2> QED
      BY <2>3, <2>4, <2>5, CountsAreFinite DEF CountInv
  <1>7. LostInv' /\ SweepInv' /\ LossReachesEveryTransfer'
    BY <1>1 DEF Transfer, EventInv, LostInv, SweepInv, LossReachesEveryTransfer, Becomes,
                Statuses, Rechecked
  <1>8. NoLostWakeup'
    BY <1>1 DEF EventInv, NoLostWakeup, Becomes, WaitingThread, Ready, Sides
  <1> QED
    BY <1>2, <1>3, <1>4, <1>5, <1>6, <1>7, <1>8

LEMMA LibusbRejectsWriteStep ==
  ASSUME Inv, NEW label \in {"refused", "failed"}, LibusbRejects("writer", label)
  PROVE  Inv'
  <1> USE DEF Inv, Types, Threads, Slots, At, opened, usb, rings, flags, local, history,
              LibusbRejects
  <1>1. Becomes("writer", label, thread["writer"].slot, thread["writer"].after,
     thread["writer"].notify, thread["writer"].sweep)
    BY GotoBecomes DEF Labels, ReaderLabels, WriterLabels, Waits, Submits
  <1>2. Types'
    <2>1. xfer' \in [Slots' -> Transfer']
      BY <1>1 DEF Transfer, Becomes, Statuses
    <2>2. readyIn' \in Seq(inSlots') /\ freeOut' \in Seq(outSlots')
      BY <1>1 DEF EventInv
    <2>3. /\ requestReads' \in BOOLEAN /\ inSlots' \subseteq InTransfers
          /\ outSlots' \subseteq OutTransfers
          /\ requestReads' => \E z \in inSlots' : inSlots' = {z}
          /\ inFlight' \in Int /\ lost' \in BOOLEAN /\ freed' \in BOOLEAN /\ swept' \in BOOLEAN
          /\ requestPending' \in BOOLEAN
          /\ current' \in inSlots' \union {NoSlot} /\ spare' \in outSlots' \union {NoSlot}
      BY <1>1
    <2>4. thread' \in [Threads -> Position']
      BY <1>1 DEF Position, Becomes, Sides
    <2> QED
      BY <2>1, <2>2, <2>3, <2>4
  <1>3. LockInv' /\ ReaderInv' /\ WriterInv' /\ EventInv' /\ CloserInv'
    BY <1>1 DEF LockInv, ReaderInv, WriterInv, EventInv, CloserInv, Becomes, Submits,
                ReaderLabels, WriterLabels, Waits
  <1>4. PlaceInv'
    <2>1. \A p \in Places : \A z \in Slots : Has(p, z)' <=> Has(p, z)
      BY ChannelAssumption, <1>1 DEF ChannelAssumption, Transfer, Position, ReaderInv,
                                     WriterInv,
                                     EventInv, CloserInv, Has, Becomes, Statuses, Sides, Submits,
                                     ReaderLabels, WriterLabels, Holds, Waits, Holding
    <2>2. UNCHANGED <<requestReads, inSlots, outSlots, readyIn, freeOut>> /\ (lost => lost')
      OBVIOUS
    <2> QED
      BY <2>1, <2>2, SlotsStay
  <1>5. RequestInv'
    BY <1>1 DEF ReaderInv, RequestInv, Becomes, Submits, ReaderLabels, Waits, Out
  <1>6. CountInv'
    <2>1. Flying' = Flying
      BY <1>1 DEF Transfer, Flying, Becomes, Statuses
    <2>2. Counted' = Counted \ {"writer"} /\ "writer" \in Counted
      BY <1>1 DEF Counted, Becomes
    <2>3. Cardinality(Flying') = Cardinality(Flying)
      BY <2>1, CountsAreFinite
    <2>4. Cardinality(Counted') = Cardinality(Counted) - 1
      BY <2>2, CountsAreFinite, OneLess
    <2>5. ~freed
      BY FreedIsEmpty, <2>1, <2>2 DEF CloserInv
    <2> QED
      BY <2>3, <2>4, <2>5, CountsAreFinite DEF CountInv
  <1>7. LostInv' /\ SweepInv' /\ LossReachesEveryTransfer'
    BY <1>1 DEF Transfer, EventInv, LostInv, SweepInv, LossReachesEveryTransfer, Becomes,
                Statuses, Rechecked
  <1>8. NoLostWakeup'
    BY <1>1 DEF EventInv, NoLostWakeup, Becomes, WaitingThread, Ready, Sides
  <1> QED
    BY <1>2, <1>3, <1>4, <1>5, <1>6, <1>7, <1>8

LEMMA ReadMarksStep ==
  ASSUME Inv, ReadMarks
  PROVE  Inv'
  <1> USE DEF Inv, Types, Threads, Slots, At, opened, usb, rings, flags, local, history, ReadMarks
  <1>1. lost' /\ Becomes("reader", "refused", thread["reader"].slot, thread["reader"].after,
     <<"in", "out">>, thread["reader"].sweep)
    BY MarkLostBecomes DEF Labels, ReaderLabels, WriterLabels, Waits, Submits
  <1>2. Types'
    BY <1>1 DEF Transfer, Position, ReaderInv, WriterInv, Becomes, Statuses, Sides, Submits,
                ReaderLabels, WriterLabels, Waits
  <1>3. LockInv' /\ ReaderInv' /\ WriterInv' /\ EventInv' /\ CloserInv'
    BY <1>1 DEF LockInv, ReaderInv, WriterInv, EventInv, CloserInv, Becomes, Submits,
                ReaderLabels, WriterLabels, Waits
  <1>4. PlaceInv'
    <2>1. \A p \in Places : \A z \in Slots : Has(p, z)' <=> Has(p, z)
      BY ChannelAssumption, <1>1 DEF ChannelAssumption, Transfer, Position, ReaderInv,
                                     WriterInv,
                                     EventInv, CloserInv, Has, Becomes, Statuses, Sides, Submits,
                                     ReaderLabels, WriterLabels, Holds, Waits, Holding
    <2>2. UNCHANGED <<requestReads, inSlots, outSlots, readyIn, freeOut>> /\ (lost => lost')
      BY <1>1
    <2> QED
      BY <2>1, <2>2, SlotsStay
  <1>5. RequestInv'
    BY <1>1 DEF ReaderInv, RequestInv, Becomes, Submits, ReaderLabels, Waits, Out
  <1>6. CountInv'
    <2>1. Flying' = Flying
      BY DEF Flying
    <2>2. Counted' = Counted
      BY <1>1 DEF Counted, Becomes
    <2> QED
      BY <2>1, <2>2 DEF CountInv
  <1>7. LostInv' /\ SweepInv' /\ LossReachesEveryTransfer'
    <2>1. LostInv'
      BY <1>1 DEF Transfer, LostInv, Becomes, Statuses
    <2>2. SweepInv'
      BY <1>1 DEF Transfer, LostInv, SweepInv, Becomes, Statuses, Rechecked
    <2>3. LossReachesEveryTransfer'
      BY <1>1 DEF Transfer, LostInv, LossReachesEveryTransfer, Becomes, Statuses
    <2> QED
      BY <2>1, <2>2, <2>3
  <1>8. NoLostWakeup'
    <2>1. thread'["reader"].notify = <<"in", "out">>
      BY <1>1 DEF Becomes
    <2>2. 1 \in DOMAIN <<"in", "out">> /\ 2 \in DOMAIN <<"in", "out">>
      OBVIOUS
    <2>3. \A side \in Sides :
            \E i \in DOMAIN thread'["reader"].notify : thread'["reader"].notify[i] = side
      BY <2>1, <2>2 DEF Sides
    <2> QED
      BY <2>3 DEF NoLostWakeup
  <1> QED
    BY <1>2, <1>3, <1>4, <1>5, <1>6, <1>7, <1>8

LEMMA ReadRefusedStep ==
  ASSUME Inv, ReadRefused
  PROVE  Inv'
  <1> USE DEF Inv, Types, Threads, Slots, At, opened, usb, rings, flags, local, history, shared,
              ReadRefused
  <1>1. Becomes("reader", IF thread["reader"].after = "loop" THEN "loop" ELSE "idle", NoSlot,
     "idle", thread["reader"].notify, thread["reader"].sweep)
    BY DropsBecomes DEF Labels, ReaderLabels, WriterLabels, Waits, Submits
  <1>2. Types'
    BY <1>1 DEF Transfer, Position, ReaderInv, WriterInv, Becomes, Statuses, Sides, Submits,
                ReaderLabels, WriterLabels, Waits
  <1>3. LockInv' /\ ReaderInv' /\ WriterInv' /\ EventInv' /\ CloserInv'
    BY <1>1 DEF LockInv, ReaderInv, WriterInv, EventInv, CloserInv, Becomes, Submits,
                ReaderLabels, WriterLabels, Waits
  <1>4. PlaceInv'
    <2>1. \A p \in Places : \A z \in Slots :
            Has(p, z)' <=> Has(p, z) /\ ~(p = "reader" /\ z = thread["reader"].slot)
      BY ChannelAssumption, <1>1 DEF ChannelAssumption, Transfer, Position, ReaderInv,
                                     WriterInv,
                                     EventInv, CloserInv, Has, Becomes, Statuses, Sides, Submits,
                                     ReaderLabels, WriterLabels, Holds, Waits, Holding
    <2>2. thread["reader"].slot \in inSlots /\ Has("reader", thread["reader"].slot)
      BY ChannelAssumption DEF ChannelAssumption, Position, ReaderInv, WriterInv, EventInv, Has,
                               Sides, Submits, ReaderLabels, WriterLabels, Holds, Waits, Holding
    <2>3. Once(readyIn)' /\ Once(freeOut)'
      BY DEF PlaceInv
    <2>4. "reader" \in Places /\ UNCHANGED <<requestReads, inSlots, outSlots>>
          /\ (lost => lost') /\ (lost' \/ requestReads)
      BY DEF Places, ReaderInv
    <2>5. PlaceInv
      OBVIOUS
    <2> HIDE DEF Inv, Types, Threads, Slots, At, opened, usb, rings, flags, local, history,
                 shared, ReadRefused
    <2> QED
      BY <2>1, <2>2, <2>3, <2>4, <2>5, SlotDrops
  <1>5. RequestInv'
    <2>1. requestReads => ~Out
      BY ReaderHoldsRequest DEF ReaderInv, Holding, Submits
    <2>2. Out' <=> Out
      BY DEF Out
    <2> QED
      BY <1>1, <2>1, <2>2 DEF ReaderInv, RequestInv, Becomes, Submits, Waits
  <1>6. CountInv'
    <2>1. Flying' = Flying
      BY DEF Flying
    <2>2. Counted' = Counted
      BY <1>1 DEF Counted, Becomes
    <2> QED
      BY <2>1, <2>2 DEF CountInv
  <1>7. LostInv' /\ SweepInv' /\ LossReachesEveryTransfer'
    BY <1>1 DEF Transfer, EventInv, LostInv, SweepInv, LossReachesEveryTransfer, Becomes,
                Statuses, Rechecked
  <1>8. NoLostWakeup'
    BY <1>1 DEF EventInv, NoLostWakeup, Becomes, WaitingThread, Ready, Sides
  <1> QED
    BY <1>2, <1>3, <1>4, <1>5, <1>6, <1>7, <1>8

LEMMA ReadSubmittedStep ==
  ASSUME Inv, ReadSubmitted
  PROVE  Inv'
  <1> USE DEF Inv, Types, Threads, Slots, At, opened, usb, rings, flags, local, history,
              Requested, ReadSubmitted
  <1>1. Becomes("reader", IF thread["reader"].after = "idle" THEN "idle" ELSE "loop", NoSlot,
     "idle", thread["reader"].notify, thread["reader"].sweep)
    BY DropsBecomes DEF Labels, ReaderLabels, WriterLabels, Waits, Submits
  <1>2. Types'
    BY <1>1 DEF Transfer, Position, ReaderInv, WriterInv, Becomes, Statuses, Sides, Submits,
                ReaderLabels, WriterLabels, Waits
  <1>3. LockInv' /\ ReaderInv' /\ WriterInv' /\ EventInv' /\ CloserInv'
    BY <1>1 DEF LockInv, ReaderInv, WriterInv, EventInv, CloserInv, Becomes, Submits,
                ReaderLabels, WriterLabels, Waits
  <1>4. PlaceInv'
    <2>1. \A p \in Places : \A z \in Slots : Has(p, z)' <=> Has(p, z)
      BY ChannelAssumption, <1>1 DEF ChannelAssumption, Transfer, Position, ReaderInv,
                                     WriterInv,
                                     EventInv, CloserInv, Has, Becomes, Statuses, Sides, Submits,
                                     ReaderLabels, WriterLabels, Holds, Waits, Holding
    <2>2. UNCHANGED <<requestReads, inSlots, outSlots, readyIn, freeOut>> /\ (lost => lost')
      OBVIOUS
    <2> QED
      BY <2>1, <2>2, SlotsStay
  <1>5. RequestInv'
    BY <1>1 DEF ReaderInv, RequestInv, Becomes, Submits, ReaderLabels, Waits, Out
  <1>6. CountInv'
    <2>1. Flying' = Flying
      BY DEF Flying
    <2>2. Counted' = Counted
      BY <1>1 DEF Counted, Becomes
    <2> QED
      BY <2>1, <2>2 DEF CountInv
  <1>7. LostInv' /\ SweepInv' /\ LossReachesEveryTransfer'
    <2>1. LostInv'
      BY <1>1 DEF Transfer, LostInv, Becomes, Statuses
    <2>2. SweepInv'
      BY <1>1 DEF Transfer, LostInv, SweepInv, Becomes, Statuses, Rechecked
    <2>3. LossReachesEveryTransfer'
      BY <1>1 DEF Transfer, LostInv, LossReachesEveryTransfer, Becomes, Statuses
    <2> QED
      BY <2>1, <2>2, <2>3
  <1>8. NoLostWakeup'
    BY <1>1 DEF EventInv, NoLostWakeup, Becomes, WaitingThread, Ready, Sides
  <1> QED
    BY <1>2, <1>3, <1>4, <1>5, <1>6, <1>7, <1>8

LEMMA WriteTakesSpareStep ==
  ASSUME Inv, WriteTakesSpare
  PROVE  Inv'
  <1> USE DEF Inv, Types, Threads, Slots, At, opened, usb, rings, flags, local, history,
              WriteTakesSpare
  <1>1. Becomes("writer", "submit", spare, "idle", thread["writer"].notify,
     thread["writer"].sweep)
    <2>1. spare \in Slots
      OBVIOUS
    <2> QED
      BY <2>1, TakesBecomes
  <1>2. Types'
    BY <1>1 DEF Transfer, Position, ReaderInv, WriterInv, Becomes, Statuses, Sides, Submits,
                ReaderLabels, WriterLabels, Waits
  <1>3. LockInv' /\ ReaderInv' /\ WriterInv' /\ EventInv' /\ CloserInv'
    BY <1>1 DEF LockInv, ReaderInv, WriterInv, EventInv, CloserInv, Becomes, Submits,
                ReaderLabels, WriterLabels, Waits
  <1>4. PlaceInv'
    <2>1. \A p \in Places : \A z \in Slots :
            Has(p, z)' <=> (Has(p, z) /\ ~(p = "spare" /\ z = spare))
                           \/ (p = "writer" /\ z = spare)
      BY ChannelAssumption, <1>1 DEF ChannelAssumption, Transfer, Position, ReaderInv,
                                     WriterInv,
                                     EventInv, CloserInv, Has, Becomes, Statuses, Sides, Submits,
                                     ReaderLabels, WriterLabels, Holds, Waits, Holding
    <2>2. spare \in Slots /\ Has("spare", spare)
      BY ChannelAssumption DEF ChannelAssumption, Position, ReaderInv, WriterInv, EventInv, Has,
                               Sides, Submits, ReaderLabels, WriterLabels, Holds, Waits, Holding
    <2>3. Once(readyIn)' /\ Once(freeOut)'
      BY DEF PlaceInv
    <2>4. "spare" \in Places /\ "writer" \in Places
          /\ UNCHANGED <<requestReads, inSlots, outSlots>>
          /\ (lost => lost')
      BY DEF Places
    <2>5. PlaceInv
      OBVIOUS
    <2> HIDE DEF Inv, Types, Threads, Slots, At, opened, usb, rings, flags, local, history,
                 WriteTakesSpare
    <2> QED
      BY <2>1, <2>2, <2>3, <2>4, <2>5, SlotMoves
  <1>5. RequestInv'
    BY <1>1 DEF ReaderInv, RequestInv, Becomes, Submits, ReaderLabels, Waits, Out
  <1>6. CountInv'
    <2>1. Flying' = Flying
      BY DEF Flying
    <2>2. Counted' = Counted
      BY <1>1 DEF Counted, Becomes
    <2> QED
      BY <2>1, <2>2 DEF CountInv
  <1>7. LostInv' /\ SweepInv' /\ LossReachesEveryTransfer'
    BY <1>1 DEF Transfer, EventInv, LostInv, SweepInv, LossReachesEveryTransfer, Becomes,
                Statuses, Rechecked
  <1>8. NoLostWakeup'
    BY <1>1 DEF EventInv, NoLostWakeup, Becomes, WaitingThread, Ready, Sides
  <1> QED
    BY <1>2, <1>3, <1>4, <1>5, <1>6, <1>7, <1>8

LEMMA WritePopsStep ==
  ASSUME Inv, NEW h \in outSlots, h = Head(freeOut), WritePops
  PROVE  Inv'
  <1> USE DEF Inv, Types, Threads, Slots, At, opened, usb, rings, flags, local, history, WritePops
  <1>1. Becomes("writer", "submit", h, "idle", thread["writer"].notify, thread["writer"].sweep)
    <2>1. h \in Slots
      OBVIOUS
    <2> QED
      BY <2>1, TakesBecomes
  <1>2. Types'
    <2>1. xfer' \in [Slots' -> Transfer']
      BY <1>1 DEF Transfer, Becomes, Statuses
    <2>2. readyIn' \in Seq(inSlots') /\ freeOut' \in Seq(outSlots')
      BY <1>1 DEF EventInv
    <2>3. /\ requestReads' \in BOOLEAN /\ inSlots' \subseteq InTransfers
          /\ outSlots' \subseteq OutTransfers
          /\ requestReads' => \E z \in inSlots' : inSlots' = {z}
          /\ inFlight' \in Int /\ lost' \in BOOLEAN /\ freed' \in BOOLEAN /\ swept' \in BOOLEAN
          /\ requestPending' \in BOOLEAN
          /\ current' \in inSlots' \union {NoSlot} /\ spare' \in outSlots' \union {NoSlot}
      BY <1>1
    <2>4. thread' \in [Threads -> Position']
      BY <1>1 DEF Position, Becomes, Sides
    <2> QED
      BY <2>1, <2>2, <2>3, <2>4
  <1>3. LockInv' /\ ReaderInv' /\ WriterInv' /\ EventInv' /\ CloserInv'
    <2>1. LockInv'
      BY <1>1 DEF LockInv, Becomes
    <2>2. ReaderInv'
      BY <1>1 DEF ReaderInv, Becomes, Submits, ReaderLabels, Waits
    <2>3. WriterInv'
      BY <1>1, ChannelAssumption DEF ChannelAssumption, WriterInv, Becomes, Submits,
                                     WriterLabels, Waits
    <2>4. EventInv'
      BY <1>1 DEF EventInv, Becomes
    <2>5. CloserInv'
      BY <1>1 DEF CloserInv, Becomes
    <2> QED
      BY <2>1, <2>2, <2>3, <2>4, <2>5
  <1>4. PlaceInv'
    <2>1. In(freeOut, h)
      BY Popped DEF PlaceInv, Places
    <2>2. (\A z : In(freeOut', z) <=> In(freeOut, z) /\ z # h) /\ Once(freeOut')
      BY Popped DEF PlaceInv, Places
    <2>3. \A p \in Places : \A z \in Slots :
            Has(p, z)' <=> (Has(p, z) /\ ~(p = "free" /\ z = h)) \/ (p = "writer" /\ z = h)
      BY ChannelAssumption, <1>1, <2>1, <2>2 DEF ChannelAssumption, Transfer, Position,
                                                 ReaderInv,
                                                 WriterInv, EventInv, CloserInv, Has, Becomes,
                                                 Statuses, Sides, Submits, ReaderLabels,
                                                 WriterLabels, Holds, Waits, Holding
    <2>4. h \in Slots /\ Has("free", h)
      BY ChannelAssumption, <2>1, <2>2 DEF ChannelAssumption, Position, ReaderInv, WriterInv,
                                           EventInv, Has, Sides, Submits, ReaderLabels,
                                           WriterLabels, Holds, Waits, Holding
    <2>5. Once(readyIn)' /\ Once(freeOut)'
      BY <2>1, <2>2 DEF PlaceInv
    <2>6. "free" \in Places /\ "writer" \in Places
          /\ UNCHANGED <<requestReads, inSlots, outSlots>>
          /\ (lost => lost')
      BY DEF Places
    <2> QED
      BY <2>3, <2>4, <2>5, <2>6, SlotMoves
  <1>5. RequestInv'
    BY <1>1 DEF ReaderInv, RequestInv, Becomes, Submits, ReaderLabels, Waits, Out
  <1>6. CountInv'
    <2>1. Flying' = Flying
      BY DEF Flying
    <2>2. Counted' = Counted
      BY <1>1 DEF Counted, Becomes
    <2> QED
      BY <2>1, <2>2 DEF CountInv
  <1>7. LostInv' /\ SweepInv' /\ LossReachesEveryTransfer'
    <2>1. LostInv'
      BY <1>1 DEF Transfer, LostInv, Becomes, Statuses
    <2>2. SweepInv'
      BY <1>1, SMTT(30) DEF Transfer, LostInv, SweepInv, Becomes, Statuses, Rechecked
    <2>3. LossReachesEveryTransfer'
      BY <1>1 DEF Transfer, LostInv, LossReachesEveryTransfer, Becomes, Statuses
    <2> QED
      BY <2>1, <2>2, <2>3
  <1>8. NoLostWakeup'
    BY <1>1 DEF EventInv, NoLostWakeup, Becomes, WaitingThread, Ready, Sides
  <1> QED
    BY <1>2, <1>3, <1>4, <1>5, <1>6, <1>7, <1>8

LEMMA WriteRefusedStep ==
  ASSUME Inv, WriteRefused
  PROVE  Inv'
  <1> USE DEF Inv, Types, Threads, Slots, At, opened, usb, rings, flags, local, history,
              KeepsSpare, WriteRefused
  <1>1. Becomes("writer", "idle", NoSlot, thread["writer"].after, <<"in", "out">>,
     thread["writer"].sweep)
    <2>1. <<"in", "out">> \in Seq(Sides)
      BY DEF Sides
    <2> QED
      BY <2>1, GivesBecomes DEF Labels, ReaderLabels, WriterLabels, Waits, Submits
  <1>2. Types'
    BY <1>1 DEF Transfer, Position, ReaderInv, WriterInv, Becomes, Statuses, Sides, Submits,
                ReaderLabels, WriterLabels, Waits
  <1>3. LockInv' /\ ReaderInv' /\ WriterInv' /\ EventInv' /\ CloserInv'
    <2>1. LockInv' /\ EventInv'
      BY <1>1 DEF LockInv, EventInv, Becomes
    <2>2. ReaderInv' /\ CloserInv'
      BY <1>1 DEF ReaderInv, CloserInv, Becomes, Submits
    <2>3. WriterInv'
      BY <1>1 DEF WriterInv, Becomes, Submits, WriterLabels
    <2> QED
      BY <2>1, <2>2, <2>3
  <1>4. PlaceInv'
    <2>1. \A p \in Places : \A z \in Slots :
            Has(p, z)' <=> (Has(p, z) /\ ~(p = "writer" /\ z = thread["writer"].slot))
                           \/ (p = "spare" /\ z = thread["writer"].slot)
      BY ChannelAssumption, <1>1 DEF ChannelAssumption, Transfer, Position, ReaderInv,
                                     WriterInv,
                                     EventInv, CloserInv, Has, Becomes, Statuses, Sides, Submits,
                                     ReaderLabels, WriterLabels, Holds, Waits, Holding
    <2>2. thread["writer"].slot \in Slots /\ Has("writer", thread["writer"].slot)
      BY ChannelAssumption DEF ChannelAssumption, Position, ReaderInv, WriterInv, EventInv, Has,
                               Sides, Submits, ReaderLabels, WriterLabels, Holds, Waits, Holding
    <2>3. Once(readyIn)' /\ Once(freeOut)'
      BY DEF PlaceInv
    <2>4. "writer" \in Places /\ "spare" \in Places
          /\ UNCHANGED <<requestReads, inSlots, outSlots>>
          /\ (lost => lost')
      BY DEF Places
    <2>5. PlaceInv
      OBVIOUS
    <2> HIDE DEF Inv, Types, Threads, Slots, At, opened, usb, rings, flags, local, history,
                 KeepsSpare, WriteRefused
    <2> QED
      BY <2>1, <2>2, <2>3, <2>4, <2>5, SlotMoves
  <1>5. RequestInv'
    BY <1>1 DEF ReaderInv, RequestInv, Becomes, Submits, ReaderLabels, Waits, Out
  <1>6. CountInv'
    <2>1. Flying' = Flying
      BY <1>1 DEF Transfer, Flying, Becomes, Statuses
    <2>2. Counted' = Counted
      BY <1>1 DEF Transfer, Counted, Becomes, Statuses
    <2> QED
      BY <2>1, <2>2 DEF CountInv
  <1>7. LostInv' /\ SweepInv' /\ LossReachesEveryTransfer'
    <2>1. LostInv'
      BY <1>1 DEF Transfer, LostInv, Becomes, Statuses
    <2>2. SweepInv'
      BY <1>1 DEF Transfer, LostInv, SweepInv, Becomes, Statuses, Rechecked
    <2>3. LossReachesEveryTransfer'
      BY <1>1 DEF Transfer, LostInv, LossReachesEveryTransfer, Becomes, Statuses
    <2> QED
      BY <2>1, <2>2, <2>3
  <1>8. NoLostWakeup'
    <2>1. thread'["writer"].notify = <<"in", "out">>
      BY <1>1 DEF Becomes
    <2>2. 1 \in DOMAIN <<"in", "out">> /\ 2 \in DOMAIN <<"in", "out">>
      OBVIOUS
    <2>3. \A side \in Sides :
            \E i \in DOMAIN thread'["writer"].notify : thread'["writer"].notify[i] = side
      BY <2>1, <2>2 DEF Sides
    <2> QED
      BY <2>3 DEF NoLostWakeup
  <1> QED
    BY <1>2, <1>3, <1>4, <1>5, <1>6, <1>7, <1>8

LEMMA WriteFailsStep ==
  ASSUME Inv, WriteFails
  PROVE  Inv'
  <1> USE DEF Inv, Types, Threads, Slots, At, opened, usb, rings, flags, local, history,
              KeepsSpare, WriteFails
  <1>1. Becomes("writer", "idle", NoSlot, "idle", thread["writer"].notify, thread["writer"].sweep)
    BY DropsBecomes DEF Labels, ReaderLabels, WriterLabels, Waits, Submits
  <1>2. Types'
    BY <1>1 DEF Transfer, Position, ReaderInv, WriterInv, Becomes, Statuses, Sides, Submits,
                ReaderLabels, WriterLabels, Waits
  <1>3. LockInv' /\ ReaderInv' /\ WriterInv' /\ EventInv' /\ CloserInv'
    BY <1>1 DEF LockInv, ReaderInv, WriterInv, EventInv, CloserInv, Becomes, Submits,
                ReaderLabels, WriterLabels, Waits
  <1>4. PlaceInv'
    <2>1. \A p \in Places : \A z \in Slots :
            Has(p, z)' <=> (Has(p, z) /\ ~(p = "writer" /\ z = thread["writer"].slot))
                           \/ (p = "spare" /\ z = thread["writer"].slot)
      BY ChannelAssumption, <1>1 DEF ChannelAssumption, Transfer, Position, ReaderInv,
                                     WriterInv,
                                     EventInv, CloserInv, Has, Becomes, Statuses, Sides, Submits,
                                     ReaderLabels, WriterLabels, Holds, Waits, Holding
    <2>2. thread["writer"].slot \in Slots /\ Has("writer", thread["writer"].slot)
      BY ChannelAssumption DEF ChannelAssumption, Position, ReaderInv, WriterInv, EventInv, Has,
                               Sides, Submits, ReaderLabels, WriterLabels, Holds, Waits, Holding
    <2>3. Once(readyIn)' /\ Once(freeOut)'
      BY DEF PlaceInv
    <2>4. "writer" \in Places /\ "spare" \in Places
          /\ UNCHANGED <<requestReads, inSlots, outSlots>>
          /\ (lost => lost')
      BY DEF Places
    <2>5. PlaceInv
      OBVIOUS
    <2> HIDE DEF Inv, Types, Threads, Slots, At, opened, usb, rings, flags, local, history,
                 KeepsSpare, WriteFails
    <2> QED
      BY <2>1, <2>2, <2>3, <2>4, <2>5, SlotMoves
  <1>5. RequestInv'
    BY <1>1 DEF ReaderInv, RequestInv, Becomes, Submits, ReaderLabels, Waits, Out
  <1>6. CountInv'
    <2>1. Flying' = Flying
      BY DEF Flying
    <2>2. Counted' = Counted
      BY <1>1 DEF Counted, Becomes
    <2> QED
      BY <2>1, <2>2 DEF CountInv
  <1>7. LostInv' /\ SweepInv' /\ LossReachesEveryTransfer'
    <2>1. LostInv'
      BY <1>1 DEF Transfer, LostInv, Becomes, Statuses
    <2>2. SweepInv'
      BY <1>1 DEF Transfer, LostInv, SweepInv, Becomes, Statuses, Rechecked
    <2>3. LossReachesEveryTransfer'
      BY <1>1 DEF Transfer, LostInv, LossReachesEveryTransfer, Becomes, Statuses
    <2> QED
      BY <2>1, <2>2, <2>3
  <1>8. NoLostWakeup'
    BY <1>1 DEF EventInv, NoLostWakeup, Becomes, WaitingThread, Ready, Sides
  <1> QED
    BY <1>2, <1>3, <1>4, <1>5, <1>6, <1>7, <1>8

LEMMA WriteSubmittedStep ==
  ASSUME Inv, WriteSubmitted, NEW label \in {"loop", "idle"}, Drops("writer", label)
  PROVE  Inv'
  <1> USE DEF Inv, Types, Threads, Slots, At, opened, usb, rings, flags, local, history, shared,
              WriteSubmitted
  <1>1. Becomes("writer", label, NoSlot, "idle", thread["writer"].notify, thread["writer"].sweep)
    BY DropsBecomes DEF Labels, ReaderLabels, WriterLabels, Waits, Submits
  <1>2. Types'
    BY <1>1 DEF Transfer, Position, ReaderInv, WriterInv, Becomes, Statuses, Sides, Submits,
                ReaderLabels, WriterLabels, Waits
  <1>3. LockInv' /\ ReaderInv' /\ WriterInv' /\ EventInv' /\ CloserInv'
    BY <1>1 DEF LockInv, ReaderInv, WriterInv, EventInv, CloserInv, Becomes, Submits,
                ReaderLabels, WriterLabels, Waits
  <1>4. PlaceInv'
    <2>1. \A p \in Places : \A z \in Slots : Has(p, z)' <=> Has(p, z)
      BY ChannelAssumption, <1>1 DEF ChannelAssumption, Transfer, Position, ReaderInv,
                                     WriterInv,
                                     EventInv, CloserInv, Has, Becomes, Statuses, Sides, Submits,
                                     ReaderLabels, WriterLabels, Holds, Waits, Holding
    <2>2. UNCHANGED <<requestReads, inSlots, outSlots, readyIn, freeOut>> /\ (lost => lost')
      OBVIOUS
    <2> QED
      BY <2>1, <2>2, SlotsStay
  <1>5. RequestInv'
    BY <1>1 DEF ReaderInv, RequestInv, Becomes, Submits, ReaderLabels, Waits, Out
  <1>6. CountInv'
    <2>1. Flying' = Flying
      BY DEF Flying
    <2>2. Counted' = Counted
      BY <1>1 DEF Counted, Becomes
    <2> QED
      BY <2>1, <2>2 DEF CountInv
  <1>7. LostInv' /\ SweepInv' /\ LossReachesEveryTransfer'
    BY <1>1 DEF Transfer, EventInv, LostInv, SweepInv, LossReachesEveryTransfer, Becomes,
                Statuses, Rechecked
  <1>8. NoLostWakeup'
    BY <1>1 DEF EventInv, NoLostWakeup, Becomes, WaitingThread, Ready, Sides
  <1> QED
    BY <1>2, <1>3, <1>4, <1>5, <1>6, <1>7, <1>8

LEMMA CloseBeginsStep ==
  ASSUME Inv, CloseBegins
  PROVE  Inv'
  <1> USE DEF Inv, Types, Threads, Slots, At, opened, usb, rings, flags, local, history, InUse,
              CloseBegins
  <1>1. lost'
        /\ Becomes("closer", "drain", thread["closer"].slot, thread["closer"].after, <<"in",
     "out">>, Slots)
    BY LoseBecomes DEF Labels, ReaderLabels, WriterLabels, Waits, Submits
  <1>2. Types'
    BY <1>1 DEF Transfer, Position, ReaderInv, WriterInv, Becomes, Statuses, Sides, Submits,
                ReaderLabels, WriterLabels, Waits
  <1>3. LockInv' /\ ReaderInv' /\ WriterInv' /\ EventInv' /\ CloserInv'
    BY <1>1 DEF LockInv, ReaderInv, WriterInv, EventInv, CloserInv, Becomes, Submits,
                ReaderLabels, WriterLabels, Waits
  <1>4. PlaceInv'
    <2>1. \A p \in Places : \A z \in Slots : Has(p, z)' <=> Has(p, z)
      BY ChannelAssumption, <1>1 DEF ChannelAssumption, Transfer, Position, ReaderInv,
                                     WriterInv,
                                     EventInv, CloserInv, Has, Becomes, Statuses, Sides, Submits,
                                     ReaderLabels, WriterLabels, Holds, Waits, Holding
    <2>2. UNCHANGED <<requestReads, inSlots, outSlots, readyIn, freeOut>> /\ (lost => lost')
      BY <1>1
    <2> QED
      BY <2>1, <2>2, SlotsStay
  <1>5. RequestInv'
    BY <1>1 DEF ReaderInv, RequestInv, Becomes, Submits, ReaderLabels, Waits, Out
  <1>6. CountInv'
    <2>1. Flying' = Flying
      BY DEF Flying
    <2>2. Counted' = Counted
      BY <1>1 DEF Counted, Becomes
    <2> QED
      BY <2>1, <2>2 DEF CountInv
  <1>7. LostInv' /\ SweepInv' /\ LossReachesEveryTransfer'
    <2>1. LostInv'
      BY <1>1 DEF Transfer, LostInv, Becomes, Statuses
    <2>2. SweepInv'
      BY <1>1 DEF Transfer, LostInv, SweepInv, Becomes, Statuses, Rechecked
    <2>3. LossReachesEveryTransfer'
      BY <1>1 DEF Transfer, LostInv, LossReachesEveryTransfer, Becomes, Statuses
    <2> QED
      BY <2>1, <2>2, <2>3
  <1>8. NoLostWakeup'
    <2>1. thread'["closer"].notify = <<"in", "out">>
      BY <1>1 DEF Becomes
    <2>2. 1 \in DOMAIN <<"in", "out">> /\ 2 \in DOMAIN <<"in", "out">>
      OBVIOUS
    <2>3. \A side \in Sides :
            \E i \in DOMAIN thread'["closer"].notify : thread'["closer"].notify[i] = side
      BY <2>1, <2>2 DEF Sides
    <2> QED
      BY <2>3 DEF NoLostWakeup
  <1> QED
    BY <1>2, <1>3, <1>4, <1>5, <1>6, <1>7, <1>8

LEMMA CloseGivesUpStep ==
  ASSUME Inv, CloseGivesUp
  PROVE  Inv'
  <1> USE DEF Inv, Types, Threads, Slots, At, opened, usb, rings, flags, local, history, Move,
              shared, CloseGivesUp
  <1>1. Becomes("closer", "idle", thread["closer"].slot, thread["closer"].after,
     thread["closer"].notify, thread["closer"].sweep)
    BY GotoBecomes DEF Labels, ReaderLabels, WriterLabels, Waits, Submits
  <1>2. Types'
    BY <1>1 DEF Transfer, Position, ReaderInv, WriterInv, Becomes, Statuses, Sides, Submits,
                ReaderLabels, WriterLabels, Waits
  <1>3. LockInv' /\ ReaderInv' /\ WriterInv' /\ EventInv' /\ CloserInv'
    BY <1>1 DEF LockInv, ReaderInv, WriterInv, EventInv, CloserInv, Becomes, Submits,
                ReaderLabels, WriterLabels, Waits
  <1>4. PlaceInv'
    <2>1. \A p \in Places : \A z \in Slots : Has(p, z)' <=> Has(p, z)
      BY ChannelAssumption, <1>1 DEF ChannelAssumption, Transfer, Position, ReaderInv,
                                     WriterInv,
                                     EventInv, CloserInv, Has, Becomes, Statuses, Sides, Submits,
                                     ReaderLabels, WriterLabels, Holds, Waits, Holding
    <2>2. UNCHANGED <<requestReads, inSlots, outSlots, readyIn, freeOut>> /\ (lost => lost')
      OBVIOUS
    <2> QED
      BY <2>1, <2>2, SlotsStay
  <1>5. RequestInv'
    BY <1>1 DEF ReaderInv, RequestInv, Becomes, Submits, ReaderLabels, Waits, Out
  <1>6. CountInv'
    <2>1. Flying' = Flying
      BY DEF Flying
    <2>2. Counted' = Counted
      BY <1>1 DEF Counted, Becomes
    <2> QED
      BY <2>1, <2>2 DEF CountInv
  <1>7. LostInv' /\ SweepInv' /\ LossReachesEveryTransfer'
    BY <1>1 DEF Transfer, EventInv, LostInv, SweepInv, LossReachesEveryTransfer, Becomes,
                Statuses, Rechecked
  <1>8. NoLostWakeup'
    BY <1>1 DEF EventInv, NoLostWakeup, Becomes, WaitingThread, Ready, Sides
  <1> QED
    BY <1>2, <1>3, <1>4, <1>5, <1>6, <1>7, <1>8

LEMMA CloseFreesStep ==
  ASSUME Inv, CloseFrees
  PROVE  Inv'
  <1> USE DEF Inv, Types, Threads, Slots, At, opened, usb, rings, flags, local, history,
              CloseFrees
  <1>1. Becomes("closer", "idle", thread["closer"].slot, thread["closer"].after,
     thread["closer"].notify, thread["closer"].sweep)
    BY GotoBecomes DEF Labels, ReaderLabels, WriterLabels, Waits, Submits
  <1>2. Types'
    BY <1>1 DEF Transfer, Position, ReaderInv, WriterInv, Becomes, Statuses, Sides, Submits,
                ReaderLabels, WriterLabels, Waits
  <1>3. LockInv' /\ ReaderInv' /\ WriterInv' /\ EventInv' /\ CloserInv'
    BY <1>1 DEF LockInv, ReaderInv, WriterInv, EventInv, CloserInv, Becomes, Submits,
                ReaderLabels, WriterLabels, Waits
  <1>4. PlaceInv'
    <2>1. \A p \in Places : \A z \in Slots : Has(p, z)' <=> Has(p, z)
      BY ChannelAssumption, <1>1 DEF ChannelAssumption, Transfer, Position, ReaderInv,
                                     WriterInv,
                                     EventInv, CloserInv, Has, Becomes, Statuses, Sides, Submits,
                                     ReaderLabels, WriterLabels, Holds, Waits, Holding
    <2>2. UNCHANGED <<requestReads, inSlots, outSlots, readyIn, freeOut>> /\ (lost => lost')
      OBVIOUS
    <2> QED
      BY <2>1, <2>2, SlotsStay
  <1>5. RequestInv'
    BY <1>1 DEF ReaderInv, RequestInv, Becomes, Submits, ReaderLabels, Waits, Out
  <1>6. CountInv'
    <2>1. Flying' = Flying
      BY DEF Flying
    <2>2. Counted' = Counted
      BY <1>1 DEF Counted, Becomes
    <2> QED
      BY <2>1, <2>2 DEF CountInv
  <1>7. LostInv' /\ SweepInv' /\ LossReachesEveryTransfer'
    BY <1>1 DEF Transfer, EventInv, LostInv, SweepInv, LossReachesEveryTransfer, Becomes,
                Statuses, Rechecked
  <1>8. NoLostWakeup'
    BY <1>1 DEF EventInv, NoLostWakeup, Becomes, WaitingThread, Ready, Sides
  <1> QED
    BY <1>2, <1>3, <1>4, <1>5, <1>6, <1>7, <1>8
(* A look that finds nobody leaves a waiter that cannot sleep before it    *)
(* has read what was stored; a wake-up leaves one that looks again.        *)
LEMMA NotifyLooksStep ==
  ASSUME Inv, NEW t \in Threads, NotifyLooks(t)
  PROVE  Inv'
  <1> DEFINE n == thread[t].notify
  <1>1. thread \in [Threads -> Position] /\ thread[t] \in Position
    BY DEF Inv, Types
  <1>2. n \in Seq(Sides) /\ n # <<>>
    BY <1>1 DEF Position, NotifyLooks
  <1>3. CASE Waiters(Head(n))
    <2>1. thread' = [thread EXCEPT ![t].locking = TRUE]
      BY <1>3 DEF NotifyLooks
    <2>2. [thread[t] EXCEPT !.locking = TRUE] \in Position
      BY <1>1 DEF Position
    <2>3. thread' \in [Threads -> Position]
      BY <1>1, <2>1, <2>2
    <2>4. Notified(t, "nobody", n, TRUE)
      BY <1>1, <2>1, <2>3 DEF Notified, Position, Threads
    <2>5. n # <<>> /\ UNCHANGED shared /\ TRUE \in BOOLEAN
      BY <1>2 DEF NotifyLooks
    <2> QED
      BY <1>2, <2>4, <2>5, NotifyKeeps
  <1>4. CASE ~Waiters(Head(n))
    <2>1. thread' = [thread EXCEPT ![t].notify = Tail(@)]
      BY <1>4 DEF NotifyLooks
    <2>2. Tail(n) \in Seq(Sides)
      BY <1>2
    <2>3. [thread[t] EXCEPT !.notify = Tail(n)] \in Position
      BY <1>1, <2>2 DEF Position
    <2>4. thread' \in [Threads -> Position]
      BY <1>1, <2>1, <2>3
    <2>5. Notified(t, "nobody", Tail(n), FALSE)
      <3>1. thread[t].locking = FALSE
        BY <1>1 DEF Position, NotifyLooks
      <3>2. \A u \in Threads : /\ thread'[u].pc = thread[u].pc
                               /\ thread'[u].slot = thread[u].slot
                               /\ thread'[u].after = thread[u].after
                               /\ thread'[u].sweep = thread[u].sweep
                               /\ thread'[u].locking = thread[u].locking
        BY <1>1, <2>1 DEF Position
      <3>3. \A u \in Threads : thread'[u].notify = IF u = t THEN Tail(n) ELSE thread[u].notify
        BY <1>1, <2>1 DEF Position
      <3>4. \A u \in Threads : u # "nobody"
        BY DEF Threads
      <3> QED
        BY <2>4, <3>1, <3>2, <3>3, <3>4 DEF Notified
    <2>6. ASSUME NEW side \in Sides, thread'[WaitingThread(side)].pc \in {"checked", "asleep"},
                 \E i \in DOMAIN n : n[i] = side
          PROVE  \E i \in DOMAIN Tail(n) : Tail(n)[i] = side
      <3>1. thread[WaitingThread(side)].pc = thread'[WaitingThread(side)].pc
        BY <1>1, <2>1 DEF Threads, WaitingThread, Position
      <3>2. side # Head(n)
        BY <1>4, <2>6, <3>1 DEF Waiters
      <3> QED
        BY <1>2, <2>6, <3>2, TailKeeps
    <2>7. UNCHANGED shared /\ n # <<>> /\ FALSE \in BOOLEAN
      BY <1>2 DEF NotifyLooks
    <2> QED
      BY <2>2, <2>5, <2>6, <2>7, NotifyKeeps
  <1> QED
    BY <1>3, <1>4

LEMMA NotifyWakesStep ==
  ASSUME Inv, NEW t \in Threads, NotifyWakes(t)
  PROVE  Inv'
  <1> DEFINE n == thread[t].notify
             w == WaitingThread(Head(n))
             rest == Tail(n)
  <1>1. thread \in [Threads -> Position] /\ thread[t] \in Position
    BY DEF Inv, Types
  <1>2. n \in Seq(Sides) /\ n # <<>>
    BY <1>1 DEF Position, NotifyWakes, Inv, LockInv
  <1>3. w \in {"reader", "writer"} /\ w \in Threads /\ thread[w].pc # "checked"
    BY DEF WaitingThread, Threads, NotifyWakes
  <1>4. rest \in Seq(Sides)
    BY <1>2
  <1>5. thread' = [thread EXCEPT ![t].locking = FALSE, ![t].notify = Tail(@),
                                 ![w].pc = IF @ = "asleep" THEN "registered" ELSE @]
    BY DEF NotifyWakes
  <1>6. "registered" \in Labels
    BY DEF Labels, ReaderLabels, Waits
  <1>7. [thread[t] EXCEPT !.locking = FALSE, !.notify = Tail(n)] \in Position
    BY <1>1, <1>4 DEF Position
  <1>8. \A p \in Position :
          [p EXCEPT !.pc = IF p.pc = "asleep" THEN "registered" ELSE p.pc] \in Position
    BY <1>6 DEF Position
  <1>9. thread' \in [Threads -> Position]
    BY <1>1, <1>3, <1>5, <1>7, <1>8
  <1>10. Notified(t, w, rest, FALSE)
    <2>1. \A u \in Threads : thread'[u].pc =
            IF u = w /\ thread[u].pc = "asleep" THEN "registered" ELSE thread[u].pc
      BY <1>1, <1>3, <1>5 DEF Position
    <2>2. \A u \in Threads : /\ thread'[u].slot = thread[u].slot
                             /\ thread'[u].after = thread[u].after
                             /\ thread'[u].sweep = thread[u].sweep
      BY <1>1, <1>3, <1>5 DEF Position
    <2>3. \A u \in Threads : thread'[u].notify = IF u = t THEN Tail(n) ELSE thread[u].notify
      BY <1>1, <1>3, <1>5 DEF Position
    <2>4. \A u \in Threads : thread'[u].locking = IF u = t THEN FALSE ELSE thread[u].locking
      BY <1>1, <1>3, <1>5 DEF Position
    <2> QED
      BY <1>9, <2>1, <2>2, <2>3, <2>4 DEF Notified
  <1>11. ASSUME NEW side \in Sides, thread'[WaitingThread(side)].pc \in {"checked", "asleep"},
                \E i \in DOMAIN n : n[i] = side
         PROVE  \E i \in DOMAIN rest : rest[i] = side
    <2>1. side # Head(n)
      BY <1>3, <1>10, <1>11 DEF Notified
    <2> QED
      BY <1>2, <1>11, <2>1, TailKeeps
  <1>12. UNCHANGED shared /\ n # <<>> /\ FALSE \in BOOLEAN
    BY <1>2 DEF NotifyWakes
  <1> QED
    <2>1. \A side \in Sides :
            thread'[WaitingThread(side)].pc \in {"checked", "asleep"}
            /\ (\E i \in DOMAIN n : n[i] = side)
              => \E i \in DOMAIN rest : rest[i] = side
      BY <1>11
    <2>2. w \in {"reader", "writer", "nobody"} /\ (FALSE => rest # <<>>)
      BY <1>3
    <2> HIDE DEF w, rest
    <2> QED
      BY <1>4, <1>10, <1>12, <2>1, <2>2, NotifyKeeps

-----------------------------------------------------------------------------
(* The invariant *)

(* The OUT transfers in any order are all of them, each once.              *)
LEMMA AllAreFree ==
  ASSUME NEW S, IsFiniteSet(S), NEW q \in [1..Cardinality(S) -> S],
         \A i, j \in DOMAIN q : q[i] = q[j] => i = j
  PROVE  q \in Seq(S) /\ Once(q) /\ \A s \in S : In(q, s)
  <1>1. Cardinality(S) \in Nat
    BY FS_CardinalityType
  <1>2. q \in Injection(1..Cardinality(S), S)
    BY DEF Injection, IsInjective
  <1>3. Cardinality(1..Cardinality(S)) = Cardinality(S)
    BY <1>1, FS_Interval
  <1>4. q \in Surjection(1..Cardinality(S), S)
    BY <1>2, <1>3, FS_Injection
  <1>5. \A s \in S : In(q, s)
    BY <1>4 DEF Surjection, In
  <1>6. q \in Seq(S)
    BY <1>1
  <1> QED
    BY <1>5, <1>6 DEF Once

LEMMA InitInv ==
  ASSUME Init
  PROVE  Inv
  <1> USE DEF Init, Threads, Slots, At, Quiet, Resting, Pools
  <1>1. IsFiniteSet(inSlots) /\ IsFiniteSet(outSlots)
    BY ChannelAssumption, FS_Subset DEF ChannelAssumption
  <1>2. freeOut \in Seq(outSlots) /\ Once(freeOut) /\ \A s \in outSlots : In(freeOut, s)
    BY <1>1, AllAreFree
  <1>3. requestReads => \E s \in inSlots : inSlots = {s}
    BY <1>1, FS_Singleton
  <1>4. xfer \in [Slots -> Transfer]
    BY DEF Transfer, Statuses
  <1>5. Quiet \in Position
    BY DEF Position, Labels, ReaderLabels
  <1>6. thread \in [Threads -> Position]
    BY <1>5
  <1>7. inFlight \in Int
    BY <1>1, FS_CardinalityType
  <1>8. Types
    <2>1. inSlots \subseteq InTransfers /\ outSlots \subseteq OutTransfers
          /\ requestReads \in BOOLEAN
      OBVIOUS
    <2>2. /\ lost \in BOOLEAN /\ freed \in BOOLEAN /\ swept \in BOOLEAN
          /\ requestPending \in BOOLEAN
          /\ current \in inSlots \union {NoSlot} /\ spare \in outSlots \union {NoSlot}
      OBVIOUS
    <2>3. readyIn \in Seq(inSlots)
      OBVIOUS
    <2> HIDE DEF Init, Threads, Slots
    <2> QED
      BY <1>2, <1>3, <1>4, <1>6, <1>7, <2>1, <2>2, <2>3 DEF Types
  <1>9. LockInv /\ ReaderInv /\ WriterInv /\ EventInv /\ CloserInv
    BY DEF LockInv, ReaderInv, WriterInv, EventInv, CloserInv, ReaderLabels, WriterLabels,
           Submits,
           Waits
  <1>10. PlaceInv
    <2>1. \A p \in Places : \A s \in Slots :
            Has(p, s) <=> (p = "usb" /\ s \in inSlots /\ ~requestReads)
                          \/ (p = "free" /\ s \in outSlots)
      <3>1. \A s \in Slots : xfer[s].flying <=> s \in inSlots /\ ~requestReads
        OBVIOUS
      <3>2. \A s \in Slots : In(freeOut, s) <=> s \in outSlots
        BY <1>2, ChannelAssumption DEF ChannelAssumption, In
      <3>3. \A s \in Slots : ~In(readyIn, s) /\ current # s /\ spare # s
        BY ChannelAssumption DEF ChannelAssumption, In
      <3>4. \A p \in Threads : \A s \in Slots : ~Holds(p, s)
        BY DEF Holds, Holding
      <3> QED
        BY <3>1, <3>2, <3>3, <3>4 DEF Has, Places
    <2>2. Once(readyIn)
      BY DEF Once
    <2>3. "usb" \in Places /\ "free" \in Places
      BY DEF Places
    <2>4. \A s \in Slots : ~(s \in inSlots /\ s \in outSlots)
      BY ChannelAssumption DEF ChannelAssumption
    <2> QED
      BY <1>2, <2>1, <2>2, <2>3, <2>4 DEF PlaceInv
  <1>11. RequestInv
    BY DEF RequestInv, Out, Submits, Waits
  <1>12. CountInv
    <2>1. Counted = {}
      BY DEF Counted
    <2>2. Flying = IF requestReads THEN {} ELSE inSlots
      BY ChannelAssumption DEF ChannelAssumption, Flying
    <2>3. Cardinality({}) = 0
      BY FS_EmptySet
    <2> QED
      BY <1>1, <2>1, <2>2, <2>3, FS_CardinalityType DEF CountInv
  <1>13. LostInv /\ SweepInv /\ LossReachesEveryTransfer
    BY DEF LostInv, SweepInv, LossReachesEveryTransfer
  <1>14. NoLostWakeup
    BY DEF NoLostWakeup, WaitingThread
  <1> QED
    BY <1>8, <1>9, <1>10, <1>11, <1>12, <1>13, <1>14 DEF Inv

LEMMA StutterInv ==
  ASSUME Inv, UNCHANGED vars
  PROVE  Inv'
  <1> USE DEF vars, shared, opened, usb, rings, flags, local, history
  <1>1. Types' /\ LockInv' /\ ReaderInv' /\ WriterInv' /\ EventInv' /\ CloserInv'
    BY DEF Inv, Types, LockInv, ReaderInv, WriterInv, EventInv, CloserInv, Slots, Position, At
  <1>2. PlaceInv' /\ RequestInv' /\ CountInv'
    BY DEF Inv, PlaceInv, Has, Holds, RequestInv, Out, CountInv, Flying, Counted, Slots
  <1>3. LostInv' /\ SweepInv' /\ LossReachesEveryTransfer' /\ NoLostWakeup'
    BY DEF Inv, LostInv, SweepInv, Rechecked, LossReachesEveryTransfer, NoLostWakeup, Ready,
           Slots
  <1> QED
    BY <1>1, <1>2, <1>3 DEF Inv

(* The steps that only go on to another label.                             *)
LEMMA WalkSteps ==
  ASSUME Inv,
         \/ ReadBegins \/ ReadCopiesPart \/ ReadFindsNone
         \/ WriteBegins \/ WriteFindsNone \/ WriteExchanges
         \/ \E t \in {"reader", "writer"} :
              Looks(t) \/ WaitRegisters(t) \/ WaitSleeps(t) \/ WaitExpires(t)
         \/ \E side \in Sides : WaitChecks(side)
  PROVE  Inv'
  <1> USE DEF At, Move, InUse, shared, opened, usb, rings, flags, local, history, Free, Waits
  <1>1. CASE ReadBegins
    BY <1>1, Walk DEF ReadBegins
  <1>2. CASE ReadCopiesPart
    BY <1>2, Walk DEF ReadCopiesPart
  <1>3. CASE ReadFindsNone
    BY <1>3, Walk DEF ReadFindsNone, PopEnabled
  <1>4. CASE WriteBegins
    BY <1>4, Walk DEF WriteBegins
  <1>5. CASE WriteFindsNone
    BY <1>5, Walk DEF WriteFindsNone
  <1>6. CASE WriteExchanges
    BY <1>6, Walk DEF WriteExchanges
  <1>7. ASSUME NEW t \in {"reader", "writer"}, Looks(t)
        PROVE  Inv'
    BY <1>7, Walk DEF Looks
  <1>8. ASSUME NEW t \in {"reader", "writer"}, WaitRegisters(t)
        PROVE  Inv'
    BY <1>8, Walk DEF WaitRegisters
  <1>9. ASSUME NEW t \in {"reader", "writer"}, WaitSleeps(t)
        PROVE  Inv'
    BY <1>9, Walk DEF WaitSleeps
  <1>10. ASSUME NEW t \in {"reader", "writer"}, WaitExpires(t)
         PROVE  Inv'
    BY <1>10, Walk DEF WaitExpires
  <1>11. ASSUME NEW side \in Sides, WaitChecks(side)
         PROVE  Inv'
    BY <1>11, Walk DEF WaitChecks, WaitingThread, Sides
  <1> QED
    BY <1>1, <1>2, <1>3, <1>4, <1>5, <1>6, <1>7, <1>8, <1>9, <1>10, <1>11

LEMMA EventSteps ==
  ASSUME Inv, EventNext
  PROVE  Inv'
  BY InCompletesStep, OutCompletesStep, OutLosesStep, OutFreesStep, CallbackEndsStep DEF
     EventNext

LEMMA NotifySteps ==
  ASSUME Inv, NEW t \in Threads, NotifyNext(t)
  PROVE  Inv'
  BY NotifyLooksStep, NotifyWakesStep, SweepCancelsStep DEF NotifyNext

LEMMA SubmitSteps ==
  ASSUME Inv, NEW t \in {"reader", "writer"}, SubmitNext(t)
  PROVE  Inv'
  BY SubmitLooksLostStep, SubmitLooksCountsStep, LibusbAcceptsStep, SubmitRechecksStep DEF
     SubmitNext

LEMMA ReadPopsStep ==
  ASSUME Inv, ReadPops
  PROVE  Inv'
  <1>1. readyIn \in Seq(inSlots) /\ readyIn # <<>> /\ inSlots \subseteq Slots
        /\ xfer \in [Slots -> Transfer]
    BY DEF Inv, Types, ReadPops, Slots
  <1>2. PICK h \in inSlots : h = Head(readyIn)
    BY <1>1
  <1>3. xfer[h].status \in Statuses
    BY <1>1, <1>2 DEF Transfer
  <1> QED
    BY <1>2, <1>3, ReadPopsDataStep, ReadPopsEmptyRequestedStep, ReadPopsEmptyStreamStep,
       ReadPopsFailedStep DEF Statuses

LEMMA ReadSteps ==
  ASSUME Inv, ReadNext
  PROVE  Inv'
  <1>1. CASE ReadCopiesAll
    BY <1>1, ReadCopiesAllRequestedStep, ReadCopiesAllStreamStep
  <1>2. CASE ReadRequests
    <2>1. PICK s \in inSlots : Takes("reader", s, "request")
      BY <1>2 DEF ReadRequests
    <2> QED
      BY <1>2, <2>1, ReadRequestsStep
  <1>3. CASE ReadFails
    BY <1>3, ReadFailsLostStep, ReadFailsFirstStep
  <1>4. CASE WaitNext("in")
    <2>1. WaitingThread("in") = "reader" /\ "in" \in Sides
      BY DEF WaitingThread, Sides
    <2> QED
      BY <1>4, <2>1, WalkSteps DEF WaitNext
  <1>5. CASE LibusbRejects("reader", "marking")
    BY <1>5, LibusbRejectsReadStep
  <1>6. CASE ReadCopiesPart \/ ReadFindsNone \/ Looks("reader")
    BY <1>6, WalkSteps
  <1> QED
    BY <1>1, <1>2, <1>3, <1>4, <1>5, <1>6, ReadPopsStep, ReadReturnsFailureStep, SubmitSteps,
       ReadMarksStep, ReadRefusedStep, ReadSubmittedStep DEF ReadNext

LEMMA WriteSteps ==
  ASSUME Inv, WriteNext
  PROVE  Inv'
  <1>1. CASE WritePops
    <2>1. freeOut \in Seq(outSlots) /\ freeOut # <<>>
      BY <1>1 DEF Inv, Types, WritePops
    <2>2. PICK h \in outSlots : h = Head(freeOut)
      BY <2>1
    <2> QED
      BY <1>1, <2>2, WritePopsStep
  <1>2. CASE WaitNext("out")
    <2>1. WaitingThread("out") = "writer" /\ "out" \in Sides
      BY DEF WaitingThread, Sides
    <2> QED
      BY <1>2, <2>1, WalkSteps DEF WaitNext
  <1>3. CASE WriteSubmitted
    <2>1. PICK label \in {"loop", "idle"} : Drops("writer", label)
      BY <1>3 DEF WriteSubmitted
    <2> QED
      BY <1>3, <2>1, WriteSubmittedStep
  <1>4. ASSUME NEW label \in {"refused", "failed"}, LibusbRejects("writer", label)
        PROVE  Inv'
    BY <1>4, LibusbRejectsWriteStep
  <1>5. CASE WriteExchanges \/ WriteFindsNone \/ Looks("writer")
    BY <1>5, WalkSteps
  <1> QED
    BY <1>1, <1>2, <1>3, <1>4, <1>5, WriteTakesSpareStep, SubmitSteps, WriteRefusedStep,
       WriteFailsStep DEF WriteNext

LEMMA NextInv ==
  ASSUME Inv, [Next]_vars
  PROVE  Inv'
  <1>1. CASE ReadBegins \/ WriteBegins \/ \E t \in {"reader", "writer"} : WaitExpires(t)
    BY <1>1, WalkSteps
  <1>2. CASE CloseBegins \/ CloseGivesUp \/ CloseFrees
    BY <1>2, CloseBeginsStep, CloseGivesUpStep, CloseFreesStep
  <1> QED
    BY <1>1, <1>2, EventSteps, NotifySteps, ReadSteps, WriteSteps, StutterInv DEF Next

-----------------------------------------------------------------------------
(* The properties *)

(* A set without two elements.                                             *)
LEMMA AtMostOne ==
  ASSUME NEW S, \A x, y \in S : x = y
  PROVE  Cardinality(S) \in {0, 1} /\ (Cardinality(S) = 0 <=> S = {})
  <1>1. CASE S = {}
    BY <1>1, FS_EmptySet
  <1>2. CASE S # {}
    <2>1. PICK x : S = {x}
      BY <1>2
    <2> QED
      BY <2>1, FS_Singleton
  <1> QED
    BY <1>1, <1>2

LEMMA InvOneOwner ==
  ASSUME Inv
  PROVE  OneOwner
  <1> SUFFICES ASSUME NEW s \in Slots
               PROVE  Owners(s) <= 1 /\ (Owners(s) = 0 => s \in inSlots /\ (lost \/ requestReads))
    BY DEF OneOwner
  <1> DEFINE ready == {i \in DOMAIN readyIn : readyIn[i] = s}
             free == {i \in DOMAIN freeOut : freeOut[i] = s}
             kept == {x \in {<<"usb", xfer[s].flying>>, <<"current", current = s>>,
                             <<"spare", spare = s>>} : x[2]}
             held == {t \in Threads : thread[t].slot = s /\ thread[t].pc \in Holding}
  <1>1. Owners(s) = Cardinality(ready) + Cardinality(free) + Cardinality(kept) + Cardinality(held)
    BY DEF Owners
  <1>2. \A p, q \in Places : Has(p, s) /\ Has(q, s) => p = q
    BY DEF Inv, PlaceInv
  <1>3. (\E p \in Places : Has(p, s)) \/ (s \in inSlots /\ (lost \/ requestReads))
    BY DEF Inv, PlaceInv
  <1>4. (\A i, j \in ready : i = j) /\ (ready # {} <=> Has("ready", s))
    BY DEF Inv, PlaceInv, Once, Has, In, Threads
  <1>5. (\A i, j \in free : i = j) /\ (free # {} <=> Has("free", s))
    BY DEF Inv, PlaceInv, Once, Has, In, Threads
  <1>6. (\A t, u \in held : t = u) /\ (held # {} <=> \E p \in Threads : Has(p, s))
    BY <1>2 DEF Has, Holds, Places, Threads
  <1>7. /\ "usb" \in Places /\ "current" \in Places /\ "spare" \in Places
        /\ "ready" \in Places /\ "free" \in Places /\ Threads \subseteq Places
    BY DEF Places
  <1>8. (xfer[s].flying <=> Has("usb", s)) /\ (current = s <=> Has("current", s))
        /\ (spare = s <=> Has("spare", s))
    BY DEF Has, Threads
  <1>9. (\A x, y \in kept : x = y)
        /\ (kept # {} <=> Has("usb", s) \/ Has("current", s) \/ Has("spare", s))
    <2> DEFINE a == <<"usb", xfer[s].flying>>
               b == <<"current", current = s>>
               c == <<"spare", spare = s>>
    <2>1. (a[2] <=> Has("usb", s)) /\ (b[2] <=> Has("current", s)) /\ (c[2] <=> Has("spare", s))
      BY <1>8
    <2>2. kept = {x \in {a, b, c} : x[2]}
      OBVIOUS
    <2> HIDE DEF kept, a, b, c
    <2>3. \A x : x \in kept <=> (x = a /\ Has("usb", s)) \/ (x = b /\ Has("current", s))
                               \/ (x = c /\ Has("spare", s))
      BY <2>1, <2>2
    <2>4. ~(Has("usb", s) /\ Has("current", s)) /\ ~(Has("usb", s) /\ Has("spare", s))
          /\ ~(Has("current", s) /\ Has("spare", s))
      BY <1>2, <1>7
    <2> QED
      BY <2>3, <2>4
  <1>10. /\ Cardinality(ready) \in {0, 1} /\ (Cardinality(ready) = 0 <=> ~Has("ready", s))
         /\ Cardinality(free) \in {0, 1} /\ (Cardinality(free) = 0 <=> ~Has("free", s))
    BY <1>4, <1>5, AtMostOne
  <1>11. /\ Cardinality(kept) \in {0, 1}
         /\ Cardinality(kept) = 0 <=> ~Has("usb", s) /\ ~Has("current", s) /\ ~Has("spare", s)
    BY <1>9, AtMostOne
  <1>12. Cardinality(held) \in {0, 1}
         /\ (Cardinality(held) = 0 <=> ~\E p \in Threads : Has(p, s))
    BY <1>6, AtMostOne
  <1> HIDE DEF ready, free, kept, held
  <1>13. Owners(s) <= 1
    BY <1>1, <1>2, <1>7, <1>10, <1>11, <1>12 DEF Threads
  <1>14. Owners(s) = 0 => ~\E p \in Places : Has(p, s)
    BY <1>1, <1>10, <1>11, <1>12 DEF Places
  <1> QED
    BY <1>3, <1>13, <1>14

(* The inductive invariant: types, where each thread can be, one place per *)
(* transfer, the count, and who has still to notify and to cancel.         *)
THEOREM InvHolds == Spec => []Inv
  <1>1. Init => Inv
    BY InitInv
  <1>2. Inv /\ [Next]_vars => Inv'
    BY NextInv
  <1> QED
    BY <1>1, <1>2, PTL DEF Spec

(* A transfer is in one place, for any number of transfers: no buffer is   *)
(* filled while it is read, or sent while it is written (Slot, IndexRing). *)
THEOREM OneOwnerHolds == Spec => []OneOwner
  <1>1. Inv => OneOwner
    BY InvOneOwner
  <1> QED
    BY <1>1, InvHolds, PTL

(* No thread sleeps through what it waits for (Waiter).                    *)
THEOREM NoLostWakeupHolds == Spec => []NoLostWakeup
  <1>1. Inv => NoLostWakeup
    BY DEF Inv
  <1> QED
    BY <1>1, InvHolds, PTL

(* After lose() no transfer stays with libusb that nobody has cancelled or *)
(* will (Channel::lose, submit).                                           *)
THEOREM LossReachesEveryTransferHolds == Spec => []LossReachesEveryTransfer
  <1>1. Inv => LossReachesEveryTransfer
    BY DEF Inv
  <1> QED
    BY <1>1, InvHolds, PTL

(* A Channel is deleted only when libusb and every thread are done with it *)
(* (aoahid_channel_close, callback).                                       *)
THEOREM FreedChannelUntouchedHolds == Spec => []FreedChannelUntouched
  <1>1. ASSUME Inv, freed
        PROVE  (\A s \in Slots : ~xfer[s].flying) /\ (\A t \in Threads : At(t, "idle"))
    <2>1. Flying = {} /\ Counted = {}
      BY <1>1, FreedIsEmpty DEF Inv
    <2>2. At("reader", "idle") /\ At("writer", "idle") /\ At("closer", "idle")
      BY <1>1 DEF Inv, CloserInv
    <2>3. At("event", "idle")
      BY <1>1, <2>1 DEF Inv, EventInv, Counted, At, Threads
    <2> QED
      BY <2>1, <2>2, <2>3 DEF Flying, Threads
  <1>2. Inv => FreedChannelUntouched
    BY <1>1 DEF FreedChannelUntouched
  <1> QED
    BY <1>2, InvHolds, PTL

(* Request mode never asks twice, nor waits for what it has not asked for  *)
(* (request_pending).                                                      *)
THEOREM RequestPendingIsAccurateHolds == Spec => []RequestPendingIsAccurate
  <1>1. Inv => RequestPendingIsAccurate
    BY DEF Inv, RequestInv, RequestPendingIsAccurate, Out, Waits
  <1> QED
    BY <1>1, InvHolds, PTL
===============================================================================
