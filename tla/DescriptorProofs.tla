--------------------------- MODULE DescriptorProofs ----------------------------
(***************************************************************************)
(* The descriptors of generated profiles, for all options an application   *)
(* may pass and any limit of their length: a host that parses one finds    *)
(* the fields a Node serializes, and validate_raw would accept it.         *)
(*                                                                         *)
(* The proof follows the parser along the items the builder writes.        *)
(***************************************************************************)
EXTENDS SpecFactory, FiniteSetTheorems, SequenceTheorems, TLAPS

-----------------------------------------------------------------------------
(* Induction, for a set in the place of a predicate: by the smallest of a   *)
(* set of numbers, which the initial segments below them give.              *)
LEMMA Least ==
  ASSUME NEW T \in SUBSET Nat, T # {}
  PROVE  \E n \in T : \A m \in T : n <= m
  <1> DEFINE Below == {0..n - 1 : n \in T}
  <1>1. IsWellFoundedOn(StrictSubsetOrdering(Nat), FiniteSubsetsOf(Nat))
    BY FS_StrictSubsetOrderingWellFounded
  <1>2. Below \subseteq FiniteSubsetsOf(Nat)
    <2> SUFFICES ASSUME NEW n \in T PROVE 0..n - 1 \in FiniteSubsetsOf(Nat)
      OBVIOUS
    <2>1. IsFiniteSet(0..n - 1)
      BY FS_Interval
    <2> QED
      BY <2>1 DEF FiniteSubsetsOf
  <1>3. Below # {}
    OBVIOUS
  <1>4. PICK low \in Below : \A other \in Below : <<other, low>> \notin StrictSubsetOrdering(Nat)
    <2> HIDE DEF Below
    <2> QED
      BY <1>1, <1>2, <1>3, WFMin
  <1>5. PICK n \in T : low = 0..n - 1
    OBVIOUS
  <1>6. ASSUME NEW m \in T, m < n
        PROVE  FALSE
    <2>1. <<0..m - 1, 0..n - 1>> \notin StrictSubsetOrdering(Nat)
      BY <1>4, <1>5
    <2>2. m \in 0..n - 1 /\ m \notin 0..m - 1 /\ 0..m - 1 \subseteq 0..n - 1
      BY <1>6
    <2>3. 0..m - 1 # 0..n - 1 /\ 0..m - 1 \in SUBSET Nat /\ 0..n - 1 \in SUBSET Nat
      BY <2>2
    <2> QED
      BY <2>1, <2>2, <2>3 DEF StrictSubsetOrdering
  <1> QED
    BY <1>6

LEMMA SetInduction ==
  ASSUME NEW S, 0 \in S, \A k \in Nat : k \in S => k + 1 \in S
  PROVE  Nat \subseteq S
  <1> SUFFICES ASSUME Nat \ S # {} PROVE FALSE
    OBVIOUS
  <1>1. PICK n \in Nat \ S : \A m \in Nat \ S : n <= m
    BY Least
  <1>2. n # 0 /\ n - 1 \in Nat
    BY <1>1
  <1>3. n - 1 \in S
    BY <1>1, <1>2
  <1> QED
    BY <1>1, <1>2, <1>3

(* Sequences *)
LEMMA Appended ==
  ASSUME NEW C, NEW s \in Seq(C), NEW x \in C
  PROVE  /\ Append(s, x) \in Seq(C) /\ Len(Append(s, x)) = Len(s) + 1
         /\ Append(s, x)[Len(s) + 1] = x
         /\ \A k \in 1..Len(s) : Append(s, x)[k] = s[k]
  OBVIOUS

LEMMA Joined ==
  ASSUME NEW C, NEW s \in Seq(C), NEW t \in Seq(C)
  PROVE  /\ s \o t \in Seq(C) /\ Len(s \o t) = Len(s) + Len(t)
         /\ \A k \in 1..Len(s) : (s \o t)[k] = s[k]
         /\ \A k \in 1..Len(t) : (s \o t)[Len(s) + k] = t[k]
  OBVIOUS

LEMMA JoinAppend ==
  ASSUME NEW C, NEW s \in Seq(C), NEW t \in Seq(C), NEW x \in C
  PROVE  s \o Append(t, x) = Append(s \o t, x)
  OBVIOUS

-----------------------------------------------------------------------------
(* What a host knows, item by item *)

Tags == GlobalTags \union LocalTags \union MainTags \union {"feature"}
Items == [tag : Tags, bytes : {0, 1, 2, 4}, data : Int]

IsReading(after, items) ==
  after = [k \in 0..Len(items) |->
             IF k = 0 THEN [parser |-> Parser0, fields |-> <<>>]
             ELSE HostRead(after[k - 1], items[k])]

LEMMA ReadingExists ==
  ASSUME NEW items \in Seq(Items)
  PROVE  IsReading(Reading(items), items)
  <1> DEFINE Reads(after, n) ==
               /\ after[0] = [parser |-> Parser0, fields |-> <<>>]
               /\ \A k \in 1..n : after[k] = HostRead(after[k - 1], items[k])
             S == {n \in Nat : \E after : Reads(after, n)}
  <1>1. 0 \in S
    <2>1. Reads([k \in {0} |-> [parser |-> Parser0, fields |-> <<>>]], 0)
      OBVIOUS
    <2> QED
      BY <2>1
  <1>2. ASSUME NEW n \in Nat, n \in S
        PROVE  n + 1 \in S
    <2>1. PICK after : Reads(after, n)
      BY <1>2
    <2> DEFINE more == [k \in 0..n + 1 |-> IF k = n + 1 THEN HostRead(after[n], items[n + 1])
                                           ELSE after[k]]
    <2>2. more[0] = [parser |-> Parser0, fields |-> <<>>]
      BY <2>1
    <2>3. ASSUME NEW k \in 1..n + 1
          PROVE  more[k] = HostRead(more[k - 1], items[k])
      <3>1. CASE k = n + 1
        BY <3>1
      <3>2. CASE k # n + 1
        BY <2>1, <3>2
      <3> QED
        BY <3>1, <3>2
    <2>4. Reads(more, n + 1)
      <3> HIDE DEF more
      <3> QED
        BY <2>2, <2>3
    <2> QED
      <3> HIDE DEF more, Reads
      <3> QED
        BY <2>4
  <1>3. Nat \subseteq S
    <2> HIDE DEF S
    <2> QED
      BY <1>1, <1>2, SetInduction
  <1>4. PICK after : Reads(after, Len(items))
    <2>1. Len(items) \in S
      <3> HIDE DEF S
      <3> QED
        BY <1>3
    <2> QED
      BY <2>1
  <1> DEFINE all == [k \in 0..Len(items) |-> after[k]]
  <1>5. IsReading(all, items)
    <2> SUFFICES ASSUME NEW k \in 0..Len(items)
                 PROVE  all[k] = IF k = 0 THEN [parser |-> Parser0, fields |-> <<>>]
                                 ELSE HostRead(all[k - 1], items[k])
      BY DEF IsReading
    <2>1. CASE k = 0
      BY <1>4, <2>1
    <2>2. CASE k # 0
      BY <1>4, <2>2
    <2> QED
      BY <2>1, <2>2
  <1>6. Reading(items) = CHOOSE a : IsReading(a, items)
    BY DEF Reading, IsReading
  <1> QED
    <2> HIDE DEF all
    <2> QED
      BY <1>5, <1>6

LEMMA ReadingSteps ==
  ASSUME NEW items \in Seq(Items)
  PROVE  /\ Reading(items)[0] = [parser |-> Parser0, fields |-> <<>>]
         /\ \A k \in 1..Len(items) :
              Reading(items)[k] = HostRead(Reading(items)[k - 1], items[k])
  <1> DEFINE after == Reading(items)
  <1>1. IsReading(after, items)
    BY ReadingExists
  <1> HIDE DEF after
  <1>2. after[0] = [parser |-> Parser0, fields |-> <<>>]
    BY <1>1 DEF IsReading
  <1>3. \A k \in 1..Len(items) : after[k] = HostRead(after[k - 1], items[k])
    BY <1>1 DEF IsReading
  <1> QED
    BY <1>2, <1>3 DEF after

(* One more item is one more step, and leaves what was read before it.      *)
LEMMA ReadOne ==
  ASSUME NEW s \in Seq(Items), NEW item \in Items
  PROVE  /\ HostReads(Append(s, item)) = HostRead(HostReads(s), item)
         /\ \A k \in 0..Len(s) : Reading(Append(s, item))[k] = Reading(s)[k]
  <1> DEFINE t == Append(s, item)
             before == Reading(s)
             after == Reading(t)
             S == {n \in Nat : n <= Len(s) => after[n] = before[n]}
  <1>1. /\ t \in Seq(Items) /\ Len(t) = Len(s) + 1 /\ t[Len(t)] = item
        /\ \A k \in 1..Len(s) : t[k] = s[k]
    BY Appended
  <1> HIDE DEF t
  <1>3. /\ before[0] = [parser |-> Parser0, fields |-> <<>>]
        /\ \A k \in 1..Len(s) : before[k] = HostRead(before[k - 1], s[k])
    BY ReadingSteps DEF before
  <1>4. /\ after[0] = [parser |-> Parser0, fields |-> <<>>]
        /\ \A k \in 1..Len(t) : after[k] = HostRead(after[k - 1], t[k])
    BY <1>1, ReadingSteps DEF after
  <1> HIDE DEF before, after
  <1>5. 0 \in S
    BY <1>3, <1>4
  <1>6. ASSUME NEW n \in Nat, n \in S
        PROVE  n + 1 \in S
    <2>1. SUFFICES ASSUME n + 1 <= Len(s)
                   PROVE  after[n + 1] = before[n + 1]
      OBVIOUS
    <2>2. after[n] = before[n] /\ n + 1 \in 1..Len(s) /\ n + 1 \in 1..Len(t)
      BY <1>1, <1>6, <2>1
    <2>3. after[n + 1] = HostRead(after[n], t[n + 1])
      BY <1>4, <2>2
    <2>4. before[n + 1] = HostRead(before[n], s[n + 1])
      BY <1>3, <2>2
    <2> QED
      BY <1>1, <2>2, <2>3, <2>4
  <1>7. Nat \subseteq S
    <2> HIDE DEF S
    <2> QED
      BY <1>5, <1>6, SetInduction
  <1>8. \A k \in 0..Len(s) : after[k] = before[k]
    BY <1>7
  <1>9. after[Len(s) + 1] = HostRead(before[Len(s)], item)
    BY <1>1, <1>4, <1>8
  <1> QED
    BY <1>1, <1>8, <1>9 DEF HostReads, t, before, after

LEMMA ReadNothing ==
  HostReads(<<>>) = [parser |-> Parser0, fields |-> <<>>]
  <1>1. <<>> \in Seq(Items) /\ Len(<<>>) = 0
    OBVIOUS
  <1>2. Reading(<<>>)[0] = [parser |-> Parser0, fields |-> <<>>]
    BY <1>1, ReadingSteps
  <1> QED
    BY <1>1, <1>2 DEF HostReads

-----------------------------------------------------------------------------
(* What the builder writes *)

Counts == [input : Nat, feature : Nat]
NeedTypes == [fields : Nat, stack_depth : Nat, report_size : Nat, usages : Nat, data_bits : Nat]
DataSemantics ==
  {"modifier", "key_bitmap", "buttons", "x", "y", "wheel", "pan", "consumer_usage", "hat",
   "gamepad_axis", "tip", "contact_id", "pressure", "width", "height", "azimuth", "scan_time",
   "contact_count", "eraser", "in_range", "tilt_x", "tilt_y", "twist", "battery_strength"}
LayoutTypes ==
  [offset : Nat, semantic : DataSemantics \union {"constant_padding"}, instance : Int,
   width : Int, minimum : Int,
   maximum : Int, physical : PhysicalTypes, null_state : BOOLEAN]
Builders ==
  [good : BOOLEAN, items : Seq(Items), size : Int, collection_depth : Nat,
   top_level_application_seen : BOOLEAN, report_id_decided : BOOLEAN,
   data_main_emitted : BOOLEAN, report_id : Word8, input_bits : Nat,
   fields : Seq(LayoutTypes), requirements : NeedTypes, data_bits : Counts,
   data_fields : Counts]

IsWriting(written, b, items) ==
  written = [k \in 0..Len(items) |-> IF k = 0 THEN b ELSE Emit(written[k - 1], items[k])]

LEMMA WritingExists ==
  ASSUME NEW b, NEW items \in Seq(Items)
  PROVE  \E written : IsWriting(written, b, items) /\ Write(b, items) = written[Len(items)]
  <1> DEFINE Writes(written, n) ==
               /\ written[0] = b
               /\ \A k \in 1..n : written[k] = Emit(written[k - 1], items[k])
             S == {n \in Nat : \E written : Writes(written, n)}
  <1>1. 0 \in S
    <2>1. Writes([k \in {0} |-> b], 0)
      OBVIOUS
    <2> QED
      BY <2>1
  <1>2. ASSUME NEW n \in Nat, n \in S
        PROVE  n + 1 \in S
    <2>1. PICK written : Writes(written, n)
      BY <1>2
    <2> DEFINE more == [k \in 0..n + 1 |-> IF k = n + 1 THEN Emit(written[n], items[n + 1])
                                           ELSE written[k]]
    <2>2. more[0] = b
      BY <2>1
    <2>3. ASSUME NEW k \in 1..n + 1
          PROVE  more[k] = Emit(more[k - 1], items[k])
      <3>1. CASE k = n + 1
        BY <3>1
      <3>2. CASE k # n + 1
        BY <2>1, <3>2
      <3> QED
        BY <3>1, <3>2
    <2>4. Writes(more, n + 1)
      <3> HIDE DEF more
      <3> QED
        BY <2>2, <2>3
    <2> QED
      <3> HIDE DEF more, Writes
      <3> QED
        BY <2>4
  <1>3. Nat \subseteq S
    <2> HIDE DEF S
    <2> QED
      BY <1>1, <1>2, SetInduction
  <1>4. PICK written : Writes(written, Len(items))
    <2>1. Len(items) \in S
      <3> HIDE DEF S
      <3> QED
        BY <1>3
    <2> QED
      BY <2>1
  <1> DEFINE all == [k \in 0..Len(items) |-> written[k]]
  <1>5. IsWriting(all, b, items)
    <2> SUFFICES ASSUME NEW k \in 0..Len(items)
                 PROVE  all[k] = IF k = 0 THEN b ELSE Emit(all[k - 1], items[k])
      BY DEF IsWriting
    <2>1. CASE k = 0
      BY <1>4, <2>1
    <2>2. CASE k # 0
      BY <1>4, <2>2
    <2> QED
      BY <2>1, <2>2
  <1>6. Write(b, items) = (CHOOSE w : IsWriting(w, b, items))[Len(items)]
    BY DEF Write, IsWriting
  <1> QED
    <2> HIDE DEF all
    <2> QED
      BY <1>5, <1>6

(* A Write that succeeds adds its items and changes nothing else.           *)
LEMMA Written ==
  ASSUME NEW b \in Builders, NEW items \in Seq(Items)
  PROVE  /\ Write(b, items) \in Builders
         /\ Write(b, items).good =>
              /\ b.good
              /\ Write(b, items) = [b EXCEPT !.items = b.items \o items,
                                             !.size = Write(b, items).size]
  <1>1. PICK written : IsWriting(written, b, items) /\ Write(b, items) = written[Len(items)]
    BY WritingExists
  <1>2. /\ written[0] = b
        /\ \A k \in 1..Len(items) : written[k] = Emit(written[k - 1], items[k])
    BY <1>1, SMTT(60) DEF IsWriting
  <1> DEFINE Part(n) == [k \in 1..n |-> items[k]]
             Fine(n) ==
               /\ written[n] \in Builders
               /\ written[n].good => 
                    /\ b.good
                    /\ written[n] = [b EXCEPT !.items = b.items \o Part(n),
                                              !.size = written[n].size]
             S == {n \in Nat : n <= Len(items) => Fine(n)}
  <1>3. 0 \in S
    <2>1. Part(0) = <<>>
      OBVIOUS
    <2>2. b.items \o <<>> = b.items
      BY DEF Builders
    <2>3. b = [b EXCEPT !.items = b.items, !.size = b.size]
      BY DEF Builders
    <2> QED
      BY <1>2, <2>1, <2>2, <2>3
  <1>4. ASSUME NEW n \in Nat, n \in S
        PROVE  n + 1 \in S
    <2>1. SUFFICES ASSUME n + 1 <= Len(items)
                   PROVE  Fine(n + 1)
      OBVIOUS
    <2> DEFINE w == written[n]
               item == items[n + 1]
    <2>2. Fine(n) /\ written[n + 1] = Emit(w, item) /\ item \in Items
      BY <1>2, <1>4, <2>1
    <2>3. Part(n) \in Seq(Items) /\ Part(n + 1) = Append(Part(n), item)
      BY <2>1
    <2>4. b.items \o Part(n + 1) = Append(b.items \o Part(n), item)
      <3> DEFINE old == b.items
      <3>1. old \in Seq(Items) /\ item \in Items
        BY <2>2 DEF Builders
      <3> HIDE DEF Part, item, old
      <3>2. old \o Append(Part(n), item) = Append(old \o Part(n), item)
        BY <2>3, <3>1, JoinAppend, SMTT(60)
      <3> QED
        BY <2>3, <3>2 DEF old
    <2>5. WireBytes(item) \in Int
      BY <2>2 DEF WireBytes, Items
    <2> HIDE DEF Part, item
    <2>6. CASE ~w.good \/ w.size + WireBytes(item) > WireMaximum
      <3>1. written[n + 1] = [w EXCEPT !.good = FALSE]
        BY <2>2, <2>6 DEF Emit, Fail
      <3> QED
        BY <2>2, <3>1 DEF Builders
    <2>7. CASE w.good /\ ~(w.size + WireBytes(item) > WireMaximum)
      <3>1. written[n + 1] = [w EXCEPT !.items = Append(w.items, item),
                                       !.size = w.size + WireBytes(item)]
        BY <2>2, <2>7 DEF Emit
      <3>2. w \in Builders /\ w = [b EXCEPT !.items = b.items \o Part(n), !.size = w.size]
        BY <2>2, <2>7
      <3> HIDE DEF w
      <3>3. w.items = b.items \o Part(n)
        BY <3>2 DEF Builders
      <3>4. Append(w.items, item) \in Seq(Items) /\ w.size + WireBytes(item) \in Int
        BY <2>2, <2>5, <3>2 DEF Builders
      <3>5. written[n + 1] \in Builders
        BY <3>1, <3>2, <3>4 DEF Builders
      <3>6. written[n + 1] = [b EXCEPT !.items = b.items \o Part(n + 1),
                                       !.size = written[n + 1].size]
        BY <2>4, <3>1, <3>2, <3>3 DEF Builders
      <3> QED
        BY <2>2, <2>7, <3>5, <3>6 DEF w
    <2> QED
      BY <2>6, <2>7
  <1>5. Fine(Len(items))
    <2>1. Len(items) \in S
      <3> HIDE DEF S
      <3>1. Nat \subseteq S
        BY <1>3, <1>4, SetInduction
      <3> QED
        BY <3>1
    <2> QED
      BY <2>1
  <1>6. Part(Len(items)) = items
    OBVIOUS
  <1> QED
    BY <1>1, <1>5, <1>6

-----------------------------------------------------------------------------
(* Items are read back as they were meant.                                  *)
LEMMA SpanIs == Span[1] = 256 /\ Span[2] = 65536
  BY DEF Span, Byte

LEMMA WordIs ==
  /\ \A x \in Word8 : x \in Nat /\ x < 256
  /\ \A x \in Word16 : x \in Nat /\ x < 65536
  <1>1. Span[1] \in Nat /\ Span[2] \in Nat
    BY SpanIs
  <1>2. \A x \in Word8 : x \in Nat /\ x < Span[1]
    BY <1>1 DEF Word8
  <1>3. \A x \in Word16 : x \in Nat /\ x < Span[2]
    BY <1>1 DEF Word16
  <1> QED
    BY <1>2, <1>3, SpanIs

LEMMA UnsignedReadBack ==
  ASSUME NEW tag \in Tags, NEW x \in Nat
  PROVE  /\ UnsignedItem(tag, x) \in Items /\ UnsignedItem(tag, x).tag = tag
         /\ UnsignedItem(tag, x).data = x /\ UnsignedValue(UnsignedItem(tag, x)) = x
         /\ UnsignedItem(tag, x).bytes = 4 <=> x >= 65536
  <1>1. CASE x < 256
    BY <1>1, SpanIs DEF UnsignedItem, Item, UnsignedValue, Items
  <1>2. CASE x >= 256 /\ x < 65536
    BY <1>2, SpanIs DEF UnsignedItem, Item, UnsignedValue, Items
  <1>3. CASE x >= 65536
    BY <1>3, SpanIs DEF UnsignedItem, Item, UnsignedValue, Items
  <1> QED
    BY <1>1, <1>2, <1>3

LEMMA Residue ==
  ASSUME NEW n \in Nat, n > 0, NEW x \in Int, -n <= x, x < n
  PROVE  x % n = IF x < 0 THEN x + n ELSE x
  OBVIOUS

LEMMA SignedReadBack ==
  ASSUME NEW tag \in Tags, NEW x \in Int
  PROVE  /\ SignedItem(tag, x) \in Items /\ SignedItem(tag, x).tag = tag
         /\ SignedValue(SignedItem(tag, x)) = x
  <1>1. CASE x >= -128 /\ x <= 127
    <2>1. SignedItem(tag, x) = [tag |-> tag, bytes |-> 1, data |-> x % 256]
      BY <1>1, SpanIs DEF SignedItem, Item
    <2>2. x % 256 = IF x < 0 THEN x + 256 ELSE x
      BY <1>1, Residue
    <2> QED
      BY <1>1, <2>1, <2>2, SpanIs DEF SignedValue, Items
  <1>2. CASE x >= -32768 /\ x <= 32767 /\ ~(x >= -128 /\ x <= 127)
    <2>1. SignedItem(tag, x) = [tag |-> tag, bytes |-> 2, data |-> x % 65536]
      BY <1>2, SpanIs DEF SignedItem, Item
    <2>2. x % 65536 = IF x < 0 THEN x + 65536 ELSE x
      BY <1>2, Residue
    <2> QED
      BY <1>2, <2>1, <2>2, SpanIs DEF SignedValue, Items
  <1>3. CASE ~(x >= -32768 /\ x <= 32767)
    <2>1. SignedItem(tag, x) = [tag |-> tag, bytes |-> 4, data |-> x]
      BY <1>3 DEF SignedItem, Item
    <2> QED
      BY <2>1 DEF SignedValue, Items
  <1> QED
    BY <1>1, <1>2, <1>3

LEMMA MaximumReadBack ==
  ASSUME NEW tag \in Tags, NEW low \in Int, NEW high \in Int, low <= high
  PROVE  /\ MaximumItem(tag, high, low) \in Items /\ MaximumItem(tag, high, low).tag = tag
         /\ (IF low < 0 THEN SignedValue(MaximumItem(tag, high, low))
             ELSE UnsignedValue(MaximumItem(tag, high, low))) = high
  <1>1. CASE low < 0
    BY <1>1, SignedReadBack DEF MaximumItem
  <1>2. CASE low >= 0
    BY <1>2, UnsignedReadBack DEF MaximumItem
  <1> QED
    BY <1>1, <1>2

LEMMA ExponentReadBack ==
  ASSUME NEW x \in Int, -8 <= x, x <= 7
  PROVE  /\ ExponentItem(x) \in Items /\ ExponentItem(x).tag = "unit_exponent"
         /\ UnsignedValue(ExponentItem(x)) \in 0..15
         /\ SignedNibble(UnsignedValue(ExponentItem(x))) = x
  <1>1. x % 16 = IF x < 0 THEN x + 16 ELSE x
    BY Residue
  <1> DEFINE nibble == x % 16
  <1>2. nibble \in 0..15 /\ SignedNibble(nibble) = x
    BY <1>1 DEF SignedNibble
  <1>3. nibble % 256 = nibble
    BY <1>2, Residue
  <1>4. ExponentItem(x) = [tag |-> "unit_exponent", bytes |-> 1, data |-> nibble % 256]
    BY SpanIs DEF ExponentItem, Item
  <1>5. ExponentItem(x) = [tag |-> "unit_exponent", bytes |-> 1, data |-> nibble]
    BY <1>3, <1>4
  <1>6. ExponentItem(x).data = nibble /\ ExponentItem(x).tag = "unit_exponent"
    BY <1>5
  <1>7. ExponentItem(x) \in Items
    BY <1>2, <1>5 DEF Items, Tags, GlobalTags
  <1> QED
    BY <1>2, <1>6, <1>7 DEF UnsignedValue

-----------------------------------------------------------------------------
(* Reading one item more *)

(* The parser between two items of a generated descriptor: its collections  *)
(* and reports are those of the builder, it has an empty stack and no       *)
(* delimiters.                                                              *)
ParsedOf(b) ==
  IF Len(b.fields) = 0 THEN <<>>
  ELSE [id \in {b.report_id} |->
          [bits |-> b.data_bits.input, fields |-> b.data_fields.input, top_level |-> 1]]

LocalsOf(count, first, size) ==
  [usage_count |-> count, usage_minimum |-> first, usage_minimum_size |-> size,
   delimiter_depth |-> 0, delimiter_branch |-> 0]

Parser(globals, locals, parsed, depth, tops, current, ids, saw, needs) ==
  [globals |-> globals, global_stack |-> <<>>, locals |-> locals, parsed |-> parsed,
   collection_depth |-> depth, top_level_count |-> tops, current_top_level |-> current,
   has_report_ids |-> ids, saw_main_before_report_id |-> saw, requirements |-> needs]

Tops(b) == IF b.top_level_application_seen THEN 1 ELSE 0
Top(b) == IF b.collection_depth = 0 THEN 0 ELSE 1
HasIds(b) == b.report_id # 0
SawMain(b) == Len(b.fields) # 0 /\ b.report_id = 0

ParserOf(b, globals, locals, needs) ==
  Parser(globals, locals, ParsedOf(b), b.collection_depth, Tops(b), Top(b), HasIds(b),
         SawMain(b), needs)

HostFields ==
  [offset : Int, width : Int, constant : BOOLEAN, null_state : BOOLEAN, minimum : Int,
   maximum : Int, physical : Seq(Int)]

(* The collections open after the items. *)
Opened(items) == DepthBefore(items, Len(items) + 1)

(* No item of a descriptor without Feature items is rejected. *)
HasFeature(items) == \E k \in DOMAIN items : items[k].tag = "feature"
Sound(items) ==
  \/ HasFeature(items)
  \/ \A k \in DOMAIN items : ~Rejects(Reading(items)[k - 1].parser, items[k])

(* The items have been read and left the host in this state. *)
At(items, b, globals, locals, needs, fields) ==
  /\ items \in Seq(Items) /\ fields \in Seq(HostFields)
  /\ HostReads(items) =
       [parser |-> ParserOf(b, globals, locals, needs), fields |-> fields]
  /\ Sound(items)
  /\ Opened(items) = b.collection_depth

LEMMA SoundOne ==
  ASSUME NEW items \in Seq(Items), NEW item \in Items, Sound(items),
         \/ item.tag = "feature"
         \/ ~Rejects(HostReads(items).parser, item)
  PROVE  Sound(Append(items, item))
  <1> DEFINE more == Append(items, item)
  <1>1. /\ more \in Seq(Items) /\ Len(more) = Len(items) + 1 /\ more[Len(items) + 1] = item
        /\ \A k \in 1..Len(items) : more[k] = items[k]
    BY Appended
  <1>2. DOMAIN more = 1..Len(items) + 1 /\ DOMAIN items = 1..Len(items) /\ Len(items) \in Nat
    BY <1>1
  <1> HIDE DEF more
  <1>3. \A k \in 0..Len(items) : Reading(more)[k] = Reading(items)[k]
    BY ReadOne DEF more
  <1>4. CASE item.tag = "feature" \/ HasFeature(items)
    BY <1>1, <1>2, <1>4 DEF Sound, HasFeature, more
  <1>5. CASE ~HasFeature(items) /\ ~Rejects(HostReads(items).parser, item)
    <2> SUFFICES ASSUME NEW k \in DOMAIN more
                 PROVE  ~Rejects(Reading(more)[k - 1].parser, more[k])
      BY DEF Sound, more
    <2>1. CASE k = Len(items) + 1
      <3>1. Reading(more)[k - 1] = HostReads(items)
        BY <1>2, <1>3, <2>1 DEF HostReads
      <3> QED
        BY <1>1, <1>5, <2>1, <3>1
    <2>2. CASE k \in 1..Len(items)
      <3>1. Reading(more)[k - 1] = Reading(items)[k - 1] /\ more[k] = items[k]
        BY <1>1, <1>2, <1>3, <2>2
      <3>2. ~Rejects(Reading(items)[k - 1].parser, items[k])
        BY <1>2, <1>5, <2>2 DEF Sound
      <3> QED
        BY <3>1, <3>2
    <2> QED
      BY <1>2, <2>1, <2>2
  <1> QED
    BY <1>4, <1>5

Change(item) ==
  IF item.tag = "collection" THEN 1 ELSE IF item.tag = "end_collection" THEN -1 ELSE 0

(* The depth before an item is that of the items before it.                 *)
LEMMA DepthKept ==
  ASSUME NEW s \in Seq(Items), NEW t \in Seq(Items), NEW k \in 1..Len(s) + 1,
         Len(s) <= Len(t), \A j \in 1..Len(s) : t[j] = s[j]
  PROVE  DepthBefore(t, k) = DepthBefore(s, k)
  <1>1. \A tag : {j \in 1..k - 1 : t[j].tag = tag} = {j \in 1..k - 1 : s[j].tag = tag}
    OBVIOUS
  <1> QED
    BY <1>1 DEF DepthBefore

TagSet(s, n, tag) == {j \in 1..n : s[j].tag = tag}
TagCount(s, n, tag) == Cardinality(TagSet(s, n, tag))

LEMMA TagCountOne ==
  ASSUME NEW s, NEW n \in Nat, NEW tag
  PROVE  /\ TagCount(s, n, tag) \in Nat
         /\ TagCount(s, n + 1, tag) = TagCount(s, n, tag) + (IF s[n + 1].tag = tag THEN 1 ELSE 0)
  <1> DEFINE less == TagSet(s, n, tag)
             more == TagSet(s, n + 1, tag)
  <1>1. IsFiniteSet(less)
    <2>1. IsFiniteSet(1..n)
      BY FS_Interval
    <2> QED
      BY <2>1, FS_Subset DEF TagSet
  <1>2. Cardinality(less) \in Nat
    BY <1>1, FS_CardinalityType
  <1>3. more = IF s[n + 1].tag = tag THEN less \union {n + 1} ELSE less
    BY DEF TagSet
  <1>4. n + 1 \notin less
    BY DEF TagSet
  <1> HIDE DEF less, more
  <1>5. Cardinality(less \union {n + 1}) = Cardinality(less) + 1
    BY <1>1, <1>4, FS_AddElement
  <1> QED
    BY <1>2, <1>3, <1>5 DEF less, more, TagCount

LEMMA OpenedOne ==
  ASSUME NEW items \in Seq(Items), NEW item \in Items
  PROVE  /\ Opened(items) \in Int
         /\ Opened(Append(items, item)) = Opened(items) + Change(item)
  <1> DEFINE more == Append(items, item)
             n == Len(items)
  <1>1. /\ more \in Seq(Items) /\ Len(more) = n + 1 /\ more[n + 1] = item /\ n \in Nat
        /\ \A k \in 1..n : more[k] = items[k]
    BY Appended
  <1> HIDE DEF more, n
  <1>2. \A tag : TagCount(more, n, tag) = TagCount(items, n, tag)
    <2>1. \A tag : TagSet(more, n, tag) = TagSet(items, n, tag)
      BY <1>1 DEF TagSet
    <2> QED
      BY <2>1 DEF TagCount
  <1>3. \A tag : /\ TagCount(items, n, tag) \in Nat
                 /\ TagCount(more, n + 1, tag) =
                      TagCount(items, n, tag) + (IF item.tag = tag THEN 1 ELSE 0)
    <2> TAKE tag
    <2>1. TagCount(items, n, tag) \in Nat
      BY <1>1, TagCountOne
    <2>2. TagCount(more, n + 1, tag) =
            TagCount(more, n, tag) + (IF more[n + 1].tag = tag THEN 1 ELSE 0)
      BY <1>1, TagCountOne
    <2> QED
      BY <1>1, <1>2, <2>1, <2>2
  <1>4. n + 1 - 1 = n /\ n + 2 - 1 = n + 1 /\ n + 1 + 1 = n + 2
    BY <1>1
  <1>5. Opened(items) = TagCount(items, n, "collection") - TagCount(items, n, "end_collection")
    BY <1>4 DEF Opened, DepthBefore, TagCount, TagSet, n
  <1>6. Opened(more) = TagCount(more, n + 1, "collection")
                       - TagCount(more, n + 1, "end_collection")
    BY <1>1, <1>4 DEF Opened, DepthBefore, TagCount, TagSet
  <1> QED
    BY <1>3, <1>5, <1>6 DEF Change, more

LEMMA ReadItem ==
  ASSUME NEW items, NEW b, NEW g, NEW l, NEW r, NEW f, NEW item \in Items,
         At(items, b, g, l, r, f),
         NEW b2, NEW g2, NEW l2, NEW r2, NEW f2 \in Seq(HostFields),
         HostAfter(ParserOf(b, g, l, r), item) = ParserOf(b2, g2, l2, r2),
         item.tag = "feature" \/ ~Rejects(ParserOf(b, g, l, r), item),
         f2 = f \o IF item.tag = "input" THEN FieldsOfInput(ParserOf(b, g, l, r), item)
                   ELSE <<>>,
         b2.collection_depth = b.collection_depth + Change(item)
  PROVE  At(Append(items, item), b2, g2, l2, r2, f2)
  <1> DEFINE p == ParserOf(b, g, l, r)
             p2 == ParserOf(b2, g2, l2, r2)
  <1>1. items \in Seq(Items) /\ HostReads(items) = [parser |-> p, fields |-> f]
    BY DEF At
  <1>2. HostReads(Append(items, item)) = HostRead([parser |-> p, fields |-> f], item)
    BY <1>1, ReadOne
  <1> HIDE DEF p, p2
  <1>3. HostRead([parser |-> p, fields |-> f], item) = [parser |-> p2, fields |-> f2]
    BY DEF HostRead, p, p2
  <1>4. HostReads(items).parser = p
    BY <1>1
  <1>5. Sound(Append(items, item))
    BY <1>1, <1>4, SoundOne DEF At, p
  <1>6. Opened(Append(items, item)) = b2.collection_depth
    BY <1>1, OpenedOne DEF At
  <1>7. Append(items, item) \in Seq(Items)
    BY <1>1, Appended
  <1> QED
    BY <1>2, <1>3, <1>5, <1>6, <1>7 DEF At, p2

-----------------------------------------------------------------------------
(* What an item of each kind does to the parser                             *)
Values == [GlobalTags -> Int]

LEMMA TagKinds ==
  ASSUME NEW p, NEW item
  PROVE  /\ item.tag \in GlobalTags =>
              Rejects(p, item) = GlobalRejects(p, item) /\ HostAfter(p, item) = GlobalItem(p, item)
         /\ item.tag \in LocalTags =>
              Rejects(p, item) = LocalRejects(p, item) /\ HostAfter(p, item) = LocalItem(p, item)
         /\ item.tag \in MainTags =>
              Rejects(p, item) = MainRejects(p, item) /\ HostAfter(p, item) = MainItem(p, item)
  <1> DEFINE AnyGlobal == GlobalTags \union StackTags
  <1>1. \A tag \in AnyGlobal : tag # "feature" /\ tag \notin LocalTags /\ tag \notin MainTags
    BY DEF GlobalTags, StackTags, LocalTags, MainTags
  <1>2. \A tag \in LocalTags : tag # "feature" /\ tag \notin AnyGlobal /\ tag \notin MainTags
    BY DEF GlobalTags, StackTags, LocalTags, MainTags
  <1>3. \A tag \in MainTags : tag # "feature" /\ tag \notin AnyGlobal /\ tag \notin LocalTags
    BY DEF GlobalTags, StackTags, LocalTags, MainTags
  <1>4. Rejects(p, item) = CASE item.tag \in AnyGlobal -> GlobalRejects(p, item)
                             [] item.tag \in LocalTags -> LocalRejects(p, item)
                             [] item.tag \in MainTags -> MainRejects(p, item)
                             [] OTHER -> TRUE
    BY DEF Rejects
  <1>5. After(p, item) = CASE item.tag \in AnyGlobal -> GlobalItem(p, item)
                           [] item.tag \in LocalTags -> LocalItem(p, item)
                           [] item.tag \in MainTags -> MainItem(p, item)
    BY DEF After
  <1>6. item.tag \in GlobalTags => item.tag \in AnyGlobal
    OBVIOUS
  <1> HIDE DEF AnyGlobal
  <1>7. CASE item.tag \in AnyGlobal
    <2>1. /\ Rejects(p, item) = GlobalRejects(p, item)
      BY <1>1, <1>4, <1>7, Zenon
    <2>2. After(p, item) = GlobalItem(p, item)
      BY <1>1, <1>5, <1>7, Zenon
    <2> QED
      BY <1>1, <1>7, <2>1, <2>2 DEF HostAfter
  <1>8. CASE item.tag \in LocalTags
    <2>1. Rejects(p, item) = LocalRejects(p, item)
      BY <1>2, <1>4, <1>8, Zenon
    <2>2. After(p, item) = LocalItem(p, item)
      BY <1>2, <1>5, <1>8, Zenon
    <2> QED
      BY <1>2, <1>6, <1>8, <2>1, <2>2 DEF HostAfter
  <1>9. CASE item.tag \in MainTags
    <2>1. Rejects(p, item) = MainRejects(p, item)
      BY <1>3, <1>4, <1>9, Zenon
    <2>2. After(p, item) = MainItem(p, item)
      BY <1>3, <1>5, <1>9, Zenon
    <2> QED
      BY <1>3, <1>6, <1>9, <2>1, <2>2 DEF HostAfter
  <1> QED
    BY <1>6, <1>7, <1>8, <1>9, Zenon

LEMMA ParserParts ==
  ASSUME NEW g, NEW l, NEW m, NEW depth, NEW tops, NEW top, NEW ids, NEW saw, NEW r, NEW p,
         p = Parser(g, l, m, depth, tops, top, ids, saw, r)
  PROVE  /\ p.globals = g /\ p.global_stack = <<>> /\ p.locals = l /\ p.parsed = m
         /\ p.collection_depth = depth /\ p.top_level_count = tops /\ p.current_top_level = top
         /\ p.has_report_ids = ids /\ p.saw_main_before_report_id = saw /\ p.requirements = r
  BY DEF Parser

LEMMA ParserOfParts ==
  ASSUME NEW b, NEW g, NEW l, NEW r
  PROVE  /\ ParserOf(b, g, l, r).globals = g /\ ParserOf(b, g, l, r).global_stack = <<>>
         /\ ParserOf(b, g, l, r).locals = l /\ ParserOf(b, g, l, r).parsed = ParsedOf(b)
         /\ ParserOf(b, g, l, r).collection_depth = b.collection_depth
         /\ ParserOf(b, g, l, r).top_level_count = Tops(b)
         /\ ParserOf(b, g, l, r).current_top_level = Top(b)
         /\ ParserOf(b, g, l, r).has_report_ids = HasIds(b)
         /\ ParserOf(b, g, l, r).saw_main_before_report_id = SawMain(b)
         /\ ParserOf(b, g, l, r).requirements = r
  BY ParserParts DEF ParserOf

LEMMA ParserOfSets ==
  ASSUME NEW b, NEW g, NEW l, NEW r, NEW x
  PROVE  /\ [ParserOf(b, g, l, r) EXCEPT !.globals = x] = ParserOf(b, x, l, r)
         /\ [ParserOf(b, g, l, r) EXCEPT !.locals = x] = ParserOf(b, g, x, r)
         /\ [ParserOf(b, g, l, r) EXCEPT !.requirements = x] = ParserOf(b, g, l, x)
  BY DEF ParserOf, Parser

(* Global items, but for those that count: the value is in force.           *)
PlainTags == {"usage_page", "logical_minimum", "logical_maximum", "physical_minimum",
              "physical_maximum", "unit_exponent", "unit"}

LEMMA PlainRead ==
  ASSUME NEW items, NEW b, NEW g, NEW l, NEW r, NEW f, NEW item \in Items,
         At(items, b, g, l, r, f), item.tag \in PlainTags,
         item.tag = "usage_page" => item.data \in Word16,
         item.tag = "unit_exponent" => 0 <= item.data /\ item.data <= 15,
         item.tag = "unit" => UnitIsValid(item.data)
  PROVE  At(Append(items, item), b, Declare(g, item), l, r, f)
  <1> DEFINE p == ParserOf(b, g, l, r)
             p2 == ParserOf(b, Declare(g, item), l, r)
  <1>1. f \in Seq(HostFields) /\ f \o <<>> = f
    BY DEF At
  <1>2. item.tag \in GlobalTags /\ item.tag \notin {"input", "collection", "end_collection"}
    BY DEF PlainTags, GlobalTags
  <1>3. p.globals = g /\ [p EXCEPT !.globals = Declare(g, item)] = p2
    BY ParserOfParts, ParserOfSets
  <1> HIDE DEF p, p2
  <1>4. GlobalItem(p, item) = [p EXCEPT !.globals = Declare(p.globals, item)]
    BY Zenon DEF GlobalItem, PlainTags
  <1>5. ~GlobalRejects(p, item)
    <2>1. item.data \in Int
      BY DEF Items
    <2> QED
      BY <2>1 DEF GlobalRejects, PlainTags, UnsignedValue
  <1>6. Change(item) = 0 /\ b.collection_depth = b.collection_depth + 0
    BY <1>2, OpenedOne DEF Change, At
  <1>7. HostAfter(p, item) = p2 /\ ~Rejects(p, item)
    BY <1>2, <1>3, <1>4, <1>5, TagKinds
  <1> QED
    BY <1>1, <1>2, <1>6, <1>7, ReadItem DEF p, p2

(* report_size and report_count                                             *)
Used(needs, count) == [needs EXCEPT !.usages = Larger(needs.usages, count)]
Widened(needs, size) == [needs EXCEPT !.report_size = Larger(needs.report_size, size)]

LEMMA SizeRead ==
  ASSUME NEW items, NEW b, NEW g, NEW l, NEW r, NEW f, NEW item \in Items,
         At(items, b, g, l, r, f), item.tag = "report_size"
  PROVE  At(Append(items, item), b, Declare(g, item), l, Widened(r, item.data), f)
  <1> DEFINE r2 == Widened(r, item.data)
             p == ParserOf(b, g, l, r)
             q == ParserOf(b, Declare(g, item), l, r)
             p2 == ParserOf(b, Declare(g, item), l, r2)
  <1>1. f \in Seq(HostFields) /\ f \o <<>> = f
    BY DEF At
  <1>2. item.tag \in GlobalTags /\ item.tag \notin {"input", "collection", "end_collection"}
    BY DEF GlobalTags
  <1>3. /\ p.globals = g /\ p.requirements = r /\ q.requirements = r
        /\ [p EXCEPT !.globals = Declare(g, item)] = q /\ [q EXCEPT !.requirements = r2] = p2
    BY ParserOfParts, ParserOfSets
  <1> HIDE DEF p, p2, q
  <1>4. GlobalItem(p, item) = [p EXCEPT !.globals = Declare(p.globals, item),
                                        !.requirements.report_size =
                                           Larger(p.requirements.report_size, item.data)]
    BY Zenon DEF GlobalItem, UnsignedValue
  <1>5. GlobalItem(p, item) = p2
    BY <1>3, <1>4 DEF Widened
  <1>6. ~GlobalRejects(p, item)
    BY DEF GlobalRejects
  <1>7. Change(item) = 0 /\ b.collection_depth = b.collection_depth + 0
    BY <1>2, OpenedOne DEF Change, At
  <1>8. HostAfter(p, item) = p2 /\ ~Rejects(p, item)
    BY <1>2, <1>5, <1>6, TagKinds
  <1> QED
    BY <1>1, <1>2, <1>7, <1>8, ReadItem DEF p, p2

LEMMA CountRead ==
  ASSUME NEW items, NEW b, NEW g, NEW l, NEW r, NEW f, NEW item \in Items,
         At(items, b, g, l, r, f), item.tag = "report_count"
  PROVE  At(Append(items, item), b, Declare(g, item), l,
            Used(r, item.data), f)
  <1> DEFINE r2 == Used(r, item.data)
             p == ParserOf(b, g, l, r)
             q == ParserOf(b, Declare(g, item), l, r)
             p2 == ParserOf(b, Declare(g, item), l, r2)
  <1>1. f \in Seq(HostFields) /\ f \o <<>> = f
    BY DEF At
  <1>2. item.tag \in GlobalTags /\ item.tag \notin {"input", "collection", "end_collection"}
    BY DEF GlobalTags
  <1>3. /\ p.globals = g /\ p.requirements = r /\ q.requirements = r
        /\ [p EXCEPT !.globals = Declare(g, item)] = q /\ [q EXCEPT !.requirements = r2] = p2
    BY ParserOfParts, ParserOfSets
  <1> HIDE DEF p, p2, q
  <1>4. GlobalItem(p, item) = [p EXCEPT !.globals = Declare(p.globals, item),
                                        !.requirements.usages =
                                           Larger(p.requirements.usages, item.data)]
    BY Zenon DEF GlobalItem, UnsignedValue
  <1>5. GlobalItem(p, item) = p2
    BY <1>3, <1>4 DEF Used
  <1>6. ~GlobalRejects(p, item)
    BY DEF GlobalRejects
  <1>7. Change(item) = 0 /\ b.collection_depth = b.collection_depth + 0
    BY <1>2, OpenedOne DEF Change, At
  <1>8. HostAfter(p, item) = p2 /\ ~Rejects(p, item)
    BY <1>2, <1>5, <1>6, TagKinds
  <1> QED
    BY <1>1, <1>2, <1>7, <1>8, ReadItem DEF p, p2

LEMMA ParserOfIds ==
  ASSUME NEW b, NEW b2, NEW g, NEW l, NEW r, NEW q, q = ParserOf(b, g, l, r),
         NEW p, p = ParserOf(b2, g, l, r), ParsedOf(b2) = ParsedOf(b),
         b2.collection_depth = b.collection_depth, Tops(b2) = Tops(b), Top(b2) = Top(b),
         SawMain(b2) = SawMain(b)
  PROVE  [q EXCEPT !.has_report_ids = p.has_report_ids] = p
  BY DEF ParserOf, Parser

LEMMA ReportIdRead ==
  ASSUME NEW items, NEW b, NEW g, NEW l, NEW r, NEW f, NEW item \in Items,
         At(items, b, g, l, r, f), item.tag = "report_id", item.data \in Word8 \ {0},
         NEW b2, ParsedOf(b2) = ParsedOf(b), b2.collection_depth = b.collection_depth,
         Tops(b2) = Tops(b), Top(b2) = Top(b), SawMain(b2) = SawMain(b),
         b2.report_id # 0, Len(b.fields) = 0
  PROVE  At(Append(items, item), b2, Declare(g, item), l, r, f)
  <1> DEFINE p == ParserOf(b, g, l, r)
             q == ParserOf(b, Declare(g, item), l, r)
             p2 == ParserOf(b2, Declare(g, item), l, r)
  <1>1. f \in Seq(HostFields) /\ f \o <<>> = f
    BY DEF At
  <1>2. item.tag \in GlobalTags /\ item.tag \notin {"input", "collection", "end_collection"}
    BY DEF GlobalTags
  <1>3. /\ p.globals = g /\ p.saw_main_before_report_id = SawMain(b)
        /\ p2.has_report_ids = HasIds(b2) /\ [p EXCEPT !.globals = Declare(g, item)] = q
    BY ParserOfParts, ParserOfSets
  <1> HIDE DEF p, q, p2
  <1>4. [q EXCEPT !.has_report_ids = p2.has_report_ids] = p2
    BY ParserOfIds DEF q, p2
  <1>5. HasIds(b2) = TRUE /\ ~SawMain(b)
    BY DEF HasIds, SawMain
  <1>6. GlobalItem(p, item) = [p EXCEPT !.globals = Declare(p.globals, item),
                                        !.has_report_ids = TRUE]
    BY Zenon DEF GlobalItem
  <1>7. GlobalItem(p, item) = p2
    <2>1. p2.has_report_ids = TRUE
      BY <1>3, <1>5
    <2> QED
      BY <1>3, <1>4, <1>6, <2>1, Zenon
  <1>8. ~GlobalRejects(p, item)
    BY <1>3, <1>5 DEF GlobalRejects, UnsignedValue
  <1>9. Change(item) = 0 /\ b.collection_depth = b.collection_depth + 0
    BY <1>2, OpenedOne DEF Change, At
  <1>10. HostAfter(p, item) = p2 /\ ~Rejects(p, item)
    BY <1>2, <1>7, <1>8, TagKinds
  <1> QED
    BY <1>1, <1>2, <1>9, <1>10, ReadItem DEF p, p2

-----------------------------------------------------------------------------
(* Local items: a usage, or a range of them                                 *)
LEMMA LocalRead ==
  ASSUME NEW items, NEW b, NEW g, NEW l, NEW r, NEW f, NEW item \in Items,
         At(items, b, g, l, r, f), item.tag \in LocalTags, NEW l2, NEW r2,
         LocalItem(ParserOf(b, g, l, r), item) = ParserOf(b, g, l2, r2),
         ~LocalRejects(ParserOf(b, g, l, r), item)
  PROVE  At(Append(items, item), b, g, l2, r2, f)
  <1> DEFINE p == ParserOf(b, g, l, r)
             p2 == ParserOf(b, g, l2, r2)
  <1>1. f \in Seq(HostFields) /\ f \o <<>> = f
    BY DEF At
  <1>2. item.tag \notin {"input", "collection", "end_collection"}
    BY DEF LocalTags
  <1> HIDE DEF p, p2
  <1>3. Change(item) = 0 /\ b.collection_depth = b.collection_depth + 0
    BY <1>2, OpenedOne DEF Change, At
  <1>4. HostAfter(p, item) = p2 /\ ~Rejects(p, item)
    BY TagKinds DEF p, p2
  <1> QED
    BY <1>1, <1>2, <1>3, <1>4, ReadItem DEF p, p2

LEMMA LocalsParts ==
  ASSUME NEW c, NEW first, NEW size
  PROVE  /\ LocalsOf(c, first, size).usage_count = c
         /\ LocalsOf(c, first, size).usage_minimum = first
         /\ LocalsOf(c, first, size).usage_minimum_size = size
         /\ LocalsOf(c, first, size).delimiter_depth = 0
         /\ LocalsOf(c, first, size).delimiter_branch = 0
  BY DEF LocalsOf

(* CountUsages, between a Usage and a Main item.                            *)
LEMMA Counted ==
  ASSUME NEW b, NEW g, NEW first, NEW size, NEW r, NEW count
  PROVE  CountUsages(ParserOf(b, g, LocalsOf(0, first, size), r), count) =
           ParserOf(b, g, LocalsOf(0 + count, first, size),
                    Used(r, 0 + count))
  <1> DEFINE l == LocalsOf(0, first, size)
             l2 == LocalsOf(0 + count, first, size)
             r2 == Used(r, 0 + count)
             p == ParserOf(b, g, l, r)
             q == ParserOf(b, g, l2, r)
             p2 == ParserOf(b, g, l2, r2)
  <1>1. l.usage_count = 0 /\ [l EXCEPT !.usage_count = 0 + count] = l2
    BY DEF LocalsOf
  <1> HIDE DEF l, l2, r2
  <1>2. p.locals = l /\ p.requirements = r /\ q.requirements = r
    BY ParserOfParts
  <1>3. [p EXCEPT !.locals = l2] = q /\ [q EXCEPT !.requirements = r2] = p2
    BY DEF ParserOf, Parser
  <1> HIDE DEF p, q, p2
  <1>4. CountUsages(p, count) =
          [p EXCEPT !.locals = [l EXCEPT !.usage_count = 0 + count], !.requirements = r2]
    BY <1>1, <1>2 DEF CountUsages, r2, Used
  <1> QED
    BY <1>1, <1>3, <1>4 DEF l, l2, r2, p, p2

LEMMA UsageRead ==
  ASSUME NEW items, NEW b, NEW g, NEW r, NEW f, NEW item \in Items,
         At(items, b, g, LocalsOf(0, 0, 0), r, f), item.tag = "usage"
  PROVE  At(Append(items, item), b, g, LocalsOf(1, 0, 0),
            Used(r, 1), f)
  <1> DEFINE p == ParserOf(b, g, LocalsOf(0, 0, 0), r)
  <1>1. p.locals.delimiter_branch = 0
    BY ParserOfParts, LocalsParts
  <1>2. ~(p.locals.delimiter_branch > 1)
    BY <1>1
  <1>3. CountUsages(p, 1) = ParserOf(b, g, LocalsOf(1, 0, 0),
                                     Used(r, 1))
    <2>1. 0 + 1 = 1
      OBVIOUS
    <2> QED
      BY <2>1, Counted
  <1> HIDE DEF p
  <1>4. LocalItem(p, item) = CountUsages(p, 1)
    BY <1>2, Zenon DEF LocalItem
  <1>5. ~LocalRejects(p, item)
    BY DEF LocalRejects
  <1>6. item.tag \in LocalTags
    BY DEF LocalTags
  <1> QED
    BY <1>3, <1>4, <1>5, <1>6, LocalRead DEF p

LEMMA UsageMinimumRead ==
  ASSUME NEW items, NEW b, NEW g, NEW r, NEW f, NEW item \in Items,
         At(items, b, g, LocalsOf(0, 0, 0), r, f), item.tag = "usage_minimum"
  PROVE  At(Append(items, item), b, g, LocalsOf(0, item.data, item.bytes), r, f)
  <1> DEFINE l == LocalsOf(0, 0, 0)
             l1 == LocalsOf(0, item.data, 0)
             l2 == LocalsOf(0, item.data, item.bytes)
             p == ParserOf(b, g, l, r)
             q == ParserOf(b, g, l1, r)
             p2 == ParserOf(b, g, l2, r)
  <1>1. /\ [l EXCEPT !.usage_minimum = item.data] = l1
        /\ [l1 EXCEPT !.usage_minimum_size = item.bytes] = l2
    BY DEF LocalsOf
  <1>2. l.delimiter_branch = 0
    BY LocalsParts
  <1> HIDE DEF l, l1, l2
  <1>3. p.locals = l /\ q.locals = l1
    BY ParserOfParts
  <1>4. [p EXCEPT !.locals = l1] = q /\ [q EXCEPT !.locals = l2] = p2
    BY DEF ParserOf, Parser
  <1> HIDE DEF p, q, p2
  <1>5. ~(p.locals.delimiter_branch > 1)
    BY <1>2, <1>3
  <1>6. LocalItem(p, item) = [p EXCEPT !.locals.usage_minimum = item.data,
                                       !.locals.usage_minimum_size = item.bytes]
    BY <1>5, Zenon DEF LocalItem, UnsignedValue
  <1>7. LocalItem(p, item) = p2
    BY <1>1, <1>3, <1>4, <1>6
  <1>8. ~LocalRejects(p, item)
    BY DEF LocalRejects
  <1>9. item.tag \in LocalTags
    BY DEF LocalTags
  <1> QED
    BY <1>7, <1>8, <1>9, LocalRead DEF p, p2, l, l2

LEMMA UsageMaximumRead ==
  ASSUME NEW items, NEW b, NEW g, NEW first \in Nat, NEW size, size # 4, NEW r, NEW f,
         NEW item \in Items, At(items, b, g, LocalsOf(0, first, size), r, f),
         item.tag = "usage_maximum", first <= item.data
  PROVE  At(Append(items, item), b, g, LocalsOf(item.data - first + 1, first, size),
            Used(r, item.data - first + 1), f)
  <1> DEFINE l == LocalsOf(0, first, size)
             count == item.data - first + 1
             p == ParserOf(b, g, l, r)
  <1>0. item.data \in Int
    BY DEF Items
  <1>1. /\ p.locals = l /\ l.delimiter_branch = 0 /\ l.delimiter_depth = 0
        /\ l.usage_minimum = first /\ l.usage_minimum_size = size
    BY ParserOfParts, LocalsParts
  <1>2. ~(p.locals.delimiter_branch > 1)
    BY <1>1
  <1>3. CountUsages(p, count) =
          ParserOf(b, g, LocalsOf(count, first, size),
                   Used(r, count))
    <2>1. 0 + count = count
      BY <1>0
    <2> HIDE DEF count
    <2> QED
      BY <2>1, Counted
  <1> HIDE DEF p, l
  <1>4. LocalItem(p, item) = CountUsages(p, item.data - p.locals.usage_minimum + 1)
    BY <1>2, Zenon DEF LocalItem, UnsignedValue
  <1>5. ~LocalRejects(p, item)
    BY <1>0, <1>1 DEF LocalRejects, UnsignedValue, UnsignedLE
  <1>6. item.tag \in LocalTags
    BY DEF LocalTags
  <1> QED
    BY <1>1, <1>3, <1>4, <1>5, <1>6, LocalRead DEF p, l

-----------------------------------------------------------------------------
(* Main items end the Local environment.                                    *)
Ended(p, count) == [p EXCEPT !.locals = NoLocals, !.requirements.usages = Larger(@, count)]

LEMMA LocalsEnd ==
  ASSUME NEW b, NEW g, NEW l, NEW r, NEW q, q = ParserOf(b, g, l, r), NEW count
  PROVE  /\ [q EXCEPT !.locals = NoLocals] = ParserOf(b, g, LocalsOf(0, 0, 0), r)
         /\ Ended(q, count) = ParserOf(b, g, LocalsOf(0, 0, 0), Used(r, count))
  <1> DEFINE l0 == LocalsOf(0, 0, 0)
             r2 == [r EXCEPT !.usages = Larger(r.usages, count)]
             q0 == ParserOf(b, g, l0, r)
             q2 == ParserOf(b, g, l0, r2)
  <1>1. NoLocals = l0
    BY DEF NoLocals, LocalsOf
  <1> HIDE DEF l0
  <1>2. [q EXCEPT !.locals = l0] = q0 /\ q.requirements = r
    BY DEF ParserOf, Parser
  <1>3. q0.requirements = r
    BY ParserOfParts
  <1> HIDE DEF r2
  <1>4. [q0 EXCEPT !.requirements = r2] = q2
    BY DEF ParserOf, Parser
  <1> HIDE DEF q0, q2
  <1>5. [q EXCEPT !.locals = NoLocals, !.requirements.usages = Larger(@, count)] =
          [[q EXCEPT !.locals = l0] EXCEPT !.requirements = r2]
    BY <1>1, <1>2, <1>3 DEF r2
  <1> QED
    BY <1>1, <1>2, <1>4, <1>5 DEF q0, q2, r2, l0, Ended, Used

LEMMA MainRead ==
  ASSUME NEW items, NEW b, NEW g, NEW l, NEW r, NEW f, NEW item \in Items,
         At(items, b, g, l, r, f), item.tag \in MainTags,
         NEW b2, NEW r2, NEW f2 \in Seq(HostFields), NEW next,
         next = ParserOf(b2, g, l, r2),
         item.tag = "collection" => OpenCollection(ParserOf(b, g, l, r)) = next,
         item.tag = "end_collection" => CloseCollection(ParserOf(b, g, l, r)) = next,
         item.tag = "input" => InputItem(ParserOf(b, g, l, r)) = next,
         ~MainRejects(ParserOf(b, g, l, r), item),
         f2 = f \o IF item.tag = "input" THEN FieldsOfInput(ParserOf(b, g, l, r), item)
                   ELSE <<>>,
         b2.collection_depth = b.collection_depth + Change(item)
  PROVE  At(Append(items, item), b2, g, LocalsOf(0, 0, 0), Used(r2, l.usage_count), f2)
  <1> DEFINE p == ParserOf(b, g, l, r)
             r3 == Used(r2, l.usage_count)
             p2 == ParserOf(b2, g, LocalsOf(0, 0, 0), r3)
  <1>1. p.locals = l
    BY ParserOfParts
  <1>2. Ended(next, l.usage_count) = p2
    BY LocalsEnd
  <1> HIDE DEF p, p2
  <1>3. MainItem(p, item) = Ended(next, l.usage_count)
    <2>1. CASE item.tag = "collection"
      <3>1. OpenCollection(p) = next
        BY <2>1 DEF p
      <3> QED
        BY <1>1, <2>1, <3>1, Zenon DEF MainItem, Ended
    <2>2. CASE item.tag = "end_collection"
      <3>1. CloseCollection(p) = next
        BY <2>2 DEF p
      <3> QED
        BY <1>1, <2>2, <3>1, Zenon DEF MainItem, Ended
    <2>3. CASE item.tag = "input"
      <3>1. InputItem(p) = next
        BY <2>3 DEF p
      <3> QED
        BY <1>1, <2>3, <3>1, Zenon DEF MainItem, Ended
    <2> QED
      BY <2>1, <2>2, <2>3 DEF MainTags
  <1>4. HostAfter(p, item) = p2 /\ ~Rejects(p, item)
    BY <1>2, <1>3, TagKinds DEF p
  <1> QED
    BY <1>4, ReadItem DEF p, p2

LEMMA CollectionRead ==
  ASSUME NEW items, NEW b, NEW g, NEW r, NEW f, NEW item \in Items,
         At(items, b, g, LocalsOf(1, 0, 0), r, f), item.tag = "collection",
         item.data \in {0, 1, 2}, b.collection_depth \in Nat,
         b.collection_depth = 0 => item.data = 1 /\ ~b.top_level_application_seen,
         b.collection_depth # 0 => b.top_level_application_seen,
         NEW b2, b2.collection_depth = b.collection_depth + 1, b2.top_level_application_seen,
         ParsedOf(b2) = ParsedOf(b), HasIds(b2) = HasIds(b), SawMain(b2) = SawMain(b)
  PROVE  At(Append(items, item), b2, g, LocalsOf(0, 0, 0), Used(r, 1), f)
  <1> DEFINE l == LocalsOf(1, 0, 0)
             p == ParserOf(b, g, l, r)
             next == ParserOf(b2, g, l, r)
  <1>1. f \in Seq(HostFields) /\ f \o <<>> = f
    BY DEF At
  <1>2. l.usage_count = 1 /\ l.delimiter_depth = 0 /\ l.delimiter_branch = 0
    BY LocalsParts
  <1> HIDE DEF l
  <1>3. /\ p.locals = l /\ p.collection_depth = b.collection_depth
        /\ p.top_level_count = Tops(b)
    BY ParserOfParts
  <1>4. Tops(b2) = 1 /\ Top(b2) = 1
    BY DEF Tops, Top
  <1>5. OpenCollection(p) = next
    <2>1. CASE b.collection_depth = 0
      <3>1. Tops(b) = 0
        BY <2>1 DEF Tops
      <3>2. OpenCollection(p) = [p EXCEPT !.collection_depth = 1, !.top_level_count = 1,
                                          !.current_top_level = 1]
        <4> HIDE DEF p
        <4>1. p.collection_depth = 0 /\ p.top_level_count = 0
          BY <1>3, <2>1, <3>1
        <4>2. OpenCollection(p) = [p EXCEPT !.collection_depth = 1, !.top_level_count = 0 + 1,
                                          !.current_top_level = 0 + 1]
          BY <4>1, Zenon DEF OpenCollection
        <4>3. 0 + 1 = 1
          OBVIOUS
        <4> QED
          BY <4>2, <4>3, Zenon
      <3>3. b2.collection_depth = 1
        BY <2>1
      <3> QED
        BY <1>4, <3>2, <3>3 DEF ParserOf, Parser
    <2>2. CASE b.collection_depth # 0
      <3>1. Tops(b) = 1 /\ Top(b) = 1
        BY <2>2 DEF Tops, Top
      <3>2. OpenCollection(p) = [p EXCEPT !.collection_depth = b2.collection_depth]
        <4> HIDE DEF p
        <4>1. p.collection_depth + 1 = b2.collection_depth
          BY <1>3
        <4>2. OpenCollection(p) = [p EXCEPT !.collection_depth = p.collection_depth + 1]
          BY <1>3, <2>2, Zenon DEF OpenCollection
        <4> QED
          BY <4>1, <4>2
      <3> QED
        BY <1>4, <3>1, <3>2 DEF ParserOf, Parser
    <2> QED
      BY <2>1, <2>2
  <1> HIDE DEF p, next
  <1>6. ~MainRejects(p, item)
    <2>1. item.data \in Word8 /\ ~(item.data > 6)
      BY SpanIs DEF Word8
    <2> QED
      BY <1>2, <1>3, <2>1 DEF MainRejects, UnsignedValue
  <1>7. /\ Change(item) = 1 /\ item.tag \in MainTags
        /\ item.tag # "input" /\ item.tag # "end_collection"
    BY DEF Change, MainTags
  <1>8. At(Append(items, item), b2, g, LocalsOf(0, 0, 0), Used(r, l.usage_count), f)
    BY <1>1, <1>5, <1>6, <1>7, MainRead DEF p, next, l
  <1> QED
    BY <1>2, <1>8

Moved(p, q) == [p EXCEPT !.collection_depth = q.collection_depth,
                         !.current_top_level = q.current_top_level]

LEMMA MovedOut ==
  ASSUME NEW b, NEW b2, NEW g, NEW l, NEW r, ParsedOf(b2) = ParsedOf(b), Tops(b2) = Tops(b),
         HasIds(b2) = HasIds(b), SawMain(b2) = SawMain(b),
         NEW p, p = ParserOf(b, g, l, r), NEW p2, p2 = ParserOf(b2, g, l, r)
  PROVE  Moved(p, p2) = p2
  <1> DEFINE q == Parser(g, l, ParsedOf(b), p2.collection_depth, Tops(b), Top(b), HasIds(b),
                         SawMain(b), r)
  <1>1. [p EXCEPT !.collection_depth = p2.collection_depth] = q
    BY DEF ParserOf, Parser
  <1>2. [q EXCEPT !.current_top_level = p2.current_top_level] = p2
    BY DEF ParserOf, Parser
  <1> HIDE DEF q
  <1> QED
    BY <1>1, <1>2 DEF Moved

LEMMA EndRead ==
  ASSUME NEW items, NEW b, NEW g, NEW r \in NeedTypes, NEW f, NEW item \in Items,
         At(items, b, g, LocalsOf(0, 0, 0), r, f), item.tag = "end_collection",
         b.collection_depth \in Nat \ {0}, b.top_level_application_seen,
         NEW b2, b2.collection_depth = b.collection_depth - 1, b2.top_level_application_seen,
         ParsedOf(b2) = ParsedOf(b), HasIds(b2) = HasIds(b), SawMain(b2) = SawMain(b)
  PROVE  At(Append(items, item), b2, g, LocalsOf(0, 0, 0), r, f)
  <1> DEFINE l == LocalsOf(0, 0, 0)
             p == ParserOf(b, g, l, r)
             next == ParserOf(b2, g, l, r)
  <1>1. f \in Seq(HostFields) /\ f \o <<>> = f
    BY DEF At
  <1>2. l.usage_count = 0 /\ l.delimiter_depth = 0
    BY LocalsParts
  <1> HIDE DEF l
  <1>3. /\ p.locals = l /\ p.collection_depth = b.collection_depth
        /\ p.current_top_level = Top(b)
    BY ParserOfParts
  <1>4. Tops(b2) = Tops(b) /\ Top(b) = 1
    BY DEF Tops, Top
  <1> HIDE DEF p, next
  <1>5. CloseCollection(p) = next
    <2>1. p.collection_depth - 1 = next.collection_depth
      BY <1>3, ParserOfParts DEF next
    <2>2. (IF p.collection_depth = 1 THEN 0 ELSE p.current_top_level) = next.current_top_level
      <3>1. next.current_top_level = Top(b2)
        BY ParserOfParts DEF next
      <3> QED
        BY <1>3, <1>4, <3>1 DEF Top
    <2>3. Moved(p, next) = next
      BY <1>4, MovedOut DEF p, next
    <2> QED
      BY <2>1, <2>2, <2>3 DEF CloseCollection, Moved
  <1>6. ~MainRejects(p, item)
    BY <1>2, <1>3 DEF MainRejects
  <1>7. Change(item) = -1 /\ item.tag # "input" /\ item.tag # "collection" /\ item.tag \in MainTags
    BY DEF Change, MainTags
  <1>8. At(Append(items, item), b2, g, LocalsOf(0, 0, 0), Used(r, l.usage_count), f)
    BY <1>1, <1>5, <1>6, <1>7, MainRead DEF p, next, l
  <1>9. Used(r, 0) = r
    BY DEF Used, Larger, NeedTypes
  <1> QED
    BY <1>2, <1>8, <1>9

LEMMA FeatureRead ==
  ASSUME NEW items, NEW b, NEW g, NEW l, NEW r, NEW f, NEW item \in Items,
         At(items, b, g, l, r, f), item.tag = "feature"
  PROVE  At(Append(items, item), b, g, LocalsOf(0, 0, 0), r, f)
  <1> DEFINE p == ParserOf(b, g, l, r)
             p2 == ParserOf(b, g, LocalsOf(0, 0, 0), r)
  <1>1. f \in Seq(HostFields) /\ f \o <<>> = f
    BY DEF At
  <1>2. [p EXCEPT !.locals = NoLocals] = p2
    BY LocalsEnd
  <1> HIDE DEF p, p2
  <1>3. HostAfter(p, item) = p2
    BY <1>2 DEF HostAfter
  <1>4. Change(item) = 0 /\ b.collection_depth = b.collection_depth + 0
    BY OpenedOne DEF Change, At
  <1> QED
    BY <1>1, <1>3, <1>4, ReadItem DEF p, p2

-----------------------------------------------------------------------------
(* Input items: the report grows by fields the host can place.              *)
Grown(needs, fields, bits) ==
  [needs EXCEPT !.fields = Larger(needs.fields, fields),
                !.data_bits = Larger(needs.data_bits, bits)]

(* b2 is b with one more Input item of this size, count and number of usages. *)
More(b, b2, size, count, usages) ==
  /\ Len(b2.fields) # 0 /\ b2.report_id = b.report_id
  /\ b2.collection_depth = b.collection_depth
  /\ b2.top_level_application_seen = b.top_level_application_seen
  /\ b2.data_bits.input = b.data_bits.input + size * count
  /\ b2.data_fields.input = b.data_fields.input + IF usages # 0 THEN 1 ELSE 0

(* Without a field the builder has counted nothing. *)
Empty(b) == Len(b.fields) = 0 => b.data_bits.input = 0 /\ b.data_fields.input = 0

LEMMA BitsRead ==
  ASSUME NEW b, Empty(b), NEW g, NEW l, NEW r, NEW p, p = ParserOf(b, g, l, r)
  PROVE  ReportBits(p, b.report_id) = b.data_bits.input
  <1>1. p.parsed = ParsedOf(b)
    BY ParserOfParts
  <1>2. CASE Len(b.fields) = 0
    BY <1>1, <1>2 DEF ReportBits, ParsedOf, Empty
  <1>3. CASE Len(b.fields) # 0
    BY <1>1, <1>3 DEF ReportBits, ParsedOf
  <1> QED
    BY <1>2, <1>3

ParsedAfter(p) ==
  LET id == p.globals.value["report_id"]
      grown == Extended(p)
  IN  [i \in DOMAIN p.parsed \union {id} |-> IF i = id THEN grown ELSE p.parsed[i]]

LEMMA ReportGrows ==
  ASSUME NEW b, Empty(b), NEW g, NEW l, NEW r, NEW p, p = ParserOf(b, g, l, r),
         g.value["report_id"] = b.report_id, b.collection_depth # 0,
         NEW b2, More(b, b2, g.value["report_size"], g.value["report_count"], l.usage_count)
  PROVE  /\ Extended(p) = [bits |-> b2.data_bits.input, fields |-> b2.data_fields.input,
                           top_level |-> 1]
         /\ ParsedOf(b2) = ParsedAfter(p)
  <1>1. /\ p.parsed = ParsedOf(b) /\ p.globals = g /\ p.locals = l /\ p.current_top_level = 1
    <2>1. Top(b) = 1
      BY DEF Top
    <2> QED
      BY <2>1, ParserOfParts
  <1>2. ReportBits(p, b.report_id) = b.data_bits.input
    BY BitsRead
  <1>3. (IF b.report_id \in DOMAIN p.parsed THEN p.parsed[b.report_id].fields ELSE 0) =
          b.data_fields.input
    <2>1. CASE Len(b.fields) = 0
      BY <1>1, <2>1 DEF ParsedOf, Empty
    <2>2. CASE Len(b.fields) # 0
      BY <1>1, <2>2 DEF ParsedOf
    <2> QED
      BY <2>1, <2>2
  <1>4. Extended(p) = [bits |-> b2.data_bits.input, fields |-> b2.data_fields.input,
                       top_level |-> 1]
    BY <1>1, <1>2, <1>3 DEF Extended, More
  <1>5. DOMAIN p.parsed \union {b.report_id} = {b.report_id}
    BY <1>1 DEF ParsedOf
  <1>6. Len(b2.fields) # 0 /\ b2.report_id = b.report_id
    BY DEF More
  <1>7. ParsedOf(b2) = [i \in {b.report_id} |->
                          [bits |-> b2.data_bits.input, fields |-> b2.data_fields.input,
                           top_level |-> 1]]
    BY <1>6 DEF ParsedOf
  <1>8. ParsedAfter(p) = [i \in {b.report_id} |-> Extended(p)]
    <2> HIDE DEF Extended
    <2> QED
      BY <1>1, <1>5 DEF ParsedAfter
  <1> QED
    BY <1>4, <1>7, <1>8

Recorded(p, q) ==
  [p EXCEPT !.parsed = q.parsed, !.saw_main_before_report_id = q.saw_main_before_report_id,
            !.requirements = q.requirements]

LEMMA RecordedIs ==
  ASSUME NEW b, NEW b2, NEW g, NEW l, NEW r, NEW r2,
         b2.collection_depth = b.collection_depth, Tops(b2) = Tops(b), Top(b2) = Top(b),
         HasIds(b2) = HasIds(b),
         NEW p, p = ParserOf(b, g, l, r), NEW p2, p2 = ParserOf(b2, g, l, r2)
  PROVE  Recorded(p, p2) = p2
  <1> DEFINE q == Parser(g, l, p2.parsed, b.collection_depth, Tops(b), Top(b), HasIds(b),
                         SawMain(b), r)
             q2 == Parser(g, l, p2.parsed, b.collection_depth, Tops(b), Top(b), HasIds(b),
                         p2.saw_main_before_report_id, r)
  <1>1. [p EXCEPT !.parsed = p2.parsed] = q
    BY DEF ParserOf, Parser
  <1>2. [q EXCEPT !.saw_main_before_report_id = p2.saw_main_before_report_id] = q2
    BY DEF Parser
  <1>3. [q2 EXCEPT !.requirements = p2.requirements] = p2
    BY DEF ParserOf, Parser
  <1> HIDE DEF q, q2
  <1> QED
    BY <1>1, <1>2, <1>3 DEF Recorded

LEMMA InputItemIs ==
  ASSUME NEW b, Empty(b), NEW g, NEW l, NEW r,
         g.value["report_id"] = b.report_id, b.collection_depth # 0,
         NEW b2, More(b, b2, g.value["report_size"], g.value["report_count"], l.usage_count)
  PROVE  InputItem(ParserOf(b, g, l, r)) =
           ParserOf(b2, g, l, Grown(r, b2.data_fields.input, b2.data_bits.input))
  <1> DEFINE p == ParserOf(b, g, l, r)
             r2 == Grown(r, b2.data_fields.input, b2.data_bits.input)
             p2 == ParserOf(b2, g, l, r2)
  <1>1. /\ b2.collection_depth = b.collection_depth /\ Tops(b2) = Tops(b) /\ Top(b2) = Top(b)
        /\ HasIds(b2) = HasIds(b) /\ SawMain(b2) = (SawMain(b) \/ ~HasIds(b))
    BY DEF More, Tops, Top, HasIds, SawMain
  <1> HIDE DEF p, r2, p2
  <1>2. Recorded(p, p2) = p2
    BY <1>1, RecordedIs DEF p, p2
  <1>3. /\ p.globals = g /\ p.requirements = r /\ p.has_report_ids = HasIds(b)
        /\ p.saw_main_before_report_id = SawMain(b)
        /\ p2.parsed = ParsedOf(b2) /\ p2.requirements = r2
        /\ p2.saw_main_before_report_id = SawMain(b2)
    BY ParserOfParts DEF p, p2
  <1>4. (p.saw_main_before_report_id \/ ~p.has_report_ids) = p2.saw_main_before_report_id
    BY <1>1, <1>3
  <1>5. /\ Extended(p).bits = b2.data_bits.input /\ Extended(p).fields = b2.data_fields.input
        /\ p2.parsed = ParsedAfter(p)
    BY <1>3, ReportGrows DEF p
  <1>6. InputItem(p) =
          [p EXCEPT !.parsed = ParsedAfter(p),
                    !.saw_main_before_report_id =
                      p.saw_main_before_report_id \/ ~p.has_report_ids,
                    !.requirements.fields = Larger(@, Extended(p).fields),
                    !.requirements.data_bits = Larger(@, Extended(p).bits)]
    BY Zenon DEF InputItem, ParsedAfter
  <1>8. @ =
          [p EXCEPT !.parsed = p2.parsed,
                    !.saw_main_before_report_id = p2.saw_main_before_report_id,
                    !.requirements.fields = Larger(@, b2.data_fields.input),
                    !.requirements.data_bits = Larger(@, b2.data_bits.input)]
    BY <1>4, <1>5, Zenon
  <1>7. @ = Recorded(p, p2)
    BY <1>3 DEF Recorded, r2, Grown
  <1> QED
    BY <1>2, <1>6, <1>7, <1>8 DEF p, r2, p2

LEMMA FlagsAre ==
  ASSUME NEW x \in {1, 2, 6, 34, 66}
  PROVE  /\ DefinedFlags(x) /\ ~BufferedBytes(x)
         /\ (Constant(x) <=> x = 1) /\ (Flag(x, 64) <=> x = 66)
  <1>1. 2 * Byte - 1 = 511
    BY DEF Byte
  <1>2. x \in 0..2 * Byte - 1
    BY <1>1
  <1>3. ~Flag(x, 128)
    BY DEF Flag
  <1>4. ~BufferedBytes(x)
    BY DEF BufferedBytes, Flag
  <1>5. Constant(x) <=> x = 1
    BY DEF Constant, Flag
  <1>6. Flag(x, 64) <=> x = 66
    BY DEF Flag
  <1> QED
    BY <1>2, <1>3, <1>4, <1>5, <1>6 DEF DefinedFlags

Extensive == {"usage_page", "logical_minimum", "logical_maximum"}
Measured == {"logical_minimum", "logical_maximum", "physical_minimum", "physical_maximum",
             "unit_exponent"}

(* The Global items in force admit an Input item with these flags.          *)
Admits(b, g, usages, flags) ==
  LET v == g.value IN
  /\ v["report_id"] = b.report_id
  /\ v["report_size"] \in 1..32 /\ v["report_count"] \in Nat \ {0}
  /\ v["unit"] # 0 => Measured \subseteq g.declared
  /\ RawRangeIsOrdered(v["logical_minimum"], v["logical_maximum"])
  /\ flags \in {1, 2, 6, 34, 66}
  /\ flags # 1 =>
       /\ Extensive \subseteq g.declared /\ usages # 0
       /\ RawValueFits(v["logical_minimum"], v["logical_maximum"], v["report_size"])
  /\ FieldSpanIsValid(b.data_bits.input, v["report_size"], v["report_count"])

LEMMA InputAccepted ==
  ASSUME NEW b, Empty(b), b.collection_depth # 0, NEW g, NEW usages, NEW first, NEW size,
         NEW r, NEW item \in Items, item.tag = "input", Admits(b, g, usages, item.data)
  PROVE  ~MainRejects(ParserOf(b, g, LocalsOf(usages, first, size), r), item)
  <1> DEFINE l == LocalsOf(usages, first, size)
             p == ParserOf(b, g, l, r)
             v == g.value
  <1>1. /\ l.usage_count = usages /\ l.delimiter_depth = 0 /\ l.delimiter_branch = 0
    BY LocalsParts
  <1>2. /\ p.globals = g /\ p.locals = l /\ p.parsed = ParsedOf(b)
        /\ p.collection_depth = b.collection_depth /\ p.current_top_level = Top(b)
        /\ p.has_report_ids = HasIds(b)
    BY ParserOfParts
  <1>3. ReportBits(p, b.report_id) = b.data_bits.input
    BY BitsRead
  <1>4. Top(b) = 1
    BY DEF Top
  <1>5. b.report_id \in DOMAIN p.parsed => p.parsed[b.report_id].top_level = 1
    BY <1>2 DEF ParsedOf
  <1> HIDE DEF l, p
  <1> DEFINE flags == item.data
  <1>6. DefinedFlags(flags) /\ ~BufferedBytes(flags) /\ (Constant(flags) <=> flags = 1)
    BY FlagsAre DEF Admits
  <1> HIDE DEF flags
  <1>7. /\ v["report_id"] = b.report_id
        /\ v["report_size"] \in 1..32 /\ v["report_count"] # 0
        /\ v["unit"] # 0 => Measured \subseteq g.declared
        /\ RawRangeIsOrdered(v["logical_minimum"], v["logical_maximum"])
        /\ flags # 1 =>
             /\ Extensive \subseteq g.declared /\ usages # 0
             /\ RawValueFits(v["logical_minimum"], v["logical_maximum"], v["report_size"])
        /\ FieldSpanIsValid(b.data_bits.input, v["report_size"], v["report_count"])
    BY DEF Admits, flags
  <1> HIDE DEF v
  <1>8. ~(p.has_report_ids /\ v["report_id"] = 0)
    BY <1>2, <1>7 DEF HasIds
  <1>9. p.globals.value = v /\ p.globals.declared = g.declared /\ UnsignedValue(item) = flags
    BY <1>2 DEF v, flags, UnsignedValue
  <1>10. ~InputRejects(p, item)
    BY <1>1, <1>2, <1>3, <1>4, <1>5, <1>6, <1>7, <1>8, <1>9, Zenon
       DEF InputRejects, Measured, Extensive
  <1>11. ~MainRejects(p, item)
    BY <1>1, <1>2, <1>10 DEF MainRejects
  <1> QED
    BY <1>11 DEF p, l

-----------------------------------------------------------------------------
(* The fields the host finds *)
FirstOf(b) == b.data_bits.input + IF b.report_id # 0 THEN 8 ELSE 0

FieldAt(v, flags, offset) ==
  [offset |-> offset, width |-> v["report_size"], constant |-> Constant(flags),
   null_state |-> Flag(flags, 64), minimum |-> v["logical_minimum"],
   maximum |-> v["logical_maximum"],
   physical |-> <<v["physical_minimum"], v["physical_maximum"],
                  SignedNibble(v["unit_exponent"]), v["unit"]>>]

FieldsAt(v, flags, first, count) ==
  [k \in 1..count |-> FieldAt(v, flags, first + (k - 1) * v["report_size"])]

LEMMA FieldAtType ==
  ASSUME NEW v \in Values, NEW flags, NEW offset \in Int
  PROVE  FieldAt(v, flags, offset) \in HostFields
  <1> DEFINE physical == <<v["physical_minimum"], v["physical_maximum"],
                           SignedNibble(v["unit_exponent"]), v["unit"]>>
  <1>1. /\ v["report_size"] \in Int /\ v["logical_minimum"] \in Int
        /\ v["logical_maximum"] \in Int /\ v["physical_minimum"] \in Int
        /\ v["physical_maximum"] \in Int /\ v["unit_exponent"] \in Int /\ v["unit"] \in Int
    BY DEF Values, GlobalTags
  <1>2. SignedNibble(v["unit_exponent"]) \in Int
    BY <1>1 DEF SignedNibble
  <1>3. physical \in Seq(Int)
    BY <1>1, <1>2
  <1>4. Constant(flags) \in BOOLEAN /\ Flag(flags, 64) \in BOOLEAN
    BY DEF Constant, Flag
  <1> HIDE DEF physical
  <1>5. FieldAt(v, flags, offset) =
          [offset |-> offset, width |-> v["report_size"], constant |-> Constant(flags),
           null_state |-> Flag(flags, 64), minimum |-> v["logical_minimum"],
           maximum |-> v["logical_maximum"], physical |-> physical]
    BY DEF FieldAt, physical
  <1> QED
    BY <1>1, <1>3, <1>4, <1>5 DEF HostFields

LEMMA FieldsRead ==
  ASSUME NEW b, Empty(b), b.data_bits.input \in Nat, NEW g,
         g.value["report_id"] = b.report_id, NEW l, NEW r, NEW item, NEW p,
         p = ParserOf(b, g, l, r)
  PROVE  FieldsOfInput(p, item) =
           FieldsAt(g.value, item.data, FirstOf(b), g.value["report_count"])
  <1>1. p.globals = g /\ p.has_report_ids = HasIds(b)
    BY ParserOfParts
  <1>2. ReportBits(p, b.report_id) = b.data_bits.input
    BY BitsRead
  <1>3. ReportBits(p, p.globals.value["report_id"]) + (IF p.has_report_ids THEN 8 ELSE 0) =
          FirstOf(b)
    BY <1>1, <1>2 DEF FirstOf, HasIds
  <1>4. FieldsOfInput(p, item) =
          FieldsAt(p.globals.value, UnsignedValue(item),
                   ReportBits(p, p.globals.value["report_id"])
                     + (IF p.has_report_ids THEN 8 ELSE 0),
                   p.globals.value["report_count"])
    BY Zenon DEF FieldsOfInput, FieldAt, FieldsAt
  <1> QED
    BY <1>1, <1>3, <1>4, Zenon DEF UnsignedValue

LEMMA FieldsType ==
  ASSUME NEW first \in Int, NEW v \in Values, NEW count \in Nat, NEW flags,
         NEW fields, fields = FieldsAt(v, flags, first, count)
  PROVE  /\ fields \in Seq(HostFields) /\ Len(fields) = count
         /\ \A k \in 1..count :
              fields[k] = FieldAt(v, flags, first + (k - 1) * v["report_size"])
  <1>1. v["report_size"] \in Int
    BY DEF Values, GlobalTags
  <1>2. \A k \in 1..count : first + (k - 1) * v["report_size"] \in Int
    BY <1>1
  <1>3. \A k \in 1..count :
          /\ fields[k] \in HostFields
          /\ fields[k] = FieldAt(v, flags, first + (k - 1) * v["report_size"])
    BY <1>2, FieldAtType DEF FieldsAt
  <1>4. fields = [k \in 1..count |-> fields[k]]
    BY DEF FieldsAt
  <1> QED
    BY <1>3, <1>4

LEMMA InputRead ==
  ASSUME NEW items, NEW b, NEW g, NEW usages, NEW first, NEW size, NEW r, NEW f,
         NEW item \in Items, At(items, b, g, LocalsOf(usages, first, size), r, f),
         item.tag = "input", Empty(b), b.data_bits.input \in Nat, g.value \in Values,
         b.collection_depth # 0, b.collection_depth \in Nat,
         Admits(b, g, usages, item.data),
         NEW b2, More(b, b2, g.value["report_size"], g.value["report_count"], usages),
         NEW fields,
         fields = FieldsAt(g.value, item.data, FirstOf(b), g.value["report_count"])
  PROVE  At(Append(items, item), b2, g, LocalsOf(0, 0, 0),
            Used(Grown(r, b2.data_fields.input, b2.data_bits.input), usages), f \o fields)
  <1> DEFINE l == LocalsOf(usages, first, size)
             r2 == Grown(r, b2.data_fields.input, b2.data_bits.input)
             p == ParserOf(b, g, l, r)
             next == ParserOf(b2, g, l, r2)
  <1>1. l.usage_count = usages
    BY LocalsParts
  <1>2. g.value["report_id"] = b.report_id /\ g.value["report_count"] \in Nat
    BY DEF Admits
  <1>3. ~MainRejects(p, item)
    BY InputAccepted
  <1> HIDE DEF l, r2
  <1>4. InputItem(p) = next
    BY <1>1, <1>2, InputItemIs DEF r2
  <1>5. FieldsOfInput(p, item) = fields
    BY <1>2, FieldsRead
  <1> HIDE DEF p, next
  <1>6. fields \in Seq(HostFields)
    <2>1. FirstOf(b) \in Int
      BY DEF FirstOf
    <2> QED
      BY <1>2, <2>1, FieldsType
  <1>7. f \o fields \in Seq(HostFields)
    BY <1>6 DEF At
  <1>8. /\ Change(item) = 0 /\ item.tag # "collection" /\ item.tag # "end_collection"
        /\ item.tag \in MainTags /\ b2.collection_depth = b.collection_depth + 0
    BY DEF Change, MainTags, More
  <1>9. At(Append(items, item), b2, g, LocalsOf(0, 0, 0), Used(r2, l.usage_count), f \o fields)
    BY <1>3, <1>4, <1>5, <1>7, <1>8, MainRead DEF p, next, l
  <1> QED
    BY <1>1, <1>9 DEF r2

-----------------------------------------------------------------------------
(* Groups of items the builder writes together                              *)
Put(g, tag, x) ==
  [value |-> [g.value EXCEPT ![tag] = x], declared |-> g.declared \union {tag}]

LEMMA PutIs ==
  ASSUME NEW g, g.value \in Values, NEW tag \in GlobalTags, NEW x \in Int,
         NEW g2, g2 = Put(g, tag, x)
  PROVE  /\ g2.value \in Values /\ g2.value[tag] = x
         /\ \A other \in GlobalTags : other # tag => g2.value[other] = g.value[other]
         /\ g2.declared = g.declared \union {tag}
  BY DEF Put, Values

UnsignedTags == {"usage_page", "unit_exponent", "unit", "report_size", "report_id",
                 "report_count"}

LEMMA DeclareUnsigned ==
  ASSUME NEW g, NEW item, item.tag \in UnsignedTags
  PROVE  Declare(g, item) = Put(g, item.tag, item.data)
  <1>1. GlobalValue(g, item) = item.data
    BY DEF GlobalValue, UnsignedTags, UnsignedValue
  <1> QED
    BY <1>1 DEF Declare, Put

LEMMA DeclareMinimum ==
  ASSUME NEW g, NEW tag \in {"logical_minimum", "physical_minimum"}, NEW x \in Int
  PROVE  Declare(g, SignedItem(tag, x)) = Put(g, tag, x)
  <1>1. tag \in Tags
    BY DEF Tags, GlobalTags
  <1> DEFINE item == SignedItem(tag, x)
  <1>2. item.tag = tag /\ SignedValue(item) = x
    BY <1>1, SignedReadBack
  <1> HIDE DEF item
  <1>3. GlobalValue(g, item) = x
    BY <1>2 DEF GlobalValue
  <1> QED
    BY <1>2, <1>3 DEF Declare, Put, item

LEMMA DeclareMaximum ==
  ASSUME NEW g, NEW tag, NEW minimum,
         \/ tag = "logical_maximum" /\ minimum = "logical_minimum"
         \/ tag = "physical_maximum" /\ minimum = "physical_minimum",
         g.value[minimum] \in Int, NEW x \in Int, g.value[minimum] <= x
  PROVE  Declare(g, MaximumItem(tag, x, g.value[minimum])) = Put(g, tag, x)
  <1>1. tag \in Tags
    BY DEF Tags, GlobalTags
  <1> DEFINE low == g.value[minimum]
             item == MaximumItem(tag, x, low)
  <1>2. /\ item.tag = tag
        /\ (IF low < 0 THEN SignedValue(item) ELSE UnsignedValue(item)) = x
    BY <1>1, MaximumReadBack
  <1> HIDE DEF item
  <1>3. GlobalValue(g, item) = x
    BY <1>2 DEF GlobalValue
  <1> QED
    BY <1>2, <1>3 DEF Declare, Put, item

LEMMA JoinTwo ==
  ASSUME NEW C, NEW s \in Seq(C), NEW x \in C, NEW y \in C
  PROVE  s \o <<x, y>> = Append(Append(s, x), y)
  OBVIOUS

LEMMA JoinAll ==
  ASSUME NEW C, NEW s \in Seq(C), NEW t \in Seq(C), NEW u \in Seq(C)
  PROVE  s \o (t \o u) = (s \o t) \o u
  OBVIOUS

LEMMA UnsignedRead ==
  ASSUME NEW items, NEW b, NEW g, NEW l, NEW r, NEW f, At(items, b, g, l, r, f),
         NEW tag \in {"usage_page", "unit"}, NEW x \in Nat,
         tag = "usage_page" => x \in Word16, tag = "unit" => UnitIsValid(x)
  PROVE  At(Append(items, UnsignedItem(tag, x)), b, Put(g, tag, x), l, r, f)
  <1> DEFINE item == UnsignedItem(tag, x)
  <1>1. tag \in Tags /\ tag \in PlainTags /\ tag \in UnsignedTags /\ tag # "unit_exponent"
    BY DEF Tags, GlobalTags, PlainTags, UnsignedTags
  <1>2. item \in Items /\ item.tag = tag /\ item.data = x
    BY <1>1, UnsignedReadBack
  <1> HIDE DEF item
  <1>3. At(Append(items, item), b, Declare(g, item), l, r, f)
    BY <1>1, <1>2, PlainRead
  <1>4. Declare(g, item) = Put(g, tag, x)
    BY <1>1, <1>2, DeclareUnsigned
  <1> QED
    BY <1>3, <1>4 DEF item

LEMMA MinimumRead ==
  ASSUME NEW items, NEW b, NEW g, NEW l, NEW r, NEW f, At(items, b, g, l, r, f),
         NEW tag \in {"logical_minimum", "physical_minimum"}, NEW x \in Int
  PROVE  At(Append(items, SignedItem(tag, x)), b, Put(g, tag, x), l, r, f)
  <1> DEFINE item == SignedItem(tag, x)
  <1>1. /\ tag \in Tags /\ tag \in PlainTags
        /\ tag \notin {"usage_page", "unit_exponent", "unit"}
    BY DEF Tags, GlobalTags, PlainTags
  <1>2. item \in Items /\ item.tag = tag
    BY <1>1, SignedReadBack
  <1>3. Declare(g, item) = Put(g, tag, x)
    BY DeclareMinimum
  <1> HIDE DEF item
  <1>4. At(Append(items, item), b, Declare(g, item), l, r, f)
    BY <1>1, <1>2, PlainRead
  <1> QED
    BY <1>3, <1>4 DEF item

LEMMA MaximumRead ==
  ASSUME NEW items, NEW b, NEW g, NEW l, NEW r, NEW f, At(items, b, g, l, r, f),
         NEW tag, NEW minimum,
         \/ tag = "logical_maximum" /\ minimum = "logical_minimum"
         \/ tag = "physical_maximum" /\ minimum = "physical_minimum",
         NEW low \in Int, g.value[minimum] = low, NEW x \in Int, low <= x
  PROVE  At(Append(items, MaximumItem(tag, x, low)), b, Put(g, tag, x), l, r, f)
  <1> DEFINE item == MaximumItem(tag, x, low)
  <1>1. /\ tag \in Tags /\ tag \in PlainTags
        /\ tag \notin {"usage_page", "unit_exponent", "unit"}
    BY DEF Tags, GlobalTags, PlainTags
  <1>2. item \in Items /\ item.tag = tag
    BY <1>1, MaximumReadBack
  <1>3. Declare(g, item) = Put(g, tag, x)
    BY DeclareMaximum
  <1> HIDE DEF item
  <1>4. At(Append(items, item), b, Declare(g, item), l, r, f)
    BY <1>1, <1>2, PlainRead
  <1> QED
    BY <1>3, <1>4 DEF item

LEMMA UsagesRead ==
  ASSUME NEW items, NEW b, NEW g, NEW r, NEW f, At(items, b, g, LocalsOf(0, 0, 0), r, f),
         NEW call, call.page \in Word16, call.usage \in Nat
  PROVE  At(items \o Usages(call), b, Put(g, "usage_page", call.page), LocalsOf(1, 0, 0),
            Used(r, 1), f)
  <1> DEFINE page == UnsignedItem("usage_page", call.page)
             usage == UnsignedItem("usage", call.usage)
  <1>1. call.page \in Nat
    BY DEF Word16
  <1>2. "usage_page" \in Tags /\ "usage" \in Tags
    BY DEF Tags, GlobalTags, LocalTags
  <1>3. page \in Items /\ usage \in Items /\ usage.tag = "usage"
    BY <1>1, <1>2, UnsignedReadBack
  <1>4. At(Append(items, page), b, Put(g, "usage_page", call.page), LocalsOf(0, 0, 0), r, f)
    BY <1>1, UnsignedRead
  <1> HIDE DEF page, usage
  <1>5. At(Append(Append(items, page), usage), b, Put(g, "usage_page", call.page),
           LocalsOf(1, 0, 0), Used(r, 1), f)
    BY <1>3, <1>4, UsageRead
  <1>6. items \o <<page, usage>> = Append(Append(items, page), usage)
    BY <1>3, JoinTwo DEF At
  <1> QED
    BY <1>5, <1>6 DEF Usages, page, usage

Ranged(g, low, high) == Put(Put(g, "logical_minimum", low), "logical_maximum", high)

LEMMA ExtentsRead ==
  ASSUME NEW items, NEW b, NEW g, g.value \in Values, NEW l, NEW r, NEW f,
         At(items, b, g, l, r, f), NEW low \in Int, NEW high \in Int, low <= high
  PROVE  At(items \o Extents(low, high), b, Ranged(g, low, high), l, r, f)
  <1> DEFINE first == SignedItem("logical_minimum", low)
             second == MaximumItem("logical_maximum", high, low)
             g1 == Put(g, "logical_minimum", low)
  <1>1. "logical_minimum" \in Tags /\ "logical_maximum" \in Tags /\ "logical_minimum" \in GlobalTags
    BY DEF Tags, GlobalTags
  <1>2. first \in Items /\ second \in Items
    BY <1>1, SignedReadBack, MaximumReadBack
  <1>3. At(Append(items, first), b, g1, l, r, f)
    BY MinimumRead
  <1>4. g1.value["logical_minimum"] = low
    BY <1>1, PutIs
  <1> HIDE DEF first, g1
  <1>5. At(Append(Append(items, first), second), b, Put(g1, "logical_maximum", high), l, r, f)
    BY <1>3, <1>4, MaximumRead
  <1> HIDE DEF second
  <1>6. items \o <<first, second>> = Append(Append(items, first), second)
    BY <1>2, JoinTwo DEF At
  <1> QED
    BY <1>5, <1>6 DEF Extents, Ranged, first, second, g1

Physically(g, physical) ==
  Put(Put(Put(Put(g, "physical_minimum", physical.minimum),
              "physical_maximum", physical.maximum),
          "unit_exponent", ExponentItem(physical.exponent).data),
      "unit", physical.unit)

PhysicalFits(physical) ==
  /\ physical.minimum \in Int /\ physical.maximum \in Int
  /\ physical.minimum <= physical.maximum
  /\ physical.exponent \in Int /\ -8 <= physical.exponent /\ physical.exponent <= 7
  /\ physical.unit \in Nat /\ UnitIsValid(physical.unit)

LEMMA PhysicalRead ==
  ASSUME NEW items, NEW b, NEW g, g.value \in Values, NEW l, NEW r, NEW f,
         At(items, b, g, l, r, f), NEW physical, PhysicalFits(physical)
  PROVE  At(items \o PhysicalItems(physical), b, Physically(g, physical), l, r, f)
  <1> DEFINE low == physical.minimum
             high == physical.maximum
             i1 == SignedItem("physical_minimum", low)
             i2 == MaximumItem("physical_maximum", high, low)
             i3 == ExponentItem(physical.exponent)
             i4 == UnsignedItem("unit", physical.unit)
             g1 == Put(g, "physical_minimum", low)
             g2 == Put(g1, "physical_maximum", high)
             g3 == Put(g2, "unit_exponent", i3.data)
             g4 == Put(g3, "unit", physical.unit)
  <1>1. /\ "physical_minimum" \in Tags /\ "physical_maximum" \in Tags /\ "unit" \in Tags
        /\ "physical_minimum" \in GlobalTags
    BY DEF Tags, GlobalTags
  <1>2. i1 \in Items /\ i2 \in Items /\ i4 \in Items
    BY <1>1, SignedReadBack, MaximumReadBack, UnsignedReadBack DEF PhysicalFits
  <1>3. i3 \in Items /\ i3.tag = "unit_exponent" /\ 0 <= i3.data /\ i3.data <= 15
    BY ExponentReadBack DEF PhysicalFits, UnsignedValue
  <1>4. low \in Int /\ high \in Int /\ low <= high
    BY DEF PhysicalFits
  <1>5. g1.value["physical_minimum"] = low
    BY <1>1, <1>4, PutIs
  <1>6. At(Append(items, i1), b, g1, l, r, f)
    BY <1>4, MinimumRead
  <1> HIDE DEF i1, g1, low, high
  <1>7. At(Append(Append(items, i1), i2), b, g2, l, r, f)
    BY <1>4, <1>5, <1>6, MaximumRead
  <1> HIDE DEF i2, g2, i3
  <1>8. At(Append(Append(Append(items, i1), i2), i3), b, g3, l, r, f)
    <2>1. "unit_exponent" \in PlainTags /\ "unit_exponent" \in UnsignedTags
      BY DEF PlainTags, UnsignedTags
    <2>2. Declare(g2, i3) = g3
      BY <1>3, <2>1, DeclareUnsigned
    <2> HIDE DEF g3
    <2> QED
      BY <1>3, <1>7, <2>1, <2>2, PlainRead
  <1> HIDE DEF g3
  <1>9. At(Append(Append(Append(Append(items, i1), i2), i3), i4), b, g4, l, r, f)
    BY <1>8, UnsignedRead DEF PhysicalFits
  <1> HIDE DEF i4, g4
  <1>10. items \o <<i1, i2, i3, i4>> = Append(Append(Append(Append(items, i1), i2), i3), i4)
    <2>1. items \in Seq(Items)
      BY DEF At
    <2> QED
      BY <1>2, <1>3, <2>1
  <1>11. PhysicalItems(physical) = <<i1, i2, i3, i4>>
    BY DEF PhysicalItems, i1, i2, i3, i4, low, high
  <1>12. Physically(g, physical) = g4
    BY DEF Physically, g1, g2, g3, g4, i3, low, high
  <1> QED
    BY <1>9, <1>10, <1>11, <1>12

Scaled(g, size, count) == Put(Put(g, "report_size", size), "report_count", count)

LEMMA SizesRead ==
  ASSUME NEW items, NEW b, NEW g, NEW l, NEW r, NEW f,
         At(items, b, g, l, r, f), NEW size \in Nat, NEW count \in Nat
  PROVE  At(Append(Append(items, UnsignedItem("report_size", size)),
                   UnsignedItem("report_count", count)),
            b, Scaled(g, size, count), l, Used(Widened(r, size), count), f)
  <1> DEFINE i1 == UnsignedItem("report_size", size)
             i2 == UnsignedItem("report_count", count)
             g1 == Put(g, "report_size", size)
             g2 == Put(g1, "report_count", count)
  <1>1. /\ "report_size" \in Tags /\ "report_count" \in Tags
        /\ "report_size" \in UnsignedTags /\ "report_count" \in UnsignedTags
    BY DEF Tags, GlobalTags, UnsignedTags
  <1>2. /\ i1 \in Items /\ i1.tag = "report_size" /\ i1.data = size
        /\ i2 \in Items /\ i2.tag = "report_count" /\ i2.data = count
    BY <1>1, UnsignedReadBack
  <1> HIDE DEF i1, i2
  <1>3. Declare(g, i1) = g1 /\ Declare(g1, i2) = g2
    BY <1>1, <1>2, DeclareUnsigned
  <1> HIDE DEF g1, g2
  <1>4. At(Append(items, i1), b, g1, l, Widened(r, size), f)
    BY <1>2, <1>3, SizeRead
  <1>5. At(Append(Append(items, i1), i2), b, g2, l, Used(Widened(r, size), count), f)
    BY <1>2, <1>3, <1>4, CountRead
  <1> QED
    BY <1>5 DEF Scaled, i1, i2, g1, g2

RangeItems(call) ==
  <<UnsignedItem("usage_page", call.page), UnsignedItem("usage_minimum", call.first),
    UnsignedItem("usage_maximum", call.last)>>

LEMMA RangeRead ==
  ASSUME NEW items, NEW b, NEW g, NEW r, NEW f, At(items, b, g, LocalsOf(0, 0, 0), r, f),
         NEW call, call.page \in Word16, call.first \in Word16, call.last \in Nat,
         call.first <= call.last, NEW count, count = call.last - call.first + 1
  PROVE  \E size : At(items \o RangeItems(call), b, Put(g, "usage_page", call.page),
                      LocalsOf(count, call.first, size), Used(r, count), f)
  <1> DEFINE i1 == UnsignedItem("usage_page", call.page)
             i2 == UnsignedItem("usage_minimum", call.first)
             i3 == UnsignedItem("usage_maximum", call.last)
             g1 == Put(g, "usage_page", call.page)
  <1>1. call.page \in Nat /\ call.first \in Nat /\ call.first < 65536
    BY WordIs
  <1>2. "usage_page" \in Tags /\ "usage_minimum" \in Tags /\ "usage_maximum" \in Tags
    BY DEF Tags, GlobalTags, LocalTags
  <1>3. /\ i1 \in Items
        /\ i2 \in Items /\ i2.tag = "usage_minimum" /\ i2.data = call.first /\ i2.bytes # 4
        /\ i3 \in Items /\ i3.tag = "usage_maximum" /\ i3.data = call.last
    BY <1>1, <1>2, UnsignedReadBack
  <1>4. At(Append(items, i1), b, g1, LocalsOf(0, 0, 0), r, f)
    BY <1>1, UnsignedRead
  <1> HIDE DEF i1, i2, i3, g1
  <1>5. At(Append(Append(items, i1), i2), b, g1, LocalsOf(0, call.first, i2.bytes), r, f)
    BY <1>3, <1>4, UsageMinimumRead
  <1>6. At(Append(Append(Append(items, i1), i2), i3), b, g1,
           LocalsOf(count, call.first, i2.bytes), Used(r, count), f)
    BY <1>1, <1>3, <1>5, UsageMaximumRead
  <1>7. items \o <<i1, i2, i3>> = Append(Append(Append(items, i1), i2), i3)
    <2>1. items \in Seq(Items)
      BY DEF At
    <2> QED
      BY <1>3, <2>1
  <1> QED
    BY <1>6, <1>7 DEF RangeItems, i1, i2, i3, g1

-----------------------------------------------------------------------------
(* A field: from its usage to the items that take its physical extents back *)

LEMMA FitsIs ==
  ASSUME NEW low \in Int, NEW high \in Int, NEW width, ValueFits(low, high, width)
  PROVE  /\ low <= high /\ width \in 1..32
         /\ RawRangeIsOrdered(low, high) /\ RawValueFits(low, high, width)
  <1>1. low <= high /\ width \in 1..32
    BY DEF ValueFits
  <1>2. RawRangeIsOrdered(low, high)
    BY <1>1 DEF RawRangeIsOrdered, UnsignedLE
  <1>3. low < 0 \/ (low >= 0 /\ high >= 0)
    BY <1>1
  <1> QED
    BY <1>1, <1>2, <1>3 DEF RawValueFits, ValueFits

(* Between two calls no physical extents are in force.                      *)
Quiet(g, b) ==
  /\ g.value \in Values
  /\ g.value["physical_minimum"] = 0 /\ g.value["physical_maximum"] = 0
  /\ g.value["unit_exponent"] = 0 /\ g.value["unit"] = 0
  /\ g.value["report_id"] = b.report_id
  /\ RawRangeIsOrdered(g.value["logical_minimum"], g.value["logical_maximum"])

VariableCalls ==
  {call \in [op : {"variable"}, page : Word16, usage : Word16, flags : {2, 6, 34, 66},
             semantic : DataSemantics, instance : Int, minimum : Int, maximum : Int,
             width : Int, physical : PhysicalTypes] :
     ValueFits(call.minimum, call.maximum, call.width) /\ PhysicalIsValid(call.physical)}

FieldGlobals(g, call) ==
  Ranged(Put(g, "usage_page", call.page), call.minimum, call.maximum)
Physicals(physical) == IF physical = NoPhysical THEN <<>> ELSE PhysicalItems(physical)
WithPhysical(g, physical) == IF physical = NoPhysical THEN g ELSE Physically(g, physical)

LEMMA RangedIs ==
  ASSUME NEW g, g.value \in Values, NEW page \in Int, NEW low \in Int, NEW high \in Int,
         NEW g2, g2 = Ranged(Put(g, "usage_page", page), low, high)
  PROVE  /\ g2.value \in Values
         /\ g2.value["logical_minimum"] = low /\ g2.value["logical_maximum"] = high
         /\ g2.value["report_id"] = g.value["report_id"]
         /\ g2.value["physical_minimum"] = g.value["physical_minimum"]
         /\ g2.value["physical_maximum"] = g.value["physical_maximum"]
         /\ g2.value["unit_exponent"] = g.value["unit_exponent"]
         /\ g2.value["unit"] = g.value["unit"]
         /\ Extensive \subseteq g2.declared
  <1> DEFINE g1 == Put(g, "usage_page", page)
             h == Put(g1, "logical_minimum", low)
  <1>1. /\ "usage_page" \in GlobalTags /\ "logical_minimum" \in GlobalTags
        /\ "logical_maximum" \in GlobalTags /\ "report_id" \in GlobalTags
        /\ "physical_minimum" \in GlobalTags /\ "physical_maximum" \in GlobalTags
        /\ "unit_exponent" \in GlobalTags /\ "unit" \in GlobalTags
    BY DEF GlobalTags
  <1>2. /\ g1.value \in Values /\ g1.declared = g.declared \union {"usage_page"}
        /\ \A t \in GlobalTags : t # "usage_page" => g1.value[t] = g.value[t]
    BY <1>1, PutIs
  <1> HIDE DEF g1
  <1>3. /\ h.value \in Values /\ h.declared = g1.declared \union {"logical_minimum"}
        /\ h.value["logical_minimum"] = low
        /\ \A t \in GlobalTags : t # "logical_minimum" => h.value[t] = g1.value[t]
    BY <1>1, <1>2, PutIs
  <1> HIDE DEF h
  <1>4. g2 = Put(h, "logical_maximum", high)
    BY DEF Ranged, g1, h
  <1>5. /\ g2.value \in Values /\ g2.declared = h.declared \union {"logical_maximum"}
        /\ g2.value["logical_maximum"] = high
        /\ \A t \in GlobalTags : t # "logical_maximum" => g2.value[t] = h.value[t]
    BY <1>1, <1>3, <1>4, PutIs
  <1> QED
    BY <1>1, <1>2, <1>3, <1>5 DEF Extensive

LEMMA ScaledIs ==
  ASSUME NEW g, g.value \in Values, NEW size \in Int, NEW count \in Int,
         NEW g2, g2 = Scaled(g, size, count)
  PROVE  /\ g2.value \in Values /\ g.declared \subseteq g2.declared
         /\ g2.value["report_size"] = size /\ g2.value["report_count"] = count
         /\ \A t \in GlobalTags \ {"report_size", "report_count"} : g2.value[t] = g.value[t]
  <1> DEFINE h == Put(g, "report_size", size)
  <1>1. "report_size" \in GlobalTags /\ "report_count" \in GlobalTags
    BY DEF GlobalTags
  <1>2. /\ h.value \in Values /\ h.declared = g.declared \union {"report_size"}
        /\ h.value["report_size"] = size
        /\ \A t \in GlobalTags : t # "report_size" => h.value[t] = g.value[t]
    BY <1>1, PutIs
  <1> HIDE DEF h
  <1>3. /\ g2.value \in Values /\ g2.declared = h.declared \union {"report_count"}
        /\ g2.value["report_count"] = count
        /\ \A t \in GlobalTags : t # "report_count" => g2.value[t] = h.value[t]
    BY <1>1, <1>2, PutIs DEF Scaled, h
  <1> QED
    BY <1>1, <1>2, <1>3

PhysicalTags == {"physical_minimum", "physical_maximum", "unit_exponent", "unit"}

LEMMA PhysicallyIs ==
  ASSUME NEW g, g.value \in Values, NEW physical, PhysicalFits(physical),
         NEW g2, g2 = Physically(g, physical)
  PROVE  /\ g2.value \in Values /\ g2.declared = g.declared \union PhysicalTags
         /\ g2.value["physical_minimum"] = physical.minimum
         /\ g2.value["physical_maximum"] = physical.maximum
         /\ SignedNibble(g2.value["unit_exponent"]) = physical.exponent
         /\ (physical.exponent = 0 => g2.value["unit_exponent"] = 0)
         /\ g2.value["unit"] = physical.unit
         /\ \A t \in GlobalTags \ PhysicalTags : g2.value[t] = g.value[t]
  <1> DEFINE nibble == ExponentItem(physical.exponent).data
             h1 == Put(g, "physical_minimum", physical.minimum)
             h2 == Put(h1, "physical_maximum", physical.maximum)
             h3 == Put(h2, "unit_exponent", nibble)
  <1>1. PhysicalTags \subseteq GlobalTags
    BY DEF PhysicalTags, GlobalTags
  <1>2. /\ nibble \in Int /\ SignedNibble(nibble) = physical.exponent
        /\ 0 <= nibble /\ nibble <= 15
    BY ExponentReadBack DEF PhysicalFits, UnsignedValue
  <1> HIDE DEF nibble
  <1>3. physical.exponent = 0 => nibble = 0
    BY <1>2 DEF SignedNibble
  <1>4. /\ h1.value \in Values /\ h1.declared = g.declared \union {"physical_minimum"}
        /\ h1.value["physical_minimum"] = physical.minimum
        /\ \A t \in GlobalTags : t # "physical_minimum" => h1.value[t] = g.value[t]
    <2>1. "physical_minimum" \in GlobalTags
      BY <1>1 DEF PhysicalTags
    <2> QED
      BY <2>1, PutIs DEF PhysicalFits
  <1> HIDE DEF h1
  <1>5. /\ h2.value \in Values /\ h2.declared = h1.declared \union {"physical_maximum"}
        /\ h2.value["physical_maximum"] = physical.maximum
        /\ \A t \in GlobalTags : t # "physical_maximum" => h2.value[t] = h1.value[t]
    <2>1. "physical_maximum" \in GlobalTags
      BY <1>1 DEF PhysicalTags
    <2> QED
      BY <1>4, <2>1, PutIs DEF PhysicalFits
  <1> HIDE DEF h2
  <1>6. /\ h3.value \in Values /\ h3.declared = h2.declared \union {"unit_exponent"}
        /\ h3.value["unit_exponent"] = nibble
        /\ \A t \in GlobalTags : t # "unit_exponent" => h3.value[t] = h2.value[t]
    <2>1. "unit_exponent" \in GlobalTags
      BY <1>1 DEF PhysicalTags
    <2> QED
      BY <1>2, <1>5, <2>1, PutIs
  <1> HIDE DEF h3
  <1>7. g2 = Put(h3, "unit", physical.unit)
    BY DEF Physically, h1, h2, h3, nibble
  <1>8. /\ g2.value \in Values /\ g2.declared = h3.declared \union {"unit"}
        /\ g2.value["unit"] = physical.unit
        /\ \A t \in GlobalTags : t # "unit" => g2.value[t] = h3.value[t]
    <2>1. "unit" \in GlobalTags /\ physical.unit \in Int
      BY <1>1 DEF PhysicalTags, PhysicalFits
    <2> QED
      BY <1>6, <1>7, <2>1, PutIs
  <1>9. g2.declared = g.declared \union PhysicalTags
    BY <1>4, <1>5, <1>6, <1>8 DEF PhysicalTags
  <1>10. /\ g2.value["physical_minimum"] = physical.minimum
         /\ g2.value["physical_maximum"] = physical.maximum
         /\ g2.value["unit_exponent"] = nibble
         /\ \A t \in GlobalTags \ PhysicalTags : g2.value[t] = g.value[t]
    BY <1>1, <1>4, <1>5, <1>6, <1>8 DEF PhysicalTags
  <1> QED
    BY <1>2, <1>3, <1>8, <1>9, <1>10

LEMMA PhysicalFitsIs ==
  /\ \A physical \in PhysicalTypes : PhysicalIsValid(physical) => PhysicalFits(physical)
  /\ PhysicalFits(NoPhysical) /\ NoPhysical \in PhysicalTypes /\ PhysicalIsValid(NoPhysical)
  /\ \A physical \in PhysicalTypes :
       PhysicalIsValid(physical) /\ physical # NoPhysical => physical.unit # 0
  <1>1. UnitIsValid(0)
    BY DEF UnitIsValid
  <1>2. PhysicalFits(NoPhysical)
    BY <1>1 DEF PhysicalFits, NoPhysical
  <1>3. ASSUME NEW physical \in PhysicalTypes, PhysicalIsValid(physical),
               physical # NoPhysical
        PROVE  PhysicalFits(physical) /\ physical.unit # 0
    <2>1. /\ physical.maximum > physical.minimum /\ physical.exponent \in -8..7
          /\ physical.unit # 0 /\ UnitIsValid(physical.unit)
      BY <1>3 DEF PhysicalIsValid
    <2>2. /\ physical.minimum \in Int /\ physical.maximum \in Int /\ physical.exponent \in Int
          /\ physical.unit \in Int
      BY DEF PhysicalTypes
    <2>3. physical.unit \in Nat
      BY <2>1, <2>2 DEF UnitIsValid
    <2> QED
      BY <2>1, <2>2, <2>3 DEF PhysicalFits
  <1> QED
    BY <1>2, <1>3 DEF PhysicalIsValid, NoPhysical, PhysicalTypes

LEMMA SizedRead ==
  ASSUME NEW items, NEW b, NEW g, g.value \in Values, NEW usages, NEW first, NEW locals, NEW r,
         NEW f, At(items, b, g, LocalsOf(usages, first, locals), r, f),
         NEW size \in Nat, NEW count \in Nat, NEW flags \in Nat,
         NEW g2, g2 = Scaled(g, size, count), Admits(b, g2, usages, flags),
         Empty(b), b.data_bits.input \in Nat, b.collection_depth \in Nat \ {0},
         NEW b2, More(b, b2, size, count, usages)
  PROVE  At(items \o Sized(size, count, "input", flags), b2, g2, LocalsOf(0, 0, 0),
            Used(Grown(Used(Widened(r, size), count), b2.data_fields.input,
                       b2.data_bits.input), usages),
            f \o FieldsAt(g2.value, flags, FirstOf(b), count))
  <1> DEFINE i1 == UnsignedItem("report_size", size)
             i2 == UnsignedItem("report_count", count)
             i3 == UnsignedItem("input", flags)
             r2 == Used(Widened(r, size), count)
  <1>1. "report_size" \in Tags /\ "report_count" \in Tags /\ "input" \in Tags
    BY DEF Tags, GlobalTags, MainTags
  <1>2. i1 \in Items /\ i2 \in Items /\ i3 \in Items /\ i3.tag = "input" /\ i3.data = flags
    BY <1>1, UnsignedReadBack
  <1>3. At(Append(Append(items, i1), i2), b, g2, LocalsOf(usages, first, locals), r2, f)
    BY SizesRead
  <1> HIDE DEF i1, i2, i3, r2
  <1>4. /\ g2.value \in Values /\ g2.value["report_size"] = size
        /\ g2.value["report_count"] = count
    BY ScaledIs
  <1>5. At(Append(Append(Append(items, i1), i2), i3), b2, g2, LocalsOf(0, 0, 0),
           Used(Grown(r2, b2.data_fields.input, b2.data_bits.input), usages),
           f \o FieldsAt(g2.value, flags, FirstOf(b), count))
    BY <1>2, <1>3, <1>4, InputRead
  <1>6. items \o <<i1, i2, i3>> = Append(Append(Append(items, i1), i2), i3)
    <2>1. items \in Seq(Items)
      BY DEF At
    <2> QED
      BY <1>2, <2>1
  <1>7. Sized(size, count, "input", flags) = <<i1, i2, i3>>
    BY DEF Sized, i1, i2, i3
  <1> QED
    BY <1>5, <1>6, <1>7 DEF r2

LEMMA LargerIs ==
  ASSUME NEW a \in Nat, NEW c \in Nat
  PROVE  /\ Larger(a, c) \in Nat /\ Larger(c, a) = Larger(a, c)
         /\ Larger(Larger(a, c), c) = Larger(a, c)
         /\ \A d \in Nat : Larger(Larger(a, c), d) = Larger(a, Larger(c, d))
  BY DEF Larger

LEMMA NeedsTyped ==
  ASSUME NEW r \in NeedTypes, NEW a \in Nat, NEW c \in Nat
  PROVE  /\ Used(r, a) \in NeedTypes /\ Widened(r, a) \in NeedTypes
         /\ Grown(r, a, c) \in NeedTypes
  BY LargerIs DEF Used, Widened, Grown, NeedTypes

LEMMA NeedsAgree ==
  ASSUME NEW r \in NeedTypes, NEW usages \in Nat, NEW count \in Nat, NEW size \in Nat,
         NEW bits \in Nat, NEW fields \in Nat
  PROVE  /\ Used(Grown(Used(Widened(r, size), count), fields, bits), usages) =
              Counting(r, Larger(usages, count), size, bits, fields)
         /\ Counting(r, Larger(usages, count), size, bits, fields) \in NeedTypes
         /\ Counting(Used(r, usages), Larger(usages, count), size, bits, fields) =
              Counting(r, Larger(usages, count), size, bits, fields)
  <1>1. Larger(Larger(r.usages, count), usages) = Larger(r.usages, Larger(usages, count))
    BY LargerIs DEF NeedTypes
  <1>2. Larger(Larger(r.usages, usages), Larger(usages, count)) =
          Larger(r.usages, Larger(usages, count))
    BY DEF NeedTypes, Larger
  <1>3. /\ r.usages \in Nat /\ r.report_size \in Nat /\ r.data_bits \in Nat /\ r.fields \in Nat
    BY DEF NeedTypes
  <1>4. /\ Larger(r.usages, Larger(usages, count)) \in Nat /\ Larger(r.report_size, size) \in Nat
        /\ Larger(r.data_bits, bits) \in Nat /\ Larger(r.fields, fields) \in Nat
    BY <1>3, LargerIs
  <1>5. Used(Grown(Used(Widened(r, size), count), fields, bits), usages) =
          Counting(r, Larger(usages, count), size, bits, fields)
    BY <1>1 DEF NeedTypes, Used, Grown, Widened, Counting
  <1>6. Counting(Used(r, usages), Larger(usages, count), size, bits, fields) =
              Counting(r, Larger(usages, count), size, bits, fields)
    BY <1>2 DEF NeedTypes, Used, Counting
  <1>7. Counting(r, Larger(usages, count), size, bits, fields) \in NeedTypes
    BY <1>4 DEF NeedTypes, Counting
  <1> QED
    BY <1>5, <1>6, <1>7

LEMMA ItemsTyped ==
  /\ \A call : call.page \in Nat /\ call.usage \in Nat => Usages(call) \in Seq(Items)
  /\ \A low, high \in Int : low <= high => Extents(low, high) \in Seq(Items)
  /\ \A physical : PhysicalFits(physical) => PhysicalItems(physical) \in Seq(Items)
  /\ \A size, count, flags \in Nat, main \in {"input", "feature"} :
       Sized(size, count, main, flags) \in Seq(Items)
  /\ \A call : call.page \in Nat /\ call.first \in Nat /\ call.last \in Nat =>
       RangeItems(call) \in Seq(Items)
  <1>1. GlobalTags \subseteq Tags /\ LocalTags \subseteq Tags /\ MainTags \subseteq Tags
        /\ "feature" \in Tags
    BY DEF Tags
  <1>2. /\ "usage_page" \in Tags /\ "usage" \in Tags /\ "usage_minimum" \in Tags
        /\ "usage_maximum" \in Tags /\ "report_size" \in Tags /\ "report_count" \in Tags
        /\ "input" \in Tags /\ "logical_minimum" \in Tags /\ "logical_maximum" \in Tags
        /\ "physical_minimum" \in Tags /\ "physical_maximum" \in Tags /\ "unit" \in Tags
    BY <1>1 DEF GlobalTags, LocalTags, MainTags
  <1>3. \A tag \in Tags, x \in Nat : UnsignedItem(tag, x) \in Items
    BY UnsignedReadBack
  <1>4. \A tag \in Tags, x \in Int : SignedItem(tag, x) \in Items
    BY SignedReadBack
  <1>5. \A tag \in Tags, low, high \in Int : low <= high => MaximumItem(tag, high, low) \in Items
    BY MaximumReadBack
  <1>6. ASSUME NEW call, call.page \in Nat /\ call.usage \in Nat
        PROVE  Usages(call) \in Seq(Items)
    <2>1. /\ UnsignedItem("usage_page", call.page) \in Items
          /\ UnsignedItem("usage", call.usage) \in Items
      BY <1>2, <1>3, <1>6
    <2> QED
      BY <2>1 DEF Usages
  <1>7. ASSUME NEW low \in Int, NEW high \in Int, low <= high
        PROVE  Extents(low, high) \in Seq(Items)
    <2>1. /\ SignedItem("logical_minimum", low) \in Items
          /\ MaximumItem("logical_maximum", high, low) \in Items
      BY <1>2, <1>4, <1>5, <1>7
    <2> QED
      BY <2>1 DEF Extents
  <1>8. ASSUME NEW physical, PhysicalFits(physical)
        PROVE  PhysicalItems(physical) \in Seq(Items)
    <2>1. /\ SignedItem("physical_minimum", physical.minimum) \in Items
          /\ MaximumItem("physical_maximum", physical.maximum, physical.minimum) \in Items
          /\ UnsignedItem("unit", physical.unit) \in Items
      BY <1>2, <1>3, <1>4, <1>5, <1>8 DEF PhysicalFits
    <2>2. ExponentItem(physical.exponent) \in Items
      BY <1>8, ExponentReadBack DEF PhysicalFits
    <2> QED
      BY <2>1, <2>2 DEF PhysicalItems
  <1>9. ASSUME NEW size \in Nat, NEW count \in Nat, NEW flags \in Nat,
               NEW main \in {"input", "feature"}
        PROVE  Sized(size, count, main, flags) \in Seq(Items)
    <2>1. main \in Tags
      BY <1>1, <1>2
    <2>2. /\ UnsignedItem("report_size", size) \in Items
          /\ UnsignedItem("report_count", count) \in Items
          /\ UnsignedItem(main, flags) \in Items
      BY <1>2, <1>3, <2>1
    <2> QED
      BY <2>2 DEF Sized
  <1>10. ASSUME NEW call, call.page \in Nat /\ call.first \in Nat /\ call.last \in Nat
         PROVE  RangeItems(call) \in Seq(Items)
    <2>1. /\ UnsignedItem("usage_page", call.page) \in Items
          /\ UnsignedItem("usage_minimum", call.first) \in Items
          /\ UnsignedItem("usage_maximum", call.last) \in Items
      BY <1>2, <1>3, <1>10
    <2> QED
      BY <2>1 DEF RangeItems
  <1> QED
    BY <1>6, <1>7, <1>8, <1>9, <1>10

FieldItems(call) ==
  Usages(call) \o Extents(call.minimum, call.maximum) \o Physicals(call.physical)
  \o Sized(call.width, 1, "input", call.flags)
ResetItems(call) == IF call.physical = NoPhysical THEN <<>> ELSE PhysicalItems(NoPhysical)

LEMMA CallTypes ==
  ASSUME NEW call \in VariableCalls
  PROVE  /\ call.page \in Word16 /\ call.page \in Nat /\ call.usage \in Nat
         /\ call.minimum \in Int /\ call.maximum \in Int /\ call.minimum <= call.maximum
         /\ call.width \in 1..32 /\ call.width \in Nat /\ call.flags \in {2, 6, 34, 66}
         /\ call.flags \in Nat /\ call.semantic \in DataSemantics
         /\ RawRangeIsOrdered(call.minimum, call.maximum)
         /\ RawValueFits(call.minimum, call.maximum, call.width)
         /\ call.physical \in PhysicalTypes /\ PhysicalFits(call.physical)
         /\ (call.physical # NoPhysical => call.physical.unit # 0)
  <1>1. /\ call.page \in Word16 /\ call.usage \in Word16 /\ call.flags \in {2, 6, 34, 66}
        /\ call.minimum \in Int /\ call.maximum \in Int /\ call.width \in Int
        /\ call.physical \in PhysicalTypes /\ PhysicalIsValid(call.physical)
        /\ call.semantic \in DataSemantics
        /\ ValueFits(call.minimum, call.maximum, call.width)
    BY DEF VariableCalls
  <1>2. call.page \in Nat /\ call.usage \in Nat
    BY <1>1, WordIs
  <1>3. /\ call.minimum <= call.maximum /\ call.width \in 1..32
        /\ RawRangeIsOrdered(call.minimum, call.maximum)
        /\ RawValueFits(call.minimum, call.maximum, call.width)
    BY <1>1, FitsIs
  <1>4. PhysicalFits(call.physical) /\ (call.physical # NoPhysical => call.physical.unit # 0)
    BY <1>1, PhysicalFitsIs, SMTT(60)
  <1> QED
    BY <1>1, <1>2, <1>3, <1>4

(* The items of a field end up in one sequence. *)
LEMMA FieldItemsJoin ==
  ASSUME NEW items \in Seq(Items), NEW call \in VariableCalls
  PROVE  /\ FieldItems(call) \in Seq(Items) /\ ResetItems(call) \in Seq(Items)
         /\ items \o FieldItems(call) =
              (((items \o Usages(call)) \o Extents(call.minimum, call.maximum))
               \o Physicals(call.physical)) \o Sized(call.width, 1, "input", call.flags)
  <1> DEFINE u == Usages(call)
             e == Extents(call.minimum, call.maximum)
             p == Physicals(call.physical)
             s == Sized(call.width, 1, "input", call.flags)
  <1>1. u \in Seq(Items) /\ e \in Seq(Items) /\ s \in Seq(Items)
    BY CallTypes, ItemsTyped
  <1>2. p \in Seq(Items) /\ ResetItems(call) \in Seq(Items)
    BY CallTypes, ItemsTyped, PhysicalFitsIs DEF Physicals, ResetItems
  <1>3. FieldItems(call) = ((u \o e) \o p) \o s
    BY DEF FieldItems
  <1> HIDE DEF u, e, p, s
  <1>4. u \o e \in Seq(Items) /\ (u \o e) \o p \in Seq(Items)
    BY <1>1, <1>2
  <1>5. items \o (((u \o e) \o p) \o s) = (items \o ((u \o e) \o p)) \o s
    <2> DEFINE uep == (u \o e) \o p
    <2>1. uep \in Seq(Items)
      BY <1>4
    <2> HIDE DEF uep
    <2>2. items \o (uep \o s) = (items \o uep) \o s
      BY <1>1, <2>1, JoinAll, SMTT(60)
    <2> QED
      BY <2>2 DEF uep
  <1>6. items \o ((u \o e) \o p) = (items \o (u \o e)) \o p
    <2> DEFINE ue == u \o e
    <2>1. ue \in Seq(Items)
      BY <1>4
    <2> HIDE DEF ue
    <2>2. items \o (ue \o p) = (items \o ue) \o p
      BY <1>2, <2>1, JoinAll, SMTT(60)
    <2> QED
      BY <2>2 DEF ue
  <1>7. items \o (u \o e) = (items \o u) \o e
    BY <1>1, JoinAll, SMTT(60)
  <1>8. ((u \o e) \o p) \o s \in Seq(Items)
    BY <1>1, <1>4
  <1> QED
    BY <1>2, <1>3, <1>5, <1>6, <1>7, <1>8 DEF u, e, p, s

(* The Global items in force at the Input item of a field. *)
LEMMA FieldGlobalsAre ==
  ASSUME NEW b, NEW g, Quiet(g, b), NEW call \in VariableCalls,
         NEW g1, g1 = FieldGlobals(g, call), NEW g2, g2 = WithPhysical(g1, call.physical),
         NEW g3, g3 = Scaled(g2, call.width, 1)
  PROVE  /\ g1.value \in Values /\ g2.value \in Values /\ g3.value \in Values
         /\ Extensive \subseteq g3.declared
         /\ (call.physical # NoPhysical => Measured \subseteq g3.declared)
         /\ g3.value["report_id"] = b.report_id
         /\ g3.value["report_size"] = call.width /\ g3.value["report_count"] = 1
         /\ g3.value["logical_minimum"] = call.minimum
         /\ g3.value["logical_maximum"] = call.maximum
         /\ g3.value["physical_minimum"] = call.physical.minimum
         /\ g3.value["physical_maximum"] = call.physical.maximum
         /\ SignedNibble(g3.value["unit_exponent"]) = call.physical.exponent
         /\ (call.physical = NoPhysical => g3.value["unit_exponent"] = 0)
         /\ g3.value["unit"] = call.physical.unit
  <1>1. /\ call.page \in Int /\ call.minimum \in Int /\ call.maximum \in Int /\ call.width \in Int
        /\ PhysicalFits(call.physical)
    BY CallTypes
  <1>2. /\ "report_id" \in GlobalTags \ PhysicalTags
        /\ "logical_minimum" \in GlobalTags \ PhysicalTags
        /\ "logical_maximum" \in GlobalTags \ PhysicalTags
        /\ \A t \in {"report_id", "logical_minimum", "logical_maximum"} \union PhysicalTags :
             t \in GlobalTags \ {"report_size", "report_count"}
    BY DEF GlobalTags, PhysicalTags
  <1>3. /\ g1.value \in Values
        /\ g1.value["logical_minimum"] = call.minimum
        /\ g1.value["logical_maximum"] = call.maximum
        /\ g1.value["report_id"] = b.report_id
        /\ g1.value["physical_minimum"] = 0 /\ g1.value["physical_maximum"] = 0
        /\ g1.value["unit_exponent"] = 0 /\ g1.value["unit"] = 0
        /\ Extensive \subseteq g1.declared
    <2>1. /\ g.value \in Values
          /\ g1 = Ranged(Put(g, "usage_page", call.page), call.minimum, call.maximum)
      BY DEF FieldGlobals, Quiet
    <2> QED
      BY <1>1, <2>1, RangedIs DEF Quiet
  <1>4. /\ g2.value \in Values /\ g1.declared \subseteq g2.declared
        /\ (call.physical # NoPhysical => PhysicalTags \subseteq g2.declared)
        /\ g2.value["report_id"] = b.report_id
        /\ g2.value["logical_minimum"] = call.minimum
        /\ g2.value["logical_maximum"] = call.maximum
        /\ g2.value["physical_minimum"] = call.physical.minimum
        /\ g2.value["physical_maximum"] = call.physical.maximum
        /\ SignedNibble(g2.value["unit_exponent"]) = call.physical.exponent
        /\ (call.physical = NoPhysical => g2.value["unit_exponent"] = 0)
        /\ g2.value["unit"] = call.physical.unit
    <2>1. CASE call.physical = NoPhysical
      <3>1. g2 = g1
        BY <2>1 DEF WithPhysical
      <3>2. /\ NoPhysical.minimum = 0 /\ NoPhysical.maximum = 0 /\ NoPhysical.exponent = 0
            /\ NoPhysical.unit = 0
        BY DEF NoPhysical
      <3>3. SignedNibble(0) = 0
        BY DEF SignedNibble
      <3> QED
        BY <1>3, <2>1, <3>1, <3>2, <3>3
    <2>2. CASE call.physical # NoPhysical
      <3>1. g2 = Physically(g1, call.physical)
        BY <2>2 DEF WithPhysical
      <3>2. /\ g2.value \in Values /\ g2.declared = g1.declared \union PhysicalTags
            /\ g2.value["physical_minimum"] = call.physical.minimum
            /\ g2.value["physical_maximum"] = call.physical.maximum
            /\ SignedNibble(g2.value["unit_exponent"]) = call.physical.exponent
            /\ g2.value["unit"] = call.physical.unit
            /\ \A t \in GlobalTags \ PhysicalTags : g2.value[t] = g1.value[t]
        BY <1>1, <1>3, <3>1, PhysicallyIs
      <3> QED
        BY <1>2, <1>3, <2>2, <3>2
    <2> QED
      BY <2>1, <2>2
  <1>5. /\ g3.value \in Values /\ g2.declared \subseteq g3.declared
        /\ g3.value["report_size"] = call.width /\ g3.value["report_count"] = 1
        /\ \A t \in GlobalTags \ {"report_size", "report_count"} : g3.value[t] = g2.value[t]
    BY <1>1, <1>4, ScaledIs
  <1>6. Extensive \subseteq g3.declared
    BY <1>3, <1>4, <1>5
  <1>7. call.physical # NoPhysical => Measured \subseteq g3.declared
    BY <1>4, <1>5, <1>6 DEF Measured, Extensive, PhysicalTags
  <1>8. \A t \in {"report_id", "logical_minimum", "logical_maximum"} \union PhysicalTags :
          g3.value[t] = g2.value[t]
    BY <1>2, <1>5
  <1>9. /\ g3.value["report_id"] = b.report_id
        /\ g3.value["logical_minimum"] = call.minimum
        /\ g3.value["logical_maximum"] = call.maximum
    BY <1>4, <1>8
  <1>10. /\ g3.value["physical_minimum"] = call.physical.minimum
         /\ g3.value["physical_maximum"] = call.physical.maximum
         /\ g3.value["unit_exponent"] = g2.value["unit_exponent"]
         /\ g3.value["unit"] = call.physical.unit
    BY <1>4, <1>8 DEF PhysicalTags
  <1>11. /\ SignedNibble(g3.value["unit_exponent"]) = call.physical.exponent
         /\ (call.physical = NoPhysical => g3.value["unit_exponent"] = 0)
    BY <1>4, <1>10
  <1> QED
    BY <1>3, <1>4, <1>5, <1>6, <1>7, <1>9, <1>10, <1>11

(* The host's field is the field of the layout. *)
LEMMA FieldAgrees ==
  ASSUME NEW call \in VariableCalls, NEW v, NEW offset,
         v["report_size"] = call.width,
         v["logical_minimum"] = call.minimum, v["logical_maximum"] = call.maximum,
         v["physical_minimum"] = call.physical.minimum,
         v["physical_maximum"] = call.physical.maximum,
         SignedNibble(v["unit_exponent"]) = call.physical.exponent,
         v["unit"] = call.physical.unit
  PROVE  Agrees(FieldAt(v, call.flags, offset), [LayoutOf(call) EXCEPT !.offset = offset])
  <1> DEFINE field == [LayoutOf(call) EXCEPT !.offset = offset]
             host == FieldAt(v, call.flags, offset)
  <1>1. /\ field.offset = offset /\ field.width = call.width /\ field.semantic = call.semantic
        /\ field.minimum = call.minimum /\ field.maximum = call.maximum
        /\ field.null_state = Flag(call.flags, 64) /\ field.physical = call.physical
    BY DEF LayoutOf
  <1>2. /\ host.offset = offset /\ host.width = call.width
        /\ host.constant = Constant(call.flags) /\ host.null_state = Flag(call.flags, 64)
        /\ host.minimum = call.minimum /\ host.maximum = call.maximum
        /\ host.physical = <<call.physical.minimum, call.physical.maximum,
                             call.physical.exponent, call.physical.unit>>
    BY DEF FieldAt
  <1>3. call.flags \in {1, 2, 6, 34, 66} /\ call.flags # 1 /\ call.semantic # "constant_padding"
    BY CallTypes DEF DataSemantics
  <1>4. Constant(call.flags) \in BOOLEAN /\ ~Constant(call.flags)
    BY <1>3, FlagsAre DEF Constant, Flag
  <1> HIDE DEF field, host
  <1>5. host.constant = (field.semantic = "constant_padding")
    BY <1>1, <1>2, <1>3, <1>4
  <1>6. host.physical = PhysicalOf(field)
    BY <1>1, <1>2 DEF PhysicalOf
  <1> QED
    BY <1>1, <1>2, <1>5, <1>6 DEF Agrees, field, host

(* Where the host is between two calls. *)
Follows(items, b, r, f) ==
  \E g : Quiet(g, b) /\ At(items, b, g, LocalsOf(0, 0, 0), r, f)

LEMMA OneField ==
  ASSUME NEW f \in Seq(HostFields), NEW v \in Values, NEW flags, NEW first \in Int
  PROVE  /\ FieldAt(v, flags, first) \in HostFields
         /\ f \o FieldsAt(v, flags, first, 1) = Append(f, FieldAt(v, flags, first))
  <1> DEFINE host == FieldAt(v, flags, first)
             fields == FieldsAt(v, flags, first, 1)
  <1>1. host \in HostFields
    BY FieldAtType
  <1>3. first + (1 - 1) * v["report_size"] = first
    <2>1. v["report_size"] \in Int
      BY DEF Values, GlobalTags
    <2> QED
      BY <2>1
  <1>2. /\ fields \in Seq(HostFields) /\ Len(fields) = 1
        /\ fields[1] = FieldAt(v, flags, first + (1 - 1) * v["report_size"])
    <2>1. fields[1] = FieldAt(v, flags, first + (1 - 1) * v["report_size"])
      BY DEF FieldsAt
    <2>2. fields = [k \in 1..1 |-> fields[k]]
      BY DEF FieldsAt
    <2>3. \A k \in 1..1 : fields[k] \in HostFields
      BY <1>1, <2>1, <1>3
    <2> HIDE DEF fields
    <2>4. fields \in Seq(HostFields) /\ Len(fields) = 1
      BY <2>2, <2>3
    <2> QED
      BY <2>1, <2>4
  <1>4. fields[1] = host
    BY <1>2, <1>3
  <1> HIDE DEF fields, host
  <1>5. fields = <<host>>
    BY <1>1, <1>2, <1>4
  <1>6. f \o <<host>> = Append(f, host)
    BY <1>1
  <1> QED
    BY <1>1, <1>5, <1>6 DEF fields, host

LEMMA VariableRead ==
  ASSUME NEW items, NEW b, NEW r \in NeedTypes, NEW f, Follows(items, b, r, f), Empty(b),
         b.data_bits.input \in Nat, b.data_fields.input \in Nat,
         b.collection_depth \in Nat \ {0}, NEW call \in VariableCalls,
         FieldSpanIsValid(b.data_bits.input, call.width, 1),
         NEW b2, More(b, b2, call.width, 1, 1)
  PROVE  \E host \in HostFields :
           /\ Follows((items \o FieldItems(call)) \o ResetItems(call), b2,
                      Counting(r, 1, call.width, b2.data_bits.input, b2.data_fields.input),
                      Append(f, host))
           /\ Agrees(host, [LayoutOf(call) EXCEPT !.offset = FirstOf(b)])
  <1>1. PICK g : Quiet(g, b) /\ At(items, b, g, LocalsOf(0, 0, 0), r, f)
    BY DEF Follows
  <1>2. items \in Seq(Items) /\ f \in Seq(HostFields)
    BY <1>1 DEF At
  <1> DEFINE g1 == FieldGlobals(g, call)
             g2 == WithPhysical(g1, call.physical)
             g3 == Scaled(g2, call.width, 1)
             i1 == (items \o Usages(call)) \o Extents(call.minimum, call.maximum)
             i2 == i1 \o Physicals(call.physical)
             i3 == i2 \o Sized(call.width, 1, "input", call.flags)
             bits == b2.data_bits.input
             fields == b2.data_fields.input
             needs == Counting(r, 1, call.width, bits, fields)
             host == FieldAt(g3.value, call.flags, FirstOf(b))
  <1>3. /\ call.page \in Word16 /\ call.page \in Int /\ call.usage \in Nat
        /\ call.minimum \in Int /\ call.maximum \in Int /\ call.minimum <= call.maximum
        /\ call.width \in 1..32 /\ call.width \in Nat
        /\ call.flags \in {1, 2, 6, 34, 66} /\ call.flags \in Nat
        /\ RawRangeIsOrdered(call.minimum, call.maximum)
        /\ RawValueFits(call.minimum, call.maximum, call.width)
        /\ PhysicalFits(call.physical)
    BY CallTypes, WordIs
  <1>4. items \o FieldItems(call) = i3
    BY <1>2, FieldItemsJoin
  <1>5. At(i1, b, g1, LocalsOf(1, 0, 0), Used(r, 1), f)
    <2> DEFINE h == Put(g, "usage_page", call.page)
               i0 == items \o Usages(call)
    <2>1. At(i0, b, h, LocalsOf(1, 0, 0), Used(r, 1), f)
      BY <1>1, <1>3, UsagesRead
    <2>2. h.value \in Values
      <3>1. "usage_page" \in GlobalTags /\ g.value \in Values
        BY <1>1 DEF GlobalTags, Quiet
      <3> QED
        BY <1>3, <3>1, PutIs
    <2> HIDE DEF h, i0
    <2>3. At(i0 \o Extents(call.minimum, call.maximum), b, Ranged(h, call.minimum, call.maximum),
             LocalsOf(1, 0, 0), Used(r, 1), f)
      BY <1>3, <2>1, <2>2, ExtentsRead
    <2> QED
      BY <2>3 DEF h, i0, FieldGlobals
  <1>6. /\ g1.value \in Values /\ g2.value \in Values /\ g3.value \in Values
        /\ Extensive \subseteq g3.declared
        /\ (call.physical # NoPhysical => Measured \subseteq g3.declared)
        /\ g3.value["report_id"] = b.report_id
        /\ g3.value["report_size"] = call.width /\ g3.value["report_count"] = 1
        /\ g3.value["logical_minimum"] = call.minimum
        /\ g3.value["logical_maximum"] = call.maximum
        /\ g3.value["physical_minimum"] = call.physical.minimum
        /\ g3.value["physical_maximum"] = call.physical.maximum
        /\ SignedNibble(g3.value["unit_exponent"]) = call.physical.exponent
        /\ (call.physical = NoPhysical => g3.value["unit_exponent"] = 0)
        /\ g3.value["unit"] = call.physical.unit
    <2> HIDE DEF g1
    <2>1. g1 = FieldGlobals(g, call)
      BY DEF g1
    <2> HIDE DEF g2
    <2>2. g2 = WithPhysical(g1, call.physical)
      BY DEF g2
    <2> HIDE DEF g3
    <2>3. g3 = Scaled(g2, call.width, 1)
      BY DEF g3
    <2> QED
      BY <1>1, <2>1, <2>2, <2>3, FieldGlobalsAre
  <1> HIDE DEF g1, i1
  <1>7. At(i2, b, g2, LocalsOf(1, 0, 0), Used(r, 1), f)
    <2>1. CASE call.physical = NoPhysical
      <3>1. i1 \in Seq(Items)
        BY <1>5 DEF At
      <3>2. i2 = i1 /\ g2 = g1
        BY <2>1, <3>1 DEF Physicals, WithPhysical
      <3> QED
        BY <1>5, <3>2
    <2>2. CASE call.physical # NoPhysical
      <3>1. i2 = i1 \o PhysicalItems(call.physical) /\ g2 = Physically(g1, call.physical)
        BY <2>2 DEF Physicals, WithPhysical
      <3> QED
        BY <1>3, <1>5, <1>6, <3>1, PhysicalRead
    <2> QED
      BY <2>1, <2>2
  <1> HIDE DEF g2, i2
  <1>8. Admits(b, g3, 1, call.flags)
    <2>1. g3.value["unit"] # 0 => Measured \subseteq g3.declared
      BY <1>6 DEF NoPhysical
    <2> HIDE DEF g3
    <2> QED
      BY <1>3, <1>6, <2>1 DEF Admits
  <1>9. At(i3, b2, g3, LocalsOf(0, 0, 0),
           Used(Grown(Used(Widened(Used(r, 1), call.width), 1), fields, bits), 1),
           f \o FieldsAt(g3.value, call.flags, FirstOf(b), 1))
    <2> HIDE DEF g3
    <2>1. g3 = Scaled(g2, call.width, 1)
      BY DEF g3
    <2> QED
      BY <1>3, <1>6, <1>7, <1>8, <2>1, SizedRead
  <1> HIDE DEF g3, i3
  <1>10. Used(Grown(Used(Widened(Used(r, 1), call.width), 1), fields, bits), 1) = needs
    <2>1. bits \in Nat /\ fields \in Nat
      BY <1>3 DEF More
    <2> HIDE DEF bits, fields
    <2> DEFINE one == 1
               width == call.width
    <2>3. Larger(one, one) = one /\ one \in Nat /\ width \in Nat
      BY <1>3 DEF Larger
    <2> HIDE DEF one, width
    <2>4. Used(r, one) \in NeedTypes
      BY <2>3, NeedsTyped
    <2>5. Used(Grown(Used(Widened(Used(r, one), width), one), fields, bits), one) =
            Counting(Used(r, one), Larger(one, one), width, bits, fields)
      BY <2>1, <2>3, <2>4, NeedsAgree
    <2>6. Counting(Used(r, one), Larger(one, one), width, bits, fields) =
            Counting(r, Larger(one, one), width, bits, fields)
      BY <2>1, <2>3, NeedsAgree
    <2>7. Used(Grown(Used(Widened(Used(r, one), width), one), fields, bits), one) =
            Counting(r, one, width, bits, fields)
      BY <2>3, <2>5, <2>6
    <2> QED
      BY <2>7 DEF one, width
  <1>11. /\ host \in HostFields
         /\ f \o FieldsAt(g3.value, call.flags, FirstOf(b), 1) = Append(f, host)
    <2>1. FirstOf(b) \in Int
      BY DEF FirstOf
    <2> QED
      BY <1>2, <1>6, <2>1, OneField
  <1>12. At(i3, b2, g3, LocalsOf(0, 0, 0), needs, Append(f, host))
    BY <1>9, <1>10, <1>11
  <1>13. Agrees(host, [LayoutOf(call) EXCEPT !.offset = FirstOf(b)])
    BY <1>6, FieldAgrees
  <1>14. b2.report_id = b.report_id
    BY DEF More
  <1> HIDE DEF host, needs
  <1>15. Follows(i3 \o ResetItems(call), b2, needs, Append(f, host))
    <2>1. CASE call.physical = NoPhysical
      <3>1. i3 \o ResetItems(call) = i3
        <4>1. i3 \in Seq(Items)
          BY <1>12 DEF At
        <4> QED
          BY <2>1, <4>1 DEF ResetItems
      <3>2. Quiet(g3, b2)
        BY <1>3, <1>6, <1>14, <2>1 DEF Quiet, NoPhysical
      <3> QED
        BY <1>12, <3>1, <3>2 DEF Follows
    <2>2. CASE call.physical # NoPhysical
      <3> DEFINE g4 == Physically(g3, NoPhysical)
      <3>1. PhysicalFits(NoPhysical)
        BY PhysicalFitsIs
      <3>2. At(i3 \o PhysicalItems(NoPhysical), b2, g4, LocalsOf(0, 0, 0), needs, Append(f, host))
        BY <1>6, <1>12, <3>1, PhysicalRead
      <3>3. /\ NoPhysical.minimum = 0 /\ NoPhysical.maximum = 0 /\ NoPhysical.exponent = 0
            /\ NoPhysical.unit = 0
        BY DEF NoPhysical
      <3>4. /\ g4.value \in Values
            /\ g4.value["physical_minimum"] = 0 /\ g4.value["physical_maximum"] = 0
            /\ g4.value["unit_exponent"] = 0 /\ g4.value["unit"] = 0
            /\ \A t \in GlobalTags \ PhysicalTags : g4.value[t] = g3.value[t]
        BY <1>6, <3>1, <3>3, PhysicallyIs
      <3> HIDE DEF g4
      <3>5. /\ "report_id" \in GlobalTags \ PhysicalTags
            /\ "logical_minimum" \in GlobalTags \ PhysicalTags
            /\ "logical_maximum" \in GlobalTags \ PhysicalTags
        BY DEF GlobalTags, PhysicalTags
      <3>6. Quiet(g4, b2)
        BY <1>3, <1>6, <1>14, <3>4, <3>5 DEF Quiet
      <3>7. i3 \o ResetItems(call) = i3 \o PhysicalItems(NoPhysical)
        BY <2>2 DEF ResetItems
      <3> QED
        BY <3>2, <3>6, <3>7 DEF Follows
    <2> QED
      BY <2>1, <2>2
  <1> QED
    BY <1>4, <1>11, <1>13, <1>15 DEF needs

-----------------------------------------------------------------------------
(* The bits of a range and the padding of a byte *)
RangeCalls ==
  [op : {"range"}, page : Word16, first : Word16, last : Word16, semantic : DataSemantics]

BitItems(call, count) ==
  RangeItems(call) \o Extents(0, 1) \o Sized(1, count, "input", 2)

LEMMA SmallSpans ==
  ASSUME NEW bits \in Nat, NEW size \in Nat, size <= 7, NEW count \in Nat,
         size = 1 \/ count = 1
  PROVE  FieldSpanIsValid(bits, size, count)
  <1> SUFFICES ASSUME NEW field \in 0..(IF count < 8 THEN count ELSE 8) - 1
               PROVE  ((bits + field * size) % 8) + size <= 32
    BY DEF FieldSpanIsValid
  <1>1. field * size \in Int
    OBVIOUS
  <1> DEFINE place == bits + field * size
  <1>2. place \in Int
    BY <1>1
  <1> HIDE DEF place
  <1>3. place % 8 \in 0..7
    BY <1>2
  <1> QED
    BY <1>3 DEF place

LEMMA BitAgrees ==
  ASSUME NEW b, b.input_bits \in Nat, FirstOf(b) = b.input_bits, NEW call \in RangeCalls,
         NEW count \in Nat,
         NEW k \in 1..count, NEW v,
         v["report_size"] = 1, v["logical_minimum"] = 0, v["logical_maximum"] = 1,
         v["physical_minimum"] = 0, v["physical_maximum"] = 0, v["unit_exponent"] = 0,
         v["unit"] = 0
  PROVE  Agrees(FieldAt(v, 2, FirstOf(b) + (k - 1) * 1), BitLayout(b, call, count)[k])
  <1> DEFINE field == BitLayout(b, call, count)[k]
             offset == FirstOf(b) + (k - 1) * 1
             host == FieldAt(v, 2, offset)
  <1>1. /\ field.offset = b.input_bits + k - 1 /\ field.width = 1
        /\ field.semantic = call.semantic /\ field.minimum = 0 /\ field.maximum = 1
        /\ field.null_state = FALSE /\ field.physical = NoPhysical
    BY DEF BitLayout
  <1>2. /\ host.offset = offset /\ host.width = 1 /\ host.constant = Constant(2)
        /\ host.null_state = Flag(2, 64) /\ host.minimum = 0 /\ host.maximum = 1
        /\ host.physical = <<0, 0, SignedNibble(0), 0>>
    BY DEF FieldAt
  <1>3. /\ Constant(2) = FALSE /\ Flag(2, 64) = FALSE
    BY DEF Constant, Flag
  <1>4. call.semantic # "constant_padding"
    BY DEF RangeCalls, DataSemantics
  <1>5. offset = b.input_bits + k - 1
    OBVIOUS
  <1> HIDE DEF field, host, offset
  <1>6. host.constant = (field.semantic = "constant_padding")
    BY <1>1, <1>2, <1>3, <1>4
  <1>7. host.physical = PhysicalOf(field)
    BY <1>1, <1>2 DEF PhysicalOf, NoPhysical, SignedNibble
  <1> QED
    BY <1>1, <1>2, <1>3, <1>5, <1>6, <1>7 DEF Agrees, field, host, offset

\* The provers instantiate a lemma about Cat where one about \o fails them.
Cat(s, t) == s \o t

LEMMA CatThree ==
  ASSUME NEW items \in Seq(Items), NEW u \in Seq(Items), NEW e \in Seq(Items),
         NEW s \in Seq(Items)
  PROVE  /\ Cat(Cat(u, e), s) \in Seq(Items)
         /\ Cat(items, Cat(Cat(u, e), s)) = Cat(Cat(Cat(items, u), e), s)
  BY SMTT(60) DEF Cat

LEMMA RangeJoin ==
  ASSUME NEW items \in Seq(Items), NEW call, call.page \in Nat, call.first \in Nat,
         call.last \in Nat, NEW count \in Nat
  PROVE  /\ BitItems(call, count) \in Seq(Items)
         /\ items \o BitItems(call, count) =
              ((items \o RangeItems(call)) \o Extents(0, 1)) \o Sized(1, count, "input", 2)
  <1> DEFINE u == RangeItems(call)
             e == Extents(0, 1)
             s == Sized(1, count, "input", 2)
  <1>1. u \in Seq(Items) /\ e \in Seq(Items) /\ s \in Seq(Items)
    <2> DEFINE low == 0
               high == 1
               flags == 2
               main == "input"
    <2>1. /\ low \in Int /\ high \in Int /\ low <= high /\ high \in Nat /\ flags \in Nat
          /\ main \in {"input", "feature"}
      OBVIOUS
    <2>2. u \in Seq(Items)
      BY ItemsTyped
    <2> HIDE DEF low, high, flags, main
    <2>3. Extents(low, high) \in Seq(Items)
      BY <2>1, ItemsTyped
    <2>4. Sized(high, count, main, flags) \in Seq(Items)
      BY <2>1, ItemsTyped
    <2> QED
      BY <2>2, <2>3, <2>4 DEF low, high, flags, main
  <1> HIDE DEF u, e, s
  <1>2. /\ Cat(Cat(u, e), s) \in Seq(Items)
        /\ Cat(items, Cat(Cat(u, e), s)) = Cat(Cat(Cat(items, u), e), s)
    BY <1>1, CatThree
  <1>3. /\ (u \o e) \o s \in Seq(Items)
        /\ items \o ((u \o e) \o s) = ((items \o u) \o e) \o s
    BY <1>2, Zenon DEF Cat
  <1> QED
    BY <1>3 DEF BitItems, u, e, s

LEMMA BitsWritten ==
  ASSUME NEW items, NEW b, NEW r \in NeedTypes, NEW f, Follows(items, b, r, f), Empty(b),
         b.data_bits.input \in Nat, b.data_fields.input \in Nat, b.input_bits \in Nat,
         FirstOf(b) = b.input_bits, b.collection_depth \in Nat \ {0},
         NEW call \in RangeCalls, call.first <= call.last,
         NEW count, count = call.last - call.first + 1,
         NEW b2, More(b, b2, 1, count, count)
  PROVE  \E fields \in Seq(HostFields) :
           /\ Follows(items \o BitItems(call, count), b2,
                      Counting(r, count, 1, b2.data_bits.input, b2.data_fields.input),
                      f \o fields)
           /\ Len(fields) = count
           /\ \A k \in 1..count : Agrees(fields[k], BitLayout(b, call, count)[k])
  <1>1. PICK g : Quiet(g, b) /\ At(items, b, g, LocalsOf(0, 0, 0), r, f)
    BY DEF Follows
  <1>2. items \in Seq(Items) /\ f \in Seq(HostFields)
    BY <1>1 DEF At
  <1>3. /\ call.page \in Word16 /\ call.first \in Word16 /\ call.page \in Nat
        /\ call.first \in Nat /\ call.last \in Nat /\ count \in Nat /\ count # 0
    <2>1. call.page \in Word16 /\ call.first \in Word16 /\ call.last \in Word16
      BY DEF RangeCalls
    <2> QED
      BY <2>1, WordIs
  <1> DEFINE low == 0
             high == 1
             size == 1
             flags == 2
             g1 == Put(g, "usage_page", call.page)
             g2 == Ranged(g1, low, high)
             g3 == Scaled(g2, size, count)
             i1 == items \o RangeItems(call)
             i2 == i1 \o Extents(low, high)
             i3 == i2 \o Sized(size, count, "input", flags)
             bits == b2.data_bits.input
             number == b2.data_fields.input
             fields == FieldsAt(g3.value, flags, FirstOf(b), count)
  <1>4. /\ low \in Int /\ high \in Int /\ low <= high /\ size \in Nat /\ flags \in Nat
    OBVIOUS
  <1>5. PICK locals : At(i1, b, g1, LocalsOf(count, call.first, locals), Used(r, count), f)
    BY <1>1, <1>3, RangeRead
  <1>6. g1.value \in Values
    <2>1. "usage_page" \in GlobalTags /\ g.value \in Values
      BY <1>1 DEF GlobalTags, Quiet
    <2> QED
      BY <1>3, <2>1, PutIs
  <1>7. /\ g2.value \in Values
        /\ g2.value["logical_minimum"] = low /\ g2.value["logical_maximum"] = high
        /\ g2.value["report_id"] = b.report_id
        /\ g2.value["physical_minimum"] = 0 /\ g2.value["physical_maximum"] = 0
        /\ g2.value["unit_exponent"] = 0 /\ g2.value["unit"] = 0
        /\ Extensive \subseteq g2.declared
    <2> HIDE DEF low, high
    <2>1. g.value \in Values /\ call.page \in Int
      BY <1>1, <1>3 DEF Quiet
    <2> HIDE DEF g2
    <2>2. g2 = Ranged(Put(g, "usage_page", call.page), low, high)
      BY DEF g2
    <2> QED
      BY <1>1, <1>4, <2>1, <2>2, RangedIs DEF Quiet
  <1> HIDE DEF i1, g1
  <1>8. At(i2, b, g2, LocalsOf(count, call.first, locals), Used(r, count), f)
    <2> HIDE DEF low, high
    <2> QED
      BY <1>4, <1>5, <1>6, ExtentsRead
  <1> HIDE DEF i2, g2
  <1>9. /\ g3.value \in Values /\ g2.declared \subseteq g3.declared
        /\ g3.value["report_size"] = size /\ g3.value["report_count"] = count
        /\ \A t \in GlobalTags \ {"report_size", "report_count"} : g3.value[t] = g2.value[t]
    <2> HIDE DEF size, g3
    <2>1. g3 = Scaled(g2, size, count)
      BY DEF g3
    <2> QED
      BY <1>3, <1>4, <1>7, <2>1, ScaledIs
  <1> HIDE DEF g3
  <1>10. /\ g3.value["logical_minimum"] = 0 /\ g3.value["logical_maximum"] = 1
         /\ g3.value["report_id"] = b.report_id
         /\ g3.value["physical_minimum"] = 0 /\ g3.value["physical_maximum"] = 0
         /\ g3.value["unit_exponent"] = 0 /\ g3.value["unit"] = 0
    BY <1>7, <1>9 DEF GlobalTags
  <1>11. RawRangeIsOrdered(0, 1) /\ RawValueFits(0, 1, 1)
    BY DEF RawRangeIsOrdered, UnsignedLE, RawValueFits, FitsUnsigned
  <1>12. Admits(b, g3, count, flags)
    <2>1. FieldSpanIsValid(b.data_bits.input, 1, count)
      BY <1>3, SmallSpans
    <2> QED
      BY <1>3, <1>7, <1>9, <1>10, <1>11, <2>1 DEF Admits
  <1>13. At(i3, b2, g3, LocalsOf(0, 0, 0),
            Used(Grown(Used(Widened(Used(r, count), size), count), number, bits), count),
            f \o fields)
    <2>1. g3 = Scaled(g2, size, count) /\ More(b, b2, size, count, count)
      BY DEF g3
    <2> HIDE DEF size, flags, number, bits
    <2> QED
      BY <1>3, <1>4, <1>7, <1>8, <1>12, <2>1, SizedRead DEF bits, number
  <1>14. Used(Grown(Used(Widened(Used(r, count), size), count), number, bits), count) =
           Counting(r, count, size, bits, number)
    <2>1. bits \in Nat
      <3>1. bits = b.data_bits.input + 1 * count
        BY DEF More
      <3> QED
        BY <1>3, <3>1
    <2>0. number \in Nat
      <3>1. number = b.data_fields.input + (IF count # 0 THEN 1 ELSE 0)
        BY DEF More
      <3> QED
        BY <1>3, <3>1
    <2> HIDE DEF bits, number, size
    <2>2. Used(r, count) \in NeedTypes /\ Larger(count, count) = count
      BY <1>3, NeedsTyped DEF Larger
    <2>3. Used(Grown(Used(Widened(Used(r, count), size), count), number, bits), count) =
            Counting(Used(r, count), Larger(count, count), size, bits, number)
      BY <1>3, <1>4, <2>0, <2>1, <2>2, NeedsAgree, SMTT(60)
    <2>4. Counting(Used(r, count), Larger(count, count), size, bits, number) =
            Counting(r, Larger(count, count), size, bits, number)
      BY <1>3, <1>4, <2>0, <2>1, NeedsAgree
    <2> QED
      BY <2>2, <2>3, <2>4
  <1>15. /\ fields \in Seq(HostFields) /\ Len(fields) = count
         /\ \A k \in 1..count :
              fields[k] = FieldAt(g3.value, flags, FirstOf(b) + (k - 1) * g3.value["report_size"])
    <2>1. FirstOf(b) \in Int
      BY DEF FirstOf
    <2> HIDE DEF flags, fields
    <2>2. fields = FieldsAt(g3.value, flags, FirstOf(b), count)
      BY DEF fields
    <2> QED
      BY <1>3, <1>9, <2>1, <2>2, FieldsType, SMTT(60)
  <1>16. \A k \in 1..count : Agrees(fields[k], BitLayout(b, call, count)[k])
    <2> SUFFICES ASSUME NEW k \in 1..count
                 PROVE  Agrees(fields[k], BitLayout(b, call, count)[k])
      OBVIOUS
    <2> HIDE DEF fields
    <2>1. fields[k] = FieldAt(g3.value, 2, FirstOf(b) + (k - 1) * 1)
      BY <1>9, <1>15
    <2> QED
      BY <1>3, <1>9, <1>10, <2>1, BitAgrees
  <1>17. items \o BitItems(call, count) = i3
    BY <1>2, <1>3, RangeJoin, ZenonT(60) DEF i1, i2
  <1>18. Quiet(g3, b2)
    BY <1>9, <1>10, <1>11 DEF Quiet, More
  <1> HIDE DEF i3, fields, g3, bits, number
  <1>19. Follows(i3, b2, Counting(r, count, 1, bits, number), f \o fields)
    BY <1>13, <1>14, <1>18 DEF Follows
  <1> QED
    BY <1>15, <1>16, <1>17, <1>19 DEF bits, number

(* The padding of the report, whose flags say Constant. *)
PadLayout(bits) ==
  [offset |-> 0, semantic |-> "constant_padding", instance |-> 0, width |-> bits,
   minimum |-> 0, maximum |-> 0, physical |-> NoPhysical, null_state |-> FALSE]

(* The place AddLayout gives a field. *)
Placed(field, offset) == [field EXCEPT !.offset = offset]

LEMMA PadAgrees ==
  ASSUME NEW v, NEW bits, v["report_size"] = bits, NEW first
  PROVE  Agrees(FieldAt(v, 1, first), Placed(PadLayout(bits), first))
  <1> DEFINE field == Placed(PadLayout(bits), first)
             host == FieldAt(v, 1, first)
  <1>1. field.offset = first /\ field.width = bits /\ field.semantic = "constant_padding"
    BY DEF PadLayout, Placed
  <1>2. host.offset = first /\ host.width = bits /\ host.constant = Constant(1)
    BY DEF FieldAt
  <1>3. Constant(1) = TRUE
    BY DEF Constant, Flag
  <1> HIDE DEF field, host
  <1>4. Agrees(host, field)
    BY <1>1, <1>2, <1>3 DEF Agrees
  <1> QED
    BY <1>4 DEF field, host

LEMMA PadRead ==
  ASSUME NEW items, NEW b, NEW r \in NeedTypes, NEW f, Follows(items, b, r, f), Empty(b),
         b.data_bits.input \in Nat, b.data_fields.input \in Nat,
         b.collection_depth \in Nat \ {0}, NEW size, size \in Nat, size # 0, size <= 7,
         NEW b2, More(b, b2, size, 1, 0)
  PROVE  \E host \in HostFields :
           /\ Follows(items \o Sized(size, 1, "input", 1), b2,
                      Counting(r, 1, size, b2.data_bits.input, b2.data_fields.input),
                      Append(f, host))
           /\ Agrees(host, Placed(PadLayout(size), FirstOf(b)))
  <1>1. PICK g : Quiet(g, b) /\ At(items, b, g, LocalsOf(0, 0, 0), r, f)
    BY DEF Follows
  <1>2. items \in Seq(Items) /\ f \in Seq(HostFields) /\ g.value \in Values
    BY <1>1 DEF At, Quiet
  <1> DEFINE none == 0
             one == 1
             width == size
             g2 == Scaled(g, width, one)
             i2 == items \o Sized(width, one, "input", one)
             bits == b2.data_bits.input
             fields == b2.data_fields.input
             host == FieldAt(g2.value, one, FirstOf(b))
  <1>3. none \in Nat /\ one \in Nat /\ width \in Nat /\ one # 0
    OBVIOUS
  <1>4. /\ g2.value \in Values
        /\ g2.value["report_size"] = width /\ g2.value["report_count"] = one
        /\ \A t \in GlobalTags \ {"report_size", "report_count"} : g2.value[t] = g.value[t]
    <2> HIDE DEF one, width, g2
    <2>1. g2 = Scaled(g, width, one)
      BY DEF g2
    <2>2. width \in Int /\ one \in Int
      BY <1>3
    <2>3. g.value \in Values
      BY <1>2
    <2> HIDE DEF none
    <2>4. /\ g2.value \in Values
          /\ g2.value["report_size"] = width /\ g2.value["report_count"] = one
      BY <2>1, <2>2, <2>3, ScaledIs
    <2>5. \A t \in GlobalTags \ {"report_size", "report_count"} : g2.value[t] = g.value[t]
      BY <2>1, <2>2, <2>3, ScaledIs
    <2> QED
      BY <2>4, <2>5
  <1> HIDE DEF g2
  <1>5. /\ g2.value["report_id"] = b.report_id /\ g2.value["unit"] = 0
        /\ g2.value["unit_exponent"] = 0
        /\ g2.value["physical_minimum"] = 0 /\ g2.value["physical_maximum"] = 0
        /\ RawRangeIsOrdered(g2.value["logical_minimum"], g2.value["logical_maximum"])
    BY <1>1, <1>4 DEF Quiet, GlobalTags
  <1>6. Admits(b, g2, none, one)
    <2>1. FieldSpanIsValid(b.data_bits.input, width, one)
      BY SmallSpans
    <2> QED
      BY <1>4, <1>5, <2>1 DEF Admits
  <1>7. At(i2, b2, g2, LocalsOf(0, 0, 0),
           Used(Grown(Used(Widened(r, width), one), fields, bits), none),
           f \o FieldsAt(g2.value, one, FirstOf(b), one))
    <2>1. At(items, b, g, LocalsOf(none, none, none), r, f) /\ More(b, b2, width, one, none)
      BY <1>1
    <2>2. g2 = Scaled(g, width, one)
      BY DEF g2
    <2> HIDE DEF one, width, none
    <2> QED
      BY <1>2, <1>3, <1>6, <2>1, <2>2, SizedRead
  <1>8. Used(Grown(Used(Widened(r, width), one), fields, bits), none) =
          Counting(r, one, width, bits, fields)
    <2>1. bits \in Nat /\ fields \in Nat
      BY DEF More
    <2>2. Larger(none, one) = one
      BY DEF Larger
    <2> HIDE DEF bits, fields, one, width, none
    <2>3. Used(Grown(Used(Widened(r, width), one), fields, bits), none) =
            Counting(r, Larger(none, one), width, bits, fields)
      BY <1>3, <2>1, NeedsAgree
    <2> QED
      BY <2>2, <2>3
  <1>9. host \in HostFields /\ f \o FieldsAt(g2.value, one, FirstOf(b), one) = Append(f, host)
    <2>1. FirstOf(b) \in Int
      BY DEF FirstOf
    <2> QED
      BY <1>2, <1>4, <2>1, OneField
  <1>10. Quiet(g2, b2)
    BY <1>4, <1>5 DEF Quiet, More
  <1>11. Agrees(host, Placed(PadLayout(size), FirstOf(b)))
    BY <1>4, PadAgrees
  <1> HIDE DEF host, i2
  <1>12. Follows(i2, b2, Counting(r, one, width, bits, fields), Append(f, host))
    BY <1>7, <1>8, <1>9, <1>10 DEF Follows
  <1> QED
    BY <1>9, <1>11, <1>12 DEF i2

-----------------------------------------------------------------------------
(* Collections, the Report ID and Feature items *)
BeginCalls == [op : {"begin"}, page : Word16, usage : Word16, collection : {0, 1, 2}]

BeginItems(call) == Usages(call) \o <<UnsignedItem("collection", call.collection)>>

LEMMA QuietPage ==
  ASSUME NEW b, NEW g, Quiet(g, b), NEW page \in Int, NEW b2, b2.report_id = b.report_id
  PROVE  Quiet(Put(g, "usage_page", page), b2)
  <1> DEFINE g2 == Put(g, "usage_page", page)
  <1>1. "usage_page" \in GlobalTags /\ g.value \in Values
    BY DEF GlobalTags, Quiet
  <1>2. g2.value \in Values /\ \A t \in GlobalTags : t # "usage_page" => g2.value[t] = g.value[t]
    BY <1>1, PutIs
  <1> HIDE DEF g2
  <1>3. Quiet(g2, b2)
    BY <1>2 DEF Quiet, GlobalTags
  <1> QED
    BY <1>3 DEF g2

LEMMA UsedTwice ==
  ASSUME NEW r \in NeedTypes
  PROVE  Used(Used(r, 1), 1) = Used(r, 1) /\ Used(r, 1) \in NeedTypes
  <1>1. Larger(Larger(r.usages, 1), 1) = Larger(r.usages, 1) /\ Larger(r.usages, 1) \in Nat
    BY DEF Larger, NeedTypes
  <1> QED
    BY <1>1 DEF Used, NeedTypes

LEMMA BeginRead ==
  ASSUME NEW items, NEW b, NEW r \in NeedTypes, NEW f, Follows(items, b, r, f),
         NEW call \in BeginCalls, b.collection_depth \in Nat,
         b.collection_depth = 0 => call.collection = 1 /\ ~b.top_level_application_seen,
         b.collection_depth # 0 => b.top_level_application_seen,
         NEW b2, b2.collection_depth = b.collection_depth + 1, b2.top_level_application_seen,
         ParsedOf(b2) = ParsedOf(b), b2.report_id = b.report_id, SawMain(b2) = SawMain(b)
  PROVE  Follows(items \o BeginItems(call), b2, Used(r, 1), f)
  <1>1. PICK g : Quiet(g, b) /\ At(items, b, g, LocalsOf(0, 0, 0), r, f)
    BY DEF Follows
  <1> DEFINE item == UnsignedItem("collection", call.collection)
             g2 == Put(g, "usage_page", call.page)
             i1 == items \o Usages(call)
             i2 == Append(i1, item)
  <1>2. /\ call.page \in Word16 /\ call.page \in Nat /\ call.page \in Int /\ call.usage \in Nat
        /\ call.collection \in {0, 1, 2} /\ call.collection \in Nat
    BY WordIs DEF BeginCalls
  <1>3. item \in Items /\ item.tag = "collection" /\ item.data = call.collection
    <2>1. "collection" \in Tags
      BY DEF Tags, MainTags
    <2> QED
      BY <1>2, <2>1, UnsignedReadBack
  <1>4. At(i1, b, g2, LocalsOf(1, 0, 0), Used(r, 1), f)
    BY <1>1, <1>2, UsagesRead
  <1> HIDE DEF item, g2, i1
  <1>5. HasIds(b2) = HasIds(b)
    BY DEF HasIds
  <1>6. At(i2, b2, g2, LocalsOf(0, 0, 0), Used(Used(r, 1), 1), f)
    BY <1>2, <1>3, <1>4, <1>5, CollectionRead
  <1>7. Quiet(g2, b2)
    BY <1>1, <1>2, QuietPage DEF g2
  <1>8. Used(Used(r, 1), 1) = Used(r, 1)
    BY UsedTwice
  <1>9. i2 = items \o BeginItems(call)
    <2>1. items \in Seq(Items)
      BY <1>1 DEF At
    <2>2. Usages(call) \in Seq(Items)
      BY <1>2, ItemsTyped
    <2>3. <<item>> \in Seq(Items)
      BY <1>3
    <2>4. items \o (Usages(call) \o <<item>>) = (items \o Usages(call)) \o <<item>>
      BY <2>1, <2>2, <2>3, JoinAll
    <2>5. i1 \in Seq(Items)
      BY <1>4 DEF At
    <2>6. i1 \o <<item>> = i2
      BY <1>3, <2>5
    <2> QED
      BY <2>4, <2>6 DEF BeginItems, item, i1
  <1> HIDE DEF i2
  <1>10. Follows(i2, b2, Used(r, 1), f)
    BY <1>6, <1>7, <1>8 DEF Follows
  <1> QED
    BY <1>9, <1>10

LEMMA CloseRead ==
  ASSUME NEW items, NEW b, NEW r \in NeedTypes, NEW f, Follows(items, b, r, f),
         b.collection_depth \in Nat \ {0}, b.top_level_application_seen,
         NEW b2, b2.collection_depth = b.collection_depth - 1, b2.top_level_application_seen,
         ParsedOf(b2) = ParsedOf(b), b2.report_id = b.report_id, SawMain(b2) = SawMain(b)
  PROVE  Follows(items \o <<BareItem("end_collection")>>, b2, r, f)
  <1>1. PICK g : Quiet(g, b) /\ At(items, b, g, LocalsOf(0, 0, 0), r, f)
    BY DEF Follows
  <1> DEFINE item == BareItem("end_collection")
  <1>2. item \in Items /\ item.tag = "end_collection"
    BY DEF BareItem, Item, Items, Tags, MainTags
  <1>3. items \in Seq(Items)
    BY <1>1 DEF At
  <1> HIDE DEF item
  <1>4. HasIds(b2) = HasIds(b) /\ Quiet(g, b2)
    BY <1>1 DEF HasIds, Quiet
  <1>5. At(Append(items, item), b2, g, LocalsOf(0, 0, 0), r, f)
    BY <1>1, <1>2, <1>4, EndRead
  <1>6. items \o <<item>> = Append(items, item)
    BY <1>2, <1>3
  <1> QED
    BY <1>4, <1>5, <1>6 DEF Follows, item

LEMMA IdRead ==
  ASSUME NEW items, NEW b, NEW r, NEW f, Follows(items, b, r, f),
         NEW id \in Word8, id # 0, Len(b.fields) = 0,
         NEW b2, b2.report_id = id, ParsedOf(b2) = ParsedOf(b),
         b2.collection_depth = b.collection_depth,
         b2.top_level_application_seen = b.top_level_application_seen, SawMain(b2) = SawMain(b)
  PROVE  Follows(items \o <<UnsignedItem("report_id", id)>>, b2, r, f)
  <1>1. PICK g : Quiet(g, b) /\ At(items, b, g, LocalsOf(0, 0, 0), r, f)
    BY DEF Follows
  <1> DEFINE item == UnsignedItem("report_id", id)
             g2 == Put(g, "report_id", id)
  <1>2. id \in Nat /\ id \in Int /\ g.value \in Values /\ items \in Seq(Items)
    BY <1>1, WordIs DEF Quiet, At
  <1>3. "report_id" \in Tags /\ "report_id" \in GlobalTags /\ "report_id" \in UnsignedTags
    BY DEF Tags, GlobalTags, UnsignedTags
  <1>4. item \in Items /\ item.tag = "report_id" /\ item.data = id
    BY <1>2, <1>3, UnsignedReadBack
  <1>5. /\ g2.value \in Values /\ g2.value["report_id"] = id
        /\ \A t \in GlobalTags : t # "report_id" => g2.value[t] = g.value[t]
    BY <1>2, <1>3, PutIs
  <1> HIDE DEF item, g2
  <1>6. Declare(g, item) = g2
    BY <1>3, <1>4, DeclareUnsigned DEF g2
  <1>7. Tops(b2) = Tops(b) /\ Top(b2) = Top(b)
    BY DEF Tops, Top
  <1>8. At(Append(items, item), b2, g2, LocalsOf(0, 0, 0), r, f)
    BY <1>1, <1>4, <1>6, <1>7, ReportIdRead
  <1>9. Quiet(g2, b2)
    BY <1>1, <1>5 DEF Quiet, GlobalTags
  <1>10. items \o <<item>> = Append(items, item)
    BY <1>2, <1>4
  <1> QED
    BY <1>8, <1>9, <1>10 DEF Follows, item

FeatureCalls ==
  {call \in [op : {"feature"}, page : Word16, usage : Word16, minimum : Int, maximum : Int,
             width : Nat] : call.minimum <= call.maximum}

FeatureItems(call) ==
  Usages(call) \o Extents(call.minimum, call.maximum) \o Sized(call.width, 1, "feature", 3)

LEMMA ThreeRead ==
  ASSUME NEW items, NEW b, NEW g, g.value \in Values, NEW l, NEW r, NEW f,
         At(items, b, g, l, r, f), NEW size \in Nat, NEW count \in Nat, NEW flags \in Nat
  PROVE  At(items \o Sized(size, count, "feature", flags), b, Scaled(g, size, count),
            LocalsOf(0, 0, 0), Used(Widened(r, size), count), f)
  <1> DEFINE i1 == UnsignedItem("report_size", size)
             i2 == UnsignedItem("report_count", count)
             i3 == UnsignedItem("feature", flags)
             g2 == Scaled(g, size, count)
             r2 == Used(Widened(r, size), count)
  <1>1. "report_size" \in Tags /\ "report_count" \in Tags /\ "feature" \in Tags
    BY DEF Tags, GlobalTags
  <1>2. i1 \in Items /\ i2 \in Items /\ i3 \in Items /\ i3.tag = "feature"
    BY <1>1, UnsignedReadBack
  <1>3. At(Append(Append(items, i1), i2), b, g2, l, r2, f)
    BY SizesRead
  <1> HIDE DEF i1, i2, i3, r2, g2
  <1>4. At(Append(Append(Append(items, i1), i2), i3), b, g2, LocalsOf(0, 0, 0), r2, f)
    BY <1>2, <1>3, FeatureRead
  <1>5. items \o <<i1, i2, i3>> = Append(Append(Append(items, i1), i2), i3)
    <2>1. items \in Seq(Items)
      BY DEF At
    <2> QED
      BY <1>2, <2>1
  <1>6. Sized(size, count, "feature", flags) = <<i1, i2, i3>>
    BY DEF Sized, i1, i2, i3
  <1> QED
    BY <1>4, <1>5, <1>6 DEF r2, g2

LEMMA JoinedAt ==
  ASSUME NEW C, NEW s \in Seq(C), NEW t \in Seq(C), NEW k \in 1..Len(t)
  PROVE  \E j \in DOMAIN (s \o t) : j = Len(s) + k /\ (s \o t)[j] = t[k]
  OBVIOUS

LEMMA FeatureJoin ==
  ASSUME NEW items \in Seq(Items), NEW call \in FeatureCalls
  PROVE  /\ FeatureItems(call) \in Seq(Items)
         /\ items \o FeatureItems(call) =
              ((items \o Usages(call)) \o Extents(call.minimum, call.maximum))
              \o Sized(call.width, 1, "feature", 3)
  <1> DEFINE u == Usages(call)
             e == Extents(call.minimum, call.maximum)
             s == Sized(call.width, 1, "feature", 3)
  <1>1. u \in Seq(Items) /\ e \in Seq(Items) /\ s \in Seq(Items)
    <2> DEFINE one == 1
               flags == 3
               main == "feature"
    <2>1. /\ call.page \in Nat /\ call.usage \in Nat /\ call.minimum \in Int
          /\ call.maximum \in Int /\ call.minimum <= call.maximum /\ call.width \in Nat
          /\ one \in Nat /\ flags \in Nat /\ main \in {"input", "feature"}
      BY WordIs DEF FeatureCalls
    <2> HIDE DEF one, flags, main
    <2>2. u \in Seq(Items) /\ e \in Seq(Items)
      BY <2>1, ItemsTyped
    <2>3. Sized(call.width, one, main, flags) \in Seq(Items)
      BY <2>1, ItemsTyped
    <2> QED
      BY <2>2, <2>3 DEF one, flags, main
  <1> HIDE DEF u, e, s
  <1>2. /\ Cat(Cat(u, e), s) \in Seq(Items)
        /\ Cat(items, Cat(Cat(u, e), s)) = Cat(Cat(Cat(items, u), e), s)
    BY <1>1, CatThree
  <1>3. /\ (u \o e) \o s \in Seq(Items)
        /\ items \o ((u \o e) \o s) = ((items \o u) \o e) \o s
    BY <1>2, Zenon DEF Cat
  <1> QED
    BY <1>3 DEF FeatureItems, u, e, s

LEMMA FeatureValueRead ==
  ASSUME NEW items, NEW b, NEW r \in NeedTypes, NEW f, Follows(items, b, r, f),
         NEW call \in FeatureCalls
  PROVE  /\ \E needs \in NeedTypes : Follows(items \o FeatureItems(call), b, needs, f)
         /\ HasFeature(items \o FeatureItems(call))
  <1>1. PICK g : Quiet(g, b) /\ At(items, b, g, LocalsOf(0, 0, 0), r, f)
    BY DEF Follows
  <1>2. items \in Seq(Items)
    BY <1>1 DEF At
  <1>3. /\ call.page \in Word16 /\ call.page \in Int /\ call.usage \in Nat
        /\ call.minimum \in Int /\ call.maximum \in Int /\ call.minimum <= call.maximum
        /\ call.width \in Nat
    BY WordIs DEF FeatureCalls
  <1> DEFINE one == 1
             flags == 3
             h == Put(g, "usage_page", call.page)
             g1 == Ranged(h, call.minimum, call.maximum)
             g2 == Scaled(g1, call.width, one)
             i0 == items \o Usages(call)
             i1 == i0 \o Extents(call.minimum, call.maximum)
             i2 == i1 \o Sized(call.width, one, "feature", flags)
             needs == Used(Widened(Used(r, one), call.width), one)
  <1>4. one \in Nat /\ flags \in Nat /\ call.width \in Int /\ one \in Int
    BY <1>3
  <1>5. At(i0, b, h, LocalsOf(1, 0, 0), Used(r, 1), f)
    BY <1>1, <1>3, UsagesRead
  <1>6. h.value \in Values
    <2>1. "usage_page" \in GlobalTags /\ g.value \in Values
      BY <1>1 DEF GlobalTags, Quiet
    <2> QED
      BY <1>3, <2>1, PutIs
  <1>7. /\ g1.value \in Values
        /\ g1.value["logical_minimum"] = call.minimum
        /\ g1.value["logical_maximum"] = call.maximum
        /\ g1.value["report_id"] = b.report_id
        /\ g1.value["physical_minimum"] = 0 /\ g1.value["physical_maximum"] = 0
        /\ g1.value["unit_exponent"] = 0 /\ g1.value["unit"] = 0
    <2> HIDE DEF g1
    <2>1. g1 = Ranged(Put(g, "usage_page", call.page), call.minimum, call.maximum)
      BY DEF g1, h
    <2>2. g.value \in Values
      BY <1>1 DEF Quiet
    <2> HIDE DEF h
    <2>3. /\ g1.value \in Values
          /\ g1.value["logical_minimum"] = call.minimum
          /\ g1.value["logical_maximum"] = call.maximum
          /\ g1.value["report_id"] = g.value["report_id"]
          /\ g1.value["physical_minimum"] = g.value["physical_minimum"]
          /\ g1.value["physical_maximum"] = g.value["physical_maximum"]
          /\ g1.value["unit_exponent"] = g.value["unit_exponent"]
          /\ g1.value["unit"] = g.value["unit"]
      BY <1>3, <2>1, <2>2, RangedIs
    <2> QED
      BY <1>1, <2>3 DEF Quiet
  <1> HIDE DEF h, i0
  <1>8. At(i1, b, g1, LocalsOf(1, 0, 0), Used(r, 1), f)
    BY <1>3, <1>5, <1>6, ExtentsRead
  <1> HIDE DEF g1, i1
  <1>9. At(i2, b, g2, LocalsOf(0, 0, 0), needs, f)
    <2>1. At(i1, b, g1, LocalsOf(1, 0, 0), Used(r, one), f)
      BY <1>8
    <2> HIDE DEF one, flags
    <2> QED
      BY <1>3, <1>4, <1>7, <2>1, ThreeRead
  <1>10. Quiet(g2, b)
    <2>0. RawRangeIsOrdered(call.minimum, call.maximum)
      BY <1>3 DEF RawRangeIsOrdered, UnsignedLE
    <2> HIDE DEF one, g2
    <2>1. g2 = Scaled(g1, call.width, one)
      BY DEF g2
    <2>2. /\ g2.value \in Values
          /\ \A t \in GlobalTags \ {"report_size", "report_count"} : g2.value[t] = g1.value[t]
      BY <1>4, <1>7, <2>1, ScaledIs
    <2> QED
      BY <1>7, <2>0, <2>2 DEF Quiet, GlobalTags
  <1>11. needs \in NeedTypes
    <2> HIDE DEF one
    <2>1. Used(r, one) \in NeedTypes
      BY <1>4, NeedsTyped
    <2>2. Widened(Used(r, one), call.width) \in NeedTypes
      BY <1>3, <2>1, NeedsTyped
    <2> QED
      BY <1>4, <2>2, NeedsTyped
  <1>12. i2 = items \o FeatureItems(call)
    BY <1>2, FeatureJoin DEF i0, i1
  <1>13. HasFeature(i2)
    <2>1. i1 \in Seq(Items) /\ i2 \in Seq(Items)
      BY <1>8, <1>9 DEF At
    <2> DEFINE s == Sized(call.width, one, "feature", flags)
    <2>2. Len(s) = 3 /\ s[3] = UnsignedItem("feature", flags)
      BY DEF Sized
    <2>3. "feature" \in Tags
      BY DEF Tags
    <2>4. s[3].tag = "feature"
      BY <1>4, <2>2, <2>3, UnsignedReadBack
    <2>5. s \in Seq(Items)
      <3> DEFINE main == "feature"
      <3>1. main \in {"input", "feature"}
        OBVIOUS
      <3> HIDE DEF one, flags, main
      <3>2. Sized(call.width, one, main, flags) \in Seq(Items)
        BY <1>3, <1>4, <3>1, ItemsTyped
      <3> QED
        BY <3>2 DEF main
    <2> HIDE DEF s, one, flags
    <2>6. PICK j \in DOMAIN (i1 \o s) : (i1 \o s)[j] = s[3]
      <3> DEFINE k == 3
      <3>1. k \in 1..Len(s)
        BY <2>2
      <3> HIDE DEF k
      <3>2. \E j \in DOMAIN (i1 \o s) : j = Len(i1) + k /\ (i1 \o s)[j] = s[k]
        BY <2>1, <2>5, <3>1, JoinedAt, SMTT(60)
      <3> QED
        BY <3>2 DEF k
    <2>7. (i1 \o s)[j].tag = "feature"
      BY <2>4, <2>6
    <2>8. i2 = i1 \o s
      BY DEF s
    <2> HIDE DEF i2
    <2> QED
      BY <2>6, <2>7, <2>8 DEF HasFeature
  <1> HIDE DEF i2, g2, needs
  <1>14. Follows(i2, b, needs, f)
    BY <1>9, <1>10 DEF Follows
  <1> QED
    BY <1>11, <1>12, <1>13, <1>14

(* The host tells apart no more of a builder than this.                     *)
Alike(b, b2) ==
  /\ ParsedOf(b2) = ParsedOf(b) /\ b2.collection_depth = b.collection_depth
  /\ Tops(b2) = Tops(b) /\ b2.report_id = b.report_id /\ SawMain(b2) = SawMain(b)

LEMMA AlikeRead ==
  ASSUME NEW items, NEW b, NEW b2, NEW r, NEW f, Follows(items, b, r, f), Alike(b, b2)
  PROVE  Follows(items, b2, r, f)
  <1>1. PICK g : Quiet(g, b) /\ At(items, b, g, LocalsOf(0, 0, 0), r, f)
    BY DEF Follows
  <1>2. Top(b2) = Top(b) /\ HasIds(b2) = HasIds(b)
    BY DEF Alike, Top, HasIds
  <1>3. ParserOf(b2, g, LocalsOf(0, 0, 0), r) = ParserOf(b, g, LocalsOf(0, 0, 0), r)
    BY <1>2 DEF Alike, ParserOf
  <1>4. At(items, b2, g, LocalsOf(0, 0, 0), r, f)
    BY <1>1, <1>3 DEF At, Alike
  <1>5. Quiet(g, b2)
    BY <1>1 DEF Quiet, Alike
  <1> QED
    BY <1>4, <1>5 DEF Follows

-----------------------------------------------------------------------------
(* What each call leaves in a builder that stays good *)

(* The members of a builder that no item changes by itself.                 *)
Collections(b) == <<b.collection_depth, b.top_level_application_seen>>
Identity(b) == <<b.report_id_decided, b.report_id>>
Report(b) == <<b.data_main_emitted, b.input_bits, b.fields, b.data_bits, b.data_fields>>

LEMMA WrittenParts ==
  ASSUME NEW b \in Builders, NEW items \in Seq(Items), NEW b2, b2 = Write(b, items), b2.good
  PROVE  /\ b.good /\ b2 \in Builders /\ b2.items = b.items \o items
         /\ Collections(b2) = Collections(b) /\ Identity(b2) = Identity(b)
         /\ Report(b2) = Report(b) /\ b2.requirements = b.requirements
  <1>1. /\ b2 \in Builders /\ b.good
        /\ b2 = [b EXCEPT !.items = b.items \o items, !.size = b2.size]
    BY Written
  <1>2. /\ b2.items = b.items \o items /\ b2.requirements = b.requirements
        /\ b2.collection_depth = b.collection_depth
        /\ b2.top_level_application_seen = b.top_level_application_seen
        /\ b2.report_id_decided = b.report_id_decided /\ b2.report_id = b.report_id
        /\ b2.data_main_emitted = b.data_main_emitted /\ b2.input_bits = b.input_bits
        /\ b2.fields = b.fields /\ b2.data_bits = b.data_bits /\ b2.data_fields = b.data_fields
    BY <1>1 DEF Builders
  <1> QED
    BY <1>1, <1>2 DEF Collections, Identity, Report

LEMMA FailedIs ==
  ASSUME NEW b \in Builders
  PROVE  ~Fail(b).good /\ Fail(b) \in Builders
  BY DEF Fail, Builders

LEMMA ObservedParts ==
  ASSUME NEW b \in Builders, NEW count \in Nat, NEW b2, b2 = ObserveUsages(b, count)
  PROVE  /\ b2 \in Builders /\ b2.good = b.good /\ b2.items = b.items
         /\ Collections(b2) = Collections(b) /\ Identity(b2) = Identity(b)
         /\ Report(b2) = Report(b) /\ b2.requirements = Used(b.requirements, count)
  <1>1. Used(b.requirements, count) \in NeedTypes
    BY NeedsTyped DEF Builders
  <1>2. b2 = [b EXCEPT !.requirements = Used(b.requirements, count)]
    BY DEF ObserveUsages, Used
  <1>3. b2 \in Builders
    BY <1>1, <1>2 DEF Builders
  <1>4. /\ b2.good = b.good /\ b2.items = b.items
        /\ b2.requirements = Used(b.requirements, count)
        /\ b2.collection_depth = b.collection_depth
        /\ b2.top_level_application_seen = b.top_level_application_seen
        /\ b2.report_id_decided = b.report_id_decided /\ b2.report_id = b.report_id
        /\ b2.data_main_emitted = b.data_main_emitted /\ b2.input_bits = b.input_bits
        /\ b2.fields = b.fields /\ b2.data_bits = b.data_bits /\ b2.data_fields = b.data_fields
    BY <1>2 DEF Builders
  <1> QED
    BY <1>3, <1>4 DEF Collections, Identity, Report

LEMMA TwoAndOne ==
  ASSUME NEW x \in Items, NEW y \in Items, NEW z \in Items
  PROVE  <<x, y>> \o <<z>> = <<x, y, z>>
  <1> DEFINE s == <<x, y>> \o <<z>>
             t == <<x, y, z>>
  <1>1. s \in Seq(Items) /\ Len(s) = 3
    OBVIOUS
  <1>2. s[1] = x /\ s[2] = y /\ s[3] = z
    OBVIOUS
  <1>3. t \in Seq(Items) /\ Len(t) = 3 /\ t[1] = x /\ t[2] = y /\ t[3] = z
    OBVIOUS
  <1> HIDE DEF s, t
  <1>4. \A k \in 1..Len(s) : s[k] = t[k]
    BY <1>1, <1>2, <1>3
  <1>5. s = t
    BY <1>1, <1>3, <1>4
  <1> QED
    BY <1>5 DEF s, t

Deepened(b, depth) ==
  [b EXCEPT !.top_level_application_seen = TRUE, !.collection_depth = depth]
Raised(b, depth) == [b EXCEPT !.collection_depth = depth]

LEMMA MovedParts ==
  ASSUME NEW b \in Builders, NEW depth \in Nat, NEW b2,
         b2 = Deepened(b, depth) \/ b2 = Raised(b, depth)
  PROVE  /\ b2 \in Builders /\ b2.items = b.items /\ b2.collection_depth = depth
         /\ Identity(b2) = Identity(b) /\ Report(b2) = Report(b)
         /\ b2.requirements = b.requirements
         /\ b2 = Deepened(b, depth) => b2.top_level_application_seen
         /\ b2 = Raised(b, depth) =>
              b2.top_level_application_seen = b.top_level_application_seen
  <1>1. CASE b2 = Deepened(b, depth)
    <2>1. b2 \in Builders
      BY <1>1 DEF Builders, Deepened
    <2>2. /\ b2.items = b.items /\ b2.collection_depth = depth
          /\ b2.top_level_application_seen = TRUE
          /\ b2.report_id_decided = b.report_id_decided /\ b2.report_id = b.report_id
          /\ b2.data_main_emitted = b.data_main_emitted /\ b2.input_bits = b.input_bits
          /\ b2.fields = b.fields /\ b2.data_bits = b.data_bits
          /\ b2.data_fields = b.data_fields /\ b2.requirements = b.requirements
      BY <1>1 DEF Builders, Deepened
    <2>3. b2 = Raised(b, depth) => b.top_level_application_seen = TRUE
      BY <2>2 DEF Builders, Raised
    <2> QED
      BY <2>1, <2>2, <2>3 DEF Identity, Report
  <1>2. CASE b2 = Raised(b, depth)
    <2>1. b2 \in Builders
      BY <1>2 DEF Builders, Raised
    <2>2. /\ b2.items = b.items /\ b2.collection_depth = depth
          /\ b2.top_level_application_seen = b.top_level_application_seen
          /\ b2.report_id_decided = b.report_id_decided /\ b2.report_id = b.report_id
          /\ b2.data_main_emitted = b.data_main_emitted /\ b2.input_bits = b.input_bits
          /\ b2.fields = b.fields /\ b2.data_bits = b.data_bits
          /\ b2.data_fields = b.data_fields /\ b2.requirements = b.requirements
      BY <1>2 DEF Builders, Raised
    <2>3. b2 = Deepened(b, depth) => b2.top_level_application_seen = TRUE
      BY DEF Builders, Deepened
    <2> QED
      BY <2>1, <2>2, <2>3 DEF Identity, Report
  <1> QED
    BY <1>1, <1>2

(* b2 is b with one collection more open, and with one fewer.               *)
Begun(b, b2, call) ==
  /\ b.good /\ b2 \in Builders /\ b2.items = b.items \o BeginItems(call)
  /\ b2.collection_depth = b.collection_depth + 1 /\ b2.top_level_application_seen
  /\ b.collection_depth = 0 => call.collection = 1 /\ ~b.top_level_application_seen
  /\ Identity(b2) = Identity(b) /\ Report(b2) = Report(b)
  /\ b2.requirements = Used(b.requirements, 1)
EndedBy(b, b2) ==
  /\ b.good /\ b2 \in Builders
  /\ b2.items = b.items \o <<BareItem("end_collection")>>
  /\ b.collection_depth # 0 /\ b2.collection_depth = b.collection_depth - 1
  /\ b2.top_level_application_seen = b.top_level_application_seen
  /\ Identity(b2) = Identity(b) /\ Report(b2) = Report(b)
  /\ b2.requirements = b.requirements

LEMMA BeginParts ==
  ASSUME NEW b \in Builders, NEW call \in BeginCalls, NEW b2, b2 = Begin(b, call)
  PROVE  b2 \in Builders /\ (b2.good => Begun(b, b2, call))
  <1> DEFINE b1 == ObserveUsages(b, 1)
             opened == Write(b1, BeginItems(call))
  <1>1. BeginItems(call) \in Seq(Items)
    <2>1. call.page \in Nat /\ call.usage \in Nat /\ call.collection \in Nat
      BY WordIs DEF BeginCalls
    <2>2. "collection" \in Tags
      BY DEF Tags, MainTags
    <2>3. UnsignedItem("collection", call.collection) \in Items
      BY <2>1, <2>2, UnsignedReadBack
    <2>4. Usages(call) \in Seq(Items)
      BY <2>1, ItemsTyped
    <2> QED
      BY <2>3, <2>4 DEF BeginItems
  <1>2. BeginItems(call) = <<UnsignedItem("usage_page", call.page),
                             UnsignedItem("usage", call.usage),
                             UnsignedItem("collection", call.collection)>>
    <2> DEFINE i1 == UnsignedItem("usage_page", call.page)
               i2 == UnsignedItem("usage", call.usage)
               i3 == UnsignedItem("collection", call.collection)
    <2>1. i1 \in Items /\ i2 \in Items /\ i3 \in Items
      <3>1. call.page \in Nat /\ call.usage \in Nat /\ call.collection \in Nat
        BY WordIs DEF BeginCalls
      <3>2. "collection" \in Tags /\ "usage_page" \in Tags /\ "usage" \in Tags
        BY DEF Tags, MainTags, GlobalTags, LocalTags
      <3> QED
        BY <3>1, <3>2, UnsignedReadBack
    <2> HIDE DEF i1, i2, i3
    <2>2. <<i1, i2>> \o <<i3>> = <<i1, i2, i3>>
      BY <2>1, TwoAndOne
    <2> QED
      BY <2>2 DEF BeginItems, Usages, i1, i2, i3
  <1> DEFINE moved == [opened EXCEPT !.top_level_application_seen = TRUE,
                                     !.collection_depth = @ + 1]
             may == /\ ~(/\ call.collection = 1 /\ b.collection_depth = 0
                         /\ b.top_level_application_seen)
                    /\ ~(call.collection # 1 /\ b.collection_depth = 0)
  <1>3. b2 = Fail(b) \/ (may /\ opened.good /\ b2 = moved)
    BY <1>2 DEF Begin
  <1> SUFFICES ASSUME may, opened.good, b2 = moved
               PROVE  Begun(b, b2, call)
    <2> HIDE DEF may, opened, moved
    <2> QED
      BY <1>3, FailedIs DEF Begun
  <1> HIDE DEF b1
  <1>4. /\ b1 \in Builders /\ b1.good = b.good /\ b1.items = b.items
        /\ Collections(b1) = Collections(b) /\ Identity(b1) = Identity(b)
        /\ Report(b1) = Report(b) /\ b1.requirements = Used(b.requirements, 1)
    <2> DEFINE one == 1
    <2>1. one \in Nat /\ b1 = ObserveUsages(b, one)
      BY DEF b1
    <2> HIDE DEF one
    <2>2. /\ b1 \in Builders /\ b1.good = b.good /\ b1.items = b.items
          /\ Collections(b1) = Collections(b) /\ Identity(b1) = Identity(b)
          /\ Report(b1) = Report(b) /\ b1.requirements = Used(b.requirements, one)
      BY <2>1, ObservedParts
    <2> QED
      BY <2>2 DEF one
  <1> HIDE DEF opened
  <1>5. /\ b1.good /\ opened \in Builders /\ opened.items = b1.items \o BeginItems(call)
        /\ Collections(opened) = Collections(b1) /\ Identity(opened) = Identity(b1)
        /\ Report(opened) = Report(b1) /\ opened.requirements = b1.requirements
    BY <1>1, <1>4, WrittenParts DEF opened
  <1>6. opened.collection_depth \in Nat
    BY <1>5 DEF Builders
  <1>7. b2 = Deepened(opened, opened.collection_depth + 1)
    BY DEF Deepened
  <1>8. /\ b2 \in Builders /\ b2.items = opened.items
        /\ b2.collection_depth = opened.collection_depth + 1 /\ b2.top_level_application_seen
        /\ Identity(b2) = Identity(opened) /\ Report(b2) = Report(opened)
        /\ b2.requirements = opened.requirements
    <2> DEFINE depth == opened.collection_depth + 1
    <2>1. depth \in Nat /\ b2 = Deepened(opened, depth)
      BY <1>7, <1>6
    <2> HIDE DEF depth
    <2>2. /\ b2 \in Builders /\ b2.items = opened.items
          /\ b2.collection_depth = depth /\ b2.top_level_application_seen
          /\ Identity(b2) = Identity(opened) /\ Report(b2) = Report(opened)
          /\ b2.requirements = opened.requirements
      BY ONLY <1>5, <2>1, MovedParts
    <2> QED
      BY <2>2 DEF depth
  <1>9. opened.collection_depth = b.collection_depth
    BY <1>4, <1>5 DEF Collections
  <1> QED
    BY <1>4, <1>5, <1>8, <1>9 DEF Begun

LEMMA EndParts ==
  ASSUME NEW b \in Builders, NEW b2, b2 = EndCollection(b)
  PROVE  b2 \in Builders /\ (b2.good => EndedBy(b, b2))
  <1> DEFINE items == <<BareItem("end_collection")>>
             closed == Write(b, items)
  <1>1. items \in Seq(Items)
    BY DEF BareItem, Item, Items, Tags, MainTags
  <1> DEFINE moved == [closed EXCEPT !.collection_depth = @ - 1]
  <1>2. b2 = Fail(b) \/ (b.collection_depth # 0 /\ closed.good /\ b2 = moved)
    BY DEF EndCollection
  <1> SUFFICES ASSUME b.collection_depth # 0, closed.good, b2 = moved
               PROVE  EndedBy(b, b2)
    <2> HIDE DEF closed, moved
    <2> QED
      BY <1>2, FailedIs DEF EndedBy
  <1> HIDE DEF items, closed
  <1>3. /\ b.good /\ closed \in Builders /\ closed.items = b.items \o items
        /\ Collections(closed) = Collections(b) /\ Identity(closed) = Identity(b)
        /\ Report(closed) = Report(b) /\ closed.requirements = b.requirements
    BY <1>1, WrittenParts DEF closed
  <1>4. closed.collection_depth = b.collection_depth /\ b.collection_depth \in Nat
        /\ closed.top_level_application_seen = b.top_level_application_seen
    BY <1>3 DEF Collections, Builders
  <1>5. b2 = Raised(closed, closed.collection_depth - 1)
    BY DEF Raised
  <1>6. /\ b2 \in Builders /\ b2.items = closed.items
        /\ b2.collection_depth = closed.collection_depth - 1
        /\ b2.top_level_application_seen = closed.top_level_application_seen
        /\ Identity(b2) = Identity(closed) /\ Report(b2) = Report(closed)
        /\ b2.requirements = closed.requirements
    <2> DEFINE depth == closed.collection_depth - 1
    <2>1. depth \in Nat /\ b2 = Raised(closed, depth)
      BY <1>4, <1>5
    <2> HIDE DEF depth
    <2>2. /\ b2 \in Builders /\ b2.items = closed.items
          /\ b2.collection_depth = depth
          /\ b2.top_level_application_seen = closed.top_level_application_seen
          /\ Identity(b2) = Identity(closed) /\ Report(b2) = Report(closed)
          /\ b2.requirements = closed.requirements
      BY ONLY <1>3, <2>1, MovedParts
    <2> QED
      BY <2>2 DEF depth
  <1> QED
    BY <1>3, <1>4, <1>6 DEF items, EndedBy

IdCalls == [op : {"report_id"}, enabled : Int, value : Word8]

Rest(b) == <<b.data_main_emitted, b.fields, b.data_bits, b.data_fields>>

Decided(b, id, bits) ==
  [b EXCEPT !.report_id_decided = TRUE, !.report_id = id, !.input_bits = bits]

LEMMA DecidedParts ==
  ASSUME NEW b \in Builders, NEW id, id \in Word8, NEW bits, bits \in Nat,
         NEW b2, b2 = Decided(b, id, bits)
  PROVE  /\ b2 \in Builders /\ b2.items = b.items /\ b2.good = b.good
         /\ b2.report_id_decided /\ b2.report_id = id /\ b2.input_bits = bits
         /\ Collections(b2) = Collections(b) /\ Rest(b2) = Rest(b)
         /\ b2.requirements = b.requirements
  <1>1. b2 \in Builders
    BY DEF Builders, Decided
  <1>2. /\ b2.items = b.items /\ b2.good = b.good /\ b2.report_id_decided = TRUE
        /\ b2.report_id = id /\ b2.input_bits = bits
        /\ b2.collection_depth = b.collection_depth
        /\ b2.top_level_application_seen = b.top_level_application_seen
        /\ b2.data_main_emitted = b.data_main_emitted /\ b2.fields = b.fields
        /\ b2.data_bits = b.data_bits /\ b2.data_fields = b.data_fields
        /\ b2.requirements = b.requirements
    BY DEF Builders, Decided
  <1> QED
    BY <1>1, <1>2 DEF Collections, Rest

IdItems(call) ==
  IF call.enabled = 0 THEN <<>> ELSE <<UnsignedItem("report_id", call.value)>>

(* b2 is b with its identity.                                               *)
Identified(b, b2, call) ==
  /\ b.good /\ b2 \in Builders /\ ~b.report_id_decided /\ ~b.data_main_emitted
  /\ b2.report_id_decided
  /\ b2.items = b.items \o IdItems(call)
  /\ Collections(b2) = Collections(b) /\ Rest(b2) = Rest(b)
  /\ b2.requirements = b.requirements
  /\ call.enabled = 0 => b2.report_id = 0 /\ b2.input_bits = 0
  /\ call.enabled # 0 =>
       /\ call.value # 0 /\ b2.report_id = call.value /\ b2.input_bits = 8

LEMMA IdParts ==
  ASSUME NEW b \in Builders, NEW call \in IdCalls, NEW b2, b2 = SetReportId(b, call)
  PROVE  b2 \in Builders /\ (b2.good => Identified(b, b2, call))
  <1> DEFINE decided == [b EXCEPT !.report_id_decided = TRUE]
             item == UnsignedItem("report_id", call.value)
  <1>1. CASE ~b.good \/ b.report_id_decided \/ b.data_main_emitted
    BY <1>1, FailedIs DEF SetReportId
  <1> SUFFICES ASSUME b.good, ~b.report_id_decided, ~b.data_main_emitted
               PROVE  b2 \in Builders /\ (b2.good => Identified(b, b2, call))
    BY <1>1
  <1>2. call.value \in Word8 /\ call.value \in Nat /\ 0 \in Word8
    <2>1. 0 \in Word8
      BY DEF Word8, Span, Byte
    <2> QED
      BY <2>1, WordIs DEF IdCalls
  <1>3. /\ decided \in Builders /\ decided.items = b.items /\ decided.good = b.good
        /\ Collections(decided) = Collections(b) /\ Rest(decided) = Rest(b)
        /\ decided.requirements = b.requirements
    <2>1. decided \in Builders
      BY DEF Builders
    <2>2. /\ decided.items = b.items /\ decided.good = b.good
          /\ decided.collection_depth = b.collection_depth
          /\ decided.top_level_application_seen = b.top_level_application_seen
          /\ decided.data_main_emitted = b.data_main_emitted /\ decided.fields = b.fields
          /\ decided.data_bits = b.data_bits /\ decided.data_fields = b.data_fields
          /\ decided.requirements = b.requirements
      BY DEF Builders
    <2> QED
      BY <2>1, <2>2 DEF Collections, Rest
  <1>4. CASE call.enabled = 0
    <2>1. b2 = [decided EXCEPT !.report_id = 0, !.input_bits = 0]
      BY <1>4 DEF SetReportId
    <2>2. b2 = Decided(b, 0, 0)
      BY <2>1 DEF Decided
    <2> HIDE DEF decided
    <2> DEFINE none == 0
    <2>3. none \in Nat /\ none \in Word8 /\ b2 = Decided(b, none, none)
      BY <1>2, <2>2
    <2> HIDE DEF none
    <2>4. /\ b2 \in Builders /\ b2.items = b.items /\ b2.good = b.good
          /\ b2.report_id_decided /\ b2.report_id = none /\ b2.input_bits = none
          /\ Collections(b2) = Collections(b) /\ Rest(b2) = Rest(b)
          /\ b2.requirements = b.requirements
      BY ONLY <2>3, b \in Builders, DecidedParts
    <2>5. b.items \o IdItems(call) = b.items
      <3>1. b.items \in Seq(Items)
        BY DEF Builders
      <3> QED
        BY <1>4, <3>1 DEF IdItems
    <2> QED
      BY <1>4, <2>4, <2>5 DEF none, Identified
  <1>5. CASE call.enabled # 0
    <2> DEFINE written == Write(decided, <<item>>)
    <2>1. \/ b2 = Fail(decided)
          \/ /\ call.value # 0
             /\ b2 = [written EXCEPT !.report_id = call.value, !.input_bits = 8]
      BY <1>5 DEF SetReportId
    <2>2. <<item>> \in Seq(Items)
      <3>1. "report_id" \in Tags
        BY DEF Tags, GlobalTags
      <3>2. item \in Items
        BY <1>2, <3>1, UnsignedReadBack
      <3> HIDE DEF item
      <3> QED
        BY <3>2
    <2>3. decided.report_id_decided = TRUE
      BY DEF Builders
    <2> HIDE DEF decided
    <2>4. written \in Builders
      BY <1>3, <2>2, Written
    <2> HIDE DEF item
    <2>5. CASE b2 = Fail(decided)
      BY <1>3, <2>5, FailedIs
    <2> SUFFICES ASSUME call.value # 0,
                        b2 = [written EXCEPT !.report_id = call.value, !.input_bits = 8]
                 PROVE  b2 \in Builders /\ (b2.good => Identified(b, b2, call))
      BY <2>1, <2>5
    <2> DEFINE eight == 8
               id == call.value
    <2>6. eight \in Nat /\ id \in Word8
      BY <1>2
    <2>7. b2 = [written EXCEPT !.report_id = id, !.input_bits = eight]
      OBVIOUS
    <2> HIDE DEF written, eight, id
    <2>8. b2 \in Builders /\ b2.good = written.good
      BY <2>4, <2>6, <2>7 DEF Builders
    <2> SUFFICES ASSUME written.good
                 PROVE  Identified(b, b2, call)
      BY <2>8
    <2>9. /\ written.items = decided.items \o <<item>>
          /\ Collections(written) = Collections(decided) /\ Identity(written) = Identity(decided)
          /\ Report(written) = Report(decided) /\ written.requirements = decided.requirements
      BY <1>3, <2>2, WrittenParts DEF written
    <2>10. written.report_id_decided = TRUE /\ Rest(written) = Rest(decided)
      BY <2>3, <2>9 DEF Identity, Report, Rest
    <2>11. b2 = Decided(written, id, eight)
      BY <2>4, <2>7, <2>10 DEF Decided, Builders
    <2>12. /\ b2.items = written.items
           /\ b2.report_id_decided /\ b2.report_id = id /\ b2.input_bits = eight
           /\ Collections(b2) = Collections(written) /\ Rest(b2) = Rest(written)
           /\ b2.requirements = written.requirements
      BY ONLY <2>4, <2>6, <2>11, DecidedParts
    <2>13. b.items \o IdItems(call) = b.items \o <<item>>
      BY <1>5 DEF IdItems, item
    <2> QED
      BY <1>3, <1>5, <2>8, <2>9, <2>10, <2>12, <2>13 DEF eight, id, Identified
  <1> QED
    BY <1>4, <1>5

-----------------------------------------------------------------------------
(* Main items *)
LEMMA PreparedParts ==
  ASSUME NEW b \in Builders, NEW b2, b2 = PrepareDataMain(b)
  PROVE  /\ b2 \in Builders
         /\ b2.good =>
              /\ b.good /\ b.report_id_decided /\ b2.data_main_emitted
              /\ b2.items = b.items /\ b2.input_bits = b.input_bits /\ b2.fields = b.fields
              /\ b2.data_bits = b.data_bits /\ b2.data_fields = b.data_fields
              /\ Collections(b2) = Collections(b) /\ Identity(b2) = Identity(b)
              /\ b2.requirements = b.requirements
  <1>1. CASE ~b.good \/ ~b.report_id_decided
    BY <1>1, FailedIs DEF PrepareDataMain
  <1>2. CASE b.good /\ b.report_id_decided
    <2>1. b2 = [b EXCEPT !.data_main_emitted = TRUE]
      BY <1>2 DEF PrepareDataMain
    <2>2. b2 \in Builders
      BY <2>1 DEF Builders
    <2>3. /\ b2.data_main_emitted = TRUE
          /\ b2.items = b.items /\ b2.input_bits = b.input_bits /\ b2.fields = b.fields
          /\ b2.data_bits = b.data_bits /\ b2.data_fields = b.data_fields
          /\ b2.collection_depth = b.collection_depth
          /\ b2.top_level_application_seen = b.top_level_application_seen
          /\ b2.report_id_decided = b.report_id_decided /\ b2.report_id = b.report_id
          /\ b2.requirements = b.requirements
      BY <2>1 DEF Builders
    <2> QED
      BY <1>2, <2>2, <2>3 DEF Collections, Identity
  <1> QED
    BY <1>1, <1>2

(* The part of a builder that record_main does not count.                   *)
Uncounted(b) ==
  <<b.items, b.collection_depth, b.top_level_application_seen, b.report_id_decided,
    b.data_main_emitted, b.report_id, b.input_bits, b.fields>>

OnlyCounted(b, b2) == Uncounted(b2) = Uncounted(b)

Tallied(b, needs, bits, numbers) ==
  [b EXCEPT !.requirements = needs, !.data_bits = bits, !.data_fields = numbers]

LEMMA CountedParts ==
  ASSUME NEW b, b \in Builders, NEW needs, needs \in NeedTypes, NEW bits, bits \in Counts,
         NEW numbers, numbers \in Counts, NEW b2, b2 = Tallied(b, needs, bits, numbers)
  PROVE  /\ b2 \in Builders /\ b2.good = b.good /\ Uncounted(b2) = Uncounted(b)
         /\ b2.requirements = needs /\ b2.data_bits = bits /\ b2.data_fields = numbers
  <1>1. b2 \in Builders
    BY DEF Builders, Tallied
  <1>2. /\ b2.good = b.good /\ b2.items = b.items
        /\ b2.requirements = needs /\ b2.data_bits = bits /\ b2.data_fields = numbers
        /\ b2.collection_depth = b.collection_depth
        /\ b2.top_level_application_seen = b.top_level_application_seen
        /\ b2.report_id_decided = b.report_id_decided /\ b2.report_id = b.report_id
        /\ b2.data_main_emitted = b.data_main_emitted /\ b2.input_bits = b.input_bits
        /\ b2.fields = b.fields
    BY DEF Builders, Tallied
  <1> QED
    BY <1>1, <1>2 DEF Uncounted

InputMain(b, usages, count, size) == RecordMain(b, "input", usages, count, size)
FeatureMain(b, size) == RecordMain(b, "feature", 1, 1, size)

Records(b, b2, usages, count, size) ==
  /\ b2.data_bits.input = b.data_bits.input + size * count
  /\ b2.data_fields.input = b.data_fields.input + (IF usages = 0 THEN 0 ELSE 1)
  /\ b2.requirements = Counting(b.requirements, Larger(usages, count), size,
                                b2.data_bits.input, b2.data_fields.input)

RecordsNothing(b, b2) ==
  b2.data_bits.input = b.data_bits.input /\ b2.data_fields.input = b.data_fields.input

LEMMA InputRecorded ==
  ASSUME NEW b, b \in Builders, NEW usages, usages \in Nat, NEW count, count \in Nat,
         NEW size, size \in Nat, NEW b2, b2 = InputMain(b, usages, count, size)
  PROVE  /\ b2 \in Builders /\ (b.good => b2.good) /\ OnlyCounted(b, b2)
         /\ Records(b, b2, usages, count, size)
  <1> DEFINE bits == b.data_bits.input + size * count
             number == b.data_fields.input + (IF usages = 0 THEN 0 ELSE 1)
             needs == Counting(b.requirements, Larger(usages, count), size, bits, number)
             allBits == [b.data_bits EXCEPT !.input = bits]
             numbers == [b.data_fields EXCEPT !.input = number]
  <1>1. bits \in Nat /\ number \in Nat
    <2>1. b.data_bits.input \in Nat /\ b.data_fields.input \in Nat
      BY DEF Builders, Counts
    <2> DEFINE x == b.data_bits.input
               y == size * count
    <2>2. x \in Nat /\ y \in Nat
      BY <2>1
    <2> HIDE DEF x, y
    <2>3. x + y \in Nat
      BY <2>2
    <2> QED
      BY <2>1, <2>3 DEF x, y
  <1>2. b.requirements \in NeedTypes /\ b.data_bits \in Counts /\ b.data_fields \in Counts
    BY DEF Builders
  <1>3. b2 = Tallied(b, needs, allBits, numbers)
    BY DEF InputMain, RecordMain, Tallied
  <1> HIDE DEF bits, number
  <1>4. needs \in NeedTypes
    BY <1>1, <1>2, NeedsAgree
  <1>5. /\ allBits \in Counts /\ numbers \in Counts
        /\ allBits.input = bits /\ numbers.input = number
    BY <1>1, <1>2 DEF Counts
  <1> HIDE DEF needs, allBits, numbers
  <1>6. /\ b2 \in Builders /\ b2.good = b.good /\ Uncounted(b2) = Uncounted(b)
        /\ b2.requirements = needs /\ b2.data_bits = allBits /\ b2.data_fields = numbers
    BY <1>3, <1>4, <1>5, CountedParts
  <1> QED
    BY <1>5, <1>6 DEF needs, Records, bits, number, OnlyCounted

LEMMA FeatureRecorded ==
  ASSUME NEW b, b \in Builders, NEW size, size \in Nat, NEW b2, b2 = FeatureMain(b, size)
  PROVE  /\ b2 \in Builders /\ b2.good = b.good /\ Uncounted(b2) = Uncounted(b)
         /\ RecordsNothing(b, b2)
  <1> DEFINE bits == b.data_bits.feature + size * 1
             number == b.data_fields.feature + 1
             needs == Counting(b.requirements, Larger(1, 1), size, bits, number)
             allBits == [b.data_bits EXCEPT !.feature = bits]
             numbers == [b.data_fields EXCEPT !.feature = number]
  <1>1. bits \in Nat /\ number \in Nat
    <2>1. b.data_bits.feature \in Nat /\ b.data_fields.feature \in Nat
      BY DEF Builders, Counts
    <2> DEFINE x == b.data_bits.feature
               y == size * 1
    <2>2. x \in Nat /\ y \in Nat
      BY <2>1
    <2> HIDE DEF x, y
    <2>3. x + y \in Nat
      BY <2>2
    <2> QED
      BY <2>1, <2>3 DEF x, y
  <1>2. b.requirements \in NeedTypes /\ b.data_bits \in Counts /\ b.data_fields \in Counts
    BY DEF Builders
  <1>3. b2 = Tallied(b, needs, allBits, numbers)
    BY DEF FeatureMain, RecordMain, Tallied
  <1> HIDE DEF bits, number
  <1>4. needs \in NeedTypes
    <2> DEFINE one == 1
    <2>1. one \in Nat
      OBVIOUS
    <2> HIDE DEF one
    <2>2. Counting(b.requirements, Larger(one, one), size, bits, number) \in NeedTypes
      BY <1>1, <1>2, <2>1, NeedsAgree
    <2> QED
      BY <2>2 DEF one
  <1>5. /\ allBits \in Counts /\ numbers \in Counts
        /\ allBits.input = b.data_bits.input /\ numbers.input = b.data_fields.input
    BY <1>1, <1>2 DEF Counts
  <1> HIDE DEF needs, allBits, numbers
  <1>6. /\ b2 \in Builders /\ b2.good = b.good /\ Uncounted(b2) = Uncounted(b)
        /\ b2.requirements = needs /\ b2.data_bits = allBits /\ b2.data_fields = numbers
    BY <1>3, <1>4, <1>5, CountedParts
  <1> QED
    BY <1>5, <1>6 DEF RecordsNothing

LEMMA LayoutParts ==
  ASSUME NEW b \in Builders, NEW field, Placed(field, b.input_bits) \in LayoutTypes,
         field.width \in Int, NEW b2, b2 = AddLayout(b, field)
  PROVE  /\ b2 \in Builders
         /\ b2.good =>
              /\ b.good /\ field.width \in 1..32
              /\ b2.fields = Append(b.fields, Placed(field, b.input_bits))
              /\ b2.input_bits = b.input_bits + field.width
              /\ b2.items = b.items /\ b2.data_main_emitted = b.data_main_emitted
              /\ b2.data_bits = b.data_bits /\ b2.data_fields = b.data_fields
              /\ Collections(b2) = Collections(b) /\ Identity(b2) = Identity(b)
              /\ b2.requirements = b.requirements
  <1>1. CASE ~b.good \/ field.width \notin 1..32
    BY <1>1, FailedIs DEF AddLayout
  <1>2. CASE b.good /\ field.width \in 1..32
    <2> DEFINE fields == Append(b.fields, Placed(field, b.input_bits))
               bits == b.input_bits + field.width
    <2>1. b2 = [b EXCEPT !.fields = fields, !.input_bits = bits]
      BY <1>2 DEF AddLayout, Placed
    <2>2. fields \in Seq(LayoutTypes) /\ bits \in Nat
      <3>1. b.fields \in Seq(LayoutTypes) /\ b.input_bits \in Nat
        BY DEF Builders
      <3>2. field.width \in Nat
        BY <1>2
      <3> DEFINE placed == Placed(field, b.input_bits)
      <3>3. placed \in LayoutTypes
        OBVIOUS
      <3> HIDE DEF placed
      <3>4. Append(b.fields, placed) \in Seq(LayoutTypes)
        BY <3>1, <3>3
      <3> QED
        BY <3>1, <3>2, <3>4 DEF placed
    <2> HIDE DEF fields, bits
    <2>3. b2 \in Builders
      BY <2>1, <2>2 DEF Builders
    <2>4. /\ b2.fields = fields /\ b2.input_bits = bits
          /\ b2.items = b.items /\ b2.data_main_emitted = b.data_main_emitted
          /\ b2.data_bits = b.data_bits /\ b2.data_fields = b.data_fields
          /\ b2.collection_depth = b.collection_depth
          /\ b2.top_level_application_seen = b.top_level_application_seen
          /\ b2.report_id_decided = b.report_id_decided /\ b2.report_id = b.report_id
          /\ b2.requirements = b.requirements
      BY <2>1 DEF Builders
    <2> QED
      BY <1>2, <2>3, <2>4 DEF Collections, Identity, fields, bits
  <1> QED
    BY <1>1, <1>2

LEMMA PlacedTyped ==
  ASSUME NEW call \in VariableCalls, NEW offset \in Nat
  PROVE  Placed(LayoutOf(call), offset) \in LayoutTypes
  <1> DEFINE null == Flag(call.flags, 64)
             field == LayoutOf(call)
  <1>1. null \in BOOLEAN
    BY DEF Flag
  <1> HIDE DEF null
  <1>2. /\ call.semantic \in DataSemantics \union {"constant_padding"} /\ call.instance \in Int
        /\ call.width \in Int /\ call.minimum \in Int /\ call.maximum \in Int
        /\ call.physical \in PhysicalTypes
    BY DEF VariableCalls
  <1>3. field = [offset |-> 0, semantic |-> call.semantic, instance |-> call.instance,
                 width |-> call.width, minimum |-> call.minimum, maximum |-> call.maximum,
                 physical |-> call.physical, null_state |-> null]
    BY DEF LayoutOf, null
  <1> HIDE DEF field
  <1>4. field \in LayoutTypes
    BY <1>1, <1>2, <1>3 DEF LayoutTypes
  <1>5. Placed(field, offset) \in LayoutTypes
    BY <1>4 DEF Placed, LayoutTypes
  <1> QED
    BY <1>5 DEF field

(* b2 is b once it has decided on its identity and written these items of a *)
(* data Main item.                                                          *)
Wrote(b, b2, items) ==
  /\ b.good /\ b.report_id_decided /\ b2.good /\ b2.data_main_emitted
  /\ b2.items = b.items \o items /\ b2.fields = b.fields /\ b2.input_bits = b.input_bits
  /\ Collections(b2) = Collections(b) /\ Identity(b2) = Identity(b)

LEMMA ReadyParts ==
  ASSUME NEW b \in Builders, NEW items \in Seq(Items),
         NEW written, written = Write(PrepareDataMain(b), items), written.good
  PROVE  /\ written \in Builders /\ Wrote(b, written, items)
         /\ written.data_bits = b.data_bits /\ written.data_fields = b.data_fields
         /\ written.requirements = b.requirements
  <1> DEFINE ready == PrepareDataMain(b)
  <1>1. /\ ready \in Builders
        /\ ready.good =>
             /\ b.good /\ b.report_id_decided /\ ready.data_main_emitted
             /\ ready.items = b.items /\ ready.input_bits = b.input_bits
             /\ ready.fields = b.fields
             /\ ready.data_bits = b.data_bits /\ ready.data_fields = b.data_fields
             /\ Collections(ready) = Collections(b) /\ Identity(ready) = Identity(b)
             /\ ready.requirements = b.requirements
    BY PreparedParts
  <1> HIDE DEF ready
  <1>2. /\ ready.good /\ written \in Builders /\ written.items = ready.items \o items
        /\ Collections(written) = Collections(ready) /\ Identity(written) = Identity(ready)
        /\ Report(written) = Report(ready) /\ written.requirements = ready.requirements
    BY <1>1, WrittenParts DEF ready
  <1>3. /\ written.data_main_emitted = ready.data_main_emitted
        /\ written.input_bits = ready.input_bits /\ written.fields = ready.fields
        /\ written.data_bits = ready.data_bits /\ written.data_fields = ready.data_fields
    BY <1>2 DEF Report
  <1> QED
    BY <1>1, <1>2, <1>3 DEF Wrote

LEMMA InputParts ==
  ASSUME NEW b \in Builders, NEW items \in Seq(Items),
         NEW usages, usages \in Nat, NEW count, count \in Nat, NEW size, size \in Nat,
         NEW written, written = Write(PrepareDataMain(b), items), written.good,
         NEW b2, b2 = InputMain(written, usages, count, size)
  PROVE  b2 \in Builders /\ Wrote(b, b2, items) /\ Records(b, b2, usages, count, size)
  <1>1. /\ written \in Builders /\ Wrote(b, written, items)
        /\ written.data_bits = b.data_bits /\ written.data_fields = b.data_fields
        /\ written.requirements = b.requirements
    BY ReadyParts
  <1>2. /\ b2 \in Builders /\ b2.good /\ Uncounted(b2) = Uncounted(written)
        /\ Records(written, b2, usages, count, size)
    <2>1. b2 \in Builders
      BY <1>1, InputRecorded
    <2>2. b2.good
      BY <1>1, InputRecorded
    <2>3. OnlyCounted(written, b2)
      BY <1>1, InputRecorded
    <2>4. Records(written, b2, usages, count, size)
      BY <1>1, InputRecorded
    <2> QED
      BY <2>1, <2>2, <2>3, <2>4 DEF OnlyCounted
  <1>3. /\ b2.items = written.items /\ b2.data_main_emitted = written.data_main_emitted
        /\ b2.input_bits = written.input_bits /\ b2.fields = written.fields
        /\ Collections(b2) = Collections(written) /\ Identity(b2) = Identity(written)
    BY <1>2 DEF Uncounted, Collections, Identity
  <1>4. Records(b, b2, usages, count, size)
    BY <1>1, <1>2 DEF Records
  <1>5. Wrote(b, b2, items)
    BY <1>1, <1>2, <1>3 DEF Wrote
  <1> QED
    BY <1>2, <1>4, <1>5

LEMMA FeatureMainParts ==
  ASSUME NEW b \in Builders, NEW items \in Seq(Items), NEW size, size \in Nat,
         NEW written, written = Write(PrepareDataMain(b), items), written.good,
         NEW b2, b2 = FeatureMain(written, size)
  PROVE  b2 \in Builders /\ Wrote(b, b2, items) /\ RecordsNothing(b, b2)
  <1>1. /\ written \in Builders /\ Wrote(b, written, items)
        /\ written.data_bits = b.data_bits /\ written.data_fields = b.data_fields
        /\ written.requirements = b.requirements
    BY ReadyParts
  <1>2. /\ b2 \in Builders /\ b2.good /\ Uncounted(b2) = Uncounted(written)
        /\ RecordsNothing(written, b2)
    BY <1>1, FeatureRecorded
  <1>3. /\ b2.items = written.items /\ b2.data_main_emitted = written.data_main_emitted
        /\ b2.input_bits = written.input_bits /\ b2.fields = written.fields
        /\ Collections(b2) = Collections(written) /\ Identity(b2) = Identity(written)
    BY <1>2 DEF Uncounted, Collections, Identity
  <1>4. RecordsNothing(b, b2)
    BY <1>1, <1>2 DEF RecordsNothing
  <1>5. Wrote(b, b2, items)
    BY <1>1, <1>2, <1>3 DEF Wrote
  <1> QED
    BY <1>2, <1>4, <1>5

(* b2 is b with one field more.                                             *)
Added(b, b2, call) ==
  /\ b.good /\ b.report_id_decided /\ b2 \in Builders /\ b2.data_main_emitted
  /\ b2.items = (b.items \o FieldItems(call)) \o ResetItems(call)
  /\ b2.fields = Append(b.fields, Placed(LayoutOf(call), b.input_bits))
  /\ b2.input_bits = b.input_bits + call.width
  /\ Collections(b2) = Collections(b) /\ Identity(b2) = Identity(b)
  /\ b2.data_bits.input = b.data_bits.input + call.width * 1
  /\ b2.data_fields.input = b.data_fields.input + 1
  /\ b2.requirements = Counting(b.requirements, 1, call.width,
                                b2.data_bits.input, b2.data_fields.input)

LEMMA VariableParts ==
  ASSUME NEW b \in Builders, NEW call \in VariableCalls,
         NEW b2, b2 = AddVariable(b, call)
  PROVE  b2 \in Builders /\ (b2.good => Added(b, b2, call))
  <1> DEFINE ready == PrepareDataMain(b)
             written == Write(ready, FieldItems(call))
             recorded == RecordMain(written, "input", 1, 1, call.width)
             reset == Write(recorded, ResetItems(call))
  <1>1. /\ FieldItems(call) \in Seq(Items) /\ ResetItems(call) \in Seq(Items)
        /\ call.width \in Nat /\ call.width \in Int
    <2>1. b.items \in Seq(Items)
      BY DEF Builders
    <2> QED
      BY <2>1, FieldItemsJoin, CallTypes
  <1>2. ready \in Builders
    BY PreparedParts
  <1>3. \/ b2 = Fail(ready)
        \/ written.good /\ b2 = AddLayout(reset, LayoutOf(call))
    <2>1. FieldItems(call) = Usages(call) \o Extents(call.minimum, call.maximum)
                             \o (IF call.physical = NoPhysical THEN <<>>
                                 ELSE PhysicalItems(call.physical))
                             \o Sized(call.width, 1, "input", call.flags)
      BY DEF FieldItems, Physicals
    <2>2. AddVariable(b, call) =
            IF ~written.good \/ ~PhysicalIsValid(call.physical) THEN Fail(ready)
            ELSE AddLayout(reset, LayoutOf(call))
      BY <2>1 DEF AddVariable, ResetItems
    <2> HIDE DEF ready, written, reset
    <2> QED
      BY <2>2
  <1>4. CASE b2 = Fail(ready)
    BY <1>2, <1>4, FailedIs
  <1>5. CASE written.good /\ b2 = AddLayout(reset, LayoutOf(call))
    <2>1. /\ recorded \in Builders /\ Wrote(b, recorded, FieldItems(call))
          /\ Records(b, recorded, 1, 1, call.width)
      <3> DEFINE one == 1
                 width == call.width
                 items == FieldItems(call)
      <3>1. /\ one \in Nat /\ width \in Nat /\ items \in Seq(Items)
            /\ written = Write(PrepareDataMain(b), items)
            /\ recorded = InputMain(written, one, one, width)
        BY <1>1 DEF InputMain
      <3> HIDE DEF ready, written, recorded, one, width, items
      <3>2. /\ recorded \in Builders /\ Wrote(b, recorded, items)
            /\ Records(b, recorded, one, one, width)
        BY <1>5, <3>1, InputParts
      <3> QED
        BY <3>2 DEF one, width, items
    <2>2. /\ reset \in Builders
          /\ reset.good =>
               /\ reset.items = recorded.items \o ResetItems(call)
               /\ Collections(reset) = Collections(recorded)
               /\ Identity(reset) = Identity(recorded)
               /\ Report(reset) = Report(recorded) /\ reset.requirements = recorded.requirements
      <3> HIDE DEF recorded
      <3>1. reset \in Builders
        BY <1>1, <2>1, Written
      <3> HIDE DEF reset
      <3>2. reset = Write(recorded, ResetItems(call))
        BY DEF reset
      <3> QED
        BY <1>1, <2>1, <3>1, <3>2, WrittenParts, SMTT(60)
    <2> HIDE DEF ready, written, recorded, reset
    <2>3. reset.input_bits \in Nat
      BY <2>2 DEF Builders
    <2> DEFINE field == LayoutOf(call)
    <2>4. Placed(field, reset.input_bits) \in LayoutTypes /\ field.width = call.width
      BY <2>3, PlacedTyped DEF LayoutOf
    <2> HIDE DEF field
    <2>5. b2 = AddLayout(reset, field) /\ field.width \in Int
      BY <1>1, <1>5, <2>4 DEF field
    <2>6. b2 \in Builders
      BY <2>2, <2>4, <2>5, LayoutParts
    <2> SUFFICES ASSUME b2.good
                 PROVE  Added(b, b2, call)
      BY <2>6
    <2>7. /\ reset.good
          /\ b2.fields = Append(reset.fields, Placed(field, reset.input_bits))
          /\ b2.input_bits = reset.input_bits + field.width
          /\ b2.items = reset.items /\ b2.data_main_emitted = reset.data_main_emitted
          /\ b2.data_bits = reset.data_bits /\ b2.data_fields = reset.data_fields
          /\ Collections(b2) = Collections(reset) /\ Identity(b2) = Identity(reset)
          /\ b2.requirements = reset.requirements
      BY <2>2, <2>4, <2>5, LayoutParts
    <2>8. /\ reset.data_main_emitted = recorded.data_main_emitted
          /\ reset.input_bits = recorded.input_bits /\ reset.fields = recorded.fields
          /\ reset.data_bits = recorded.data_bits /\ reset.data_fields = recorded.data_fields
      BY <2>2, <2>7 DEF Report
    <2>9. /\ recorded.good /\ b2.data_bits.input = recorded.data_bits.input
          /\ b2.data_fields.input = recorded.data_fields.input
      BY <2>1, <2>7, <2>8 DEF Wrote
    <2>10. Larger(1, 1) = 1
      BY DEF Larger
    <2> QED
      BY <2>1, <2>2, <2>4, <2>6, <2>7, <2>8, <2>9, <2>10 DEF field, Wrote, Records, Added
  <1> QED
    BY <1>3, <1>4, <1>5

LEMMA BitsTyped ==
  ASSUME NEW b, b.input_bits \in Nat, NEW call \in RangeCalls, NEW count, count \in Nat
  PROVE  BitLayout(b, call, count) \in Seq(LayoutTypes)
  <1> DEFINE none == NoPhysical
             bit(index) == [offset |-> b.input_bits + index - 1, semantic |-> call.semantic,
                            instance |-> index - 1, width |-> 1, minimum |-> 0, maximum |-> 1,
                            physical |-> none, null_state |-> FALSE]
  <1>1. none \in PhysicalTypes
    BY PhysicalFitsIs
  <1>2. call.semantic \in DataSemantics \union {"constant_padding"}
    BY DEF RangeCalls
  <1> HIDE DEF none
  <1>3. ASSUME NEW index \in 1..count PROVE bit(index) \in LayoutTypes
    BY <1>1, <1>2 DEF LayoutTypes
  <1> HIDE DEF bit
  <1>4. [index \in 1..count |-> bit(index)] \in Seq(LayoutTypes)
    BY <1>3
  <1> QED
    BY <1>4 DEF bit, none, BitLayout

Lengthened(b, fields, bits) == [b EXCEPT !.fields = fields, !.input_bits = bits]

LEMMA LengthenedParts ==
  ASSUME NEW b \in Builders, NEW fields, fields \in Seq(LayoutTypes), NEW bits, bits \in Nat,
         NEW b2, b2 = Lengthened(b, fields, bits)
  PROVE  /\ b2 \in Builders /\ b2.fields = fields /\ b2.input_bits = bits
         /\ b2.good = b.good
         /\ b2.items = b.items /\ b2.data_main_emitted = b.data_main_emitted
         /\ b2.data_bits = b.data_bits /\ b2.data_fields = b.data_fields
         /\ Collections(b2) = Collections(b) /\ Identity(b2) = Identity(b)
         /\ b2.requirements = b.requirements
  <1>1. b2 \in Builders
    BY DEF Builders, Lengthened
  <1>2. /\ b2.fields = fields /\ b2.input_bits = bits /\ b2.good = b.good
        /\ b2.items = b.items /\ b2.data_main_emitted = b.data_main_emitted
        /\ b2.data_bits = b.data_bits /\ b2.data_fields = b.data_fields
        /\ b2.collection_depth = b.collection_depth
        /\ b2.top_level_application_seen = b.top_level_application_seen
        /\ b2.report_id_decided = b.report_id_decided /\ b2.report_id = b.report_id
        /\ b2.requirements = b.requirements
    BY DEF Builders, Lengthened
  <1> QED
    BY <1>1, <1>2 DEF Collections, Identity

(* b2 is b with the bits of a range, and with padding.                      *)
Spread(b, b2, call, count) ==
  /\ call.first <= call.last
  /\ b.good /\ b.report_id_decided /\ b2 \in Builders /\ b2.data_main_emitted
  /\ b2.items = b.items \o BitItems(call, count)
  /\ b2.fields = b.fields \o BitLayout(b, call, count)
  /\ BitLayout(b, call, count) \in Seq(LayoutTypes)
  /\ b2.input_bits = b.input_bits + count
  /\ Collections(b2) = Collections(b) /\ Identity(b2) = Identity(b)
  /\ Records(b, b2, count, count, 1)
Padded(b, b2, bits) ==
  /\ bits \in Nat /\ bits <= 7 /\ b.good /\ b.report_id_decided
  /\ b2 \in Builders /\ b2.data_main_emitted
  /\ b2.items = b.items \o Sized(bits, 1, "input", 1)
  /\ b2.fields = Append(b.fields, Placed(PadLayout(bits), b.input_bits))
  /\ b2.input_bits = b.input_bits + bits
  /\ Collections(b2) = Collections(b) /\ Identity(b2) = Identity(b)
  /\ Records(b, b2, 0, 1, bits)

LEMMA RangeParts ==
  ASSUME NEW b \in Builders, NEW call \in RangeCalls,
         NEW count, count = call.last - call.first + 1,
         NEW b2, b2 = AddVariableRange(b, call)
  PROVE  b2 \in Builders /\ (b2.good => Spread(b, b2, call, count))
  <1> DEFINE ready == PrepareDataMain(b)
             written == Write(ready, BitItems(call, count))
             recorded == InputMain(written, count, count, 1)
             fields == recorded.fields \o BitLayout(b, call, count)
             bits == recorded.input_bits + count
  <1>1. ready \in Builders
    BY PreparedParts
  <1>2. \/ b2 = Fail(ready)
        \/ /\ written.good /\ call.first <= call.last
           /\ b2 = Lengthened(recorded, fields, bits)
    <2>1. BitItems(call, count) =
            <<UnsignedItem("usage_page", call.page), UnsignedItem("usage_minimum", call.first),
              UnsignedItem("usage_maximum", call.last)>>
            \o Extents(0, 1) \o Sized(1, count, "input", 2)
      BY DEF BitItems, RangeItems
    <2>2. b2 = IF ~written.good \/ call.last < call.first THEN Fail(ready)
               ELSE Lengthened(recorded, fields, bits)
      BY <2>1 DEF AddVariableRange, InputMain, Lengthened
    <2>3. call.first \in Int /\ call.last \in Int
      BY WordIs DEF RangeCalls
    <2> HIDE DEF ready, written, recorded, fields, bits
    <2> QED
      BY <2>2, <2>3
  <1> SUFFICES ASSUME written.good, call.first <= call.last,
                      b2 = Lengthened(recorded, fields, bits)
               PROVE  Spread(b, b2, call, count)
    BY <1>1, <1>2, FailedIs DEF Spread
  <1>3. count \in Nat /\ BitItems(call, count) \in Seq(Items) /\ b.input_bits \in Nat
    <2>1. call.page \in Nat /\ call.first \in Nat /\ call.last \in Nat
      BY WordIs DEF RangeCalls
    <2>2. count \in Nat
      BY <1>2, <2>1
    <2>3. b.items \in Seq(Items) /\ b.input_bits \in Nat
      BY DEF Builders
    <2> QED
      BY <2>1, <2>2, <2>3, RangeJoin
  <1>4. BitLayout(b, call, count) \in Seq(LayoutTypes)
    BY <1>3, BitsTyped
  <1>5. /\ recorded \in Builders /\ Wrote(b, recorded, BitItems(call, count))
        /\ Records(b, recorded, count, count, 1)
    <2> DEFINE one == 1
               items == BitItems(call, count)
    <2>1. /\ one \in Nat /\ items \in Seq(Items)
          /\ written = Write(PrepareDataMain(b), items)
          /\ recorded = InputMain(written, count, count, one)
      BY <1>3
    <2> HIDE DEF ready, written, recorded, one, items
    <2>2. /\ recorded \in Builders /\ Wrote(b, recorded, items)
          /\ Records(b, recorded, count, count, one)
      BY <1>2, <1>3, <2>1, InputParts
    <2> QED
      BY <2>2 DEF one, items
  <1> HIDE DEF ready, written, recorded
  <1>6. fields \in Seq(LayoutTypes) /\ bits \in Nat
    <2>1. recorded.fields \in Seq(LayoutTypes) /\ recorded.input_bits \in Nat
      BY <1>5 DEF Builders
    <2> QED
      BY <1>3, <1>4, <2>1
  <1> HIDE DEF fields, bits
  <1>7. /\ b2 \in Builders /\ b2.fields = fields /\ b2.input_bits = bits
        /\ b2.items = recorded.items /\ b2.data_main_emitted = recorded.data_main_emitted
        /\ b2.data_bits = recorded.data_bits /\ b2.data_fields = recorded.data_fields
        /\ Collections(b2) = Collections(recorded) /\ Identity(b2) = Identity(recorded)
        /\ b2.requirements = recorded.requirements
    BY <1>2, <1>5, <1>6, LengthenedParts
  <1>8. Records(b, b2, count, count, 1)
    BY <1>5, <1>7, SMTT(60) DEF Records
  <1> QED
    BY <1>2, <1>4, <1>5, <1>7, <1>8 DEF Spread, Wrote, fields, bits

LEMMA PadParts ==
  ASSUME NEW b \in Builders, NEW bits, bits = (8 - (b.input_bits % 8)) % 8,
         NEW b2, b2 = PadReport(b)
  PROVE  /\ bits = 0 => b2 = b
         /\ bits # 0 => b2 \in Builders /\ (b2.good => Padded(b, b2, bits))
  <1> SUFFICES ASSUME bits # 0
               PROVE  b2 \in Builders /\ (b2.good => Padded(b, b2, bits))
    BY DEF PadReport
  <1> DEFINE ready == PrepareDataMain(b)
             items == Sized(bits, 1, "input", 1)
             written == Write(ready, items)
             recorded == InputMain(written, 0, 1, bits)
             field == PadLayout(bits)
  <1>1. bits \in Nat /\ bits <= 7
    <2>1. b.input_bits \in Nat
      BY DEF Builders
    <2> QED
      BY <2>1
  <1>2. ready \in Builders
    BY PreparedParts
  <1>3. b2 = Fail(ready) \/ (written.good /\ b2 = AddLayout(recorded, field))
    <2>1. PadReport(b) = IF bits = 0 THEN b ELSE IF ~written.good THEN Fail(ready)
                         ELSE AddLayout(recorded, field)
      BY DEF PadReport, InputMain, PadLayout
    <2> HIDE DEF ready, items, written, recorded, field
    <2> QED
      BY <2>1
  <1> SUFFICES ASSUME written.good, b2 = AddLayout(recorded, field)
               PROVE  b2 \in Builders /\ (b2.good => Padded(b, b2, bits))
    BY <1>2, <1>3, FailedIs
  <1>4. items \in Seq(Items)
    <2> DEFINE one == 1
    <2>1. one \in Nat
      OBVIOUS
    <2> HIDE DEF one
    <2>2. Sized(bits, one, "input", one) \in Seq(Items)
      BY <1>1, <2>1, ItemsTyped
    <2> QED
      BY <2>2 DEF one
  <1>5. /\ recorded \in Builders /\ Wrote(b, recorded, items)
        /\ Records(b, recorded, 0, 1, bits)
    <2> DEFINE one == 1
               none == 0
    <2>1. /\ one \in Nat /\ none \in Nat
          /\ written = Write(PrepareDataMain(b), items)
          /\ recorded = InputMain(written, none, one, bits)
      OBVIOUS
    <2> HIDE DEF ready, written, recorded, one, none, items
    <2>2. /\ recorded \in Builders /\ Wrote(b, recorded, items)
          /\ Records(b, recorded, none, one, bits)
      BY <1>1, <1>3, <1>4, <2>1, InputParts
    <2> QED
      BY <2>2 DEF one, none
  <1> HIDE DEF ready, written, recorded, items
  <1>6. Placed(field, recorded.input_bits) \in LayoutTypes /\ field.width = bits
    <2> DEFINE none == NoPhysical
    <2>1. none \in PhysicalTypes
      BY PhysicalFitsIs
    <2>2. recorded.input_bits \in Nat
      BY <1>5 DEF Builders
    <2>3. field = [offset |-> 0, semantic |-> "constant_padding", instance |-> 0, width |-> bits,
                   minimum |-> 0, maximum |-> 0, physical |-> none, null_state |-> FALSE]
      BY DEF PadLayout
    <2> HIDE DEF none, field
    <2>4. field.width = bits /\ field \in LayoutTypes
      BY <1>1, <2>1, <2>3 DEF LayoutTypes
    <2>5. Placed(field, recorded.input_bits) \in LayoutTypes
      BY <2>2, <2>4 DEF LayoutTypes, Placed
    <2> QED
      BY <2>4, <2>5
  <1> HIDE DEF field
  <1>7. field.width \in Int
    BY <1>1, <1>6
  <1>8. b2 \in Builders
    BY <1>5, <1>6, <1>7, LayoutParts
  <1> SUFFICES ASSUME b2.good
               PROVE  Padded(b, b2, bits)
    BY <1>8
  <1>9. /\ b2.fields = Append(recorded.fields, Placed(field, recorded.input_bits))
        /\ b2.input_bits = recorded.input_bits + field.width
        /\ b2.items = recorded.items /\ b2.data_main_emitted = recorded.data_main_emitted
        /\ b2.data_bits = recorded.data_bits /\ b2.data_fields = recorded.data_fields
        /\ Collections(b2) = Collections(recorded) /\ Identity(b2) = Identity(recorded)
        /\ b2.requirements = recorded.requirements
    BY <1>5, <1>6, <1>7, LayoutParts
  <1>10. Records(b, b2, 0, 1, bits)
    BY <1>5, <1>9 DEF Records
  <1> QED
    BY <1>1, <1>5, <1>6, <1>8, <1>9, <1>10 DEF Padded, Wrote, items, field

LEMMA FeatureParts ==
  ASSUME NEW b \in Builders, NEW call \in FeatureCalls,
         NEW b2, b2 = AddFeature(b, call)
  PROVE  /\ b2 \in Builders
         /\ b2.good => Wrote(b, b2, FeatureItems(call)) /\ RecordsNothing(b, b2)
  <1> DEFINE ready == PrepareDataMain(b)
             items == FeatureItems(call)
             written == Write(ready, items)
  <1>1. ready \in Builders
    BY PreparedParts
  <1>2. b2 = Fail(ready) \/ (written.good /\ b2 = FeatureMain(written, call.width))
    <2>1. b2 = IF ~written.good THEN Fail(ready) ELSE FeatureMain(written, call.width)
      BY DEF AddFeature, FeatureItems, FeatureMain
    <2> HIDE DEF ready, items, written
    <2> QED
      BY <2>1
  <1> SUFFICES ASSUME written.good, b2 = FeatureMain(written, call.width)
               PROVE  /\ b2 \in Builders /\ Wrote(b, b2, FeatureItems(call))
                      /\ RecordsNothing(b, b2)
    BY <1>1, <1>2, FailedIs
  <1>3. items \in Seq(Items) /\ call.width \in Nat
    <2>1. b.items \in Seq(Items)
      BY DEF Builders
    <2>2. call.width \in Nat
      BY DEF FeatureCalls
    <2> QED
      BY <2>1, <2>2, FeatureJoin
  <1>4. b2 \in Builders /\ Wrote(b, b2, items) /\ RecordsNothing(b, b2)
    <2> DEFINE width == call.width
    <2>1. width \in Nat /\ written = Write(PrepareDataMain(b), items)
          /\ b2 = FeatureMain(written, width)
      BY <1>2, <1>3
    <2> HIDE DEF width, written, items
    <2> QED
      BY <1>2, <1>3, <2>1, FeatureMainParts
  <1> QED
    BY <1>4

-----------------------------------------------------------------------------
(* A Main item between two collections is one that validate_generated sees. *)
HasOneOf(s, S) == \E k \in DOMAIN s : s[k] \in S

LEMMA HasOneJoined ==
  ASSUME NEW C, NEW s \in Seq(C), NEW t \in Seq(C), NEW S, HasOneOf(s, S) \/ HasOneOf(t, S)
  PROVE  HasOneOf(s \o t, S)
  <1>1. CASE HasOneOf(s, S)
    <2>1. PICK k \in DOMAIN s : s[k] \in S
      BY <1>1 DEF HasOneOf
    <2>2. k \in DOMAIN (s \o t) /\ (s \o t)[k] = s[k]
      BY Joined
    <2> QED
      BY <2>1, <2>2 DEF HasOneOf
  <1>2. CASE HasOneOf(t, S)
    <2>1. PICK k \in 1..Len(t) : t[k] \in S
      BY <1>2 DEF HasOneOf
    <2>2. Len(s) + k \in DOMAIN (s \o t) /\ (s \o t)[Len(s) + k] = t[k]
      OBVIOUS
    <2> QED
      BY <2>1, <2>2 DEF HasOneOf
  <1> QED
    BY <1>1, <1>2

InputItems == {item \in Items : item.tag = "input"}

Flat(items) ==
  \A k \in DOMAIN items : items[k].tag # "collection" /\ items[k].tag # "end_collection"

LEMMA FlatJoined ==
  ASSUME NEW s \in Seq(Items), NEW t \in Seq(Items), Flat(s), Flat(t)
  PROVE  Flat(s \o t)
  <1> SUFFICES ASSUME NEW k \in DOMAIN (s \o t)
               PROVE  (s \o t)[k].tag # "collection" /\ (s \o t)[k].tag # "end_collection"
    BY DEF Flat
  <1>1. CASE k <= Len(s)
    <2>1. k \in DOMAIN s /\ (s \o t)[k] = s[k]
      BY <1>1
    <2> QED
      BY <2>1 DEF Flat
  <1>2. CASE k > Len(s)
    <2>1. k - Len(s) \in DOMAIN t /\ (s \o t)[k] = t[k - Len(s)]
      BY <1>2
    <2> QED
      BY <2>1 DEF Flat
  <1> QED
    BY <1>1, <1>2

MainsHold(items) == \A k \in MainData(items) : DepthBefore(items, k) > 0

LEMMA FlatDepth ==
  ASSUME NEW s \in Seq(Items), NEW t \in Seq(Items), Flat(t), NEW k \in 1..Len(t)
  PROVE  DepthBefore(s \o t, Len(s) + k) = Opened(s)
  <1>1. ASSUME NEW tag, tag = "collection" \/ tag = "end_collection"
        PROVE  {j \in 1..(Len(s) + k) - 1 : (s \o t)[j].tag = tag} =
                 {j \in 1..(Len(s) + 1) - 1 : s[j].tag = tag}
    <2>1. ASSUME NEW j \in 1..Len(s)
          PROVE  (s \o t)[j] = s[j] /\ j \in 1..(Len(s) + k) - 1 /\ j \in 1..(Len(s) + 1) - 1
      OBVIOUS
    <2>2. ASSUME NEW j \in 1..(Len(s) + k) - 1, j > Len(s)
          PROVE  (s \o t)[j].tag # tag
      <3>1. j - Len(s) \in DOMAIN t /\ (s \o t)[j] = t[j - Len(s)]
        BY <2>2
      <3> QED
        BY <1>1, <3>1 DEF Flat
    <2>3. 1..(Len(s) + 1) - 1 = 1..Len(s)
      OBVIOUS
    <2>4. \A j \in 1..(Len(s) + k) - 1 : j > Len(s) \/ j \in 1..Len(s)
      OBVIOUS
    <2> QED
      BY <2>1, <2>2, <2>3, <2>4
  <1> DEFINE opens == "collection"
             ends == "end_collection"
  <1>2. /\ {j \in 1..(Len(s) + k) - 1 : (s \o t)[j].tag = opens} =
             {j \in 1..(Len(s) + 1) - 1 : s[j].tag = opens}
        /\ {j \in 1..(Len(s) + k) - 1 : (s \o t)[j].tag = ends} =
             {j \in 1..(Len(s) + 1) - 1 : s[j].tag = ends}
    BY <1>1
  <1>3. DepthBefore(s \o t, Len(s) + k) =
          Cardinality({j \in 1..(Len(s) + k) - 1 : (s \o t)[j].tag = opens})
          - Cardinality({j \in 1..(Len(s) + k) - 1 : (s \o t)[j].tag = ends})
    <2> DEFINE whole == s \o t
               n == Len(s) + k
    <2> HIDE DEF whole, n
    <2>1. DepthBefore(whole, n) =
            Cardinality({j \in 1..n - 1 : whole[j].tag = opens})
            - Cardinality({j \in 1..n - 1 : whole[j].tag = ends})
      BY DEF DepthBefore
    <2> QED
      BY <2>1 DEF whole, n
  <1>4. Opened(s) = Cardinality({j \in 1..(Len(s) + 1) - 1 : s[j].tag = opens})
                    - Cardinality({j \in 1..(Len(s) + 1) - 1 : s[j].tag = ends})
    BY DEF DepthBefore, Opened
  <1> HIDE DEF opens, ends
  <1> QED
    BY <1>2, <1>3, <1>4

LEMMA MainOpen ==
  ASSUME NEW s \in Seq(Items), NEW t \in Seq(Items), Flat(t), HasOneOf(t, InputItems),
         MainsHold(s \o t)
  PROVE  Opened(s) > 0
  <1>1. PICK k \in 1..Len(t) : t[k].tag = "input"
    BY DEF HasOneOf, InputItems
  <1>2. Len(s) + k \in DOMAIN (s \o t) /\ (s \o t)[Len(s) + k] = t[k]
    BY JoinedAt
  <1>3. Len(s) + k \in MainData(s \o t)
    BY <1>1, <1>2 DEF MainData
  <1> QED
    BY <1>3, FlatDepth DEF MainsHold

LEMMA MainsHeld ==
  ASSUME NEW s \in Seq(Items), NEW t \in Seq(Items), MainsHold(s \o t)
  PROVE  MainsHold(s)
  <1> DEFINE whole == s \o t
  <1>1. /\ whole \in Seq(Items) /\ Len(s) <= Len(whole)
        /\ \A j \in 1..Len(s) : whole[j] = s[j]
    BY Joined
  <1>2. MainsHold(whole)
    OBVIOUS
  <1> HIDE DEF whole
  <1> SUFFICES ASSUME NEW k \in MainData(s)
               PROVE  DepthBefore(s, k) > 0
    BY DEF MainsHold
  <1>3. k \in 1..Len(s) /\ k \in 1..Len(s) + 1
    BY DEF MainData
  <1>4. k \in MainData(whole)
    BY <1>1, <1>3 DEF MainData
  <1>5. DepthBefore(whole, k) = DepthBefore(s, k)
    BY <1>1, <1>3, DepthKept
  <1> QED
    BY <1>2, <1>4, <1>5 DEF MainsHold

LEMMA TagIs ==
  /\ \A tag, x : UnsignedItem(tag, x).tag = tag /\ SignedItem(tag, x).tag = tag
  /\ \A tag, x, y : MaximumItem(tag, x, y).tag = tag
  /\ \A x : ExponentItem(x).tag = "unit_exponent"
  <1>1. \A tag, x, bytes : Item(tag, x, bytes).tag = tag
    BY DEF Item
  <1>2. \A tag, x : UnsignedItem(tag, x).tag = tag
    BY <1>1 DEF UnsignedItem
  <1>3. \A tag, x : SignedItem(tag, x).tag = tag
    BY <1>1 DEF SignedItem
  <1>4. \A tag, x, y : MaximumItem(tag, x, y).tag = tag
    BY <1>2, <1>3 DEF MaximumItem
  <1>5. \A x : ExponentItem(x).tag = "unit_exponent"
    BY <1>1 DEF ExponentItem
  <1> QED
    BY <1>2, <1>3, <1>4, <1>5

LEMMA FlatItems ==
  /\ \A call : Flat(Usages(call)) /\ Flat(RangeItems(call))
  /\ \A low, high : Flat(Extents(low, high))
  /\ \A physical : Flat(PhysicalItems(physical)) /\ Flat(Physicals(physical))
  /\ \A size, count, flags : Flat(Sized(size, count, "input", flags))
  <1>1. \A call : Flat(Usages(call))
    BY TagIs DEF Flat, Usages
  <1>2. \A call : Flat(RangeItems(call))
    BY TagIs DEF Flat, RangeItems
  <1>3. \A low, high : Flat(Extents(low, high))
    BY TagIs DEF Flat, Extents
  <1>4. \A physical : Flat(PhysicalItems(physical))
    BY TagIs DEF Flat, PhysicalItems
  <1>5. Flat(<<>>)
    BY DEF Flat
  <1>6. \A physical : Flat(Physicals(physical))
    BY <1>4, <1>5 DEF Physicals
  <1>7. \A size, count, flags : Flat(Sized(size, count, "input", flags))
    BY TagIs DEF Flat, Sized
  <1> QED
    BY <1>1, <1>2, <1>3, <1>4, <1>6, <1>7

LEMMA SizedHolds ==
  ASSUME NEW size \in Nat, NEW count \in Nat, NEW flags \in Nat
  PROVE  /\ Sized(size, count, "input", flags) \in Seq(Items)
         /\ HasOneOf(Sized(size, count, "input", flags), InputItems)
         /\ Flat(Sized(size, count, "input", flags))
  <1> DEFINE sized == Sized(size, count, "input", flags)
  <1>1. sized \in Seq(Items)
    BY ItemsTyped
  <1>2. Len(sized) = 3 /\ sized[3].tag = "input"
    BY TagIs DEF Sized
  <1> HIDE DEF sized
  <1>3. 3 \in DOMAIN sized /\ sized[3] \in InputItems
    <2>1. 3 \in 1..Len(sized)
      BY <1>2
    <2>2. 3 \in DOMAIN sized /\ sized[3] \in Items
      BY <1>1, <2>1
    <2> QED
      BY <1>2, <2>2 DEF InputItems
  <1>4. HasOneOf(sized, InputItems)
    BY <1>3 DEF HasOneOf
  <1> QED
    BY <1>1, <1>4, FlatItems DEF sized

LEMMA FieldHolds ==
  ASSUME NEW call \in VariableCalls
  PROVE  /\ Flat(FieldItems(call)) /\ HasOneOf(FieldItems(call), InputItems)
         /\ FieldItems(call) \in Seq(Items)
  <1> DEFINE u == Usages(call)
             e == Extents(call.minimum, call.maximum)
             p == Physicals(call.physical)
             s == Sized(call.width, 1, "input", call.flags)
  <1>1. u \in Seq(Items) /\ Flat(u) /\ e \in Seq(Items) /\ Flat(e)
    BY CallTypes, ItemsTyped, FlatItems
  <1>2. p \in Seq(Items) /\ Flat(p)
    <2>1. PhysicalFits(call.physical)
      BY CallTypes
    <2>2. PhysicalItems(call.physical) \in Seq(Items)
      BY <2>1, ItemsTyped
    <2>3. p \in Seq(Items)
      BY <2>2 DEF Physicals
    <2> QED
      BY <2>3, FlatItems
  <1>3. s \in Seq(Items) /\ Flat(s) /\ HasOneOf(s, InputItems)
    <2> DEFINE one == 1
               width == call.width
               flags == call.flags
    <2>1. one \in Nat /\ width \in Nat /\ flags \in Nat
      BY CallTypes
    <2> HIDE DEF one, width, flags
    <2>2. /\ Sized(width, one, "input", flags) \in Seq(Items)
          /\ HasOneOf(Sized(width, one, "input", flags), InputItems)
          /\ Flat(Sized(width, one, "input", flags))
      BY <2>1, SizedHolds
    <2> QED
      BY <2>2 DEF one, width, flags
  <1>4. FieldItems(call) = ((u \o e) \o p) \o s
    BY DEF FieldItems
  <1> HIDE DEF u, e, p, s
  <1>5. u \o e \in Seq(Items) /\ Flat(u \o e)
    BY <1>1, Joined, FlatJoined
  <1> DEFINE ue == u \o e
             uep == ue \o p
  <1>6. uep \in Seq(Items) /\ Flat(uep)
    <2> HIDE DEF ue
    <2> QED
      BY <1>2, <1>5, Joined, FlatJoined DEF ue
  <1> HIDE DEF uep
  <1>7. uep \o s \in Seq(Items) /\ Flat(uep \o s) /\ HasOneOf(uep \o s, InputItems)
    BY <1>3, <1>6, Joined, FlatJoined, HasOneJoined
  <1> QED
    BY <1>4, <1>7 DEF uep

LEMMA BitsHold ==
  ASSUME NEW call \in RangeCalls, NEW count \in Nat
  PROVE  /\ Flat(BitItems(call, count)) /\ HasOneOf(BitItems(call, count), InputItems)
         /\ BitItems(call, count) \in Seq(Items)
  <1> DEFINE u == RangeItems(call)
             e == Extents(0, 1)
             s == Sized(1, count, "input", 2)
  <1>1. u \in Seq(Items) /\ Flat(u)
    <2>1. call.page \in Nat /\ call.first \in Nat /\ call.last \in Nat
      BY WordIs DEF RangeCalls
    <2> QED
      BY <2>1, ItemsTyped, FlatItems
  <1>2. e \in Seq(Items) /\ Flat(e)
    BY ItemsTyped, FlatItems
  <1>3. s \in Seq(Items) /\ Flat(s) /\ HasOneOf(s, InputItems)
    <2> DEFINE one == 1
               flags == 2
    <2>1. one \in Nat /\ flags \in Nat
      OBVIOUS
    <2> HIDE DEF one, flags
    <2>2. /\ Sized(one, count, "input", flags) \in Seq(Items)
          /\ HasOneOf(Sized(one, count, "input", flags), InputItems)
          /\ Flat(Sized(one, count, "input", flags))
      BY <2>1, SizedHolds
    <2> QED
      BY <2>2 DEF one, flags
  <1>4. BitItems(call, count) = (u \o e) \o s
    BY DEF BitItems
  <1> HIDE DEF u, e, s
  <1> DEFINE ue == u \o e
  <1>5. ue \in Seq(Items) /\ Flat(ue)
    BY <1>1, <1>2, Joined, FlatJoined
  <1> HIDE DEF ue
  <1>6. ue \o s \in Seq(Items) /\ Flat(ue \o s) /\ HasOneOf(ue \o s, InputItems)
    BY <1>3, <1>5, Joined, FlatJoined, HasOneJoined
  <1> QED
    BY <1>4, <1>6 DEF ue

-----------------------------------------------------------------------------
(* What validate_generated asks of every prefix of a descriptor it accepts. *)
SpanHolds(field) == ((field.offset % 8) + field.width + 7) \div 8 <= 4
SpansHold(fields) == \A k \in DOMAIN fields : SpanHolds(fields[k])
Checked(b) == SpansHold(b.fields) /\ MainsHold(b.items)

LEMMA SpansHeld ==
  ASSUME NEW C, NEW s \in Seq(C), NEW t \in Seq(C), SpansHold(s \o t)
  PROVE  SpansHold(s)
  <1> SUFFICES ASSUME NEW k \in DOMAIN s
               PROVE  SpanHolds(s[k])
    BY DEF SpansHold
  <1>1. k \in DOMAIN (s \o t) /\ (s \o t)[k] = s[k]
    OBVIOUS
  <1> QED
    BY <1>1 DEF SpansHold

LEMMA SpansHeldOne ==
  ASSUME NEW C, NEW s \in Seq(C), NEW x \in C, SpansHold(Append(s, x))
  PROVE  SpansHold(s) /\ SpanHolds(x)
  <1>1. ASSUME NEW k \in DOMAIN s
        PROVE  SpanHolds(s[k])
    <2>1. k \in DOMAIN Append(s, x) /\ Append(s, x)[k] = s[k]
      OBVIOUS
    <2> QED
      BY <2>1 DEF SpansHold
  <1>2. Len(s) + 1 \in DOMAIN Append(s, x) /\ Append(s, x)[Len(s) + 1] = x
    OBVIOUS
  <1> QED
    BY <1>1, <1>2 DEF SpansHold

LEMMA SpanFits ==
  ASSUME NEW bits, bits \in Nat, NEW width, width \in Nat, NEW first,
         first = bits \/ first = bits + 8, NEW field, field.offset = first,
         field.width = width, SpanHolds(field)
  PROVE  FieldSpanIsValid(bits, width, 1)
  <1>1. (first % 8) + width <= 32
    <2>1. ((first % 8) + width + 7) \div 8 <= 4
      BY DEF SpanHolds
    <2>2. first \in Nat
      OBVIOUS
    <2> QED
      BY <2>1, <2>2
  <1>2. bits % 8 = first % 8
    OBVIOUS
  <1>3. ASSUME NEW k \in 0..0
        PROVE  ((bits + k * width) % 8) + width <= 32
    <2>1. bits + k * width = bits
      <3>1. k = 0 /\ 0 * width = 0
        BY <1>3
      <3> QED
        BY <3>1
    <2> QED
      BY <1>1, <1>2, <2>1
  <1>4. 0..(IF 1 < 8 THEN 1 ELSE 8) - 1 = 0..0
    OBVIOUS
  <1> QED
    BY <1>3, <1>4 DEF FieldSpanIsValid

LEMMA FeatureJoined ==
  ASSUME NEW s \in Seq(Items), NEW t \in Seq(Items), HasFeature(s)
  PROVE  HasFeature(s \o t)
  <1>1. PICK k \in DOMAIN s : s[k].tag = "feature"
    BY DEF HasFeature
  <1>2. k \in DOMAIN (s \o t) /\ (s \o t)[k] = s[k]
    OBVIOUS
  <1> QED
    BY <1>1, <1>2 DEF HasFeature

LEMMA FollowsParts ==
  ASSUME NEW items, NEW b, NEW r, NEW f, Follows(items, b, r, f)
  PROVE  /\ items \in Seq(Items) /\ f \in Seq(HostFields)
         /\ Opened(items) = b.collection_depth
  BY DEF Follows, At

(* The host knows the fields of the layout, place by place.                 *)
AgreeAll(hosts, fields) ==
  Len(hosts) = Len(fields) /\ \A k \in DOMAIN fields : Agrees(hosts[k], fields[k])

LEMMA AgreeOne ==
  ASSUME NEW hosts \in Seq(HostFields), NEW host, host \in HostFields,
         NEW fields \in Seq(LayoutTypes), NEW field, field \in LayoutTypes,
         AgreeAll(hosts, fields), Agrees(host, field)
  PROVE  AgreeAll(Append(hosts, host), Append(fields, field))
  <1>1. Len(Append(hosts, host)) = Len(Append(fields, field))
    BY DEF AgreeAll
  <1>2. ASSUME NEW k \in DOMAIN Append(fields, field)
        PROVE  Agrees(Append(hosts, host)[k], Append(fields, field)[k])
    <2>1. CASE k \in DOMAIN fields
      <3>1. Append(hosts, host)[k] = hosts[k] /\ Append(fields, field)[k] = fields[k]
        BY <2>1 DEF AgreeAll
      <3> QED
        BY <2>1, <3>1 DEF AgreeAll
    <2>2. CASE k = Len(fields) + 1
      <3>1. Append(hosts, host)[k] = host /\ Append(fields, field)[k] = field
        BY <2>2 DEF AgreeAll
      <3> QED
        BY <3>1
    <2>3. k \in DOMAIN fields \/ k = Len(fields) + 1
      OBVIOUS
    <2> QED
      BY <2>1, <2>2, <2>3
  <1> QED
    BY <1>1, <1>2 DEF AgreeAll

LEMMA AgreeJoined ==
  ASSUME NEW hosts \in Seq(HostFields), NEW more \in Seq(HostFields),
         NEW fields \in Seq(LayoutTypes), NEW others \in Seq(LayoutTypes),
         AgreeAll(hosts, fields), AgreeAll(more, others)
  PROVE  AgreeAll(hosts \o more, fields \o others)
  <1>1. Len(hosts \o more) = Len(fields \o others)
    BY DEF AgreeAll
  <1>2. ASSUME NEW k \in DOMAIN (fields \o others)
        PROVE  Agrees((hosts \o more)[k], (fields \o others)[k])
    <2>1. CASE k \in DOMAIN fields
      <3>1. (hosts \o more)[k] = hosts[k] /\ (fields \o others)[k] = fields[k]
        BY <2>1 DEF AgreeAll
      <3> QED
        BY <2>1, <3>1 DEF AgreeAll
    <2>2. CASE k > Len(fields)
      <3>1. /\ k - Len(fields) \in DOMAIN others
            /\ (hosts \o more)[k] = more[k - Len(fields)]
            /\ (fields \o others)[k] = others[k - Len(fields)]
        BY <2>2 DEF AgreeAll
      <3> QED
        BY <3>1 DEF AgreeAll
    <2>3. k \in DOMAIN fields \/ k > Len(fields)
      OBVIOUS
    <2> QED
      BY <2>1, <2>2, <2>3
  <1> QED
    BY <1>1, <1>2 DEF AgreeAll

(* The host is where the builder is.                                        *)
TrackedBy(b, needs, hosts) ==
  /\ Follows(b.items, b, needs, hosts) /\ AgreeAll(hosts, b.fields)
  /\ HasFeature(b.items) \/ needs = b.requirements
  /\ Len(b.fields) # 0 => b.top_level_application_seen
Tracked(b) == \E needs \in NeedTypes : \E hosts : TrackedBy(b, needs, hosts)

Growth(b) ==
  /\ b \in Builders
  /\ ~b.report_id_decided => b.report_id = 0
  /\ Len(b.fields) # 0 => b.data_main_emitted
  /\ Empty(b) /\ FirstOf(b) = b.input_bits
  /\ b.collection_depth # 0 => b.top_level_application_seen
Grows(b) == Growth(b) /\ (Checked(b) => Tracked(b))

-----------------------------------------------------------------------------
(* Every call keeps the host where the builder is.                          *)
LEMMA BeginKeeps ==
  ASSUME NEW b, Grows(b), NEW call \in BeginCalls, NEW b2, b2 = Begin(b, call), b2.good
  PROVE  Grows(b2)
  <1>1. /\ b \in Builders /\ b.items \in Seq(Items) /\ b.fields \in Seq(LayoutTypes)
        /\ b.collection_depth \in Nat /\ b.requirements \in NeedTypes
    BY DEF Grows, Growth, Builders
  <1>2. /\ b2 \in Builders /\ b2.items = b.items \o BeginItems(call)
        /\ b2.collection_depth = b.collection_depth + 1 /\ b2.top_level_application_seen
        /\ b.collection_depth = 0 => call.collection = 1 /\ ~b.top_level_application_seen
        /\ Identity(b2) = Identity(b) /\ Report(b2) = Report(b)
        /\ b2.requirements = Used(b.requirements, 1)
    BY <1>1, BeginParts, SMTT(60) DEF Begun
  <1>3. /\ b2.fields = b.fields /\ b2.data_bits = b.data_bits
        /\ b2.data_fields = b.data_fields /\ b2.input_bits = b.input_bits
        /\ b2.data_main_emitted = b.data_main_emitted
        /\ b2.report_id = b.report_id /\ b2.report_id_decided = b.report_id_decided
    BY <1>2 DEF Identity, Report
  <1>4. Growth(b2)
    BY <1>2, <1>3 DEF Grows, Growth, Empty, FirstOf
  <1>5. BeginItems(call) \in Seq(Items)
    <2>1. call.page \in Nat /\ call.usage \in Nat /\ call.collection \in Nat
      BY WordIs DEF BeginCalls
    <2> DEFINE item == UnsignedItem("collection", call.collection)
               usages == Usages(call)
    <2>2. usages \in Seq(Items)
      BY <2>1, ItemsTyped
    <2>3. "collection" \in Tags
      BY DEF Tags, MainTags
    <2>4. item \in Items
      BY <2>1, <2>3, UnsignedReadBack
    <2>5. BeginItems(call) = usages \o <<item>>
      BY DEF BeginItems
    <2> HIDE DEF item, usages
    <2> QED
      BY <2>2, <2>4, <2>5
  <1>6. ASSUME Checked(b2)
        PROVE  Tracked(b2)
    <2>1. Checked(b)
      <3>1. MainsHold(b.items)
        BY <1>1, <1>2, <1>5, <1>6, MainsHeld DEF Checked
      <3>2. SpansHold(b.fields)
        BY <1>3, <1>6 DEF Checked
      <3> QED
        BY <3>1, <3>2 DEF Checked
    <2>2. PICK needs, hosts : needs \in NeedTypes /\ TrackedBy(b, needs, hosts)
      BY <2>1 DEF Grows, Tracked
    <2>3. ParsedOf(b2) = ParsedOf(b) /\ SawMain(b2) = SawMain(b)
      BY <1>3 DEF ParsedOf, SawMain
    <2>4. Follows(b.items \o BeginItems(call), b2, Used(needs, 1), hosts)
      <3>1. Follows(b.items, b, needs, hosts)
        BY <2>2 DEF TrackedBy
      <3>2. b.collection_depth # 0 => b.top_level_application_seen
        BY DEF Grows, Growth
      <3> QED
        BY <1>1, <1>2, <1>3, <2>2, <2>3, <3>1, <3>2, BeginRead
    <2>5. Used(needs, 1) \in NeedTypes
      BY <2>2, UsedTwice
    <2>6. HasFeature(b2.items) \/ Used(needs, 1) = b2.requirements
      <3>1. CASE HasFeature(b.items)
        BY <1>1, <1>2, <1>5, <3>1, FeatureJoined
      <3>2. CASE needs = b.requirements
        BY <1>2, <3>2
      <3> QED
        BY <2>2, <3>1, <3>2 DEF TrackedBy
    <2>7. TrackedBy(b2, Used(needs, 1), hosts)
      BY <1>2, <1>3, <2>2, <2>4, <2>6 DEF TrackedBy
    <2> QED
      BY <2>5, <2>7 DEF Tracked
  <1> QED
    BY <1>4, <1>6 DEF Grows

LEMMA EndKeeps ==
  ASSUME NEW b, Grows(b), NEW b2, b2 = EndCollection(b), b2.good
  PROVE  Grows(b2)
  <1>1. /\ b \in Builders /\ b.items \in Seq(Items) /\ b.fields \in Seq(LayoutTypes)
        /\ b.collection_depth \in Nat /\ b.requirements \in NeedTypes
    BY DEF Grows, Growth, Builders
  <1> DEFINE item == BareItem("end_collection")
  <1>2. /\ b2 \in Builders /\ b2.items = b.items \o <<item>>
        /\ b.collection_depth # 0 /\ b2.collection_depth = b.collection_depth - 1
        /\ b2.top_level_application_seen = b.top_level_application_seen
        /\ Identity(b2) = Identity(b) /\ Report(b2) = Report(b)
        /\ b2.requirements = b.requirements
    BY <1>1, EndParts DEF EndedBy
  <1>3. /\ b2.fields = b.fields /\ b2.data_bits = b.data_bits
        /\ b2.data_fields = b.data_fields /\ b2.input_bits = b.input_bits
        /\ b2.data_main_emitted = b.data_main_emitted
        /\ b2.report_id = b.report_id /\ b2.report_id_decided = b.report_id_decided
    BY <1>2 DEF Identity, Report
  <1>4. b.top_level_application_seen /\ b2.top_level_application_seen
    BY <1>2 DEF Grows, Growth
  <1>5. Growth(b2)
    BY <1>2, <1>3, <1>4 DEF Grows, Growth, Empty, FirstOf
  <1>6. item \in Items
    BY DEF BareItem, Item, Items, Tags, MainTags
  <1>7. ASSUME Checked(b2)
        PROVE  Tracked(b2)
    <2> HIDE DEF item
    <2>1. <<item>> \in Seq(Items)
      BY <1>6
    <2>2. Checked(b)
      <3>1. MainsHold(b.items)
        BY <1>1, <1>2, <1>7, <2>1, MainsHeld DEF Checked
      <3>2. SpansHold(b.fields)
        BY <1>3, <1>7 DEF Checked
      <3> QED
        BY <3>1, <3>2 DEF Checked
    <2>3. PICK needs, hosts : needs \in NeedTypes /\ TrackedBy(b, needs, hosts)
      BY <2>2 DEF Grows, Tracked
    <2>4. ParsedOf(b2) = ParsedOf(b) /\ SawMain(b2) = SawMain(b)
      BY <1>3 DEF ParsedOf, SawMain
    <2>5. Follows(b.items \o <<item>>, b2, needs, hosts)
      <3>1. Follows(b.items, b, needs, hosts)
        BY <2>3 DEF TrackedBy
      <3> QED
        BY <1>1, <1>2, <1>3, <1>4, <2>3, <2>4, <3>1, CloseRead DEF item
    <2>6. HasFeature(b2.items) \/ needs = b2.requirements
      <3>1. CASE HasFeature(b.items)
        BY <1>1, <1>2, <2>1, <3>1, FeatureJoined
      <3>2. CASE needs = b.requirements
        BY <1>2, <3>2
      <3> QED
        BY <2>3, <3>1, <3>2 DEF TrackedBy
    <2>7. TrackedBy(b2, needs, hosts)
      BY <1>2, <1>3, <1>4, <2>3, <2>5, <2>6 DEF TrackedBy
    <2> QED
      BY <2>3, <2>7 DEF Tracked
  <1> QED
    BY <1>5, <1>7 DEF Grows

LEMMA IdKeeps ==
  ASSUME NEW b, Grows(b), NEW call \in IdCalls, NEW b2, b2 = SetReportId(b, call), b2.good
  PROVE  Grows(b2)
  <1>1. /\ b \in Builders /\ b.items \in Seq(Items) /\ b.fields \in Seq(LayoutTypes)
        /\ b.collection_depth \in Nat /\ b.requirements \in NeedTypes
        /\ b.data_bits.input \in Nat
    BY DEF Grows, Growth, Builders, Counts
  <1>2. /\ b2 \in Builders /\ ~b.report_id_decided /\ ~b.data_main_emitted
        /\ b2.report_id_decided
        /\ b2.items = b.items \o IdItems(call)
        /\ Collections(b2) = Collections(b) /\ Rest(b2) = Rest(b)
        /\ b2.requirements = b.requirements
        /\ call.enabled = 0 => b2.report_id = 0 /\ b2.input_bits = 0
        /\ call.enabled # 0 =>
             /\ call.value # 0 /\ b2.report_id = call.value /\ b2.input_bits = 8
    BY <1>1, IdParts, SMTT(60) DEF Identified
  <1>3. /\ b2.fields = b.fields /\ b2.data_bits = b.data_bits
        /\ b2.data_fields = b.data_fields /\ b2.data_main_emitted = b.data_main_emitted
        /\ b2.collection_depth = b.collection_depth
        /\ b2.top_level_application_seen = b.top_level_application_seen
    BY <1>2 DEF Collections, Rest
  <1>4. /\ Len(b.fields) = 0 /\ Len(b2.fields) = 0 /\ b.report_id = 0
        /\ b.data_bits.input = 0 /\ b.data_fields.input = 0
    BY <1>2, <1>3 DEF Grows, Growth, Empty
  <1>5. FirstOf(b2) = b2.input_bits
    BY <1>2, <1>3, <1>4 DEF FirstOf
  <1>6. Growth(b2)
    BY <1>2, <1>3, <1>4, <1>5 DEF Grows, Growth, Empty
  <1>7. IdItems(call) \in Seq(Items)
    <2> DEFINE item == UnsignedItem("report_id", call.value)
    <2>1. "report_id" \in Tags
      BY DEF Tags, GlobalTags
    <2>2. call.value \in Nat
      BY WordIs DEF IdCalls
    <2>3. item \in Items
      BY <2>1, <2>2, UnsignedReadBack
    <2>4. IdItems(call) = IF call.enabled = 0 THEN <<>> ELSE <<item>>
      BY DEF IdItems
    <2> HIDE DEF item
    <2>5. <<item>> \in Seq(Items)
      BY <2>3
    <2>6. <<>> \in Seq(Items)
      OBVIOUS
    <2> QED
      BY <2>4, <2>5, <2>6
  <1>8. ASSUME Checked(b2)
        PROVE  Tracked(b2)
    <2>1. Checked(b)
      <3>1. MainsHold(b.items)
        BY <1>1, <1>2, <1>7, <1>8, MainsHeld DEF Checked
      <3>2. SpansHold(b.fields)
        BY <1>3, <1>8 DEF Checked
      <3> QED
        BY <3>1, <3>2 DEF Checked
    <2>2. PICK needs, hosts : needs \in NeedTypes /\ TrackedBy(b, needs, hosts)
      BY <2>1 DEF Grows, Tracked
    <2>3. ParsedOf(b2) = ParsedOf(b) /\ SawMain(b2) = SawMain(b) /\ Tops(b2) = Tops(b)
      BY <1>3, <1>4 DEF ParsedOf, SawMain, Tops
    <2>4. Follows(b.items, b, needs, hosts)
      BY <2>2 DEF TrackedBy
    <2>5. Follows(b2.items, b2, needs, hosts)
      <3>1. CASE call.enabled = 0
        <4>1. b2.items = b.items
          BY <1>1, <1>2, <3>1 DEF IdItems
        <4>2. Alike(b, b2)
          BY <1>2, <1>3, <1>4, <2>3, <3>1 DEF Alike
        <4> QED
          BY <2>4, <4>1, <4>2, AlikeRead
      <3>2. CASE call.enabled # 0
        <4> DEFINE id == call.value
        <4>1. b2.items = b.items \o <<UnsignedItem("report_id", id)>>
          BY <1>2, <3>2 DEF IdItems
        <4>2. id \in Word8 /\ id # 0 /\ b2.report_id = id
          BY <1>2, <3>2 DEF IdCalls
        <4> HIDE DEF id
        <4>3. Follows(b.items \o <<UnsignedItem("report_id", id)>>, b2, needs, hosts)
          BY <1>3, <1>4, <2>3, <2>4, <4>2, IdRead
        <4> QED
          BY <4>1, <4>3
      <3> QED
        BY <3>1, <3>2
    <2>6. HasFeature(b2.items) \/ needs = b2.requirements
      <3>1. CASE HasFeature(b.items)
        BY <1>1, <1>2, <1>7, <3>1, FeatureJoined
      <3>2. CASE needs = b.requirements
        BY <1>2, <3>2
      <3> QED
        BY <2>2, <3>1, <3>2 DEF TrackedBy
    <2>7. TrackedBy(b2, needs, hosts)
      BY <1>2, <1>3, <2>2, <2>5, <2>6 DEF TrackedBy
    <2> QED
      BY <2>2, <2>7 DEF Tracked
  <1> QED
    BY <1>6, <1>8 DEF Grows

LEMMA GrowsParts ==
  ASSUME NEW b, Grows(b)
  PROVE  /\ b \in Builders /\ b.items \in Seq(Items) /\ b.fields \in Seq(LayoutTypes)
         /\ b.collection_depth \in Nat /\ b.requirements \in NeedTypes
         /\ b.data_bits.input \in Nat /\ b.data_fields.input \in Nat /\ b.input_bits \in Nat
         /\ Empty(b) /\ FirstOf(b) = b.input_bits
         /\ b.collection_depth # 0 => b.top_level_application_seen
         /\ Checked(b) => Tracked(b)
  BY DEF Grows, Growth, Builders, Counts

(* An Input item keeps what does not depend on the host.                    *)
LEMMA InputGrows ==
  ASSUME NEW b, Grows(b), NEW b2, b2 \in Builders, b2.data_main_emitted,
         b.report_id_decided, Len(b2.fields) # 0, NEW bits, bits \in Nat,
         b2.input_bits = b.input_bits + bits,
         b2.data_bits.input = b.data_bits.input + bits,
         Collections(b2) = Collections(b), Identity(b2) = Identity(b)
  PROVE  Growth(b2)
  <1>1. /\ b2.report_id_decided /\ b2.report_id = b.report_id
        /\ b2.collection_depth = b.collection_depth
        /\ b2.top_level_application_seen = b.top_level_application_seen
    BY DEF Collections, Identity
  <1>2. FirstOf(b2) = b2.input_bits
    <2>1. /\ FirstOf(b) = b.input_bits /\ b.data_bits.input \in Nat /\ b.input_bits \in Nat
      BY GrowsParts
    <2> QED
      BY <1>1, <2>1 DEF FirstOf
  <1> QED
    BY <1>1, <1>2, GrowsParts DEF Growth, Empty

LEMMA CountsTyped ==
  ASSUME NEW needs \in NeedTypes, NEW usages, usages \in Nat, NEW size, size \in Nat,
         NEW bits, bits \in Nat, NEW fields, fields \in Nat
  PROVE  Counting(needs, usages, size, bits, fields) \in NeedTypes
  <1>1. Larger(usages, usages) = usages
    BY DEF Larger
  <1>2. Counting(needs, Larger(usages, usages), size, bits, fields) \in NeedTypes
    BY NeedsAgree
  <1> QED
    BY <1>1, <1>2

LEMMA VariableKeeps ==
  ASSUME NEW b, Grows(b), NEW call \in VariableCalls, NEW b2, b2 = AddVariable(b, call),
         b2.good
  PROVE  Grows(b2)
  <1> DEFINE field == Placed(LayoutOf(call), b.input_bits)
             items == FieldItems(call)
             reset == ResetItems(call)
             width == call.width
  <1>1. /\ b \in Builders /\ b.items \in Seq(Items) /\ b.fields \in Seq(LayoutTypes)
        /\ b.collection_depth \in Nat /\ b.requirements \in NeedTypes
        /\ b.data_bits.input \in Nat /\ b.data_fields.input \in Nat /\ b.input_bits \in Nat
        /\ Empty(b) /\ FirstOf(b) = b.input_bits
        /\ b.collection_depth # 0 => b.top_level_application_seen
        /\ Checked(b) => Tracked(b)
    BY GrowsParts
  <1>2. /\ b.report_id_decided /\ b2 \in Builders /\ b2.data_main_emitted
        /\ b2.items = (b.items \o items) \o reset
        /\ b2.fields = Append(b.fields, field)
        /\ b2.input_bits = b.input_bits + width
        /\ Collections(b2) = Collections(b) /\ Identity(b2) = Identity(b)
        /\ b2.data_bits.input = b.data_bits.input + width * 1
        /\ b2.data_fields.input = b.data_fields.input + 1
        /\ b2.requirements = Counting(b.requirements, 1, width,
                                      b2.data_bits.input, b2.data_fields.input)
    BY <1>1, VariableParts DEF Added
  <1>3. field \in LayoutTypes /\ width \in Nat
    BY <1>1, PlacedTyped, CallTypes
  <1>4. field.offset = b.input_bits /\ field.width = width
    BY DEF Placed, LayoutOf
  <1>5. items \in Seq(Items) /\ reset \in Seq(Items) /\ Flat(items)
        /\ HasOneOf(items, InputItems)
    BY <1>1, FieldItemsJoin, FieldHolds
  <1> HIDE DEF field, items, reset, width
  <1>6. /\ b2.report_id = b.report_id /\ b2.collection_depth = b.collection_depth
        /\ b2.top_level_application_seen = b.top_level_application_seen
    BY <1>2 DEF Collections, Identity
  <1>7. Len(b2.fields) # 0 /\ b2.data_bits.input = b.data_bits.input + width
    BY <1>1, <1>2, <1>3
  <1>8. Growth(b2)
    BY <1>2, <1>3, <1>7, InputGrows
  <1>9. ASSUME Checked(b2)
        PROVE  Tracked(b2)
    <2>1. MainsHold(b.items \o items)
      <3>1. b.items \o items \in Seq(Items)
        BY <1>1, <1>5, Joined
      <3> QED
        BY <1>2, <1>5, <1>9, <3>1, MainsHeld DEF Checked
    <2>2. SpansHold(b.fields) /\ SpanHolds(field)
      BY <1>1, <1>2, <1>3, <1>9, SpansHeldOne DEF Checked
    <2>3. Checked(b)
      BY <1>1, <1>5, <2>1, <2>2, MainsHeld DEF Checked
    <2>4. Opened(b.items) > 0
      BY <1>1, <1>5, <2>1, MainOpen
    <2>5. PICK needs, hosts : needs \in NeedTypes /\ TrackedBy(b, needs, hosts)
      BY <1>1, <2>3 DEF Tracked
    <2>6. Follows(b.items, b, needs, hosts)
      BY <2>5 DEF TrackedBy
    <2>7. b.collection_depth \in Nat \ {0} /\ hosts \in Seq(HostFields)
      BY <1>1, <2>4, <2>6, FollowsParts
    <2>8. FieldSpanIsValid(b.data_bits.input, width, 1)
      <3> DEFINE bits == b.data_bits.input
      <3>1. field.offset = bits \/ field.offset = bits + 8
        BY <1>1, <1>4 DEF FirstOf
      <3>2. bits \in Nat
        BY <1>1
      <3> HIDE DEF bits
      <3>3. FieldSpanIsValid(bits, width, 1)
        BY <1>3, <1>4, <2>2, <3>1, <3>2, SpanFits
      <3> QED
        BY <3>3 DEF bits
    <2>9. More(b, b2, width, 1, 1)
      BY <1>2, <1>6, <1>7 DEF More
    <2> DEFINE needs2 == Counting(needs, 1, width, b2.data_bits.input, b2.data_fields.input)
    <2>10. PICK host \in HostFields :
             /\ Follows((b.items \o items) \o reset, b2, needs2, Append(hosts, host))
             /\ Agrees(host, field)
      <3>1. \E host \in HostFields :
              /\ Follows((b.items \o FieldItems(call)) \o ResetItems(call), b2,
                         Counting(needs, 1, call.width, b2.data_bits.input,
                                  b2.data_fields.input),
                         Append(hosts, host))
              /\ Agrees(host, [LayoutOf(call) EXCEPT !.offset = FirstOf(b)])
        BY <1>1, <2>5, <2>6, <2>7, <2>8, <2>9, VariableRead DEF width
      <3>2. field = [LayoutOf(call) EXCEPT !.offset = FirstOf(b)]
        BY <1>1 DEF field, Placed
      <3> QED
        BY <3>1, <3>2 DEF items, reset, width
    <2>11. needs2 \in NeedTypes
      <3> DEFINE one == 1
                 bits == b2.data_bits.input
                 number == b2.data_fields.input
      <3>1. one \in Nat /\ bits \in Nat /\ number \in Nat
        BY <1>2 DEF Builders, Counts
      <3> HIDE DEF one, bits, number
      <3>2. Counting(needs, one, width, bits, number) \in NeedTypes
        BY <1>3, <2>5, <3>1, CountsTyped
      <3> QED
        BY <3>2 DEF one, bits, number
    <2>12. HasFeature(b2.items) \/ needs2 = b2.requirements
      <3>1. CASE HasFeature(b.items)
        <4>1. HasFeature(b.items \o items) /\ b.items \o items \in Seq(Items)
          BY <1>1, <1>5, <3>1, FeatureJoined, Joined
        <4> QED
          BY <1>2, <1>5, <4>1, FeatureJoined
      <3>2. CASE needs = b.requirements
        BY <1>2, <3>2
      <3> QED
        BY <2>5, <3>1, <3>2 DEF TrackedBy
    <2>13. AgreeAll(Append(hosts, host), b2.fields)
      BY <1>1, <1>2, <1>3, <2>5, <2>7, <2>10, AgreeOne DEF TrackedBy
    <2>14. b2.top_level_application_seen
      BY <1>1, <1>6, <2>7
    <2> HIDE DEF needs2
    <2>15. TrackedBy(b2, needs2, Append(hosts, host))
      BY <1>2, <2>10, <2>12, <2>13, <2>14 DEF TrackedBy
    <2> QED
      BY <2>11, <2>15 DEF Tracked
  <1> QED
    BY <1>8, <1>9 DEF Grows

LEMMA RangeKeeps ==
  ASSUME NEW b, Grows(b), NEW call \in RangeCalls, NEW b2, b2 = AddVariableRange(b, call),
         b2.good
  PROVE  Grows(b2) /\ Len(b2.fields) # 0
  <1> DEFINE count == call.last - call.first + 1
             items == BitItems(call, count)
             layouts == BitLayout(b, call, count)
  <1>1. /\ b \in Builders /\ b.items \in Seq(Items) /\ b.fields \in Seq(LayoutTypes)
        /\ b.collection_depth \in Nat /\ b.requirements \in NeedTypes
        /\ b.data_bits.input \in Nat /\ b.data_fields.input \in Nat /\ b.input_bits \in Nat
        /\ Empty(b) /\ FirstOf(b) = b.input_bits
        /\ b.collection_depth # 0 => b.top_level_application_seen
        /\ Checked(b) => Tracked(b)
    BY GrowsParts
  <1>2. /\ call.first <= call.last
        /\ b.report_id_decided /\ b2 \in Builders /\ b2.data_main_emitted
        /\ b2.items = b.items \o items
        /\ b2.fields = b.fields \o layouts
        /\ layouts \in Seq(LayoutTypes)
        /\ b2.input_bits = b.input_bits + count
        /\ Collections(b2) = Collections(b) /\ Identity(b2) = Identity(b)
        /\ Records(b, b2, count, count, 1)
    <2>1. count = call.last - call.first + 1
      OBVIOUS
    <2> HIDE DEF count
    <2>2. Spread(b, b2, call, count)
      BY <1>1, <2>1, RangeParts
    <2> QED
      BY <2>2 DEF Spread
  <1>3. count \in Nat /\ count # 0 /\ Len(layouts) = count
    <2>1. call.first \in Nat /\ call.last \in Nat
      BY WordIs DEF RangeCalls
    <2>2. count \in Nat /\ count # 0
      BY <1>2, <2>1
    <2> HIDE DEF count
    <2>3. Len(layouts) = count
      BY <2>2 DEF BitLayout
    <2> QED
      BY <2>2, <2>3
  <1>4. items \in Seq(Items) /\ Flat(items) /\ HasOneOf(items, InputItems)
    <2> HIDE DEF count
    <2> QED
      BY <1>3, BitsHold
  <1>5. /\ b2.report_id = b.report_id /\ b2.collection_depth = b.collection_depth
        /\ b2.top_level_application_seen = b.top_level_application_seen
    BY <1>2 DEF Collections, Identity
  <1>6. /\ b2.data_bits.input = b.data_bits.input + 1 * count
        /\ b2.data_fields.input = b.data_fields.input + (IF count = 0 THEN 0 ELSE 1)
        /\ b2.requirements = Counting(b.requirements, count, 1,
                                      b2.data_bits.input, b2.data_fields.input)
    <2>1. Larger(count, count) = count
      BY DEF Larger
    <2> QED
      BY <1>2, <2>1 DEF Records
  <1> HIDE DEF items, count, layouts
  <1>7. Len(b2.fields) # 0 /\ b2.data_bits.input = b.data_bits.input + count
    BY <1>1, <1>2, <1>3, <1>6
  <1>8. Growth(b2)
    BY <1>2, <1>3, <1>7, InputGrows
  <1>9. ASSUME Checked(b2)
        PROVE  Tracked(b2)
    <2>1. MainsHold(b.items \o items) /\ SpansHold(b.fields \o layouts)
      BY <1>2, <1>9 DEF Checked
    <2>2. Checked(b)
      BY <1>1, <1>2, <1>4, <2>1, MainsHeld, SpansHeld DEF Checked
    <2>3. Opened(b.items) > 0
      BY <1>1, <1>4, <2>1, MainOpen
    <2>4. PICK needs, hosts : needs \in NeedTypes /\ TrackedBy(b, needs, hosts)
      BY <1>1, <2>2 DEF Tracked
    <2>5. Follows(b.items, b, needs, hosts)
      BY <2>4 DEF TrackedBy
    <2>6. b.collection_depth \in Nat \ {0} /\ hosts \in Seq(HostFields)
      BY <1>1, <2>3, <2>5, FollowsParts
    <2>7. More(b, b2, 1, count, count)
      BY <1>3, <1>5, <1>6, <1>7 DEF More
    <2> DEFINE needs2 == Counting(needs, count, 1, b2.data_bits.input, b2.data_fields.input)
    <2>8. PICK more \in Seq(HostFields) :
             /\ Follows(b.items \o items, b2, needs2, hosts \o more)
             /\ Len(more) = count
             /\ \A k \in 1..count : Agrees(more[k], layouts[k])
      <3>1. count = call.last - call.first + 1
        BY DEF count
      <3>2. \E more \in Seq(HostFields) :
              /\ Follows(b.items \o BitItems(call, count), b2,
                         Counting(needs, count, 1, b2.data_bits.input, b2.data_fields.input),
                         hosts \o more)
              /\ Len(more) = count
              /\ \A k \in 1..count : Agrees(more[k], BitLayout(b, call, count)[k])
        BY <1>1, <1>2, <2>4, <2>5, <2>6, <2>7, <3>1, BitsWritten
      <3> QED
        BY <3>2 DEF items, layouts
    <2>9. needs2 \in NeedTypes
      <3> DEFINE one == 1
                 bits == b2.data_bits.input
                 number == b2.data_fields.input
      <3>1. one \in Nat /\ bits \in Nat /\ number \in Nat
        BY <1>2 DEF Builders, Counts
      <3> HIDE DEF one, bits, number
      <3>2. Counting(needs, count, one, bits, number) \in NeedTypes
        BY <1>3, <2>4, <3>1, CountsTyped
      <3> QED
        BY <3>2 DEF one, bits, number
    <2>10. HasFeature(b2.items) \/ needs2 = b2.requirements
      <3>1. CASE HasFeature(b.items)
        BY <1>1, <1>2, <1>4, <3>1, FeatureJoined
      <3>2. CASE needs = b.requirements
        BY <1>6, <3>2
      <3> QED
        BY <2>4, <3>1, <3>2 DEF TrackedBy
    <2>11. AgreeAll(hosts \o more, b2.fields)
      <3>1. AgreeAll(more, layouts)
        BY <1>2, <1>3, <2>8 DEF AgreeAll
      <3>2. AgreeAll(hosts, b.fields)
        BY <2>4 DEF TrackedBy
      <3> QED
        BY <1>1, <1>2, <2>6, <2>8, <3>1, <3>2, AgreeJoined
    <2>12. b2.top_level_application_seen
      BY <1>1, <1>5, <2>6
    <2> HIDE DEF needs2
    <2>13. TrackedBy(b2, needs2, hosts \o more)
      BY <1>2, <2>8, <2>10, <2>11, <2>12 DEF TrackedBy
    <2> QED
      BY <2>9, <2>13 DEF Tracked
  <1> QED
    BY <1>7, <1>8, <1>9 DEF Grows

LEMMA PadKeeps ==
  ASSUME NEW b, Grows(b), NEW b2, b2 = PadReport(b), b2.good
  PROVE  Grows(b2) /\ (Len(b.fields) # 0 => Len(b2.fields) # 0)
  <1> DEFINE bits == (8 - (b.input_bits % 8)) % 8
             field == Placed(PadLayout(bits), b.input_bits)
             items == Sized(bits, 1, "input", 1)
  <1>1. /\ b \in Builders /\ b.items \in Seq(Items) /\ b.fields \in Seq(LayoutTypes)
        /\ b.collection_depth \in Nat /\ b.requirements \in NeedTypes
        /\ b.data_bits.input \in Nat /\ b.data_fields.input \in Nat /\ b.input_bits \in Nat
        /\ Empty(b) /\ FirstOf(b) = b.input_bits
        /\ b.collection_depth # 0 => b.top_level_application_seen
        /\ Checked(b) => Tracked(b)
    BY GrowsParts
  <1>2. CASE bits = 0
    <2>1. b2 = b
      BY <1>1, <1>2, PadParts
    <2> QED
      BY <2>1
  <1>3. CASE bits # 0
    <2>1. /\ bits \in Nat /\ bits <= 7 /\ b.report_id_decided
          /\ b2 \in Builders /\ b2.data_main_emitted
          /\ b2.items = b.items \o items
          /\ b2.fields = Append(b.fields, field)
          /\ b2.input_bits = b.input_bits + bits
          /\ Collections(b2) = Collections(b) /\ Identity(b2) = Identity(b)
          /\ Records(b, b2, 0, 1, bits)
      <3> DEFINE size == bits
      <3>1. size = (8 - (b.input_bits % 8)) % 8 /\ size # 0
        BY <1>3
      <3> HIDE DEF size
      <3>2. Padded(b, b2, size)
        BY <1>1, <3>1, PadParts
      <3> QED
        BY <3>2 DEF size, Padded
    <2> HIDE DEF bits
    <2>2. items \in Seq(Items) /\ Flat(items) /\ HasOneOf(items, InputItems)
      <3> DEFINE one == 1
      <3>1. one \in Nat
        OBVIOUS
      <3> HIDE DEF one
      <3>2. /\ Sized(bits, one, "input", one) \in Seq(Items)
            /\ Flat(Sized(bits, one, "input", one))
            /\ HasOneOf(Sized(bits, one, "input", one), InputItems)
        BY <2>1, <3>1, SizedHolds
      <3> QED
        BY <3>2 DEF one
    <2>3. /\ b2.report_id = b.report_id /\ b2.collection_depth = b.collection_depth
          /\ b2.top_level_application_seen = b.top_level_application_seen
      BY <2>1 DEF Collections, Identity
    <2>4. /\ b2.data_bits.input = b.data_bits.input + bits * 1
          /\ b2.data_fields.input = b.data_fields.input + (IF 0 = 0 THEN 0 ELSE 1)
          /\ b2.requirements = Counting(b.requirements, 1, bits,
                                        b2.data_bits.input, b2.data_fields.input)
      <3>1. Larger(0, 1) = 1
        BY DEF Larger
      <3> QED
        BY <2>1, <3>1 DEF Records
    <2> HIDE DEF items
    <2>5. Len(b2.fields) # 0 /\ b2.data_bits.input = b.data_bits.input + bits
      <3> HIDE DEF field
      <3> QED
        BY <1>1, <2>1, <2>4
    <2>6. field \in LayoutTypes
      <3> DEFINE none == NoPhysical
                 pad == PadLayout(bits)
      <3>1. none \in PhysicalTypes
        BY PhysicalFitsIs
      <3>2. pad = [offset |-> 0, semantic |-> "constant_padding", instance |-> 0, width |-> bits,
                   minimum |-> 0, maximum |-> 0, physical |-> none, null_state |-> FALSE]
        BY DEF PadLayout
      <3> HIDE DEF none, pad
      <3>3. pad \in LayoutTypes
        BY <2>1, <3>1, <3>2 DEF LayoutTypes
      <3>4. Placed(pad, b.input_bits) \in LayoutTypes
        BY <1>1, <3>3 DEF LayoutTypes, Placed
      <3> QED
        BY <3>4 DEF pad
    <2> HIDE DEF field
    <2>7. Growth(b2)
      BY <2>1, <2>5, InputGrows
    <2>8. ASSUME Checked(b2)
          PROVE  Tracked(b2)
      <3>1. MainsHold(b.items \o items) /\ SpansHold(b.fields)
        BY <1>1, <2>1, <2>6, <2>8, SpansHeldOne DEF Checked
      <3>2. Checked(b)
        BY <1>1, <2>2, <3>1, MainsHeld DEF Checked
      <3>3. Opened(b.items) > 0
        BY <1>1, <2>2, <3>1, MainOpen
      <3>4. PICK needs, hosts : needs \in NeedTypes /\ TrackedBy(b, needs, hosts)
        BY <1>1, <3>2 DEF Tracked
      <3>5. Follows(b.items, b, needs, hosts)
        BY <3>4 DEF TrackedBy
      <3>6. b.collection_depth \in Nat \ {0} /\ hosts \in Seq(HostFields)
        BY <1>1, <3>3, <3>5, FollowsParts
      <3>7. More(b, b2, bits, 1, 0)
        BY <2>3, <2>4, <2>5 DEF More
      <3> DEFINE needs2 == Counting(needs, 1, bits, b2.data_bits.input, b2.data_fields.input)
      <3>8. PICK host \in HostFields :
              /\ Follows(b.items \o items, b2, needs2, Append(hosts, host))
              /\ Agrees(host, field)
        <4>1. \E host \in HostFields :
                /\ Follows(b.items \o Sized(bits, 1, "input", 1), b2,
                           Counting(needs, 1, bits, b2.data_bits.input,
                                    b2.data_fields.input),
                           Append(hosts, host))
                /\ Agrees(host, Placed(PadLayout(bits), FirstOf(b)))
          BY <1>1, <1>3, <2>1, <3>4, <3>5, <3>6, <3>7, PadRead
        <4> QED
          BY <1>1, <4>1 DEF items, field
      <3>9. needs2 \in NeedTypes
        <4> DEFINE one == 1
                   total == b2.data_bits.input
                   number == b2.data_fields.input
        <4>1. one \in Nat /\ total \in Nat /\ number \in Nat
          BY <2>1 DEF Builders, Counts
        <4> HIDE DEF one, total, number
        <4>2. Counting(needs, one, bits, total, number) \in NeedTypes
          BY <2>1, <3>4, <4>1, CountsTyped
        <4> QED
          BY <4>2 DEF one, total, number
      <3>10. HasFeature(b2.items) \/ needs2 = b2.requirements
        <4>1. CASE HasFeature(b.items)
          BY <1>1, <2>1, <2>2, <4>1, FeatureJoined
        <4>2. CASE needs = b.requirements
          BY <2>4, <4>2
        <4> QED
          BY <3>4, <4>1, <4>2 DEF TrackedBy
      <3>11. AgreeAll(Append(hosts, host), b2.fields)
        BY <1>1, <2>1, <2>6, <3>4, <3>6, <3>8, AgreeOne DEF TrackedBy
      <3>12. b2.top_level_application_seen
        BY <1>1, <2>3, <3>6
      <3> HIDE DEF needs2
      <3>13. TrackedBy(b2, needs2, Append(hosts, host))
        BY <2>1, <3>8, <3>10, <3>11, <3>12 DEF TrackedBy
      <3> QED
        BY <3>9, <3>13 DEF Tracked
    <2> QED
      BY <2>5, <2>7, <2>8 DEF Grows
  <1> QED
    BY <1>2, <1>3

LEMMA FeatureKeeps ==
  ASSUME NEW b, Grows(b), NEW call \in FeatureCalls, NEW b2, b2 = AddFeature(b, call), b2.good
  PROVE  Grows(b2) /\ b2.fields = b.fields
  <1> DEFINE items == FeatureItems(call)
  <1>1. /\ b \in Builders /\ b.items \in Seq(Items) /\ b.fields \in Seq(LayoutTypes)
        /\ b.collection_depth \in Nat /\ b.requirements \in NeedTypes
        /\ b.data_bits.input \in Nat /\ b.data_fields.input \in Nat /\ b.input_bits \in Nat
        /\ Empty(b) /\ FirstOf(b) = b.input_bits
        /\ b.collection_depth # 0 => b.top_level_application_seen
        /\ Checked(b) => Tracked(b)
    BY GrowsParts
  <1>2. b2 \in Builders /\ Wrote(b, b2, items) /\ RecordsNothing(b, b2)
    BY <1>1, FeatureParts
  <1>3. items \in Seq(Items)
    BY <1>1, FeatureJoin
  <1> HIDE DEF items
  <1>4. /\ b.report_id_decided /\ b2.data_main_emitted
        /\ b2.items = b.items \o items /\ b2.fields = b.fields /\ b2.input_bits = b.input_bits
        /\ b2.report_id_decided /\ b2.report_id = b.report_id
        /\ b2.collection_depth = b.collection_depth
        /\ b2.top_level_application_seen = b.top_level_application_seen
        /\ b2.data_bits.input = b.data_bits.input
        /\ b2.data_fields.input = b.data_fields.input
    BY <1>2 DEF Wrote, RecordsNothing, Collections, Identity
  <1>5. Growth(b2)
    BY <1>1, <1>2, <1>4 DEF Growth, Empty, FirstOf
  <1>6. ASSUME Checked(b2)
        PROVE  Tracked(b2)
    <2>1. Checked(b)
      BY <1>1, <1>3, <1>4, <1>6, MainsHeld DEF Checked
    <2>2. PICK needs, hosts : needs \in NeedTypes /\ TrackedBy(b, needs, hosts)
      BY <1>1, <2>1 DEF Tracked
    <2>3. Follows(b.items, b, needs, hosts)
      BY <2>2 DEF TrackedBy
    <2>4. /\ \E needs2 \in NeedTypes : Follows(b.items \o items, b, needs2, hosts)
          /\ HasFeature(b.items \o items)
      BY <2>2, <2>3, FeatureValueRead DEF items
    <2>5. PICK needs2 \in NeedTypes : Follows(b.items \o items, b, needs2, hosts)
      BY <2>4
    <2>6. Alike(b, b2)
      BY <1>4 DEF Alike, ParsedOf, Tops, SawMain
    <2>7. Follows(b.items \o items, b2, needs2, hosts)
      BY <2>5, <2>6, AlikeRead
    <2>8. TrackedBy(b2, needs2, hosts)
      BY <1>4, <2>2, <2>4, <2>7 DEF TrackedBy
    <2> QED
      BY <2>8 DEF Tracked
  <1> QED
    BY <1>4, <1>5, <1>6 DEF Grows

-----------------------------------------------------------------------------
(* The calls the profiles make                                              *)

FieldCalls == VariableCalls \union RangeCalls
Steps == BeginCalls \union IdCalls \union FieldCalls \union FeatureCalls \union {End, Pad}

\* Calls of which one makes a field.
Made(s) == s \in Seq(Steps) /\ HasOneOf(s, FieldCalls)

LEMMA SmallWord == \A x \in Nat : x < 65536 => x \in Word16
  <1>1. Span[2] = 65536
    BY SpanIs
  <1>2. ASSUME NEW x \in Nat, x < 65536
        PROVE  x \in Word16
    <2> DEFINE top == Span[2] - 1
    <2>1. top \in Int /\ x <= top
      BY <1>1, <1>2
    <2> HIDE DEF top
    <2>2. x \in 0..top
      BY <2>1
    <2> QED
      BY <2>2 DEF Word16, top
  <1> QED
    BY <1>2

LEMMA OpensMade ==
  ASSUME NEW page, page \in Word16, NEW usage, usage \in Word16
  PROVE  /\ Application(page, usage) \in Steps /\ Physical(page, usage) \in Steps
         /\ Logical(page, usage) \in Steps
  BY DEF Application, Physical, Logical, Collection, BeginCalls, Steps

LEMMA IdMade ==
  ASSUME NEW o, o.report_id \in IdTypes
  PROVE  Id(o) \in Steps
  BY DEF Id, IdTypes, IdCalls, Steps

LEMMA PlainMade == End \in Steps /\ Pad \in Steps
  BY DEF Steps

LEMMA RangeMade ==
  ASSUME NEW page, page \in Word16, NEW first, first \in Word16, NEW last, last \in Word16,
         NEW semantic, semantic \in DataSemantics
  PROVE  UsageRange(page, first, last, semantic) \in FieldCalls
  BY DEF UsageRange, RangeCalls, FieldCalls

InputFlags == {2, 6, 34, 66}

LEMMA FlagsMade == {Absolute, Relative, NoPreferred, NullState} \subseteq InputFlags
  BY DEF Absolute, Relative, NoPreferred, NullState, InputFlags

LEMMA VarMade ==
  ASSUME NEW page, page \in Word16, NEW usage, usage \in Word16,
         NEW field, field \in FieldTypes, FieldIsValid(field),
         NEW flags, flags \in InputFlags, NEW semantic, semantic \in DataSemantics,
         NEW instance, instance \in Int
  PROVE  Var(page, usage, field, flags, semantic, instance) \in FieldCalls
  <1> DEFINE call == Var(page, usage, field, flags, semantic, instance)
  <1>1. call \in [op : {"variable"}, page : Word16, usage : Word16, flags : InputFlags,
                  semantic : DataSemantics, instance : Int, minimum : Int, maximum : Int,
                  width : Int, physical : PhysicalTypes]
    BY DEF Var, FieldTypes
  <1>2. /\ call.minimum = field.minimum /\ call.maximum = field.maximum
        /\ call.width = field.width /\ call.physical = field.physical
    BY DEF Var
  <1> HIDE DEF call
  <1>3. ValueFits(call.minimum, call.maximum, call.width) /\ PhysicalIsValid(call.physical)
    BY <1>2 DEF FieldIsValid
  <1>4. call \in VariableCalls
    BY <1>1, <1>3 DEF VariableCalls, InputFlags
  <1> QED
    BY <1>4 DEF FieldCalls, call

LEMMA BitFieldMade == BitField \in FieldTypes /\ FieldIsValid(BitField)
  <1> DEFINE none == NoPhysical
  <1>1. none \in PhysicalTypes /\ PhysicalIsValid(none)
    BY PhysicalFitsIs DEF PhysicalIsValid
  <1>2. BitField = [minimum |-> 0, maximum |-> 1, width |-> 1, physical |-> none]
    BY DEF BitField
  <1>3. ValueFits(0, 1, 1)
    BY DEF ValueFits, FitsUnsigned
  <1> HIDE DEF none
  <1> QED
    BY <1>1, <1>2, <1>3 DEF FieldTypes, FieldIsValid

LEMMA HatFieldMade ==
  ASSUME NEW hat, hat = [minimum |-> 0, maximum |-> 7, width |-> 4]
  PROVE  HatField(hat) \in FieldTypes /\ FieldIsValid(HatField(hat))
  <1> DEFINE degrees == HatDegrees
  <1>1. degrees \in PhysicalTypes
    BY DEF HatDegrees, PhysicalTypes
  <1>2. PhysicalIsValid(degrees)
    <2>1. UnitIsValid(20)
      BY DEF UnitIsValid
    <2> QED
      BY <2>1 DEF HatDegrees, PhysicalIsValid
  <1>3. HatField(hat) = [minimum |-> 0, maximum |-> 7, width |-> 4, physical |-> degrees]
    BY DEF HatField
  <1>4. ValueFits(0, 7, 4)
    BY DEF ValueFits, FitsUnsigned
  <1> HIDE DEF degrees
  <1> QED
    BY <1>1, <1>2, <1>3, <1>4 DEF FieldTypes, FieldIsValid

LEMMA CallMade ==
  ASSUME NEW call, call \in FieldCalls
  PROVE  Made(<<call>>) /\ call \in Steps
  <1>1. call \in Steps
    BY DEF Steps
  <1>2. <<call>> \in Seq(Steps)
    BY <1>1
  <1>3. 1 \in DOMAIN <<call>> /\ <<call>>[1] \in FieldCalls
    OBVIOUS
  <1> QED
    BY <1>1, <1>2, <1>3 DEF Made, HasOneOf

LEMMA MadeJoined ==
  ASSUME NEW s, NEW t, s \in Seq(Steps), t \in Seq(Steps), Made(s) \/ Made(t)
  PROVE  Made(s \o t)
  <1>1. s \o t \in Seq(Steps)
    BY Joined
  <1>2. HasOneOf(s \o t, FieldCalls)
    BY HasOneJoined DEF Made
  <1> QED
    BY <1>1, <1>2 DEF Made

LEMMA EnabledMade ==
  ASSUME NEW option, NEW call, Enabled(option) => call \in FieldCalls
  PROVE  IfEnabled(option, call) \in Seq(Steps)
  <1>1. <<>> \in Seq(Steps)
    OBVIOUS
  <1>2. Enabled(option) => <<call>> \in Seq(Steps)
    BY CallMade DEF Made
  <1> QED
    BY <1>1, <1>2 DEF IfEnabled

LEMMA OptionalHolds ==
  ASSUME NEW option, option \in OptionalTypes, OptionalIsValid(option)
  PROVE  option.field \in FieldTypes /\ (Enabled(option) => FieldIsValid(option.field))
  BY DEF OptionalTypes, OptionalIsValid, Enabled

\* One sequence of calls after the other.
LEMMA FlattenMade ==
  ASSUME NEW seqs \in Seq(Seq(Steps))
  PROVE  FlattenSeq(seqs) \in Seq(Steps)
  <1> DEFINE Flattens(f, n) ==
               \A i \in 1..n : f[i] = IF i = 1 THEN seqs[i] ELSE f[i - 1] \o seqs[i]
             S == {n \in Nat : \E f : Flattens(f, n)}
             n == Len(seqs)
             Whole(f) == f = [i \in 1..n |-> IF i = 1 THEN seqs[i] ELSE f[i - 1] \o seqs[i]]
             flat == CHOOSE f : Whole(f)
  <1>1. CASE n = 0
    <2>1. FlattenSeq(seqs) = seqs /\ seqs = <<>>
      BY <1>1 DEF FlattenSeq
    <2> QED
      BY <2>1
  <1>2. CASE n # 0
    <2>1. 0 \in S
      <3>1. Flattens(0, 0)
        OBVIOUS
      <3> QED
        BY <3>1
    <2>2. ASSUME NEW m \in Nat, m \in S
          PROVE  m + 1 \in S
      <3>1. PICK f : Flattens(f, m)
        BY <2>2
      <3> DEFINE more == [i \in 1..m + 1 |->
                            IF i = m + 1 THEN (IF i = 1 THEN seqs[i] ELSE f[m] \o seqs[i])
                            ELSE f[i]]
      <3>2. ASSUME NEW i \in 1..m + 1
            PROVE  more[i] = IF i = 1 THEN seqs[i] ELSE more[i - 1] \o seqs[i]
        <4>1. CASE i = m + 1
          BY <4>1
        <4>2. CASE i # m + 1
          BY <3>1, <4>2
        <4> QED
          BY <4>1, <4>2
      <3>3. Flattens(more, m + 1)
        <4> HIDE DEF more
        <4> QED
          BY <3>2
      <3> QED
        <4> HIDE DEF more, Flattens
        <4> QED
          BY <3>3
    <2>3. Nat \subseteq S
      <3> HIDE DEF S
      <3> QED
        BY <2>1, <2>2, SetInduction
    <2>4. PICK f : Flattens(f, n)
      <3>1. n \in S
        <4> HIDE DEF S
        <4> QED
          BY <2>3
      <3> QED
        BY <3>1
    <2> DEFINE all == [i \in 1..n |-> f[i]]
    <2>5. Whole(all)
      <3> SUFFICES ASSUME NEW i \in 1..n
                   PROVE  all[i] = IF i = 1 THEN seqs[i] ELSE all[i - 1] \o seqs[i]
        OBVIOUS
      <3>1. CASE i = 1
        BY <2>4, <3>1
      <3>2. CASE i # 1
        <4>1. n \in Nat /\ i - 1 \in 1..n
          BY <3>2
        <4> HIDE DEF n
        <4>2. f[i] = f[i - 1] \o seqs[i]
          BY <2>4, <3>2
        <4>3. all[i] = f[i] /\ all[i - 1] = f[i - 1]
          BY <4>1
        <4> QED
          BY <3>2, <4>2, <4>3
      <3> QED
        BY <3>1, <3>2
    <2>6. Whole(flat)
      <3> HIDE DEF all, Whole
      <3> QED
        BY <2>5
    <2>7. FlattenSeq(seqs) = flat[n]
      BY <1>2 DEF FlattenSeq
    <2> HIDE DEF flat
    <2> DEFINE T == {m \in Nat : m + 1 \in 1..n => flat[m + 1] \in Seq(Steps)}
    <2>8. 0 \in T
      BY <2>6
    <2>9. ASSUME NEW m \in Nat, m \in T
          PROVE  m + 1 \in T
      <3> SUFFICES ASSUME m + 2 \in 1..n
                   PROVE  flat[m + 2] \in Seq(Steps)
        OBVIOUS
      <3>1. flat[m + 1] \in Seq(Steps) /\ seqs[m + 2] \in Seq(Steps)
        BY <2>9
      <3>2. flat[m + 2] = flat[m + 1] \o seqs[m + 2]
        <4> DEFINE i == m + 2
        <4>1. i \in 1..n /\ i # 1 /\ i - 1 = m + 1
          OBVIOUS
        <4> HIDE DEF i
        <4>2. flat[i] = flat[i - 1] \o seqs[i]
          BY <2>6, <4>1
        <4> QED
          BY <4>1, <4>2 DEF i
      <3> QED
        BY <3>1, <3>2
    <2>10. Nat \subseteq T
      <3> HIDE DEF T
      <3> QED
        BY <2>8, <2>9, SetInduction
    <2>11. n - 1 \in T
      <3> HIDE DEF T
      <3> QED
        BY <1>2, <2>10
    <2>12. flat[n] \in Seq(Steps)
      BY <1>2, <2>11
    <2> QED
      BY <2>7, <2>12
  <1> QED
    BY <1>1, <1>2

LEMMA KeyboardMade ==
  ASSUME NEW o \in KeyboardTypes, AcceptsKeyboard(o)
  PROVE  Made(EmitKeyboard(o))
  <1> DEFINE a == Application(1, 6)
             b == Id(o)
             c == UsageRange(7, 224, 231, "modifier")
             d == UsageRange(7, o.usage_minimum, o.usage_maximum, "key_bitmap")
  <1>1. {1, 6, 7, 224, 231} \subseteq Word16
    BY SmallWord
  <1>2. {"modifier", "key_bitmap"} \subseteq DataSemantics
    BY DEF DataSemantics
  <1>3. a \in Steps
    BY <1>1, OpensMade
  <1>4. b \in Steps
    BY IdMade DEF KeyboardTypes
  <1>5. c \in FieldCalls
    BY <1>1, <1>2, RangeMade
  <1>6. d \in FieldCalls
    <2>1. o.usage_minimum \in Word16 /\ o.usage_maximum \in Word16
      BY DEF KeyboardTypes
    <2> QED
      BY <1>1, <1>2, <2>1, RangeMade
  <1>7. EmitKeyboard(o) = <<a, b, c, d, Pad, End>>
    BY DEF EmitKeyboard
  <1> DEFINE pad == Pad
             end == End
  <1>8. pad \in Steps /\ end \in Steps
    BY PlainMade
  <1> HIDE DEF a, b, c, d, pad, end
  <1>9. c \in Steps /\ d \in Steps
    BY <1>5, <1>6, CallMade
  <1>10. <<a, b, c, d, pad, end>> \in Seq(Steps)
    BY <1>3, <1>4, <1>8, <1>9
  <1>11. HasOneOf(<<a, b, c, d, pad, end>>, FieldCalls)
    <2>1. 3 \in DOMAIN <<a, b, c, d, pad, end>> /\ <<a, b, c, d, pad, end>>[3] = c
      OBVIOUS
    <2> QED
      BY <1>5, <2>1 DEF HasOneOf
  <1> QED
    BY <1>7, <1>10, <1>11 DEF Made, pad, end

LEMMA BatteryMade ==
  ASSUME NEW o \in BatteryTypes, AcceptsBattery(o)
  PROVE  Made(EmitBattery(o))
  <1> DEFINE flags == IF o.unknown = 1 THEN NullState ELSE Absolute
             a == Application(6, 1)
             b == Id(o)
             c == Var(6, 32, o.strength, flags, "battery_strength", 0)
  <1>1. {1, 6, 32} \subseteq Word16
    BY SmallWord
  <1>2. "battery_strength" \in DataSemantics
    BY DEF DataSemantics
  <1>3. a \in Steps
    BY <1>1, OpensMade
  <1>4. b \in Steps
    BY IdMade DEF BatteryTypes
  <1>5. c \in FieldCalls
    <2>1. o.strength \in FieldTypes /\ FieldIsValid(o.strength)
      BY DEF BatteryTypes, AcceptsBattery
    <2>2. flags \in InputFlags
      BY FlagsMade
    <2> HIDE DEF flags
    <2> QED
      BY <1>1, <1>2, <2>1, <2>2, VarMade
  <1>6. EmitBattery(o) = <<a, b, c, Pad, End>>
    BY DEF EmitBattery
  <1> DEFINE pad == Pad
             end == End
  <1>7. pad \in Steps /\ end \in Steps
    BY PlainMade
  <1> HIDE DEF a, b, c, pad, end
  <1>8. c \in Steps
    BY <1>5, CallMade
  <1>9. <<a, b, c, pad, end>> \in Seq(Steps)
    BY <1>3, <1>4, <1>7, <1>8
  <1>10. HasOneOf(<<a, b, c, pad, end>>, FieldCalls)
    <2>1. 3 \in DOMAIN <<a, b, c, pad, end>> /\ <<a, b, c, pad, end>>[3] = c
      OBVIOUS
    <2> QED
      BY <1>5, <2>1 DEF HasOneOf
  <1> QED
    BY <1>6, <1>9, <1>10 DEF Made, pad, end

LEMMA ToggleMade ==
  ASSUME NEW o \in ToggleTypes, AcceptsToggle(o)
  PROVE  Made(EmitToggle(o))
  <1> DEFINE a == Application(o.application_page, o.application_usage)
             b == Id(o)
             Call(k) == Var(o.field_page, o.usages[k], BitField,
                            SemanticFlags[o.semantics[k]], "consumer_usage", k - 1)
             bits == [k \in DOMAIN o.usages |-> Call(k)]
             pad == Pad
             end == End
  <1>1. /\ o.application_page \in Word16 /\ o.application_usage \in Word16
        /\ o.field_page \in Word16 /\ o.usages \in Seq(Word16)
        /\ o.semantics \in Seq(STRING) /\ Len(o.usages) = Len(o.semantics)
        /\ o.report_id \in IdTypes
    BY DEF ToggleTypes
  <1>2. o.usages # <<>> /\ \A k \in DOMAIN o.semantics : o.semantics[k] \in DOMAIN SemanticFlags
    BY DEF AcceptsToggle, ToSet
  <1>3. \A word \in DOMAIN SemanticFlags : SemanticFlags[word] \in InputFlags
    <2>1. /\ SemanticFlags.selector_bitmap = Absolute /\ SemanticFlags.momentary = Absolute
          /\ SemanticFlags.retrigger = Absolute /\ SemanticFlags.toggle = Relative
          /\ SemanticFlags.one_shot = Relative /\ SemanticFlags.maintained = NoPreferred
      BY DEF SemanticFlags
    <2>2. DOMAIN SemanticFlags = {"selector_bitmap", "momentary", "retrigger", "toggle",
                                  "one_shot", "maintained"}
      BY DEF SemanticFlags
    <2> QED
      BY <2>1, <2>2, FlagsMade
  <1>4. a \in Steps /\ b \in Steps /\ pad \in Steps /\ end \in Steps
    BY <1>1, OpensMade, IdMade, PlainMade
  <1>5. ASSUME NEW k \in DOMAIN o.usages
        PROVE  Call(k) \in FieldCalls
    <2>1. /\ o.usages[k] \in Word16 /\ k - 1 \in Int
          /\ SemanticFlags[o.semantics[k]] \in InputFlags
      BY <1>1, <1>2, <1>3
    <2>2. "consumer_usage" \in DataSemantics
      BY DEF DataSemantics
    <2> QED
      BY <1>1, <2>1, <2>2, BitFieldMade, VarMade
  <1>6. bits \in Seq(Steps) /\ HasOneOf(bits, FieldCalls)
    <2> HIDE DEF Call
    <2>1. \A k \in 1..Len(o.usages) : Call(k) \in Steps
      <3> SUFFICES ASSUME NEW k \in 1..Len(o.usages)
                   PROVE  Call(k) \in Steps
        OBVIOUS
      <3>1. k \in DOMAIN o.usages
        BY <1>1
      <3>2. Call(k) \in FieldCalls
        BY <1>5, <3>1
      <3> QED
        BY <3>2, CallMade
    <2>2. bits \in Seq(Steps)
      BY <1>1, <2>1
    <2>3. 1 \in DOMAIN o.usages /\ bits[1] = Call(1) /\ DOMAIN bits = DOMAIN o.usages
      BY <1>1, <1>2
    <2>4. bits[1] \in FieldCalls
      BY <1>5, <2>3
    <2> QED
      BY <2>2, <2>3, <2>4 DEF HasOneOf
  <1>7. EmitToggle(o) = <<a, b>> \o bits \o <<pad, end>>
    BY DEF EmitToggle
  <1> HIDE DEF a, b, pad, end, bits
  <1>8. <<a, b>> \in Seq(Steps) /\ <<pad, end>> \in Seq(Steps)
    BY <1>4
  <1>9. Made(<<a, b>> \o bits)
    BY <1>6, <1>8, MadeJoined DEF Made
  <1> QED
    BY <1>7, <1>8, <1>9, MadeJoined DEF Made

LEMMA MadeThen ==
  ASSUME NEW s, Made(s), NEW t, t \in Seq(Steps)
  PROVE  Made(s \o t)
  BY MadeJoined DEF Made

LEMMA ThenMade ==
  ASSUME NEW s, s \in Seq(Steps), NEW t, Made(t)
  PROVE  Made(s \o t)
  BY MadeJoined DEF Made

LEMMA MouseMade ==
  ASSUME NEW o \in MouseTypes, AcceptsMouse(o)
  PROVE  Made(EmitMouse(o))
  <1> DEFINE a == Application(1, 2)
             b == Id(o)
             c == Physical(1, 1)
             d == UsageRange(9, 1, o.button_count, "buttons")
             pad == Pad
             x == Var(1, 48, o.x, Relative, "x", 0)
             y == Var(1, 49, o.y, Relative, "y", 0)
             end == End
             wheel == IfEnabled(o.wheel, Var(1, 56, o.wheel.field, Relative, "wheel", 0))
             pan == IfEnabled(o.pan, Var(12, 568, o.pan.field, Relative, "pan", 0))
  <1>1. {1, 2, 9, 12, 48, 49, 56, 568} \subseteq Word16
    BY SmallWord
  <1>2. {"buttons", "x", "y", "wheel", "pan"} \subseteq DataSemantics
    BY DEF DataSemantics
  <1>3. /\ o.report_id \in IdTypes /\ o.x \in FieldTypes /\ o.y \in FieldTypes
        /\ o.wheel \in OptionalTypes /\ o.pan \in OptionalTypes
    BY DEF MouseTypes
  <1>4. /\ FieldIsValid(o.x) /\ FieldIsValid(o.y) /\ o.button_count \in Word16
        /\ OptionalIsValid(o.wheel) /\ OptionalIsValid(o.pan)
    BY DEF AcceptsMouse
  <1>5. Relative \in InputFlags
    BY FlagsMade
  <1>6. a \in Steps /\ b \in Steps /\ c \in Steps /\ pad \in Steps /\ end \in Steps
    BY <1>1, <1>3, OpensMade, IdMade, PlainMade
  <1>7. d \in FieldCalls
    BY <1>1, <1>2, <1>4, RangeMade
  <1>8. x \in FieldCalls /\ y \in FieldCalls
    BY <1>1, <1>2, <1>3, <1>4, <1>5, VarMade
  <1>9. wheel \in Seq(Steps) /\ pan \in Seq(Steps)
    <2>1. wheel \in Seq(Steps)
      <3>1. Enabled(o.wheel) => Var(1, 56, o.wheel.field, Relative, "wheel", 0) \in FieldCalls
        BY <1>1, <1>2, <1>3, <1>4, <1>5, OptionalHolds, VarMade
      <3> QED
        BY <3>1, EnabledMade
    <2>2. pan \in Seq(Steps)
      <3>1. Enabled(o.pan) => Var(12, 568, o.pan.field, Relative, "pan", 0) \in FieldCalls
        BY <1>1, <1>2, <1>3, <1>4, <1>5, OptionalHolds, VarMade
      <3> QED
        BY <3>1, EnabledMade
    <2> QED
      BY <2>1, <2>2
  <1>10. EmitMouse(o) = <<a, b, c, d, pad, x, y, pad>> \o wheel \o <<pad>>
                        \o pan \o <<pad, end, end>>
    BY DEF EmitMouse
  <1> HIDE DEF a, b, c, d, pad, x, y, end, wheel, pan
  <1>11. d \in Steps /\ x \in Steps /\ y \in Steps
    BY <1>7, <1>8, CallMade
  <1> DEFINE all == <<a, b, c, d, pad, x, y, pad>>
  <1>12. Made(all)
    <2>1. all \in Seq(Steps)
      BY <1>6, <1>11
    <2>2. 4 \in DOMAIN all /\ all[4] = d
      OBVIOUS
    <2> HIDE DEF all
    <2> QED
      BY <1>7, <2>1, <2>2 DEF Made, HasOneOf
  <1>13. <<pad>> \in Seq(Steps) /\ <<pad, end, end>> \in Seq(Steps)
    BY <1>6
  <1> HIDE DEF all
  <1>14. Made(all \o wheel \o <<pad>>)
    BY <1>9, <1>12, <1>13, MadeThen
  <1>15. Made(all \o wheel \o <<pad>> \o pan \o <<pad, end, end>>)
    BY <1>9, <1>13, <1>14, MadeThen
  <1> QED
    BY <1>10, <1>15 DEF all

LEMMA PenMade ==
  ASSUME NEW o \in PenTypes, AcceptsPen(o)
  PROVE  Made(EmitPen(o))
  <1> DEFINE usage == IF o.mode = "direct_screen" THEN 2 ELSE 1
             a == Application(13, usage)
             b == Id(o)
             c == Physical(13, 32)
             rubber == Var(13, 60, BitField, Absolute, "eraser", 0)
             eraser == IF o.eraser = 1 THEN <<rubber>> ELSE <<>>
             tip == Var(13, 66, BitField, Absolute, "tip", 0)
             near == Var(13, 50, BitField, Absolute, "in_range", 0)
             Barrel(k) == Var(13, o.barrels[k], BitField, Absolute, "buttons", k - 1)
             barrels == [k \in DOMAIN o.barrels |-> Barrel(k)]
             pad == Pad
             x == Var(1, 48, o.x, Absolute, "x", 0)
             y == Var(1, 49, o.y, Absolute, "y", 0)
             end == End
             pressure == IfEnabled(o.pressure,
                                   Var(13, 48, o.pressure.field, Absolute, "pressure", 0))
             tilt_x == IfEnabled(o.tilt_x, Var(13, 61, o.tilt_x.field, Absolute, "tilt_x", 0))
             tilt_y == IfEnabled(o.tilt_y, Var(13, 62, o.tilt_y.field, Absolute, "tilt_y", 0))
             twist == IfEnabled(o.twist, Var(13, 65, o.twist.field, Absolute, "twist", 0))
  <1>1. {1, 2, 13, 32, 48, 49, 50, 60, 61, 62, 65, 66} \subseteq Word16
    BY SmallWord
  <1>2. {"eraser", "tip", "in_range", "buttons", "x", "y", "pressure", "tilt_x", "tilt_y",
         "twist"} \subseteq DataSemantics
    BY DEF DataSemantics
  <1>3. /\ o.report_id \in IdTypes /\ o.x \in FieldTypes /\ o.y \in FieldTypes
        /\ o.pressure \in OptionalTypes /\ o.tilt_x \in OptionalTypes
        /\ o.tilt_y \in OptionalTypes /\ o.twist \in OptionalTypes /\ o.barrels \in Seq(Word16)
    BY DEF PenTypes
  <1>4. /\ FieldIsValid(o.x) /\ FieldIsValid(o.y)
        /\ OptionalIsValid(o.pressure) /\ OptionalIsValid(o.tilt_x)
        /\ OptionalIsValid(o.tilt_y) /\ OptionalIsValid(o.twist)
    BY DEF AcceptsPen
  <1>5. Absolute \in InputFlags
    BY FlagsMade
  <1>6. a \in Steps /\ b \in Steps /\ c \in Steps /\ pad \in Steps /\ end \in Steps
    <2>1. usage \in Word16
      BY <1>1
    <2> HIDE DEF usage
    <2> QED
      BY <1>1, <1>3, <2>1, OpensMade, IdMade, PlainMade
  <1>7. rubber \in FieldCalls /\ tip \in FieldCalls /\ near \in FieldCalls
    BY <1>1, <1>2, <1>5, BitFieldMade, VarMade
  <1>8. x \in FieldCalls /\ y \in FieldCalls
    BY <1>1, <1>2, <1>3, <1>4, <1>5, VarMade
  <1>9. /\ pressure \in Seq(Steps) /\ tilt_x \in Seq(Steps) /\ tilt_y \in Seq(Steps)
        /\ twist \in Seq(Steps)
    <2>1. pressure \in Seq(Steps)
      <3>1. Enabled(o.pressure) =>
              Var(13, 48, o.pressure.field, Absolute, "pressure", 0) \in FieldCalls
        BY <1>1, <1>2, <1>3, <1>4, <1>5, OptionalHolds, VarMade
      <3> QED
        BY <3>1, EnabledMade
    <2>2. tilt_x \in Seq(Steps)
      <3>1. Enabled(o.tilt_x) => Var(13, 61, o.tilt_x.field, Absolute, "tilt_x", 0) \in FieldCalls
        BY <1>1, <1>2, <1>3, <1>4, <1>5, OptionalHolds, VarMade
      <3> QED
        BY <3>1, EnabledMade
    <2>3. tilt_y \in Seq(Steps)
      <3>1. Enabled(o.tilt_y) => Var(13, 62, o.tilt_y.field, Absolute, "tilt_y", 0) \in FieldCalls
        BY <1>1, <1>2, <1>3, <1>4, <1>5, OptionalHolds, VarMade
      <3> QED
        BY <3>1, EnabledMade
    <2>4. twist \in Seq(Steps)
      <3>1. Enabled(o.twist) => Var(13, 65, o.twist.field, Absolute, "twist", 0) \in FieldCalls
        BY <1>1, <1>2, <1>3, <1>4, <1>5, OptionalHolds, VarMade
      <3> QED
        BY <3>1, EnabledMade
    <2> QED
      BY <2>1, <2>2, <2>3, <2>4
  <1>10. barrels \in Seq(Steps)
    <2>1. ASSUME NEW k \in 1..Len(o.barrels)
          PROVE  Barrel(k) \in Steps
      <3>1. o.barrels[k] \in Word16 /\ k - 1 \in Int
        BY <1>3
      <3>2. Barrel(k) \in FieldCalls
        BY <1>1, <1>2, <1>5, <3>1, BitFieldMade, VarMade
      <3> QED
        BY <3>2, CallMade
    <2> HIDE DEF Barrel
    <2> QED
      BY <1>3, <2>1
  <1>11. EmitPen(o) = <<a, b, c>> \o eraser \o <<tip, near>> \o barrels \o <<pad, x, y, pad>>
                      \o pressure \o <<pad>> \o tilt_x \o tilt_y \o <<pad>> \o twist
                      \o <<pad, end, end>>
    BY DEF EmitPen
  <1> HIDE DEF a, b, c, rubber, tip, near, barrels, pad, x, y, end, pressure, tilt_x, tilt_y,
               twist
  <1>12. tip \in Steps /\ near \in Steps /\ x \in Steps /\ y \in Steps /\ rubber \in Steps
    BY <1>7, <1>8, CallMade
  <1>13. eraser \in Seq(Steps)
    <2>1. <<>> \in Seq(Steps) /\ <<rubber>> \in Seq(Steps)
      BY <1>12
    <2> QED
      BY <2>1
  <1> HIDE DEF eraser
  <1>14. Made(<<tip, near>>)
    <2>1. <<tip, near>> \in Seq(Steps)
      BY <1>12
    <2>2. 1 \in DOMAIN <<tip, near>> /\ <<tip, near>>[1] = tip
      OBVIOUS
    <2> QED
      BY <1>7, <2>1, <2>2 DEF Made, HasOneOf
  <1> DEFINE front == <<a, b, c>>
             place == <<pad, x, y, pad>>
             gap == <<pad>>
             last == <<pad, end, end>>
             touch == <<tip, near>>
  <1>15. front \in Seq(Steps) /\ place \in Seq(Steps) /\ gap \in Seq(Steps) /\ last \in Seq(Steps)
    BY <1>6, <1>12
  <1> HIDE DEF front, place, gap, last, touch
  <1>16. Made(front \o eraser \o touch)
    <2>1. front \o eraser \in Seq(Steps)
      BY <1>13, <1>15, Joined
    <2> QED
      BY <1>14, <2>1, ThenMade DEF touch
  <1>17. Made(front \o eraser \o touch \o barrels \o place \o pressure)
    BY <1>9, <1>10, <1>15, <1>16, MadeThen
  <1>18. Made(front \o eraser \o touch \o barrels \o place \o pressure \o gap \o tilt_x \o tilt_y)
    BY <1>9, <1>15, <1>17, MadeThen
  <1>19. Made(front \o eraser \o touch \o barrels \o place \o pressure \o gap \o tilt_x \o tilt_y
              \o gap \o twist \o last)
    BY <1>9, <1>15, <1>18, MadeThen
  <1> QED
    BY <1>11, <1>19 DEF front, place, gap, last, touch

LEMMA OneMade ==
  ASSUME NEW call, call \in FieldCalls
  PROVE  <<call>> \in Seq(Steps)
  BY CallMade DEF Made

LEMMA DpadMade ==
  ASSUME NEW o \in GamepadTypes, AcceptsGamepad(o)
  PROVE  DpadCalls(o) \in Seq(Steps)
  <1> DEFINE hat == Var(1, 57, HatField(o.hat), NullState, "hat", 0)
             Button(k) == Var(1, 143 + k, BitField, NoPreferred, "buttons",
                              o.button_count + k - 1)
             buttons == [k \in 1..4 |-> Button(k)]
  <1>1. {1, 57} \subseteq Word16 /\ \A k \in 1..4 : 143 + k \in Word16
    BY SmallWord
  <1>2. {"hat", "buttons"} \subseteq DataSemantics
    BY DEF DataSemantics
  <1>3. {NullState, NoPreferred} \subseteq InputFlags
    BY FlagsMade
  <1>4. /\ o.dpad \in {"none", "hat", "buttons"} /\ o.button_count \in Int
        /\ o.dpad = "hat" => o.hat = [minimum |-> 0, maximum |-> 7, width |-> 4]
    BY DEF AcceptsGamepad, GamepadTypes
  <1>5. CASE o.dpad = "none"
    <2>1. DpadCalls(o) = <<>>
      BY <1>5, Zenon DEF DpadCalls
    <2> QED
      BY <2>1
  <1>6. CASE o.dpad = "hat"
    <2>1. DpadCalls(o) = <<hat>>
      BY <1>6 DEF DpadCalls
    <2>2. HatField(o.hat) \in FieldTypes /\ FieldIsValid(HatField(o.hat))
      BY <1>4, <1>6, HatFieldMade
    <2>3. hat \in FieldCalls
      BY <1>1, <1>2, <1>3, <2>2, VarMade
    <2> HIDE DEF hat
    <2> QED
      BY <2>1, <2>3, OneMade
  <1>7. CASE o.dpad = "buttons"
    <2>1. DpadCalls(o) = buttons
      BY <1>7 DEF DpadCalls
    <2>2. ASSUME NEW k \in 1..4
          PROVE  Button(k) \in Steps
      <3>1. 143 + k \in Word16 /\ o.button_count + k - 1 \in Int
        BY <1>1, <1>4
      <3>2. Button(k) \in FieldCalls
        BY <1>1, <1>2, <1>3, <3>1, BitFieldMade, VarMade
      <3> QED
        BY <3>2, CallMade
    <2> HIDE DEF Button
    <2>3. buttons \in Seq(Steps)
      BY <2>2
    <2> QED
      BY <2>1, <2>3
  <1> QED
    BY <1>4, <1>5, <1>6, <1>7

LEMMA GamepadMade ==
  ASSUME NEW o \in GamepadTypes, AcceptsGamepad(o)
  PROVE  Made(EmitGamepad(o))
  <1> DEFINE a == Application(1, 5)
             b == Id(o)
             highest == o.button_minimum + o.button_count - 1
             c == UsageRange(9, o.button_minimum, highest, "buttons")
             pad == Pad
             end == End
             Axis(k) == Var(o.axes[k].page, o.axes[k].usage, o.axes[k].field, Absolute,
                            "gamepad_axis", k - 1)
             Pair(k) == <<Axis(k), pad>>
             axes == [k \in DOMAIN o.axes |-> Pair(k)]
             dpad == DpadCalls(o)
  <1>1. {1, 5, 9} \subseteq Word16
    BY SmallWord
  <1>2. {"buttons", "gamepad_axis"} \subseteq DataSemantics
    BY DEF DataSemantics
  <1>3. Absolute \in InputFlags
    BY FlagsMade
  <1>4. /\ o.report_id \in IdTypes /\ o.button_minimum \in Word16 /\ highest \in Word16
        /\ o.axes \in Seq(AxisTypes) /\ \A k \in DOMAIN o.axes : FieldIsValid(o.axes[k].field)
    BY DEF AcceptsGamepad, GamepadTypes, AcceptsAxis, ToSet
  <1>5. a \in Steps /\ b \in Steps /\ pad \in Steps /\ end \in Steps
    BY <1>1, <1>4, OpensMade, IdMade, PlainMade
  <1>6. c \in FieldCalls
    <2> HIDE DEF highest
    <2> QED
      BY <1>1, <1>2, <1>4, RangeMade
  <1>7. axes \in Seq(Seq(Steps))
    <2>1. ASSUME NEW k \in 1..Len(o.axes)
          PROVE  Pair(k) \in Seq(Steps)
      <3>1. /\ o.axes[k] \in AxisTypes /\ FieldIsValid(o.axes[k].field) /\ k - 1 \in Int
        BY <1>4
      <3>2. Axis(k) \in FieldCalls
        BY <1>2, <1>3, <3>1, VarMade DEF AxisTypes
      <3> DEFINE axis == Axis(k)
      <3>3. axis \in Steps
        BY <3>2, CallMade
      <3>4. Pair(k) = <<axis, pad>>
        OBVIOUS
      <3> HIDE DEF axis, pad, Pair
      <3>5. <<axis, pad>> \in Seq(Steps)
        BY <1>5, <3>3
      <3> QED
        BY <3>4, <3>5
    <2> HIDE DEF Pair
    <2> QED
      BY <1>4, <2>1
  <1>8. dpad \in Seq(Steps)
    BY DpadMade
  <1>9. EmitGamepad(o) = <<a, b, c, pad>> \o dpad \o <<pad>> \o FlattenSeq(axes) \o <<pad, end>>
    BY DEF EmitGamepad
  <1> DEFINE flat == FlattenSeq(axes)
  <1>10. flat \in Seq(Steps)
    <2> HIDE DEF axes
    <2> QED
      BY <1>7, FlattenMade
  <1> HIDE DEF a, b, c, pad, end, dpad, flat
  <1> DEFINE front == <<a, b, c, pad>>
             gap == <<pad>>
             last == <<pad, end>>
  <1>11. gap \in Seq(Steps) /\ last \in Seq(Steps)
    BY <1>5
  <1>12. Made(front)
    <2>1. c \in Steps
      BY <1>6, CallMade
    <2>2. front \in Seq(Steps)
      BY <1>5, <2>1
    <2>3. 3 \in DOMAIN front /\ front[3] = c
      OBVIOUS
    <2> HIDE DEF front
    <2> QED
      BY <1>6, <2>2, <2>3 DEF Made, HasOneOf
  <1> HIDE DEF front, gap, last
  <1>13. Made(front \o dpad \o gap)
    BY <1>8, <1>11, <1>12, MadeThen
  <1>14. Made(front \o dpad \o gap \o flat \o last)
    BY <1>10, <1>11, <1>13, MadeThen
  <1> QED
    BY <1>9, <1>14 DEF front, gap, last, flat

LEMMA TouchHolds ==
  ASSUME NEW o \in TouchTypes, AcceptsTouch(o)
  PROVE  /\ o.report_id \in IdTypes
         /\ o.x \in FieldTypes /\ o.y \in FieldTypes
         /\ o.contact_identifier \in FieldTypes /\ o.contact_count \in FieldTypes
         /\ FieldIsValid(o.x) /\ FieldIsValid(o.y)
         /\ FieldIsValid(o.contact_identifier) /\ FieldIsValid(o.contact_count)
         /\ o.pressure \in OptionalTypes /\ o.azimuth \in OptionalTypes
         /\ o.width \in OptionalTypes /\ o.height \in OptionalTypes
         /\ o.scan_time \in OptionalTypes
         /\ OptionalIsValid(o.pressure) /\ OptionalIsValid(o.azimuth)
         /\ OptionalIsValid(o.width) /\ OptionalIsValid(o.height)
         /\ OptionalIsValid(o.scan_time)
         /\ o.maximum_contacts \in 1..16 /\ o.contacts_per_report \in 1..o.maximum_contacts
         /\ o.button_count \in Word16
  <1>1. /\ o.report_id \in IdTypes
        /\ o.x \in FieldTypes /\ o.y \in FieldTypes
        /\ o.contact_identifier \in FieldTypes /\ o.contact_count \in FieldTypes
        /\ o.pressure \in OptionalTypes /\ o.azimuth \in OptionalTypes
        /\ o.width \in OptionalTypes /\ o.height \in OptionalTypes
        /\ o.scan_time \in OptionalTypes
    BY DEF TouchTypes
  <1>2. /\ FieldIsValid(o.x) /\ FieldIsValid(o.y)
        /\ FieldIsValid(o.contact_identifier) /\ FieldIsValid(o.contact_count)
    BY DEF AcceptsTouch
  <1>3. /\ OptionalIsValid(o.pressure) /\ OptionalIsValid(o.azimuth)
        /\ OptionalIsValid(o.width) /\ OptionalIsValid(o.height)
        /\ OptionalIsValid(o.scan_time)
    BY DEF AcceptsTouch
  <1>4. /\ o.maximum_contacts \in 1..16 /\ o.contacts_per_report \in 1..o.maximum_contacts
        /\ o.button_count \in Word16
    BY DEF AcceptsTouch
  <1> QED
    BY <1>1, <1>2, <1>3, <1>4

LEMMA ContactMade ==
  ASSUME NEW o \in TouchTypes, AcceptsTouch(o), NEW contact, contact \in Int
  PROVE  EmitContact(o, contact) \in Seq(Steps)
  <1> DEFINE a == Logical(13, 34)
             tip == Var(13, 66, BitField, Absolute, "tip", contact)
             pad == Pad
             name == Var(13, 81, o.contact_identifier, Absolute, "contact_id", contact)
             x == Var(1, 48, o.x, Absolute, "x", contact)
             y == Var(1, 49, o.y, Absolute, "y", contact)
             end == End
             pressure == IfEnabled(o.pressure,
                                   Var(13, 48, o.pressure.field, Absolute, "pressure", contact))
             width == IfEnabled(o.width, Var(13, 72, o.width.field, Absolute, "width", contact))
             height == IfEnabled(o.height,
                                 Var(13, 73, o.height.field, Absolute, "height", contact))
             azimuth == IfEnabled(o.azimuth,
                                  Var(13, 63, o.azimuth.field, Absolute, "azimuth", contact))
  <1>1. {1, 13, 34, 48, 49, 63, 66, 72, 73, 81} \subseteq Word16
    BY SmallWord
  <1>2. {"tip", "contact_id", "x", "y", "pressure", "width", "height", "azimuth"}
          \subseteq DataSemantics
    BY DEF DataSemantics
  <1>3. Absolute \in InputFlags
    BY FlagsMade
  <1>4. a \in Steps /\ pad \in Steps /\ end \in Steps
    BY <1>1, OpensMade, PlainMade
  <1>5. tip \in FieldCalls
    BY <1>1, <1>2, <1>3, BitFieldMade, VarMade
  <1>6. name \in FieldCalls /\ x \in FieldCalls /\ y \in FieldCalls
    <2>1. name \in FieldCalls
      BY <1>1, <1>2, <1>3, TouchHolds, VarMade
    <2>2. x \in FieldCalls
      BY <1>1, <1>2, <1>3, TouchHolds, VarMade
    <2>3. y \in FieldCalls
      BY <1>1, <1>2, <1>3, TouchHolds, VarMade
    <2> QED
      BY <2>1, <2>2, <2>3
  <1>7. /\ pressure \in Seq(Steps) /\ width \in Seq(Steps) /\ height \in Seq(Steps)
        /\ azimuth \in Seq(Steps)
    <2>1. pressure \in Seq(Steps)
      <3>1. Enabled(o.pressure) =>
              Var(13, 48, o.pressure.field, Absolute, "pressure", contact) \in FieldCalls
        BY <1>1, <1>2, <1>3, TouchHolds, OptionalHolds, VarMade
      <3> QED
        BY <3>1, EnabledMade
    <2>2. width \in Seq(Steps)
      <3>1. Enabled(o.width) =>
              Var(13, 72, o.width.field, Absolute, "width", contact) \in FieldCalls
        BY <1>1, <1>2, <1>3, TouchHolds, OptionalHolds, VarMade
      <3> QED
        BY <3>1, EnabledMade
    <2>3. height \in Seq(Steps)
      <3>1. Enabled(o.height) =>
              Var(13, 73, o.height.field, Absolute, "height", contact) \in FieldCalls
        BY <1>1, <1>2, <1>3, TouchHolds, OptionalHolds, VarMade
      <3> QED
        BY <3>1, EnabledMade
    <2>4. azimuth \in Seq(Steps)
      <3>1. Enabled(o.azimuth) =>
              Var(13, 63, o.azimuth.field, Absolute, "azimuth", contact) \in FieldCalls
        BY <1>1, <1>2, <1>3, TouchHolds, OptionalHolds, VarMade
      <3> QED
        BY <3>1, EnabledMade
    <2> QED
      BY <2>1, <2>2, <2>3, <2>4
  <1>8. EmitContact(o, contact) =
          <<a, tip, pad, name, x, y, pad>> \o pressure \o <<pad>> \o width \o <<pad>>
          \o height \o <<pad>> \o azimuth \o <<end>>
    BY DEF EmitContact
  <1> HIDE DEF a, tip, pad, name, x, y, end, pressure, width, height, azimuth
  <1> DEFINE front == <<a, tip, pad, name, x, y, pad>>
             gap == <<pad>>
             last == <<end>>
  <1>9. gap \in Seq(Steps) /\ last \in Seq(Steps)
    BY <1>4
  <1>10. front \in Seq(Steps)
    <2>1. tip \in Steps /\ name \in Steps /\ x \in Steps /\ y \in Steps
      BY <1>5, <1>6, CallMade
    <2> QED
      BY <1>4, <2>1
  <1> HIDE DEF front, gap, last
  <1>11. front \o pressure \o gap \o width \in Seq(Steps)
    BY <1>7, <1>9, <1>10, Joined
  <1>12. front \o pressure \o gap \o width \o gap \o height \in Seq(Steps)
    BY <1>7, <1>9, <1>11, Joined
  <1>13. front \o pressure \o gap \o width \o gap \o height \o gap \o azimuth \o last \in Seq(Steps)
    BY <1>7, <1>9, <1>12, Joined
  <1> QED
    BY <1>8, <1>13 DEF front, gap, last

LEMMA FeatureMade ==
  ASSUME NEW o \in TouchTypes, AcceptsTouch(o)
  PROVE  [op |-> "feature", page |-> 13, usage |-> 85, minimum |-> 0,
          maximum |-> o.maximum_contacts, width |-> o.contact_count.width] \in Steps
  <1> DEFINE call == [op |-> "feature", page |-> 13, usage |-> 85, minimum |-> 0,
                      maximum |-> o.maximum_contacts, width |-> o.contact_count.width]
  <1>1. {13, 85} \subseteq Word16
    BY SmallWord
  <1>2. o.maximum_contacts \in Int /\ 0 <= o.maximum_contacts
    BY TouchHolds
  <1>3. o.contact_count.width \in Nat
    <2>1. o.contact_count \in FieldTypes /\ FieldIsValid(o.contact_count)
      BY TouchHolds
    <2>2. o.contact_count.width \in 1..32
      BY <2>1 DEF FieldIsValid, ValueFits
    <2> QED
      BY <2>2
  <1>4. call \in [op : {"feature"}, page : Word16, usage : Word16, minimum : Int, maximum : Int,
                  width : Nat]
    BY <1>1, <1>2, <1>3
  <1>5. call.minimum = 0 /\ call.maximum = o.maximum_contacts
    OBVIOUS
  <1> HIDE DEF call
  <1>6. call \in FeatureCalls
    BY <1>2, <1>4, <1>5 DEF FeatureCalls
  <1> QED
    BY <1>6 DEF Steps, call

LEMMA TouchMade ==
  ASSUME NEW o \in TouchTypes, AcceptsTouch(o)
  PROVE  Made(EmitTouch(o))
  <1> DEFINE usage == IF o.profile = "touchscreen" THEN 4 ELSE 5
             a == Application(13, usage)
             b == Id(o)
             most == [op |-> "feature", page |-> 13, usage |-> 85, minimum |-> 0,
                      maximum |-> o.maximum_contacts, width |-> o.contact_count.width]
             feature == IF o.maximum_feature = 1 THEN <<most>> ELSE <<>>
             Contact(k) == EmitContact(o, k - 1)
             contacts == [k \in 1..o.contacts_per_report |-> Contact(k)]
             flat == FlattenSeq(contacts)
             pad == Pad
             end == End
             scan_time == IfEnabled(o.scan_time,
                                    Var(13, 86, o.scan_time.field, Absolute, "scan_time", 0))
             c == Var(13, 84, o.contact_count, Absolute, "contact_count", 0)
             range == UsageRange(9, 1, o.button_count, "buttons")
             buttons == IF o.button_count = 0 THEN <<>> ELSE <<range>>
  <1>1. {1, 4, 5, 9, 13, 84, 86} \subseteq Word16
    BY SmallWord
  <1>2. {"scan_time", "contact_count", "buttons"} \subseteq DataSemantics
    BY DEF DataSemantics
  <1>3. Absolute \in InputFlags
    BY FlagsMade
  <1>4. a \in Steps /\ b \in Steps /\ pad \in Steps /\ end \in Steps /\ most \in Steps
    <2>1. usage \in Word16
      BY <1>1
    <2>2. most \in Steps
      BY FeatureMade
    <2>3. b \in Steps
      BY TouchHolds, IdMade
    <2> HIDE DEF usage, most, b
    <2> QED
      BY <1>1, <2>1, <2>2, <2>3, OpensMade, PlainMade
  <1>5. c \in FieldCalls
    BY <1>1, <1>2, <1>3, TouchHolds, VarMade
  <1>6. range \in FieldCalls
    BY <1>1, <1>2, TouchHolds, RangeMade
  <1>7. scan_time \in Seq(Steps)
    <2>1. Enabled(o.scan_time) =>
            Var(13, 86, o.scan_time.field, Absolute, "scan_time", 0) \in FieldCalls
      BY <1>1, <1>2, <1>3, TouchHolds, OptionalHolds, VarMade
    <2> QED
      BY <2>1, EnabledMade
  <1>8. flat \in Seq(Steps)
    <2>1. o.contacts_per_report \in Nat
      BY TouchHolds
    <2>2. ASSUME NEW k \in 1..o.contacts_per_report
          PROVE  Contact(k) \in Seq(Steps)
      <3>1. k - 1 \in Int
        BY <2>1
      <3> QED
        BY <3>1, ContactMade
    <2> HIDE DEF Contact
    <2>3. contacts \in Seq(Seq(Steps))
      BY <2>1, <2>2
    <2> HIDE DEF contacts
    <2> QED
      BY <2>3, FlattenMade
  <1>9. EmitTouch(o) = <<a, b>> \o feature \o flat \o <<pad>> \o scan_time \o <<pad, c>>
                       \o buttons \o <<pad, end>>
    BY DEF EmitTouch
  <1> HIDE DEF a, b, most, flat, pad, end, scan_time, c, range
  <1>10. <<most>> \in Seq(Steps) /\ <<range>> \in Seq(Steps) /\ <<>> \in Seq(Steps)
    BY <1>4, <1>6, OneMade
  <1>11. feature \in Seq(Steps) /\ buttons \in Seq(Steps)
    BY <1>10
  <1> DEFINE front == <<a, b>>
             gap == <<pad>>
             count == <<pad, c>>
             last == <<pad, end>>
  <1>12. front \in Seq(Steps) /\ gap \in Seq(Steps) /\ last \in Seq(Steps)
    BY <1>4
  <1>13. Made(count)
    <2>1. c \in Steps
      BY <1>5, CallMade
    <2>2. count \in Seq(Steps)
      BY <1>4, <2>1
    <2>3. 2 \in DOMAIN count /\ count[2] = c
      OBVIOUS
    <2> HIDE DEF count
    <2> QED
      BY <1>5, <2>2, <2>3 DEF Made, HasOneOf
  <1> HIDE DEF front, gap, count, last, feature, buttons
  <1>14. front \o feature \o flat \o gap \o scan_time \in Seq(Steps)
    BY <1>7, <1>8, <1>11, <1>12, Joined
  <1>15. Made(front \o feature \o flat \o gap \o scan_time \o count)
    BY <1>13, <1>14, ThenMade
  <1>16. Made(front \o feature \o flat \o gap \o scan_time \o count \o buttons \o last)
    BY <1>11, <1>12, <1>15, MadeThen
  <1> QED
    BY <1>9, <1>16 DEF front, gap, count, last

LEMMA OptionsMade ==
  ASSUME NEW o, o \in OptionTypes, AcceptsOptions(o)
  PROVE  Made(EmitCalls(o))
  <1>1. CASE o \in KeyboardTypes
    <2>1. o.profile = "keyboard"
      BY <1>1 DEF KeyboardTypes
    <2>2. AcceptsKeyboard(o) /\ EmitCalls(o) = EmitKeyboard(o)
      BY <2>1 DEF AcceptsOptions, EmitCalls
    <2> QED
      BY <1>1, <2>2, KeyboardMade
  <1>2. CASE o \in MouseTypes
    <2>1. o.profile = "mouse"
      BY <1>2 DEF MouseTypes
    <2>2. AcceptsMouse(o) /\ EmitCalls(o) = EmitMouse(o)
      BY <2>1 DEF AcceptsOptions, EmitCalls
    <2> QED
      BY <1>2, <2>2, MouseMade
  <1>3. CASE o \in ToggleTypes
    <2>1. o.profile = "toggle"
      BY <1>3 DEF ToggleTypes
    <2>2. AcceptsToggle(o) /\ EmitCalls(o) = EmitToggle(o)
      BY <2>1 DEF AcceptsOptions, EmitCalls
    <2> QED
      BY <1>3, <2>2, ToggleMade
  <1>4. CASE o \in GamepadTypes
    <2>1. o.profile = "gamepad"
      BY <1>4 DEF GamepadTypes
    <2>2. AcceptsGamepad(o) /\ EmitCalls(o) = EmitGamepad(o)
      BY <2>1 DEF AcceptsOptions, EmitCalls
    <2> QED
      BY <1>4, <2>2, GamepadMade
  <1>5. CASE o \in TouchTypes
    <2>1. o.profile \in {"touchscreen", "touchpad"}
      BY <1>5 DEF TouchTypes
    <2>2. AcceptsTouch(o) /\ EmitCalls(o) = EmitTouch(o)
      BY <2>1 DEF AcceptsOptions, EmitCalls
    <2> QED
      BY <1>5, <2>2, TouchMade
  <1>6. CASE o \in PenTypes
    <2>1. o.profile = "pen"
      BY <1>6 DEF PenTypes
    <2>2. AcceptsPen(o) /\ EmitCalls(o) = EmitPen(o)
      BY <2>1 DEF AcceptsOptions, EmitCalls
    <2> QED
      BY <1>6, <2>2, PenMade
  <1>7. CASE o \in BatteryTypes
    <2>1. o.profile = "battery"
      BY <1>7 DEF BatteryTypes
    <2>2. AcceptsBattery(o) /\ EmitCalls(o) = EmitBattery(o)
      BY <2>1 DEF AcceptsOptions, EmitCalls
    <2> QED
      BY <1>7, <2>2, BatteryMade
  <1> QED
    BY <1>1, <1>2, <1>3, <1>4, <1>5, <1>6, <1>7 DEF OptionTypes

-----------------------------------------------------------------------------
(* The inductive invariant: while the factory emits, the items so far can   *)
(* be followed by a parser that agrees with the builder on every field and  *)
(* every count, and a field is there or still to come; a descriptor that    *)
(* is returned has also passed the validation of generated ones.            *)
BuilderGrows(b) == b \in Builders /\ (b.good => Grows(b))
FieldsDue(b, left) == Len(b.fields) # 0 \/ HasOneOf(left, FieldCalls)
Finished(b) == b.good /\ Grows(b) /\ Checked(b) /\ b.collection_depth = 0 /\ Len(b.fields) # 0

DescriptorInv ==
  /\ options \in Options /\ calls \in Seq(Steps) /\ BuilderGrows(builder)
  /\ result = "building" /\ builder.good => FieldsDue(builder, calls)
  /\ result = "OK" => Finished(builder)

LEMMA BeginsWith ==
  ASSUME NEW call \in Steps
  PROVE  /\ call.op = "begin" => call \in BeginCalls
         /\ call.op = "report_id" => call \in IdCalls
         /\ call.op = "variable" => call \in VariableCalls
         /\ call.op = "range" => call \in RangeCalls
         /\ call.op = "feature" => call \in FeatureCalls
         /\ call \in FieldCalls => call.op = "variable" \/ call.op = "range"
  <1>1. /\ \A c \in BeginCalls : c.op = "begin"
        /\ \A c \in IdCalls : c.op = "report_id"
        /\ \A c \in VariableCalls : c.op = "variable"
        /\ \A c \in RangeCalls : c.op = "range"
        /\ \A c \in FeatureCalls : c.op = "feature"
        /\ End.op = "end" /\ Pad.op = "pad"
    BY DEF BeginCalls, IdCalls, VariableCalls, RangeCalls, FeatureCalls, End, Pad
  <1> QED
    BY <1>1 DEF Steps, FieldCalls

LEMMA BeginStep ==
  ASSUME NEW b, BuilderGrows(b), b.good, NEW call \in BeginCalls, NEW b2, b2 = Begin(b, call)
  PROVE  BuilderGrows(b2) /\ (b2.good => b2.fields = b.fields)
  <1>1. b2 \in Builders /\ (b2.good => Begun(b, b2, call))
    BY BeginParts DEF BuilderGrows
  <1>2. b2.good => Grows(b2)
    BY BeginKeeps DEF BuilderGrows
  <1>3. b2.good => b2.fields = b.fields
    BY <1>1 DEF Begun, Report
  <1> QED
    BY <1>1, <1>2, <1>3 DEF BuilderGrows

LEMMA EndStep ==
  ASSUME NEW b, BuilderGrows(b), b.good, NEW b2, b2 = EndCollection(b)
  PROVE  BuilderGrows(b2) /\ (b2.good => b2.fields = b.fields)
  <1>1. b2 \in Builders /\ (b2.good => EndedBy(b, b2))
    BY EndParts DEF BuilderGrows
  <1>2. b2.good => Grows(b2)
    BY EndKeeps DEF BuilderGrows
  <1>3. b2.good => b2.fields = b.fields
    BY <1>1 DEF EndedBy, Report
  <1> QED
    BY <1>1, <1>2, <1>3 DEF BuilderGrows

LEMMA IdStep ==
  ASSUME NEW b, BuilderGrows(b), b.good, NEW call \in IdCalls, NEW b2, b2 = SetReportId(b, call)
  PROVE  BuilderGrows(b2) /\ (b2.good => b2.fields = b.fields)
  <1>1. b2 \in Builders /\ (b2.good => Identified(b, b2, call))
    BY IdParts DEF BuilderGrows
  <1>2. b2.good => Grows(b2)
    BY IdKeeps DEF BuilderGrows
  <1>3. b2.good => b2.fields = b.fields
    BY <1>1 DEF Identified, Rest
  <1> QED
    BY <1>1, <1>2, <1>3 DEF BuilderGrows

LEMMA VariableStep ==
  ASSUME NEW b, BuilderGrows(b), b.good, NEW call \in VariableCalls,
         NEW b2, b2 = AddVariable(b, call)
  PROVE  BuilderGrows(b2) /\ (b2.good => Len(b2.fields) # 0)
  <1>1. b2 \in Builders /\ (b2.good => Added(b, b2, call))
    BY VariableParts DEF BuilderGrows
  <1>2. b2.good => Grows(b2)
    BY VariableKeeps DEF BuilderGrows
  <1>3. b2.good => Len(b2.fields) # 0
    <2>1. b.fields \in Seq(LayoutTypes)
      BY DEF BuilderGrows, Builders
    <2> DEFINE field == Placed(LayoutOf(call), b.input_bits)
    <2>2. b2.good => b2.fields = Append(b.fields, field)
      BY <1>1 DEF Added
    <2> HIDE DEF field
    <2> QED
      BY <2>1, <2>2
  <1> QED
    BY <1>1, <1>2, <1>3 DEF BuilderGrows

LEMMA RangeStep ==
  ASSUME NEW b, BuilderGrows(b), b.good, NEW call \in RangeCalls,
         NEW b2, b2 = AddVariableRange(b, call)
  PROVE  BuilderGrows(b2) /\ (b2.good => Len(b2.fields) # 0)
  <1>1. b2 \in Builders
    <2> DEFINE count == call.last - call.first + 1
    <2>1. count = call.last - call.first + 1
      OBVIOUS
    <2> HIDE DEF count
    <2> QED
      BY <2>1, RangeParts DEF BuilderGrows
  <1>2. b2.good => Grows(b2) /\ Len(b2.fields) # 0
    BY RangeKeeps DEF BuilderGrows
  <1> QED
    BY <1>1, <1>2 DEF BuilderGrows

LEMMA PadStep ==
  ASSUME NEW b, BuilderGrows(b), b.good, NEW b2, b2 = PadReport(b)
  PROVE  BuilderGrows(b2) /\ (b2.good /\ Len(b.fields) # 0 => Len(b2.fields) # 0)
  <1>1. b2 \in Builders
    <2> DEFINE bits == (8 - (b.input_bits % 8)) % 8
    <2>1. bits = (8 - (b.input_bits % 8)) % 8
      OBVIOUS
    <2> HIDE DEF bits
    <2> QED
      BY <2>1, PadParts DEF BuilderGrows
  <1>2. b2.good => Grows(b2) /\ (Len(b.fields) # 0 => Len(b2.fields) # 0)
    BY PadKeeps DEF BuilderGrows
  <1> QED
    BY <1>1, <1>2 DEF BuilderGrows

LEMMA FeatureStep ==
  ASSUME NEW b, BuilderGrows(b), b.good, NEW call \in FeatureCalls,
         NEW b2, b2 = AddFeature(b, call)
  PROVE  BuilderGrows(b2) /\ (b2.good => b2.fields = b.fields)
  <1>1. b2 \in Builders
    BY FeatureParts DEF BuilderGrows
  <1>2. b2.good => Grows(b2) /\ b2.fields = b.fields
    BY FeatureKeeps DEF BuilderGrows
  <1> QED
    BY <1>1, <1>2 DEF BuilderGrows

LEMMA TailDue ==
  ASSUME NEW C, NEW s \in Seq(C), s # <<>>, NEW S
  PROVE  /\ Head(s) \in C /\ Tail(s) \in Seq(C)
         /\ HasOneOf(s, S) => Head(s) \in S \/ HasOneOf(Tail(s), S)
  <1>1. Head(s) \in C /\ Tail(s) \in Seq(C)
    OBVIOUS
  <1>2. ASSUME HasOneOf(s, S), Head(s) \notin S
        PROVE  HasOneOf(Tail(s), S)
    <2>1. PICK k \in DOMAIN s : s[k] \in S
      BY <1>2 DEF HasOneOf
    <2>2. k # 1
      BY <1>2, <2>1
    <2>3. k - 1 \in DOMAIN Tail(s) /\ Tail(s)[k - 1] = s[k]
      BY <2>2
    <2> QED
      BY <2>1, <2>3 DEF HasOneOf
  <1> QED
    BY <1>1, <1>2

LEMMA NewBuilder ==
  /\ Builder0 \in Builders /\ Grows(Builder0) /\ Builder0.good
  <1> DEFINE none == NoNeeds
             b == Builder0
  <1>1. none \in NeedTypes
    BY DEF NoNeeds, NeedTypes
  <1>2. /\ b.good /\ b.items = <<>> /\ b.fields = <<>> /\ b.collection_depth = 0
        /\ b.requirements = none /\ b.report_id = 0 /\ b.input_bits = 0
        /\ b.data_bits.input = 0 /\ b.data_fields.input = 0
        /\ ~b.top_level_application_seen
    BY DEF Builder0
  <1>3. b \in Builders
    <2>1. 0 \in Word8
      <3>1. Span[1] = 256
        BY SpanIs
      <3> DEFINE top == Span[1] - 1
      <3>2. top \in Int /\ 0 <= top
        BY <3>1
      <3> HIDE DEF top
      <3>3. 0 \in 0..top
        BY <3>2
      <3> QED
        BY <3>3 DEF top, Word8
    <2> DEFINE zero == [input |-> 0, feature |-> 0]
               empty == <<>>
    <2>2. zero \in Counts
      BY DEF Counts
    <2>3. empty \in Seq(Items) /\ empty \in Seq(LayoutTypes)
      OBVIOUS
    <2>4. b = [good |-> TRUE, items |-> empty, size |-> 0, collection_depth |-> 0,
               top_level_application_seen |-> FALSE, report_id_decided |-> FALSE,
               data_main_emitted |-> FALSE, report_id |-> 0, input_bits |-> 0,
               fields |-> empty, requirements |-> none, data_bits |-> zero,
               data_fields |-> zero]
      BY DEF Builder0
    <2> HIDE DEF b, none, zero, empty
    <2> QED
      BY <1>1, <2>1, <2>2, <2>3, <2>4 DEF Builders
  <1> HIDE DEF b, none
  <1>4. Growth(b)
    BY <1>2, <1>3 DEF Growth, Empty, FirstOf
  <1>5. Follows(<<>>, b, none, <<>>)
    <2> DEFINE g == NoGlobals
    <2>1. Quiet(g, b)
      <3>1. g.value = [tag \in GlobalTags |-> 0]
        BY DEF NoGlobals
      <3> HIDE DEF g
      <3>2. g.value \in Values
        BY <3>1 DEF Values
      <3>3. /\ g.value["physical_minimum"] = 0 /\ g.value["physical_maximum"] = 0
            /\ g.value["unit_exponent"] = 0 /\ g.value["unit"] = 0
            /\ g.value["report_id"] = 0
            /\ g.value["logical_minimum"] = 0 /\ g.value["logical_maximum"] = 0
        BY <3>1 DEF GlobalTags
      <3>4. RawRangeIsOrdered(0, 0)
        BY DEF RawRangeIsOrdered, UnsignedLE
      <3> QED
        BY <1>2, <3>2, <3>3, <3>4 DEF Quiet
    <2>2. Parser0 = ParserOf(b, g, LocalsOf(0, 0, 0), none)
      <3>1. /\ ParsedOf(b) = <<>> /\ Tops(b) = 0 /\ Top(b) = 0
            /\ HasIds(b) = FALSE /\ SawMain(b) = FALSE
        BY <1>2 DEF ParsedOf, Tops, Top, HasIds, SawMain
      <3>2. LocalsOf(0, 0, 0) = NoLocals
        BY DEF LocalsOf, NoLocals
      <3> QED
        BY <1>2, <3>1, <3>2 DEF Parser0, ParserOf, Parser, none
    <2>3. Sound(<<>>)
      BY DEF Sound
    <2>4. Opened(<<>>) = 0
      <3>1. {j \in 1..(Len(<<>>) + 1) - 1 : <<>>[j].tag = "collection"} = {}
        OBVIOUS
      <3>2. {j \in 1..(Len(<<>>) + 1) - 1 : <<>>[j].tag = "end_collection"} = {}
        OBVIOUS
      <3> QED
        BY <3>1, <3>2, FS_EmptySet DEF Opened, DepthBefore
    <2>5. <<>> \in Seq(Items) /\ <<>> \in Seq(HostFields)
      OBVIOUS
    <2>6. At(<<>>, b, g, LocalsOf(0, 0, 0), none, <<>>)
      BY <1>2, <2>2, <2>3, <2>4, <2>5, ReadNothing DEF At
    <2> QED
      BY <2>1, <2>6 DEF Follows
  <1>6. Tracked(b)
    <2>1. AgreeAll(<<>>, b.fields)
      BY <1>2 DEF AgreeAll
    <2>2. TrackedBy(b, none, <<>>)
      BY <1>2, <1>5, <2>1 DEF TrackedBy
    <2> QED
      BY <1>1, <2>2 DEF Tracked
  <1> QED
    BY <1>2, <1>3, <1>4, <1>6 DEF Grows, b

LEMMA DescriptorInvInit ==
  ASSUME Init
  PROVE  DescriptorInv
  <1>1. BuilderGrows(builder)
    BY NewBuilder DEF Init, BuilderGrows
  <1>2. <<>> \in Seq(Steps)
    OBVIOUS
  <1> QED
    BY <1>1, <1>2 DEF Init, DescriptorInv

\* validate_generated looks at every field and at every Main item.
LEMMA ValidIsChecked ==
  ASSUME NEW b \in Builders, ValidateGenerated(b.items, Layout(b)) = "OK"
  PROVE  Checked(b)
  <1>1. FirstBad(Layout(b)) = {} /\ StructureIsValid(b.items, Layout(b))
    BY DEF ValidateGenerated
  <1>2. MainsHold(b.items)
    BY <1>1 DEF StructureIsValid, CollectionsAreValid, MainsHold
  <1>3. ASSUME NEW k \in DOMAIN b.fields
        PROVE  SpanHolds(b.fields[k])
    <2> DEFINE field == b.fields[k]
    <2>1. Layout(b).fields = b.fields
      BY DEF Layout
    <2>2. ~(((field.offset % 8) + field.width + 7) \div 8 > 4)
      BY <1>1, <2>1 DEF FirstBad
    <2>3. field.offset \in Nat /\ field.width \in Int
      <3>1. b.fields \in Seq(LayoutTypes)
        BY DEF Builders
      <3>2. field \in LayoutTypes
        BY <3>1
      <3> HIDE DEF field
      <3> QED
        BY <3>2 DEF LayoutTypes
    <2> HIDE DEF field
    <2>4. SpanHolds(field)
      BY <2>2, <2>3 DEF SpanHolds
    <2> QED
      BY <2>4 DEF field
  <1> QED
    BY <1>2, <1>3 DEF Checked, SpansHold

LEMMA DescriptorInvNext ==
  ASSUME DescriptorInv, [Next]_vars
  PROVE  DescriptorInv'
  <1> USE OptionsAssumption
  <1>1. CASE Refuse
    BY <1>1 DEF Refuse, DescriptorInv
  <1>2. CASE Create
    <2>1. Made(EmitCalls(options))
      BY <1>2, OptionsMade DEF Create, DescriptorInv
    <2> QED
      BY <1>2, <2>1 DEF Create, DescriptorInv, Made, FieldsDue
  <1>3. ASSUME NEW op, Calls(op), BuilderGrows(builder'),
               builder'.good =>
                 /\ Len(builder.fields) # 0 => Len(builder'.fields) # 0
                 /\ Head(calls) \in FieldCalls => Len(builder'.fields) # 0
        PROVE  DescriptorInv'
    <2>1. /\ Head(calls) \in Steps /\ Tail(calls) \in Seq(Steps)
          /\ HasOneOf(calls, FieldCalls) =>
               Head(calls) \in FieldCalls \/ HasOneOf(Tail(calls), FieldCalls)
      BY <1>3, TailDue DEF Calls, DescriptorInv
    <2>2. FieldsDue(builder, calls) /\ result = "building"
      BY <1>3 DEF Calls, DescriptorInv
    <2>3. builder'.good => FieldsDue(builder', calls')
      BY <1>3, <2>1, <2>2 DEF Calls, FieldsDue
    <2>4. options' = options /\ result' = result /\ calls' = Tail(calls)
      BY <1>3 DEF Calls
    <2> QED
      BY <1>3, <2>1, <2>2, <2>3, <2>4 DEF DescriptorInv
  <1>4. ASSUME NEW op, Calls(op)
        PROVE  /\ BuilderGrows(builder) /\ builder.good /\ Head(calls).op = op
               /\ Head(calls) \in Steps
    BY <1>4, TailDue DEF Calls, DescriptorInv
  <1>5. CASE CallBegin
    <2>1. Calls("begin") /\ builder' = Begin(builder, Head(calls))
      BY <1>5 DEF CallBegin
    <2>2. Head(calls) \in BeginCalls /\ Head(calls) \notin FieldCalls
      BY <1>4, <2>1, BeginsWith
    <2>3. BuilderGrows(builder') /\ (builder'.good => builder'.fields = builder.fields)
      BY <1>4, <2>1, <2>2, BeginStep
    <2> QED
      BY <1>3, <2>1, <2>2, <2>3
  <1>6. CASE CallEnd
    <2>1. Calls("end") /\ builder' = EndCollection(builder)
      BY <1>6 DEF CallEnd
    <2>2. Head(calls) \notin FieldCalls
      BY <1>4, <2>1, BeginsWith
    <2>3. BuilderGrows(builder') /\ (builder'.good => builder'.fields = builder.fields)
      BY <1>4, <2>1, EndStep
    <2> QED
      BY <1>3, <2>1, <2>2, <2>3
  <1>7. CASE CallReportId
    <2>1. Calls("report_id") /\ builder' = SetReportId(builder, Head(calls))
      BY <1>7 DEF CallReportId
    <2>2. Head(calls) \in IdCalls /\ Head(calls) \notin FieldCalls
      BY <1>4, <2>1, BeginsWith
    <2>3. BuilderGrows(builder') /\ (builder'.good => builder'.fields = builder.fields)
      BY <1>4, <2>1, <2>2, IdStep
    <2> QED
      BY <1>3, <2>1, <2>2, <2>3
  <1>8. CASE CallVariable
    <2>1. Calls("variable") /\ builder' = AddVariable(builder, Head(calls))
      BY <1>8 DEF CallVariable
    <2>2. Head(calls) \in VariableCalls
      BY <1>4, <2>1, BeginsWith
    <2>3. BuilderGrows(builder') /\ (builder'.good => Len(builder'.fields) # 0)
      BY <1>4, <2>1, <2>2, VariableStep
    <2> QED
      BY <1>3, <2>1, <2>3
  <1>9. CASE CallRange
    <2>1. Calls("range") /\ builder' = AddVariableRange(builder, Head(calls))
      BY <1>9 DEF CallRange
    <2>2. Head(calls) \in RangeCalls
      BY <1>4, <2>1, BeginsWith
    <2>3. BuilderGrows(builder') /\ (builder'.good => Len(builder'.fields) # 0)
      BY <1>4, <2>1, <2>2, RangeStep
    <2> QED
      BY <1>3, <2>1, <2>3
  <1>10. CASE CallPad
    <2>1. Calls("pad") /\ builder' = PadReport(builder)
      BY <1>10 DEF CallPad
    <2>2. Head(calls) \notin FieldCalls
      BY <1>4, <2>1, BeginsWith
    <2>3. /\ BuilderGrows(builder')
          /\ builder'.good /\ Len(builder.fields) # 0 => Len(builder'.fields) # 0
      BY <1>4, <2>1, PadStep
    <2> QED
      BY <1>3, <2>1, <2>2, <2>3
  <1>11. CASE CallFeature
    <2>1. Calls("feature") /\ builder' = AddFeature(builder, Head(calls))
      BY <1>11 DEF CallFeature
    <2>2. Head(calls) \in FeatureCalls /\ Head(calls) \notin FieldCalls
      BY <1>4, <2>1, BeginsWith
    <2>3. BuilderGrows(builder') /\ (builder'.good => builder'.fields = builder.fields)
      BY <1>4, <2>1, <2>2, FeatureStep
    <2> QED
      BY <1>3, <2>1, <2>2, <2>3
  <1>12. CASE Return
    <2> DEFINE finished == Finish(builder)
    <2>1. /\ result = "building"
          /\ calls = <<>> \/ ~builder.good
          /\ builder' = finished /\ calls' = <<>> /\ options' = options
          /\ result' = IF ~finished.good THEN "OVERFLOW"
                       ELSE ValidateGenerated(finished.items, Layout(finished))
      BY <1>12 DEF Return
    <2>2. builder \in Builders
      BY DEF DescriptorInv, BuilderGrows
    <2>3. finished = builder \/ finished = Fail(builder)
      BY DEF Finish
    <2>4. BuilderGrows(finished)
      BY <2>2, <2>3, FailedIs DEF DescriptorInv, BuilderGrows
    <2>5. result' # "building"
      <3>1. ValidateGenerated(finished.items, Layout(finished))
              \in {"UNSET_FIELD", "INTERNAL", "PARAM", "OK"}
        BY DEF ValidateGenerated
      <3> HIDE DEF finished
      <3> QED
        BY <2>1, <3>1
    <2>6. ASSUME result' = "OK"
          PROVE  Finished(finished)
      <3>1. finished.good /\ ValidateGenerated(finished.items, Layout(finished)) = "OK"
        BY <2>1, <2>6
      <3>2. finished = builder /\ builder.collection_depth = 0
        BY <2>2, <3>1, FailedIs DEF Finish
      <3>3. Checked(builder)
        BY <2>2, <3>1, <3>2, ValidIsChecked
      <3>4. Grows(builder) /\ FieldsDue(builder, calls) /\ calls = <<>>
        BY <2>1, <3>1, <3>2 DEF DescriptorInv, BuilderGrows
      <3>5. Len(builder.fields) # 0
        BY <3>4 DEF FieldsDue, HasOneOf
      <3> QED
        BY <3>1, <3>2, <3>3, <3>4, <3>5 DEF Finished
    <2>7. <<>> \in Seq(Steps)
      OBVIOUS
    <2> HIDE DEF finished
    <2> QED
      BY <2>1, <2>4, <2>5, <2>6, <2>7 DEF DescriptorInv
  <1>13. CASE SerializeReport
    BY <1>13 DEF SerializeReport, DescriptorInv
  <1>14. CASE UNCHANGED vars
    BY <1>14 DEF vars, DescriptorInv
  <1> QED
    BY <1>1, <1>2, <1>5, <1>6, <1>7, <1>8, <1>9, <1>10, <1>11, <1>12, <1>13, <1>14 DEF Next

(* Every step of a factory keeps the parser and the builder in agreement,   *)
(* whatever options it is called with and wherever the builder refuses.     *)
THEOREM BuilderInvariant == Spec => []DescriptorInv
  <1>1. Init => DescriptorInv
    BY DescriptorInvInit
  <1>2. DescriptorInv /\ [Next]_vars => DescriptorInv'
    BY DescriptorInvNext
  <1> QED
    BY <1>1, <1>2, PTL DEF Spec

-----------------------------------------------------------------------------
(* What the invariant says of a descriptor that is returned.                *)
LEMMA FinishedReads ==
  ASSUME NEW b, Finished(b)
  PROVE  LET host == HostReads(b.items).fields IN
         /\ Len(host) = Len(b.fields)
         /\ \A k \in DOMAIN host : Agrees(host[k], b.fields[k])
  <1>1. PICK needs, hosts : needs \in NeedTypes /\ TrackedBy(b, needs, hosts)
    BY DEF Finished, Grows, Tracked
  <1>2. Follows(b.items, b, needs, hosts) /\ AgreeAll(hosts, b.fields)
    BY <1>1 DEF TrackedBy
  <1>3. hosts \in Seq(HostFields) /\ b.fields \in Seq(LayoutTypes)
    BY <1>2, FollowsParts, GrowsParts DEF Finished
  <1>4. HostReads(b.items).fields = hosts
    BY <1>2 DEF Follows, At
  <1> QED
    BY <1>2, <1>3, <1>4 DEF AgreeAll

(* The host finds in the descriptor exactly the fields the Node serializes, *)
(* each at its offset, of its width, logical and physical range and null    *)
(* state; padding is constant.                                              *)
THEOREM LayoutIsRead == Spec => []HostReadsLayout
  <1>1. DescriptorInv => HostReadsLayout
    BY FinishedReads DEF DescriptorInv, HostReadsLayout, layout, Layout
  <1> QED
    BY <1>1, BuilderInvariant, PTL

LEMMA FinishedAccepted ==
  ASSUME NEW b, Finished(b), ~HasFeature(b.items)
  PROVE  LET read == Reading(b.items)
             last == read[Len(b.items)].parser
         IN  /\ \A k \in DOMAIN b.items : ~Rejects(read[k - 1].parser, b.items[k])
             /\ Accepts(last, {[report_id |-> b.report_id, has_report_id |-> b.report_id # 0,
                                wire_length |-> (b.input_bits + 7) \div 8]})
             /\ last.requirements = b.requirements
  <1> DEFINE p == HostReads(b.items).parser
  <1>1. PICK needs, hosts : needs \in NeedTypes /\ TrackedBy(b, needs, hosts)
    BY DEF Finished, Grows, Tracked
  <1>2. Follows(b.items, b, needs, hosts) /\ needs = b.requirements
        /\ b.top_level_application_seen
    BY <1>1 DEF TrackedBy, Finished
  <1>3. PICK g : Quiet(g, b) /\ At(b.items, b, g, LocalsOf(0, 0, 0), needs, hosts)
    BY <1>2 DEF Follows
  <1>4. Sound(b.items) /\ p = ParserOf(b, g, LocalsOf(0, 0, 0), needs)
    BY <1>3 DEF At
  <1>5. p = Reading(b.items)[Len(b.items)].parser
    BY DEF HostReads
  <1> HIDE DEF p
  <1>6. /\ p.collection_depth = 0 /\ p.global_stack = <<>> /\ p.top_level_count = 1
        /\ p.locals.delimiter_depth = 0 /\ p.has_report_ids = HasIds(b)
        /\ p.parsed = ParsedOf(b) /\ p.requirements = needs
    BY <1>2, <1>4 DEF ParserOf, Parser, LocalsOf, Tops, Finished
  <1> DEFINE id == b.report_id
  <1>7. DOMAIN p.parsed = {id} /\ p.parsed[id].bits = b.data_bits.input
    BY <1>6 DEF ParsedOf, Finished
  <1>8. WireLength(p, id) = (b.input_bits + 7) \div 8
    <2>1. /\ b.data_bits.input \in Nat /\ b.input_bits \in Nat
          /\ FirstOf(b) = b.input_bits
      BY GrowsParts DEF Finished
    <2> DEFINE bits == b.data_bits.input
    <2>2. CASE id = 0
      <3>1. ~p.has_report_ids
        BY <1>6, <2>2 DEF HasIds
      <3>2. b.input_bits = bits
        BY <2>1, <2>2 DEF FirstOf
      <3>3. WireLength(p, id) = ((bits + 7) \div 8) + 0
        BY <1>7, <3>1 DEF WireLength
      <3> QED
        BY <2>1, <3>2, <3>3
    <2>3. CASE id # 0
      <3>1. WireLength(p, id) = ((bits + 7) \div 8) + 1 /\ b.input_bits = bits + 8
        BY <1>6, <1>7, <2>1, <2>3 DEF WireLength, HasIds, FirstOf
      <3> QED
        BY <2>1, <3>1
    <2> QED
      BY <2>2, <2>3
  <1>9. Reports(p) = {[report_id |-> id, has_report_id |-> id # 0,
                       wire_length |-> (b.input_bits + 7) \div 8]}
    <2>1. p.has_report_ids = (id # 0)
      BY <1>6 DEF HasIds
    <2> DEFINE Entry(i) == [report_id |-> i, has_report_id |-> p.has_report_ids,
                            wire_length |-> WireLength(p, i)]
    <2>2. Reports(p) = {Entry(i) : i \in {id}}
      BY <1>7 DEF Reports
    <2>3. Entry(id) = [report_id |-> id, has_report_id |-> id # 0,
                       wire_length |-> (b.input_bits + 7) \div 8]
      BY <1>8, <2>1
    <2> HIDE DEF Entry
    <2>4. Reports(p) = {Entry(id)}
      BY <2>2
    <2> QED
      BY <2>3, <2>4
  <1>10. \A k \in DOMAIN b.items : ~Rejects(Reading(b.items)[k - 1].parser, b.items[k])
    BY <1>4 DEF Sound
  <1>11. Accepts(p, {[report_id |-> b.report_id, has_report_id |-> b.report_id # 0,
                      wire_length |-> (b.input_bits + 7) \div 8]})
    <2> DEFINE reports == {[report_id |-> b.report_id, has_report_id |-> b.report_id # 0,
                            wire_length |-> (b.input_bits + 7) \div 8]}
    <2>1. reports # {} /\ reports = Reports(p)
      BY <1>9
    <2> HIDE DEF reports
    <2>2. Accepts(p, reports)
      BY <1>6, <2>1 DEF Accepts
    <2> QED
      BY <2>2 DEF reports
  <1> QED
    BY <1>2, <1>5, <1>6, <1>10, <1>11

(* What the builder generates, validate_raw accepts, with the same reports  *)
(* and requirements; only descriptors with a feature item are left out, as  *)
(* raw ones may not have any.                                               *)
THEOREM GeneratedIsAccepted == Spec => []GeneratedIsRawValid
  <1>1. DescriptorInv => GeneratedIsRawValid
    BY FinishedAccepted DEF DescriptorInv, GeneratedIsRawValid, layout, Layout, HasFeature
  <1> QED
    BY <1>1, BuilderInvariant, PTL
================================================================================
