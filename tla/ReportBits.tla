------------------------------- MODULE ReportBits ------------------------------
(***************************************************************************)
(* The bits of one report: how serialize_node stores a value in a field of *)
(* the layout and how validate_serialized_report reads it back             *)
(* (src/profiles/state.cpp).  A report is a sequence of bytes, a field     *)
(* lies at a bit offset and may share its bytes with others.               *)
(*                                                                         *)
(* As in ShortItem, 32 bits are kept as the int32 with the same bits.      *)
(***************************************************************************)
EXTENDS ShortItem, Sequences, FiniteSetsExt

LargestInt == 2147483647
SmallestInt == -LargestInt - 1
LargestUnsigned == -1 \* UINT32_MAX, the same 32 bits

IsSigned(range) == range.minimum < 0 \/ range.maximum < 0

\* The extents of a width, signed or not.
LowestOf(range) ==
  IF ~IsSigned(range) THEN 0
  ELSE IF range.width = 32 THEN SmallestInt ELSE -(2^(range.width - 1))
HighestOf(range) ==
  IF IsSigned(range)
  THEN IF range.width = 32 THEN LargestInt ELSE 2^(range.width - 1) - 1
  ELSE IF range.width = 32 THEN LargestUnsigned
  ELSE IF range.width = 31 THEN LargestInt ELSE 2^range.width - 1

\* Mutant of HasNullEncoding: the range may fill the width.
HasNullEncodingAlways(range) == range.width \in 1..32

\* has_null_encoding: an encoding of the width is outside of the range.
HasNullEncoding(range) ==
  /\ range.width \in 1..32
  /\ range.minimum > LowestOf(range) \/ range.maximum # HighestOf(range)

\* hat_null
HatNull(field) == IF LowestOf(field) < field.minimum THEN LowestOf(field)
                  ELSE HighestOf(field)

-----------------------------------------------------------------------------
(* A field is written and read a piece at a time, a piece being what lies   *)
(* in one byte.  A piece is <<bits of the field before it, its bits>>.      *)

Pieces(field) ==
  LET starts == {0} \union {k \in 1..field.width - 1 : (field.offset + k) % 8 = 0}
      Piece(start) ==
        LET room == 8 - ((field.offset + start) % 8)
            left == field.width - start
        IN  <<start, IF left < room THEN left ELSE room>>
  IN {Piece(start) : start \in starts}

ByteOf(field, piece) == ((field.offset + piece[1]) \div 8) + 1
ShiftOf(field, piece) == (field.offset + piece[1]) % 8

PieceOfByte(field, byte) == {piece \in Pieces(field) : ByteOf(field, piece) = byte}

\* The byte with taken bits at shift replaced by those of bits.
Inserted(byte, bits, taken, shift) ==
  LET above == 2^(shift + taken)
  IN  (byte \div above) * above + bits * 2^shift + (byte % 2^shift)

StoredByte(byte, field, value, piece) ==
  Inserted(byte, (value \div 2^piece[1]) % 2^piece[2], piece[2], ShiftOf(field, piece))

MayStore(report, field, value, allow_null) ==
  /\ field.width \in 1..32
  /\ field.offset + field.width <= Len(report) * 8
  /\ allow_null => field.null_state
  /\ allow_null \/ value \in field.minimum..field.maximum

\* store_bits
StoreBits(report, field, value) ==
  [byte \in DOMAIN report |->
     IF PieceOfByte(field, byte) = {} THEN report[byte]
     ELSE StoredByte(report[byte], field, value,
                     CHOOSE piece \in PieceOfByte(field, byte) : TRUE)]

\* The last eight bits of 32 carry the sign.
PieceValue(report, field, piece) ==
  LET bits == (report[ByteOf(field, piece)] \div 2^ShiftOf(field, piece)) % 2^piece[2]
  IN  IF piece[1] + piece[2] = 32 /\ bits >= 2^(piece[2] - 1)
      THEN (bits - 2^piece[2]) * 2^piece[1]
      ELSE bits * 2^piece[1]

\* What validate_serialized_report decodes.
LoadBits(report, field) ==
  LET encoded == MapThenSumSet(LAMBDA piece : PieceValue(report, field, piece),
                               Pieces(field))
  IN  IF IsSigned(field) /\ field.width < 32 /\ encoded >= 2^(field.width - 1)
      THEN encoded - 2^(field.width - 1) - 2^(field.width - 1)
      ELSE encoded

\* validate_serialized_report; padding has the range 0..0.
ReportIsValid(report, layout) ==
  /\ Len(report) = layout.wire_bytes /\ Len(report) # 0
  /\ layout.report_id # 0 => report[1] = layout.report_id
  /\ \A k \in DOMAIN layout.fields :
       LET field == layout.fields[k]
           value == LoadBits(report, field)
       IN  /\ field.offset + field.width <= Len(report) * 8
           /\ \/ value \in field.minimum..field.maximum
              \/ field.null_state /\ value = HatNull(field)
===============================================================================
