------------------------------- MODULE ShortItem -------------------------------
(***************************************************************************)
(* HID short items as libaoahid writes them (src/hid/item_writer.cpp) and  *)
(* reads them back (src/hid/validator.cpp).                                *)
(*                                                                         *)
(* The data of an item is its little-endian value.  Four data bytes are    *)
(* kept as the int32 with the same bits, TLC having no larger numbers.     *)
(***************************************************************************)
EXTENDS Integers

Byte == 256

\* How many numbers one data byte holds, and two.
Span == <<Byte, Byte * Byte>>

Word8 == 0..Span[1] - 1
Word16 == 0..Span[2] - 1

\* ItemWriter::emit: prefix and data, cut to the number of data bytes.
Item(tag, value, bytes) ==
  [tag |-> tag, bytes |-> bytes,
   data |-> IF bytes = 0 THEN 0 ELSE IF bytes = 4 THEN value ELSE value % Span[bytes]]

WireBytes(item) == item.bytes + 1

UnsignedItem(tag, value) ==
  Item(tag, value, IF value < Span[1] THEN 1 ELSE IF value < Span[2] THEN 2 ELSE 4)

SignedItem(tag, value) ==
  Item(tag, value, IF value >= -128 /\ value <= 127 THEN 1
                   ELSE IF value >= -32768 /\ value <= 32767 THEN 2 ELSE 4)

BareItem(tag) == Item(tag, 0, 0)

\* logical_maximum and physical_maximum: unsigned if both extents are.
MaximumItem(tag, value, declared_minimum) ==
  IF declared_minimum >= 0 /\ value >= 0 THEN UnsignedItem(tag, value)
  ELSE SignedItem(tag, value)

\* unit_exponent, a nibble in two's complement
ExponentItem(value) == Item("unit_exponent", value % 16, 1)

-----------------------------------------------------------------------------
\* unsigned_value, as the int32 with the same bits
UnsignedValue(item) == item.data

\* signed_value
SignedValue(item) ==
  IF item.bytes \in {1, 2} /\ item.data >= Span[item.bytes] \div 2
  THEN item.data - Span[item.bytes]
  ELSE item.data

\* a <= b as uint32
UnsignedLE(a, b) == IF (a < 0) = (b < 0) THEN a <= b ELSE b < 0

\* unit_is_valid: a defined system of units and no reserved nibble
UnitIsValid(unit) ==
  unit = 0 \/ (unit \in 1..2^28 - 1 /\ unit % 16 \in {1, 2, 3, 4, 15})

\* field_span_is_valid looks at no more than eight fields.
FieldSpanIsValid(initial_bit, report_size, report_count) ==
  \A field \in 0..(IF report_count < 8 THEN report_count ELSE 8) - 1 :
    ((initial_bit + field * report_size) % 8) + report_size <= 32

\* raw_logical_range_is_ordered
RawRangeIsOrdered(minimum, maximum) ==
  IF minimum < 0 THEN maximum >= minimum ELSE UnsignedLE(minimum, maximum)

\* The values a field of the width holds; 32 bits hold every int32.
FitsSigned(value, width) ==
  width < 32 => value \in -(2^(width - 1))..2^(width - 1) - 1
FitsUnsigned(value, width) ==
  width < 32 => value >= 0 /\ (width < 31 => value < 2^width)

\* raw_value_fits
RawValueFits(minimum, maximum, width) ==
  /\ width \in 1..32
  /\ RawRangeIsOrdered(minimum, maximum)
  /\ IF minimum < 0 THEN FitsSigned(minimum, width) /\ FitsSigned(maximum, width)
     ELSE FitsUnsigned(maximum, width)

\* value_fits
ValueFits(minimum, maximum, width) ==
  /\ width \in 1..32
  /\ minimum <= maximum
  /\ IF minimum < 0 \/ maximum < 0
     THEN FitsSigned(minimum, width) /\ FitsSigned(maximum, width)
     ELSE FitsUnsigned(maximum, width)
===============================================================================
