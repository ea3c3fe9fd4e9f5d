--------------------------- MODULE DescriptorBuilder ---------------------------
(***************************************************************************)
(* DescriptorBuilder (src/hid/descriptor_builder.cpp): it writes the items *)
(* of a descriptor and, beside them, the layout the serializer will use    *)
(* and the requirements a target is compared with.  A builder that fails   *)
(* stays failed.                                                           *)
(*                                                                         *)
(* The counting pass and the emitting pass run the same calls on builders  *)
(* that differ in where the bytes go: one builder stands for both.         *)
(***************************************************************************)
EXTENDS RawParser, SequencesExt

CONSTANT WireMaximum \* kAoaDescriptorWireMaximum

NoPhysical == [enabled |-> 0, minimum |-> 0, maximum |-> 0, exponent |-> 0, unit |-> 0]

\* validate_physical; variable and validate_generated ask the same.
PhysicalIsValid(physical) ==
  \/ physical = NoPhysical
  \/ /\ physical.enabled = 1
     /\ physical.maximum > physical.minimum
     /\ physical.exponent \in -8..7
     /\ physical.unit # 0 /\ UnitIsValid(physical.unit)

\* input_bits counts the Report ID, data_bits and data_fields do not.
Builder0 ==
  [good |-> TRUE, items |-> <<>>, size |-> 0, collection_depth |-> 0,
   top_level_application_seen |-> FALSE, report_id_decided |-> FALSE,
   data_main_emitted |-> FALSE, report_id |-> 0, input_bits |-> 0,
   fields |-> <<>>, requirements |-> NoNeeds,
   data_bits |-> [input |-> 0, feature |-> 0],
   data_fields |-> [input |-> 0, feature |-> 0]]

Fail(b) == [b EXCEPT !.good = FALSE]

\* ItemWriter::emit: the first item past the capacity fails, and with it the builder.
Emit(b, item) ==
  IF ~b.good \/ b.size + WireBytes(item) > WireMaximum THEN Fail(b)
  ELSE [b EXCEPT !.items = Append(@, item), !.size = @ + WireBytes(item)]

Write(b, items) ==
  LET written[k \in 0..Len(items)] ==
        IF k = 0 THEN b ELSE Emit(written[k - 1], items[k])
  IN  written[Len(items)]

ObserveUsages(b, count) == [b EXCEPT !.requirements.usages = Larger(@, count)]

-----------------------------------------------------------------------------
(* Collections and the Report ID *)

Begin(b, call) ==
  LET opened == Write(ObserveUsages(b, 1),
                      <<UnsignedItem("usage_page", call.page),
                        UnsignedItem("usage", call.usage),
                        UnsignedItem("collection", call.collection)>>)
  IN  IF \/ ~b.good
         \/ call.collection = 1 /\ b.collection_depth = 0 /\ b.top_level_application_seen
         \/ call.collection # 1 /\ b.collection_depth = 0
         \/ ~opened.good
      THEN Fail(b)
      ELSE [opened EXCEPT !.top_level_application_seen = TRUE,
                          !.collection_depth = @ + 1]

EndCollection(b) ==
  LET closed == Write(b, <<BareItem("end_collection")>>) IN
  IF b.collection_depth = 0 \/ ~closed.good THEN Fail(b)
  ELSE [closed EXCEPT !.collection_depth = @ - 1]

SetReportId(b, option) ==
  LET decided == [b EXCEPT !.report_id_decided = TRUE] IN
  IF ~b.good \/ b.report_id_decided \/ b.data_main_emitted THEN Fail(b)
  ELSE IF option.enabled = 0 THEN [decided EXCEPT !.report_id = 0, !.input_bits = 0]
  ELSE IF option.value = 0 THEN Fail(decided)
  ELSE [Write(decided, <<UnsignedItem("report_id", option.value)>>)
          EXCEPT !.report_id = option.value, !.input_bits = 8]

-----------------------------------------------------------------------------
(* Data Main items *)

PrepareDataMain(b) ==
  IF ~b.good \/ ~b.report_id_decided THEN Fail(b)
  ELSE [b EXCEPT !.data_main_emitted = TRUE]

\* record_main's maxima: bits and fields are those of the whole report.
Counting(needs, usages, size, bits, fields) ==
  [needs EXCEPT !.usages = Larger(@, usages), !.report_size = Larger(@, size),
                !.data_bits = Larger(@, bits), !.fields = Larger(@, fields)]

\* Mutant of RecordMain: padding is not counted.
RecordMainUsagesOnly(b, kind, usages, count, size) ==
  LET bits == b.data_bits[kind] + IF usages = 0 THEN 0 ELSE size * count
      number == b.data_fields[kind] + IF usages = 0 THEN 0 ELSE 1
  IN  [b EXCEPT !.requirements = Counting(@, Larger(usages, count), size, bits, number),
                !.data_bits = [@ EXCEPT ![kind] = bits],
                !.data_fields = [@ EXCEPT ![kind] = number]]

\* record_main; its overflow checks are out of reach.
RecordMain(b, kind, usages, count, size) ==
  LET bits == b.data_bits[kind] + size * count
      number == b.data_fields[kind] + IF usages = 0 THEN 0 ELSE 1
  IN  [b EXCEPT !.requirements = Counting(@, Larger(usages, count), size, bits, number),
                !.data_bits = [@ EXCEPT ![kind] = bits],
                !.data_fields = [@ EXCEPT ![kind] = number]]

AddLayout(b, field) ==
  IF ~b.good \/ field.width \notin 1..32 THEN Fail(b)
  ELSE [b EXCEPT !.fields = Append(@, [field EXCEPT !.offset = b.input_bits]),
                 !.input_bits = @ + field.width]

Extents(minimum, maximum) ==
  <<SignedItem("logical_minimum", minimum),
    MaximumItem("logical_maximum", maximum, minimum)>>

PhysicalItems(physical) ==
  <<SignedItem("physical_minimum", physical.minimum),
    MaximumItem("physical_maximum", physical.maximum, physical.minimum),
    ExponentItem(physical.exponent), UnsignedItem("unit", physical.unit)>>

Sized(size, count, main, flags) ==
  <<UnsignedItem("report_size", size), UnsignedItem("report_count", count),
    UnsignedItem(main, flags)>>

Usages(call) == <<UnsignedItem("usage_page", call.page), UnsignedItem("usage", call.usage)>>

\* A field before AddLayout gives it its place.
LayoutOf(call) ==
  [offset |-> 0, semantic |-> call.semantic, instance |-> call.instance,
   width |-> call.width, minimum |-> call.minimum, maximum |-> call.maximum,
   physical |-> call.physical, null_state |-> Flag(call.flags, 64)]

\* Mutant of AddVariable: the physical extents stay in force.
AddVariableKeepsPhysical(b, call) ==
  LET ready == PrepareDataMain(b)
      physical == IF call.physical = NoPhysical THEN <<>> ELSE PhysicalItems(call.physical)
      written == Write(ready, Usages(call) \o Extents(call.minimum, call.maximum)
                              \o physical \o Sized(call.width, 1, "input", call.flags))
  IN  IF ~written.good \/ ~PhysicalIsValid(call.physical) THEN Fail(ready)
      ELSE AddLayout(RecordMain(written, "input", 1, 1, call.width), LayoutOf(call))

\* variable: a field's physical extents are taken back after it.
AddVariable(b, call) ==
  LET ready == PrepareDataMain(b)
      physical == IF call.physical = NoPhysical THEN <<>> ELSE PhysicalItems(call.physical)
      reset == IF call.physical = NoPhysical THEN <<>> ELSE PhysicalItems(NoPhysical)
      written == Write(ready, Usages(call) \o Extents(call.minimum, call.maximum)
                              \o physical \o Sized(call.width, 1, "input", call.flags))
  IN  IF ~written.good \/ ~PhysicalIsValid(call.physical) THEN Fail(ready)
      ELSE AddLayout(Write(RecordMain(written, "input", 1, 1, call.width), reset),
                     LayoutOf(call))

\* variable_range: one bit for every usage.
BitLayout(b, call, count) ==
  [index \in 1..count |->
     [offset |-> b.input_bits + index - 1, semantic |-> call.semantic,
      instance |-> index - 1, width |-> 1, minimum |-> 0, maximum |-> 1,
      physical |-> NoPhysical, null_state |-> FALSE]]

AddVariableRange(b, call) ==
  LET count == call.last - call.first + 1
      ready == PrepareDataMain(b)
      written == Write(ready, <<UnsignedItem("usage_page", call.page),
                                UnsignedItem("usage_minimum", call.first),
                                UnsignedItem("usage_maximum", call.last)>>
                              \o Extents(0, 1) \o Sized(1, count, "input", 2))
  IN  IF ~written.good \/ call.last < call.first THEN Fail(ready)
      ELSE [RecordMain(written, "input", count, count, 1) EXCEPT
              !.fields = @ \o BitLayout(b, call, count), !.input_bits = @ + count]

\* pad_report and constant_padding: zero bits up to the next byte.
PadReport(b) ==
  LET bits == (8 - (b.input_bits % 8)) % 8
      ready == PrepareDataMain(b)
      written == Write(ready, Sized(bits, 1, "input", 1))
      padding == [offset |-> 0, semantic |-> "constant_padding", instance |-> 0,
                  width |-> bits, minimum |-> 0, maximum |-> 0,
                  physical |-> NoPhysical, null_state |-> FALSE]
  IN  IF bits = 0 THEN b
      ELSE IF ~written.good THEN Fail(ready)
      ELSE AddLayout(RecordMain(written, "input", 0, 1, bits), padding)

\* feature_static_value: constant and variable, in no Input report.
AddFeature(b, call) ==
  LET ready == PrepareDataMain(b)
      written == Write(ready, Usages(call) \o Extents(call.minimum, call.maximum)
                              \o Sized(call.width, 1, "feature", 3))
  IN  IF ~written.good THEN Fail(ready)
      ELSE RecordMain(written, "feature", 1, 1, call.width)

\* finish
Finish(b) == IF b.collection_depth # 0 THEN Fail(b) ELSE b

Layout(b) == [report_id |-> b.report_id, wire_bytes |-> (b.input_bits + 7) \div 8,
              fields |-> b.fields]

-----------------------------------------------------------------------------
(* validate_generated, the second look at what was built *)

FirstBad(layout) ==
  {k \in DOMAIN layout.fields :
     LET field == layout.fields[k]
         span == ((field.offset % 8) + field.width + 7) \div 8
     IN  \/ ~PhysicalIsValid(field.physical)
         \/ field.semantic # "constant_padding"
            /\ ~ValueFits(field.minimum, field.maximum, field.width)
         \/ span > 4}

Contiguous(layout) ==
  \A k \in DOMAIN layout.fields :
    layout.fields[k].offset =
      IF k = 1 THEN (IF layout.report_id = 0 THEN 0 ELSE 8)
      ELSE layout.fields[k - 1].offset + layout.fields[k - 1].width

MainData(items) == {k \in DOMAIN items : items[k].tag \in {"input", "feature"}}

\* The collections that are open before an item.
DepthBefore(items, k) ==
  Cardinality({j \in 1..k - 1 : items[j].tag = "collection"})
  - Cardinality({j \in 1..k - 1 : items[j].tag = "end_collection"})

CollectionsAreValid(items) ==
  LET Tops == {k \in DOMAIN items : items[k].tag = "collection" /\ DepthBefore(items, k) = 0}
  IN  /\ Cardinality(Tops) = 1 /\ \A k \in Tops : items[k].data = 1
      /\ \A k \in DOMAIN items :
           /\ items[k].tag = "collection" => items[k].data \in Word8 \ (7..127)
           /\ items[k].tag = "end_collection" => DepthBefore(items, k) > 0
      /\ \A k \in MainData(items) : DepthBefore(items, k) > 0
      /\ DepthBefore(items, Len(items) + 1) = 0

\* A Global item without Push and Pop, and the bits of the Main items before k.
Current(items, tag, k) ==
  LET set == {j \in 1..k : items[j].tag = tag}
  IN  IF set = {} THEN 0 ELSE items[CHOOSE j \in set : \A i \in set : i <= j].data

BitsBefore(items, main, k) ==
  MapThenSumSet(LAMBDA j : Current(items, "report_size", j) * Current(items, "report_count", j),
                {j \in MainData(items) : j < k /\ items[j].tag = main})

LayoutBits(layout) == MapThenSumSet(LAMBDA k : layout.fields[k].width, DOMAIN layout.fields)

\* validate_generated_structure
StructureIsValid(items, layout) ==
  LET Ids == {k \in DOMAIN items : items[k].tag = "report_id"}
  IN  /\ Cardinality(Ids) <= 1
      /\ \A k \in Ids : items[k].data \in Word8 \ {0} /\ \A j \in MainData(items) : k < j
      /\ Ids # {} <=> layout.report_id # 0
      /\ \A k \in Ids : items[k].data = layout.report_id
      /\ CollectionsAreValid(items)
      /\ \A k \in MainData(items) :
           /\ Current(items, "report_size", k) \in 1..32
           /\ Current(items, "report_count", k) # 0
           /\ FieldSpanIsValid(BitsBefore(items, items[k].tag, k),
                               Current(items, "report_size", k),
                               Current(items, "report_count", k))
      /\ BitsBefore(items, "input", Len(items) + 1) + (IF Ids = {} THEN 0 ELSE 8)
           = LayoutBits(layout)
             + (IF layout.report_id = 0 THEN 0 ELSE 8)

ValidateGenerated(items, layout) ==
  IF items = <<>> THEN "UNSET_FIELD"
  ELSE IF ~Contiguous(layout) THEN "INTERNAL"
  ELSE IF FirstBad(layout) # {} THEN "PARAM"
  ELSE IF ~StructureIsValid(items, layout) THEN "INTERNAL"
  ELSE "OK"
===============================================================================
