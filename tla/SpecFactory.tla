------------------------------ MODULE SpecFactory ------------------------------
(***************************************************************************)
(* The creation of a generated profile's Spec and the reports its Nodes    *)
(* serialize: options are accepted, the profile drives the builder call by *)
(* call, the result is validated (build_generated_spec), and a report is   *)
(* stored in the layout and checked (serialize_node,                       *)
(* validate_serialized_report).                                            *)
(*                                                                         *)
(* A host sees neither options nor layout: it reads the items.  The second *)
(* half of the module is that host.                                        *)
(***************************************************************************)
EXTENDS ProfileSpecs

CONSTANT Options \* the options an application may pass, valid or not

ASSUME OptionsAssumption == \A o \in Options : o \in OptionTypes

VARIABLES
  options, \* the options passed
  calls,   \* the builder calls still to make
  builder, \* DescriptorBuilder
  result,  \* "none" until the factory returns
  values,  \* the values of a report's fields, <<>> before one is serialized
  report   \* its bytes, <<>> if a value could not be stored

vars == <<options, calls, builder, result, values, report>>

Init ==
  /\ options \in Options
  /\ calls = <<>> /\ builder = Builder0 /\ result = "none"
  /\ values = <<>> /\ report = <<>>

Refuse ==
  /\ result = "none" /\ calls = <<>> /\ ~AcceptsOptions(options)
  /\ result' = "refused"
  /\ UNCHANGED <<options, calls, builder, values, report>>

Create ==
  /\ result = "none" /\ calls = <<>> /\ AcceptsOptions(options)
  /\ calls' = EmitCalls(options) /\ result' = "building"
  /\ UNCHANGED <<options, builder, values, report>>

\* A profile gives up at the first call that fails, but for a failed padding,
\* whose result it ignores.
Calls(op) ==
  /\ result = "building" /\ builder.good /\ calls # <<>> /\ Head(calls).op = op
  /\ calls' = Tail(calls)
  /\ UNCHANGED <<options, result, values, report>>

CallBegin == Calls("begin") /\ builder' = Begin(builder, Head(calls))
CallEnd == Calls("end") /\ builder' = EndCollection(builder)
CallReportId == Calls("report_id") /\ builder' = SetReportId(builder, Head(calls))
CallVariable == Calls("variable") /\ builder' = AddVariable(builder, Head(calls))
CallRange == Calls("range") /\ builder' = AddVariableRange(builder, Head(calls))
CallPad == Calls("pad") /\ builder' = PadReport(builder)
CallFeature == Calls("feature") /\ builder' = AddFeature(builder, Head(calls))

\* build_generated_spec after its emit
Return ==
  LET finished == Finish(builder) IN
  /\ result = "building" /\ (calls = <<>> \/ ~builder.good)
  /\ builder' = finished /\ calls' = <<>>
  /\ result' = IF ~finished.good THEN "OVERFLOW"
               ELSE ValidateGenerated(finished.items, Layout(finished))
  /\ UNCHANGED <<options, values, report>>

-----------------------------------------------------------------------------
(* Reports *)

layout == Layout(builder)

\* The outermost of the values serialize_node stores in a field, as the
\* operations of the profile let the state of the Node be.
Stored(field) ==
  CASE field.semantic \in {"x", "y", "wheel", "pan", "width", "height", "tilt_x",
                           "tilt_y", "twist"} -> {field.minimum, 0, field.maximum}
    [] field.semantic = "pressure" -> {0, 1, field.maximum}
    [] field.semantic = "azimuth" -> {0, field.maximum - 1}
    [] field.semantic = "contact_count" -> {0, options.maximum_contacts}
    [] field.semantic = "gamepad_axis" ->
         {field.minimum, options.axes[field.instance + 1].neutral, field.maximum}
    [] field.semantic \in {"hat", "battery_strength"} -> {field.minimum, field.maximum}
    [] field.semantic = "constant_padding" -> {0}
    [] OTHER -> {0, field.maximum} \* bits, contact_id, scan_time

\* A hat without direction and a battery of unknown strength store the null.
States(field) ==
  {[value |-> value, null |-> FALSE] : value \in Stored(field)}
  \union IF field.null_state THEN {[value |-> HatNull(field), null |-> TRUE]} ELSE {}

Blank ==
  [byte \in 1..layout.wire_bytes |->
     IF byte = 1 /\ layout.report_id # 0 THEN layout.report_id ELSE 0]

\* serialize_node for a Node with these values; <<>> if one cannot be stored.
Serialize(chosen) ==
  LET Put(bytes, k) ==
        LET field == layout.fields[k] IN
        IF bytes = <<>> \/ field.semantic = "constant_padding" THEN bytes
        ELSE IF MayStore(bytes, field, chosen[k].value, chosen[k].null)
        THEN StoreBits(bytes, field, chosen[k].value)
        ELSE <<>>
  IN FoldLeft(Put, Blank, [k \in DOMAIN layout.fields |-> k])

Highest(set) == CHOOSE state \in set : \A other \in set : other.value <= state.value
Lowest(set) == CHOOSE state \in set : \A other \in set : state.value <= other.value

\* One field holds any of its values; bound: the others are all as high or all
\* as low as they go.
SerializeReport ==
  /\ result = "OK" /\ values = <<>>
  /\ \E one \in DOMAIN layout.fields, high \in BOOLEAN :
       \E state \in States(layout.fields[one]) :
         LET Rest(set) == IF high THEN Highest(set) ELSE Lowest(set)
             chosen == [k \in DOMAIN layout.fields |->
                          IF k = one THEN state ELSE Rest(States(layout.fields[k]))]
         IN  values' = chosen /\ report' = Serialize(chosen)
  /\ UNCHANGED <<options, calls, builder, result>>

Next ==
  \/ Refuse \/ Create
  \/ CallBegin \/ CallEnd \/ CallReportId \/ CallVariable \/ CallRange \/ CallPad
  \/ CallFeature \/ Return
  \/ SerializeReport

Spec == Init /\ [][Next]_vars

-----------------------------------------------------------------------------
(* The host: it parses the items and reads each Input field where it finds  *)
(* it.  A Feature item only ends the Local environment.                     *)

HostAfter(p, item) ==
  IF item.tag = "feature" THEN [p EXCEPT !.locals = NoLocals] ELSE After(p, item)

SignedNibble(value) == IF value >= 8 THEN value - 16 ELSE value

FieldsOfInput(p, item) ==
  LET value == p.globals.value
      first == ReportBits(p, value["report_id"]) + IF p.has_report_ids THEN 8 ELSE 0
  IN [k \in 1..value["report_count"] |->
        [offset |-> first + (k - 1) * value["report_size"],
         width |-> value["report_size"],
         constant |-> Constant(UnsignedValue(item)),
         null_state |-> Flag(UnsignedValue(item), 64),
         minimum |-> value["logical_minimum"], maximum |-> value["logical_maximum"],
         physical |-> <<value["physical_minimum"], value["physical_maximum"],
                        SignedNibble(value["unit_exponent"]), value["unit"]>>]]

HostRead(h, item) ==
  [parser |-> HostAfter(h.parser, item),
   fields |-> h.fields \o IF item.tag = "input" THEN FieldsOfInput(h.parser, item)
                          ELSE <<>>]

\* What the host knows after each of the items, and after the last.
Reading(items) ==
  LET after[k \in 0..Len(items)] ==
        IF k = 0 THEN [parser |-> Parser0, fields |-> <<>>]
        ELSE HostRead(after[k - 1], items[k])
  IN  after

HostReads(items) == Reading(items)[Len(items)]

\* The bits of a field, least significant first, read as its range tells.
HostValue(bytes, field) ==
  LET Bit(k) == (bytes[((field.offset + k) \div 8) + 1] \div 2^((field.offset + k) % 8)) % 2
      Weight(k) == CASE k = 31 -> SmallestInt
                     [] k < 31 /\ k = field.width - 1 /\ field.minimum < 0 -> -(2^k)
                     [] OTHER -> 2^k
  IN  MapThenSumSet(LAMBDA k : Bit(k) * Weight(k), 0..field.width - 1)

-----------------------------------------------------------------------------
PhysicalOf(field) ==
  <<field.physical.minimum, field.physical.maximum, field.physical.exponent,
    field.physical.unit>>

Agrees(host, field) ==
  /\ host.offset = field.offset /\ host.width = field.width
  /\ host.constant = (field.semantic = "constant_padding")
  /\ field.semantic # "constant_padding" =>
       /\ host.minimum = field.minimum /\ host.maximum = field.maximum
       /\ host.null_state = field.null_state
       /\ host.physical = PhysicalOf(field)

(* The layout a Node serializes with is the one a host derives from the     *)
(* bytes of the descriptor, field by field: place, width, range with its    *)
(* sign, null state, physical extents and unit, although Global items stay  *)
(* in force from one field to the next ("a serializer can never silently    *)
(* drift away from the descriptor it serves", descriptor_builder.cpp:4-5).  *)
HostReadsLayout ==
  (result = "OK" /\ values = <<>>) =>
    LET host == HostReads(builder.items).fields IN
    /\ Len(host) = Len(layout.fields)
    /\ \A k \in DOMAIN host : Agrees(host[k], layout.fields[k])

(* A descriptor without Feature items that the library generates is one it  *)
(* accepts from an application too (aoahid_spec_create_raw with the         *)
(* capability the Spec reports), and both ways count the same requirements, *)
(* which node_open compares with the limits of a target.                    *)
GeneratedIsRawValid ==
  (result = "OK" /\ values = <<>>
   /\ \A k \in DOMAIN builder.items : builder.items[k].tag # "feature") =>
    LET read == Reading(builder.items)
        last == read[Len(builder.items)].parser
    IN  /\ \A k \in DOMAIN builder.items : ~Rejects(read[k - 1].parser, builder.items[k])
        /\ Accepts(last, {[report_id |-> layout.report_id,
                           has_report_id |-> layout.report_id # 0,
                           wire_length |-> layout.wire_bytes]})
        /\ last.requirements = builder.requirements

(* Whatever the state of a Node, its report can be serialized, passes       *)
(* validate_serialized_report and shows a host, in every field, the value   *)
(* of the state or the null state: the checks of the factories leave no     *)
(* Spec whose Nodes would fail with ERR_INTERNAL, and no field disturbs     *)
(* its neighbours in a shared byte.                                         *)
ReportsReadBack ==
  values # <<>> =>
    LET host == HostReads(builder.items).fields IN
    /\ report # <<>> /\ ReportIsValid(report, layout)
    /\ \A k \in DOMAIN values :
         LET seen == HostValue(report, host[k]) IN
         IF values[k].null
         THEN host[k].null_state /\ seen \notin host[k].minimum..host[k].maximum
         ELSE seen = values[k].value

(* "The generator inserts Constant padding to a byte boundary between       *)
(* caller-sized fields so this holds for every width combination"           *)
(* (PROFILES.md:58-61): options that are accepted one by one make a Spec,   *)
(* unless the descriptor is too long.                                       *)
EveryWidthCombinationFits == result \notin {"PARAM", "INTERNAL"}
===============================================================================
