------------------------------- MODULE RawParser -------------------------------
(***************************************************************************)
(* The parser of raw descriptors (RawParser in src/hid/validator.cpp): a   *)
(* state that is carried from item to item, and for every item whether it  *)
(* is rejected and what it changes.  Left out are which error a rejected   *)
(* item gives, and counts, sizes and usages of 2^31 and more: they would   *)
(* be negative here, where the code compares unsigned values.              *)
(***************************************************************************)
EXTENDS ShortItem, Sequences, FiniteSets, TLC

GlobalTags == {"usage_page", "logical_minimum", "logical_maximum",
               "physical_minimum", "physical_maximum", "unit_exponent", "unit",
               "report_size", "report_id", "report_count"}
StackTags == {"push", "pop"}
LocalTags == {"usage", "usage_minimum", "usage_maximum", "delimiter", "other_local"}
MainTags == {"collection", "end_collection", "input"}

Larger(a, b) == IF a > b THEN a ELSE b

\* DescriptorRequirements
NoNeeds == [fields |-> 0, stack_depth |-> 0, report_size |-> 0, usages |-> 0,
            data_bits |-> 0]

\* usage_minimum_size is 0 before a Usage Minimum.
NoLocals == [usage_count |-> 0, usage_minimum |-> 0, usage_minimum_size |-> 0,
             delimiter_depth |-> 0, delimiter_branch |-> 0]

NoGlobals == [value |-> [tag \in GlobalTags |-> 0], declared |-> {}]

\* current_top_level is 0 outside of every collection; the domain of parsed is
\* the IDs of the reports seen.
Parser0 == [globals |-> NoGlobals, global_stack |-> <<>>, locals |-> NoLocals,
            parsed |-> <<>>, collection_depth |-> 0, top_level_count |-> 0,
            current_top_level |-> 0, has_report_ids |-> FALSE,
            saw_main_before_report_id |-> FALSE, requirements |-> NoNeeds]

-----------------------------------------------------------------------------
(* Global items *)

GlobalRejects(p, item) ==
  LET value == UnsignedValue(item) IN
  \/ item.tag = "usage_page" /\ value \notin Word16
  \/ item.tag = "unit_exponent" /\ value \notin 0..15
  \/ item.tag = "unit" /\ ~UnitIsValid(value)
  \/ item.tag = "report_id" /\ (value \notin Word8 \ {0} \/ p.saw_main_before_report_id)
  \/ item.tag = "pop" /\ p.global_stack = <<>>

\* A maximum is signed if the minimum declared before it is negative.
GlobalValue(globals, item) ==
  IF \/ item.tag \in {"logical_minimum", "physical_minimum"}
     \/ item.tag = "logical_maximum" /\ globals.value["logical_minimum"] < 0
     \/ item.tag = "physical_maximum" /\ globals.value["physical_minimum"] < 0
  THEN SignedValue(item) ELSE UnsignedValue(item)

Declare(globals, item) ==
  [value |-> [globals.value EXCEPT ![item.tag] = GlobalValue(globals, item)],
   declared |-> globals.declared \union {item.tag}]

PushGlobals(p) ==
  [p EXCEPT !.global_stack = Append(@, p.globals),
            !.requirements.stack_depth = Larger(@, Len(p.global_stack) + 1)]

\* Mutant of PopGlobals: the Report ID is not restored.
PopKeepsReportId(p) ==
  [p EXCEPT !.globals = [p.global_stack[Len(p.global_stack)] EXCEPT
                           !.value["report_id"] = p.globals.value["report_id"]],
            !.global_stack = SubSeq(@, 1, Len(@) - 1)]

PopGlobals(p) ==
  [p EXCEPT !.globals = p.global_stack[Len(p.global_stack)],
            !.global_stack = SubSeq(@, 1, Len(@) - 1)]

GlobalItem(p, item) ==
  CASE item.tag = "push" -> PushGlobals(p)
    [] item.tag = "pop" -> PopGlobals(p)
    [] item.tag = "report_id" ->
         [p EXCEPT !.globals = Declare(@, item), !.has_report_ids = TRUE]
    [] item.tag = "report_size" ->
         [p EXCEPT !.globals = Declare(@, item),
                   !.requirements.report_size = Larger(@, UnsignedValue(item))]
    [] item.tag = "report_count" ->
         [p EXCEPT !.globals = Declare(@, item),
                   !.requirements.usages = Larger(@, UnsignedValue(item))]
    [] OTHER -> [p EXCEPT !.globals = Declare(@, item)]

-----------------------------------------------------------------------------
(* Local items; of the sets of a delimiter only the first branch counts *)

LocalRejects(p, item) ==
  LET value == UnsignedValue(item)
      locals == p.locals
  IN \/ /\ item.tag = "delimiter"
        /\ value # IF locals.delimiter_depth = 0 THEN 1 ELSE 0
     \/ /\ item.tag = "usage_maximum" /\ locals.delimiter_branch <= 1
        /\ \/ locals.usage_minimum_size = 4 /\ item.bytes # 4
           \/ value = -1 \* UINT32_MAX
           \/ ~UnsignedLE(locals.usage_minimum, value)

CountUsages(p, count) ==
  [p EXCEPT !.locals.usage_count = @ + count,
            !.requirements.usages = Larger(@, p.locals.usage_count + count)]

LocalItem(p, item) ==
  LET value == UnsignedValue(item) IN
  IF p.locals.delimiter_branch > 1 /\ item.tag # "delimiter" THEN p ELSE
  CASE item.tag = "delimiter" ->
         [p EXCEPT !.locals.delimiter_depth = value,
                   !.locals.delimiter_branch = @ + value]
    [] item.tag = "usage" -> CountUsages(p, 1)
    [] item.tag = "usage_minimum" ->
         [p EXCEPT !.locals.usage_minimum = value,
                   !.locals.usage_minimum_size = item.bytes]
    [] item.tag = "usage_maximum" ->
         CountUsages(p, value - p.locals.usage_minimum + 1)
    [] OTHER -> p

-----------------------------------------------------------------------------
(* Main items *)

Flag(flags, bit) == (flags \div bit) % 2 = 1
Constant(flags) == Flag(flags, 1)
Variable(flags) == Flag(flags, 2)
BufferedBytes(flags) == Flag(flags, 256)
DefinedFlags(flags) == flags \in 0..2 * Byte - 1 /\ ~Flag(flags, 128)

ReportBits(p, id) == IF id \in DOMAIN p.parsed THEN p.parsed[id].bits ELSE 0

\* input_item
InputRejects(p, item) ==
  LET flags == UnsignedValue(item)
      value == p.globals.value
      declared == p.globals.declared
      bits == ReportBits(p, value["report_id"])
  IN \/ p.collection_depth = 0 \/ value["report_size"] \notin 1..32
     \/ value["report_count"] = 0
     \/ p.has_report_ids /\ value["report_id"] = 0
     \/ ~DefinedFlags(flags)
     \/ /\ value["unit"] # 0
        /\ ~({"logical_minimum", "logical_maximum", "physical_minimum",
              "physical_maximum", "unit_exponent"} \subseteq declared)
     \/ ~RawRangeIsOrdered(value["logical_minimum"], value["logical_maximum"])
     \/ ~Variable(flags) /\ p.locals.delimiter_branch # 0
     \/ /\ ~Constant(flags)
        /\ \/ ~({"usage_page", "logical_minimum", "logical_maximum"} \subseteq declared)
           \/ p.locals.usage_count = 0
           \/ ~RawValueFits(value["logical_minimum"], value["logical_maximum"],
                            value["report_size"])
     \/ BufferedBytes(flags) /\ bits % 8 # 0
     \/ /\ value["report_id"] \in DOMAIN p.parsed
        /\ p.parsed[value["report_id"]].top_level # p.current_top_level
     \/ ~FieldSpanIsValid(bits, value["report_size"], value["report_count"])

MainRejects(p, item) ==
  LET value == UnsignedValue(item) IN
  \/ p.locals.delimiter_depth # 0
  \/ /\ item.tag = "collection"
     /\ \/ value \notin Word8 \/ (value > 6 /\ value < 128)
        \/ p.locals.usage_count = 0
        \/ value = 1 /\ p.locals.delimiter_branch # 0
        \/ p.collection_depth = 0 /\ value # 1
  \/ item.tag = "end_collection" /\ p.collection_depth = 0
  \/ item.tag = "input" /\ InputRejects(p, item)

\* The report an Input item extends.
Extended(p) ==
  LET value == p.globals.value
      id == value["report_id"]
      fields == IF id \in DOMAIN p.parsed THEN p.parsed[id].fields ELSE 0
  IN [bits |-> ReportBits(p, id) + value["report_size"] * value["report_count"],
      fields |-> fields + (IF p.locals.usage_count # 0 THEN 1 ELSE 0),
      top_level |-> p.current_top_level]

InputItem(p) ==
  LET id == p.globals.value["report_id"]
      grown == Extended(p)
  IN [p EXCEPT !.parsed = [i \in DOMAIN @ \union {id} |-> IF i = id THEN grown ELSE @[i]],
               !.saw_main_before_report_id = @ \/ ~p.has_report_ids,
               !.requirements.fields = Larger(@, grown.fields),
               !.requirements.data_bits = Larger(@, grown.bits)]

OpenCollection(p) ==
  IF p.collection_depth = 0
  THEN [p EXCEPT !.collection_depth = 1, !.top_level_count = @ + 1,
                 !.current_top_level = p.top_level_count + 1]
  ELSE [p EXCEPT !.collection_depth = @ + 1]

CloseCollection(p) ==
  [p EXCEPT !.collection_depth = @ - 1,
            !.current_top_level = IF p.collection_depth = 1 THEN 0 ELSE @]

\* Every Main item ends the Local environment.
MainItem(p, item) ==
  LET next == CASE item.tag = "collection" -> OpenCollection(p)
                [] item.tag = "end_collection" -> CloseCollection(p)
                [] item.tag = "input" -> InputItem(p)
  IN [next EXCEPT !.locals = NoLocals,
                  !.requirements.usages = Larger(@, p.locals.usage_count)]

-----------------------------------------------------------------------------
\* Long items, reserved types and tags, Output and Feature are in no tag set.
Rejects(p, item) ==
  CASE item.tag \in GlobalTags \union StackTags -> GlobalRejects(p, item)
    [] item.tag \in LocalTags -> LocalRejects(p, item)
    [] item.tag \in MainTags -> MainRejects(p, item)
    [] OTHER -> TRUE

After(p, item) ==
  CASE item.tag \in GlobalTags \union StackTags -> GlobalItem(p, item)
    [] item.tag \in LocalTags -> LocalItem(p, item)
    [] item.tag \in MainTags -> MainItem(p, item)

WireLength(p, id) ==
  ((p.parsed[id].bits + 7) \div 8) + (IF p.has_report_ids THEN 1 ELSE 0)

\* The table match_report_table wants, its entries having distinct identities.
Reports(p) ==
  {[report_id |-> id, has_report_id |-> p.has_report_ids,
    wire_length |-> WireLength(p, id)] : id \in DOMAIN p.parsed}

\* The end of validate_raw.
Accepts(p, reports) ==
  /\ p.collection_depth = 0 /\ p.global_stack = <<>>
  /\ p.locals.delimiter_depth = 0
  /\ p.top_level_count # 0
  /\ reports # {} \* validate_report_table
  /\ reports = Reports(p)
===============================================================================
