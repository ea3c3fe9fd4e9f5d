----------------------------- MODULE RawDescriptor -----------------------------
(***************************************************************************)
(* aoahid_spec_create_raw: the application hands over a descriptor, which  *)
(* validate_raw (src/hid/validator.cpp) reads item by item.  The reference *)
(* definitions at the end look at the descriptor as a whole instead.       *)
(***************************************************************************)
EXTENDS RawParser, SequencesExt

CONSTANTS
  Prefix,   \* the items every descriptor starts with
  Blocks,   \* the sequences of items it is made of
  MaxItems  \* bound: the number of its items

VARIABLES
  descriptor, \* the items read
  parser,     \* RawParser
  rejected    \* an item was rejected

vars == <<descriptor, parser, rejected>>

\* The parser stops at the first item it rejects.
Reads(state, item) ==
  IF state.rejected \/ Rejects(state.parser, item)
  THEN [state EXCEPT !.rejected = TRUE]
  ELSE [state EXCEPT !.parser = After(@, item)]

ReadAll(p, items) ==
  FoldLeft(Reads, [parser |-> p, rejected |-> FALSE], items)

Init ==
  LET state == ReadAll(Parser0, Prefix) IN
  /\ descriptor = Prefix
  /\ parser = state.parser /\ rejected = state.rejected

ReadBlock(block) ==
  LET state == ReadAll(parser, block) IN
  /\ ~rejected
  /\ Len(descriptor) + Len(block) <= MaxItems
  /\ rejected' = state.rejected
  /\ IF state.rejected THEN UNCHANGED <<descriptor, parser>>
     ELSE descriptor' = descriptor \o block /\ parser' = state.parser

Next == \E block \in Blocks : ReadBlock(block)

Spec == Init /\ [][Next]_vars

-----------------------------------------------------------------------------
(* Reference definitions *)

Tag(k) == descriptor[k].tag

\* The number of items with one of the tags, less those with the other.
Balance(from, to, up, down) ==
  Cardinality({k \in from..to : Tag(k) = up})
  - Cardinality({k \in from..to : Tag(k) = down})

\* A Global item counts until a Pop restores what a Push before it saved.
InForce(tag, k) ==
  LET setters == {j \in 1..k - 1 :
                    /\ Tag(j) = tag
                    /\ \A m \in j..k - 1 : Balance(j, m, "push", "pop") >= 0}
  IN  IF setters = {} THEN 0
      ELSE UnsignedValue(descriptor[CHOOSE j \in setters : \A m \in setters : m <= j])

Inputs == {k \in DOMAIN descriptor : Tag(k) = "input"}
IdOf(k) == InForce("report_id", k)
BitsOf(k) == InForce("report_size", k) * InForce("report_count", k)

\* Where the fields of an Input item start in their report.
Start(k) == MapThenSumSet(BitsOf, {j \in Inputs : j < k /\ IdOf(j) = IdOf(k)})

\* The last collection before k that is in no other.
TopLevelOf(k) ==
  LET tops == {j \in 1..k - 1 : Tag(j) = "collection"
                                /\ Balance(1, j - 1, "collection", "end_collection") = 0}
  IN  CHOOSE j \in tops : \A m \in tops : m <= j

HasIds == \E k \in DOMAIN descriptor : Tag(k) = "report_id"

ReportTable ==
  {[report_id |-> id, has_report_id |-> HasIds,
    wire_length |->
      LET bits == MapThenSumSet(BitsOf, {k \in Inputs : IdOf(k) = id})
      IN  (bits \div 8) + (IF bits % 8 = 0 THEN 0 ELSE 1) + (IF HasIds THEN 1 ELSE 0)]
   : id \in {IdOf(k) : k \in Inputs}}

FirstByte(bit) == bit \div 8

(* A descriptor validate_raw accepts means what the library takes it for,   *)
(* whatever the nesting of collections, Push, Pop and Report IDs: the table *)
(* of reports it is matched against is the true one, no report crosses two  *)
(* top-level collections, Report IDs are used by every report or by none,   *)
(* and no field touches more than four bytes (LIMITS.md, "Field span"),     *)
(* although the parser looks at eight fields of an Input item at most.      *)
AcceptedIsTrue ==
  (~rejected /\ Accepts(parser, Reports(parser))) =>
    /\ Reports(parser) = ReportTable
    /\ \A k, j \in Inputs : IdOf(k) = IdOf(j) => TopLevelOf(k) = TopLevelOf(j)
    /\ HasIds => \A k \in Inputs : IdOf(k) # 0
    /\ \A k \in Inputs :
         LET size == InForce("report_size", k) IN
         \A field \in 0..InForce("report_count", k) - 1 :
           LET first == Start(k) + field * size
           IN  FirstByte(first + size - 1) - FirstByte(first) < 4
===============================================================================
