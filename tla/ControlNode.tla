------------------------------ MODULE ControlNode ------------------------------
(***************************************************************************)
(* The Nodes whose report is the whole of their state: Toggle, Gamepad and *)
(* Battery (src/profiles/state.cpp), and the Raw Node, which has none.  A  *)
(* control with an edge guard keeps its change until a report may have     *)
(* carried it; axes and the battery strength have no guard.                *)
(*                                                                         *)
(* External: the target decodes a report with the logical ranges of the    *)
(* descriptor, a value outside of them being no value.                     *)
(***************************************************************************)
EXTENDS ReportFlight, FiniteSets

CONSTANTS
  AllowedUsages,   \* ConsumerConfig::allowed_usages
  NoUsage,         \* nothing is pressed
  Buttons,         \* the buttons of a gamepad
  AxisValues,      \* the values of an axis, 0 being neutral
  StrengthMin, StrengthMax, StrengthBits, \* the battery's field
  RawReports       \* byte strings the report table of a raw Spec accepts

\* The two gamepads differ in dpad_representation.
Kinds == {"toggle", "gamepad_hat", "gamepad_buttons", "battery", "raw"}
Strengths == StrengthMin..StrengthMax

ControlAssumption ==
  /\ NoUsage \notin AllowedUsages
  /\ 0 \in AxisValues
  /\ StrengthMin \in Nat /\ StrengthMax \in Nat /\ StrengthBits \in Nat
  /\ StrengthMin < StrengthMax
  /\ \E v \in 0..(2^StrengthBits - 1) : v \notin Strengths \* has_null_encoding

VARIABLES
  kind,    \* aoahid_spec::kind and the D-pad's representation
  state,   \* aoahid_node::state, the part of this kind
  edges,   \* the guarded controls with a pending transition
  report,  \* the report in flight
  target,  \* external: what the target decoded last
  asked,   \* history: what the application asked for, in the target's terms
  certain  \* history: the last report neither failed nor was dropped

vars == <<flightVars, kind, state, edges, report, target, asked, certain>>

Directions == {"up", "right", "down", "left"}
NoHat == [has |-> FALSE, value |-> 0]
NoReport == [usages |-> {}]
Gamepad == kind \in {"gamepad_hat", "gamepad_buttons"}
HatSwitch == kind = "gamepad_hat"

-----------------------------------------------------------------------------
(* The D-pad *)

\* The eight positions of a hat switch.
Clockwise(held) ==
  CASE held = {"up"} -> 0 [] held = {"up", "right"} -> 1
    [] held = {"right"} -> 2 [] held = {"down", "right"} -> 3
    [] held = {"down"} -> 4 [] held = {"down", "left"} -> 5
    [] held = {"left"} -> 6 [] held = {"up", "left"} -> 7

Bit(held, direction, weight) == IF direction \in held THEN weight ELSE 0
Bits(held) == Bit(held, "up", 1) + Bit(held, "down", 2)
              + Bit(held, "right", 4) + Bit(held, "left", 8)

Encodes(held) ==
  ~HatSwitch \/ ~({"up", "down"} \subseteq held \/ {"left", "right"} \subseteq held)

Hat(held) ==
  [has |-> held # {},
   value |-> IF HatSwitch /\ held # {} THEN Clockwise(held) ELSE Bits(held)]

\* Mutant of HatNull: the highest value, also when the range includes it.
HatNullHighest(min, max, bits) == 2^bits - 1

\* hat_null of an unsigned field: the lowest value below the range, else the
\* highest above it.
HatNull(min, max, bits) == IF 0 < min THEN 0 ELSE 2^bits - 1

-----------------------------------------------------------------------------
Neutral(k) == CASE k = "toggle" -> [usage |-> NoUsage]
                [] k = "battery" -> [has |-> FALSE, strength |-> 0]
                [] k = "raw" -> NoReport
                [] OTHER -> [buttons |-> {}, axis |-> 0, hat |-> NoHat]

\* What a target shows of a Node at rest.
Rest(k) == IF k \in {"toggle", "battery", "raw"} THEN {}
           ELSE [buttons |-> {}, axis |-> 0, dpad |-> {}]

Init ==
  /\ FlightInit
  /\ kind \in Kinds
  /\ state = Neutral(kind) /\ edges = {} /\ report = NoReport
  /\ target = Rest(kind) /\ asked = Rest(kind)
  /\ certain = TRUE

\* The edge guard.
Guarded(control, changed) ==
  /\ changed => control \notin edges
  /\ edges' = IF changed THEN edges \union {control} ELSE edges

\* aoahid_toggle; releasing names the Usage that is pressed, or none.
Toggle(usage) ==
  /\ kind = "toggle" /\ Usable
  /\ Guarded("usage", state.usage # usage)
  /\ state' = [usage |-> usage]
  /\ asked' = {usage} \ {NoUsage}
  /\ Marks(state.usage # usage)
  /\ UNCHANGED <<kind, report, target, certain>>

\* aoahid_gamepad_button
GamepadButton(button) ==
  /\ Gamepad /\ Usable
  /\ Guarded(button, TRUE)
  /\ state' = [state EXCEPT !.buttons = IF button \in @ THEN @ \ {button}
                                        ELSE @ \union {button}]
  /\ asked' = [asked EXCEPT !.buttons = state'.buttons]
  /\ Marks(TRUE)
  /\ UNCHANGED <<kind, report, target, certain>>

\* aoahid_gamepad_set_axis
GamepadAxis(value) ==
  /\ Gamepad /\ Usable
  /\ state' = [state EXCEPT !.axis = value]
  /\ asked' = [asked EXCEPT !.axis = value]
  /\ Marks(state.axis # value)
  /\ UNCHANGED <<kind, edges, report, target, certain>>

\* aoahid_dpad
Dpad(held) ==
  /\ Gamepad /\ Usable
  /\ Encodes(held)
  /\ Guarded("hat", state.hat # Hat(held))
  /\ state' = [state EXCEPT !.hat = Hat(held)]
  /\ asked' = [asked EXCEPT !.dpad = held]
  /\ Marks(state.hat # Hat(held))
  /\ UNCHANGED <<kind, report, target, certain>>

\* aoahid_battery_update
Battery(has, strength) ==
  LET next == [has |-> has, strength |-> IF has THEN strength ELSE 0] IN
  /\ kind = "battery" /\ Usable
  /\ state' = next
  /\ asked' = IF has THEN {strength} ELSE {}
  /\ Marks(state # next)
  /\ UNCHANGED <<kind, edges, report, target, certain>>

-----------------------------------------------------------------------------
\* serialize_node
Serialize ==
  CASE kind = "toggle" -> [usages |-> AllowedUsages \intersect {state.usage}]
    [] kind = "battery" ->
         [strength |-> IF state.has THEN state.strength
                       ELSE HatNull(StrengthMin, StrengthMax, StrengthBits)]
    [] OTHER ->
         [buttons |-> state.buttons, axis |-> state.axis,
          dpad |-> IF ~HatSwitch \/ state.hat.has THEN state.hat.value
                   ELSE HatNull(0, 7, 4)]

\* The target reads the fields back.
Held(dpad) ==
  IF HatSwitch
  THEN IF dpad \in 0..7 THEN CHOOSE h \in SUBSET Directions :
                               /\ h # {} /\ Encodes(h) /\ Clockwise(h) = dpad
       ELSE {}
  ELSE {d \in Directions :
          LET weight == CASE d = "up" -> 1 [] d = "down" -> 2
                          [] d = "right" -> 4 [] d = "left" -> 8
          IN  (dpad \div weight) % 2 = 1}

Decode(r) ==
  CASE kind = "toggle" -> r.usages
    [] kind = "raw" -> {r.bytes}
    [] kind = "battery" -> {r.strength} \intersect Strengths
    [] OTHER -> [buttons |-> r.buttons, axis |-> r.axis, dpad |-> Held(r.dpad)]

\* has_non_neutral_state
NonNeutral == kind # "battery" /\ state # Neutral(kind)

\* aoahid_node_submit refuses a Raw Node.
Submit ==
  /\ kind # "raw"
  /\ Submits(NonNeutral)
  /\ report' = Serialize
  /\ UNCHANGED <<kind, state, edges, target, asked, certain>>

\* aoahid_raw_submit: nothing is kept but the mark that it was not delivered.
RawSubmit(bytes) ==
  /\ kind = "raw" /\ Usable /\ completion_result = "OK"
  /\ report' = [bytes |-> bytes]
  /\ asked' = {bytes}
  /\ dirty' = TRUE /\ transfer_inflight' = TRUE
  /\ submitted_non_neutral' = FALSE
  /\ stage' = "open"
  /\ UNCHANGED <<completion_result, emitted_non_neutral, applied, kind, state,
                 edges, target, certain>>

Apply ==
  /\ TargetApplies
  /\ target' = Decode(report)
  /\ UNCHANGED <<kind, state, edges, report, asked, certain>>

\* transfer_complete
Complete(result) ==
  /\ Completes(result)
  /\ dirty' = ~MayHaveApplied(result)
  /\ edges' = IF MayHaveApplied(result) THEN {} ELSE edges
  /\ report' = NoReport
  /\ certain' = CASE result = "OK" -> TRUE [] result = "IO" -> FALSE
                  [] OTHER -> certain
  /\ UNCHANGED <<kind, state, target, asked>>

ReadOutcome ==
  ReadsOutcome /\ UNCHANGED <<kind, state, edges, report, target, asked, certain>>

\* make_neutral.  A battery and a Raw Node have no neutral state; what was not
\* delivered is dropped.
Close ==
  /\ kind \notin {"battery", "raw"}
  /\ Neutralizes(state # Neutral(kind))
  /\ state' = Neutral(kind) /\ asked' = Rest(kind)
  /\ UNCHANGED <<kind, edges, report, target, certain>>

CloseStateless ==
  /\ kind \in {"battery", "raw"} /\ Usable /\ completion_result = "OK"
  /\ dirty' = FALSE
  /\ stage' = "neutral"
  /\ certain' = (certain /\ ~dirty)
  /\ UNCHANGED <<transfer_inflight, completion_result, emitted_non_neutral,
                 submitted_non_neutral, applied, kind, state, edges, report,
                 target, asked>>

Unregister ==
  Unregisters /\ UNCHANGED <<kind, state, edges, report, target, asked, certain>>

Next ==
  \/ \E usage \in AllowedUsages \union {NoUsage} : Toggle(usage)
  \/ \E button \in Buttons : GamepadButton(button)
  \/ \E value \in AxisValues : GamepadAxis(value)
  \/ \E held \in SUBSET Directions : Dpad(held)
  \/ \E has \in BOOLEAN, strength \in Strengths : Battery(has, strength)
  \/ \E bytes \in RawReports : RawSubmit(bytes)
  \/ Submit \/ Apply
  \/ \E result \in Results : Complete(result)
  \/ ReadOutcome
  \/ Close \/ CloseStateless \/ Unregister

Spec == Init /\ [][Next]_vars

-----------------------------------------------------------------------------
(* A Node with nothing to send shows the target what the application asked  *)
(* for last, when the last report is known to have arrived: through edge    *)
(* guards, refusals that keep the state, reports that overwrite each other, *)
(* the hat and bit encodings of the D-pad, and the null values, which must  *)
(* not be read as a direction or a strength.  Of a Raw Node it says that    *)
(* the mark of a stalled report stays until another one is delivered.       *)
TargetShowsState == (certain /\ ~dirty) => target = asked
===============================================================================
