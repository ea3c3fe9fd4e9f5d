----------------------------- MODULE ProfileSpecs ------------------------------
(***************************************************************************)
(* What the generated profiles accept and the builder calls each of them   *)
(* makes (src/profiles/spec.cpp).  Options are one record per profile; a   *)
(* field has a minimum, a maximum, a width and physical properties, an     *)
(* optional one an enable flag too.  Evidence strings, reserved members    *)
(* and the choice of the error code of refused options are left out.       *)
(***************************************************************************)
EXTENDS DescriptorBuilder, ReportBits

NoField == [minimum |-> 0, maximum |-> 0, width |-> 0, physical |-> NoPhysical]

\* validate_report_id
ReportIdIsValid(id) ==
  id.enabled \in {0, 1} /\ id.value \in Word8 /\ (id.enabled = 1 <=> id.value # 0)

\* physical_units_match
PhysicalUnitsMatch(a, b) ==
  /\ a.enabled = b.enabled
  /\ a.enabled = 1 => a.unit = b.unit /\ a.exponent = b.exponent

\* validate_field
FieldIsValid(field) ==
  PhysicalIsValid(field.physical) /\ ValueFits(field.minimum, field.maximum, field.width)

\* A disabled field is canonical zero.
OptionalIsValid(option) ==
  \/ option.enable = 0 /\ option.field = NoField
  \/ option.enable = 1 /\ FieldIsValid(option.field)

HasZero(field) == field.minimum <= 0 /\ field.maximum >= 0
HasBothSigns(field) == field.minimum < 0 /\ field.maximum > 0

Enabled(option) == option.enable = 1

-----------------------------------------------------------------------------
(* Builder calls *)

Collection(page, usage, kind) ==
  [op |-> "begin", page |-> page, usage |-> usage, collection |-> kind]
Application(page, usage) == Collection(page, usage, 1)
Physical(page, usage) == Collection(page, usage, 0)
Logical(page, usage) == Collection(page, usage, 2)
End == [op |-> "end"]
Id(option) == [op |-> "report_id", enabled |-> option.report_id.enabled,
               value |-> option.report_id.value]
Pad == [op |-> "pad"]
UsageRange(page, first, last, semantic) ==
  [op |-> "range", page |-> page, first |-> first, last |-> last, semantic |-> semantic]

\* kInputVariable, kInputRelative, kInputNoPreferred, kInputNullState
Absolute == 2
Relative == 2 + 4
NoPreferred == 2 + 32
NullState == 2 + 64

Var(page, usage, field, flags, semantic, instance) ==
  [op |-> "variable", page |-> page, usage |-> usage, flags |-> flags,
   semantic |-> semantic, instance |-> instance, minimum |-> field.minimum,
   maximum |-> field.maximum, width |-> field.width, physical |-> field.physical]

BitField == [minimum |-> 0, maximum |-> 1, width |-> 1, physical |-> NoPhysical]

\* A call made only for an enabled field.
IfEnabled(option, call) == IF Enabled(option) THEN <<call>> ELSE <<>>

-----------------------------------------------------------------------------
(* Keyboard: modifiers 0xE0..0xE7 and a bitmap of usages *)

AcceptsKeyboard(o) ==
  /\ ReportIdIsValid(o.report_id)
  /\ o.usage_minimum >= 4 /\ o.usage_maximum >= o.usage_minimum
  /\ ~(o.usage_minimum <= 231 /\ o.usage_maximum >= 224)

EmitKeyboard(o) ==
  <<Application(1, 6), Id(o), UsageRange(7, 224, 231, "modifier"),
    UsageRange(7, o.usage_minimum, o.usage_maximum, "key_bitmap"), Pad, End>>

-----------------------------------------------------------------------------
(* Mouse *)

AcceptsMouse(o) ==
  /\ ReportIdIsValid(o.report_id)
  /\ FieldIsValid(o.x) /\ HasBothSigns(o.x) /\ FieldIsValid(o.y) /\ HasBothSigns(o.y)
  /\ o.button_count \in Word16 \ {0}
  /\ \A scroll \in {o.wheel, o.pan} :
       OptionalIsValid(scroll) /\ (Enabled(scroll) => HasBothSigns(scroll.field))

EmitMouse(o) ==
  <<Application(1, 2), Id(o), Physical(1, 1), UsageRange(9, 1, o.button_count, "buttons"), Pad,
    Var(1, 48, o.x, Relative, "x", 0), Var(1, 49, o.y, Relative, "y", 0), Pad>>
  \o IfEnabled(o.wheel, Var(1, 56, o.wheel.field, Relative, "wheel", 0)) \o <<Pad>>
  \o IfEnabled(o.pan, Var(12, 568, o.pan.field, Relative, "pan", 0)) \o <<Pad, End, End>>

-----------------------------------------------------------------------------
(* Usage controls *)

\* usage_semantic_flags: the semantics press and release can express.
SemanticFlags ==
  [selector_bitmap |-> Absolute, momentary |-> Absolute, retrigger |-> Absolute,
   toggle |-> Relative, one_shot |-> Relative, maintained |-> NoPreferred]

CameraPage == 144

AcceptsToggle(o) ==
  LET usages == ToSet(o.usages) IN
  /\ ReportIdIsValid(o.report_id)
  /\ o.application_page # 0 /\ o.application_usage # 0 /\ o.field_page # 0
  /\ usages # {} /\ 0 \notin usages /\ IsInjective(o.usages)
  /\ ~(o.application_page = o.field_page /\ o.application_usage \in usages)
  /\ ToSet(o.semantics) \subseteq DOMAIN SemanticFlags
  /\ o.field_page = CameraPage =>
       usages \subseteq {32, 33} /\ ToSet(o.semantics) = {"one_shot"}

EmitToggle(o) ==
  <<Application(o.application_page, o.application_usage), Id(o)>>
  \o [k \in DOMAIN o.usages |->
        Var(o.field_page, o.usages[k], BitField, SemanticFlags[o.semantics[k]],
            "consumer_usage", k - 1)]
  \o <<Pad, End>>

-----------------------------------------------------------------------------
(* Gamepad *)

\* controller_axis_usage
AxisUsage ==
  [x |-> <<1, 48>>, y |-> <<1, 49>>, z |-> <<1, 50>>, rx |-> <<1, 51>>, ry |-> <<1, 52>>,
   rz |-> <<1, 53>>, slider |-> <<1, 54>>, dial |-> <<1, 55>>, wheel |-> <<1, 56>>,
   rudder |-> <<2, 186>>, throttle |-> <<2, 187>>, accelerator |-> <<2, 196>>,
   brake |-> <<2, 197>>, steering |-> <<2, 200>>]

\* controller_axis_domain_matches_usage
AxisDomainMatches(axis) ==
  /\ axis.role \in {"accelerator", "brake", "throttle"} =>
       axis.field.minimum = 0 /\ axis.field.maximum > 0 /\ axis.neutral = 0
  /\ axis.role \in {"steering", "rudder"} => HasBothSigns(axis.field) /\ axis.neutral = 0

AcceptsAxis(axis) ==
  /\ axis.role \in DOMAIN AxisUsage
  /\ <<axis.page, axis.usage>> = AxisUsage[axis.role]
  /\ FieldIsValid(axis.field)
  /\ axis.neutral \in axis.field.minimum..axis.field.maximum
  /\ AxisDomainMatches(axis)

AcceptsGamepad(o) ==
  LET roles == [k \in DOMAIN o.axes |-> o.axes[k].role] IN
  /\ ReportIdIsValid(o.report_id)
  /\ Len(o.axes) >= 2 /\ IsInjective(roles) /\ {"x", "y"} \subseteq ToSet(roles)
  /\ \A axis \in ToSet(o.axes) : AcceptsAxis(axis)
  /\ o.button_count \in Word16 \ {0} /\ o.button_minimum # 0
  /\ o.button_minimum + o.button_count - 1 \in Word16
  /\ o.dpad \in {"none", "hat", "buttons"}
  /\ o.dpad = "buttons" => o.button_count + 3 \in Word16
  /\ IF o.dpad = "hat"
     THEN o.hat = [minimum |-> 0, maximum |-> 7, width |-> 4] /\ HasNullEncoding(o.hat)
     ELSE o.hat = [minimum |-> 0, maximum |-> 0, width |-> 0]

\* kAndroidHatDegrees
HatDegrees == [enabled |-> 1, minimum |-> 0, maximum |-> 315, exponent |-> 0, unit |-> 20]

HatField(hat) == [minimum |-> hat.minimum, maximum |-> hat.maximum, width |-> hat.width,
                  physical |-> HatDegrees]

DpadCalls(o) ==
  CASE o.dpad = "none" -> <<>>
    [] o.dpad = "hat" -> <<Var(1, 57, HatField(o.hat), NullState, "hat", 0)>>
    [] o.dpad = "buttons" ->
         [k \in 1..4 |-> Var(1, 143 + k, BitField, NoPreferred, "buttons",
                             o.button_count + k - 1)]

EmitGamepad(o) ==
  <<Application(1, 5), Id(o),
    UsageRange(9, o.button_minimum, o.button_minimum + o.button_count - 1, "buttons"), Pad>>
  \o DpadCalls(o) \o <<Pad>>
  \o FlattenSeq([k \in DOMAIN o.axes |->
       <<Var(o.axes[k].page, o.axes[k].usage, o.axes[k].field, Absolute,
             "gamepad_axis", k - 1), Pad>>])
  \o <<Pad, End>>

-----------------------------------------------------------------------------
(* Touchscreen and touchpad *)

AcceptsTouch(o) ==
  /\ ReportIdIsValid(o.report_id)
  /\ \A field \in {o.x, o.y, o.contact_identifier, o.contact_count} : FieldIsValid(field)
  /\ HasZero(o.x) /\ HasZero(o.y)
  /\ o.maximum_contacts \in 1..16 /\ o.contacts_per_report \in 1..o.maximum_contacts
  /\ o.multi_packet \in {0, 1} /\ o.maximum_feature \in {0, 1}
  /\ o.contact_count.minimum <= 0 /\ o.contact_count.maximum >= o.maximum_contacts
  /\ HasZero(o.contact_identifier)
  /\ o.contact_identifier.maximum >= o.maximum_contacts - 1
  /\ o.multi_packet = 0 => o.contacts_per_report = o.maximum_contacts
  /\ \A option \in {o.pressure, o.azimuth, o.width, o.height, o.scan_time} :
       OptionalIsValid(option)
  /\ \A option \in {o.pressure, o.azimuth, o.scan_time} :
       Enabled(option) => option.field.minimum = 0 /\ option.field.maximum >= 1
  /\ Enabled(o.width) =>
       HasZero(o.width.field) /\ PhysicalUnitsMatch(o.width.field.physical, o.x.physical)
  /\ Enabled(o.height) =>
       HasZero(o.height.field) /\ PhysicalUnitsMatch(o.height.field.physical, o.y.physical)
  /\ o.scan_time_unit = o.scan_time.enable
  /\ Enabled(o.scan_time) => o.scan_time.field.physical = NoPhysical
  /\ o.button_count \in Word16

EmitContact(o, contact) ==
  <<Logical(13, 34), Var(13, 66, BitField, Absolute, "tip", contact), Pad,
    Var(13, 81, o.contact_identifier, Absolute, "contact_id", contact),
    Var(1, 48, o.x, Absolute, "x", contact), Var(1, 49, o.y, Absolute, "y", contact), Pad>>
  \o IfEnabled(o.pressure, Var(13, 48, o.pressure.field, Absolute, "pressure", contact))
  \o <<Pad>>
  \o IfEnabled(o.width, Var(13, 72, o.width.field, Absolute, "width", contact)) \o <<Pad>>
  \o IfEnabled(o.height, Var(13, 73, o.height.field, Absolute, "height", contact)) \o <<Pad>>
  \o IfEnabled(o.azimuth, Var(13, 63, o.azimuth.field, Absolute, "azimuth", contact))
  \o <<End>>

EmitTouch(o) ==
  <<Application(13, IF o.profile = "touchscreen" THEN 4 ELSE 5), Id(o)>>
  \o (IF o.maximum_feature = 1
      THEN <<[op |-> "feature", page |-> 13, usage |-> 85, minimum |-> 0,
              maximum |-> o.maximum_contacts, width |-> o.contact_count.width]>>
      ELSE <<>>)
  \o FlattenSeq([k \in 1..o.contacts_per_report |-> EmitContact(o, k - 1)]) \o <<Pad>>
  \o IfEnabled(o.scan_time, Var(13, 86, o.scan_time.field, Absolute, "scan_time", 0))
  \o <<Pad, Var(13, 84, o.contact_count, Absolute, "contact_count", 0)>>
  \o (IF o.button_count = 0 THEN <<>> ELSE <<UsageRange(9, 1, o.button_count, "buttons")>>)
  \o <<Pad, End>>

-----------------------------------------------------------------------------
(* Pen *)

AcceptsPen(o) ==
  /\ ReportIdIsValid(o.report_id)
  /\ FieldIsValid(o.x) /\ HasZero(o.x) /\ FieldIsValid(o.y) /\ HasZero(o.y)
  /\ o.eraser \in {0, 1} /\ o.hover \in {0, 1}
  /\ o.mode \in {"direct_screen", "indirect_tablet"}
  /\ \A option \in {o.pressure, o.tilt_x, o.tilt_y, o.twist} : OptionalIsValid(option)
  /\ o.tilt_x.enable = o.tilt_y.enable \* one flag enables both
  /\ Enabled(o.pressure) => o.pressure.field.minimum = 0 /\ o.pressure.field.maximum >= 1
  /\ \A option \in {o.tilt_x, o.tilt_y, o.twist} : Enabled(option) => HasZero(option.field)
  /\ ToSet(o.barrels) \subseteq {68, 90} /\ IsInjective(o.barrels)

EmitPen(o) ==
  <<Application(13, IF o.mode = "direct_screen" THEN 2 ELSE 1), Id(o), Physical(13, 32)>>
  \o (IF o.eraser = 1 THEN <<Var(13, 60, BitField, Absolute, "eraser", 0)>> ELSE <<>>)
  \o <<Var(13, 66, BitField, Absolute, "tip", 0),
       Var(13, 50, BitField, Absolute, "in_range", 0)>>
  \o [k \in DOMAIN o.barrels |->
        Var(13, o.barrels[k], BitField, Absolute, "buttons", k - 1)]
  \o <<Pad, Var(1, 48, o.x, Absolute, "x", 0), Var(1, 49, o.y, Absolute, "y", 0), Pad>>
  \o IfEnabled(o.pressure, Var(13, 48, o.pressure.field, Absolute, "pressure", 0)) \o <<Pad>>
  \o IfEnabled(o.tilt_x, Var(13, 61, o.tilt_x.field, Absolute, "tilt_x", 0))
  \o IfEnabled(o.tilt_y, Var(13, 62, o.tilt_y.field, Absolute, "tilt_y", 0)) \o <<Pad>>
  \o IfEnabled(o.twist, Var(13, 65, o.twist.field, Absolute, "twist", 0))
  \o <<Pad, End, End>>

-----------------------------------------------------------------------------
(* Battery *)

AcceptsBattery(o) ==
  /\ ReportIdIsValid(o.report_id)
  /\ FieldIsValid(o.strength)
  /\ o.strength.minimum >= 0 /\ o.strength.maximum > o.strength.minimum
  /\ o.unknown \in {0, 1}
  /\ o.unknown = 1 => HasNullEncoding(o.strength)

EmitBattery(o) ==
  <<Application(6, 1), Id(o),
    Var(6, 32, o.strength, IF o.unknown = 1 THEN NullState ELSE Absolute,
        "battery_strength", 0), Pad, End>>

-----------------------------------------------------------------------------
AcceptsOptions(o) ==
  CASE o.profile = "keyboard" -> AcceptsKeyboard(o)
    [] o.profile = "mouse" -> AcceptsMouse(o)
    [] o.profile = "toggle" -> AcceptsToggle(o)
    [] o.profile = "gamepad" -> AcceptsGamepad(o)
    [] o.profile \in {"touchscreen", "touchpad"} -> AcceptsTouch(o)
    [] o.profile = "pen" -> AcceptsPen(o)
    [] o.profile = "battery" -> AcceptsBattery(o)

EmitCalls(o) ==
  CASE o.profile = "keyboard" -> EmitKeyboard(o)
    [] o.profile = "mouse" -> EmitMouse(o)
    [] o.profile = "toggle" -> EmitToggle(o)
    [] o.profile = "gamepad" -> EmitGamepad(o)
    [] o.profile \in {"touchscreen", "touchpad"} -> EmitTouch(o)
    [] o.profile = "pen" -> EmitPen(o)
    [] o.profile = "battery" -> EmitBattery(o)
-----------------------------------------------------------------------------
(* The types of the option structs; a 32-bit number may be any integer.     *)

PhysicalTypes == [enabled : Int, minimum : Int, maximum : Int, exponent : Int, unit : Int]
FieldTypes == [minimum : Int, maximum : Int, width : Int, physical : PhysicalTypes]
OptionalTypes == [enable : Int, field : FieldTypes]
IdTypes == [enabled : Int, value : Word8]
AxisTypes == [role : STRING, page : Word16, usage : Word16, field : FieldTypes, neutral : Int]

KeyboardTypes ==
  [profile : {"keyboard"}, report_id : IdTypes, usage_minimum : Word16, usage_maximum : Word16]

MouseTypes ==
  [profile : {"mouse"}, report_id : IdTypes, button_count : Int, x : FieldTypes,
   y : FieldTypes, wheel : OptionalTypes, pan : OptionalTypes]

\* One array holds both the usages and their semantics.
ToggleTypes ==
  {o \in [profile : {"toggle"}, report_id : IdTypes, application_page : Word16,
          application_usage : Word16, field_page : Word16, usages : Seq(Word16),
          semantics : Seq(STRING)] : Len(o.usages) = Len(o.semantics)}

GamepadTypes ==
  [profile : {"gamepad"}, report_id : IdTypes, button_minimum : Word16, button_count : Int,
   axes : Seq(AxisTypes), dpad : STRING, hat : [minimum : Int, maximum : Int, width : Int]]

TouchTypes ==
  [profile : {"touchscreen", "touchpad"}, report_id : IdTypes, x : FieldTypes, y : FieldTypes,
   maximum_contacts : Int, contacts_per_report : Int, multi_packet : Int,
   maximum_feature : Int, contact_identifier : FieldTypes, contact_count : FieldTypes,
   pressure : OptionalTypes, width : OptionalTypes, height : OptionalTypes,
   azimuth : OptionalTypes, scan_time : OptionalTypes, scan_time_unit : Int,
   button_count : Int]

PenTypes ==
  [profile : {"pen"}, report_id : IdTypes, mode : STRING, x : FieldTypes, y : FieldTypes,
   eraser : Int, hover : Int, barrels : Seq(Word16), pressure : OptionalTypes,
   tilt_x : OptionalTypes, tilt_y : OptionalTypes, twist : OptionalTypes]

BatteryTypes ==
  [profile : {"battery"}, report_id : IdTypes, strength : FieldTypes, unknown : Int]

OptionTypes ==
  KeyboardTypes \union MouseTypes \union ToggleTypes \union GamepadTypes
  \union TouchTypes \union PenTypes \union BatteryTypes
===============================================================================
