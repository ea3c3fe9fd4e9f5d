----------------------------- MODULE MCDescriptors ------------------------------
(***************************************************************************)
(* The two ways to a Spec, one of them chosen at the start of a behaviour. *)
(*                                                                         *)
(* The factories get options that vary the fields of every profile around  *)
(* the borders: widths that are no whole bytes, 32 bits, signs, physical   *)
(* extents, counts, and the options each profile must refuse.              *)
(***************************************************************************)
EXTENDS SpecFactory

CONSTANT Ways \* "factory" and "raw"

Field(low, high, bits) ==
  [minimum |-> low, maximum |-> high, width |-> bits, physical |-> NoPhysical]
WithUnit(field, low, high, exp, unit_code) ==
  [field EXCEPT !.physical = [enabled |-> 1, minimum |-> low, maximum |-> high,
                              exponent |-> exp, unit |-> unit_code]]

NoId == [enabled |-> 0, value |-> 0]
Ids == {NoId, [enabled |-> 1, value |-> 7], [enabled |-> 1, value |-> 0]}
GoodIds == {NoId, [enabled |-> 1, value |-> 7]}

S8 == Field(-127, 127, 8)
S3 == WithUnit(Field(-4, 3, 3), -40, 200, -2, 17)
S12 == Field(-1, 255, 12)
S32 == Field(SmallestInt, LargestInt, 32)
U1 == Field(0, 1, 1)
U5 == Field(0, 30, 5)
U16 == WithUnit(Field(0, 65535, 16), 0, 200, -2, 17)
U31 == Field(0, LargestInt, 31)
U32 == Field(0, LargestInt, 32)
Above == Field(1, 200, 8)
Wide == Field(-129, 127, 8)
BadUnit == WithUnit(S8, 0, 1, 0, 5)

Off == [enable |-> 0, field |-> NoField]
On(field) == [enable |-> 1, field |-> field]
Stale == [enable |-> 0, field |-> S8]

Keyboards ==
  {[profile |-> "keyboard", report_id |-> id, usage_minimum |-> range[1],
    usage_maximum |-> range[2]] :
     id \in Ids, range \in {<<4, 9>>, <<3, 9>>, <<9, 4>>, <<223, 224>>, <<230, 240>>,
                            <<232, 244>>, <<255, 260>>}}

Mouse == [profile |-> "mouse", report_id |-> NoId, button_count |-> 3, x |-> S8, y |-> S8,
          wheel |-> Off, pan |-> Off]
Mice ==
  {[Mouse EXCEPT !.x = x, !.y = y, !.report_id = id] :
     x, y \in {S8, S3, S12, S32, Above, Wide, BadUnit}, id \in GoodIds}
  \union {[Mouse EXCEPT !.x = S12, !.y = S12, !.wheel = wheel, !.pan = pan] :
            wheel, pan \in {Off, Stale, On(S8), On(S3), On(S32), On(U16)}}
  \union {[Mouse EXCEPT !.button_count = buttons] : buttons \in {0, 8, 11}}

Toggle == [profile |-> "toggle", report_id |-> NoId, application_page |-> 12,
           application_usage |-> 1, field_page |-> 12, usages |-> <<233, 568>>,
           semantics |-> <<"retrigger", "toggle">>]
Toggles ==
  {[Toggle EXCEPT !.usages = usages, !.semantics = semantics] :
     usages \in {<<233, 568>>, <<233, 233>>, <<1, 233>>, <<0, 1>>},
     semantics \in {<<"maintained", "one_shot">>, <<"linear", "momentary">>}}
  \union {[Toggle EXCEPT !.field_page = CameraPage, !.usages = <<usage>>,
                         !.semantics = <<semantic>>] :
            usage \in {32, 34}, semantic \in {"one_shot", "momentary"}}

Axis(role, field, neutral) ==
  [role |-> role, page |-> AxisUsage[role][1], usage |-> AxisUsage[role][2],
   field |-> field, neutral |-> neutral]
NoHat == [minimum |-> 0, maximum |-> 0, width |-> 0]
HatOf(width) == [minimum |-> 0, maximum |-> 7, width |-> width]
XY == <<Axis("x", S8, 0), Axis("y", S12, 0)>>
Gamepads ==
  {[profile |-> "gamepad", report_id |-> id, button_minimum |-> 1, button_count |-> buttons,
    axes |-> XY \o more, dpad |-> dpad[1], hat |-> dpad[2]] :
     id \in GoodIds, buttons \in {1, 5},
     more \in {<<>>, <<Axis("z", S32, 5)>>, <<Axis("throttle", U5, 0)>>,
               <<Axis("rudder", U5, 0)>>, <<Axis("rx", U5, 31)>>, <<Axis("x", U5, 0)>>,
               <<Axis("brake", U32, 0), Axis("steering", S3, 0)>>},
     dpad \in {<<"none", NoHat>>, <<"hat", HatOf(4)>>, <<"hat", HatOf(3)>>,
               <<"buttons", NoHat>>}}

Touch == [profile |-> "touchpad", report_id |-> NoId, x |-> U16, y |-> U16,
          maximum_contacts |-> 2, contacts_per_report |-> 2, multi_packet |-> 0,
          maximum_feature |-> 0, contact_identifier |-> Field(0, 1, 1),
          contact_count |-> Field(0, 2, 2), pressure |-> Off, width |-> Off, height |-> Off,
          azimuth |-> Off, scan_time |-> Off, scan_time_unit |-> 0, button_count |-> 0]
Touches ==
  {[Touch EXCEPT !.contact_identifier = id, !.contact_count = count,
                 !.maximum_feature = feature, !.contacts_per_report = per_report,
                 !.multi_packet = 1, !.report_id = report_id] :
     id \in {Field(0, 1, 1), Field(0, 0, 1), Field(-1, 6, 4)}, count \in {Field(0, 2, 2), Field(0, 1, 2)},
     feature \in {0, 1}, per_report \in {1, 2}, report_id \in GoodIds}
  \union {[Touch EXCEPT !.pressure = pressure, !.width = width, !.height = height,
                        !.azimuth = azimuth] :
            pressure \in {Off, On(U5), On(S8)}, width \in {Off, On(U16), On(U5)},
            height \in {Off, On(U16)}, azimuth \in {Off, On(U5), On(Above)}}
  \union {[Touch EXCEPT !.x = x, !.y = y, !.profile = "touchscreen",
                        !.scan_time = time, !.scan_time_unit = time.enable,
                        !.button_count = buttons] :
            x, y \in {U5, U31, Above}, time \in {Off, On(U16), On(U31)}, buttons \in {0, 3}}

Pen == [profile |-> "pen", report_id |-> NoId, mode |-> "direct_screen", x |-> U16,
        y |-> U16, eraser |-> 1, hover |-> 1, barrels |-> <<68>>, pressure |-> Off,
        tilt_x |-> Off, tilt_y |-> Off, twist |-> Off]
Pens ==
  {[Pen EXCEPT !.x = x, !.mode = mode, !.eraser = eraser, !.barrels = barrels] :
     x \in {U5, U16, U32, Above}, mode \in {"direct_screen", "indirect_tablet"},
     eraser \in {0, 1}, barrels \in {<<>>, <<68, 90>>, <<90, 90>>, <<66>>}}
  \union {[Pen EXCEPT !.report_id = [enabled |-> 1, value |-> 2], !.pressure = pressure,
                      !.tilt_x = tilt, !.tilt_y = tilt, !.twist = twist] :
            pressure \in {Off, On(U5), On(S8)},
            tilt \in {Off, On(S3), On(S12), On(S32), On(Above)},
            twist \in {Off, On(U31), On(S3)}}

Batteries ==
  {[profile |-> "battery", report_id |-> id, strength |-> strength, unknown |-> unknown] :
     id \in Ids, strength \in {U1, U5, Above, U31, U32, S8, Field(3, 3, 4), Field(1, 7, 3)},
     unknown \in {0, 1}}

AnyProfile == Keyboards \union Mice \union Toggles \union Gamepads \union Touches
              \union Pens \union Batteries
-----------------------------------------------------------------------------
(* Raw descriptors are made of blocks that nest collections, save and       *)
(* restore the Global state, change the report and place fields across byte *)
(* borders.                                                                 *)

One(tag, value) == <<UnsignedItem(tag, value)>>
Use == One("usage", 48)

Opened ==
  One("usage_page", 1)
  \o <<SignedItem("logical_minimum", 0), MaximumItem("logical_maximum", 1, 0)>>
  \o One("report_size", 7) \o One("report_count", 1)
  \o Use \o One("collection", 1)

SomeBlocks == {
  One("end_collection", 0) \o Use \o One("collection", 1),
  Use \o One("collection", 2),
  One("end_collection", 0),
  <<BareItem("push")>>,
  <<BareItem("pop")>>,
  One("report_id", 1),
  One("report_id", 2),
  One("report_size", 27) \o One("report_count", 9),
  One("report_size", 24) \o One("report_count", 9),
  Use \o One("input", 2),
  One("input", 1)}

VARIABLES
  way,                         \* where the descriptor comes from
  descriptor, parser, rejected \* RawDescriptor

Raw == INSTANCE RawDescriptor WITH
  Prefix <- Opened, Blocks <- SomeBlocks, MaxItems <- 15

rawVars == <<descriptor, parser, rejected>>

BothInit ==
  /\ way \in Ways
  /\ Init /\ Raw!Init
  /\ way = "raw" => options = Mouse

BothNext ==
  /\ UNCHANGED way
  /\ \/ way = "factory" /\ Next /\ UNCHANGED rawVars
     \/ way = "raw" /\ Raw!Next /\ UNCHANGED vars

BothSpec == BothInit /\ [][BothNext]_<<way, vars, rawVars>>

(* What validate_raw accepts is described truly (RawDescriptor).            *)
AcceptedIsTrue == Raw!AcceptedIsTrue
================================================================================
