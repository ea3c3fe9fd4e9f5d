---------------------------- MODULE MCProfileNodes -----------------------------
(***************************************************************************)
(* The Nodes of the profiles on small instances: a behaviour is that of    *)
(* one Node, whose profile is chosen at its start.  The variables of the   *)
(* other profiles stay what they are in a Node just opened.                *)
(***************************************************************************)
EXTENDS Integers, TLC

CONSTANTS
  Profiles,                                     \* the profiles to check
  MoveAxes, ScrollAxes,                         \* Mouse
  MaxDelta, FieldMax, TotalMax,
  Places, BarrelBits,                           \* Pen; Places also Touch
  Ids, NoId, maximum_contacts, per_report,      \* Touch
  ScanTimes,
  AllowedUsages, NoUsage, Buttons, AxisValues,  \* Control
  StrengthMin, StrengthMax, StrengthBits, RawReports

VARIABLES
  profile,
  dirty, transfer_inflight, completion_result, emitted_non_neutral,
  submitted_non_neutral, stage, applied,
  pending, submitted, mouse_button, mouse_edge, mouse_sent, held, owed,
  mouse_certain,
  desired, emitted, lifecycle, tool_switch_departure, pen_sent, pen_target,
  pen_certain,
  contacts, button, edge, packet_cursor, scan_epoch_active, scan_time, packet,
  frame, down, snapshot,
  kind, state, edges, report, target, asked, certain

\* A call moves an axis by MaxDelta at most.
Mouse == INSTANCE MouseNode WITH
  Deltas <- -MaxDelta..MaxDelta,
  button <- mouse_button, edge <- mouse_edge, sent <- mouse_sent,
  certain <- mouse_certain

Pen == INSTANCE PenNode WITH
  sent <- pen_sent, target <- pen_target, certain <- pen_certain

Touch == INSTANCE TouchNode

Control == INSTANCE ControlNode

ASSUME ProfileAssumptions ==
  /\ Profiles \subseteq {"mouse", "pen", "touch", "control"}
  /\ MaxDelta \in Nat /\ Mouse!MouseAssumption
  /\ Touch!TouchAssumption
  /\ Control!ControlAssumption

mouseVars == <<pending, submitted, mouse_button, mouse_edge, mouse_sent, held, owed,
               mouse_certain>>
penVars == <<desired, emitted, lifecycle, tool_switch_departure, pen_sent, pen_target,
             pen_certain>>
touchVars == <<contacts, button, edge, packet_cursor, scan_epoch_active, scan_time,
               packet, frame, down, snapshot>>
controlVars == <<kind, state, edges, report, target, asked, certain>>
vars == <<profile, dirty, transfer_inflight, completion_result, emitted_non_neutral,
          submitted_non_neutral, stage, applied,
          mouseVars, penVars, touchVars, controlVars>>

Init ==
  /\ profile \in Profiles
  /\ Mouse!Init /\ Pen!Init /\ Touch!Init /\ Control!Init
  /\ profile # "control" => kind = "raw"

Next ==
  /\ UNCHANGED profile
  /\ \/ profile = "mouse" /\ Mouse!Next /\ UNCHANGED <<penVars, touchVars, controlVars>>
     \/ profile = "pen" /\ Pen!Next /\ UNCHANGED <<mouseVars, touchVars, controlVars>>
     \/ profile = "touch" /\ Touch!Next /\ UNCHANGED <<mouseVars, penVars, controlVars>>
     \/ profile = "control" /\ Control!Next /\ UNCHANGED <<mouseVars, penVars, touchVars>>

Spec == Init /\ [][Next]_vars

\* Identifiers are compared with each other and with nothing else.
Symmetry == Permutations(Ids)

-----------------------------------------------------------------------------
(* The properties of the modules, which hold of a Node just opened, hence   *)
(* of the profiles a behaviour is not about.                                *)

(* Movement is conserved by clamping, refusals and failures (MouseNode).    *)
MovementConserved == Mouse!MovementConserved

(* A Mouse Node at rest has nothing left to send (MouseNode).               *)
RestIsSent == Mouse!RestIsSent

(* An unregistered pen has left the target (PenNode).                       *)
ClosedPenIsAway == Pen!ClosedPenIsAway

(* With known outcomes a tool leaves before the other enters (PenNode).     *)
KnownToolLeavesRange == Pen!KnownToolLeavesRange

(* The target joins a touch frame from one state (TouchNode).               *)
FrameIsOfOneState == Touch!FrameIsOfOneState

(* A contact the target holds down keeps its slot (TouchNode).              *)
HeldContactHasSlot == Touch!HeldContactHasSlot

(* A target shows what was asked for last (ControlNode).                    *)
TargetShowsState == Control!TargetShowsState
================================================================================
