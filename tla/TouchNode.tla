------------------------------- MODULE TouchNode -------------------------------
(***************************************************************************)
(* A Touchscreen or Touchpad Node (src/profiles/state.cpp) whose frames    *)
(* may need several reports: the contacts in their slots, the cursor       *)
(* between the reports of a frame, the scan time, and the lift record      *)
(* every contact gets before its slot is free again.                       *)
(*                                                                         *)
(* External: the target joins the reports of a frame by the contact count  *)
(* of the first and remembers which contacts are down.                     *)
(***************************************************************************)
EXTENDS ReportFlight, SequencesExt, FiniteSets

CONSTANTS
  Ids,              \* the Contact Identifiers
  NoId,             \* the identifier in a slot nobody uses
  maximum_contacts, \* TouchFields::maximum_contacts
  per_report,       \* TouchFields::contacts_per_report
  Places,           \* the coordinates and the optional fields of a sample
  ScanTimes         \* bound: the scan times after the first frame

TouchAssumption ==
  /\ NoId \notin Ids
  /\ maximum_contacts \in Nat \ {0}
  /\ per_report \in 1..maximum_contacts
  /\ 0 \notin ScanTimes

VARIABLES
  contacts,          \* TouchState::contacts
  button,            \* TouchState::buttons, of one button
  edge,              \* TouchState::button_transitions
  packet_cursor,     \* TouchState::packet_cursor
  scan_epoch_active, \* TouchState::scan_epoch_active
  scan_time,         \* TouchState::scan_time
  packet,            \* the report in flight
  frame,             \* external: the reports of a frame the target has joined
  down,              \* external: the contacts the target holds down
  snapshot           \* history: the contacts when the target got a first report

touchVars == <<contacts, button, edge, packet_cursor>>
scanVars == <<scan_epoch_active, scan_time>>
targetVars == <<frame, down>>
vars == <<flightVars, touchVars, scanVars, packet, targetVars, snapshot>>

\* The code has 16 slots and refuses to use more than maximum_contacts.
Slots == 1..maximum_contacts
AnyPlace == CHOOSE p \in Places : TRUE
Empty == [phase |-> "none", id |-> NoId, at |-> AnyPlace, edge |-> FALSE]

\* One contact of a report: Tip, Contact Identifier and the rest.
Record(contact) ==
  [tip |-> contact.phase = "down", id |-> contact.id, at |-> contact.at]

\* collect_touch: the active contacts in slot order.
ActiveSlots == {s \in Slots : contacts[s].phase # "none"}
Rank(s) == Cardinality({t \in ActiveSlots : t <= s})
Active == [k \in 1..Cardinality(ActiveSlots) |->
             Record(contacts[CHOOSE s \in ActiveSlots : Rank(s) = k])]

NoFrame == [expected |-> 0, records |-> <<>>, times |-> {}]
NoPacket == [count |-> 0, records |-> <<>>, first |-> FALSE, time |-> 0,
             button |-> FALSE]

Init ==
  /\ FlightInit
  /\ contacts = [s \in Slots |-> Empty]
  /\ button = FALSE /\ edge = FALSE
  /\ packet_cursor = 0
  /\ scan_epoch_active = FALSE /\ scan_time = 0
  /\ packet = NoPacket
  /\ frame = NoFrame
  /\ down = {}
  /\ snapshot = <<>>

-----------------------------------------------------------------------------
(* The application changes contacts and buttons *)

\* Mutant of MayChange: a frame between two of its reports may change.
MayChangeBetweenReports == Usable

\* State calls wait for the frame that is being sent.
MayChange == Usable /\ packet_cursor = 0

Slot(id, phases) == {s \in Slots : contacts[s].id = id /\ contacts[s].phase \in phases}
Free == {s \in Slots : contacts[s].phase = "none"}

\* aoahid_touch with down = 1 of a contact that is down
TouchMoves(id, at) ==
  /\ MayChange
  /\ \E s \in Slot(id, {"down"}) :
       /\ contacts' = [contacts EXCEPT ![s].at = at]
       /\ Marks(contacts[s].at # at)
  /\ UNCHANGED <<button, edge, packet_cursor, scanVars, packet, targetVars, snapshot>>

\* aoahid_touch with down = 1 of a contact that has no slot
TouchPlaces(id, at) ==
  /\ MayChange
  /\ Slot(id, {"down", "up"}) = {} /\ Free # {}
  /\ LET s == CHOOSE s \in Free : \A t \in Free : s <= t
     IN  contacts' = [contacts EXCEPT ![s] =
                        [phase |-> "down", id |-> id, at |-> at, edge |-> TRUE]]
  /\ Marks(TRUE)
  /\ UNCHANGED <<button, edge, packet_cursor, scanVars, packet, targetVars, snapshot>>

\* aoahid_touch with down = 0
TouchLifts(id, at) ==
  /\ MayChange
  /\ \E s \in Slot(id, {"down"}) :
       /\ ~contacts[s].edge
       /\ contacts' = [contacts EXCEPT ![s] =
                         [@ EXCEPT !.phase = "up", !.at = at, !.edge = TRUE]]
  /\ Marks(TRUE)
  /\ UNCHANGED <<button, edge, packet_cursor, scanVars, packet, targetVars, snapshot>>

\* aoahid_touchpad_button with a value that changes
TouchpadButton ==
  /\ MayChange /\ ~edge
  /\ button' = ~button
  /\ edge' = TRUE
  /\ Marks(TRUE)
  /\ UNCHANGED <<contacts, packet_cursor, scanVars, packet, targetVars, snapshot>>

-----------------------------------------------------------------------------
(* A report of the frame *)

\* The scan time of a first report: zero after inactivity, else the time
\* elapsed since.
NextScanTimes == IF packet_cursor # 0 THEN {scan_time}
                 ELSE IF scan_epoch_active THEN ScanTimes ELSE {0}

SubmittedCount ==
  LET left == Len(Active) - packet_cursor
  IN  IF left < per_report THEN left ELSE per_report

\* submitted_touch_final_packet
FinalPacket == packet_cursor + SubmittedCount >= Len(Active)

NonNeutral == (\E s \in Slots : contacts[s].phase = "down") \/ button

\* serialize_node: only the first report carries the count.
Packet(time) ==
  [count |-> IF packet_cursor = 0 THEN Len(Active) ELSE 0,
   records |-> SubSeq(Active, packet_cursor + 1, packet_cursor + SubmittedCount),
   first |-> packet_cursor = 0,
   time |-> time, button |-> button]

Submit ==
  \E time \in NextScanTimes :
    /\ Submits(NonNeutral)
    /\ packet' = Packet(time)
    /\ scan_time' = time
    /\ scan_epoch_active' = TRUE
    /\ UNCHANGED <<touchVars, targetVars, snapshot>>

Marked(records, tip) == {r.id : r \in {r \in Range(records) : r.tip = tip}}

Apply ==
  /\ TargetApplies
  /\ frame' = IF packet.first
              THEN [expected |-> packet.count, records |-> packet.records,
                    times |-> {packet.time}]
              ELSE [frame EXCEPT !.records = @ \o packet.records,
                                 !.times = @ \union {packet.time}]
  /\ snapshot' = IF packet.first THEN Active ELSE snapshot
  /\ down' = (down \ Marked(packet.records, FALSE)) \union Marked(packet.records, TRUE)
  /\ UNCHANGED <<touchVars, scanVars, packet>>

\* Mutant of AfterFrame: a lift record ends with any report of the frame.
AfterFrameAny(result) ==
  [s \in Slots |->
    IF result = "OK" /\ contacts[s].phase = "up" THEN Empty ELSE contacts[s]]

\* A frame that is complete frees the slots of the contacts it lifted.
AfterFrame(result) ==
  [s \in Slots |->
    IF result = "OK" /\ FinalPacket /\ contacts[s].phase = "up" THEN Empty
    ELSE contacts[s]]

\* An unknown outcome ends the frame, a refused report is sent again.
NextCursor(result) ==
  CASE result = "OK" -> IF FinalPacket THEN 0 ELSE packet_cursor + SubmittedCount
    [] result = "STALL" -> packet_cursor
    [] OTHER -> 0

\* transfer_complete.  The target is done with a frame once it has all of it.
Complete(result) ==
  LET unfinished == result = "OK" /\ ~FinalPacket
      keepsEdges == ~MayHaveApplied(result) \/ unfinished
  IN  /\ Completes(result)
      /\ contacts' = IF keepsEdges THEN AfterFrame(result)
                     ELSE [s \in Slots |-> [AfterFrame(result)[s] EXCEPT !.edge = FALSE]]
      /\ edge' = (edge /\ keepsEdges)
      /\ packet_cursor' = NextCursor(result)
      /\ dirty' = (~MayHaveApplied(result) \/ unfinished)
      /\ scan_epoch_active' = (scan_epoch_active
                               /\ ~(result = "OK" /\ FinalPacket /\ ~NonNeutral))
      /\ packet' = NoPacket
      /\ IF result = "OK" /\ FinalPacket
         THEN frame' = NoFrame /\ snapshot' = <<>>
         ELSE UNCHANGED <<frame, snapshot>>
      /\ UNCHANGED <<button, scan_time, down>>

ReadOutcome ==
  ReadsOutcome /\ UNCHANGED <<touchVars, scanVars, packet, targetVars, snapshot>>

HadNonNeutral == (\E s \in Slots : contacts[s].phase # "none") \/ button

\* neutralize_touch: the frame in progress is finished first.
Close ==
  /\ packet_cursor = 0
  /\ Neutralizes(HadNonNeutral)
  /\ contacts' = [s \in Slots |->
       IF contacts[s].phase = "down" THEN [contacts[s] EXCEPT !.phase = "up"]
       ELSE contacts[s]]
  /\ button' = FALSE
  /\ UNCHANGED <<edge, packet_cursor, scanVars, packet, targetVars, snapshot>>

Unregister ==
  Unregisters /\ UNCHANGED <<touchVars, scanVars, packet, targetVars, snapshot>>

Next ==
  \/ \E id \in Ids, at \in Places : TouchMoves(id, at) \/ TouchPlaces(id, at) \/ TouchLifts(id, at)
  \/ TouchpadButton
  \/ Submit \/ Apply
  \/ \E result \in Results : Complete(result)
  \/ ReadOutcome
  \/ Close \/ Unregister

Spec == Init /\ [][Next]_vars

-----------------------------------------------------------------------------
(* What the target joins is one state of the contacts: the records it has   *)
(* of a frame are a prefix of the contacts at its first report, as many as  *)
(* that announced and under one scan time, whatever is refused, lost or     *)
(* asked for between the reports.                                           *)
FrameIsOfOneState ==
  /\ IsPrefix(frame.records, snapshot)
  /\ frame.expected = Len(snapshot)
  /\ Cardinality(frame.times) <= 1

(* A contact the target holds down still has its slot, so its lift record   *)
(* can and will be sent: no order of lifts, refusals, uncertain reports,    *)
(* unfinished frames and closes frees a slot, or unregisters the Node,      *)
(* before the target has seen Tip = 0 (the default hid-multitouch class     *)
(* never lifts a contact by itself).                                        *)
HeldContactHasSlot ==
  \A id \in down : stage # "closed" /\ Slot(id, {"down", "up"}) # {}
===============================================================================
