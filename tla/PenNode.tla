------------------------------- MODULE PenNode --------------------------------
(***************************************************************************)
(* A Pen Node (src/profiles/state.cpp) with hover and an eraser.  desired  *)
(* is the sample the application asked for, emitted the one the library    *)
(* believes the target holds; a change of tool in range sends an           *)
(* out-of-range report before the new tool enters.                         *)
(***************************************************************************)
EXTENDS ReportFlight

CONSTANTS
  Places,     \* the coordinates, tilt and twist of a sample, taken together
  BarrelBits  \* the barrel buttons of the Spec

VARIABLES
  desired,               \* PenState::desired
  emitted,               \* PenState::emitted
  lifecycle,             \* the flags in_range, tip, eraser and barrel of the
                         \* transitions that are pending
  tool_switch_departure, \* PenState::tool_switch_departure
  sent,                  \* the report in flight
  target,                \* external: the last report the target applied
  certain                \* history: no outcome since the last OK was unknown

penVars == <<desired, emitted, lifecycle, tool_switch_departure>>
vars == <<flightVars, penVars, sent, target, certain>>

\* A pressure, when there is one, follows the tip.
Samples == [in_range : BOOLEAN, tip : BOOLEAN, eraser : BOOLEAN,
            barrel : SUBSET BarrelBits, at : Places]
Origin == CHOOSE p \in Places : TRUE
Away == [in_range |-> FALSE, tip |-> FALSE, eraser |-> FALSE, barrel |-> {},
         at |-> Origin]

Flags == {"in_range", "tip", "eraser", "barrel"}

Init ==
  /\ FlightInit
  /\ desired = Away /\ emitted = Away /\ sent = Away /\ target = Away
  /\ lifecycle = {} /\ tool_switch_departure = FALSE
  /\ certain = TRUE

-----------------------------------------------------------------------------
\* The lifecycle flags a next sample changes.
Changes(next) == {f \in Flags : desired[f] # next[f]}

\* pen_transition_conflicts
Conflicts(next) == Changes(next) # {} /\ lifecycle # {}

\* The flags a pen_update accepts.
Valid(sample) == sample.tip => sample.in_range

\* Mutant of MustDepart: the tool is compared with the last one asked for.
MustDepartFromDesired(next) == desired.in_range /\ desired.eraser # next.eraser

\* The tool changes while the target has the other one in range.
MustDepart(next) == emitted.in_range /\ emitted.eraser # next.eraser

\* aoahid_pen_update
PenUpdate(sample) ==
  /\ Usable /\ Valid(sample)
  /\ ~Conflicts(sample)
  /\ lifecycle' = lifecycle \union Changes(sample)
  /\ desired' = sample
  /\ tool_switch_departure' = MustDepart(sample)
  /\ Marks(desired # sample)
  /\ UNCHANGED <<emitted, sent, target, certain>>

\* Mutant of Departed: the tip stays down.
DepartedKeepsTip(sample) == [sample EXCEPT !.in_range = FALSE, !.barrel = {}]

\* A sample out of range that keeps the eraser selection and the coordinates.
Departed(sample) ==
  [sample EXCEPT !.in_range = FALSE, !.tip = FALSE, !.barrel = {}]

\* aoahid_pen_depart
PenDepart ==
  LET next == Departed(desired) IN
  /\ Usable
  /\ ~Conflicts(next)
  /\ lifecycle' = lifecycle \union Changes(next)
  /\ desired' = next
  /\ tool_switch_departure' = FALSE
  /\ Marks(desired # next)
  /\ UNCHANGED <<emitted, sent, target, certain>>

-----------------------------------------------------------------------------
\* serialize_node: out of range, every flag is 0.
Wire ==
  LET sample == IF tool_switch_departure THEN Departed(emitted) ELSE desired
  IN  IF sample.in_range THEN sample
      ELSE [sample EXCEPT !.eraser = FALSE, !.barrel = {}]

\* has_non_neutral_state
NonNeutral == \/ tool_switch_departure \/ desired.in_range \/ desired.tip
              \/ desired.barrel # {}

Submit ==
  /\ Submits(NonNeutral)
  /\ sent' = Wire
  /\ UNCHANGED <<penVars, target, certain>>

Apply ==
  /\ TargetApplies
  /\ target' = sent
  /\ UNCHANGED <<penVars, sent, certain>>

\* What the target holds once the report in flight succeeded.
Emitted ==
  IF tool_switch_departure THEN [emitted EXCEPT !.in_range = FALSE, !.tip = FALSE]
  ELSE desired

\* transfer_complete: after a departure the new tool has still to enter, and
\* its transitions stay pending.
Complete(result) ==
  LET halfway == result = "OK" /\ tool_switch_departure IN
  /\ Completes(result)
  /\ emitted' = IF result = "OK" THEN Emitted ELSE emitted
  /\ tool_switch_departure' = (tool_switch_departure /\ result # "OK")
  /\ dirty' = (~MayHaveApplied(result) \/ halfway)
  /\ lifecycle' = IF ~MayHaveApplied(result) \/ halfway THEN lifecycle ELSE {}
  /\ sent' = Away
  /\ certain' = CASE result = "OK" -> TRUE
                  [] result = "IO" -> FALSE
                  [] OTHER -> certain
  /\ UNCHANGED <<desired, target>>

ReadOutcome == ReadsOutcome /\ UNCHANGED <<penVars, sent, target, certain>>

HadNonNeutral ==
  \E s \in {desired, emitted} : s.in_range \/ s.tip \/ s.barrel # {}

\* neutralize_pen
Close ==
  /\ Neutralizes(HadNonNeutral)
  /\ desired' = Departed(desired)
  /\ tool_switch_departure' = FALSE
  /\ UNCHANGED <<emitted, lifecycle, sent, target, certain>>

Unregister == Unregisters /\ UNCHANGED <<penVars, sent, target, certain>>

Next ==
  \/ \E sample \in Samples : PenUpdate(sample)
  \/ PenDepart
  \/ Submit \/ Apply
  \/ \E result \in Results : Complete(result)
  \/ ReadOutcome
  \/ Close \/ Unregister

Spec == Init /\ [][Next]_vars

-----------------------------------------------------------------------------
(* The target is never shown a change of tool while the pen is in range,    *)
(* as long as the outcome of the last report is known: PROFILES.md,         *)
(* "Switching between pen and eraser while in range first sends an          *)
(* out-of-range report, then re-enters with the new tool".  It relates      *)
(* emitted, which decides whether to depart, to what the target really      *)
(* holds, across refusals, moves between the departure and the new entry,   *)
(* departures and closes.                                                   *)
KnownToolLeavesRange ==
  [][(certain /\ target.in_range /\ target'.in_range)
       => target.eraser = target'.eraser]_vars

(* A Node that close unregisters leaves no pen in range and no button held  *)
(* on the target, also when reports before had an unknown outcome.          *)
ClosedPenIsAway ==
  stage = "closed" => /\ ~target.in_range /\ ~target.tip
                      /\ target.barrel = {} /\ ~target.eraser
===============================================================================
