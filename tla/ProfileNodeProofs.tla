--------------------------- MODULE ProfileNodeProofs ---------------------------
(***************************************************************************)
(* The Nodes of the profiles for any axes and field ranges, samples,       *)
(* contacts, controls and outcomes: what the target was sent, what the     *)
(* library believes of it and what the application asked for fit.          *)
(***************************************************************************)
EXTENDS MCProfileNodes, FiniteSetTheorems, SequenceTheorems, TLAPS

-----------------------------------------------------------------------------
(* Mouse *)

(* The fragment in flight is the one the totals still ask for: nothing      *)
(* changes them while it is out.                                            *)
FragmentInv ==
  /\ applied => transfer_inflight
  /\ transfer_inflight => submitted = [a \in Mouse!Axes |-> Mouse!Clamp(pending[a])]

MouseInv == Mouse!TypeOK /\ Mouse!MovementConserved /\ FragmentInv

(* The report in flight says what the button is, and a target that holds    *)
(* it down is remembered by emitted_non_neutral, so that a close of a Node  *)
(* at rest that sends nothing leaves it up.                                 *)
MouseRestInv ==
  /\ Mouse!RestIsSent
  /\ transfer_inflight => mouse_sent = mouse_button /\ submitted_non_neutral = mouse_sent
  /\ applied => held = mouse_sent
  /\ held => emitted_non_neutral \/ applied

MouseRanges == FieldMax \in Nat \ {0} /\ TotalMax \in Nat

-----------------------------------------------------------------------------
(* A fragment fits the field, and what it leaves of a total is a total.     *)
LEMMA ClampFits ==
  ASSUME MouseRanges, NEW total \in -TotalMax..TotalMax
  PROVE  /\ Mouse!Clamp(total) \in -FieldMax..FieldMax
         /\ total - Mouse!Clamp(total) \in -TotalMax..TotalMax
  BY DEF MouseRanges, Mouse!Clamp

LEMMA MouseInit ==
  ASSUME MouseRanges, Mouse!Init
  PROVE  MouseInv
  <1>1. Mouse!FlightTypeOK
    BY DEF Mouse!Init, Mouse!FlightInit, Mouse!FlightTypeOK, Mouse!Results
  <1>2. Mouse!TypeOK
    <2>1. 0 \in -TotalMax..TotalMax /\ 0 \in -FieldMax..FieldMax
      BY DEF MouseRanges
    <2>2. /\ pending = [a \in Mouse!Axes |-> 0] /\ submitted = [a \in Mouse!Axes |-> 0]
          /\ owed = [a \in Mouse!Axes |-> 0]
      BY DEF Mouse!Init, Mouse!Nothing
    <2>3. /\ mouse_button \in BOOLEAN /\ mouse_edge \in BOOLEAN
          /\ mouse_sent \in BOOLEAN /\ held \in BOOLEAN
          /\ mouse_certain \in BOOLEAN
      BY DEF Mouse!Init
    <2> QED
      BY <1>1, <2>1, <2>2, <2>3 DEF Mouse!TypeOK
  <1>3. Mouse!MovementConserved /\ FragmentInv
    BY DEF Mouse!Init, Mouse!FlightInit, Mouse!MovementConserved, FragmentInv, Mouse!Nothing
  <1> QED
    BY <1>2, <1>3 DEF MouseInv

(* aoahid_mouse_move and aoahid_mouse_scroll keep the totals in range, or   *)
(* change none of them.                                                     *)
LEMMA MouseAddStep ==
  ASSUME MouseRanges, MouseInv, (-MaxDelta..MaxDelta) \subseteq Int,
         NEW axes \in SUBSET Mouse!Axes, NEW delta \in [axes -> (-MaxDelta..MaxDelta)],
         Mouse!Add(axes, delta)
  PROVE  MouseInv'
  <1>1. pending' \in [Mouse!Axes -> -TotalMax..TotalMax]
    <2>1. \A a \in axes : pending[a] + delta[a] \in -TotalMax..TotalMax
      BY DEF Mouse!Add, Mouse!Accepted
    <2>2. pending' = Mouse!Plus(pending, axes, delta)
      BY DEF Mouse!Add
    <2>3. \A a \in Mouse!Axes : Mouse!Plus(pending, axes, delta)[a] \in -TotalMax..TotalMax
      BY <2>1 DEF MouseInv, Mouse!TypeOK, Mouse!Plus
    <2> QED
      BY <2>2, <2>3 DEF Mouse!Plus
  <1>2. owed' \in [Mouse!Axes -> Int]
    <2>1. \A a \in axes : delta[a] \in Int
      OBVIOUS
    <2>2. \A a \in Mouse!Axes : Mouse!Plus(owed, axes, delta)[a] \in Int
      BY <2>1 DEF MouseInv, Mouse!TypeOK, Mouse!Plus
    <2> QED
      BY <2>2 DEF Mouse!Add, Mouse!Plus
  <1>3. Mouse!TypeOK'
    BY <1>1, <1>2 DEF MouseInv, Mouse!TypeOK, Mouse!FlightTypeOK, Mouse!Add, Mouse!Marks
  <1>4. Mouse!MovementConserved'
    <2>2. ~applied'
      BY DEF MouseInv, FragmentInv, Mouse!Add, Mouse!Usable, Mouse!Marks
    <2>3. \A a \in Mouse!Axes : pending'[a] \in -TotalMax..TotalMax
      BY <1>1
    <2> SUFFICES ASSUME NEW a \in Mouse!Axes
                 PROVE  owed'[a] = pending'[a]
      BY <2>2, <2>3 DEF Mouse!MovementConserved, MouseRanges
    <2>1. owed[a] = pending[a]
      BY DEF MouseInv, Mouse!TypeOK, Mouse!MovementConserved, FragmentInv, Mouse!Add,
             Mouse!Usable
    <2> QED
      BY <2>1 DEF Mouse!Add, Mouse!Plus
  <1>5. FragmentInv'
    BY DEF MouseInv, FragmentInv, Mouse!Add, Mouse!Usable, Mouse!Marks
  <1> QED
    BY <1>3, <1>4, <1>5 DEF MouseInv

LEMMA MouseButtonStep ==
  ASSUME MouseInv, Mouse!MouseButton
  PROVE  MouseInv'
  BY DEF MouseInv, Mouse!TypeOK, Mouse!FlightTypeOK, Mouse!MovementConserved, FragmentInv,
         Mouse!MouseButton, Mouse!Usable, Mouse!Marks, Mouse!history

(* A fragment is cut off the totals, which still hold it.                   *)
LEMMA MouseSubmitStep ==
  ASSUME MouseRanges, MouseInv, Mouse!Submit
  PROVE  MouseInv'
  <1>1. submitted' \in [Mouse!Axes -> -FieldMax..FieldMax]
    BY ClampFits DEF MouseInv, Mouse!TypeOK, Mouse!Submit
  <1>2. Mouse!TypeOK'
    BY <1>1 DEF MouseInv, Mouse!TypeOK, Mouse!FlightTypeOK, Mouse!Submit, Mouse!Submits,
                Mouse!history
  <1>3. Mouse!MovementConserved'
    BY DEF MouseInv, Mouse!MovementConserved, FragmentInv, Mouse!Submit, Mouse!Submits,
           Mouse!Usable, Mouse!history
  <1>4. FragmentInv'
    BY DEF MouseInv, FragmentInv, Mouse!Submit, Mouse!Submits, Mouse!Usable, Mouse!Clamp
  <1> QED
    BY <1>2, <1>3, <1>4 DEF MouseInv

LEMMA MouseApplyStep ==
  ASSUME MouseRanges, MouseInv, Mouse!Apply
  PROVE  MouseInv'
  <1>1. \A a \in Mouse!Axes : submitted[a] \in Int /\ owed[a] \in Int /\ pending[a] \in Int
    BY DEF MouseRanges, MouseInv, Mouse!TypeOK
  <1>2. Mouse!TypeOK'
    BY <1>1 DEF MouseInv, Mouse!TypeOK, Mouse!FlightTypeOK, Mouse!Apply,
                Mouse!TargetApplies, Mouse!mouseVars
  <1>3. Mouse!MovementConserved'
    BY <1>1 DEF MouseInv, Mouse!MovementConserved, Mouse!Apply, Mouse!TargetApplies,
                Mouse!mouseVars
  <1>4. FragmentInv'
    BY DEF MouseInv, FragmentInv, Mouse!Apply, Mouse!TargetApplies, Mouse!mouseVars,
           Mouse!Clamp
  <1> QED
    BY <1>2, <1>3, <1>4 DEF MouseInv

(* transfer_complete takes the fragment off exactly if it may have been     *)
(* applied.                                                                 *)
LEMMA MouseCompleteStep ==
  ASSUME MouseRanges, MouseInv, NEW result \in Mouse!Results, Mouse!Complete(result)
  PROVE  MouseInv'
  <1>1. \A a \in Mouse!Axes : submitted[a] \in Int /\ owed[a] \in Int /\ pending[a] \in Int
    BY DEF MouseRanges, MouseInv, Mouse!TypeOK
  <1>2. \A a \in Mouse!Axes : pending[a] - submitted[a] \in -TotalMax..TotalMax
    BY ClampFits DEF MouseInv, Mouse!TypeOK, FragmentInv, Mouse!Complete, Mouse!Completes
  <1>3. pending' \in [Mouse!Axes -> -TotalMax..TotalMax]
    BY <1>1, <1>2 DEF MouseInv, Mouse!TypeOK, Mouse!Complete, Mouse!Remaining
  <1>4. owed' \in [Mouse!Axes -> Int]
    BY <1>1 DEF MouseInv, Mouse!TypeOK, Mouse!Complete
  <1>5. Mouse!TypeOK'
    <2>1. Mouse!FlightTypeOK'
      BY DEF MouseInv, Mouse!TypeOK, Mouse!FlightTypeOK, Mouse!Complete, Mouse!Completes,
             Mouse!StaysDirty, Mouse!MayHaveApplied, Mouse!Results
    <2>2. submitted' \in [Mouse!Axes -> -FieldMax..FieldMax]
      BY DEF MouseRanges, Mouse!Complete, Mouse!Nothing
    <2>3. /\ mouse_button' \in BOOLEAN /\ mouse_edge' \in BOOLEAN
          /\ mouse_sent' \in BOOLEAN /\ held' \in BOOLEAN
          /\ mouse_certain' \in BOOLEAN
      BY DEF MouseInv, Mouse!TypeOK, Mouse!Complete, Mouse!MayHaveApplied
    <2> QED
      BY <1>3, <1>4, <2>1, <2>2, <2>3 DEF Mouse!TypeOK
  <1>6. Mouse!MovementConserved'
    <2> SUFFICES ASSUME NEW a \in Mouse!Axes
                 PROVE  owed'[a] = pending'[a]
      BY <1>3 DEF MouseRanges, Mouse!MovementConserved, Mouse!Complete, Mouse!Completes
    <2>1. CASE result = "OK"
      BY <1>1, <2>1 DEF MouseInv, Mouse!TypeOK, Mouse!MovementConserved, Mouse!Complete,
                        Mouse!Completes, Mouse!Fits, Mouse!Remaining, Mouse!MayHaveApplied
    <2>2. CASE result = "STALL"
      BY <1>1, <2>2 DEF MouseInv, Mouse!TypeOK, Mouse!MovementConserved, Mouse!Complete,
                        Mouse!Completes, Mouse!Fits, Mouse!Remaining, Mouse!MayHaveApplied
    <2>3. CASE result = "IO"
      BY <1>1, <2>3 DEF MouseInv, Mouse!TypeOK, Mouse!MovementConserved, Mouse!Complete,
                        Mouse!Completes, Mouse!Remaining, Mouse!MayHaveApplied
    <2> QED
      BY <2>1, <2>2, <2>3 DEF Mouse!Results
  <1>7. FragmentInv'
    BY DEF FragmentInv, Mouse!Complete, Mouse!Completes
  <1> QED
    BY <1>5, <1>6, <1>7 DEF MouseInv

(* neutralize_mouse forgets what no report carries.                         *)
LEMMA MouseCloseStep ==
  ASSUME MouseRanges, MouseInv, Mouse!Close
  PROVE  MouseInv'
  <1>1. \A a \in Mouse!Axes : owed[a] = pending[a] /\ pending[a] \in Int
    BY DEF MouseRanges, MouseInv, Mouse!TypeOK, Mouse!MovementConserved, FragmentInv,
           Mouse!Close, Mouse!Neutralizes, Mouse!Usable
  <1>2. pending' \in [Mouse!Axes -> -TotalMax..TotalMax] /\ owed' \in [Mouse!Axes -> Int]
    BY <1>1 DEF MouseRanges, Mouse!Close, Mouse!Nothing
  <1>3. Mouse!TypeOK'
    BY <1>2 DEF MouseInv, Mouse!TypeOK, Mouse!FlightTypeOK, Mouse!Close, Mouse!Neutralizes
  <1>4. Mouse!MovementConserved'
    BY <1>1 DEF MouseInv, Mouse!MovementConserved, FragmentInv, Mouse!Close,
                Mouse!Neutralizes, Mouse!Usable, Mouse!Nothing
  <1>5. FragmentInv'
    BY DEF MouseInv, FragmentInv, Mouse!Close, Mouse!Neutralizes, Mouse!Usable
  <1> QED
    BY <1>3, <1>4, <1>5 DEF MouseInv

(* The steps that leave the totals and the fragment alone.                  *)
LEMMA MouseOtherStep ==
  ASSUME MouseInv, Mouse!ReadOutcome \/ Mouse!Unregister \/ UNCHANGED Mouse!vars
  PROVE  MouseInv'
  <1>1. CASE Mouse!ReadOutcome
    BY <1>1 DEF MouseInv, Mouse!TypeOK, Mouse!FlightTypeOK, Mouse!MovementConserved,
                FragmentInv, Mouse!ReadOutcome, Mouse!ReadsOutcome, Mouse!mouseVars, Mouse!history,
                Mouse!Clamp, Mouse!Results
  <1>2. CASE Mouse!Unregister
    BY <1>2 DEF MouseInv, Mouse!TypeOK, Mouse!FlightTypeOK, Mouse!MovementConserved,
                FragmentInv, Mouse!Unregister, Mouse!Unregisters, Mouse!mouseVars, Mouse!history,
                Mouse!Clamp
  <1>3. CASE UNCHANGED Mouse!vars
    BY <1>3 DEF MouseInv, Mouse!TypeOK, Mouse!FlightTypeOK, Mouse!MovementConserved,
                FragmentInv, Mouse!vars, Mouse!flightVars, Mouse!mouseVars, Mouse!Clamp
  <1> QED
    BY <1>1, <1>2, <1>3

LEMMA MouseNext ==
  ASSUME Mouse!MouseAssumption, MouseInv, [Mouse!Next]_Mouse!vars
  PROVE  MouseInv'
  <1> USE DEF Mouse!MouseAssumption, MouseRanges
  <1>1. CASE \E delta \in [MoveAxes -> (-MaxDelta..MaxDelta)] : Mouse!Add(MoveAxes, delta)
    BY <1>1, MouseAddStep DEF Mouse!Axes
  <1>2. CASE \E delta \in [ScrollAxes -> (-MaxDelta..MaxDelta)] : Mouse!Add(ScrollAxes, delta)
    BY <1>2, MouseAddStep DEF Mouse!Axes
  <1>3. CASE Mouse!MouseButton
    BY <1>3, MouseButtonStep
  <1>4. CASE Mouse!Submit
    BY <1>4, MouseSubmitStep
  <1>5. CASE Mouse!Apply
    BY <1>5, MouseApplyStep
  <1>6. CASE \E result \in Mouse!Results : Mouse!Complete(result)
    BY <1>6, MouseCompleteStep
  <1>7. CASE Mouse!Close
    BY <1>7, MouseCloseStep
  <1>8. CASE Mouse!ReadOutcome \/ Mouse!Unregister \/ UNCHANGED Mouse!vars
    BY <1>8, MouseOtherStep
  <1> QED
    BY <1>1, <1>2, <1>3, <1>4, <1>5, <1>6, <1>7, <1>8 DEF Mouse!Next

(* Only an outcome that is known, and leaves nothing, lets a Node rest.     *)
LEMMA MouseRestStep ==
  ASSUME Mouse!MouseAssumption, MouseInv, MouseInv', MouseRestInv, [Mouse!Next]_Mouse!vars
  PROVE  MouseRestInv'
  <1> USE DEF MouseRestInv, Mouse!RestIsSent, Mouse!Usable
  <1>1. ASSUME NEW axes \in {MoveAxes, ScrollAxes},
               NEW delta \in [axes -> (-MaxDelta..MaxDelta)], Mouse!Add(axes, delta)
        PROVE  MouseRestInv'
    <2>1. CASE \E a \in axes : delta[a] # 0
      BY <1>1, <2>1 DEF Mouse!Add, Mouse!Marks, MouseInv, FragmentInv
    <2>2. CASE \A a \in axes : delta[a] = 0
      <3>1. owed' = owed
        <4>1. \A a \in Mouse!Axes : owed[a] \in Int
          BY DEF MouseInv, Mouse!TypeOK
        <4>2. \A a \in Mouse!Axes : Mouse!Plus(owed, axes, delta)[a] = owed[a]
          BY <2>2, <4>1 DEF Mouse!Plus
        <4> QED
          BY <1>1, <4>2 DEF Mouse!Add, Mouse!Plus, MouseInv, Mouse!TypeOK
      <3> QED
        BY <1>1, <2>2, <3>1 DEF Mouse!Add, Mouse!Marks, MouseInv, FragmentInv, Mouse!Nothing
    <2> QED
      BY <2>1, <2>2
  <1>2. CASE Mouse!MouseButton
    BY <1>2 DEF Mouse!MouseButton, Mouse!Marks, MouseInv, FragmentInv
  <1>3. CASE Mouse!Submit
    BY <1>3 DEF Mouse!Submit, Mouse!Submits, MouseInv, FragmentInv
  <1>4. CASE Mouse!Apply
    BY <1>4 DEF Mouse!Apply, Mouse!TargetApplies, Mouse!mouseVars
  <1>5. ASSUME NEW result \in Mouse!Results, Mouse!Complete(result)
        PROVE  MouseRestInv'
    <2>1. CASE result = "OK"
      <3>1. /\ ~applied' /\ emitted_non_neutral' = mouse_sent /\ held' = held
            /\ held = mouse_sent /\ mouse_button' = mouse_sent /\ ~transfer_inflight'
        BY <1>5, <2>1 DEF Mouse!Complete, Mouse!Completes, Mouse!Fits
      <3>2. ASSUME ~dirty' PROVE owed' = Mouse!Nothing
        <4>1. pending' = Mouse!Nothing
          BY <1>5, <2>1, <3>2 DEF Mouse!Complete, Mouse!StaysDirty
        <4>2. \A a \in Mouse!Axes : owed'[a] = 0
          BY <3>1, <4>1 DEF MouseInv, Mouse!MovementConserved, Mouse!Nothing
        <4>3. owed' \in [Mouse!Axes -> Int]
          BY DEF MouseInv, Mouse!TypeOK
        <4> QED
          BY <4>2, <4>3 DEF Mouse!Nothing
      <3> QED
        BY <3>1, <3>2
    <2>2. CASE result = "STALL"
      BY <1>5, <2>2 DEF Mouse!Complete, Mouse!Completes, Mouse!Fits, Mouse!StaysDirty,
                        Mouse!MayHaveApplied
    <2>3. CASE result = "IO"
      <3>1. /\ ~applied' /\ ~transfer_inflight' /\ ~mouse_certain' /\ held' = held
            /\ emitted_non_neutral' = (emitted_non_neutral \/ submitted_non_neutral)
        BY <1>5, <2>3 DEF Mouse!Complete, Mouse!Completes
      <3>2. ASSUME applied, held PROVE submitted_non_neutral
        <4>1. transfer_inflight
          BY <1>5 DEF Mouse!Complete, Mouse!Completes
        <4>2. held = mouse_sent /\ submitted_non_neutral = mouse_sent
          BY <3>2, <4>1
        <4> QED
          BY Zenon, <3>2, <4>2
      <3> QED
        BY <3>1, <3>2
    <2> QED
      BY <2>1, <2>2, <2>3 DEF Mouse!Results
  <1>6. CASE Mouse!Close
    <2>1. owed' = Mouse!Nothing
      <3>1. \A a \in Mouse!Axes : owed[a] = pending[a] /\ pending[a] \in Int
        BY <1>6 DEF Mouse!Close, Mouse!Neutralizes, MouseInv, FragmentInv, Mouse!TypeOK,
                    Mouse!MovementConserved, Mouse!MouseAssumption
      <3> QED
        BY <1>6, <3>1 DEF Mouse!Close, Mouse!Nothing
    <2> QED
      BY <1>6, <2>1 DEF Mouse!Close, Mouse!Neutralizes, MouseInv, FragmentInv, Mouse!TypeOK,
                        Mouse!FlightTypeOK
  <1>7. CASE Mouse!ReadOutcome
    BY <1>7 DEF Mouse!ReadOutcome, Mouse!ReadsOutcome, Mouse!mouseVars, Mouse!history,
                Mouse!Nothing
  <1>8. CASE Mouse!Unregister
    BY <1>8 DEF Mouse!Unregister, Mouse!Unregisters, Mouse!mouseVars, Mouse!history,
                Mouse!Nothing
  <1>9. CASE UNCHANGED Mouse!vars
    BY <1>9 DEF Mouse!vars, Mouse!flightVars, Mouse!mouseVars, Mouse!Nothing
  <1> HIDE DEF MouseRestInv, Mouse!RestIsSent, Mouse!Usable
  <1> QED
    BY <1>1, <1>2, <1>3, <1>4, <1>5, <1>6, <1>7, <1>8, <1>9 DEF Mouse!Next

(* While the behaviour is about another profile, nothing moves.             *)
MouseKept ==
  /\ profile = "mouse" => MouseInv /\ MouseRestInv
  /\ profile # "mouse" => /\ pending = Mouse!Nothing /\ submitted = Mouse!Nothing
                          /\ owed = Mouse!Nothing /\ held = mouse_button

LEMMA MouseRuns ==
  ASSUME [Next]_vars
  PROVE  /\ profile' = profile
         /\ profile = "mouse" => [Mouse!Next]_Mouse!vars
         /\ profile # "mouse" => UNCHANGED mouseVars
  BY DEF Next, vars, Mouse!vars, Mouse!flightVars, Mouse!mouseVars, mouseVars

LEMMA MouseKeptHolds == Spec => []MouseKept
  <1>1. Mouse!MouseAssumption
    BY ProfileAssumptions
  <1>2. Init => MouseKept
    <2>1. ASSUME Mouse!Init PROVE MouseRestInv
      BY <2>1 DEF Mouse!Init, Mouse!FlightInit, MouseRestInv, Mouse!RestIsSent
    <2> QED
      BY <1>1, <2>1, MouseInit
         DEF Init, MouseKept, Mouse!MouseAssumption, MouseRanges, Mouse!Init
  <1>3. MouseKept /\ [Next]_vars => MouseKept'
    <2> SUFFICES ASSUME MouseKept, [Next]_vars PROVE MouseKept'
      OBVIOUS
    <2>1. CASE profile = "mouse"
      BY <1>1, <2>1, MouseRuns, MouseNext, MouseRestStep DEF MouseKept
    <2>2. CASE profile # "mouse"
      BY <2>2, MouseRuns DEF MouseKept, mouseVars, Mouse!Nothing
    <2> QED
      BY <2>1, <2>2
  <1> QED
    BY <1>2, <1>3, PTL DEF Spec

(* Movement is conserved (see MouseNode), for every field range and every   *)
(* sequence of movements, refusals, failures and closes.                    *)
THEOREM MovementConservedHolds == Spec => []MovementConserved
  <1>1. MouseKept => MovementConserved
    BY DEF MouseKept, MouseInv, MovementConserved, Mouse!MovementConserved, Mouse!Nothing
  <1> QED
    BY <1>1, MouseKeptHolds, PTL

(* A total never leaves its type, whatever is added and cut off, and a      *)
(* fragment always fits the field of the report.                            *)
THEOREM MouseTypeCorrect == Spec => [](profile = "mouse" => Mouse!TypeOK)
  <1>1. MouseKept => (profile = "mouse" => Mouse!TypeOK)
    BY DEF MouseKept, MouseInv
  <1> QED
    BY <1>1, MouseKeptHolds, PTL

(* A Node at rest has nothing left to send (see MouseNode), for every order *)
(* of movements, refusals, failures and closes.                             *)
THEOREM RestIsSentHolds == Spec => []RestIsSent
  <1>1. MouseKept => RestIsSent
    BY DEF MouseKept, MouseRestInv, RestIsSent, Mouse!RestIsSent
  <1> QED
    BY <1>1, MouseKeptHolds, PTL

-----------------------------------------------------------------------------
(* Pen *)

PenSamples == [in_range : BOOLEAN, tip : BOOLEAN, eraser : BOOLEAN,
               barrel : SUBSET BarrelBits, at : Places \cup {Pen!Origin}]

(* What the application asks for has no tip out of range, and what a report *)
(* says out of range is neutral.                                            *)
PenTypes ==
  /\ desired \in PenSamples /\ emitted \in PenSamples
  /\ pen_sent \in PenSamples /\ pen_target \in PenSamples
  /\ \A s \in {desired, emitted} : s.tip => s.in_range
  /\ \A s \in {pen_sent, pen_target} :
       ~s.in_range => ~s.tip /\ ~s.eraser /\ s.barrel = {}
  /\ lifecycle \subseteq Pen!Flags /\ tool_switch_departure \in BOOLEAN
  /\ pen_certain \in BOOLEAN
  /\ Pen!FlightTypeOK

(* The report in flight is the one the state still asks for.                *)
PenFlightInv ==
  /\ applied => transfer_inflight /\ pen_target = pen_sent
  /\ transfer_inflight =>
       /\ stage # "closed"
       /\ pen_sent = Pen!Wire
       /\ pen_sent.in_range => submitted_non_neutral

(* A target in range is known to be non-neutral; a Node that is closed has  *)
(* neutralized it with a report that arrived.                               *)
PenCloseInv ==
  /\ pen_target.in_range => emitted_non_neutral \/ (applied /\ submitted_non_neutral)
  /\ stage = "neutral" =>
       /\ ~desired.in_range /\ ~tool_switch_departure
       /\ ~transfer_inflight /\ ~dirty /\ completion_result = "OK" =>
            ~pen_target.in_range
  /\ stage = "closed" => ~pen_target.in_range

(* emitted is what a target of known outcomes holds, and unless a departure *)
(* is to be sent first, desired has the tool that is in range.              *)
PenToolInv ==
  /\ pen_certain /\ ~applied =>
       /\ pen_target.in_range <=> emitted.in_range
       /\ pen_target.in_range => pen_target.eraser = emitted.eraser
  /\ ~tool_switch_departure /\ desired.in_range /\ emitted.in_range =>
       desired.eraser = emitted.eraser

PenInv == PenTypes /\ PenFlightInv /\ PenCloseInv /\ PenToolInv

(* What a report says of a state of the pen.                                *)
LEMMA PenWire ==
  ASSUME PenTypes
  PROVE  /\ Pen!Wire \in PenSamples
         /\ ~Pen!Wire.in_range =>
              ~Pen!Wire.tip /\ ~Pen!Wire.eraser /\ Pen!Wire.barrel = {}
         /\ Pen!Wire.in_range =>
              ~tool_switch_departure /\ Pen!Wire = desired /\ desired.in_range
         /\ ~tool_switch_departure => Pen!Wire.in_range = desired.in_range
  <1> DEFINE chosen == IF tool_switch_departure THEN Pen!Departed(emitted) ELSE desired
  <1>1. /\ chosen \in PenSamples
        /\ chosen.tip => chosen.in_range
        /\ tool_switch_departure => ~chosen.in_range
        /\ ~tool_switch_departure => chosen = desired
    BY DEF PenTypes, PenSamples, Pen!Departed
  <1>2. Pen!Wire = IF chosen.in_range THEN chosen
                   ELSE [chosen EXCEPT !.eraser = FALSE, !.barrel = {}]
    BY DEF Pen!Wire
  <1> HIDE DEF chosen
  <1>3. CASE chosen.in_range
    BY <1>1, <1>2, <1>3
  <1>4. CASE ~chosen.in_range
    BY <1>1, <1>2, <1>4 DEF PenSamples
  <1> QED
    BY <1>3, <1>4

LEMMA PenInit ==
  ASSUME Pen!Init
  PROVE  PenInv
  <1>1. Pen!Away \in PenSamples /\ ~Pen!Away.in_range /\ ~Pen!Away.tip
        /\ ~Pen!Away.eraser /\ Pen!Away.barrel = {}
    BY DEF Pen!Away, PenSamples
  <1>2. PenTypes
    BY <1>1 DEF Pen!Init, Pen!FlightInit, Pen!FlightTypeOK, Pen!Results, PenTypes
  <1> QED
    BY <1>1, <1>2 DEF Pen!Init, Pen!FlightInit, PenInv, PenFlightInv, PenCloseInv,
                      PenToolInv

(* A sample the application asks for, or a departure.                       *)
LEMMA PenChanges ==
  ASSUME PenInv, Pen!Usable,
         NEW next \in PenSamples, next.tip => next.in_range,
         NEW flags \in SUBSET Pen!Flags, NEW changed \in BOOLEAN,
         NEW departs \in BOOLEAN,
         departs = Pen!MustDepart(next) \/ (~departs /\ ~next.in_range),
         lifecycle' = flags, desired' = next, tool_switch_departure' = departs,
         Pen!Marks(changed), UNCHANGED <<emitted, pen_sent, pen_target, pen_certain>>
  PROVE  PenInv'
  <1>1. PenTypes'
    BY DEF PenInv, PenTypes, Pen!Marks, Pen!FlightTypeOK
  <1>2. PenFlightInv' /\ PenCloseInv'
    BY DEF PenInv, PenFlightInv, PenCloseInv, Pen!Marks, Pen!Usable
  <1>3. PenToolInv'
    BY DEF PenInv, PenTypes, PenSamples, PenFlightInv, PenToolInv, Pen!Marks, Pen!Usable,
           Pen!MustDepart
  <1> QED
    BY <1>1, <1>2, <1>3 DEF PenInv

LEMMA PenUpdateStep ==
  ASSUME PenInv, NEW sample \in Pen!Samples, Pen!PenUpdate(sample)
  PROVE  PenInv'
  <1>1. /\ sample \in PenSamples /\ (sample.tip => sample.in_range)
        /\ Pen!Usable /\ desired' = sample
        /\ tool_switch_departure' = Pen!MustDepart(sample)
        /\ Pen!Marks(desired # sample)
        /\ UNCHANGED <<emitted, pen_sent, pen_target, pen_certain>>
    BY DEF Pen!PenUpdate, Pen!Valid, Pen!Samples, PenSamples
  <1>2. lifecycle' \in SUBSET Pen!Flags /\ (desired # sample) \in BOOLEAN
        /\ Pen!MustDepart(sample) \in BOOLEAN
    BY DEF PenInv, PenTypes, Pen!PenUpdate, Pen!Changes, Pen!MustDepart, PenSamples
  <1> QED
    BY <1>1, <1>2, PenChanges

LEMMA PenDepartStep ==
  ASSUME PenInv, Pen!PenDepart
  PROVE  PenInv'
  <1> DEFINE next == Pen!Departed(desired)
  <1>1. /\ next \in PenSamples /\ ~next.tip /\ ~next.in_range
        /\ lifecycle' \in SUBSET Pen!Flags
    BY DEF PenInv, PenTypes, PenSamples, Pen!Departed, Pen!PenDepart, Pen!Changes
  <1>2. /\ Pen!Usable /\ desired' = next /\ tool_switch_departure' = FALSE
        /\ Pen!Marks(desired # next) /\ (desired # next) \in BOOLEAN
        /\ UNCHANGED <<emitted, pen_sent, pen_target, pen_certain>>
    BY DEF Pen!PenDepart
  <1> HIDE DEF next
  <1> QED
    BY <1>1, <1>2, PenChanges

LEMMA PenSubmitStep ==
  ASSUME PenInv, Pen!Submit
  PROVE  PenInv'
  <1>1. /\ Pen!Usable /\ dirty /\ transfer_inflight' = TRUE
        /\ submitted_non_neutral' = Pen!NonNeutral /\ pen_sent' = Pen!Wire
        /\ UNCHANGED <<dirty, completion_result, emitted_non_neutral, stage, applied>>
        /\ UNCHANGED <<desired, emitted, lifecycle, tool_switch_departure>>
        /\ UNCHANGED <<pen_target, pen_certain>>
    BY DEF Pen!Submit, Pen!Submits, Pen!penVars
  <1>2. /\ Pen!Wire \in PenSamples
        /\ ~Pen!Wire.in_range =>
             ~Pen!Wire.tip /\ ~Pen!Wire.eraser /\ Pen!Wire.barrel = {}
        /\ Pen!Wire.in_range => desired.in_range
    BY PenWire DEF PenInv
  <1>3. Pen!Wire' = Pen!Wire
    BY <1>1 DEF Pen!Wire
  <1>4. Pen!NonNeutral \in BOOLEAN /\ (desired.in_range => Pen!NonNeutral)
    BY DEF PenInv, PenTypes, PenSamples, Pen!NonNeutral
  <1>5. PenTypes'
    BY <1>1, <1>2, <1>4 DEF PenInv, PenTypes, Pen!FlightTypeOK
  <1>6. PenFlightInv'
    BY <1>1, <1>2, <1>3, <1>4 DEF PenInv, PenFlightInv, Pen!Usable
  <1>7. PenCloseInv' /\ PenToolInv'
    BY <1>1 DEF PenInv, PenFlightInv, PenCloseInv, PenToolInv, Pen!Usable
  <1> QED
    BY <1>5, <1>6, <1>7 DEF PenInv

LEMMA PenApplyStep ==
  ASSUME PenInv, Pen!Apply
  PROVE  PenInv'
  <1>1. /\ transfer_inflight /\ ~applied /\ applied' = TRUE /\ pen_target' = pen_sent
        /\ UNCHANGED <<dirty, transfer_inflight, completion_result,
                       emitted_non_neutral, submitted_non_neutral, stage>>
        /\ UNCHANGED <<desired, emitted, lifecycle, tool_switch_departure>>
        /\ UNCHANGED <<pen_sent, pen_certain>>
    BY DEF Pen!Apply, Pen!TargetApplies, Pen!penVars
  <1>2. Pen!Wire' = Pen!Wire
    BY <1>1 DEF Pen!Wire
  <1>3. PenTypes'
    BY <1>1 DEF PenInv, PenTypes, Pen!FlightTypeOK
  <1>4. PenFlightInv' /\ PenToolInv'
    BY <1>1, <1>2 DEF PenInv, PenFlightInv, PenToolInv
  <1>5. PenCloseInv'
    BY <1>1 DEF PenInv, PenFlightInv, PenCloseInv
  <1> QED
    BY <1>3, <1>4, <1>5 DEF PenInv

(* A report that arrived leaves the target with what emitted says then.     *)
LEMMA PenCompleteStep ==
  ASSUME PenInv, NEW result \in Pen!Results, Pen!Complete(result)
  PROVE  PenInv'
  <1>1. /\ transfer_inflight /\ Pen!Fits(result)
        /\ transfer_inflight' = FALSE /\ applied' = FALSE
        /\ completion_result' = result /\ submitted_non_neutral' = FALSE
        /\ emitted_non_neutral' =
             CASE result = "OK" -> submitted_non_neutral
               [] result = "STALL" -> emitted_non_neutral
               [] OTHER -> emitted_non_neutral \/ submitted_non_neutral
        /\ emitted' = IF result = "OK" THEN Pen!Emitted ELSE emitted
        /\ tool_switch_departure' = (tool_switch_departure /\ result # "OK")
        /\ dirty' = (~Pen!MayHaveApplied(result)
                     \/ (result = "OK" /\ tool_switch_departure))
        /\ pen_sent' = Pen!Away
        /\ pen_certain' = CASE result = "OK" -> TRUE [] result = "IO" -> FALSE
                            [] OTHER -> pen_certain
        /\ UNCHANGED <<stage, desired, pen_target>>
    BY DEF Pen!Complete, Pen!Completes
  <1>2. lifecycle' \subseteq Pen!Flags
    BY DEF PenInv, PenTypes, Pen!Complete
  <1>3. /\ result = "OK" => applied
        /\ result = "STALL" => ~applied
        /\ result \in {"OK", "STALL", "IO"}
        /\ dirty' = (result = "STALL" \/ (result = "OK" /\ tool_switch_departure))
    BY <1>1 DEF Pen!Fits, Pen!Results, Pen!MayHaveApplied
  <1>4. Pen!Away \in PenSamples /\ ~Pen!Away.in_range /\ ~Pen!Away.tip
        /\ ~Pen!Away.eraser /\ Pen!Away.barrel = {}
    BY DEF Pen!Away, PenSamples
  <1>5. /\ Pen!Emitted \in PenSamples /\ (Pen!Emitted.tip => Pen!Emitted.in_range)
        /\ tool_switch_departure => ~Pen!Emitted.in_range
        /\ ~tool_switch_departure => Pen!Emitted = desired
    BY DEF PenInv, PenTypes, PenSamples, Pen!Emitted
  <1>6. /\ Pen!Wire.in_range =>
             ~tool_switch_departure /\ Pen!Wire = desired /\ desired.in_range
        /\ ~tool_switch_departure => Pen!Wire.in_range = desired.in_range
    BY PenWire DEF PenInv
  <1>7. PenTypes'
    <2>1. Pen!FlightTypeOK'
      BY <1>1, <1>3 DEF PenInv, PenTypes, Pen!FlightTypeOK, Pen!Results
    <2>2. emitted' \in PenSamples /\ (emitted'.tip => emitted'.in_range)
      BY <1>1, <1>5 DEF PenInv, PenTypes
    <2>3. pen_certain' \in BOOLEAN /\ tool_switch_departure' \in BOOLEAN
      BY <1>1, <1>3 DEF PenInv, PenTypes
    <2> QED
      BY <1>1, <1>2, <1>4, <2>1, <2>2, <2>3 DEF PenInv, PenTypes
  <1>8. PenFlightInv'
    BY <1>1 DEF PenFlightInv
  <1>9. PenCloseInv'
    <2>1. pen_target.in_range => emitted_non_neutral'
      BY <1>1, <1>3 DEF PenInv, PenTypes, Pen!FlightTypeOK, PenFlightInv, PenCloseInv
    <2>2. stage # "closed"
      BY <1>1 DEF PenInv, PenFlightInv
    <2>3. ASSUME stage = "neutral", result = "OK"
          PROVE  ~pen_target.in_range
      BY <1>1, <1>3, <1>6, <2>3 DEF PenInv, PenFlightInv, PenCloseInv
    <2>4. stage = "neutral" => ~desired.in_range /\ ~tool_switch_departure
      BY DEF PenInv, PenCloseInv
    <2>5. tool_switch_departure' => tool_switch_departure
      BY <1>1 DEF PenInv, PenTypes
    <2> QED
      BY <1>1, <2>1, <2>2, <2>3, <2>4, <2>5 DEF PenCloseInv
  <1>10. PenToolInv'
    <2>1. CASE result = "OK"
      <3>1. pen_target = Pen!Wire /\ emitted' = Pen!Emitted
        BY <1>1, <1>3, <2>1 DEF PenInv, PenFlightInv
      <3>2. pen_target.in_range <=> Pen!Emitted.in_range
        BY <1>5, <1>6, <3>1 DEF PenInv, PenTypes, PenSamples
      <3> QED
        BY <1>1, <1>5, <1>6, <2>1, <3>1, <3>2 DEF PenToolInv
    <2>2. CASE result = "STALL"
      BY <1>1, <1>3, <2>2 DEF PenInv, PenTypes, PenToolInv
    <2>3. CASE result = "IO"
      BY <1>1, <1>3, <2>3 DEF PenInv, PenTypes, PenToolInv
    <2> QED
      BY <1>3, <2>1, <2>2, <2>3
  <1> QED
    BY <1>7, <1>8, <1>9, <1>10 DEF PenInv

(* A close that finds nothing to send finds a target out of range.          *)
LEMMA PenCloseStep ==
  ASSUME PenInv, Pen!Close
  PROVE  PenInv'
  <1>1. /\ Pen!Usable /\ completion_result = "OK"
        /\ dirty' = (Pen!HadNonNeutral \/ emitted_non_neutral)
        /\ stage' = "neutral"
        /\ UNCHANGED <<transfer_inflight, completion_result, emitted_non_neutral,
                       submitted_non_neutral, applied>>
        /\ desired' = Pen!Departed(desired) /\ tool_switch_departure' = FALSE
        /\ UNCHANGED <<emitted, lifecycle, pen_sent, pen_target, pen_certain>>
    BY DEF Pen!Close, Pen!Neutralizes
  <1>2. desired' \in PenSamples /\ ~desired'.in_range /\ ~desired'.tip
    BY <1>1 DEF PenInv, PenTypes, PenSamples, Pen!Departed
  <1>3. Pen!HadNonNeutral \in BOOLEAN
    BY DEF Pen!HadNonNeutral
  <1>4. PenTypes'
    BY <1>1, <1>2, <1>3 DEF PenInv, PenTypes, Pen!FlightTypeOK
  <1>5. PenFlightInv' /\ PenToolInv'
    BY <1>1, <1>2 DEF PenInv, PenFlightInv, PenToolInv, Pen!Usable
  <1>6. PenCloseInv'
    BY <1>1, <1>2 DEF PenInv, PenFlightInv, PenCloseInv, Pen!Usable
  <1> QED
    BY <1>4, <1>5, <1>6 DEF PenInv

LEMMA PenOtherStep ==
  ASSUME PenInv, Pen!ReadOutcome \/ Pen!Unregister \/ UNCHANGED Pen!vars
  PROVE  PenInv'
  <1>1. /\ UNCHANGED <<desired, emitted, lifecycle, tool_switch_departure>>
        /\ UNCHANGED <<pen_sent, pen_target, pen_certain>>
        /\ UNCHANGED <<dirty, transfer_inflight, emitted_non_neutral,
                       submitted_non_neutral, applied>>
    BY DEF Pen!ReadOutcome, Pen!ReadsOutcome, Pen!Unregister, Pen!Unregisters, Pen!vars,
           Pen!flightVars, Pen!penVars
  <1>2. \/ ~transfer_inflight /\ completion_result' = "OK" /\ stage' = "open"
        \/ /\ stage = "neutral" /\ ~transfer_inflight /\ completion_result = "OK" /\ ~dirty
           /\ stage' = "closed" /\ completion_result' = completion_result
        \/ UNCHANGED <<stage, completion_result>>
    BY DEF Pen!ReadOutcome, Pen!ReadsOutcome, Pen!Unregister, Pen!Unregisters, Pen!vars,
           Pen!flightVars
  <1>3. Pen!Wire' = Pen!Wire
    BY <1>1 DEF Pen!Wire
  <1>4. PenTypes'
    BY <1>1, <1>2 DEF PenInv, PenTypes, Pen!FlightTypeOK, Pen!Results
  <1>5. PenFlightInv' /\ PenCloseInv' /\ PenToolInv'
    BY <1>1, <1>2, <1>3 DEF PenInv, PenFlightInv, PenCloseInv, PenToolInv
  <1> QED
    BY <1>4, <1>5 DEF PenInv

LEMMA PenNext ==
  ASSUME PenInv, [Pen!Next]_Pen!vars
  PROVE  PenInv'
  <1>1. CASE \E sample \in Pen!Samples : Pen!PenUpdate(sample)
    BY <1>1, PenUpdateStep
  <1>2. CASE Pen!PenDepart
    BY <1>2, PenDepartStep
  <1>3. CASE Pen!Submit
    BY <1>3, PenSubmitStep
  <1>4. CASE Pen!Apply
    BY <1>4, PenApplyStep
  <1>5. CASE \E result \in Pen!Results : Pen!Complete(result)
    BY <1>5, PenCompleteStep
  <1>6. CASE Pen!Close
    BY <1>6, PenCloseStep
  <1>7. CASE Pen!ReadOutcome \/ Pen!Unregister \/ UNCHANGED Pen!vars
    BY <1>7, PenOtherStep
  <1> QED
    BY <1>1, <1>2, <1>3, <1>4, <1>5, <1>6, <1>7 DEF Pen!Next

(* Only Apply changes the target; in range before and after, with known     *)
(* outcomes, the report in flight has the tool that was there.              *)
LEMMA PenToolLeaves ==
  ASSUME PenInv, [Pen!Next]_Pen!vars, pen_certain, pen_target.in_range,
         pen_target'.in_range
  PROVE  pen_target.eraser = pen_target'.eraser
  <1>1. CASE Pen!Apply
    <2>1. transfer_inflight /\ ~applied /\ pen_target' = pen_sent
      BY <1>1 DEF Pen!Apply, Pen!TargetApplies
    <2>2. pen_sent = Pen!Wire /\ Pen!Wire.in_range
      BY <2>1 DEF PenInv, PenFlightInv
    <2>3. ~tool_switch_departure /\ Pen!Wire = desired /\ desired.in_range
      BY <2>2, PenWire DEF PenInv
    <2> QED
      BY <2>1, <2>2, <2>3 DEF PenInv, PenToolInv
  <1>2. CASE ~Pen!Apply
    BY <1>2 DEF Pen!Next, Pen!vars, Pen!PenUpdate, Pen!PenDepart, Pen!Submit, Pen!Complete,
                Pen!ReadOutcome, Pen!Close, Pen!Unregister
  <1> QED
    BY <1>1, <1>2

(* While the behaviour is about another profile, the pen is away.           *)
PenKept ==
  /\ profile = "pen" => PenInv
  /\ profile # "pen" => pen_target = Pen!Away

LEMMA PenRuns ==
  ASSUME [Next]_vars
  PROVE  /\ profile' = profile
         /\ profile = "pen" => [Pen!Next]_Pen!vars
         /\ profile # "pen" => UNCHANGED penVars
  BY DEF Next, vars, Pen!vars, Pen!flightVars, Pen!penVars, penVars

LEMMA PenKeptHolds == Spec => []PenKept
  <1>1. Init => PenKept
    BY PenInit DEF Init, PenKept, Pen!Init
  <1>2. PenKept /\ [Next]_vars => PenKept'
    <2> SUFFICES ASSUME PenKept, [Next]_vars PROVE PenKept'
      OBVIOUS
    <2>1. CASE profile = "pen"
      BY <2>1, PenRuns, PenNext DEF PenKept
    <2>2. CASE profile # "pen"
      BY <2>2, PenRuns DEF PenKept, penVars, Pen!Away, Pen!Origin
    <2> QED
      BY <2>1, <2>2
  <1> QED
    BY <1>1, <1>2, PTL DEF Spec

(* An unregistered pen has left the target, whatever reports failed before. *)
THEOREM ClosedPenIsAwayHolds == Spec => []ClosedPenIsAway
  <1>1. PenKept => ClosedPenIsAway
    BY DEF PenKept, PenInv, PenTypes, PenCloseInv, ClosedPenIsAway, Pen!ClosedPenIsAway,
           Pen!Away
  <1> QED
    BY <1>1, PenKeptHolds, PTL

(* With known outcomes a tool leaves range before the other enters.         *)
THEOREM KnownToolLeavesRangeHolds == Spec => KnownToolLeavesRange
  <1>1. PenKept /\ [Next]_vars =>
          [(pen_certain /\ pen_target.in_range /\ pen_target'.in_range)
              => pen_target.eraser = pen_target'.eraser]_Pen!vars
    <2> SUFFICES ASSUME PenKept, [Next]_vars, pen_certain, pen_target.in_range,
                        pen_target'.in_range
                 PROVE  pen_target.eraser = pen_target'.eraser
      OBVIOUS
    <2>1. CASE profile = "pen"
      BY <2>1, PenRuns, PenToolLeaves DEF PenKept
    <2>2. CASE profile # "pen"
      BY <2>2, PenRuns DEF penVars
    <2> QED
      BY <2>1, <2>2
  <1> QED
    BY <1>1, PenKeptHolds, PTL DEF Spec, KnownToolLeavesRange, Pen!KnownToolLeavesRange

-----------------------------------------------------------------------------
(* Toggle, Gamepad, Battery and Raw                                         *)

(* What the state of each kind is, and that it is what was asked for.       *)
ControlTypes ==
  /\ kind \in Control!Kinds
  /\ kind = "toggle" => \E u \in AllowedUsages \cup {NoUsage} :
       state = [usage |-> u] /\ asked = {u} \ {NoUsage}
  /\ kind = "battery" =>
       \/ state = [has |-> FALSE, strength |-> 0] /\ asked = {}
       \/ \E s \in Control!Strengths :
            state = [has |-> TRUE, strength |-> s] /\ asked = {s}
  /\ kind \in {"gamepad_hat", "gamepad_buttons"} =>
       \E b \in SUBSET Buttons, v \in AxisValues, h \in SUBSET Control!Directions :
         /\ Control!Encodes(h)
         /\ state = [buttons |-> b, axis |-> v, hat |-> Control!Hat(h)]
         /\ asked = [buttons |-> b, axis |-> v, dpad |-> h]
  /\ Control!FlightTypeOK /\ certain \in BOOLEAN

(* The report in flight says what was asked for last.                       *)
ControlFlightInv ==
  /\ applied => transfer_inflight /\ target = Control!Decode(report)
  /\ transfer_inflight =>
       /\ dirty
       /\ Control!Decode(report) = asked
       /\ kind \notin {"battery", "raw"} =>
            submitted_non_neutral = (state # Control!Neutral(kind))

(* A Node that is known to show nothing is at rest.                         *)
ControlTargetInv ==
  certain /\ ~applied =>
    /\ ~dirty => target = asked
    /\ ~emitted_non_neutral /\ kind \notin {"battery", "raw"} =>
         target = Control!Rest(kind)

ControlInv == ControlTypes /\ ControlFlightInv /\ ControlTargetInv

-----------------------------------------------------------------------------
(* The D-pad.  The eight positions of a hat are those of the eight sets     *)
(* without opposites, four bits are those of the sixteen sets.              *)
Positions ==
  {{"up"}, {"up", "right"}, {"right"}, {"down", "right"}, {"down"}, {"down", "left"},
   {"left"}, {"up", "left"}}

LEMMA HatSets ==
  ASSUME NEW h \in SUBSET Control!Directions, h # {},
         ~({"up", "down"} \subseteq h), ~({"left", "right"} \subseteq h)
  PROVE  h \in Positions
  <1>1. \A d \in h : d \in {"up", "right", "down", "left"}
    BY DEF Control!Directions
  <1>2. CASE "up" \in h
    <2>1. CASE "right" \in h
      <3>1. h = {"up", "right"}
        BY <1>1, <1>2, <2>1
      <3> QED
        BY <3>1 DEF Positions
    <2>2. CASE "left" \in h
      <3>1. h = {"up", "left"}
        BY <1>1, <1>2, <2>2
      <3> QED
        BY <3>1 DEF Positions
    <2>3. CASE "right" \notin h /\ "left" \notin h
      <3>1. h = {"up"}
        BY <1>1, <1>2, <2>3
      <3> QED
        BY <3>1 DEF Positions
    <2> QED
      BY <2>1, <2>2, <2>3
  <1>3. CASE "down" \in h
    <2>1. CASE "right" \in h
      <3>1. h = {"down", "right"}
        BY <1>1, <1>3, <2>1
      <3> QED
        BY <3>1 DEF Positions
    <2>2. CASE "left" \in h
      <3>1. h = {"down", "left"}
        BY <1>1, <1>3, <2>2
      <3> QED
        BY <3>1 DEF Positions
    <2>3. CASE "right" \notin h /\ "left" \notin h
      <3>1. h = {"down"}
        BY <1>1, <1>3, <2>3
      <3> QED
        BY <3>1 DEF Positions
    <2> QED
      BY <2>1, <2>2, <2>3
  <1>4. CASE "up" \notin h /\ "down" \notin h
    <2>1. CASE "right" \in h
      <3>1. h = {"right"}
        BY <1>1, <1>4, <2>1
      <3> QED
        BY <3>1 DEF Positions
    <2>2. CASE "right" \notin h
      <3>1. h = {"left"}
        BY <1>1, <1>4, <2>2
      <3> QED
        BY <3>1 DEF Positions
    <2> QED
      BY <2>1, <2>2
  <1> QED
    BY <1>2, <1>3, <1>4

(* Each position has a number of its own.                                   *)
LEMMA ClockwiseIs ==
  /\ Control!Clockwise({"up"}) = 0
  /\ Control!Clockwise({"up", "right"}) = 1
  /\ Control!Clockwise({"right"}) = 2
  /\ Control!Clockwise({"down", "right"}) = 3
  /\ Control!Clockwise({"down"}) = 4
  /\ Control!Clockwise({"down", "left"}) = 5
  /\ Control!Clockwise({"left"}) = 6
  /\ Control!Clockwise({"up", "left"}) = 7
  BY DEF Control!Clockwise

LEMMA ClockwiseInjective ==
  ASSUME NEW g \in Positions, NEW h \in Positions
  PROVE  /\ Control!Clockwise(h) \in 0..7
         /\ Control!Clockwise(g) = Control!Clockwise(h) => g = h
  BY ClockwiseIs DEF Positions

(* The bits of a set are read back one by one.                              *)
LEMMA BitsRead ==
  ASSUME NEW h \in SUBSET Control!Directions
  PROVE  /\ Control!Bits(h) \in 0..15
         /\ {d \in Control!Directions :
               LET weight == CASE d = "up" -> 1 [] d = "down" -> 2
                               [] d = "right" -> 4 [] d = "left" -> 8
               IN  (Control!Bits(h) \div weight) % 2 = 1} = h
  <1> DEFINE Weight(d) == CASE d = "up" -> 1 [] d = "down" -> 2
                            [] d = "right" -> 4 [] d = "left" -> 8
             u == IF "up" \in h THEN 1 ELSE 0
             n == IF "down" \in h THEN 1 ELSE 0
             r == IF "right" \in h THEN 1 ELSE 0
             l == IF "left" \in h THEN 1 ELSE 0
  <1>1. Control!Bits(h) = u + 2 * n + 4 * r + 8 * l
    BY DEF Control!Bits, Control!Bit
  <1>2. u \in {0, 1} /\ n \in {0, 1} /\ r \in {0, 1} /\ l \in {0, 1}
    OBVIOUS
  <1>3. /\ u = 1 <=> "up" \in h
        /\ n = 1 <=> "down" \in h
        /\ r = 1 <=> "right" \in h
        /\ l = 1 <=> "left" \in h
    OBVIOUS
  <1> HIDE DEF u, n, r, l
  <1>4. /\ (Control!Bits(h) \div 1) % 2 = u
        /\ (Control!Bits(h) \div 2) % 2 = n
        /\ (Control!Bits(h) \div 4) % 2 = r
        /\ (Control!Bits(h) \div 8) % 2 = l
    BY <1>1, <1>2
  <1>5. \A d \in Control!Directions : (Control!Bits(h) \div Weight(d)) % 2 = 1 <=> d \in h
    <2>1. Weight("up") = 1 /\ Weight("down") = 2 /\ Weight("right") = 4 /\ Weight("left") = 8
      OBVIOUS
    <2> HIDE DEF Weight
    <2> QED
      BY <1>3, <1>4, <2>1 DEF Control!Directions
  <1>6. Control!Bits(h) \in 0..15
    BY <1>1, <1>2
  <1> QED
    BY <1>5, <1>6

(* A null value is outside of the range it stands beside.                   *)
LEMMA NullIsOutside ==
  /\ Control!HatNull(StrengthMin, StrengthMax, StrengthBits) \notin Control!Strengths
  /\ Control!HatNull(0, 7, 4) \notin 0..7
  <1>1. Control!ControlAssumption
    BY ProfileAssumptions
  <1>2. Control!HatNull(StrengthMin, StrengthMax, StrengthBits) \notin Control!Strengths
    BY <1>1 DEF Control!ControlAssumption, Control!HatNull, Control!Strengths
  <1>3. Control!HatNull(0, 7, 4) = 15
    BY DEF Control!HatNull
  <1> QED
    BY <1>2, <1>3

(* The target reads the directions back that the D-pad was set to.          *)
LEMMA DpadReads ==
  ASSUME NEW h \in SUBSET Control!Directions, Control!Encodes(h)
  PROVE  Control!Held(IF ~Control!HatSwitch \/ Control!Hat(h).has THEN Control!Hat(h).value
                      ELSE Control!HatNull(0, 7, 4)) = h
  <1>1. CASE ~Control!HatSwitch
    BY <1>1, BitsRead DEF Control!Held, Control!Hat
  <1>2. CASE Control!HatSwitch /\ h = {}
    BY <1>2, NullIsOutside DEF Control!Held, Control!Hat
  <1>3. CASE Control!HatSwitch /\ h # {}
    <2>1. h \in Positions
      BY <1>3, HatSets DEF Control!Encodes
    <2>2. /\ Control!Hat(h).has /\ Control!Hat(h).value = Control!Clockwise(h)
          /\ Control!Clockwise(h) \in 0..7
      BY <1>3, <2>1, ClockwiseInjective DEF Control!Hat
    <2> DEFINE P(g) == /\ g # {} /\ Control!Encodes(g)
                       /\ Control!Clockwise(g) = Control!Clockwise(h)
    <2>3. \A g \in SUBSET Control!Directions : P(g) => g = h
      <3> SUFFICES ASSUME NEW g \in SUBSET Control!Directions, P(g) PROVE g = h
        OBVIOUS
      <3>1. g \in Positions
        BY <1>3, HatSets DEF Control!Encodes
      <3> QED
        BY <2>1, <3>1, ClockwiseInjective
    <2>4. P(h)
      BY <1>3
    <2>5. (CHOOSE g \in SUBSET Control!Directions : P(g)) = h
      <3> HIDE DEF P
      <3> QED
        BY <2>3, <2>4
    <2> QED
      BY <1>3, <2>2, <2>5 DEF Control!Held
  <1> QED
    BY <1>1, <1>2, <1>3

(* Two positions of the D-pad that are kept alike are the same.             *)
LEMMA HatInjective ==
  ASSUME NEW g \in SUBSET Control!Directions, NEW h \in SUBSET Control!Directions,
         Control!Encodes(g), Control!Encodes(h), Control!Hat(g) = Control!Hat(h)
  PROVE  g = h
  BY DpadReads

(* A D-pad nobody holds.                                                    *)
LEMMA NoDirection == Control!NoHat = Control!Hat({}) /\ Control!Encodes({})
  <1>1. Control!Bits({}) = 0
    BY DEF Control!Bits, Control!Bit
  <1>2. Control!NoHat = Control!Hat({})
    BY <1>1 DEF Control!NoHat, Control!Hat
  <1>3. "up" \notin {} /\ "left" \notin {}
    OBVIOUS
  <1>4. Control!Encodes({})
    BY <1>3 DEF Control!Encodes
  <1> QED
    BY <1>2, <1>4

(* A report decodes to what was asked for, and a neutral one to rest.       *)
LEMMA ReportIsAsked ==
  ASSUME ControlTypes, kind # "raw"
  PROVE  /\ Control!Decode(Control!Serialize) = asked
         /\ kind # "battery" /\ state = Control!Neutral(kind) => asked = Control!Rest(kind)
  <1>1. CASE kind = "toggle"
    <2>1. PICK u \in AllowedUsages \cup {NoUsage} :
            state = [usage |-> u] /\ asked = {u} \ {NoUsage}
      BY <1>1 DEF ControlTypes
    <2>2. NoUsage \notin AllowedUsages
      BY ProfileAssumptions DEF Control!ControlAssumption
    <2>3. Control!Serialize = [usages |-> AllowedUsages \cap {u}]
      BY <1>1, <2>1 DEF Control!Serialize
    <2>4. Control!Decode(Control!Serialize) = AllowedUsages \cap {u}
      BY <1>1, <2>3 DEF Control!Decode
    <2>5. Control!Neutral(kind) = [usage |-> NoUsage] /\ Control!Rest(kind) = {}
      BY <1>1 DEF Control!Neutral, Control!Rest
    <2>6. state = Control!Neutral(kind) => u = NoUsage
      BY <2>1, <2>5
    <2> QED
      BY <2>1, <2>2, <2>4, <2>5, <2>6
  <1>2. CASE kind = "battery"
    <2>1. Control!Serialize =
            [strength |-> IF state.has THEN state.strength
                          ELSE Control!HatNull(StrengthMin, StrengthMax, StrengthBits)]
      BY <1>2 DEF Control!Serialize
    <2>2. Control!Decode(Control!Serialize) =
            {Control!Serialize.strength} \cap Control!Strengths
      BY <1>2 DEF Control!Decode
    <2>3. CASE state = [has |-> FALSE, strength |-> 0] /\ asked = {}
      BY <1>2, <2>1, <2>2, <2>3, NullIsOutside
    <2>4. CASE \E s \in Control!Strengths :
                 state = [has |-> TRUE, strength |-> s] /\ asked = {s}
      BY <1>2, <2>1, <2>2, <2>4
    <2> QED
      BY <1>2, <2>3, <2>4 DEF ControlTypes
  <1>3. CASE kind \in {"gamepad_hat", "gamepad_buttons"}
    <2>1. PICK b \in SUBSET Buttons, v \in AxisValues, h \in SUBSET Control!Directions :
            /\ Control!Encodes(h)
            /\ state = [buttons |-> b, axis |-> v, hat |-> Control!Hat(h)]
            /\ asked = [buttons |-> b, axis |-> v, dpad |-> h]
      BY <1>3 DEF ControlTypes
    <2> DEFINE d == IF ~Control!HatSwitch \/ state.hat.has THEN state.hat.value
                    ELSE Control!HatNull(0, 7, 4)
    <2>2. Control!Serialize = [buttons |-> state.buttons, axis |-> state.axis, dpad |-> d]
      BY <1>3 DEF Control!Serialize
    <2>3. Control!Held(d) = h
      BY <2>1, DpadReads
    <2> HIDE DEF d
    <2>4. Control!Decode(Control!Serialize) = [buttons |-> b, axis |-> v, dpad |-> h]
      BY <1>3, <2>1, <2>2, <2>3 DEF Control!Decode
    <2>5. /\ Control!Neutral(kind) = [buttons |-> {}, axis |-> 0, hat |-> Control!NoHat]
          /\ Control!Rest(kind) = [buttons |-> {}, axis |-> 0, dpad |-> {}]
      BY <1>3 DEF Control!Neutral, Control!Rest
    <2>6. Control!NoHat = Control!Hat({}) /\ Control!Encodes({})
      BY NoDirection
    <2>7. state = Control!Neutral(kind) => b = {} /\ v = 0 /\ Control!Hat(h) = Control!NoHat
      BY <2>1, <2>5
    <2>8. state = Control!Neutral(kind) => h = {}
      BY <2>1, <2>6, <2>7, HatInjective
    <2> QED
      BY <2>1, <2>4, <2>5, <2>7, <2>8
  <1> QED
    BY <1>1, <1>2, <1>3 DEF ControlTypes, Control!Kinds


(* The kind of a Node never changes, nor what a report means.               *)
LEMMA DecodeKept ==
  ASSUME kind' = kind
  PROVE  /\ Control!Decode(report)' = Control!Decode(report')
         /\ \A h \in SUBSET Control!Directions :
              /\ Control!Encodes(h)' = Control!Encodes(h)
              /\ Control!Hat(h)' = Control!Hat(h)
  <1>1. \A h \in SUBSET Control!Directions :
          /\ Control!Encodes(h)' = Control!Encodes(h)
          /\ Control!Hat(h)' = Control!Hat(h)
    BY DEF Control!Encodes, Control!Hat, Control!HatSwitch
  <1>2. Control!Decode(report)' = Control!Decode(report')
    BY DEF Control!Decode, Control!Held, Control!HatSwitch, Control!Encodes
  <1> QED
    BY <1>1, <1>2

LEMMA ControlInit ==
  ASSUME Control!Init
  PROVE  ControlInv
  <1>1. /\ kind \in Control!Kinds /\ state = Control!Neutral(kind)
        /\ target = Control!Rest(kind) /\ asked = Control!Rest(kind) /\ certain = TRUE
        /\ Control!FlightInit
    BY DEF Control!Init
  <1>2. Control!FlightTypeOK /\ ~transfer_inflight /\ ~applied
    BY <1>1 DEF Control!FlightInit, Control!FlightTypeOK, Control!Results
  <1>3. ControlTypes
    <2>1. CASE kind = "toggle"
      BY <1>1, <1>2, <2>1 DEF ControlTypes, Control!Neutral, Control!Rest
    <2>2. CASE kind = "battery"
      BY <1>1, <1>2, <2>2 DEF ControlTypes, Control!Neutral, Control!Rest
    <2>3. CASE kind = "raw"
      BY <1>1, <1>2, <2>3 DEF ControlTypes
    <2>4. CASE kind \in {"gamepad_hat", "gamepad_buttons"}
      <3>1. 0 \in AxisValues
        BY ProfileAssumptions DEF Control!ControlAssumption
      <3>2. /\ state = [buttons |-> {}, axis |-> 0, hat |-> Control!Hat({})]
            /\ asked = [buttons |-> {}, axis |-> 0, dpad |-> {}]
        BY <1>1, <2>4, NoDirection DEF Control!Neutral, Control!Rest
      <3> QED
        BY <1>1, <1>2, <2>4, <3>1, <3>2, NoDirection DEF ControlTypes
    <2> QED
      BY <1>1, <2>1, <2>2, <2>3, <2>4 DEF Control!Kinds
  <1> QED
    BY <1>1, <1>2, <1>3 DEF ControlInv, ControlFlightInv, ControlTargetInv

(* A state call asks for something else, or finds what is asked for.        *)
LEMMA ControlChanges ==
  ASSUME ControlInv, Control!Usable, NEW changed \in BOOLEAN, Control!Marks(changed),
         ControlTypes', ~changed => asked' = asked,
         UNCHANGED <<kind, report, target, certain>>
  PROVE  ControlInv'
  <1>1. /\ ~transfer_inflight /\ ~applied
        /\ UNCHANGED <<transfer_inflight, emitted_non_neutral, applied>>
        /\ dirty' = (dirty \/ changed)
    BY DEF Control!Usable, Control!Marks, ControlInv, ControlFlightInv
  <1>2. ControlFlightInv'
    BY <1>1 DEF ControlFlightInv
  <1>3. ControlTargetInv'
    BY <1>1 DEF ControlInv, ControlTargetInv
  <1> QED
    BY <1>2, <1>3 DEF ControlInv

(* Of the types only the state and what was asked for are at stake in a     *)
(* state call.                                                              *)
LEMMA ControlMarked ==
  ASSUME ControlInv, NEW changed \in BOOLEAN, Control!Marks(changed),
         UNCHANGED <<kind, report, target, certain>>
  PROVE  Control!FlightTypeOK' /\ kind' \in Control!Kinds /\ certain' \in BOOLEAN
  BY DEF ControlInv, ControlTypes, Control!Marks, Control!FlightTypeOK

LEMMA ToggleStep ==
  ASSUME ControlInv, NEW usage \in AllowedUsages \cup {NoUsage}, Control!Toggle(usage)
  PROVE  ControlInv'
  <1>1. /\ kind = "toggle" /\ Control!Usable
        /\ state' = [usage |-> usage] /\ asked' = {usage} \ {NoUsage}
        /\ Control!Marks(state.usage # usage)
        /\ UNCHANGED <<kind, report, target, certain>>
    BY DEF Control!Toggle
  <1>2. (state.usage # usage) \in BOOLEAN
    OBVIOUS
  <1>3. ControlTypes'
    BY <1>1, <1>2, ControlMarked DEF ControlTypes
  <1>4. state.usage = usage => asked' = asked
    BY <1>1 DEF ControlInv, ControlTypes
  <1> QED
    BY <1>1, <1>2, <1>3, <1>4, ControlChanges

(* What a state call of a gamepad leaves.                                   *)
LEMMA GamepadStep ==
  ASSUME ControlInv, Control!Gamepad, Control!Usable,
         UNCHANGED <<kind, report, target, certain>>,
         NEW changed \in BOOLEAN, Control!Marks(changed), ~changed => asked' = asked,
         NEW b \in SUBSET Buttons, NEW v \in AxisValues, NEW h \in SUBSET Control!Directions,
         Control!Encodes(h),
         state' = [buttons |-> b, axis |-> v, hat |-> Control!Hat(h)],
         asked' = [buttons |-> b, axis |-> v, dpad |-> h]
  PROVE  ControlInv'
  <1>1. Control!Encodes(h)' /\ Control!Hat(h)' = Control!Hat(h)
    BY DecodeKept
  <1>2. kind \in {"gamepad_hat", "gamepad_buttons"}
    BY DEF Control!Gamepad
  <1>3. ControlTypes'
    BY <1>1, <1>2, ControlMarked DEF ControlTypes
  <1> QED
    BY <1>3, ControlChanges

(* The state of a gamepad.                                                  *)
LEMMA GamepadIs ==
  ASSUME ControlInv, Control!Gamepad
  PROVE  \E b \in SUBSET Buttons, v \in AxisValues, h \in SUBSET Control!Directions :
           /\ Control!Encodes(h)
           /\ state = [buttons |-> b, axis |-> v, hat |-> Control!Hat(h)]
           /\ asked = [buttons |-> b, axis |-> v, dpad |-> h]
  BY DEF ControlInv, ControlTypes, Control!Gamepad

LEMMA GamepadButtonStep ==
  ASSUME ControlInv, NEW pressed \in Buttons, Control!GamepadButton(pressed)
  PROVE  ControlInv'
  <1>1. PICK b \in SUBSET Buttons, v \in AxisValues, h \in SUBSET Control!Directions :
          /\ Control!Encodes(h)
          /\ state = [buttons |-> b, axis |-> v, hat |-> Control!Hat(h)]
          /\ asked = [buttons |-> b, axis |-> v, dpad |-> h]
    BY GamepadIs DEF Control!GamepadButton
  <1> DEFINE next == IF pressed \in b THEN b \ {pressed} ELSE b \cup {pressed}
  <1>2. /\ Control!Gamepad /\ Control!Usable /\ Control!Marks(TRUE)
        /\ UNCHANGED <<kind, report, target, certain>>
        /\ state' = [buttons |-> next, axis |-> v, hat |-> Control!Hat(h)]
        /\ asked' = [buttons |-> next, axis |-> v, dpad |-> h]
    BY <1>1 DEF Control!GamepadButton
  <1>3. next \in SUBSET Buttons
    OBVIOUS
  <1> HIDE DEF next
  <1> QED
    BY <1>1, <1>2, <1>3, GamepadStep

LEMMA GamepadAxisStep ==
  ASSUME ControlInv, NEW value \in AxisValues, Control!GamepadAxis(value)
  PROVE  ControlInv'
  <1>1. PICK b \in SUBSET Buttons, v \in AxisValues, h \in SUBSET Control!Directions :
          /\ Control!Encodes(h)
          /\ state = [buttons |-> b, axis |-> v, hat |-> Control!Hat(h)]
          /\ asked = [buttons |-> b, axis |-> v, dpad |-> h]
    BY GamepadIs DEF Control!GamepadAxis
  <1>2. /\ Control!Gamepad /\ Control!Usable /\ Control!Marks(v # value)
        /\ UNCHANGED <<kind, report, target, certain>>
        /\ state' = [buttons |-> b, axis |-> value, hat |-> Control!Hat(h)]
        /\ asked' = [buttons |-> b, axis |-> value, dpad |-> h]
        /\ (v # value) \in BOOLEAN /\ (v = value => asked' = asked)
    BY <1>1 DEF Control!GamepadAxis
  <1> QED
    BY <1>1, <1>2, GamepadStep

LEMMA DpadStep ==
  ASSUME ControlInv, NEW holds \in SUBSET Control!Directions, Control!Dpad(holds)
  PROVE  ControlInv'
  <1>1. PICK b \in SUBSET Buttons, v \in AxisValues, h \in SUBSET Control!Directions :
          /\ Control!Encodes(h)
          /\ state = [buttons |-> b, axis |-> v, hat |-> Control!Hat(h)]
          /\ asked = [buttons |-> b, axis |-> v, dpad |-> h]
    BY GamepadIs DEF Control!Dpad
  <1> DEFINE changed == Control!Hat(h) # Control!Hat(holds)
  <1>2. /\ Control!Gamepad /\ Control!Usable /\ Control!Marks(changed)
        /\ Control!Encodes(holds)
        /\ UNCHANGED <<kind, report, target, certain>>
        /\ state' = [buttons |-> b, axis |-> v, hat |-> Control!Hat(holds)]
        /\ asked' = [buttons |-> b, axis |-> v, dpad |-> holds]
    BY <1>1 DEF Control!Dpad
  <1>3. ~changed => asked' = asked
    BY <1>1, <1>2, HatInjective
  <1>4. changed \in BOOLEAN
    OBVIOUS
  <1> HIDE DEF changed
  <1> QED
    BY <1>1, <1>2, <1>3, <1>4, GamepadStep

LEMMA BatteryStep ==
  ASSUME ControlInv, NEW has \in BOOLEAN, NEW strength \in Control!Strengths,
         Control!Battery(has, strength)
  PROVE  ControlInv'
  <1> DEFINE next == [has |-> has, strength |-> IF has THEN strength ELSE 0]
  <1>1. /\ kind = "battery" /\ Control!Usable
        /\ state' = next /\ asked' = IF has THEN {strength} ELSE {}
        /\ Control!Marks(state # next)
        /\ UNCHANGED <<kind, report, target, certain>>
    BY DEF Control!Battery
  <1>2. (state # next) \in BOOLEAN
    OBVIOUS
  <1>3. ControlTypes'
    BY <1>1, <1>2, ControlMarked DEF ControlTypes
  <1>4. state = next => asked' = asked
    <2>1. \/ state.has = FALSE /\ asked = {}
          \/ state.has = TRUE /\ asked = {state.strength}
      BY <1>1 DEF ControlInv, ControlTypes
    <2>2. next.has = has /\ (has => next.strength = strength)
      OBVIOUS
    <2> HIDE DEF next
    <2> QED
      BY <1>1, <2>1, <2>2
  <1> QED
    BY <1>1, <1>2, <1>3, <1>4, ControlChanges

(* Nothing of the state and of what was asked for changes.                  *)
LEMMA ControlTypesKept ==
  ASSUME ControlTypes, UNCHANGED <<kind, state, asked>>, Control!FlightTypeOK',
         certain' \in BOOLEAN
  PROVE  ControlTypes'
  <1>1. \A h \in SUBSET Control!Directions :
          Control!Encodes(h)' = Control!Encodes(h) /\ Control!Hat(h)' = Control!Hat(h)
    BY DecodeKept
  <1> QED
    BY <1>1 DEF ControlTypes

LEMMA ControlSubmitStep ==
  ASSUME ControlInv, Control!Submit
  PROVE  ControlInv'
  <1>1. /\ kind # "raw" /\ Control!Usable /\ dirty
        /\ transfer_inflight' = TRUE /\ submitted_non_neutral' = Control!NonNeutral
        /\ UNCHANGED <<dirty, completion_result, emitted_non_neutral, stage, applied>>
        /\ report' = Control!Serialize
        /\ UNCHANGED <<kind, state, target, asked, certain>>
    BY DEF Control!Submit, Control!Submits
  <1>2. Control!NonNeutral \in BOOLEAN
        /\ (kind # "battery" => Control!NonNeutral = (state # Control!Neutral(kind)))
    BY DEF Control!NonNeutral
  <1>3. ControlTypes'
    BY <1>1, <1>2, ControlTypesKept DEF ControlInv, ControlTypes, Control!FlightTypeOK
  <1>4. ControlFlightInv'
    <2>1. ~applied
      BY <1>1 DEF ControlInv, ControlFlightInv, Control!Usable
    <2>2. Control!Decode(report') = asked
      BY <1>1, ReportIsAsked DEF ControlInv
    <2>3. Control!Decode(report)' = asked'
      BY <1>1, <2>2, DecodeKept
    <2> QED
      BY <1>1, <1>2, <2>1, <2>3 DEF ControlFlightInv
  <1>5. ControlTargetInv'
    BY <1>1 DEF ControlInv, ControlTargetInv
  <1> QED
    BY <1>3, <1>4, <1>5 DEF ControlInv

LEMMA RawSubmitStep ==
  ASSUME ControlInv, NEW bytes \in RawReports, Control!RawSubmit(bytes)
  PROVE  ControlInv'
  <1>1. /\ kind = "raw" /\ Control!Usable /\ completion_result = "OK"
        /\ report' = [bytes |-> bytes] /\ asked' = {bytes}
        /\ dirty' = TRUE /\ transfer_inflight' = TRUE
        /\ submitted_non_neutral' = FALSE /\ stage' = "open"
        /\ UNCHANGED <<completion_result, emitted_non_neutral, applied>>
        /\ UNCHANGED <<kind, state, target, certain>>
    BY DEF Control!RawSubmit
  <1>2. ControlTypes'
    BY <1>1 DEF ControlInv, ControlTypes, Control!FlightTypeOK
  <1>3. Control!Decode(report') = {bytes}
    BY <1>1 DEF Control!Decode
  <1>4. Control!Decode(report)' = asked'
    BY <1>1, <1>3, DecodeKept
  <1>5. ControlFlightInv'
    BY <1>1, <1>4 DEF ControlInv, ControlFlightInv, Control!Usable
  <1>6. ControlTargetInv'
    BY <1>1 DEF ControlTargetInv
  <1> QED
    BY <1>2, <1>5, <1>6 DEF ControlInv

LEMMA ControlApplyStep ==
  ASSUME ControlInv, Control!Apply
  PROVE  ControlInv'
  <1>1. /\ transfer_inflight /\ ~applied /\ applied' = TRUE
        /\ target' = Control!Decode(report)
        /\ UNCHANGED <<dirty, transfer_inflight, completion_result,
                       emitted_non_neutral, submitted_non_neutral, stage>>
        /\ UNCHANGED <<kind, state, report, asked, certain>>
    BY DEF Control!Apply, Control!TargetApplies
  <1>2. ControlTypes'
    BY <1>1, ControlTypesKept DEF ControlInv, ControlTypes, Control!FlightTypeOK
  <1>3. Control!Decode(report)' = Control!Decode(report)
    BY <1>1, DecodeKept
  <1>4. ControlFlightInv' /\ ControlTargetInv'
    BY <1>1, <1>3 DEF ControlInv, ControlFlightInv, ControlTargetInv
  <1> QED
    BY <1>2, <1>4 DEF ControlInv

(* A report that arrived shows what was asked for last.                     *)
LEMMA ControlCompleteStep ==
  ASSUME ControlInv, NEW result \in Control!Results, Control!Complete(result)
  PROVE  ControlInv'
  <1>1. /\ transfer_inflight /\ Control!Fits(result)
        /\ transfer_inflight' = FALSE /\ applied' = FALSE
        /\ completion_result' = result /\ submitted_non_neutral' = FALSE
        /\ emitted_non_neutral' =
             CASE result = "OK" -> submitted_non_neutral
               [] result = "STALL" -> emitted_non_neutral
               [] OTHER -> emitted_non_neutral \/ submitted_non_neutral
        /\ dirty' = ~Control!MayHaveApplied(result)
        /\ certain' = CASE result = "OK" -> TRUE [] result = "IO" -> FALSE
                        [] OTHER -> certain
        /\ UNCHANGED <<stage, kind, state, target, asked>>
    BY DEF Control!Complete, Control!Completes
  <1>2. /\ result = "OK" => applied
        /\ result = "STALL" => ~applied
        /\ result \in {"OK", "STALL", "IO"}
        /\ dirty' = (result = "STALL")
    BY <1>1 DEF Control!Fits, Control!Results, Control!MayHaveApplied
  <1>3. ControlTypes'
    <2>1. Control!FlightTypeOK'
      BY <1>1, <1>2 DEF ControlInv, ControlTypes, Control!FlightTypeOK, Control!Results
    <2>2. certain' \in BOOLEAN
      BY <1>1, <1>2 DEF ControlInv, ControlTypes
    <2> QED
      BY <1>1, <2>1, <2>2, ControlTypesKept DEF ControlInv
  <1>4. ControlFlightInv'
    BY <1>1 DEF ControlFlightInv
  <1>5. ControlTargetInv'
    <2>1. CASE result = "OK"
      <3>1. target = asked /\ emitted_non_neutral' = submitted_non_neutral
        BY <1>1, <1>2, <2>1 DEF ControlInv, ControlFlightInv
      <3>2. ASSUME ~submitted_non_neutral, kind \notin {"battery", "raw"}
            PROVE  asked = Control!Rest(kind)
        BY <1>1, <3>2, ReportIsAsked DEF ControlInv, ControlFlightInv
      <3> QED
        BY <1>1, <3>1, <3>2 DEF ControlTargetInv
    <2>2. CASE result = "STALL"
      BY <1>1, <1>2, <2>2 DEF ControlInv, ControlTargetInv
    <2>3. CASE result = "IO"
      BY <1>1, <2>3 DEF ControlTargetInv
    <2> QED
      BY <1>2, <2>1, <2>2, <2>3
  <1> QED
    BY <1>3, <1>4, <1>5 DEF ControlInv

(* A close that finds nothing to send finds a target at rest.               *)
LEMMA ControlCloseStep ==
  ASSUME ControlInv, Control!Close
  PROVE  ControlInv'
  <1>1. /\ kind \notin {"battery", "raw"} /\ Control!Usable
        /\ dirty' = (state # Control!Neutral(kind) \/ emitted_non_neutral)
        /\ stage' = "neutral"
        /\ UNCHANGED <<transfer_inflight, completion_result, emitted_non_neutral,
                       submitted_non_neutral, applied>>
        /\ state' = Control!Neutral(kind) /\ asked' = Control!Rest(kind)
        /\ UNCHANGED <<kind, report, target, certain>>
    BY DEF Control!Close, Control!Neutralizes
  <1>2. ~transfer_inflight /\ ~applied
    BY <1>1 DEF ControlInv, ControlFlightInv, Control!Usable
  <1>3. ControlTypes'
    <2>1. Control!FlightTypeOK' /\ kind' \in Control!Kinds /\ certain' \in BOOLEAN
      BY <1>1 DEF ControlInv, ControlTypes, Control!FlightTypeOK
    <2>2. CASE kind = "toggle"
      BY <1>1, <2>1, <2>2 DEF ControlTypes, Control!Neutral, Control!Rest
    <2>3. CASE kind \in {"gamepad_hat", "gamepad_buttons"}
      <3>1. 0 \in AxisValues
        BY ProfileAssumptions DEF Control!ControlAssumption
      <3>2. /\ state' = [buttons |-> {}, axis |-> 0, hat |-> Control!Hat({})]
            /\ asked' = [buttons |-> {}, axis |-> 0, dpad |-> {}]
        BY <1>1, <2>3, NoDirection DEF Control!Neutral, Control!Rest
      <3>3. Control!Encodes({})' /\ Control!Hat({})' = Control!Hat({})
        BY <1>1, DecodeKept, NoDirection
      <3> QED
        BY <1>1, <2>1, <2>3, <3>1, <3>2, <3>3 DEF ControlTypes
    <2> QED
      BY <1>1, <2>2, <2>3 DEF ControlInv, ControlTypes, Control!Kinds
  <1>4. ControlFlightInv'
    BY <1>1, <1>2 DEF ControlFlightInv
  <1>5. ControlTargetInv'
    BY <1>1, <1>2 DEF ControlInv, ControlTargetInv
  <1> QED
    BY <1>3, <1>4, <1>5 DEF ControlInv

LEMMA CloseStatelessStep ==
  ASSUME ControlInv, Control!CloseStateless
  PROVE  ControlInv'
  <1>1. /\ kind \in {"battery", "raw"} /\ Control!Usable
        /\ dirty' = FALSE /\ stage' = "neutral" /\ certain' = (certain /\ ~dirty)
        /\ UNCHANGED <<transfer_inflight, completion_result, emitted_non_neutral,
                       submitted_non_neutral, applied>>
        /\ UNCHANGED <<kind, state, report, target, asked>>
    BY DEF Control!CloseStateless
  <1>2. ControlTypes'
    BY <1>1, ControlTypesKept DEF ControlInv, ControlTypes, Control!FlightTypeOK
  <1>3. ControlFlightInv' /\ ControlTargetInv'
    BY <1>1 DEF ControlInv, ControlFlightInv, ControlTargetInv, Control!Usable
  <1> QED
    BY <1>2, <1>3 DEF ControlInv

LEMMA ControlOtherStep ==
  ASSUME ControlInv, Control!ReadOutcome \/ Control!Unregister \/ UNCHANGED Control!vars
  PROVE  ControlInv'
  <1>1. /\ UNCHANGED <<kind, state, report, target, asked, certain>>
        /\ UNCHANGED <<dirty, transfer_inflight, emitted_non_neutral,
                       submitted_non_neutral, applied>>
        /\ Control!FlightTypeOK'
    BY DEF ControlInv, ControlTypes, Control!ReadOutcome, Control!ReadsOutcome,
           Control!Unregister, Control!Unregisters, Control!vars, Control!flightVars,
           Control!FlightTypeOK, Control!Results
  <1>2. ControlTypes'
    BY <1>1, ControlTypesKept DEF ControlInv, ControlTypes
  <1>3. Control!Decode(report)' = Control!Decode(report)
    BY <1>1, DecodeKept
  <1>4. ControlFlightInv' /\ ControlTargetInv'
    BY <1>1, <1>3 DEF ControlInv, ControlFlightInv, ControlTargetInv
  <1> QED
    BY <1>2, <1>4 DEF ControlInv

LEMMA ControlNext ==
  ASSUME ControlInv, [Control!Next]_Control!vars
  PROVE  ControlInv'
  <1>1. CASE \E usage \in AllowedUsages \cup {NoUsage} : Control!Toggle(usage)
    BY <1>1, ToggleStep
  <1>2. CASE \E pressed \in Buttons : Control!GamepadButton(pressed)
    BY <1>2, GamepadButtonStep
  <1>3. CASE \E value \in AxisValues : Control!GamepadAxis(value)
    BY <1>3, GamepadAxisStep
  <1>4. CASE \E holds \in SUBSET Control!Directions : Control!Dpad(holds)
    BY <1>4, DpadStep
  <1>5. CASE \E has \in BOOLEAN, strength \in Control!Strengths : Control!Battery(has, strength)
    BY <1>5, BatteryStep
  <1>6. CASE \E bytes \in RawReports : Control!RawSubmit(bytes)
    BY <1>6, RawSubmitStep
  <1>7. CASE \E result \in Control!Results : Control!Complete(result)
    BY <1>7, ControlCompleteStep
  <1> QED
    BY <1>1, <1>2, <1>3, <1>4, <1>5, <1>6, <1>7, ControlSubmitStep, ControlApplyStep,
       ControlCloseStep, CloseStatelessStep, ControlOtherStep DEF Control!Next

(* While the behaviour is about another profile, nothing is asked for.      *)
ControlKept ==
  /\ profile = "control" => ControlInv
  /\ profile # "control" => target = asked

LEMMA ControlRuns ==
  ASSUME [Next]_vars
  PROVE  /\ profile' = profile
         /\ profile = "control" => [Control!Next]_Control!vars
         /\ profile # "control" => UNCHANGED controlVars
  BY DEF Next, vars, Control!vars, Control!flightVars, controlVars

LEMMA ControlKeptHolds == Spec => []ControlKept
  <1>1. Init => ControlKept
    BY ControlInit DEF Init, ControlKept, Control!Init
  <1>2. ControlKept /\ [Next]_vars => ControlKept'
    <2> SUFFICES ASSUME ControlKept, [Next]_vars PROVE ControlKept'
      OBVIOUS
    <2>1. CASE profile = "control"
      BY <2>1, ControlRuns, ControlNext DEF ControlKept
    <2>2. CASE profile # "control"
      BY <2>2, ControlRuns DEF ControlKept, controlVars
    <2> QED
      BY <2>1, <2>2
  <1> QED
    BY <1>1, <1>2, PTL DEF Spec

(* A target shows what was asked for last (see ControlNode), through every  *)
(* encoding of directions, strengths and Usages, for all of their ranges.   *)
THEOREM TargetShowsStateHolds == Spec => []TargetShowsState
  <1>1. ControlKept => TargetShowsState
    BY DEF ControlKept, ControlInv, ControlFlightInv, ControlTargetInv, TargetShowsState,
           Control!TargetShowsState
  <1> QED
    BY <1>1, ControlKeptHolds, PTL

-----------------------------------------------------------------------------
(* Touch                                                                    *)

TouchContacts ==
  [phase : {"none", "down", "up"}, id : Ids \cup {NoId}, at : Places \cup {Touch!AnyPlace},
   edge : BOOLEAN]
TouchRecords == [tip : BOOLEAN, id : Ids \cup {NoId}, at : Places \cup {Touch!AnyPlace}]

TouchTypes ==
  /\ contacts \in [Touch!Slots -> TouchContacts]
  /\ packet_cursor \in Nat /\ scan_time \in ScanTimes \cup {0}
  /\ frame \in [expected : Nat, records : Seq(TouchRecords),
                times : SUBSET (ScanTimes \cup {0})]
  /\ Touch!FlightTypeOK

(* A contact has one slot, and a frame in progress has reports left.        *)
TouchSlotInv ==
  /\ \A s, t \in Touch!ActiveSlots : contacts[s].id = contacts[t].id => s = t
  /\ packet_cursor # 0 => packet_cursor < Len(Touch!Active)

(* The records of the frame the target has.                                 *)
Joined == packet_cursor + IF applied THEN Touch!SubmittedCount ELSE 0

(* The report in flight and what the target has of the frame are of the     *)
(* contacts as they are.                                                    *)
TouchFrameInv ==
  /\ applied => transfer_inflight
  /\ transfer_inflight => packet = Touch!Packet(scan_time)
  /\ packet_cursor # 0 \/ applied =>
       /\ snapshot = Touch!Active
       /\ frame.expected = Len(Touch!Active)
       /\ frame.records = SubSeq(Touch!Active, 1, Joined)
       /\ frame.times = {scan_time}
  /\ Touch!FrameIsOfOneState

(* A contact that is held down has a slot, and one whose lift record the    *)
(* target has is not held down.                                             *)
TouchDownInv ==
  /\ \A id \in down : \E s \in Touch!ActiveSlots : contacts[s].id = id
  /\ \A k \in 1..Joined : ~Touch!Active[k].tip => Touch!Active[k].id \notin down

(* A Node that is closed, or about to be, has no contact.                   *)
TouchStageInv ==
  /\ transfer_inflight => stage # "closed"
  /\ stage = "closed" => Touch!ActiveSlots = {}
  /\ stage = "neutral" => \A s \in Touch!Slots : contacts[s].phase # "down"
  /\ stage = "neutral" /\ ~transfer_inflight /\ completion_result = "OK" /\ ~dirty =>
       Touch!ActiveSlots = {}

TouchInv == TouchTypes /\ TouchSlotInv /\ TouchFrameInv /\ TouchDownInv /\ TouchStageInv

-----------------------------------------------------------------------------
(* The cardinality of the instance is the one the theorems are about.       *)
LEMMA TouchCardinality ==
  ASSUME NEW S
  PROVE  Touch!Cardinality(S) = Cardinality(S)
  BY DEF Touch!Cardinality, Cardinality

LEMMA SlotsFinite ==
  /\ IsFiniteSet(Touch!ActiveSlots) /\ Cardinality(Touch!ActiveSlots) \in Nat
  /\ Touch!ActiveSlots \subseteq Touch!Slots /\ Touch!Slots \subseteq Nat
  <1>1. maximum_contacts \in Nat
    BY ProfileAssumptions DEF Touch!TouchAssumption
  <1>2. IsFiniteSet(Touch!Slots) /\ Touch!Slots \subseteq Nat
    BY <1>1, FS_Interval DEF Touch!Slots
  <1>3. Touch!ActiveSlots \in SUBSET Touch!Slots
    BY DEF Touch!ActiveSlots
  <1>4. IsFiniteSet(Touch!ActiveSlots)
    BY <1>2, <1>3, FS_Subset
  <1> QED
    BY <1>2, <1>3, <1>4, FS_CardinalityType

(* The ranks of the active slots are the numbers up to how many there are.  *)
LEMMA RankIsOnto ==
  /\ \A s \in Touch!ActiveSlots : Touch!Rank(s) \in 1..Cardinality(Touch!ActiveSlots)
  /\ \A s, t \in Touch!ActiveSlots : Touch!Rank(s) = Touch!Rank(t) => s = t
  /\ \A k \in 1..Cardinality(Touch!ActiveSlots) :
       \E s \in Touch!ActiveSlots : Touch!Rank(s) = k
  <1> DEFINE A == Touch!ActiveSlots
             n == Cardinality(A)
             B(s) == {t \in A : t <= s}
  <1>1. IsFiniteSet(A) /\ n \in Nat /\ A \subseteq Nat
    BY SlotsFinite
  <1>2. ASSUME NEW s PROVE Touch!Rank(s) = Cardinality(B(s))
    BY TouchCardinality DEF Touch!Rank
  <1> HIDE DEF A
  <1>3. \A s : B(s) \in SUBSET A
    OBVIOUS
  <1>4. \A s : IsFiniteSet(B(s)) /\ Cardinality(B(s)) \in Nat /\ Cardinality(B(s)) <= n
    BY <1>1, <1>3, FS_Subset, FS_CardinalityType
  <1>5. \A s \in A : Touch!Rank(s) \in 1..n
    <2> SUFFICES ASSUME NEW s \in A PROVE Cardinality(B(s)) \in 1..n
      BY <1>2
    <2>1. s \in B(s)
      BY <1>1
    <2>2. Cardinality(B(s)) # 0
      BY <1>4, <2>1, FS_EmptySet
    <2> QED
      BY <1>1, <1>4, <2>2
  <1>6. \A s, t \in A : s < t => Touch!Rank(s) < Touch!Rank(t)
    <2> SUFFICES ASSUME NEW s \in A, NEW t \in A, s < t
                 PROVE  Cardinality(B(s)) < Cardinality(B(t))
      BY <1>2
    <2>1. s \in Nat /\ t \in Nat /\ \A u \in A : u \in Nat
      BY <1>1
    <2>4. \A u \in A : u <= s => u <= t
      BY <2>1
    <2>5. t <= t /\ ~(t <= s)
      BY <2>1
    <2>3. B(s) \in SUBSET B(t) /\ t \in B(t) /\ t \notin B(s)
      BY <2>4, <2>5
    <2>2. Cardinality(B(s)) <= Cardinality(B(t)) /\ Cardinality(B(s)) # Cardinality(B(t))
      BY <1>4, <2>3, FS_Subset
    <2> QED
      BY <1>4, <2>2
  <1>7. \A s, t \in A : Touch!Rank(s) = Touch!Rank(t) => s = t
    <2> SUFFICES ASSUME NEW s \in A, NEW t \in A, Touch!Rank(s) = Touch!Rank(t), s # t
                 PROVE  FALSE
      OBVIOUS
    <2>1. s < t \/ t < s
      BY <1>1
    <2>2. Touch!Rank(s) < Touch!Rank(t) \/ Touch!Rank(t) < Touch!Rank(s)
      BY <1>6, <2>1
    <2>3. Touch!Rank(s) \in Int /\ Touch!Rank(t) \in Int
      BY <1>5
    <2> QED
      BY <2>2, <2>3
  <1> DEFINE r == [s \in A |-> Touch!Rank(s)]
  <1>8. r \in Injection(A, 1..n)
    BY <1>5, <1>7 DEF Injection, IsInjective
  <1>9. IsFiniteSet(1..n) /\ Cardinality(1..n) = n
    BY <1>1, FS_Interval
  <1>10. r \in Surjection(A, 1..n)
    <2> HIDE DEF r, n
    <2>1. Cardinality(A) = Cardinality(1..n)
      BY <1>9 DEF n
    <2> QED
      BY <1>8, <1>9, <2>1, FS_Injection
  <1>11. \A k \in 1..n : \E s \in A : Touch!Rank(s) = k
    BY <1>10 DEF Surjection
  <1> QED
    BY <1>5, <1>7, <1>11 DEF A

(* collect_touch finds every active contact once, and no other.             *)
LEMMA TouchActive ==
  ASSUME TouchTypes
  PROVE  /\ Touch!Active \in Seq(TouchRecords) /\ Len(Touch!Active) \in Nat
         /\ \A k \in 1..Len(Touch!Active) : \E s \in Touch!ActiveSlots :
              Touch!Active[k] = Touch!Record(contacts[s])
         /\ \A s \in Touch!ActiveSlots : \E k \in 1..Len(Touch!Active) :
              Touch!Active[k] = Touch!Record(contacts[s])
  <1> DEFINE A == Touch!ActiveSlots
             n == Cardinality(A)
             nth(k) == CHOOSE s \in A : Touch!Rank(s) = k
             e(k) == Touch!Record(contacts[nth(k)])
  <1>1. n \in Nat /\ A \subseteq Touch!Slots
    BY SlotsFinite
  <1>2. \A k \in 1..n : nth(k) \in A /\ Touch!Rank(nth(k)) = k
    BY RankIsOnto
  <1>3. \A s \in A : Touch!Rank(s) \in 1..n /\ nth(Touch!Rank(s)) = s
    BY <1>2, RankIsOnto
  <1>4. Touch!Active = [k \in 1..n |-> e(k)]
    BY TouchCardinality DEF Touch!Active
  <1> HIDE DEF A, n, nth
  <1>5. \A s \in A : Touch!Record(contacts[s]) \in TouchRecords
    BY <1>1 DEF TouchTypes, TouchContacts, TouchRecords, Touch!Record
  <1>6. \A k \in 1..n : e(k) \in TouchRecords
    BY <1>2, <1>5
  <1>7. Touch!Active \in Seq(TouchRecords) /\ Len(Touch!Active) = n
        /\ \A k \in 1..n : Touch!Active[k] = e(k)
    <2> HIDE DEF e
    <2>1. [k \in 1..n |-> e(k)] \in Seq(TouchRecords)
      BY <1>1, <1>6, IsASeq
    <2> QED
      BY <1>1, <1>4, <2>1, LenProperties
  <1>8. \A k \in 1..n : \E s \in A : Touch!Active[k] = Touch!Record(contacts[s])
    BY <1>2, <1>7
  <1>9. \A s \in A : \E k \in 1..n : Touch!Active[k] = Touch!Record(contacts[s])
    BY <1>3, <1>7
  <1> QED
    BY <1>1, <1>7, <1>8, <1>9 DEF A

(* How many records the next report has, and which frame it ends.           *)
LEMMA TouchCount ==
  ASSUME TouchTypes, TouchSlotInv
  PROVE  /\ Touch!SubmittedCount \in Nat
         /\ packet_cursor + Touch!SubmittedCount \in packet_cursor..Len(Touch!Active)
         /\ Touch!FinalPacket => packet_cursor + Touch!SubmittedCount = Len(Touch!Active)
         /\ ~Touch!FinalPacket => packet_cursor + Touch!SubmittedCount < Len(Touch!Active)
  <1>1. per_report \in Nat
    BY ProfileAssumptions DEF Touch!TouchAssumption
  <1>2. Len(Touch!Active) \in Nat /\ packet_cursor \in 0..Len(Touch!Active)
    BY TouchActive DEF TouchTypes, TouchSlotInv
  <1> QED
    BY <1>1, <1>2 DEF Touch!SubmittedCount, Touch!FinalPacket

LEMMA TouchSame ==
  ASSUME UNCHANGED contacts
  PROVE  Touch!ActiveSlots' = Touch!ActiveSlots /\ Touch!Active' = Touch!Active
  <1>1. Touch!ActiveSlots' = Touch!ActiveSlots
    BY DEF Touch!ActiveSlots
  <1>2. ASSUME NEW s PROVE Touch!Rank(s)' = Touch!Rank(s)
    BY <1>1 DEF Touch!Rank
  <1>3. Touch!Active' = Touch!Active
    BY <1>1 DEF Touch!Active, Touch!Rank
  <1> QED
    BY <1>1, <1>3

LEMMA TouchSameCount ==
  ASSUME UNCHANGED <<contacts, packet_cursor>>
  PROVE  /\ Touch!SubmittedCount' = Touch!SubmittedCount
         /\ Touch!FinalPacket' = Touch!FinalPacket
  BY TouchSame DEF Touch!SubmittedCount, Touch!FinalPacket

(* A part of the records from the first on, under one scan time.            *)
LEMMA PartOfFrame ==
  ASSUME NEW q \in Seq(TouchRecords), NEW n \in 0..Len(q), NEW f, NEW t,
         f.expected = Len(q), f.records = SubSeq(q, 1, n), f.times = {t}
  PROVE  /\ Touch!IsPrefix(f.records, q)
         /\ f.expected = Len(q)
         /\ Touch!Cardinality(f.times) <= 1
  <1>1. Len(q) \in Nat /\ q \in [1..Len(q) -> TouchRecords]
    BY LenProperties
  <1>2. SubSeq(q, 1, n) \in Seq(TouchRecords) /\ Len(SubSeq(q, 1, n)) = n
    BY <1>1, SubSeqProperties
  <1>3. SubSeq(SubSeq(q, 1, n), 1, n) = SubSeq(q, 1, n)
    BY <1>2, SubSeqFull
  <1>4. Touch!IsPrefix(f.records, q)
    BY <1>1, <1>2, <1>3 DEF Touch!IsPrefix
  <1>5. Touch!Cardinality(f.times) = 1
    BY FS_Singleton, TouchCardinality
  <1> QED
    BY <1>4, <1>5

LEMMA TouchInit ==
  ASSUME Touch!Init
  PROVE  TouchInv
  <1>1. /\ contacts = [s \in Touch!Slots |-> Touch!Empty] /\ packet_cursor = 0
        /\ scan_time = 0 /\ frame = Touch!NoFrame /\ down = {} /\ snapshot = <<>>
        /\ ~transfer_inflight /\ ~applied /\ stage = "open" /\ Touch!FlightTypeOK
    BY DEF Touch!Init, Touch!FlightInit, Touch!FlightTypeOK, Touch!Results
  <1>2. Touch!ActiveSlots = {}
    BY <1>1 DEF Touch!ActiveSlots, Touch!Empty
  <1>3. TouchTypes
    BY <1>1, EmptySeq DEF TouchTypes, TouchContacts, Touch!Empty, Touch!NoFrame
  <1>4. Touch!FrameIsOfOneState
    <2>1. Touch!IsPrefix(<<>>, <<>>)
      BY EmptySeq DEF Touch!IsPrefix
    <2>2. Touch!Cardinality({}) = 0
      BY FS_EmptySet, TouchCardinality
    <2> QED
      BY <1>1, <2>1, <2>2, EmptySeq DEF Touch!FrameIsOfOneState, Touch!NoFrame
  <1>5. Joined = 0
    BY <1>1 DEF Joined
  <1> QED
    BY <1>1, <1>2, <1>3, <1>4, <1>5
       DEF TouchInv, TouchSlotInv, TouchFrameInv, TouchDownInv, TouchStageInv

(* Between two frames the contacts may change, but none is forgotten.       *)
LEMMA TouchChanges ==
  ASSUME TouchInv, ~transfer_inflight, packet_cursor = 0,
         contacts' \in [Touch!Slots -> TouchContacts],
         \A s \in Touch!ActiveSlots :
           s \in Touch!ActiveSlots' /\ contacts'[s].id = contacts[s].id,
         \A s, t \in Touch!ActiveSlots' : contacts'[s].id = contacts'[t].id => s = t,
         dirty' \in BOOLEAN,
         UNCHANGED <<transfer_inflight, completion_result, emitted_non_neutral,
                     submitted_non_neutral, applied>>,
         \/ stage' = "open"
         \/ /\ stage' = "neutral" /\ (dirty' \/ Touch!ActiveSlots' = {})
            /\ \A s \in Touch!Slots : contacts'[s].phase # "down",
         UNCHANGED <<packet_cursor, scan_time, packet, frame, down, snapshot>>
  PROVE  TouchInv'
  <1>1. Touch!Slots' = Touch!Slots /\ ~applied
    BY DEF TouchInv, TouchFrameInv, Touch!Slots
  <1>2. TouchTypes'
    BY <1>1 DEF TouchInv, TouchTypes, Touch!FlightTypeOK
  <1>3. TouchSlotInv'
    BY DEF TouchSlotInv
  <1>4. Joined' = 0
    BY <1>1 DEF Joined
  <1>5. TouchFrameInv'
    BY <1>1 DEF TouchInv, TouchFrameInv, Touch!FrameIsOfOneState
  <1>6. TouchDownInv'
    BY <1>4 DEF TouchInv, TouchDownInv
  <1>7. TouchStageInv'
    BY <1>1 DEF TouchStageInv
  <1> QED
    BY <1>2, <1>3, <1>5, <1>6, <1>7 DEF TouchInv

(* The lowest free slot is one.                                             *)
LEMMA LowestFree ==
  ASSUME Touch!Free # {}
  PROVE  (CHOOSE s \in Touch!Free : \A t \in Touch!Free : s <= t) \in Touch!Free
  <1>1. Touch!Free \subseteq Nat
    BY SlotsFinite DEF Touch!Free
  <1> DEFINE R == OpToRel(<, Nat)
  <1>2. IsWellFoundedOn(R, Nat)
    BY NatLessThanWellFounded
  <1>3. \A s, t \in Nat : <<t, s>> \in R <=> t < s
    BY DEF OpToRel
  <1> HIDE DEF R
  <1>4. PICK s \in Touch!Free : \A t \in Touch!Free : ~(<<t, s>> \in R)
    BY <1>1, <1>2, WFMin
  <1>5. \A t \in Touch!Free : s <= t
    <2> TAKE t \in Touch!Free
    <2>1. s \in Nat /\ t \in Nat
      BY <1>1
    <2>2. ~(t < s)
      BY <1>3, <1>4, <2>1
    <2> QED
      BY <2>1, <2>2
  <1> QED
    BY <1>5

LEMMA TouchMovesStep ==
  ASSUME TouchInv, NEW id \in Ids, NEW at \in Places, Touch!TouchMoves(id, at)
  PROVE  TouchInv'
  <1>1. PICK s \in Touch!Slot(id, {"down"}) :
          contacts' = [contacts EXCEPT ![s].at = at] /\ Touch!Marks(contacts[s].at # at)
    BY DEF Touch!TouchMoves
  <1>2. ~transfer_inflight /\ packet_cursor = 0
        /\ UNCHANGED <<packet_cursor, scan_time, packet, frame, down, snapshot>>
    BY DEF Touch!TouchMoves, Touch!MayChange, Touch!Usable, Touch!scanVars, Touch!targetVars
  <1>3. contacts \in [Touch!Slots -> TouchContacts] /\ s \in Touch!Slots /\ dirty \in BOOLEAN
    BY DEF TouchInv, TouchTypes, Touch!FlightTypeOK, Touch!Slot
  <1>4. contacts' \in [Touch!Slots -> TouchContacts]
    BY <1>1, <1>3 DEF TouchContacts
  <1>5. \A t \in Touch!Slots : /\ contacts'[t].phase = contacts[t].phase
                               /\ contacts'[t].id = contacts[t].id
    BY <1>1, <1>3 DEF TouchContacts
  <1>6. Touch!ActiveSlots' = Touch!ActiveSlots /\ Touch!ActiveSlots \subseteq Touch!Slots
    BY <1>5 DEF Touch!ActiveSlots, Touch!Slots
  <1>7. \A t, u \in Touch!ActiveSlots' : contacts'[t].id = contacts'[u].id => t = u
    BY <1>5, <1>6 DEF TouchInv, TouchSlotInv
  <1>8. /\ stage' = "open" /\ dirty' \in BOOLEAN
        /\ UNCHANGED <<transfer_inflight, completion_result, emitted_non_neutral,
                       submitted_non_neutral, applied>>
    BY <1>1, <1>3 DEF Touch!Marks
  <1> QED
    BY <1>2, <1>4, <1>5, <1>6, <1>7, <1>8, TouchChanges

LEMMA TouchPlacesStep ==
  ASSUME TouchInv, NEW id \in Ids, NEW at \in Places, Touch!TouchPlaces(id, at)
  PROVE  TouchInv'
  <1> DEFINE s == CHOOSE s \in Touch!Free : \A t \in Touch!Free : s <= t
             new == [phase |-> "down", id |-> id, at |-> at, edge |-> TRUE]
  <1>1. /\ contacts' = [contacts EXCEPT ![s] = new] /\ Touch!Marks(TRUE)
        /\ Touch!Slot(id, {"down", "up"}) = {} /\ Touch!Free # {}
    BY DEF Touch!TouchPlaces
  <1>2. ~transfer_inflight /\ packet_cursor = 0
        /\ UNCHANGED <<packet_cursor, scan_time, packet, frame, down, snapshot>>
    BY DEF Touch!TouchPlaces, Touch!MayChange, Touch!Usable, Touch!scanVars,
           Touch!targetVars
  <1>3. s \in Touch!Slots /\ contacts[s].phase = "none"
    BY <1>1, LowestFree DEF Touch!Free
  <1> HIDE DEF s
  <1>4. contacts \in [Touch!Slots -> TouchContacts] /\ dirty \in BOOLEAN
    BY DEF TouchInv, TouchTypes, Touch!FlightTypeOK
  <1>5. contacts' \in [Touch!Slots -> TouchContacts]
    BY <1>1, <1>3, <1>4 DEF TouchContacts
  <1>6. \A t \in Touch!Slots : contacts'[t] = IF t = s THEN new ELSE contacts[t]
    BY <1>1, <1>3, <1>4
  <1>7. Touch!ActiveSlots' = Touch!ActiveSlots \cup {s} /\ s \notin Touch!ActiveSlots
        /\ Touch!ActiveSlots \subseteq Touch!Slots
    BY <1>3, <1>6 DEF Touch!ActiveSlots, Touch!Slots
  <1>8. \A t \in Touch!ActiveSlots : contacts[t].id # id
    BY <1>1, <1>4 DEF Touch!Slot, Touch!ActiveSlots, TouchContacts
  <1>9. \A t \in Touch!ActiveSlots : contacts'[t].id = contacts[t].id
    BY <1>6, <1>7
  <1>10. contacts'[s].id = id
    BY <1>3, <1>6
  <1>11. \A t, u \in Touch!ActiveSlots' : contacts'[t].id = contacts'[u].id => t = u
    BY <1>7, <1>8, <1>9, <1>10 DEF TouchInv, TouchSlotInv
  <1>12. /\ stage' = "open" /\ dirty' \in BOOLEAN
         /\ UNCHANGED <<transfer_inflight, completion_result, emitted_non_neutral,
                        submitted_non_neutral, applied>>
    BY <1>1, <1>4 DEF Touch!Marks
  <1> QED
    BY <1>2, <1>5, <1>7, <1>9, <1>11, <1>12, TouchChanges

LEMMA TouchLiftsStep ==
  ASSUME TouchInv, NEW id \in Ids, NEW at \in Places, Touch!TouchLifts(id, at)
  PROVE  TouchInv'
  <1>1. PICK s \in Touch!Slot(id, {"down"}) :
          /\ contacts' = [contacts EXCEPT ![s] =
                            [@ EXCEPT !.phase = "up", !.at = at, !.edge = TRUE]]
          /\ Touch!Marks(TRUE)
    BY DEF Touch!TouchLifts
  <1>2. ~transfer_inflight /\ packet_cursor = 0
        /\ UNCHANGED <<packet_cursor, scan_time, packet, frame, down, snapshot>>
    BY DEF Touch!TouchLifts, Touch!MayChange, Touch!Usable, Touch!scanVars, Touch!targetVars
  <1>3. contacts \in [Touch!Slots -> TouchContacts] /\ s \in Touch!Slots /\ dirty \in BOOLEAN
        /\ contacts[s].phase = "down"
    BY DEF TouchInv, TouchTypes, Touch!FlightTypeOK, Touch!Slot
  <1>4. contacts' \in [Touch!Slots -> TouchContacts]
    BY <1>1, <1>3 DEF TouchContacts
  <1>5. \A t \in Touch!Slots : /\ contacts'[t].phase = IF t = s THEN "up" ELSE contacts[t].phase
                               /\ contacts'[t].id = contacts[t].id
    BY <1>1, <1>3 DEF TouchContacts
  <1>6. Touch!ActiveSlots' = Touch!ActiveSlots /\ Touch!ActiveSlots \subseteq Touch!Slots
    BY <1>3, <1>5 DEF Touch!ActiveSlots, Touch!Slots
  <1>7. \A t, u \in Touch!ActiveSlots' : contacts'[t].id = contacts'[u].id => t = u
    BY <1>5, <1>6 DEF TouchInv, TouchSlotInv
  <1>8. /\ stage' = "open" /\ dirty' \in BOOLEAN
        /\ UNCHANGED <<transfer_inflight, completion_result, emitted_non_neutral,
                       submitted_non_neutral, applied>>
    BY <1>1, <1>3 DEF Touch!Marks
  <1> QED
    BY <1>2, <1>4, <1>5, <1>6, <1>7, <1>8, TouchChanges

LEMMA TouchpadButtonStep ==
  ASSUME TouchInv, Touch!TouchpadButton
  PROVE  TouchInv'
  <1>1. ~transfer_inflight /\ packet_cursor = 0 /\ Touch!Marks(TRUE) /\ UNCHANGED contacts
        /\ UNCHANGED <<packet_cursor, scan_time, packet, frame, down, snapshot>>
    BY DEF Touch!TouchpadButton, Touch!MayChange, Touch!Usable, Touch!scanVars,
           Touch!targetVars
  <1>2. Touch!ActiveSlots' = Touch!ActiveSlots
    BY <1>1, TouchSame
  <1>3. contacts' \in [Touch!Slots -> TouchContacts] /\ dirty \in BOOLEAN
    BY <1>1 DEF TouchInv, TouchTypes, Touch!FlightTypeOK
  <1>4. \A t, u \in Touch!ActiveSlots' : contacts'[t].id = contacts'[u].id => t = u
    BY <1>1, <1>2 DEF TouchInv, TouchSlotInv
  <1>5. /\ stage' = "open" /\ dirty' \in BOOLEAN
        /\ UNCHANGED <<transfer_inflight, completion_result, emitted_non_neutral,
                       submitted_non_neutral, applied>>
    BY <1>1, <1>3 DEF Touch!Marks
  <1> QED
    BY <1>1, <1>2, <1>3, <1>4, <1>5, TouchChanges

(* A close that finds nothing to send finds no contact.                     *)
LEMMA TouchCloseStep ==
  ASSUME TouchInv, Touch!Close
  PROVE  TouchInv'
  <1>1. /\ ~transfer_inflight /\ packet_cursor = 0
        /\ contacts' = [s \in Touch!Slots |->
                          IF contacts[s].phase = "down"
                          THEN [contacts[s] EXCEPT !.phase = "up"] ELSE contacts[s]]
        /\ dirty' = (Touch!HadNonNeutral \/ emitted_non_neutral) /\ stage' = "neutral"
        /\ UNCHANGED <<transfer_inflight, completion_result, emitted_non_neutral,
                       submitted_non_neutral, applied>>
        /\ UNCHANGED <<packet_cursor, scan_time, packet, frame, down, snapshot>>
    BY DEF Touch!Close, Touch!Neutralizes, Touch!Usable, Touch!scanVars, Touch!targetVars
  <1>2. contacts \in [Touch!Slots -> TouchContacts] /\ emitted_non_neutral \in BOOLEAN
    BY DEF TouchInv, TouchTypes, Touch!FlightTypeOK
  <1>3. contacts' \in [Touch!Slots -> TouchContacts]
    BY <1>1, <1>2 DEF TouchContacts
  <1>4. \A t \in Touch!Slots :
          /\ contacts'[t].phase =
               IF contacts[t].phase = "down" THEN "up" ELSE contacts[t].phase
          /\ contacts'[t].id = contacts[t].id
    BY <1>1, <1>2 DEF TouchContacts
  <1>5. Touch!ActiveSlots' = Touch!ActiveSlots /\ Touch!ActiveSlots \subseteq Touch!Slots
    BY <1>4 DEF Touch!ActiveSlots, Touch!Slots
  <1>6. \A t, u \in Touch!ActiveSlots' : contacts'[t].id = contacts'[u].id => t = u
    BY <1>4, <1>5 DEF TouchInv, TouchSlotInv
  <1>7. dirty' \in BOOLEAN /\ (dirty' \/ Touch!ActiveSlots' = {})
    BY <1>1, <1>2, <1>5 DEF Touch!HadNonNeutral, Touch!ActiveSlots
  <1>8. \A s \in Touch!Slots : contacts'[s].phase # "down"
    BY <1>4
  <1> QED
    BY <1>1, <1>3, <1>4, <1>5, <1>6, <1>7, <1>8, TouchChanges

LEMMA TouchSubmitStep ==
  ASSUME TouchInv, Touch!Submit
  PROVE  TouchInv'
  <1>1. PICK time \in Touch!NextScanTimes :
          /\ Touch!Usable
          /\ transfer_inflight' = TRUE /\ submitted_non_neutral' = Touch!NonNeutral
          /\ UNCHANGED <<dirty, completion_result, emitted_non_neutral, stage, applied>>
          /\ packet' = Touch!Packet(time) /\ scan_time' = time
          /\ UNCHANGED <<contacts, button, packet_cursor, frame, down, snapshot>>
    BY DEF Touch!Submit, Touch!Submits, Touch!touchVars, Touch!targetVars
  <1>2. time \in ScanTimes \cup {0} /\ (packet_cursor # 0 => time = scan_time)
    BY DEF TouchInv, TouchTypes, Touch!NextScanTimes
  <1>3. Touch!ActiveSlots' = Touch!ActiveSlots /\ Touch!Active' = Touch!Active
        /\ Touch!SubmittedCount' = Touch!SubmittedCount
    BY <1>1, TouchSame, TouchSameCount
  <1>4. ~transfer_inflight /\ ~applied /\ stage # "closed"
    BY <1>1 DEF TouchInv, TouchFrameInv, Touch!Usable
  <1>5. Touch!NonNeutral \in BOOLEAN
    BY DEF Touch!NonNeutral
  <1>6. TouchTypes'
    BY <1>1, <1>2, <1>5 DEF TouchInv, TouchTypes, Touch!FlightTypeOK, Touch!Slots
  <1>7. TouchSlotInv'
    BY <1>1, <1>3 DEF TouchInv, TouchSlotInv
  <1>8. Joined' = Joined
    BY <1>1, <1>3 DEF Joined
  <1>9. TouchFrameInv'
    <2>1. packet' = Touch!Packet(scan_time)'
      BY <1>1, <1>3 DEF Touch!Packet
    <2> QED
      BY <1>1, <1>2, <1>3, <1>4, <1>8, <2>1
         DEF TouchInv, TouchFrameInv, Touch!FrameIsOfOneState
  <1>10. TouchDownInv' /\ TouchStageInv'
    BY <1>1, <1>3, <1>4, <1>8 DEF TouchInv, TouchDownInv, TouchStageInv, Touch!Slots
  <1> QED
    BY <1>6, <1>7, <1>9, <1>10 DEF TouchInv

(* The contacts a part of the records says are held down, or lifted.        *)
LEMMA MarkedIs ==
  ASSUME NEW q \in Seq(TouchRecords), NEW tip \in BOOLEAN, NEW id
  PROVE  id \in Touch!Marked(q, tip) <=> \E i \in 1..Len(q) : q[i].tip = tip /\ q[i].id = id
  <1>1. DOMAIN q = 1..Len(q)
    BY LenProperties
  <1> QED
    BY <1>1 DEF Touch!Marked, Touch!Range

LEMMA TouchApplyStep ==
  ASSUME TouchInv, Touch!Apply
  PROVE  TouchInv'
  <1> DEFINE A == Touch!Active
             c == packet_cursor
             n == Touch!SubmittedCount
             p == SubSeq(A, c + 1, c + n)
  <1>1. /\ transfer_inflight /\ ~applied /\ applied' = TRUE
        /\ UNCHANGED <<dirty, transfer_inflight, completion_result,
                       emitted_non_neutral, submitted_non_neutral, stage>>
        /\ UNCHANGED <<contacts, button, packet_cursor, scan_time, packet>>
        /\ frame' = IF packet.first
                    THEN [expected |-> packet.count, records |-> packet.records,
                          times |-> {packet.time}]
                    ELSE [frame EXCEPT !.records = @ \o packet.records,
                                       !.times = @ \cup {packet.time}]
        /\ snapshot' = IF packet.first THEN Touch!Active ELSE snapshot
        /\ down' = (down \ Touch!Marked(packet.records, FALSE))
                   \cup Touch!Marked(packet.records, TRUE)
    BY DEF Touch!Apply, Touch!TargetApplies, Touch!touchVars, Touch!scanVars
  <1>2. /\ packet.first = (c = 0) /\ packet.time = scan_time /\ packet.records = p
        /\ c = 0 => packet.count = Len(A)
        /\ packet = Touch!Packet(scan_time)
    BY <1>1 DEF TouchInv, TouchFrameInv, Touch!Packet
  <1>3. /\ Touch!ActiveSlots' = Touch!ActiveSlots /\ A' = A /\ n' = n
        /\ Touch!FinalPacket' = Touch!FinalPacket
    BY <1>1, TouchSame, TouchSameCount
  <1>4. Joined = c /\ Joined' = c + n
    <2>1. c \in Nat
      BY DEF TouchInv, TouchTypes
    <2> QED
      BY <1>1, <1>3, <2>1 DEF Joined
  <1>5. A \in Seq(TouchRecords) /\ Len(A) \in Nat
        /\ \A k \in 1..Len(A) : \E s \in Touch!ActiveSlots : A[k] = Touch!Record(contacts[s])
    BY TouchActive DEF TouchInv
  <1>6. n \in Nat /\ c \in Nat /\ c + n <= Len(A)
    BY <1>5, TouchCount DEF TouchInv, TouchTypes
  <1>7. /\ p \in Seq(TouchRecords) /\ Len(p) = n
        /\ \A i \in 1..n : p[i] = A[c + i]
    <2> HIDE DEF A, n, c
    <2>1. A \in [1..Len(A) -> TouchRecords]
      BY <1>5, LenProperties
    <2>2. \A i \in (c + 1)..(c + n) : A[i] \in TouchRecords
      BY <1>5, <1>6, <2>1
    <2>3. /\ p \in Seq(TouchRecords)
          /\ Len(p) = IF c + 1 <= c + n THEN c + n - (c + 1) + 1 ELSE 0
          /\ \A i \in 1..(c + n - (c + 1) + 1) : p[i] = A[c + 1 + i - 1]
      BY <1>6, <2>2, SubSeqProperties
    <2>4. /\ c + n - (c + 1) + 1 = n /\ (c + 1 <= c + n <=> n # 0)
          /\ \A i \in Int : c + 1 + i - 1 = c + i
      BY <1>6
    <2> HIDE DEF p
    <2>5. Len(p) = n
      BY <1>6, <2>3, <2>4
    <2>6. ASSUME NEW i \in 1..n PROVE p[i] = A[c + i]
      <3>1. p[i] = A[c + 1 + i - 1]
        BY <2>3, <2>4
      <3>2. c + 1 + i - 1 = c + i
        BY <1>6
      <3> QED
        BY <3>1, <3>2
    <2> QED
      BY <2>3, <2>5, <2>6
  <1> HIDE DEF A, n, c, p
  <1>8. frame'.expected = Len(A) /\ frame'.times = {scan_time} /\ snapshot' = A
        /\ frame'.records = SubSeq(A, 1, c + n)
        /\ frame' \in [expected : Nat, records : Seq(TouchRecords),
                        times : SUBSET (ScanTimes \cup {0})]
    <2>1. scan_time \in ScanTimes \cup {0}
          /\ frame \in [expected : Nat, records : Seq(TouchRecords),
                         times : SUBSET (ScanTimes \cup {0})]
      BY DEF TouchInv, TouchTypes
    <2>2. CASE c = 0
      <3>1. frame' = [expected |-> Len(A), records |-> p, times |-> {scan_time}]
            /\ snapshot' = A
        BY <1>1, <1>2, <2>2 DEF A
      <3>2. p = SubSeq(A, 1, c + n)
        BY <1>6, <2>2 DEF p
      <3> QED
        BY <1>5, <1>7, <2>1, <3>1, <3>2
    <2>3. CASE c # 0
      <3>1. frame' = [frame EXCEPT !.records = @ \o p, !.times = @ \cup {scan_time}]
            /\ snapshot' = snapshot
        BY <1>1, <1>2, <2>3
      <3>2. snapshot = A /\ frame.expected = Len(A) /\ frame.times = {scan_time}
            /\ frame.records = SubSeq(A, 1, c)
        BY <1>4, <2>3 DEF TouchInv, TouchFrameInv, A, c
      <3>3. SubSeq(A, 1, c) \o p = SubSeq(A, 1, c + n)
        BY <1>5, <1>6, ConcatAdjacentSubSeq DEF p
      <3>4. SubSeq(A, 1, c) \o p \in Seq(TouchRecords)
        BY <1>7, <2>1, <3>2, ConcatProperties
      <3> QED
        BY <2>1, <3>1, <3>2, <3>3, <3>4
    <2> QED
      BY <2>2, <2>3
  <1>9. TouchTypes'
    BY <1>1, <1>8 DEF TouchInv, TouchTypes, Touch!FlightTypeOK, Touch!Slots
  <1>10. TouchSlotInv'
    BY <1>1, <1>3 DEF TouchInv, TouchSlotInv, A
  <1>11. TouchFrameInv'
    <2>3. c + n \in 0..Len(A)
      BY <1>5, <1>6
    <2>1. Touch!FrameIsOfOneState'
      BY <1>5, <1>8, <2>3, PartOfFrame DEF Touch!FrameIsOfOneState
    <2>2. packet' = Touch!Packet(scan_time)'
      BY <1>1, <1>2, <1>3 DEF Touch!Packet, A, n
    <2> QED
      BY <1>1, <1>3, <1>4, <1>8, <2>1, <2>2 DEF TouchFrameInv, A
  <1>12. \A id, tip : tip \in BOOLEAN =>
           (id \in Touch!Marked(p, tip) <=>
              \E i \in 1..n : A[c + i].tip = tip /\ A[c + i].id = id)
    BY <1>7, MarkedIs
  <1>13. TouchDownInv'
    <2>1. down' = (down \ Touch!Marked(p, FALSE)) \cup Touch!Marked(p, TRUE)
      BY <1>1, <1>2
    <2>2. \A id \in down' : \E s \in Touch!ActiveSlots : contacts[s].id = id
      <3> SUFFICES ASSUME NEW id \in down'
                   PROVE  \E s \in Touch!ActiveSlots : contacts[s].id = id
        OBVIOUS
      <3>1. CASE id \in down
        BY <3>1 DEF TouchInv, TouchDownInv
      <3>2. CASE id \in Touch!Marked(p, TRUE)
        <4>1. PICK i \in 1..n : A[c + i].id = id
          BY <1>12, <3>2
        <4>2. c + i \in 1..Len(A)
          BY <1>5, <1>6
        <4>3. PICK s \in Touch!ActiveSlots : A[c + i] = Touch!Record(contacts[s])
          BY <1>5, <4>2
        <4> QED
          BY <4>1, <4>3 DEF Touch!Record
      <3> QED
        BY <2>1, <3>1, <3>2
    <2>3. \A k \in 1..(c + n) : ~A[k].tip => A[k].id \notin down'
      <3> SUFFICES ASSUME NEW k \in 1..(c + n), ~A[k].tip, A[k].id \in down'
                   PROVE  FALSE
        OBVIOUS
      <3>1. PICK s \in Touch!ActiveSlots : A[k] = Touch!Record(contacts[s])
        BY <1>5, <1>6
      <3>2. A[k].id \notin Touch!Marked(p, TRUE)
        <4> SUFFICES ASSUME NEW i \in 1..n, A[c + i].tip = TRUE, A[c + i].id = A[k].id
                     PROVE  FALSE
          BY <1>12
        <4>1. c + i \in 1..Len(A)
          BY <1>5, <1>6
        <4>2. PICK t \in Touch!ActiveSlots : A[c + i] = Touch!Record(contacts[t])
          BY <1>5, <4>1
        <4>3. s = t
          BY <3>1, <4>2 DEF Touch!Record, TouchInv, TouchSlotInv
        <4> QED
          BY <3>1, <4>2, <4>3
      <3>3. A[k].tip = FALSE
        BY <3>1 DEF Touch!Record
      <3>4. CASE k \in 1..c
        <4>1. A[k].id \notin down
          BY <1>4, <3>4 DEF TouchInv, TouchDownInv, A
        <4> QED
          BY <2>1, <3>2, <4>1
      <3>5. CASE k \notin 1..c
        <4>1. k - c \in 1..n /\ c + (k - c) = k
          BY <1>6, <3>5
        <4>3. \E i \in 1..n : A[c + i].tip = FALSE /\ A[c + i].id = A[k].id
          BY <3>3, <4>1
        <4>2. A[k].id \in Touch!Marked(p, FALSE)
          BY <1>12, <4>3
        <4> QED
          BY <2>1, <3>2, <4>2
      <3> QED
        BY <3>4, <3>5
    <2> QED
      BY <1>1, <1>3, <1>4, <2>2, <2>3 DEF TouchDownInv, A
  <1>14. TouchStageInv'
    BY <1>1, <1>3 DEF TouchInv, TouchStageInv, Touch!Slots
  <1> QED
    BY <1>9, <1>10, <1>11, <1>13, <1>14 DEF TouchInv

(* What a completion does to the slots.                                     *)
LEMMA TouchCompletes ==
  ASSUME TouchInv, NEW result \in Touch!Results, Touch!Complete(result)
  PROVE  /\ contacts' \in [Touch!Slots -> TouchContacts]
         /\ result = "STALL" \/ (result = "OK" /\ ~Touch!FinalPacket) => contacts' = contacts
         /\ \A s \in Touch!Slots :
              LET frees == result = "OK" /\ Touch!FinalPacket /\ contacts[s].phase = "up"
              IN  /\ frees => contacts'[s].phase = "none"
                  /\ ~frees => /\ contacts'[s].phase = contacts[s].phase
                               /\ contacts'[s].id = contacts[s].id
  <1> DEFINE Final == Touch!FinalPacket
             frees(s) == result = "OK" /\ Final /\ contacts[s].phase = "up"
             keeps == result = "STALL" \/ (result = "OK" /\ ~Final)
             kept == Touch!AfterFrame(result)
  <1>1. kept = [s \in Touch!Slots |-> IF frees(s) THEN Touch!Empty ELSE contacts[s]]
    BY DEF Touch!AfterFrame
  <1>2. contacts' = IF keeps THEN kept
                    ELSE [s \in Touch!Slots |-> [kept[s] EXCEPT !.edge = FALSE]]
    BY DEF Touch!Complete, Touch!MayHaveApplied
  <1>3. contacts \in [Touch!Slots -> TouchContacts]
    BY DEF TouchInv, TouchTypes
  <1>4. Touch!Empty \in TouchContacts /\ Touch!Empty.phase = "none"
    BY DEF Touch!Empty, TouchContacts
  <1> HIDE DEF Final, kept
  <1>5. keeps => \A s : ~frees(s)
    OBVIOUS
  <1>6. kept \in [Touch!Slots -> TouchContacts]
    BY <1>1, <1>3, <1>4
  <1>7. keeps => contacts' = contacts
    <2> SUFFICES ASSUME keeps PROVE contacts' = contacts
      OBVIOUS
    <2>1. kept = [s \in Touch!Slots |-> contacts[s]]
      BY <1>1
    <2> QED
      BY <1>2, <1>3, <2>1
  <1>8. contacts' \in [Touch!Slots -> TouchContacts]
    BY <1>2, <1>6 DEF TouchContacts
  <1>9. \A s \in Touch!Slots : contacts'[s].phase = kept[s].phase
                               /\ contacts'[s].id = kept[s].id
    BY <1>2, <1>6 DEF TouchContacts
  <1>10. \A s \in Touch!Slots : /\ frees(s) => contacts'[s].phase = "none"
                                /\ ~frees(s) => /\ contacts'[s].phase = contacts[s].phase
                                                /\ contacts'[s].id = contacts[s].id
    BY <1>1, <1>4, <1>9
  <1> QED
    BY <1>7, <1>8, <1>10 DEF Final

(* A contact whose lift record is in a frame the target has is not held.    *)
LEMMA LiftedIsReleased ==
  ASSUME TouchInv, applied, Touch!FinalPacket,
         NEW s \in Touch!ActiveSlots, contacts[s].phase = "up"
  PROVE  contacts[s].id \notin down
  <1>1. PICK k \in 1..Len(Touch!Active) : Touch!Active[k] = Touch!Record(contacts[s])
    BY TouchActive DEF TouchInv
  <1>2. Joined = Len(Touch!Active)
    BY TouchCount DEF TouchInv, Joined
  <1>3. Touch!Record(contacts[s]).id = contacts[s].id
        /\ Touch!Record(contacts[s]).tip = (contacts[s].phase = "down")
    BY DEF Touch!Record
  <1>4. ~Touch!Active[k].tip /\ Touch!Active[k].id = contacts[s].id
    BY <1>1, <1>3
  <1> QED
    BY <1>2, <1>4 DEF TouchInv, TouchDownInv

(* A report that leaves the contacts as they are: it was refused, or the    *)
(* frame goes on.                                                           *)
LEMMA TouchGoesOn ==
  ASSUME TouchInv, NEW result \in Touch!Results, Touch!Complete(result),
         result = "STALL" \/ (result = "OK" /\ ~Touch!FinalPacket)
  PROVE  TouchInv'
  <1>1. /\ transfer_inflight /\ Touch!Fits(result)
        /\ transfer_inflight' = FALSE /\ applied' = FALSE
        /\ completion_result' = result /\ submitted_non_neutral' = FALSE
        /\ emitted_non_neutral' =
             CASE result = "OK" -> submitted_non_neutral
               [] result = "STALL" -> emitted_non_neutral
               [] OTHER -> emitted_non_neutral \/ submitted_non_neutral
        /\ packet_cursor' = Touch!NextCursor(result) /\ dirty' = TRUE
        /\ UNCHANGED <<stage, scan_time, frame, down, snapshot>>
    BY DEF Touch!Complete, Touch!Completes, Touch!MayHaveApplied
  <1>2. contacts' = contacts
    BY TouchCompletes
  <1>3. Touch!ActiveSlots' = Touch!ActiveSlots /\ Touch!Active' = Touch!Active
    BY <1>2, TouchSame
  <1>4. /\ result = "OK" => applied
        /\ result = "STALL" => ~applied
    BY <1>1 DEF Touch!Fits
  <1>5. packet_cursor' = Joined
    BY <1>1, <1>4 DEF TouchInv, TouchTypes, Joined, Touch!NextCursor
  <1>6. packet_cursor' \in Nat /\ (packet_cursor' # 0 => packet_cursor' < Len(Touch!Active))
    BY <1>1, <1>4, <1>5, TouchCount DEF TouchInv, TouchTypes, TouchSlotInv, Joined
  <1>7. Joined' = Joined
    BY <1>1, <1>5, <1>6 DEF Joined
  <1>8. TouchTypes'
    <2>1. Touch!FlightTypeOK'
      BY <1>1 DEF TouchInv, TouchTypes, Touch!FlightTypeOK, Touch!Results
    <2> QED
      BY <1>1, <1>2, <1>6, <2>1 DEF TouchInv, TouchTypes, Touch!Slots
  <1>9. TouchSlotInv'
    BY <1>2, <1>3, <1>6 DEF TouchInv, TouchSlotInv
  <1>10. TouchFrameInv'
    <2>1. packet_cursor' # 0 => packet_cursor # 0 \/ applied
      BY <1>4, <1>5 DEF Joined, TouchInv, TouchTypes
    <2> QED
      BY <1>1, <1>3, <1>7, <2>1 DEF TouchInv, TouchFrameInv, Touch!FrameIsOfOneState
  <1>11. TouchDownInv'
    BY <1>1, <1>2, <1>3, <1>7 DEF TouchInv, TouchDownInv
  <1>12. TouchStageInv'
    BY <1>1, <1>2, <1>3 DEF TouchInv, TouchStageInv, Touch!Slots
  <1> QED
    BY <1>8, <1>9, <1>10, <1>11, <1>12 DEF TouchInv

(* A report that ends its frame.                                            *)
LEMMA TouchEndsFrame ==
  ASSUME TouchInv, NEW result \in Touch!Results, Touch!Complete(result),
         result = "IO" \/ (result = "OK" /\ Touch!FinalPacket)
  PROVE  TouchInv'
  <1>1. /\ transfer_inflight /\ Touch!Fits(result)
        /\ transfer_inflight' = FALSE /\ applied' = FALSE
        /\ completion_result' = result /\ submitted_non_neutral' = FALSE
        /\ emitted_non_neutral' =
             CASE result = "OK" -> submitted_non_neutral
               [] result = "STALL" -> emitted_non_neutral
               [] OTHER -> emitted_non_neutral \/ submitted_non_neutral
        /\ packet_cursor' = 0 /\ dirty' = FALSE
        /\ IF result = "OK" THEN frame' = Touch!NoFrame /\ snapshot' = <<>>
           ELSE UNCHANGED <<frame, snapshot>>
        /\ UNCHANGED <<stage, scan_time, down>>
    BY DEF Touch!Complete, Touch!Completes, Touch!MayHaveApplied, Touch!NextCursor
  <1>2. result = "OK" => applied /\ Touch!FinalPacket
    BY <1>1 DEF Touch!Fits
  <1>3. contacts' \in [Touch!Slots -> TouchContacts]
        /\ \A s \in Touch!Slots :
             LET frees == result = "OK" /\ Touch!FinalPacket /\ contacts[s].phase = "up"
             IN  /\ frees => contacts'[s].phase = "none"
                 /\ ~frees => /\ contacts'[s].phase = contacts[s].phase
                              /\ contacts'[s].id = contacts[s].id
    BY TouchCompletes
  <1>4. Touch!Slots' = Touch!Slots
    BY DEF Touch!Slots
  <1>5. Touch!ActiveSlots' \subseteq Touch!ActiveSlots
        /\ \A s \in Touch!ActiveSlots' : contacts'[s].id = contacts[s].id
    BY <1>3, <1>4 DEF Touch!ActiveSlots
  <1>6. Joined' = 0
    BY <1>1 DEF Joined
  <1>7. TouchTypes'
    <2>1. Touch!FlightTypeOK'
      BY <1>1 DEF TouchInv, TouchTypes, Touch!FlightTypeOK, Touch!Results
    <2>2. Touch!NoFrame \in [expected : Nat, records : Seq(TouchRecords),
                             times : SUBSET (ScanTimes \cup {0})]
      BY EmptySeq DEF Touch!NoFrame
    <2> QED
      BY <1>1, <1>3, <1>4, <2>1, <2>2 DEF TouchInv, TouchTypes
  <1>8. TouchSlotInv'
    BY <1>1, <1>5 DEF TouchInv, TouchSlotInv
  <1>9. TouchFrameInv'
    <2>1. Touch!FrameIsOfOneState'
      <3>1. CASE result = "OK"
        <4>1. Touch!IsPrefix(<<>>, <<>>)
          BY EmptySeq DEF Touch!IsPrefix
        <4>2. Touch!Cardinality({}) = 0
          BY FS_EmptySet, TouchCardinality
        <4>3. Len(<<>>) = 0
          BY EmptySeq
        <4>4. /\ frame'.records = <<>> /\ frame'.expected = 0 /\ frame'.times = {}
              /\ snapshot' = <<>>
          BY <1>1, <3>1 DEF Touch!NoFrame
        <4> QED
          BY <4>1, <4>2, <4>3, <4>4 DEF Touch!FrameIsOfOneState
      <3>2. CASE result # "OK"
        BY <1>1, <3>2 DEF TouchInv, TouchFrameInv, Touch!FrameIsOfOneState
      <3> QED
        BY <3>1, <3>2
    <2> QED
      BY <1>1, <2>1 DEF TouchFrameInv
  <1>10. TouchDownInv'
    <2> SUFFICES ASSUME NEW id \in down
                 PROVE  \E s \in Touch!ActiveSlots' : contacts'[s].id = id
      BY <1>1, <1>6 DEF TouchDownInv
    <2>1. PICK s \in Touch!ActiveSlots : contacts[s].id = id
      BY DEF TouchInv, TouchDownInv
    <2>2. ~(result = "OK" /\ contacts[s].phase = "up")
      BY <1>2, <2>1, LiftedIsReleased
    <2>3. s \in Touch!Slots /\ contacts[s].phase # "none"
      BY DEF Touch!ActiveSlots
    <2>4. contacts'[s].phase # "none" /\ contacts'[s].id = id
      BY <1>3, <2>1, <2>2, <2>3
    <2> QED
      BY <1>4, <2>3, <2>4 DEF Touch!ActiveSlots
  <1>11. TouchStageInv'
    <2>1. stage # "closed"
      BY <1>1 DEF TouchInv, TouchStageInv
    <2>2. stage = "neutral" => \A s \in Touch!Slots : contacts'[s].phase # "down"
      BY <1>3 DEF TouchInv, TouchStageInv
    <2>3. ASSUME stage = "neutral", result = "OK"
          PROVE  Touch!ActiveSlots' = {}
      <3>1. \A s \in Touch!Slots : contacts[s].phase \in {"none", "up"}
        BY <2>3 DEF TouchInv, TouchTypes, TouchContacts, TouchStageInv
      <3>2. \A s \in Touch!Slots : contacts'[s].phase = "none"
        BY <1>2, <1>3, <2>3, <3>1
      <3> QED
        BY <1>4, <3>2 DEF Touch!ActiveSlots
    <2> QED
      BY <1>1, <1>4, <2>1, <2>2, <2>3 DEF TouchStageInv
  <1> QED
    BY <1>7, <1>8, <1>9, <1>10, <1>11 DEF TouchInv

LEMMA TouchOtherStep ==
  ASSUME TouchInv, Touch!ReadOutcome \/ Touch!Unregister \/ UNCHANGED Touch!vars
  PROVE  TouchInv'
  <1>1. /\ UNCHANGED <<contacts, button, packet_cursor, scan_time, packet>>
        /\ UNCHANGED <<frame, down, snapshot>>
        /\ UNCHANGED <<dirty, transfer_inflight, emitted_non_neutral,
                       submitted_non_neutral, applied>>
    BY DEF Touch!ReadOutcome, Touch!ReadsOutcome, Touch!Unregister, Touch!Unregisters,
           Touch!vars, Touch!flightVars, Touch!touchVars, Touch!scanVars, Touch!targetVars
  <1>2. \/ ~transfer_inflight /\ completion_result' = "OK" /\ stage' = "open"
        \/ /\ stage = "neutral" /\ ~transfer_inflight /\ completion_result = "OK" /\ ~dirty
           /\ stage' = "closed" /\ completion_result' = completion_result
        \/ UNCHANGED <<stage, completion_result>>
    BY DEF Touch!ReadOutcome, Touch!ReadsOutcome, Touch!Unregister, Touch!Unregisters,
           Touch!vars, Touch!flightVars
  <1>3. Touch!ActiveSlots' = Touch!ActiveSlots /\ Touch!Active' = Touch!Active
        /\ Touch!SubmittedCount' = Touch!SubmittedCount
    BY <1>1, TouchSame, TouchSameCount
  <1>4. Joined' = Joined
    BY <1>1, <1>3 DEF Joined
  <1>5. TouchTypes'
    <2>1. Touch!FlightTypeOK'
      BY <1>1, <1>2 DEF TouchInv, TouchTypes, Touch!FlightTypeOK, Touch!Results
    <2> QED
      BY <1>1, <2>1 DEF TouchInv, TouchTypes, Touch!Slots
  <1>6. TouchSlotInv'
    BY <1>1, <1>3 DEF TouchInv, TouchSlotInv
  <1>7. TouchFrameInv'
    <2>1. Touch!Packet(scan_time)' = Touch!Packet(scan_time)
      BY <1>1, <1>3 DEF Touch!Packet
    <2> QED
      BY <1>1, <1>3, <1>4, <2>1 DEF TouchInv, TouchFrameInv, Touch!FrameIsOfOneState
  <1>8. TouchDownInv'
    BY <1>1, <1>3, <1>4 DEF TouchInv, TouchDownInv
  <1>9. TouchStageInv'
    BY <1>1, <1>2, <1>3 DEF TouchInv, TouchStageInv, Touch!Slots
  <1> QED
    BY <1>5, <1>6, <1>7, <1>8, <1>9 DEF TouchInv

LEMMA TouchNext ==
  ASSUME TouchInv, [Touch!Next]_Touch!vars
  PROVE  TouchInv'
  <1>1. CASE \E id \in Ids, at \in Places :
               Touch!TouchMoves(id, at) \/ Touch!TouchPlaces(id, at) \/ Touch!TouchLifts(id, at)
    BY <1>1, TouchMovesStep, TouchPlacesStep, TouchLiftsStep
  <1>2. CASE \E result \in Touch!Results : Touch!Complete(result)
    BY <1>2, TouchGoesOn, TouchEndsFrame DEF Touch!Results
  <1> QED
    BY <1>1, <1>2, TouchpadButtonStep, TouchSubmitStep, TouchApplyStep, TouchCloseStep,
       TouchOtherStep DEF Touch!Next

(* While the behaviour is about another profile, there is no frame.         *)
TouchKept ==
  /\ profile = "touch" => TouchInv
  /\ profile # "touch" => Touch!FrameIsOfOneState /\ down = {}

LEMMA TouchRuns ==
  ASSUME [Next]_vars
  PROVE  /\ profile' = profile
         /\ profile = "touch" => [Touch!Next]_Touch!vars
         /\ profile # "touch" => UNCHANGED touchVars
  BY DEF Next, vars, Touch!vars, Touch!flightVars, Touch!touchVars, Touch!scanVars,
         Touch!targetVars, touchVars

LEMMA TouchKeptHolds == Spec => []TouchKept
  <1>1. Init => TouchKept
    BY TouchInit DEF Init, TouchKept, TouchInv, TouchFrameInv, Touch!Init
  <1>2. TouchKept /\ [Next]_vars => TouchKept'
    <2> SUFFICES ASSUME TouchKept, [Next]_vars PROVE TouchKept'
      OBVIOUS
    <2>1. CASE profile = "touch"
      BY <2>1, TouchRuns, TouchNext DEF TouchKept
    <2>2. CASE profile # "touch"
      BY <2>2, TouchRuns DEF TouchKept, touchVars, Touch!FrameIsOfOneState
    <2> QED
      BY <2>1, <2>2
  <1> QED
    BY <1>1, <1>2, PTL DEF Spec

(* The target joins a touch frame from one state (see TouchNode), however   *)
(* many contacts there are and reports they take.                           *)
THEOREM FrameIsOfOneStateHolds == Spec => []FrameIsOfOneState
  <1>1. TouchKept => FrameIsOfOneState
    BY DEF TouchKept, TouchInv, TouchFrameInv, FrameIsOfOneState
  <1> QED
    BY <1>1, TouchKeptHolds, PTL

(* A contact the target holds down keeps its slot until the target has its  *)
(* lift record (see TouchNode).                                             *)
THEOREM HeldContactHasSlotHolds == Spec => []HeldContactHasSlot
  <1>1. TouchInv => Touch!HeldContactHasSlot
    <2> SUFFICES ASSUME TouchInv, NEW id \in down
                 PROVE  stage # "closed" /\ Touch!Slot(id, {"down", "up"}) # {}
      BY DEF Touch!HeldContactHasSlot
    <2>1. PICK s \in Touch!ActiveSlots : contacts[s].id = id
      BY DEF TouchInv, TouchDownInv
    <2>2. stage # "closed"
      BY DEF TouchInv, TouchStageInv
    <2>3. s \in Touch!Slots /\ contacts[s].phase \in {"down", "up"}
      BY DEF TouchInv, TouchTypes, TouchContacts, Touch!ActiveSlots
    <2> QED
      BY <2>1, <2>2, <2>3 DEF Touch!Slot
  <1>2. TouchKept => HeldContactHasSlot
    BY <1>1 DEF TouchKept, HeldContactHasSlot, Touch!HeldContactHasSlot
  <1> QED
    BY <1>2, TouchKeptHolds, PTL
=============================================================================
