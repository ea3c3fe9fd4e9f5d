------------------------------- MODULE MouseNode -------------------------------
(***************************************************************************)
(* A Mouse Node (src/profiles/state.cpp): movements accumulate in pending  *)
(* totals; a report carries one fragment, what fits the field, and its     *)
(* completion takes exactly that fragment off the totals.                  *)
(***************************************************************************)
EXTENDS ReportFlight

CONSTANTS
  MoveAxes,    \* the axes aoahid_mouse_move changes together
  ScrollAxes,  \* the enabled axes of aoahid_mouse_scroll
  Deltas,      \* the movements the application asks for
  FieldMax,    \* every field holds -FieldMax..FieldMax
  TotalMax     \* bound: stands for the largest int64_t

Axes == MoveAxes \union ScrollAxes

MouseAssumption ==
  /\ FieldMax \in Nat \ {0} /\ TotalMax \in Nat /\ Deltas \subseteq Int

VARIABLES
  pending,   \* MouseState::dx, dy, wheel and pan
  submitted, \* aoahid_node::submitted_dx, submitted_dy, ...
  button,    \* MouseState::buttons, of one button
  edge,      \* MouseState::button_transitions
  sent,      \* the button in the buffer of the report in flight
  held,      \* external: the button the target saw last
  owed,      \* history: movement accepted, neither applied nor given up
  certain    \* history: the last report that may have arrived did

mouseVars == <<pending, submitted, button, edge, sent>>
history == <<owed, certain>>
vars == <<flightVars, mouseVars, held, owed, certain>>

Nothing == [a \in Axes |-> 0]

TypeOK ==
  /\ FlightTypeOK
  /\ pending \in [Axes -> -TotalMax..TotalMax]
  /\ submitted \in [Axes -> -FieldMax..FieldMax]
  /\ button \in BOOLEAN /\ edge \in BOOLEAN /\ sent \in BOOLEAN /\ held \in BOOLEAN
  /\ owed \in [Axes -> Int] /\ certain \in BOOLEAN

Init ==
  /\ FlightInit
  /\ pending = Nothing /\ submitted = Nothing /\ owed = Nothing
  /\ button = FALSE /\ edge = FALSE /\ sent = FALSE /\ held = FALSE
  /\ certain = TRUE

-----------------------------------------------------------------------------
Plus(total, axes, delta) ==
  [a \in Axes |-> IF a \in axes THEN total[a] + delta[a] ELSE total[a]]

\* add_checked, on every axis before any total changes.
Accepted(axes, delta) == \A a \in axes : pending[a] + delta[a] \in -TotalMax..TotalMax

\* aoahid_mouse_move and aoahid_mouse_scroll
Add(axes, delta) ==
  /\ Usable
  /\ Accepted(axes, delta)
  /\ pending' = Plus(pending, axes, delta)
  /\ owed' = Plus(owed, axes, delta)
  /\ Marks(\E a \in axes : delta[a] # 0)
  /\ UNCHANGED <<submitted, button, edge, sent, held, certain>>

\* aoahid_mouse_button with a value that changes
MouseButton ==
  /\ Usable /\ ~edge
  /\ button' = ~button
  /\ edge' = TRUE
  /\ Marks(TRUE)
  /\ UNCHANGED <<pending, submitted, sent, held, history>>

-----------------------------------------------------------------------------
\* std::clamp to the field's range
Clamp(total) == IF total > FieldMax THEN FieldMax
                ELSE IF total < -FieldMax THEN -FieldMax ELSE total

Submit ==
  /\ Submits(button)
  /\ submitted' = [a \in Axes |-> Clamp(pending[a])]
  /\ sent' = button
  /\ UNCHANGED <<pending, button, edge, held, history>>

Apply ==
  /\ TargetApplies
  /\ held' = sent
  /\ owed' = [a \in Axes |-> owed[a] - submitted[a]]
  /\ UNCHANGED <<mouseVars, certain>>

\* Mutant of Remaining: an uncertain report keeps its movement for a resend.
RemainingUnlessOK(result) ==
  [a \in Axes |-> pending[a] - (IF result = "OK" THEN submitted[a] ELSE 0)]

\* What is left to send: a fragment that may have been applied is consumed.
Remaining(result) ==
  [a \in Axes |-> pending[a] - (IF MayHaveApplied(result) THEN submitted[a] ELSE 0)]

\* Mutant of StaysDirty: the rest waits for the next call.
StaysDirtyIfRefused(result) == ~MayHaveApplied(result)

StaysDirty(result) == \/ ~MayHaveApplied(result)
                      \/ result = "OK" /\ Remaining(result) # Nothing

\* transfer_complete.  A fragment that was not applied is given up on IO.
Complete(result) ==
  /\ Completes(result)
  /\ pending' = Remaining(result)
  /\ dirty' = StaysDirty(result)
  /\ edge' = (edge /\ ~MayHaveApplied(result))
  /\ submitted' = Nothing
  /\ sent' = FALSE
  /\ owed' = IF result = "IO" /\ ~applied
             THEN [a \in Axes |-> owed[a] - submitted[a]] ELSE owed
  /\ certain' = (result = "OK" \/ (result = "STALL" /\ certain))
  /\ UNCHANGED <<button, held>>

ReadOutcome == ReadsOutcome /\ UNCHANGED <<mouseVars, held, history>>

\* neutralize_mouse forgets the movement still pending.
Close ==
  /\ Neutralizes(button)
  /\ pending' = Nothing
  /\ button' = FALSE
  /\ owed' = [a \in Axes |-> owed[a] - pending[a]]
  /\ UNCHANGED <<submitted, edge, sent, held, certain>>

Unregister == Unregisters /\ UNCHANGED <<mouseVars, held, history>>

Next ==
  \/ \E delta \in [MoveAxes -> Deltas] : Add(MoveAxes, delta)
  \/ \E delta \in [ScrollAxes -> Deltas] : Add(ScrollAxes, delta)
  \/ MouseButton
  \/ Submit \/ Apply
  \/ \E result \in Results : Complete(result)
  \/ ReadOutcome
  \/ Close \/ Unregister

Spec == Init /\ [][Next]_vars

-----------------------------------------------------------------------------
(* Movement is conserved on every axis: what the calls asked for and the    *)
(* target has not applied is exactly what is still pending, the fragment of *)
(* an applied report in flight excepted.  So no fragment is applied twice,  *)
(* none disappears but one whose outcome is unknown, and a clamped rest is  *)
(* kept, through any order of moves, failures and refusals (LATENCY.md:     *)
(* "completion consumes exactly the submitted fragment").                   *)
MovementConserved ==
  \A a \in Axes : owed[a] = pending[a] - (IF applied THEN submitted[a] ELSE 0)

(* A Node at rest has nothing left to send: when no report is in flight and *)
(* the next submission would send none, the target has all the movement     *)
(* that was asked for and shows the button.  It holds whatever refusals     *)
(* came in between and also at the end of a close, unless the last report   *)
(* that may have arrived is one of which that is not known.                 *)
RestIsSent ==
  ~transfer_inflight /\ ~dirty /\ certain => owed = Nothing /\ held = button
===============================================================================
