----------------------------- MODULE ContextLife -----------------------------
(***************************************************************************)
(* The life of a Context (src/api/c_api.cpp): Devices are opened and       *)
(* closed, a Device whose callbacks have not drained goes to the           *)
(* graveyard and is destroyed by whoever reaps it, errors nobody asked     *)
(* for wait in deferred_error, and the Context is destroyed.               *)
(*                                                                         *)
(* Two threads: the application ("app") and, in internal-thread mode, the  *)
(* event thread ("event"), which polls libusb, reaps and, after an         *)
(* exception, dies; the destroying application then takes its place.       *)
(*                                                                         *)
(* An error is named by where it came from: the Device whose teardown met  *)
(* it, "poll" for a failed poll of libusb, "exception" for the terminal    *)
(* error of the event thread. Its result code matters where a wait for a   *)
(* report takes a pending error for its own result: TIMEOUT and BUSY then  *)
(* mean something else to the caller of the wait.                          *)
(***************************************************************************)
EXTENDS FiniteSets, Naturals

CONSTANTS Devices,          \* the Devices an application may open
          TimeoutErrors,    \* the errors whose code is AOAHID_ERR_TIMEOUT
          BusyErrors,       \* the errors whose code is AOAHID_ERR_BUSY
          MaxPollFailures,  \* bound: polls of libusb that fail
          None

ContextLifeAssumption ==
    /\ IsFiniteSet(Devices)
    /\ MaxPollFailures \in Nat
    /\ None \notin Devices \cup {"poll", "exception"}
    /\ Devices \cap {"poll", "exception"} = {}
    /\ TimeoutErrors \cup BusyErrors \subseteq Devices \cup {"poll"}
    /\ TimeoutErrors \cap BusyErrors = {}

VARIABLES
    where,      \* [Devices -> Places]: the list or the thread that owns it
    busy,       \* Devices with a callback still to come (~graph_drained)
    closeError, \* [Devices -> the error its close_error keeps, or None]
    deferred,   \* Context::deferred_error
    terminal,   \* Context::event_thread_error
    dead,       \* Context::event_thread_failed
    stop,       \* Context::stop_event_thread
    event,      \* the event thread's place in its loop; "none" in caller-poll mode
    app,        \* the application's place in its call
    holds,      \* [Threads -> the Device the thread works on, or None]
    outcome,    \* [Threads -> the error destroy_drained_device returned]
    back,       \* where the application goes on after reap_graveyard
    pumped,     \* the error of the application's last poll of libusb
    destroying, \* "no", "once" (context_destroy) or "blocking"
    first,      \* context_destroy_impl's close_error
    observed,   \* destroy_blocking's observed
    failures,   \* polls failed so far
    owed,       \* history: errors the application has not been told, unless
                \* an earlier one it has not been told either took their place
    swallowed   \* history: errors a wait took for a result of its own

history == <<owed, swallowed>>
errors == <<deferred, terminal, closeError, outcome, pumped, first, observed, history>>
threads == <<event, app, holds, back, destroying>>
vars == <<where, busy, closeError, deferred, terminal, dead, stop, event, app, holds,
          outcome, back, pumped, destroying, first, observed, failures, owed, swallowed>>

InternalThread == event # "none"
Threads == {"app", "event"}
Places == {"unopened", "live", "closing", "graveyard", "destroying", "freed"}
InPlace(p) == {d \in Devices : where[d] = p}

(* graph_drained, for a Device in the graveyard. *)
Drained(d) == d \notin busy

Init ==
    /\ where = [d \in Devices |-> "unopened"]
    /\ busy = {} /\ owed = {} /\ swallowed = {}
    /\ closeError = [d \in Devices |-> None]
    /\ deferred = None /\ first = None /\ observed = None /\ pumped = None
    /\ terminal = FALSE /\ dead = FALSE /\ stop = FALSE
    /\ event \in {"poll", "none"}
    /\ app = "idle" /\ back = "idle" /\ destroying = "no"
    /\ holds = [t \in Threads |-> None]
    /\ outcome = [t \in Threads |-> None]
    /\ failures = 0

-----------------------------------------------------------------------------
(* Errors *)

(* latch_context_error: the first error is kept until it is taken.         *)
Latch(e) ==
    IF e = None THEN UNCHANGED <<deferred, owed>>
    ELSE IF deferred = None
         THEN /\ deferred' = e
              /\ owed' = owed \cup {e}
         ELSE /\ UNCHANGED deferred
              /\ owed' = (owed \ {e}) \cup {deferred}

(* remember_close_error: the Device keeps its first error.                 *)
Remember(d, e) ==
    IF closeError[d] = None
    THEN /\ closeError' = [closeError EXCEPT ![d] = e]
         /\ owed' = owed \cup {e}
    ELSE /\ UNCHANGED closeError
         /\ owed' = owed \ ({e} \ {closeError[d]})

(* A step of the teardown of the Device d that may fail. *)
MayFail(d) == Remember(d, d) \/ UNCHANGED <<closeError, owed>>

(* preflight_context: the terminal error every time, else the deferred one once. *)
Pending == IF dead /\ terminal THEN "exception" ELSE deferred
Preflight ==
    IF dead /\ terminal THEN UNCHANGED deferred ELSE deferred' = None

(* A pending error is taken and what the call then returns is not it.      *)
Swallow ==
    /\ deferred' = None
    /\ swallowed' = swallowed \cup {Pending}

-----------------------------------------------------------------------------
(* The reaper, run by either thread *)

(* reap_graveyard picks a drained Device and takes it out of the graveyard *)
(* in one critical section.                                                *)
PickKeepsEntry(t, d) ==
    /\ holds' = [holds EXCEPT ![t] = d]
    /\ UNCHANGED where

Pick(t, d) ==
    /\ holds' = [holds EXCEPT ![t] = d]
    /\ where' = [where EXCEPT ![d] = "destroying"]

Ripe == {d \in InPlace("graveyard") : Drained(d)}

(* destroy_drained_device: requests 55 and reservations may add an error,  *)
(* the Device is freed and its first error returned.                       *)
DestroyDevice(t) ==
    LET d == holds[t] IN
    /\ \E e \in IF closeError[d] = None THEN {None, d} ELSE {closeError[d]} :
         /\ outcome' = [outcome EXCEPT ![t] = e]
         /\ owed' = owed \cup ({e} \ {None})
    /\ closeError' = [closeError EXCEPT ![d] = None]
    /\ where' = [where EXCEPT ![d] = "freed"]
    /\ holds' = [holds EXCEPT ![t] = None]

-----------------------------------------------------------------------------
(* The event thread *)

(* Runtime::poll inside a thread's loop: some callbacks run.               *)
Dispatch ==
    /\ \E D \in SUBSET busy : busy' = busy \ D
    /\ UNCHANGED failures

PollFails ==
    /\ failures < MaxPollFailures
    /\ failures' = failures + 1
    /\ UNCHANGED busy

EventPoll ==
    /\ event = "poll" /\ ~stop
    /\ \/ Dispatch /\ event' = "reap" /\ Latch(None)
       \/ PollFails /\ event' = "reapFailed" /\ Latch("poll")
    /\ UNCHANGED <<where, closeError, terminal, dead, stop, app, holds, outcome, back,
                   pumped, destroying, first, observed, swallowed>>

EventPick ==
    /\ event \in {"reap", "reapFailed"} /\ holds["event"] = None
    /\ outcome["event"] = None
    /\ \E d \in Ripe : Pick("event", d)
    /\ UNCHANGED <<busy, closeError, deferred, terminal, dead, stop, event, app,
                   outcome, back, pumped, destroying, first, observed, failures,
                   history>>

EventDestroys ==
    /\ holds["event"] # None
    /\ DestroyDevice("event")
    /\ UNCHANGED <<busy, deferred, terminal, dead, stop, event, app, back, pumped,
                   destroying, first, observed, failures, swallowed>>

EventLatches ==
    /\ outcome["event"] # None
    /\ Latch(outcome["event"])
    /\ outcome' = [outcome EXCEPT !["event"] = None]
    /\ UNCHANGED <<where, busy, closeError, terminal, dead, stop, event, app, holds,
                   back, pumped, destroying, first, observed, failures, swallowed>>

(* Nothing left to reap: the next poll, or after a failed one a short wait *)
(* whose lock may throw.                                                   *)
EventNext ==
    /\ event \in {"reap", "reapFailed"} /\ Ripe = {}
    /\ holds["event"] = None /\ outcome["event"] = None
    /\ \/ event' = "poll"
       \/ event = "reapFailed" /\ event' = "caught"
    /\ UNCHANGED <<where, busy, closeError, deferred, terminal, dead, stop, app,
                   holds, outcome, back, pumped, destroying, first, observed,
                   failures, history>>

(* latch_terminal_event_error: both errors under the mutex, then the flag, *)
(* and only then does the thread exit.                                     *)
EventTerminal ==
    /\ event = "caught" /\ ~terminal
    /\ terminal' = TRUE
    /\ Latch("exception")
    /\ UNCHANGED <<where, busy, closeError, dead, stop, event, app, holds, outcome,
                   back, pumped, destroying, first, observed, failures, swallowed>>

EventFails ==
    /\ event = "caught" /\ terminal
    /\ dead' = TRUE
    /\ event' = "failed"
    /\ UNCHANGED <<where, busy, errors, stop, app, holds, back, destroying, failures>>

EventExits ==
    /\ event = "failed" \/ (event = "poll" /\ stop)
    /\ event' = "gone"
    /\ UNCHANGED <<where, busy, errors, dead, stop, app, holds, back, destroying,
                   failures>>

-----------------------------------------------------------------------------
(* The application: opening, using and closing Devices *)

Told(e) == owed' = owed \ {e}

(* A call that looks at the Context first publishes a pending error.       *)
AppCall ==
    /\ app = "idle" /\ Pending # None
    /\ Told(Pending) /\ Preflight
    /\ UNCHANGED <<where, busy, closeError, terminal, dead, stop, threads, outcome,
                   pumped, first, observed, failures, swallowed>>

(* aoahid_device_open, when no error is pending. *)
DeviceOpen(d) ==
    /\ app = "idle" /\ Pending = None /\ where[d] = "unopened"
    /\ where' = [where EXCEPT ![d] = "live"]
    /\ UNCHANGED <<busy, errors, dead, stop, threads, failures>>

(* A report is accepted. In caller-poll mode the submission polls once; if *)
(* that fails it is still a success, and the error is kept for later.      *)
Accepted(d) ==
    \/ /\ InternalThread
       /\ busy' = busy \cup {d}
       /\ Latch(None) /\ UNCHANGED failures
    \/ /\ ~InternalThread
       /\ \E D \in SUBSET (busy \cup {d}) : busy' = (busy \cup {d}) \ D
       /\ Latch(None) /\ UNCHANGED failures
    \/ /\ ~InternalThread /\ failures < MaxPollFailures
       /\ failures' = failures + 1
       /\ busy' = busy \cup {d}
       /\ Latch("poll")

Submit(d) ==
    /\ app = "idle" /\ Pending = None /\ where[d] = "live"
    /\ Accepted(d)
    /\ UNCHANGED <<where, closeError, terminal, dead, stop, threads, outcome, pumped,
                   first, observed, swallowed>>

-----------------------------------------------------------------------------
(* poll_until_idle: aoahid_node_submit_blocking, aoahid_node_close and the *)
(* Node loop of a Device's close wait for the reports of a Node. The wait  *)
(* looks at the Context when it begins, after every sleep and in every     *)
(* submission; a pending error ends it as if it were the Node's result.    *)
Waited == IF holds["app"] = None THEN InPlace("live") ELSE {holds["app"]}

WaitBegins ==
    /\ app \in {"idle", "closing"} /\ Pending = None /\ Waited # {}
    /\ app' = "waiting"
    /\ UNCHANGED <<where, busy, errors, dead, stop, event, holds, back, destroying,
                   failures>>

(* The Node's next report, unless an error is pending.                     *)
WaitSubmits ==
    /\ app = "waiting" /\ Pending = None
    /\ \E d \in Waited : Accepted(d)
    /\ UNCHANGED <<where, closeError, terminal, dead, stop, threads, outcome, pumped,
                   first, observed, swallowed>>

WaitPolls ==
    /\ app = "waiting" /\ ~InternalThread
    /\ Dispatch
    /\ UNCHANGED <<where, errors, dead, stop, threads>>

(* The submission takes an error whose code is BUSY, and the wait reads    *)
(* that as a full pool and goes on.                                        *)
WaitTakesBusy ==
    /\ app = "waiting" /\ Pending \in BusyErrors
    /\ Swallow
    /\ UNCHANGED <<where, busy, closeError, terminal, dead, stop, threads, outcome,
                   pumped, first, observed, failures, owed>>

(* The end of the wait in a call: its own result, or the error it took ... *)
WaitReturns ==
    /\ app = "waiting" /\ holds["app"] = None
    /\ \/ UNCHANGED <<deferred, owed>>
       \/ Pending # None /\ Told(Pending) /\ Preflight
    /\ app' = "idle"
    /\ UNCHANGED <<where, busy, closeError, terminal, dead, stop, event, holds,
                   outcome, back, pumped, destroying, first, observed, failures,
                   swallowed>>

(* ... except that aoahid_node_close says CLOSE_PENDING instead of a       *)
(* TIMEOUT while the Node has its report in flight.                        *)
NodeCloseTakesTimeout ==
    /\ app = "idle" \/ (app = "waiting" /\ InternalThread)
    /\ holds["app"] = None
    /\ Pending \in TimeoutErrors /\ busy \cap Waited # {}
    /\ Swallow
    /\ app' = "idle"
    /\ UNCHANGED <<where, busy, closeError, terminal, dead, stop, event, holds,
                   outcome, back, pumped, destroying, first, observed, failures,
                   owed>>

-----------------------------------------------------------------------------
(* Closing a Device *)

(* device_close_impl takes the Device out of the Context's list.           *)
ConsumeHandle(d) ==
    /\ where[d] = "live"
    /\ where' = [where EXCEPT ![d] = "closing"]
    /\ holds' = [holds EXCEPT !["app"] = d]
    /\ app' = "closing"

DeviceClose(d) ==
    /\ app = "idle" /\ ConsumeHandle(d)
    /\ UNCHANGED <<busy, errors, dead, stop, event, back, destroying, failures>>

(* The Node loop, the loss of the Channels and cancel_all: each may fail.  *)
(* If a wait of the loop took a pending error, the Device keeps it; but a  *)
(* TIMEOUT with the Node's report in flight is read as a drain budget that *)
(* ran out, and forgotten.                                                 *)
CloseSteps ==
    LET d == holds["app"] IN
    /\ app \in {"closing", "waiting"} /\ d # None
    /\ \/ MayFail(d) /\ UNCHANGED <<deferred, swallowed>>
       \/ Pending # None /\ Remember(d, Pending) /\ Preflight /\ UNCHANGED swallowed
       \/ Pending \in TimeoutErrors /\ d \in busy /\ Swallow /\ MayFail(d)
    /\ app' = "draining"
    /\ UNCHANGED <<where, busy, terminal, dead, stop, event, holds, outcome, back,
                   pumped, destroying, first, observed, failures>>

(* The wait for the cancelled transfers; in caller-poll mode it polls. *)
DrainPolls ==
    /\ app = "draining" /\ ~InternalThread /\ ~Drained(holds["app"])
    /\ \/ Dispatch /\ UNCHANGED <<app, closeError, owed>>
       \/ PollFails /\ app' = "drained" /\ Remember(holds["app"], holds["app"])
    /\ UNCHANGED <<where, deferred, terminal, dead, stop, event, holds, outcome, back,
                   pumped, destroying, first, observed, swallowed>>

(* Drained, or the deadline passed. *)
DrainEnds ==
    /\ app = "draining"
    /\ app' = "drained"
    /\ UNCHANGED <<where, busy, errors, dead, stop, event, holds, back, destroying,
                   failures>>

(* The end of device_close_impl: destroy the drained graph and return its  *)
(* first error, which the caller or the destroying Context keeps ...       *)
CloseDestroys ==
    /\ app = "drained" /\ Drained(holds["app"])
    /\ DestroyDevice("app")
    /\ app' = "closed"
    /\ UNCHANGED <<busy, deferred, terminal, dead, stop, event, back, pumped,
                   destroying, first, observed, failures, swallowed>>

CloseReturns ==
    LET e == outcome["app"] IN
    /\ app = "closed"
    /\ outcome' = [outcome EXCEPT !["app"] = None]
    /\ IF destroying = "no"
       THEN app' = "idle" /\ Told(e) /\ UNCHANGED first
       ELSE /\ app' = "destroy"
            /\ first' = IF first = None THEN e ELSE first
            /\ owed' = IF first = None THEN owed ELSE owed \ {e}
    /\ UNCHANGED <<where, busy, closeError, deferred, terminal, dead, stop, event,
                   holds, back, pumped, destroying, observed, failures, swallowed>>

(* ... or park_in_graveyard, the last step that may touch the Device.      *)
CloseParks ==
    /\ app = "drained" /\ ~Drained(holds["app"])
    /\ where' = [where EXCEPT ![holds["app"]] = "graveyard"]
    /\ holds' = [holds EXCEPT !["app"] = None]
    /\ app' = IF destroying = "no" THEN "idle" ELSE "destroy"
    /\ UNCHANGED <<busy, errors, dead, stop, event, back, destroying, failures>>

-----------------------------------------------------------------------------
(* The application reaps: in a poll and in the destruction of the Context *)

AppPick ==
    /\ app = "reap" /\ holds["app"] = None /\ outcome["app"] = None
    /\ \E d \in Ripe : Pick("app", d)
    /\ UNCHANGED <<busy, closeError, deferred, terminal, dead, stop, event, app,
                   outcome, back, pumped, destroying, first, observed, failures,
                   history>>

AppDestroys ==
    /\ app = "reap" /\ holds["app"] # None
    /\ DestroyDevice("app")
    /\ UNCHANGED <<busy, deferred, terminal, dead, stop, event, app, back, pumped,
                   destroying, first, observed, failures, swallowed>>

AppLatches ==
    /\ app = "reap" /\ outcome["app"] # None
    /\ Latch(outcome["app"])
    /\ outcome' = [outcome EXCEPT !["app"] = None]
    /\ UNCHANGED <<where, busy, closeError, terminal, dead, stop, threads, pumped,
                   first, observed, failures, swallowed>>

AppReaped ==
    /\ app = "reap" /\ Ripe = {} /\ holds["app"] = None /\ outcome["app"] = None
    /\ app' = back /\ back' = "idle"
    /\ UNCHANGED <<where, busy, errors, dead, stop, event, holds, destroying, failures>>

-----------------------------------------------------------------------------
(* aoahid_context_poll, in caller-poll mode; destroy_blocking calls it too *)

(* What context_poll returns: to the application, or to destroy_blocking,  *)
(* which keeps the first failure.                                          *)
PollReturns(e) ==
    IF destroying = "no"
    THEN app' = "idle" /\ Told(e) /\ UNCHANGED observed
    ELSE /\ app' = "deadline"
         /\ observed' = IF observed = None THEN e ELSE observed
         /\ owed' = IF observed = None THEN owed ELSE owed \ ({e} \ {observed})

ContextPoll ==
    /\ ~InternalThread /\ app \in {"idle", "pending"}
    /\ IF Pending # None
       THEN /\ PollReturns(Pending) /\ Preflight
            /\ UNCHANGED <<busy, failures, pumped, back>>
       ELSE /\ \/ Dispatch /\ pumped' = None /\ UNCHANGED owed
               \/ PollFails /\ pumped' = "poll" /\ owed' = owed \cup {"poll"}
            /\ app' = "reap" /\ back' = "polled"
            /\ UNCHANGED <<deferred, observed>>
    /\ UNCHANGED <<where, closeError, terminal, dead, stop, event, holds, outcome,
                   destroying, first, swallowed>>

ContextPollReturns ==
    /\ app = "polled"
    /\ IF pumped # None
       THEN PollReturns(pumped) /\ UNCHANGED deferred
       ELSE PollReturns(Pending) /\ Preflight
    /\ pumped' = None
    /\ UNCHANGED <<where, busy, closeError, terminal, dead, stop, event, holds,
                   outcome, back, destroying, first, failures, swallowed>>

-----------------------------------------------------------------------------
(* aoahid_context_destroy and aoahid_context_destroy_blocking *)

ContextDestroy ==
    /\ app = "idle"
    /\ app' = "destroy"
    /\ destroying' \in {"once", "blocking"}
    /\ UNCHANGED <<where, busy, errors, dead, stop, event, holds, back, failures>>

DestroyCloses ==
    /\ app = "destroy"
    /\ \E d \in InPlace("live") : ConsumeHandle(d)
    /\ UNCHANGED <<busy, errors, dead, stop, event, back, destroying, failures>>

DestroyReaps ==
    /\ app = "destroy" /\ InPlace("live") = {}
    /\ Latch(first) /\ first' = None
    /\ app' = "reap" /\ back' = "reaped"
    /\ UNCHANGED <<where, busy, closeError, terminal, dead, stop, event, holds,
                   outcome, pumped, destroying, observed, failures, swallowed>>

DestroyPends ==
    /\ app = "reaped" /\ InPlace("graveyard") # {}
    /\ IF destroying = "once"
       THEN app' = "idle" /\ destroying' = "no"
       ELSE app' = "pending" /\ UNCHANGED destroying
    /\ UNCHANGED <<where, busy, errors, dead, stop, event, holds, back, failures>>

DestroyStops ==
    /\ app = "reaped" /\ InPlace("graveyard") = {}
    /\ stop' = TRUE
    /\ app' = "join"
    /\ UNCHANGED <<where, busy, errors, dead, event, holds, back, destroying,
                   failures>>

(* The thread has ended; the terminal error is preferred to the deferred   *)
(* one, which is discarded, and an observed one to both.                   *)
Joined == event \in {"gone", "none"}

DestroyEnds ==
    /\ app = "join" /\ Joined
    /\ app' = "gone"
    /\ owed' = owed \ (IF observed # None \/ (dead /\ terminal)
                       THEN {observed, "exception", deferred} ELSE {deferred})
    /\ deferred' = None /\ observed' = None
    /\ UNCHANGED <<where, busy, closeError, terminal, dead, stop, event, holds,
                   outcome, back, pumped, destroying, first, failures, swallowed>>

(* destroy_blocking with callbacks still to come. With a live event thread *)
(* it waits; after a dead one it joins it and polls and reaps in its place.*)
TakesOverNever == FALSE
TakesOver == InternalThread /\ dead

BlockingWaits ==
    /\ app = "pending" /\ InternalThread /\ ~TakesOver
    /\ app' = "deadline"
    /\ UNCHANGED <<where, busy, errors, dead, stop, event, holds, back, destroying,
                   failures>>

BlockingJoins ==
    /\ app = "pending" /\ TakesOver
    /\ stop' = (stop \/ event # "gone")
    /\ app' = "takeover"
    /\ UNCHANGED <<where, busy, errors, dead, event, holds, back, destroying,
                   failures>>

BlockingPumps ==
    /\ app = "takeover" /\ event = "gone"
    /\ \/ Dispatch /\ pumped' = None /\ UNCHANGED owed
       \/ PollFails /\ pumped' = "poll" /\ owed' = owed \cup {"poll"}
    /\ app' = "reap" /\ back' = "tookOver"
    /\ UNCHANGED <<where, closeError, deferred, terminal, dead, stop, event, holds,
                   outcome, destroying, first, observed, swallowed>>

BlockingLatches ==
    /\ app = "tookOver"
    /\ Latch(pumped) /\ pumped' = None
    /\ app' = "deadline"
    /\ UNCHANGED <<where, busy, closeError, terminal, dead, stop, event, holds,
                   outcome, back, destroying, first, observed, failures, swallowed>>

BlockingRetries ==
    /\ app = "deadline"
    /\ app' = "destroy"
    /\ UNCHANGED <<where, busy, errors, dead, stop, event, holds, back, destroying,
                   failures>>

(* The deadline: an observed error goes back to the Context, which stays   *)
(* the caller's.                                                           *)
KeepsObservedNot(e) == UNCHANGED <<deferred, owed>>
KeepsObserved(e) == Latch(e)

BlockingTimesOut ==
    /\ app = "deadline"
    /\ app' = "idle" /\ destroying' = "no"
    /\ KeepsObserved(observed) /\ observed' = None
    /\ UNCHANGED <<where, busy, closeError, terminal, dead, stop, event, holds,
                   outcome, back, pumped, first, failures, swallowed>>

-----------------------------------------------------------------------------
Event ==
    EventPoll \/ EventPick \/ EventDestroys \/ EventLatches \/ EventNext
        \/ EventTerminal \/ EventFails \/ EventExits

(* The steps of a call that has begun, the deadline of the blocking one excepted. *)
InCall ==
    \/ WaitSubmits \/ WaitPolls \/ WaitTakesBusy \/ WaitReturns
    \/ app = "waiting" /\ NodeCloseTakesTimeout
    \/ app = "closing" /\ WaitBegins
    \/ CloseSteps \/ DrainPolls \/ DrainEnds \/ CloseDestroys \/ CloseReturns
    \/ CloseParks \/ AppPick \/ AppDestroys \/ AppLatches \/ AppReaped
    \/ (app = "pending" /\ ContextPoll) \/ ContextPollReturns
    \/ DestroyCloses \/ DestroyReaps \/ DestroyPends \/ DestroyStops \/ DestroyEnds
    \/ BlockingWaits \/ BlockingJoins \/ BlockingPumps \/ BlockingLatches
    \/ BlockingRetries

Calls ==
    \/ AppCall \/ ContextDestroy
    \/ app = "idle" /\ (ContextPoll \/ WaitBegins \/ NodeCloseTakesTimeout)
    \/ \E d \in Devices : DeviceOpen(d) \/ Submit(d) \/ DeviceClose(d)

Next == Event \/ InCall \/ Calls \/ BlockingTimesOut

Spec == Init /\ [][Next]_vars

(* A poll that runs every callback. *)
Delivers == (EventPoll \/ ContextPoll \/ BlockingPumps) /\ busy' = {}

(* Every thread goes on, the deadline of a Device's close ends its Node    *)
(* loop and its drain, and the callbacks of cancelled transfers arrive at  *)
(* some poll of the thread that polls.                                     *)
LiveSpec ==
    /\ Spec
    /\ WF_vars(Event) /\ WF_vars(InCall) /\ WF_vars(CloseSteps) /\ WF_vars(DrainEnds)
    /\ SF_vars(Delivers)

-----------------------------------------------------------------------------
(* A Device belongs to one owner at a time: the application's list, the    *)
(* closing call, the graveyard or the one thread that reaps it. Nothing    *)
(* of a freed Device is held or called back, the application polls in      *)
(* place of the event thread only when that one is gone, and nothing       *)
(* outlives the Context: neither a Device nor the event thread. (Two       *)
(* threads reap, a parked Device may be gone before the close call         *)
(* returns, and a thread that has failed has not exited yet.)              *)
TeardownIsExclusive ==
    /\ \A t \in Threads : holds[t] # None => where[holds[t]] # "freed"
    /\ holds["app"] # None => holds["app"] # holds["event"]
    /\ busy \cap InPlace("freed") = {}
    /\ app = "tookOver" \/ (app = "reap" /\ back = "tookOver") => event = "gone"
    /\ app = "gone" =>
         Joined /\ \A d \in Devices : where[d] \in {"unopened", "freed"}

(* An error found on the event thread, in a poll or in a reaped Device     *)
(* reaches the application: until it is told, or an earlier one is told in *)
(* its place, some part of the Context still holds it, and a destroyed     *)
(* Context owes none. The exception is what the code does with a TIMEOUT   *)
(* or a BUSY that a wait for a report takes for its own: those, and no     *)
(* others, may be swallowed there and nowhere else. (deferred_error holds  *)
(* one error; a wait, the close of another Device and the destruction of   *)
(* the Context move errors through close_error, observed and the terminal  *)
(* error on several paths.)                                                *)
Held ==
    {deferred, first, observed, pumped, outcome["app"], outcome["event"]}
        \cup {closeError[d] : d \in Devices}
        \cup (IF terminal THEN {"exception"} ELSE {})

NoErrorIsLost ==
    /\ swallowed \subseteq TimeoutErrors \cup BusyErrors
    /\ owed \subseteq Held \cup swallowed
    /\ app = "gone" => owed \subseteq swallowed

(* A blocking destruction ends without the help of its deadline, also when *)
(* the event thread died before or during it and left no one to poll.      *)
DestroyIsPossible == (destroying = "blocking") ~> (destroying = "no" \/ app = "gone")
=============================================================================
