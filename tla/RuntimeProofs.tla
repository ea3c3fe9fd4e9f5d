----------------------------- MODULE RuntimeProofs -----------------------------
(***************************************************************************)
(* The parts of the runtime that run side by side keep the invariants that *)
(* are proved of each of them alone: a behaviour of the composition is, to *)
(* each part, a behaviour of its own specification.                        *)
(***************************************************************************)
EXTENDS MCRuntime, Sequences, FiniteSetTheorems, TLAPS

-----------------------------------------------------------------------------
(* A Context of the composition lives as ContextLife says.                  *)
LEMMA ContextRuns == Spec => Context!Spec
  <1>1. Init => Context!Init
    BY DEF Init
  <1>2. [Next]_vars => [Context!Next]_Context!vars
    BY DEF Next, vars, contextVars, Context!vars
  <1> QED
    BY <1>1, <1>2, PTL DEF Spec, Context!Spec

(* The Ports of the composition are those of PortRegistry.                  *)
LEMMA RegistryRuns == Spec => Registry!Spec
  <1>1. Init => Registry!Init
    BY DEF Init
  <1>2. [Next]_vars => [Registry!Next]_Registry!vars
    BY DEF Next, vars, portVars, Registry!vars
  <1> QED
    BY <1>1, <1>2, PTL DEF Spec, Registry!Spec

(* HIDs of the composition are registered as Registration says.             *)
LEMMA HIDsRun == Spec => HIDs!Spec
  <1>1. Init => HIDs!Init
    BY DEF Init
  <1>2. [Next]_vars => [HIDs!Next]_HIDs!vars
    BY DEF Next, vars, hidVars, HIDs!vars
  <1> QED
    BY <1>1, <1>2, PTL DEF Spec, HIDs!Spec

-----------------------------------------------------------------------------
(* The life of a Context: who owns a Device on its way from the             *)
(* application's list to its end, and where an error waits until the        *)
(* application is told, for any Devices and any number of failing polls.    *)
ErrorSources == Devices \cup {"poll", "exception"}

CloseStages == {"closing", "draining", "drained"}

WaitStages == CloseStages \cup {"waiting"}

ReapStages == {"reap", "reapFailed"}

ContextTypes ==
  /\ where \in [Devices -> Context!Places]
  /\ busy \subseteq Devices /\ closeError \in [Devices -> ErrorSources \cup {None}]
  /\ owed \subseteq ErrorSources /\ swallowed \subseteq ErrorSources
  /\ deferred \in ErrorSources \cup {None} /\ pumped \in {"poll", None}
  /\ first \in ErrorSources \cup {None} /\ observed \in ErrorSources \cup {None}
  /\ terminal \in BOOLEAN /\ dead \in BOOLEAN /\ stop \in BOOLEAN
  /\ event \in ReapStages \cup {"poll", "caught", "failed", "gone", "none"}
  /\ app \in WaitStages \cup {"idle", "closed", "destroy", "reap", "polled", "reaped",
                              "pending", "takeover", "tookOver", "deadline", "join", "gone"}
  /\ back \in {"idle", "polled", "reaped", "tookOver"}
  /\ destroying \in {"no", "once", "blocking"}
  /\ holds \in [Context!Threads -> Devices \cup {None}]
  /\ outcome \in [Context!Threads -> ErrorSources \cup {None}]
  /\ failures \in Nat

(* A thread that holds a Device is at a step that works on it, and a Device *)
(* that is neither in a list nor gone is held by one thread.                *)
HolderInv ==
  /\ app \in CloseStages => holds["app"] # None /\ where[holds["app"]] = "closing"
  /\ holds["app"] # None => \/ app \in WaitStages /\ where[holds["app"]] = "closing"
                            \/ app = "reap" /\ where[holds["app"]] = "destroying"
  /\ holds["event"] # None => event \in ReapStages /\ where[holds["event"]] = "destroying"
  /\ holds["app"] # None => holds["app"] # holds["event"]
  /\ \A d \in Devices : where[d] \in {"closing", "destroying"} =>
       \E t \in Context!Threads : holds[t] = d

(* Callbacks come only for a Device that no one destroys, and only a Device *)
(* that exists keeps an error.                                              *)
BusyInv ==
  /\ \A d \in busy : where[d] \in {"live", "closing", "graveyard"}
  /\ \A d \in Devices : closeError[d] # None => where[d] \notin {"unopened", "freed"}

(* What the destruction of the Context has found empty stays so.            *)
DestroyInv ==
  /\ app \in {"reaped", "join", "gone"} \/ (app = "reap" /\ back = "reaped") =>
       \A d \in Devices : where[d] # "live"
  /\ app \in {"join", "gone"} => \A d \in Devices : where[d] # "graveyard"
  /\ app = "gone" => Context!Joined

(* The event thread that met an exception says so before it exits, and the *)
(* application polls in its place only after that.                          *)
ThreadInv ==
  /\ terminal /\ event # "caught" => dead
  /\ app = "tookOver" \/ (app = "reap" /\ back = "tookOver") => event = "gone"

(* An error on its way is where the step that hands it on will find it, so  *)
(* that no step overwrites one.                                             *)
PathInv ==
  /\ \A t \in Context!Threads : holds[t] # None => outcome[t] = None
  /\ outcome["app"] # None => app \in {"closed", "reap"}
  /\ outcome["event"] # None => event \in ReapStages
  /\ pumped # None => \/ app \in {"polled", "tookOver"}
                      \/ app = "reap" /\ back \in {"polled", "tookOver"}
  /\ first # None => \/ app \in CloseStages \cup {"closed", "destroy"} /\ destroying # "no"
                     \/ app = "waiting" /\ destroying # "no" /\ holds["app"] # None

ContextInv ==
  /\ ContextTypes /\ HolderInv /\ BusyInv /\ DestroyInv /\ ThreadInv /\ PathInv
  /\ Context!NoErrorIsLost

-----------------------------------------------------------------------------
(* Every step keeps the types: the Device a step works on is one. *)
LEMMA ContextTypesKept ==
  ASSUME Context!ContextLifeAssumption, ContextInv, [Context!Next]_Context!vars
  PROVE  ContextTypes'
  <1> USE DEF Context!ContextLifeAssumption, ContextInv, ContextTypes, HolderInv, PathInv,
              Context!Places, ErrorSources, CloseStages, WaitStages, ReapStages,
              Context!Threads, Context!history
  <1>1. CASE Context!EventPoll
    BY <1>1 DEF Context!EventPoll, Context!Dispatch, Context!PollFails, Context!Latch
  <1>2. CASE Context!EventPick
    BY <1>2 DEF Context!EventPick, Context!Pick, Context!Ripe, Context!InPlace, Context!Drained
  <1>3. CASE Context!EventDestroys
    BY <1>3 DEF Context!EventDestroys, Context!DestroyDevice
  <1>4. CASE Context!EventLatches
    BY <1>4 DEF Context!EventLatches, Context!Latch
  <1>5. CASE Context!EventNext
    BY <1>5 DEF Context!EventNext
  <1>6. CASE Context!EventTerminal
    BY <1>6 DEF Context!EventTerminal, Context!Latch
  <1>7. CASE Context!EventFails
    BY <1>7 DEF Context!EventFails, Context!errors
  <1>8. CASE Context!EventExits
    BY <1>8 DEF Context!EventExits, Context!errors
  <1>9. CASE Context!WaitSubmits
    BY <1>9 DEF Context!WaitSubmits, Context!Waited, Context!InPlace, Context!Accepted,
       Context!Latch, Context!threads
  <1>10. CASE Context!WaitPolls
    BY <1>10 DEF Context!WaitPolls, Context!Dispatch, Context!errors, Context!threads
  <1>11. CASE Context!WaitTakesBusy
    BY <1>11 DEF Context!WaitTakesBusy, Context!Swallow, Context!Pending, Context!threads
  <1>12. CASE Context!WaitReturns
    BY <1>12 DEF Context!WaitReturns, Context!Told, Context!Pending, Context!Preflight
  <1>13. CASE Context!NodeCloseTakesTimeout
    BY <1>13 DEF Context!NodeCloseTakesTimeout, Context!Swallow, Context!Pending,
       Context!Waited, Context!InPlace
  <1>14. CASE Context!WaitBegins
    BY <1>14 DEF Context!WaitBegins, Context!Waited, Context!InPlace, Context!errors
  <1>15. CASE Context!CloseSteps
    BY <1>15 DEF Context!CloseSteps, Context!MayFail, Context!Remember, Context!Swallow,
       Context!Pending, Context!Preflight
  <1>16. CASE Context!DrainPolls
    BY <1>16 DEF Context!DrainPolls, Context!Remember, Context!Dispatch, Context!PollFails
  <1>17. CASE Context!DrainEnds
    BY <1>17 DEF Context!DrainEnds, Context!errors
  <1>18. CASE Context!CloseDestroys
    BY <1>18 DEF Context!CloseDestroys, Context!DestroyDevice, Context!Drained
  <1>19. CASE Context!CloseReturns
    BY <1>19 DEF Context!CloseReturns, Context!Told
  <1>20. CASE Context!CloseParks
    BY <1>20 DEF Context!CloseParks, Context!errors
  <1>21. CASE Context!AppPick
    BY <1>21 DEF Context!AppPick, Context!Pick, Context!Ripe, Context!InPlace, Context!Drained
  <1>22. CASE Context!AppDestroys
    BY <1>22 DEF Context!AppDestroys, Context!DestroyDevice
  <1>23. CASE Context!AppLatches
    BY <1>23 DEF Context!AppLatches, Context!Latch, Context!threads
  <1>24. CASE Context!AppReaped
    BY <1>24 DEF Context!AppReaped, Context!errors
  <1>25. CASE Context!ContextPoll
    BY <1>25 DEF Context!ContextPoll, Context!PollReturns, Context!Told, Context!Pending,
       Context!Preflight, Context!Dispatch, Context!PollFails
  <1>26. CASE Context!ContextPollReturns
    BY <1>26 DEF Context!ContextPollReturns, Context!PollReturns, Context!Told, Context!Pending,
       Context!Preflight
  <1>27. CASE Context!DestroyCloses
    BY <1>27 DEF Context!DestroyCloses, Context!ConsumeHandle, Context!InPlace, Context!errors
  <1>28. CASE Context!DestroyReaps
    BY <1>28 DEF Context!DestroyReaps, Context!InPlace, Context!Latch
  <1>29. CASE Context!DestroyPends
    BY <1>29 DEF Context!DestroyPends, Context!errors
  <1>30. CASE Context!DestroyStops
    BY <1>30 DEF Context!DestroyStops, Context!InPlace, Context!errors
  <1>31. CASE Context!DestroyEnds
    BY <1>31 DEF Context!DestroyEnds, Context!Joined
  <1>32. CASE Context!BlockingWaits
    BY <1>32 DEF Context!BlockingWaits, Context!errors
  <1>33. CASE Context!BlockingJoins
    BY <1>33 DEF Context!BlockingJoins, Context!errors
  <1>34. CASE Context!BlockingPumps
    BY <1>34 DEF Context!BlockingPumps, Context!Dispatch, Context!PollFails
  <1>35. CASE Context!BlockingLatches
    BY <1>35 DEF Context!BlockingLatches, Context!Latch
  <1>36. CASE Context!BlockingRetries
    BY <1>36 DEF Context!BlockingRetries, Context!errors
  <1>37. CASE Context!AppCall
    BY <1>37 DEF Context!AppCall, Context!Told, Context!Pending, Context!Preflight,
       Context!threads
  <1>38. CASE Context!ContextDestroy
    BY <1>38 DEF Context!ContextDestroy, Context!errors
  <1>39. ASSUME NEW d \in Devices, Context!DeviceOpen(d) PROVE ContextTypes'
    BY <1>39 DEF Context!DeviceOpen, Context!errors, Context!threads
  <1>40. ASSUME NEW d \in Devices, Context!Submit(d) PROVE ContextTypes'
    BY <1>40 DEF Context!Submit, Context!Accepted, Context!Latch, Context!threads
  <1>41. ASSUME NEW d \in Devices, Context!DeviceClose(d) PROVE ContextTypes'
    BY <1>41 DEF Context!DeviceClose, Context!ConsumeHandle, Context!errors
  <1>42. CASE Context!BlockingTimesOut
    BY <1>42 DEF Context!BlockingTimesOut, Context!KeepsObserved, Context!Latch
  <1>43. CASE UNCHANGED Context!vars
    BY <1>43 DEF Context!vars
  <1> HIDE DEF Context!ContextLifeAssumption, ContextInv, ContextTypes, HolderInv, PathInv,
               Context!Places, ErrorSources, CloseStages, WaitStages, ReapStages,
               Context!Threads, Context!history
  <1> QED
    BY <1>1, <1>2, <1>3, <1>4, <1>5, <1>6, <1>7, <1>8, <1>9, <1>10, <1>11, <1>12, <1>13,
       <1>14, <1>15, <1>16, <1>17, <1>18, <1>19, <1>20, <1>21, <1>22, <1>23, <1>24, <1>25,
       <1>26, <1>27, <1>28, <1>29, <1>30, <1>31, <1>32, <1>33, <1>34, <1>35, <1>36, <1>37,
       <1>38, <1>39, <1>40, <1>41, <1>42, <1>43 DEF Context!Next,
       Context!Event, Context!InCall, Context!Calls

(* Every step hands a Device, and an error, to one owner: the steps of the *)
(* two reapers take it out of the graveyard, those of a close out of the   *)
(* application's list.                                                     *)
LEMMA OwnersKept ==
  ASSUME Context!ContextLifeAssumption, ContextInv, [Context!Next]_Context!vars
  PROVE  HolderInv' /\ BusyInv' /\ DestroyInv' /\ ThreadInv' /\ PathInv'
  <1> USE DEF Context!ContextLifeAssumption, ContextInv, ContextTypes, HolderInv, BusyInv,
              DestroyInv, ThreadInv, PathInv, Context!Places, Context!Joined, CloseStages, WaitStages, ReapStages,
              Context!Threads
  <1>1. CASE Context!EventPoll
    BY <1>1 DEF Context!EventPoll, Context!Dispatch, Context!PollFails, Context!Latch
  <1>2. CASE Context!EventPick
    BY <1>2 DEF Context!EventPick, Context!Pick, Context!Ripe, Context!InPlace, Context!Drained
  <1>3. CASE Context!EventDestroys
    BY <1>3 DEF Context!EventDestroys, Context!DestroyDevice
  <1>4. CASE Context!EventLatches
    BY <1>4 DEF Context!EventLatches, Context!Latch
  <1>5. CASE Context!EventNext
    BY <1>5 DEF Context!EventNext
  <1>6. CASE Context!EventTerminal
    BY <1>6 DEF Context!EventTerminal, Context!Latch
  <1>7. CASE Context!EventFails
    BY <1>7 DEF Context!EventFails, Context!errors
  <1>8. CASE Context!EventExits
    BY <1>8 DEF Context!EventExits, Context!errors
  <1>9. CASE Context!WaitSubmits
    BY <1>9 DEF Context!WaitSubmits, Context!Waited, Context!InPlace, Context!Accepted,
       Context!Latch, Context!threads
  <1>10. CASE Context!WaitPolls
    BY <1>10 DEF Context!WaitPolls, Context!Dispatch, Context!errors, Context!threads
  <1>11. CASE Context!WaitTakesBusy
    BY <1>11 DEF Context!WaitTakesBusy, Context!Swallow, Context!Pending, Context!threads
  <1>12. CASE Context!WaitReturns
    BY <1>12 DEF Context!WaitReturns, Context!Told, Context!Pending, Context!Preflight
  <1>13. CASE Context!NodeCloseTakesTimeout
    BY <1>13 DEF Context!NodeCloseTakesTimeout, Context!Swallow, Context!Pending,
       Context!Waited, Context!InPlace
  <1>14. CASE Context!WaitBegins
    BY <1>14 DEF Context!WaitBegins, Context!Waited, Context!InPlace, Context!errors
  <1>15. CASE Context!CloseSteps
    BY <1>15 DEF Context!CloseSteps, Context!MayFail, Context!Remember, Context!Swallow,
       Context!Pending, Context!Preflight
  <1>16. CASE Context!DrainPolls
    BY <1>16 DEF Context!DrainPolls, Context!Remember, Context!Dispatch, Context!PollFails
  <1>17. CASE Context!DrainEnds
    BY <1>17 DEF Context!DrainEnds, Context!errors
  <1>18. CASE Context!CloseDestroys
    BY <1>18 DEF Context!CloseDestroys, Context!DestroyDevice, Context!Drained
  <1>19. CASE Context!CloseReturns
    BY <1>19 DEF Context!CloseReturns, Context!Told
  <1>20. CASE Context!CloseParks
    BY <1>20 DEF Context!CloseParks, Context!errors
  <1>21. CASE Context!AppPick
    BY <1>21 DEF Context!AppPick, Context!Pick, Context!Ripe, Context!InPlace, Context!Drained
  <1>22. CASE Context!AppDestroys
    BY <1>22 DEF Context!AppDestroys, Context!DestroyDevice
  <1>23. CASE Context!AppLatches
    BY <1>23 DEF Context!AppLatches, Context!Latch, Context!threads
  <1>24. CASE Context!AppReaped
    BY <1>24 DEF Context!AppReaped, Context!errors
  <1>25. CASE Context!ContextPoll
    BY <1>25 DEF Context!ContextPoll, Context!PollReturns, Context!Told, Context!Pending,
       Context!Preflight, Context!Dispatch, Context!PollFails
  <1>26. CASE Context!ContextPollReturns
    BY <1>26 DEF Context!ContextPollReturns, Context!PollReturns, Context!Told, Context!Pending,
       Context!Preflight
  <1>27. CASE Context!DestroyCloses
    BY <1>27 DEF Context!DestroyCloses, Context!ConsumeHandle, Context!InPlace, Context!errors
  <1>28. CASE Context!DestroyReaps
    BY <1>28 DEF Context!DestroyReaps, Context!InPlace, Context!Latch
  <1>29. CASE Context!DestroyPends
    BY <1>29 DEF Context!DestroyPends, Context!errors
  <1>30. CASE Context!DestroyStops
    BY <1>30 DEF Context!DestroyStops, Context!InPlace, Context!errors
  <1>31. CASE Context!DestroyEnds
    BY <1>31 DEF Context!DestroyEnds
  <1>32. CASE Context!BlockingWaits
    BY <1>32 DEF Context!BlockingWaits, Context!errors
  <1>33. CASE Context!BlockingJoins
    BY <1>33 DEF Context!BlockingJoins, Context!errors
  <1>34. CASE Context!BlockingPumps
    BY <1>34 DEF Context!BlockingPumps, Context!Dispatch, Context!PollFails
  <1>35. CASE Context!BlockingLatches
    BY <1>35 DEF Context!BlockingLatches, Context!Latch
  <1>36. CASE Context!BlockingRetries
    BY <1>36 DEF Context!BlockingRetries, Context!errors
  <1>37. CASE Context!AppCall
    BY <1>37 DEF Context!AppCall, Context!Told, Context!Pending, Context!Preflight,
       Context!threads
  <1>38. CASE Context!ContextDestroy
    BY <1>38 DEF Context!ContextDestroy, Context!errors
  <1>39. ASSUME NEW d \in Devices, Context!DeviceOpen(d)
         PROVE  HolderInv' /\ BusyInv' /\ DestroyInv' /\ ThreadInv' /\ PathInv'
    BY <1>39 DEF Context!DeviceOpen, Context!errors, Context!threads
  <1>40. ASSUME NEW d \in Devices, Context!Submit(d)
         PROVE  HolderInv' /\ BusyInv' /\ DestroyInv' /\ ThreadInv' /\ PathInv'
    BY <1>40 DEF Context!Submit, Context!Accepted, Context!Latch, Context!threads
  <1>41. ASSUME NEW d \in Devices, Context!DeviceClose(d)
         PROVE  HolderInv' /\ BusyInv' /\ DestroyInv' /\ ThreadInv' /\ PathInv'
    BY <1>41 DEF Context!DeviceClose, Context!ConsumeHandle, Context!errors
  <1>42. CASE Context!BlockingTimesOut
    BY <1>42 DEF Context!BlockingTimesOut, Context!KeepsObserved, Context!Latch
  <1>43. CASE UNCHANGED Context!vars
    BY <1>43 DEF Context!vars
  <1> HIDE DEF Context!ContextLifeAssumption, ContextInv, ContextTypes, HolderInv, BusyInv,
               DestroyInv, ThreadInv, PathInv, Context!Places, Context!Joined, CloseStages, WaitStages, ReapStages,
               Context!Threads, Context!history
  <1> QED
    BY <1>1, <1>2, <1>3, <1>4, <1>5, <1>6, <1>7, <1>8, <1>9, <1>10, <1>11, <1>12, <1>13,
       <1>14, <1>15, <1>16, <1>17, <1>18, <1>19, <1>20, <1>21, <1>22, <1>23, <1>24, <1>25,
       <1>26, <1>27, <1>28, <1>29, <1>30, <1>31, <1>32, <1>33, <1>34, <1>35, <1>36, <1>37,
       <1>38, <1>39, <1>40, <1>41, <1>42, <1>43 DEF Context!Next,
       Context!Event, Context!InCall, Context!Calls

(* No step drops an error that is still owed: PathInv shows each place     *)
(* empty before a step fills it.                                           *)
LEMMA ErrorsKept ==
  ASSUME Context!ContextLifeAssumption, ContextInv, [Context!Next]_Context!vars
  PROVE  Context!NoErrorIsLost'
  <1> USE DEF Context!ContextLifeAssumption, ContextInv, ContextTypes, HolderInv, BusyInv,
              DestroyInv, ThreadInv, PathInv, Context!NoErrorIsLost, Context!Held, Context!Places,
              Context!Joined, CloseStages, WaitStages, ReapStages, Context!Threads, Context!history
  <1>1. CASE Context!EventPoll
    BY <1>1 DEF Context!EventPoll, Context!Dispatch, Context!PollFails, Context!Latch
  <1>2. CASE Context!EventPick
    BY <1>2 DEF Context!EventPick, Context!Pick, Context!Ripe, Context!InPlace, Context!Drained
  <1>3. CASE Context!EventDestroys
    BY <1>3 DEF Context!EventDestroys, Context!DestroyDevice
  <1>4. CASE Context!EventLatches
    BY <1>4 DEF Context!EventLatches, Context!Latch
  <1>5. CASE Context!EventNext
    BY <1>5 DEF Context!EventNext
  <1>6. CASE Context!EventTerminal
    BY <1>6 DEF Context!EventTerminal, Context!Latch
  <1>7. CASE Context!EventFails
    BY <1>7 DEF Context!EventFails, Context!errors
  <1>8. CASE Context!EventExits
    BY <1>8 DEF Context!EventExits, Context!errors
  <1>9. CASE Context!WaitSubmits
    BY <1>9 DEF Context!WaitSubmits, Context!Waited, Context!InPlace, Context!Accepted,
       Context!Latch, Context!threads
  <1>10. CASE Context!WaitPolls
    BY <1>10 DEF Context!WaitPolls, Context!Dispatch, Context!errors, Context!threads
  <1>11. CASE Context!WaitTakesBusy
    BY <1>11 DEF Context!WaitTakesBusy, Context!Swallow, Context!Pending, Context!threads
  <1>12. CASE Context!WaitReturns
    BY <1>12 DEF Context!WaitReturns, Context!Told, Context!Pending, Context!Preflight
  <1>13. CASE Context!NodeCloseTakesTimeout
    BY <1>13 DEF Context!NodeCloseTakesTimeout, Context!Swallow, Context!Pending,
       Context!Waited, Context!InPlace
  <1>14. CASE Context!WaitBegins
    BY <1>14 DEF Context!WaitBegins, Context!Waited, Context!InPlace, Context!errors
  <1>15. CASE Context!CloseSteps
    BY <1>15 DEF Context!CloseSteps, Context!MayFail, Context!Remember, Context!Swallow,
       Context!Pending, Context!Preflight
  <1>16. CASE Context!DrainPolls
    BY <1>16 DEF Context!DrainPolls, Context!Remember, Context!Dispatch, Context!PollFails
  <1>17. CASE Context!DrainEnds
    BY <1>17 DEF Context!DrainEnds, Context!errors
  <1>18. CASE Context!CloseDestroys
    BY <1>18 DEF Context!CloseDestroys, Context!DestroyDevice, Context!Drained
  <1>19. CASE Context!CloseReturns
    BY <1>19 DEF Context!CloseReturns, Context!Told
  <1>20. CASE Context!CloseParks
    BY <1>20 DEF Context!CloseParks, Context!errors
  <1>21. CASE Context!AppPick
    BY <1>21 DEF Context!AppPick, Context!Pick, Context!Ripe, Context!InPlace, Context!Drained
  <1>22. CASE Context!AppDestroys
    BY <1>22 DEF Context!AppDestroys, Context!DestroyDevice
  <1>23. CASE Context!AppLatches
    BY <1>23 DEF Context!AppLatches, Context!Latch, Context!threads
  <1>24. CASE Context!AppReaped
    BY <1>24 DEF Context!AppReaped, Context!errors
  <1>25. CASE Context!ContextPoll
    BY <1>25 DEF Context!ContextPoll, Context!PollReturns, Context!Told, Context!Pending,
       Context!Preflight, Context!Dispatch, Context!PollFails
  <1>26. CASE Context!ContextPollReturns
    BY <1>26 DEF Context!ContextPollReturns, Context!PollReturns, Context!Told, Context!Pending,
       Context!Preflight
  <1>27. CASE Context!DestroyCloses
    BY <1>27 DEF Context!DestroyCloses, Context!ConsumeHandle, Context!InPlace, Context!errors
  <1>28. CASE Context!DestroyReaps
    BY <1>28 DEF Context!DestroyReaps, Context!InPlace, Context!Latch
  <1>29. CASE Context!DestroyPends
    BY <1>29 DEF Context!DestroyPends, Context!errors
  <1>30. CASE Context!DestroyStops
    BY <1>30 DEF Context!DestroyStops, Context!InPlace, Context!errors
  <1>31. CASE Context!DestroyEnds
    <2>1. first = None /\ pumped = None
      BY <1>31 DEF Context!DestroyEnds
    <2>2. outcome["app"] = None /\ outcome["event"] = None
      BY <1>31 DEF Context!DestroyEnds, Context!Joined
    <2>3. \A d \in Devices : where[d] \in {"unopened", "freed"}
      <3> SUFFICES ASSUME NEW d \in Devices PROVE where[d] \in {"unopened", "freed"}
        OBVIOUS
      <3>1. holds["app"] = None /\ holds["event"] = None
        BY <1>31 DEF Context!DestroyEnds
      <3>2. None \notin Devices
        OBVIOUS
      <3>3. where[d] \notin {"closing", "destroying"}
        BY <3>1, <3>2
      <3> QED
        BY <1>31, <3>3 DEF Context!DestroyEnds
    <2>4. closeError = [d \in Devices |-> None]
      BY <2>3
    <2>5. ASSUME NEW e \in owed, e \notin swallowed \cup {deferred, observed}
          PROVE  e = "exception" /\ dead /\ terminal
      <3>1. e \in Context!Held \cup swallowed /\ e # None
        BY DEF ErrorSources
      <3>2. e \notin {closeError[d] : d \in Devices}
        BY <2>4, <3>1
      <3>3. terminal => dead
        BY <1>31 DEF Context!DestroyEnds
      <3> QED
        BY <2>1, <2>2, <2>5, <3>1, <3>2, <3>3
    <2>6. owed' \subseteq swallowed
      <3> SUFFICES ASSUME NEW e \in owed' PROVE e \in swallowed
        OBVIOUS
      <3>1. e \in owed /\ e # deferred
        BY <1>31 DEF Context!DestroyEnds
      <3>2. observed # None \/ (dead /\ terminal) => e \notin {observed, "exception"}
        BY <1>31 DEF Context!DestroyEnds
      <3>3. e # None
        BY <3>1 DEF ErrorSources
      <3> QED
        BY <2>5, <3>1, <3>2, <3>3
    <2>7. swallowed' = swallowed
      BY <1>31 DEF Context!DestroyEnds
    <2> QED
      BY <2>6, <2>7
  <1>32. CASE Context!BlockingWaits
    BY <1>32 DEF Context!BlockingWaits, Context!errors
  <1>33. CASE Context!BlockingJoins
    BY <1>33 DEF Context!BlockingJoins, Context!errors
  <1>34. CASE Context!BlockingPumps
    BY <1>34 DEF Context!BlockingPumps, Context!Dispatch, Context!PollFails
  <1>35. CASE Context!BlockingLatches
    BY <1>35 DEF Context!BlockingLatches, Context!Latch
  <1>36. CASE Context!BlockingRetries
    BY <1>36 DEF Context!BlockingRetries, Context!errors
  <1>37. CASE Context!AppCall
    BY <1>37 DEF Context!AppCall, Context!Told, Context!Pending, Context!Preflight,
       Context!threads
  <1>38. CASE Context!ContextDestroy
    BY <1>38 DEF Context!ContextDestroy, Context!errors
  <1>39. ASSUME NEW d \in Devices, Context!DeviceOpen(d) PROVE Context!NoErrorIsLost'
    BY <1>39 DEF Context!DeviceOpen, Context!errors, Context!threads
  <1>40. ASSUME NEW d \in Devices, Context!Submit(d) PROVE Context!NoErrorIsLost'
    BY <1>40 DEF Context!Submit, Context!Accepted, Context!Latch, Context!threads
  <1>41. ASSUME NEW d \in Devices, Context!DeviceClose(d) PROVE Context!NoErrorIsLost'
    BY <1>41 DEF Context!DeviceClose, Context!ConsumeHandle, Context!errors
  <1>42. CASE Context!BlockingTimesOut
    BY <1>42 DEF Context!BlockingTimesOut, Context!KeepsObserved, Context!Latch
  <1>43. CASE UNCHANGED Context!vars
    BY <1>43 DEF Context!vars
  <1> HIDE DEF Context!ContextLifeAssumption, ContextInv, ContextTypes, HolderInv, BusyInv,
               DestroyInv, ThreadInv, PathInv, Context!NoErrorIsLost, Context!Held, Context!Places,
               Context!Joined, CloseStages, WaitStages, ReapStages, Context!Threads, Context!history
  <1> QED
    BY <1>1, <1>2, <1>3, <1>4, <1>5, <1>6, <1>7, <1>8, <1>9, <1>10, <1>11, <1>12, <1>13,
       <1>14, <1>15, <1>16, <1>17, <1>18, <1>19, <1>20, <1>21, <1>22, <1>23, <1>24, <1>25,
       <1>26, <1>27, <1>28, <1>29, <1>30, <1>31, <1>32, <1>33, <1>34, <1>35, <1>36, <1>37,
       <1>38, <1>39, <1>40, <1>41, <1>42, <1>43 DEF Context!Next,
       Context!Event, Context!InCall, Context!Calls

LEMMA InitContext ==
  ASSUME Context!Init
  PROVE  ContextInv
  BY DEF Context!Init, ContextInv, ContextTypes, HolderInv, BusyInv, DestroyInv, ThreadInv,
     PathInv, Context!NoErrorIsLost, Context!Held, Context!Places, ErrorSources, CloseStages,
     WaitStages, ReapStages, Context!Threads, Context!Joined

LEMMA ContextStep ==
  ASSUME Context!ContextLifeAssumption, ContextInv, [Context!Next]_Context!vars
  PROVE  ContextInv'
  BY ContextTypesKept, OwnersKept, ErrorsKept DEF ContextInv

-----------------------------------------------------------------------------
(* The invariant of the Context's life. *)
THEOREM ContextInvHolds == Context!Spec => []ContextInv
  <1>1. Context!Init => ContextInv
    BY InitContext
  <1>2. ContextInv /\ [Context!Next]_Context!vars => ContextInv'
    BY RuntimeAssumptions, ContextStep
  <1> QED
    BY <1>1, <1>2, PTL DEF Context!Spec

LEMMA ExclusiveTeardown ==
  ASSUME Context!ContextLifeAssumption, ContextInv
  PROVE  Context!TeardownIsExclusive
  <1>1. \A t \in Context!Threads : holds[t] # None => where[holds[t]] # "freed"
    BY DEF ContextInv, HolderInv, CloseStages, WaitStages, ReapStages, Context!Threads
  <1>2. holds["app"] # None => holds["app"] # holds["event"]
    BY DEF ContextInv, HolderInv
  <1>3. /\ busy \cap Context!InPlace("freed") = {}
        /\ app = "tookOver" \/ (app = "reap" /\ back = "tookOver") => event = "gone"
    BY DEF ContextInv, BusyInv, ThreadInv, Context!InPlace
  <1>4. ASSUME app = "gone", NEW d \in Devices
        PROVE  where[d] \in {"unopened", "freed"}
    <2>1. holds["app"] = None /\ holds["event"] = None
      BY <1>4 DEF ContextInv, HolderInv, DestroyInv, CloseStages, WaitStages, ReapStages,
       Context!Joined
    <2>2. where[d] \notin {"closing", "destroying"}
      BY <2>1 DEF Context!ContextLifeAssumption, ContextInv, HolderInv, Context!Threads
    <2> QED
      BY <1>4, <2>2 DEF ContextInv, ContextTypes, DestroyInv, Context!Places
  <1>5. app = "gone" => Context!Joined
    BY DEF ContextInv, DestroyInv
  <1> QED
    BY <1>1, <1>2, <1>3, <1>4, <1>5 DEF Context!TeardownIsExclusive

-----------------------------------------------------------------------------
(* The ring.  Its counters wrap at a multiple of its size, so that Used is  *)
(* the distance from head to tail and the places of up to Size counters in  *)
(* a row are different ones.                                                *)
LEMMA RingConstants ==
  /\ Ring!Size \in Nat \ {0} /\ Word \in Nat /\ Word > Ring!Size
  /\ \E q \in Nat : Word = q * Ring!Size
  /\ IsFiniteSet(RingSlots) /\ NoSlot \notin RingSlots
  /\ Cardinality(RingSlots) <= Ring!Size
  <1>1. /\ IsFiniteSet(RingSlots) /\ RingSlots # {} /\ NoSlot \notin RingSlots
        /\ Ring!Size \in Nat /\ Ring!Size >= Cardinality(RingSlots)
        /\ Word \in Nat /\ Word > Ring!Size /\ Word % Ring!Size = 0
    <2>1. Ring!SlotsAssumption /\ Ring!SizeAssumption /\ Ring!WordAssumption
      BY RuntimeAssumptions
    <2>2. Ring!IsFiniteSet(RingSlots) = IsFiniteSet(RingSlots)
      BY DEF IsFiniteSet, Ring!IsFiniteSet
    <2>3. Ring!Cardinality(RingSlots) = Cardinality(RingSlots)
      BY Zenon DEF Cardinality, Ring!Cardinality
    <2> QED
      BY <2>1, <2>2, <2>3
         DEF Ring!SlotsAssumption, Ring!SizeAssumption, Ring!WordAssumption, Ring!Capacity
  <1>2. Cardinality(RingSlots) \in Nat \ {0}
    BY <1>1, FS_CardinalityType, FS_EmptySet
  <1>3. Ring!Size \in Nat \ {0}
    BY <1>1, <1>2
  <1>4. Word = (Word \div Ring!Size) * Ring!Size /\ Word \div Ring!Size \in Nat
    BY <1>1, <1>3
  <1> QED
    BY <1>1, <1>3, <1>4

(* The remainder is the one number below the divisor that a multiple of the *)
(* divisor separates from the dividend.                                     *)
LEMMA Remainder ==
  ASSUME NEW n \in Nat \ {0}, NEW q \in Int, NEW r \in 0..n - 1
  PROVE  (n * q + r) % n = r
  OBVIOUS

LEMMA RemainderType ==
  ASSUME NEW n \in Nat \ {0}, NEW a \in Int
  PROVE  /\ a % n \in 0..n - 1 /\ a \div n \in Int
         /\ a = n * (a \div n) + (a % n)
  OBVIOUS

(* The next value of a counter, and the distance of two counters.           *)
LEMMA CounterSteps ==
  ASSUME NEW c \in 0..Word - 1
  PROVE  /\ (c + 1) % Word \in 0..Word - 1
         /\ (c + 1) % Word = IF c = Word - 1 THEN 0 ELSE c + 1
  <1>1. Word \in Nat \ {0}
    BY RingConstants
  <1>2. CASE c = Word - 1
    BY <1>1, <1>2, Remainder
  <1>3. CASE c # Word - 1
    BY <1>1, <1>3
  <1> QED
    BY <1>1, <1>2, <1>3

LEMMA UsedIs ==
  ASSUME NEW h \in 0..Word - 1, NEW t \in 0..Word - 1
  PROVE  /\ Ring!Used(h, t) = IF t >= h THEN t - h ELSE t - h + Word
         /\ Ring!Used(h, t) \in 0..Word - 1
  <1>1. Word \in Nat \ {0}
    BY RingConstants
  <1>2. CASE t >= h
    BY <1>1, <1>2 DEF Ring!Used
  <1>3. CASE t < h
    BY <1>1, <1>3 DEF Ring!Used
  <1> QED
    BY <1>2, <1>3

(* Counters that are less than Size apart have different places, also       *)
(* where one of them has wrapped.                                           *)
LEMMA PlaceType ==
  ASSUME NEW c \in Int
  PROVE  Ring!At(c) \in 0..Ring!Size - 1
  BY RingConstants, RemainderType DEF Ring!At

LEMMA PlacesDiffer ==
  ASSUME NEW c \in Int, NEW d \in Int, c < d, d < c + Ring!Size
  PROVE  Ring!At(c) # Ring!At(d)
  <1> DEFINE n == Ring!Size
  <1>1. n \in Nat \ {0}
    BY RingConstants
  <1>2. /\ c = n * (c \div n) + (c % n) /\ d = n * (d \div n) + (d % n)
        /\ c \div n \in Int /\ d \div n \in Int /\ c % n \in Int /\ d % n \in Int
    BY <1>1, RemainderType
  <1>3. SUFFICES ASSUME c % n = d % n PROVE FALSE
    BY DEF Ring!At
  <1> DEFINE q == d \div n - c \div n
  <1>4. q \in Int /\ d - c = n * q /\ d - c > 0 /\ d - c < n
    BY <1>1, <1>2, <1>3
  <1> HIDE DEF n, q
  <1>5. q > 0 => n * q >= n
    BY <1>1, <1>4
  <1>6. q <= 0 => n * q <= 0
    BY <1>1, <1>4
  <1> QED
    BY <1>1, <1>4, <1>5, <1>6

LEMMA PlaceWraps ==
  ASSUME NEW c \in Int
  PROVE  Ring!At(c - Word) = Ring!At(c)
  <1> DEFINE n == Ring!Size
  <1>1. PICK q \in Nat : Word = q * n
    BY RingConstants
  <1>2. n \in Nat \ {0}
    BY RingConstants
  <1>3. /\ c = n * (c \div n) + (c % n)
        /\ c \div n \in Int /\ c % n \in 0..n - 1
    BY <1>2, RemainderType
  <1> DEFINE p == c \div n  r == c % n
  <1> HIDE DEF n, p, r
  <1>4. c - Word = n * (p - q) + r /\ p - q \in Int /\ r \in 0..n - 1
    BY <1>1, <1>2, <1>3 DEF p, r
  <1>5. (c - Word) % n = r
    BY <1>2, <1>4, Remainder
  <1> QED
    BY <1>5 DEF Ring!At, n, r

(* The place of the next counter, wrapped or not.                           *)
LEMMA NextPlace ==
  ASSUME NEW c \in 0..Word - 1, NEW k \in Nat
  PROVE  Ring!At(((c + 1) % Word) + k) = Ring!At(c + 1 + k)
  <1>1. CASE c = Word - 1
    <2>1. ((c + 1) % Word) + k = c + 1 + k - Word
      BY <1>1, CounterSteps, RingConstants
    <2> QED
      BY <2>1, PlaceWraps, RingConstants
  <1>2. CASE c # Word - 1
    BY <1>2, CounterSteps, RingConstants
  <1> QED
    BY <1>1, <1>2

(* tail is the counter Used ahead of head.                                  *)
LEMMA TailPlace ==
  ASSUME NEW h \in 0..Word - 1, NEW t \in 0..Word - 1
  PROVE  Ring!At(h + Ring!Used(h, t)) = Ring!At(t)
  <1>1. CASE t >= h
    BY <1>1, UsedIs
  <1>2. CASE t < h
    <2>1. h + Ring!Used(h, t) = t + Word
      BY <1>2, UsedIs, RingConstants
    <2>2. Ring!At((t + Word) - Word) = Ring!At(t + Word)
      BY PlaceWraps, RingConstants
    <2> QED
      BY <2>1, <2>2, RingConstants
  <1> QED
    BY <1>1, <1>2

(* The places from head to tail hold different slots, none of which a       *)
(* client owns; the push in progress has a place of its own and the pop in  *)
(* progress reads the oldest one.                                           *)
RingTypes ==
  /\ slots \in [0..Ring!Size - 1 -> RingSlots \cup {NoSlot}]
  /\ head \in 0..Word - 1 /\ tail \in 0..Word - 1
  /\ producer \in [pc : {"idle", "checked", "stored"}, slot : RingSlots \cup {NoSlot}]
  /\ consumer \in [pc : {"idle", "seen", "read"}, slot : RingSlots \cup {NoSlot}]
  /\ outside \subseteq RingSlots

InRing == Ring!Used(head, tail)
Entry(k) == slots[Ring!At(head + k)]

RingInv ==
  /\ RingTypes
  /\ InRing <= Ring!Size
  /\ producer.pc = "idle" => producer = Ring!Idle
  /\ producer.pc # "idle" =>
       /\ producer.slot \in RingSlots \ outside
       /\ \A k \in 0..InRing - 1 : Entry(k) # producer.slot
       /\ InRing < Ring!Size
  /\ producer.pc = "stored" => slots[Ring!At(tail)] = producer.slot
  /\ consumer.pc # "idle" => InRing > 0
  /\ consumer.pc = "read" => consumer.slot = Entry(0)
  /\ \A k \in 0..InRing - 1 : Entry(k) \in RingSlots \ outside
  /\ \A j, k \in 0..InRing - 1 : j # k => Entry(j) # Entry(k)

LEMMA InRingType ==
  ASSUME RingTypes
  PROVE  InRing \in 0..Word - 1 /\ (InRing = 0 <=> head = tail)
  <1>1. head \in 0..Word - 1 /\ tail \in 0..Word - 1 /\ Word \in Nat
    BY RingConstants DEF RingTypes
  <1>2. /\ InRing = IF tail >= head THEN tail - head ELSE tail - head + Word
        /\ InRing \in 0..Word - 1
    BY <1>1, UsedIs DEF InRing
  <1> QED
    BY <1>1, <1>2

LEMMA InitRing ==
  ASSUME Ring!Init
  PROVE  RingInv /\ Ring!Contents = <<>> /\ InRing = 0
  <1>1. RingTypes
    BY RingConstants DEF Ring!Init, Ring!Idle, RingTypes
  <1>2. InRing = 0
    BY <1>1, InRingType DEF Ring!Init
  <1>3. RingInv
    BY <1>1, <1>2, RingConstants DEF Ring!Init, Ring!Idle, RingInv
  <1>4. Ring!Contents = <<>>
    BY <1>2 DEF Ring!Contents, InRing
  <1> QED
    BY <1>2, <1>3, <1>4

(* The contents do not change as long as the counters and the places        *)
(* between them do not.                                                     *)
LEMMA ContentsStay ==
  ASSUME RingTypes, head' = head, tail' = tail,
         \A k \in 0..InRing - 1 : Entry(k)' = Entry(k)
  PROVE  InRing' = InRing /\ Ring!Contents' = Ring!Contents
  <1>1. InRing' = InRing /\ InRing \in Nat
    BY InRingType, RingConstants DEF InRing
  <1>2. \A i \in 1..InRing : slots'[Ring!At(head' + i - 1)] = slots[Ring!At(head + i - 1)]
    <2> TAKE i \in 1..InRing
    <2>1. i - 1 \in 0..InRing - 1 /\ head + i - 1 = head + (i - 1)
      BY <1>1 DEF RingTypes
    <2>2. slots'[Ring!At(head' + (i - 1))] = slots[Ring!At(head + (i - 1))]
      BY <2>1 DEF Entry
    <2> QED
      BY <2>1, <2>2
  <1> QED
    BY <1>1, <1>2 DEF Ring!Contents, InRing

LEMMA SlotsInARow ==
  ASSUME NEW s, NEW h \in 0..Word - 1, NEW n \in Nat,
         \A k \in 0..n - 1 : s[Ring!At(h + k)] \in RingSlots
  PROVE  LET contents == [i \in 1..n |-> s[Ring!At(h + i - 1)]] IN
         /\ contents \in Seq(RingSlots) /\ Len(contents) = n
         /\ \A i \in 1..n : contents[i] = s[Ring!At(h + (i - 1))]
  <1>1. \A i \in 1..n : i - 1 \in 0..n - 1 /\ h + i - 1 = h + (i - 1)
    BY RingConstants
  <1> QED
    BY <1>1

LEMMA ContentsAre ==
  ASSUME RingInv
  PROVE  /\ Ring!Contents \in Seq(RingSlots) /\ Len(Ring!Contents) = InRing
         /\ \A i \in 1..InRing : Ring!Contents[i] = Entry(i - 1)
  <1>1. InRing \in Nat /\ head \in 0..Word - 1
    BY InRingType, RingConstants DEF RingInv, RingTypes
  <1>2. \A k \in 0..InRing - 1 : slots[Ring!At(head + k)] \in RingSlots
    BY DEF RingInv, Entry
  <1> QED
    BY <1>1, <1>2, SlotsInARow DEF Ring!Contents, InRing, Entry

LEMMA ContentsBecome ==
  ASSUME RingInv', InRing' \in Nat
  PROVE  /\ Ring!Contents' \in Seq(RingSlots) /\ Len(Ring!Contents') = InRing'
         /\ \A i \in 1..InRing' : Ring!Contents'[i] = Entry(i - 1)'
  <1>1. head' \in 0..Word - 1
    BY DEF RingInv, RingTypes
  <1>2. \A k \in 0..InRing' - 1 : slots'[Ring!At(head' + k)] \in RingSlots
    BY DEF RingInv, Entry
  <1> QED
    BY <1>1, <1>2, SlotsInARow DEF Ring!Contents, InRing, Entry

(* A push: the check, the store of the slot and the store of tail.          *)
LEMMA PushChecksRing ==
  ASSUME RingInv, NEW s \in RingSlots, Ring!PushChecks(s)
  PROVE  RingInv' /\ Ring!Contents' = Ring!Contents /\ popped' = popped
  <1>1. UNCHANGED <<slots, head, tail, consumer, popped>>
    BY DEF Ring!PushChecks
  <1>2. \A k : Entry(k)' = Entry(k)
    BY <1>1 DEF Entry
  <1>3. InRing' = InRing /\ Ring!Contents' = Ring!Contents
    BY <1>1, <1>2, ContentsStay DEF RingInv
  <1>4. /\ producer' = [pc |-> "checked", slot |-> s] /\ outside' = outside \ {s}
        /\ s \in outside /\ InRing # Ring!Size
    BY DEF Ring!PushChecks, InRing
  <1>5. RingTypes'
    BY <1>1, <1>4 DEF RingInv, RingTypes
  <1>6. InRing < Ring!Size /\ InRing \in Int
    BY <1>4, InRingType, RingConstants DEF RingInv
  <1> QED
    BY <1>1, <1>2, <1>3, <1>4, <1>5, <1>6 DEF RingInv

LEMMA PushStoresRing ==
  ASSUME RingInv, Ring!PushStores
  PROVE  RingInv' /\ Ring!Contents' = Ring!Contents /\ popped' = popped
  <1>1. /\ UNCHANGED <<head, tail, consumer, popped, outside>>
        /\ producer.pc = "checked" /\ producer.slot \in RingSlots
        /\ producer' = [pc |-> "stored", slot |-> producer.slot]
        /\ slots' = [slots EXCEPT ![Ring!At(tail)] = producer.slot]
    BY DEF Ring!PushStores, RingInv, RingTypes
  <1>2. InRing \in Nat /\ InRing < Ring!Size
    BY <1>1, InRingType, RingConstants DEF RingInv
  <1>3. \A k \in 0..InRing - 1 : Entry(k)' = Entry(k)
    <2> TAKE k \in 0..InRing - 1
    <2>1. Ring!At(head + InRing) = Ring!At(tail)
      BY TailPlace DEF RingInv, RingTypes, InRing
    <2>2. Ring!At(head + k) # Ring!At(head + InRing)
      <3>1. /\ head + k \in Int /\ head + InRing \in Int
            /\ head + k < head + InRing /\ head + InRing < head + k + Ring!Size
        BY <1>2, RingConstants DEF RingInv, RingTypes
      <3> QED
        BY <3>1, PlacesDiffer
    <2>3. Ring!At(head + k) \in 0..Ring!Size - 1
      <3>1. head + k \in Int
        BY <1>2, RingConstants DEF RingInv, RingTypes
      <3> QED
        BY <3>1, PlaceType
    <2> QED
      BY <1>1, <2>1, <2>2, <2>3 DEF RingInv, RingTypes, Entry
  <1>4. InRing' = InRing /\ Ring!Contents' = Ring!Contents
    BY <1>1, <1>3, ContentsStay DEF RingInv
  <1>5. RingTypes'
    BY <1>1 DEF RingInv, RingTypes
  <1>6. slots'[Ring!At(tail')] = producer'.slot
    BY <1>1, PlaceType DEF RingInv, RingTypes
  <1>7. consumer'.pc = "read" => consumer'.slot = Entry(0)'
    BY <1>1, <1>2, <1>3 DEF RingInv
  <1> QED
    BY <1>1, <1>2, <1>3, <1>4, <1>5, <1>6, <1>7 DEF RingInv

LEMMA PushPublishesRing ==
  ASSUME RingInv, Ring!PushPublishes
  PROVE  RingInv' /\ Ring!Queue!Push(producer.slot) /\ producer.slot \in RingSlots
  <1>1. /\ UNCHANGED <<slots, head, consumer, popped, outside>>
        /\ producer.pc = "stored" /\ producer.slot \in RingSlots \ outside
        /\ producer' = Ring!Idle /\ tail' = (tail + 1) % Word
        /\ slots[Ring!At(tail)] = producer.slot
    BY DEF Ring!PushPublishes, RingInv
  <1>2. InRing \in Nat /\ InRing < Ring!Size
    BY <1>1, InRingType, RingConstants DEF RingInv
  <1>3. RingTypes'
    BY <1>1, CounterSteps DEF RingInv, RingTypes, Ring!Idle
  <1>4. InRing' = InRing + 1
    <2>1. /\ head \in 0..Word - 1 /\ tail \in 0..Word - 1 /\ tail' \in 0..Word - 1
          /\ tail' = IF tail = Word - 1 THEN 0 ELSE tail + 1
      BY <1>1, <1>3, CounterSteps DEF RingInv, RingTypes
    <2>2. /\ InRing = IF tail >= head THEN tail - head ELSE tail - head + Word
          /\ InRing' = IF tail' >= head THEN tail' - head ELSE tail' - head + Word
      BY <1>1, <2>1, UsedIs DEF InRing
    <2> QED
      BY <1>2, <2>1, <2>2, RingConstants
  <1>5. /\ \A k : Entry(k)' = Entry(k)
        /\ Entry(InRing) = producer.slot
    BY <1>1, TailPlace DEF RingInv, RingTypes, Entry, InRing
  <1>6. RingInv'
    <2>1. \A k \in 0..InRing : k \in 0..InRing - 1 \/ k = InRing
      BY <1>2
    <2>2. \A k \in 0..InRing : Entry(k) \in RingSlots \ outside
      BY <1>1, <1>5, <2>1 DEF RingInv
    <2>3. \A j, k \in 0..InRing : j # k => Entry(j) # Entry(k)
      BY <1>1, <1>5, <2>1 DEF RingInv
    <2>4. 0..InRing' - 1 = 0..InRing
      BY <1>2, <1>4
    <2>5. InRing' <= Ring!Size /\ InRing' > 0
      BY <1>2, <1>4, RingConstants
    <2> QED
      BY <1>1, <1>3, <1>5, <2>2, <2>3, <2>4, <2>5 DEF RingInv, Ring!Idle
  <1>7. Ring!Contents' = Append(Ring!Contents, producer.slot)
    <2>1. /\ Ring!Contents \in Seq(RingSlots) /\ Len(Ring!Contents) = InRing
          /\ \A i \in 1..InRing : Ring!Contents[i] = Entry(i - 1)
      BY ContentsAre
    <2>2. /\ Ring!Contents' \in Seq(RingSlots) /\ Len(Ring!Contents') = InRing + 1
          /\ \A i \in 1..InRing + 1 : Ring!Contents'[i] = Entry(i - 1)
      <3>1. /\ Ring!Contents' \in Seq(RingSlots) /\ Len(Ring!Contents') = InRing'
            /\ \A i \in 1..InRing' : Ring!Contents'[i] = Entry(i - 1)'
        BY <1>2, <1>4, <1>6, ContentsBecome
      <3> QED
        BY <1>4, <1>5, <3>1
    <2> DEFINE old == Ring!Contents  new == Ring!Contents'
    <2> HIDE DEF old, new
    <2>3. \A i \in 1..InRing + 1 : new[i] = Append(old, producer.slot)[i]
      BY <1>1, <1>2, <1>5, <2>1, <2>2 DEF old, new
    <2>4. /\ old \in Seq(RingSlots) /\ new \in Seq(RingSlots)
          /\ Len(old) = InRing /\ Len(new) = InRing + 1
      BY <2>1, <2>2 DEF old, new
    <2>5. new = Append(old, producer.slot)
      BY <1>1, <1>2, <2>3, <2>4
    <2> QED
      BY <2>5 DEF old, new
  <1> QED
    BY <1>1, <1>6, <1>7 DEF Ring!Queue!Push

(* A pop: the test of tail, the load of the slot and the store of head.     *)
LEMMA PopSeesRing ==
  ASSUME RingInv, Ring!PopSees
  PROVE  RingInv' /\ Ring!Contents' = Ring!Contents /\ popped' = popped
  <1>1. /\ UNCHANGED <<slots, head, tail, producer, popped, outside>>
        /\ consumer' = [consumer EXCEPT !.pc = "seen"] /\ head # tail
    BY DEF Ring!PopSees
  <1>2. \A k : Entry(k)' = Entry(k)
    BY <1>1 DEF Entry
  <1>3. InRing' = InRing /\ Ring!Contents' = Ring!Contents
    BY <1>1, <1>2, ContentsStay DEF RingInv
  <1>4. RingTypes'
    BY <1>1 DEF RingInv, RingTypes
  <1>5. InRing > 0 /\ consumer'.pc = "seen"
    BY <1>1, InRingType, RingConstants DEF RingInv, RingTypes
  <1> QED
    BY <1>1, <1>2, <1>3, <1>4, <1>5 DEF RingInv

LEMMA PopReadsRing ==
  ASSUME RingInv, Ring!PopReads
  PROVE  RingInv' /\ Ring!Contents' = Ring!Contents /\ popped' = popped
  <1>1. /\ UNCHANGED <<slots, head, tail, producer, popped, outside>>
        /\ consumer.pc = "seen"
        /\ consumer' = [pc |-> "read", slot |-> slots[Ring!At(head)]]
    BY DEF Ring!PopReads
  <1>2. \A k : Entry(k)' = Entry(k)
    BY <1>1 DEF Entry
  <1>3. InRing' = InRing /\ Ring!Contents' = Ring!Contents
    BY <1>1, <1>2, ContentsStay DEF RingInv
  <1>4. InRing > 0 /\ consumer'.slot = Entry(0) /\ consumer'.pc = "read"
    BY <1>1 DEF RingInv, RingTypes, Entry
  <1>5. RingTypes'
    BY <1>1, PlaceType, SMTT(30) DEF RingInv, RingTypes
  <1> QED
    BY <1>1, <1>2, <1>3, <1>4, <1>5 DEF RingInv

LEMMA PopReturnsRing ==
  ASSUME RingInv, Ring!PopReturns
  PROVE  RingInv' /\ Ring!Queue!Pop
  <1>1. /\ UNCHANGED <<slots, tail, producer>>
        /\ consumer.slot = Entry(0) /\ consumer' = Ring!Idle
        /\ head' = (head + 1) % Word /\ popped' = consumer.slot
        /\ outside' = outside \cup {consumer.slot}
    BY DEF Ring!PopReturns, RingInv
  <1>2. InRing \in Nat \ {0} /\ InRing <= Ring!Size
    BY InRingType, RingConstants DEF RingInv, Ring!PopReturns
  <1>3. Entry(0) \in RingSlots
    BY <1>2 DEF RingInv
  <1>4. RingTypes'
    BY <1>1, <1>3, CounterSteps DEF RingInv, RingTypes, Ring!Idle
  <1>5. InRing' = InRing - 1
    <2>1. /\ head \in 0..Word - 1 /\ tail \in 0..Word - 1 /\ head' \in 0..Word - 1
          /\ head' = IF head = Word - 1 THEN 0 ELSE head + 1
      BY <1>1, <1>4, CounterSteps DEF RingInv, RingTypes
    <2>2. /\ InRing = IF tail >= head THEN tail - head ELSE tail - head + Word
          /\ InRing' = IF tail >= head' THEN tail - head' ELSE tail - head' + Word
      BY <1>1, <2>1, UsedIs DEF InRing
    <2> QED
      BY <1>2, <2>1, <2>2, RingConstants
  <1>6. \A k \in Nat : Entry(k)' = Entry(k + 1)
    <2> TAKE k \in Nat
    <2>1. Ring!At(((head + 1) % Word) + k) = Ring!At(head + 1 + k)
      BY NextPlace DEF RingInv, RingTypes
    <2>2. head + 1 + k = head + (k + 1)
      BY DEF RingInv, RingTypes
    <2> QED
      BY <1>1, <2>1, <2>2 DEF Entry
  <1>7. \A k \in 0..InRing' - 1 : /\ k \in Nat /\ k + 1 \in 0..InRing - 1 /\ k + 1 # 0
                                  /\ Entry(k)' = Entry(k + 1)
    BY <1>2, <1>5, <1>6
  <1>8. \A k \in 0..InRing' - 1 : /\ Entry(k)' \in RingSlots \ outside
                                  /\ Entry(k)' # Entry(0)
    BY <1>2, <1>7 DEF RingInv
  <1>9. RingInv'
    <2>1. \A j, k \in 0..InRing' - 1 : j # k => Entry(j)' # Entry(k)'
      BY <1>7 DEF RingInv
    <2>2. producer.pc # "idle" =>
            /\ producer.slot \in RingSlots \ outside'
            /\ \A k \in 0..InRing' - 1 : Entry(k)' # producer.slot
      BY <1>1, <1>2, <1>7 DEF RingInv
    <2>3. \A k \in 0..InRing' - 1 : Entry(k)' \in RingSlots \ outside'
      BY <1>1, <1>8
    <2>4. InRing' < Ring!Size /\ InRing' <= Ring!Size
      BY <1>2, <1>5, RingConstants
    <2>5. /\ producer'.pc = "idle" => producer' = Ring!Idle
          /\ producer'.pc = "stored" => slots'[Ring!At(tail')] = producer'.slot
          /\ consumer'.pc = "idle"
      BY <1>1 DEF RingInv, Ring!Idle
    <2> QED
      BY <1>1, <1>4, <2>1, <2>2, <2>3, <2>4, <2>5 DEF RingInv
  <1>10. /\ Ring!Contents # <<>> /\ popped' = Head(Ring!Contents)
         /\ Ring!Contents' = Tail(Ring!Contents)
    <2>1. /\ Ring!Contents \in Seq(RingSlots) /\ Len(Ring!Contents) = InRing
          /\ \A i \in 1..InRing : Ring!Contents[i] = Entry(i - 1)
      BY ContentsAre
    <2>2. /\ Ring!Contents' \in Seq(RingSlots) /\ Len(Ring!Contents') = InRing - 1
          /\ \A i \in 1..InRing - 1 : Ring!Contents'[i] = Entry(i)
      <3>1. /\ Ring!Contents' \in Seq(RingSlots) /\ Len(Ring!Contents') = InRing'
            /\ \A i \in 1..InRing' : Ring!Contents'[i] = Entry(i - 1)'
        BY <1>2, <1>5, <1>9, ContentsBecome
      <3>2. \A i \in 1..InRing - 1 : Entry(i - 1)' = Entry(i)
        BY <1>2, <1>6
      <3> QED
        BY <1>5, <3>1, <3>2
    <2> DEFINE old == Ring!Contents  new == Ring!Contents'
    <2> HIDE DEF old, new
    <2>3. /\ old \in Seq(RingSlots) /\ new \in Seq(RingSlots)
          /\ Len(old) = InRing /\ Len(new) = InRing - 1
          /\ old[1] = Entry(0)
      BY <1>2, <2>1, <2>2 DEF old, new
    <2>4. \A i \in 1..InRing - 1 : new[i] = Tail(old)[i]
      BY <1>2, <2>1, <2>2, <2>3 DEF old, new
    <2>5. new = Tail(old)
      BY <1>2, <2>3, <2>4
    <2>6. old # <<>> /\ Head(old) = Entry(0)
      BY <1>2, <2>3
    <2> QED
      BY <1>1, <2>5, <2>6 DEF old, new
  <1> QED
    BY <1>9, <1>10 DEF Ring!Queue!Pop

(* Every step of the ring keeps its invariant and is a step of the queue.   *)
LEMMA RingStep ==
  ASSUME RingInv, [Ring!Next]_ringVars
  PROVE  RingInv' /\ [Ring!Queue!Next]_<<Ring!Contents, popped>>
  <1>1. CASE UNCHANGED ringVars
    <2>1. RingInv' /\ Ring!Contents' = Ring!Contents /\ popped' = popped
      <3>1. UNCHANGED <<slots, head, tail, producer, consumer, popped, outside>>
        BY <1>1 DEF ringVars
      <3>2. /\ \A k : Entry(k)' = Entry(k) /\ InRing' = InRing /\ RingTypes'
        BY <3>1 DEF Entry, InRing, RingInv, RingTypes
      <3>3. Ring!Contents' = Ring!Contents
        BY <3>1, <3>2, ContentsStay DEF RingInv
      <3> QED
        BY <3>1, <3>2, <3>3 DEF RingInv
    <2> QED
      BY <2>1
  <1>2. CASE \E s \in RingSlots : Ring!PushChecks(s)
    BY <1>2, PushChecksRing
  <1>3. CASE Ring!PushStores
    BY <1>3, PushStoresRing
  <1>4. CASE Ring!PushPublishes
    BY <1>4, PushPublishesRing DEF Ring!Queue!Next
  <1>5. CASE Ring!PopSees
    BY <1>5, PopSeesRing
  <1>6. CASE Ring!PopReads
    BY <1>6, PopReadsRing
  <1>7. CASE Ring!PopReturns
    BY <1>7, PopReturnsRing DEF Ring!Queue!Next
  <1> QED
    BY <1>1, <1>2, <1>3, <1>4, <1>5, <1>6, <1>7 DEF Ring!Next

(* A client that owns a slot finds room for it: what push returns need not  *)
(* be looked at.                                                            *)
RoomForEverySlot == producer = Ring!Idle /\ outside # {} => InRing # Ring!Size

LEMMA RingHasRoom ==
  ASSUME RingInv
  PROVE  RoomForEverySlot
  <1> SUFFICES ASSUME NEW s \in outside, InRing = Ring!Size
               PROVE  FALSE
    BY DEF RoomForEverySlot
  <1>1. /\ IsFiniteSet(RingSlots) /\ s \in RingSlots
        /\ Ring!Size \in Nat \ {0} /\ Cardinality(RingSlots) <= Ring!Size
    BY RingConstants DEF RingInv, RingTypes
  <1> DEFINE T == RingSlots \ {s}
             f == [k \in 0..Ring!Size - 1 |-> Entry(k)]
  <1>2. f \in Injection(0..Ring!Size - 1, T)
    BY DEF RingInv, Injection, IsInjective
  <1>3. IsFiniteSet(T) /\ Cardinality(T) = Cardinality(RingSlots) - 1
    BY <1>1, FS_RemoveElement
  <1>4. Cardinality(0..Ring!Size - 1) = Ring!Size
    BY <1>1, FS_Interval
  <1>5. Cardinality(0..Ring!Size - 1) <= Cardinality(T)
    BY <1>2, <1>3, FS_Injection
  <1> QED
    BY <1>1, <1>3, <1>4, <1>5, FS_CardinalityType

LEMMA RingRuns == Spec => Ring!Init /\ [][Ring!Next]_ringVars
  <1>1. Init => Ring!Init
    BY DEF Init
  <1>2. [Next]_vars => [Ring!Next]_ringVars
    BY DEF Next, vars, ringVars
  <1> QED
    BY <1>1, <1>2, PTL DEF Spec

-----------------------------------------------------------------------------
(* Whatever the order of closes, parks, reaps by two threads, an event      *)
(* thread that dies and the destruction of the Context: a Device is torn    *)
(* down by one thread, and nothing outlives its Context.                    *)
THEOREM TeardownIsExclusiveHolds == Spec => []TeardownIsExclusive
  <1>1. ContextInv => TeardownIsExclusive
    BY RuntimeAssumptions, ExclusiveTeardown DEF TeardownIsExclusive
  <1> QED
    BY <1>1, ContextInvHolds, ContextRuns, PTL

(* Every error owed to the application is kept by some part of the Context  *)
(* until it is told, and a destroyed Context owes none, except a TIMEOUT or *)
(* BUSY that a wait of the closing thread took for its own and dropped.     *)
THEOREM NoErrorIsLostHolds == Spec => []NoErrorIsLost
  <1>1. ContextInv => NoErrorIsLost
    BY DEF ContextInv, NoErrorIsLost
  <1> QED
    BY <1>1, ContextInvHolds, ContextRuns, PTL

(* A Port of the registry lives as long as what counts on it.               *)
THEOREM PortOutlivesItsUsersHolds == Spec => []PortOutlivesItsUsers
  <1>1. Registry!Spec => []Registry!PortOutlivesItsUsers
    BY RuntimeAssumptions, Registry!PortOutlivesItsUsersHolds
  <1> QED
    BY <1>1, RegistryRuns, PTL DEF PortOutlivesItsUsers

(* Request 54 never names an ID the target has an entry for.                *)
THEOREM IdIsFreshHolds == Spec => []IdIsFresh
  <1>1. HIDs!Spec => []HIDs!IdIsFresh
    BY RuntimeAssumptions, HIDs!IdIsFreshHolds
  <1> QED
    BY <1>1, HIDsRun, PTL DEF IdIsFresh

(* A Node is registered, reserved and counted, or not at all.               *)
THEOREM OpenIsAllOrNothingHolds == Spec => []OpenIsAllOrNothing
  <1>1. HIDs!Spec => []HIDs!OpenIsAllOrNothing
    BY RuntimeAssumptions, HIDs!OpenIsAllOrNothingHolds
  <1> QED
    BY <1>1, HIDsRun, PTL DEF OpenIsAllOrNothing

(* The ring is a queue of slots from one producer to one consumer: each     *)
(* store of tail pushes, each store of head pops, nothing else changes it.  *)
THEOREM ImplementsQueueHolds == Spec => ImplementsQueue
  <1>1. Ring!Init => RingInv /\ Ring!Queue!Init
    BY InitRing DEF Ring!Init, Ring!Queue!Init
  <1>2. RingInv /\ [Ring!Next]_ringVars =>
          RingInv' /\ [Ring!Queue!Next]_<<Ring!Contents, popped>>
    BY RingStep
  <1> QED
    BY <1>1, <1>2, RingRuns, PTL
       DEF ImplementsQueue, Ring!ImplementsQueue, Ring!Queue!Spec

(* push finds room for every slot its client owns.                          *)
THEOREM RoomForEverySlotHolds == Spec => []RoomForEverySlot
  <1>1. Ring!Init => RingInv
    BY InitRing
  <1>2. RingInv /\ [Ring!Next]_ringVars => RingInv'
    BY RingStep
  <1>3. RingInv => RoomForEverySlot
    BY RingHasRoom
  <1> QED
    BY <1>1, <1>2, <1>3, RingRuns, PTL
================================================================================
