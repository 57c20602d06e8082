---------------------------- MODULE SourceNodeProofs ----------------------------
(***************************************************************************)
(* Proofs about SourceNode, for all settings, tools, ports and bitrates:   *)
(* the shutdown of ROS against stop(), what the process leaves, and the    *)
(* commands of the children.                                               *)
(***************************************************************************)
EXTENDS SourceNode, SequenceTheorems, TLAPS

Both == {Rtp, Preview}

\* Before the hook of rospy is registered nobody but main may stop the runtime.
Early == {"parameters", "preflight", "directory", "control", "pumps", "listen", "hook"}

Positions == Early \cup {"late", "subscribe", "spin", "failing", "undo", "finish", "leave", "exited"}

FlagTypes ==
    /\ started \in BOOLEAN /\ closing \in BOOLEAN /\ hooked \in BOOLEAN
    /\ shutdownStarted \in BOOLEAN /\ subscribers \in BOOLEAN

PlaceTypes ==
    /\ ros \in {"ros1", "ros2"} /\ main \in Positions
    /\ lifecycle \in Threads \cup {NoThread}
    /\ attempt \in [Threads -> {"none", "wait", "native", "release", "done"}]
    /\ endpoint \in {"none", "created", "open"}
    /\ pump \in [Both -> {"none", "unstarted", "running", "ended"}]
    /\ context \in {"up", "hooks", "down"}
    /\ timer \in {"none", "waiting", "on", "off", "dead"}
    /\ reader \in {"none", "publishing"}
    /\ child = [c \in Both |-> child[c]]

SettingsTypes ==
    /\ settings \in Settings
    /\ active \subseteq Channels /\ unfinished \subseteq Channels
    /\ restarting \subseteq active

\* No child, pump or call of a reader is left.
NothingRuns ==
    /\ active = {} /\ reader = "none"
    /\ \A c \in Both : child[c] = NoChild /\ pump[c] = "none"

\* A runtime that is not started has nothing to stop, and gets nothing.
StartInv ==
    /\ ~started => NothingRuns /\ endpoint = "none" /\ (closing \/ timer = "none")
    /\ ~started /\ ~closing =>
           main \in {"parameters", "preflight", "directory", "undo", "leave", "exited"}
    /\ main \in {"parameters", "preflight", "directory", "leave", "exited"} => ~started
    /\ main \in {"control", "pumps", "listen", "hook"} => started

\* What an attempt of stop() has reached, and that the one which succeeds leaves
\* the runtime stopped for good.
AttemptInv ==
    /\ \A t \in Threads :
           /\ attempt[t] \in {"native", "release"} => closing
           /\ attempt[t] = "release" => NothingRuns
           /\ attempt[t] = "done" /\ ~(t = "main" /\ main = "failing") => ~started
    /\ attempt["external"] # "none" => context = "hooks"
    /\ main \in Early \cup {"subscribe", "spin", "exited"} => attempt["main"] = "none"
    /\ main = "leave" /\ attempt["main"] # "none" =>
           attempt["external"] = "none" /\ context = "hooks"

\* Who may take ROS down before the runtime was stopped: only somebody who found
\* no hook, and then the preview has no timer and never gets one.
HookInv ==
    /\ hooked => ros = "ros1" /\ main \notin Early \cup {"late", "failing"}
    /\ context = "hooks" => hooked
    /\ context = "down" /\ started => ~hooked /\ timer = "none"
    /\ main \in Early \cup {"late", "subscribe"} => timer = "none"
    /\ main = "late" => context = "down"
    /\ main \in {"subscribe", "spin"} /\ ros = "ros1" => hooked \/ (context = "down" /\ ~started)
    /\ timer # "none" => hooked \/ (context = "down" /\ ~started)

\* Without its timer the preview is not started; the timer needs ROS 1.
PreviewInv ==
    /\ started /\ timer = "none" => Preview \notin active /\ child[Preview] = NoChild /\ reader = "none"
    /\ ~settings.preview => timer = "none" /\ pump[Preview] = "none"
    /\ ros = "ros2" /\ settings.preview => main \in {"parameters", "leave", "exited"}

\* Whatever may launch a child comes after the preflight.
ReadyInv ==
    \/ main \in {"directory", "control", "pumps", "listen", "hook", "late", "subscribe", "spin"}
    \/ endpoint # "none" \/ timer # "none" \/ active # {} \/ (\E c \in Both : pump[c] # "none")
    => \A c \in Channels : Inspected(settings, c) \subseteq tools

\* Where main is without a node, or without one that may have a child.
Outside == {"parameters", "leave", "exited"}

\* The node is built from valid parameters, and configure() leaves their input.
InputInv ==
    main \notin Outside => settings.input \in DOMAIN RawInputs \cup {"jpeg"}

\* Every step keeps the flags Boolean.
LEMMA StepKeepsFlags ==
    ASSUME FlagTypes, [Next]_vars
    PROVE  FlagTypes'
<1> USE DEF FlagTypes, vars, machine, mainVars, stopVars, nativeVars, runtimeVars, rosVars
<1>1. CASE ReadParameters
  BY <1>1 DEF ReadParameters, Goes
<1>2. CASE Preflight
  BY <1>2 DEF Preflight, Goes, Undone, Stops
<1>3. CASE PrepareDirectory
  BY <1>3 DEF PrepareDirectory, Goes, Undone, Stops
<1>4. CASE CreateControl
  BY <1>4 DEF CreateControl, Goes
<1>5. CASE Listen
  BY <1>5 DEF Listen, Goes
<1>6. CASE StartFails
  BY <1>6 DEF StartFails, Stops
<1>7. ASSUME NEW c \in Channels, StartPump(c)
      PROVE  FlagTypes'
  BY <1>7 DEF StartPump
<1>8. CASE RegisterHook
  BY <1>8 DEF RegisterHook, Goes, Stops
<1>9. CASE Subscribe
  BY <1>9 DEF Subscribe, Goes, Undone, Stops
<1>10. CASE LoopEnds
  BY <1>10 DEF LoopEnds, Goes, Stops
<1>11. CASE AttemptReturns
  BY <1>11 DEF AttemptReturns, Goes, Stops, Done, Attempted, AfterFailedAttempt
<1>12. CASE Exit
  BY <1>12 DEF Exit, Goes
<1>13. ASSUME NEW t \in Threads, StopBegins(t)
      PROVE  FlagTypes'
  BY <1>13 DEF StopBegins, NothingToStop, Attempted
<1>14. ASSUME NEW t \in Threads, StopNative(t)
      PROVE  FlagTypes'
  BY <1>14 DEF StopNative, Joined, Quiet, Attempted
<1>15. ASSUME NEW t \in Threads, StopNativeFails(t)
      PROVE  FlagTypes'
  BY <1>15 DEF StopNativeFails, Quiet, Attempted, AfterFailedAttempt
<1>16. ASSUME NEW t \in Threads, StopReleases(t)
      PROVE  FlagTypes'
  BY <1>16 DEF StopReleases, Attempted
<1>17. ASSUME NEW t \in Threads, StopReleaseFails(t)
      PROVE  FlagTypes'
  BY <1>17 DEF StopReleaseFails, Attempted, AfterFailedAttempt
<1>18. ASSUME NEW t \in Threads, SignalShutdown(t)
      PROVE  FlagTypes'
  BY <1>18 DEF SignalShutdown, Stops
<1>19. ASSUME NEW t \in Threads, HooksReturn(t)
      PROVE  FlagTypes'
  BY <1>19 DEF HooksReturn, Done
<1>20. CASE SetRtp
  BY <1>20 DEF SetRtp, Launches, LaunchFails, AfterFailedStart, StartWaits, MayStart,
               Deactivates, DeactivateFails, Quiet
<1>21. CASE Configure
  BY <1>21 DEF Configure, Idle
<1>22. ASSUME NEW c \in Channels, PumpStep(c)
      PROVE  FlagTypes'
  BY <1>22 DEF PumpStep, Deactivates, DeactivateFails, Quiet
<1>23. ASSUME NEW c \in Channels, ChildDies(c)
      PROVE  FlagTypes'
  BY <1>23 DEF ChildDies
<1>24. CASE SubscriberComesOrLeaves
  BY <1>24 DEF SubscriberComesOrLeaves
<1>25. CASE TimerChecks
  BY <1>25 DEF TimerChecks, Demand
<1>26. CASE TimerSets
  BY <1>26 DEF TimerSets, Launches, LaunchFails, AfterFailedStart, StartRefused, StartUnchanged,
               StartWaits, MayStart, Deactivates, DeactivateFails, Quiet
<1>27. CASE ReaderChecks
  BY <1>27 DEF ReaderChecks
<1>28. CASE ReaderPublishes
  BY <1>28 DEF ReaderPublishes
<1>29. CASE RtpRestarts
  BY <1>29 DEF RtpRestarts, Restarts, RestartFails, AfterFailedStart, Quiet
<1>30. CASE TimerRestarts
  BY <1>30 DEF TimerRestarts, Restarts, RestartFails, AfterFailedStart, Quiet
<1>31. CASE UNCHANGED vars
  BY <1>31
<1>32. QED
  BY <1>1, <1>2, <1>3, <1>4, <1>5, <1>6, <1>7, <1>8, <1>9, <1>10, <1>11, <1>12, <1>13, <1>14,
     <1>15, <1>16, <1>17, <1>18, <1>19, <1>20, <1>21, <1>22, <1>23, <1>24, <1>25, <1>26, <1>27,
     <1>28, <1>29, <1>30, <1>31 DEF Next, Main, ShutdownStep, StopAttempt, ChannelStep, PreviewStep

\* Every step keeps the places of the threads and the functions on channels.
LEMMA StepKeepsPlaces ==
    ASSUME PlaceTypes, [Next]_vars
    PROVE  PlaceTypes'
<1> USE DEF PlaceTypes, Positions, Early, Both, Channels, Threads, vars, machine, mainVars,
            stopVars, nativeVars, runtimeVars, rosVars
<1>1. CASE ReadParameters
  BY <1>1 DEF ReadParameters, Goes
<1>2. CASE Preflight
  BY <1>2 DEF Preflight, Goes, Undone, Stops
<1>3. CASE PrepareDirectory
  BY <1>3 DEF PrepareDirectory, Goes, Undone, Stops
<1>4. CASE CreateControl
  BY <1>4 DEF CreateControl, Goes
<1>5. CASE Listen
  BY <1>5 DEF Listen, Goes
<1>6. CASE StartFails
  BY <1>6 DEF StartFails, Stops
<1>7. ASSUME NEW c \in Channels, StartPump(c)
      PROVE  PlaceTypes'
  BY <1>7 DEF StartPump
<1>8. CASE RegisterHook
  BY <1>8 DEF RegisterHook, Goes, Stops
<1>9. CASE Subscribe
  BY <1>9 DEF Subscribe, Goes, Undone, Stops
<1>10. CASE LoopEnds
  BY <1>10 DEF LoopEnds, Goes, Stops
<1>11. CASE AttemptReturns
  BY <1>11 DEF AttemptReturns, Goes, Stops, Done, Attempted, AfterFailedAttempt
<1>12. CASE Exit
  BY <1>12 DEF Exit, Goes
<1>13. ASSUME NEW t \in Threads, StopBegins(t)
      PROVE  PlaceTypes'
  BY <1>13 DEF StopBegins, NothingToStop, Attempted
<1>14. ASSUME NEW t \in Threads, StopNative(t)
      PROVE  PlaceTypes'
  BY <1>14 DEF StopNative, Joined, Quiet, Attempted
<1>15. ASSUME NEW t \in Threads, StopNativeFails(t)
      PROVE  PlaceTypes'
  BY <1>15 DEF StopNativeFails, Quiet, Attempted, AfterFailedAttempt
<1>16. ASSUME NEW t \in Threads, StopReleases(t)
      PROVE  PlaceTypes'
  BY <1>16 DEF StopReleases, Attempted
<1>17. ASSUME NEW t \in Threads, StopReleaseFails(t)
      PROVE  PlaceTypes'
  BY <1>17 DEF StopReleaseFails, Attempted, AfterFailedAttempt
<1>18. ASSUME NEW t \in Threads, SignalShutdown(t)
      PROVE  PlaceTypes'
  BY <1>18 DEF SignalShutdown, Stops
<1>19. ASSUME NEW t \in Threads, HooksReturn(t)
      PROVE  PlaceTypes'
  BY <1>19 DEF HooksReturn, Done
<1>20. CASE SetRtp
  BY <1>20 DEF SetRtp, Launches, LaunchFails, AfterFailedStart, StartWaits, MayStart,
               Deactivates, DeactivateFails, Quiet
<1>21. CASE Configure
  BY <1>21 DEF Configure, Idle
<1>22. ASSUME NEW c \in Channels, PumpStep(c)
      PROVE  PlaceTypes'
  BY <1>22 DEF PumpStep, Deactivates, DeactivateFails, Quiet
<1>23. ASSUME NEW c \in Channels, ChildDies(c)
      PROVE  PlaceTypes'
  <2>1. child' = [d \in Both |-> child'[d]]
    BY <1>23 DEF ChildDies
  <2>2. QED
    BY <1>23, <2>1 DEF ChildDies
<1>24. CASE SubscriberComesOrLeaves
  BY <1>24 DEF SubscriberComesOrLeaves
<1>25. CASE TimerChecks
  BY <1>25 DEF TimerChecks, Demand
<1>26. CASE TimerSets
  BY <1>26 DEF TimerSets, Launches, LaunchFails, AfterFailedStart, StartRefused, StartUnchanged,
               StartWaits, MayStart, Deactivates, DeactivateFails, Quiet
<1>27. CASE ReaderChecks
  BY <1>27 DEF ReaderChecks
<1>28. CASE ReaderPublishes
  BY <1>28 DEF ReaderPublishes
<1>29. CASE RtpRestarts
  BY <1>29 DEF RtpRestarts, Restarts, RestartFails, AfterFailedStart, Quiet
<1>30. CASE TimerRestarts
  BY <1>30 DEF TimerRestarts, Restarts, RestartFails, AfterFailedStart, Quiet
<1>31. CASE UNCHANGED vars
  BY <1>31
<1>32. QED
  BY <1>1, <1>2, <1>3, <1>4, <1>5, <1>6, <1>7, <1>8, <1>9, <1>10, <1>11, <1>12, <1>13, <1>14,
     <1>15, <1>16, <1>17, <1>18, <1>19, <1>20, <1>21, <1>22, <1>23, <1>24, <1>25, <1>26, <1>27,
     <1>28, <1>29, <1>30, <1>31 DEF Next, Main, ShutdownStep, StopAttempt, ChannelStep, PreviewStep

\* An attempt has nothing to do, or closes the runtime.
LEMMA BeginsAnAttempt ==
    ASSUME NEW t \in Threads, StopBegins(t)
    PROVE  \/ ~started /\ closing' = closing /\ attempt' = [attempt EXCEPT ![t] = "done"]
           \/ closing' = TRUE /\ attempt' = [attempt EXCEPT ![t] = "native"]
<1>1. CASE NothingToStop
  BY <1>1 DEF StopBegins, NothingToStop, Attempted
<1>2. CASE ~NothingToStop
  BY <1>2 DEF StopBegins, NothingToStop, Attempted
<1>3. QED
  BY <1>1, <1>2

\* What an attempt has reached stays reached.
LEMMA StepKeepsAttempts ==
    ASSUME FlagTypes, PlaceTypes, SettingsTypes, StartInv, AttemptInv, HookInv, PreviewInv,
           PlaceTypes', [Next]_vars
    PROVE  AttemptInv'
<1> USE DEF PlaceTypes, StartInv, AttemptInv, HookInv, Positions, Early, Both, Rtp, Preview,
            Threads, NothingRuns, vars, machine, mainVars, stopVars, nativeVars, runtimeVars,
            rosVars, Channels, NoThread
<1>1. CASE ReadParameters
  BY <1>1 DEF ReadParameters, Goes
<1>2. CASE Preflight
  BY <1>2, ZenonT(60) DEF Preflight, Goes, Undone, Stops
<1>3. CASE PrepareDirectory
  BY <1>3, ZenonT(60) DEF PrepareDirectory, Goes, Undone, Stops
<1>4. CASE CreateControl
  BY <1>4 DEF CreateControl, Goes
<1>5. CASE Listen
  BY <1>5 DEF Listen, Goes
<1>6. CASE StartFails
  BY <1>6 DEF StartFails, Stops
<1>7. ASSUME NEW c \in Channels, StartPump(c)
      PROVE  AttemptInv'
  BY <1>7 DEF StartPump
<1>8. CASE RegisterHook
  BY <1>8, ZenonT(60) DEF RegisterHook, Goes, Stops
<1>9. CASE Subscribe
  <2>1. main = "subscribe" /\ attempt["main"] = "none" /\ UNCHANGED <<child, pump, active, reader, closing, started, context>>
    BY <1>9 DEF Subscribe, Goes, Undone, Stops
  <2>2. CASE Undone("subscribe")
    BY <1>9, <2>1, <2>2 DEF Undone, Goes, Stops
  <2>3. CASE main' = "spin" /\ UNCHANGED stopVars
    BY <1>9, <2>1, <2>3
  <2>4. QED
    BY <1>9, <2>2, <2>3 DEF Subscribe, Goes
<1>10. CASE LoopEnds
  BY <1>10 DEF LoopEnds, Goes, Stops
<1>11. CASE AttemptReturns
  BY <1>11, ZenonT(60) DEF AttemptReturns, Goes, Stops, Done, Attempted, AfterFailedAttempt
<1>12. CASE Exit
  BY <1>12 DEF Exit, Goes
<1>13. ASSUME NEW t \in Threads, StopBegins(t)
      PROVE  AttemptInv'
  <2>1. \/ ~started /\ closing' = closing /\ attempt' = [attempt EXCEPT ![t] = "done"]
        \/ closing' = TRUE /\ attempt' = [attempt EXCEPT ![t] = "native"]
    BY <1>13, BeginsAnAttempt
  <2>2. /\ attempt[t] = "wait"
        /\ UNCHANGED <<main, started, context, active, reader, child, pump>>
    BY <1>13 DEF StopBegins
  <2>3. QED
    BY <2>1, <2>2, ZenonT(60)
<1>14. ASSUME NEW t \in Threads, StopNative(t)
      PROVE  AttemptInv'
  <2>1. reader = "none" /\ closing
    BY <1>14 DEF StopNative, Quiet, PreviewInv
  <2>2. NothingRuns'
    BY <1>14, <2>1 DEF StopNative
  <2>3. QED
    BY <1>14, <2>1, <2>2 DEF StopNative, Attempted
<1>15. ASSUME NEW t \in Threads, StopNativeFails(t)
      PROVE  AttemptInv'
  <2>1. attempt[t] = "native" /\ UNCHANGED <<main, closing, started, context>>
    BY <1>15 DEF StopNativeFails
  <2>2. NothingRuns => NothingRuns'
    <3>1. PICK down \in SUBSET {c \in Channels : Free(c)} :
              /\ child' = [c \in DOMAIN child |-> IF c \in down THEN NoChild ELSE child[c]]
              /\ active' = active \ down
      BY <1>15 DEF StopNativeFails
    <3>2. UNCHANGED <<reader, pump>>
      BY <1>15 DEF StopNativeFails
    <3>3. QED
      BY <3>1, <3>2
  <2>3. attempt' = [attempt EXCEPT ![t] = IF t = "main" /\ main = "failing" THEN "done" ELSE "wait"]
    BY <1>15 DEF StopNativeFails, Attempted, AfterFailedAttempt
  <2>4. QED
    BY <2>1, <2>2, <2>3, ZenonT(60)
<1>16. ASSUME NEW t \in Threads, StopReleases(t)
      PROVE  AttemptInv'
  BY <1>16 DEF StopReleases, Attempted
<1>17. ASSUME NEW t \in Threads, StopReleaseFails(t)
      PROVE  AttemptInv'
  BY <1>17, ZenonT(60) DEF StopReleaseFails, Attempted, AfterFailedAttempt
<1>18. ASSUME NEW t \in Threads, SignalShutdown(t)
      PROVE  AttemptInv'
  BY <1>18, ZenonT(60) DEF SignalShutdown, Stops
<1>19. ASSUME NEW t \in Threads, HooksReturn(t)
      PROVE  AttemptInv'
  BY <1>19 DEF HooksReturn, Done
<1>20. CASE SetRtp
  BY <1>20 DEF SetRtp, Launches, LaunchFails, AfterFailedStart, StartWaits, MayStart,
               Deactivates, DeactivateFails, Quiet
<1>21. CASE Configure
  BY <1>21 DEF Configure, Idle
<1>22. ASSUME NEW c \in Channels, PumpStep(c)
      PROVE  AttemptInv'
  BY <1>22 DEF PumpStep, Deactivates, DeactivateFails, Quiet
<1>23. ASSUME NEW c \in Channels, ChildDies(c)
      PROVE  AttemptInv'
  BY <1>23, ZenonT(60) DEF ChildDies
<1>24. CASE SubscriberComesOrLeaves
  BY <1>24 DEF SubscriberComesOrLeaves
<1>25. CASE TimerChecks
  BY <1>25 DEF TimerChecks, Demand
<1>26. CASE TimerSets
  <2>1. UNCHANGED <<attempt, main, started, context, closing, reader, pump>>
    BY <1>26 DEF TimerSets, Launches, LaunchFails, AfterFailedStart, StartRefused, StartUnchanged,
               StartWaits, MayStart, Deactivates, DeactivateFails
  <2>2. closing /\ NothingRuns => NothingRuns'
    BY <1>26, <2>1 DEF TimerSets, Launches, LaunchFails, AfterFailedStart, StartRefused, StartUnchanged,
               StartWaits, MayStart, Deactivates, DeactivateFails
  <2>3. QED
    BY <2>1, <2>2
<1>27. CASE ReaderChecks
  BY <1>27 DEF ReaderChecks
<1>28. CASE ReaderPublishes
  BY <1>28 DEF ReaderPublishes
<1>29. CASE RtpRestarts
  <2>1. ~NothingRuns
    BY <1>29 DEF RtpRestarts, Restarts, RestartFails, SettingsTypes
  <2>2. UNCHANGED <<attempt, main, started, context, closing, endpoint, timer>>
    BY <1>29 DEF RtpRestarts
  <2>3. QED
    BY <2>1, <2>2
<1>30. CASE TimerRestarts
  <2>1. ~NothingRuns
    BY <1>30 DEF TimerRestarts, Restarts, RestartFails, SettingsTypes
  <2>2. UNCHANGED <<attempt, main, started, context, closing, endpoint>>
    BY <1>30 DEF TimerRestarts
  <2>3. QED
    BY <2>1, <2>2
<1>31. CASE UNCHANGED vars
  BY <1>31
<1>32. QED
  BY <1>1, <1>2, <1>3, <1>4, <1>5, <1>6, <1>7, <1>8, <1>9, <1>10, <1>11, <1>12, <1>13, <1>14,
     <1>15, <1>16, <1>17, <1>18, <1>19, <1>20, <1>21, <1>22, <1>23, <1>24, <1>25, <1>26, <1>27,
     <1>28, <1>29, <1>30, <1>31 DEF Next, Main, ShutdownStep, StopAttempt, ChannelStep, PreviewStep

\* A step takes ROS down early only where there is no hook.
LEMMA StepKeepsHooks ==
    ASSUME FlagTypes, PlaceTypes, SettingsTypes, StartInv, AttemptInv, HookInv, PreviewInv,
           PlaceTypes', [Next]_vars
    PROVE  HookInv'
<1> USE DEF PlaceTypes, StartInv, AttemptInv, HookInv, PreviewInv, Positions, Early, Both, Rtp,
            Preview, Threads, NothingRuns, vars, machine, mainVars, stopVars, nativeVars,
            runtimeVars, rosVars
<1>1. CASE ReadParameters
  BY <1>1 DEF ReadParameters, Goes
<1>2. CASE Preflight
  BY <1>2 DEF Preflight, Goes, Undone, Stops
<1>3. CASE PrepareDirectory
  BY <1>3 DEF PrepareDirectory, Goes, Undone, Stops
<1>4. CASE CreateControl
  BY <1>4 DEF CreateControl, Goes
<1>5. CASE Listen
  BY <1>5 DEF Listen, Goes
<1>6. CASE StartFails
  BY <1>6 DEF StartFails, Stops
<1>7. ASSUME NEW c \in Channels, StartPump(c)
      PROVE  HookInv'
  BY <1>7 DEF StartPump
<1>8. CASE RegisterHook
  BY <1>8 DEF RegisterHook, Goes, Stops
<1>9. CASE Subscribe
  BY <1>9 DEF Subscribe, Goes, Undone, Stops
<1>10. CASE LoopEnds
  BY <1>10 DEF LoopEnds, Goes, Stops
<1>11. CASE AttemptReturns
  BY <1>11 DEF AttemptReturns, Goes, Stops, Done, Attempted, AfterFailedAttempt
<1>12. CASE Exit
  BY <1>12 DEF Exit, Goes
<1>13. ASSUME NEW t \in Threads, StopBegins(t)
      PROVE  HookInv'
  BY <1>13 DEF StopBegins, NothingToStop, Attempted
<1>14. ASSUME NEW t \in Threads, StopNative(t)
      PROVE  HookInv'
  BY <1>14 DEF StopNative, Joined, Quiet, Attempted
<1>15. ASSUME NEW t \in Threads, StopNativeFails(t)
      PROVE  HookInv'
  BY <1>15 DEF StopNativeFails, Quiet, Attempted, AfterFailedAttempt
<1>16. ASSUME NEW t \in Threads, StopReleases(t)
      PROVE  HookInv'
  BY <1>16 DEF StopReleases, Attempted
<1>17. ASSUME NEW t \in Threads, StopReleaseFails(t)
      PROVE  HookInv'
  BY <1>17 DEF StopReleaseFails, Attempted, AfterFailedAttempt
<1>18. ASSUME NEW t \in Threads, SignalShutdown(t)
      PROVE  HookInv'
  BY <1>18 DEF SignalShutdown, Stops
<1>19. ASSUME NEW t \in Threads, HooksReturn(t)
      PROVE  HookInv'
  BY <1>19 DEF HooksReturn, Done
<1>20. CASE SetRtp
  BY <1>20 DEF SetRtp, Launches, LaunchFails, AfterFailedStart, StartWaits, MayStart,
               Deactivates, DeactivateFails, Quiet
<1>21. CASE Configure
  BY <1>21 DEF Configure, Idle
<1>22. ASSUME NEW c \in Channels, PumpStep(c)
      PROVE  HookInv'
  BY <1>22 DEF PumpStep, Deactivates, DeactivateFails, Quiet
<1>23. ASSUME NEW c \in Channels, ChildDies(c)
      PROVE  HookInv'
  BY <1>23 DEF ChildDies
<1>24. CASE SubscriberComesOrLeaves
  BY <1>24 DEF SubscriberComesOrLeaves
<1>25. CASE TimerChecks
  BY <1>25 DEF TimerChecks, Demand
<1>26. CASE TimerSets
  BY <1>26 DEF TimerSets, Launches, LaunchFails, AfterFailedStart, StartRefused, StartUnchanged,
               StartWaits, MayStart, Deactivates, DeactivateFails, Quiet
<1>27. CASE ReaderChecks
  BY <1>27 DEF ReaderChecks
<1>28. CASE ReaderPublishes
  BY <1>28 DEF ReaderPublishes
<1>29. CASE RtpRestarts
  BY <1>29 DEF RtpRestarts, Restarts, RestartFails, AfterFailedStart, Quiet
<1>30. CASE TimerRestarts
  BY <1>30 DEF TimerRestarts, Restarts, RestartFails, AfterFailedStart, Quiet
<1>31. CASE UNCHANGED vars
  BY <1>31
<1>32. QED
  BY <1>1, <1>2, <1>3, <1>4, <1>5, <1>6, <1>7, <1>8, <1>9, <1>10, <1>11, <1>12, <1>13, <1>14,
     <1>15, <1>16, <1>17, <1>18, <1>19, <1>20, <1>21, <1>22, <1>23, <1>24, <1>25, <1>26, <1>27,
     <1>28, <1>29, <1>30, <1>31 DEF Next, Main, ShutdownStep, StopAttempt, ChannelStep, PreviewStep

\* A runtime that is not started has nothing, whatever step is taken.
LEMMA StepKeepsStart ==
    ASSUME FlagTypes, PlaceTypes, SettingsTypes, StartInv, AttemptInv, HookInv, PreviewInv,
           PlaceTypes', [Next]_vars
    PROVE  StartInv'
<1> USE DEF PlaceTypes, StartInv, AttemptInv, HookInv, Positions, Early, Both, Rtp, Preview,
            Threads, NothingRuns, vars, machine, mainVars, stopVars, nativeVars, runtimeVars,
            rosVars, Channels
<1>1. CASE ReadParameters
  BY <1>1 DEF ReadParameters, Goes
<1>2. CASE Preflight
  BY <1>2 DEF Preflight, Goes, Undone, Stops
<1>3. CASE PrepareDirectory
  BY <1>3 DEF PrepareDirectory, Goes, Undone, Stops
<1>4. CASE CreateControl
  BY <1>4 DEF CreateControl, Goes
<1>5. CASE Listen
  BY <1>5 DEF Listen, Goes
<1>6. CASE StartFails
  BY <1>6 DEF StartFails, Stops
<1>7. ASSUME NEW c \in Channels, StartPump(c)
      PROVE  StartInv'
  BY <1>7 DEF StartPump
<1>8. CASE RegisterHook
  BY <1>8 DEF RegisterHook, Goes, Stops
<1>9. CASE Subscribe
  BY <1>9 DEF Subscribe, Goes, Undone, Stops
<1>10. CASE LoopEnds
  BY <1>10 DEF LoopEnds, Goes, Stops
<1>11. CASE AttemptReturns
  BY <1>11 DEF AttemptReturns, Goes, Stops, Done, Attempted, AfterFailedAttempt
<1>12. CASE Exit
  BY <1>12 DEF Exit, Goes
<1>13. ASSUME NEW t \in Threads, StopBegins(t)
      PROVE  StartInv'
  BY <1>13 DEF StopBegins, NothingToStop, Attempted
<1>14. ASSUME NEW t \in Threads, StopNative(t)
      PROVE  StartInv'
  BY <1>14 DEF StopNative, Joined, Quiet, Attempted
<1>15. ASSUME NEW t \in Threads, StopNativeFails(t)
      PROVE  StartInv'
  BY <1>15 DEF StopNativeFails, Quiet, Attempted, AfterFailedAttempt
<1>16. ASSUME NEW t \in Threads, StopReleases(t)
      PROVE  StartInv'
  BY <1>16 DEF StopReleases, Attempted
<1>17. ASSUME NEW t \in Threads, StopReleaseFails(t)
      PROVE  StartInv'
  BY <1>17 DEF StopReleaseFails, Attempted, AfterFailedAttempt
<1>18. ASSUME NEW t \in Threads, SignalShutdown(t)
      PROVE  StartInv'
  BY <1>18 DEF SignalShutdown, Stops
<1>19. ASSUME NEW t \in Threads, HooksReturn(t)
      PROVE  StartInv'
  BY <1>19 DEF HooksReturn, Done
<1>20. CASE SetRtp
  BY <1>20 DEF SetRtp, Launches, LaunchFails, AfterFailedStart, StartWaits, MayStart,
               Deactivates, DeactivateFails, Quiet
<1>21. CASE Configure
  BY <1>21 DEF Configure, Idle
<1>22. ASSUME NEW c \in Channels, PumpStep(c)
      PROVE  StartInv'
  BY <1>22 DEF PumpStep, Deactivates, DeactivateFails, Quiet
<1>23. ASSUME NEW c \in Channels, ChildDies(c)
      PROVE  StartInv'
  BY <1>23 DEF ChildDies
<1>24. CASE SubscriberComesOrLeaves
  BY <1>24 DEF SubscriberComesOrLeaves
<1>25. CASE TimerChecks
  BY <1>25 DEF TimerChecks, Demand
<1>26. CASE TimerSets
  BY <1>26 DEF TimerSets, Launches, LaunchFails, AfterFailedStart, StartRefused, StartUnchanged,
               StartWaits, MayStart, Deactivates, DeactivateFails, Quiet
<1>27. CASE ReaderChecks
  BY <1>27 DEF ReaderChecks
<1>28. CASE ReaderPublishes
  BY <1>28 DEF ReaderPublishes
<1>29. CASE RtpRestarts
  <2>1. ~NothingRuns
    BY <1>29 DEF RtpRestarts, Restarts, RestartFails, SettingsTypes
  <2>2. UNCHANGED <<attempt, main, started, context, closing, endpoint, timer>>
    BY <1>29 DEF RtpRestarts
  <2>3. QED
    BY <2>1, <2>2
<1>30. CASE TimerRestarts
  <2>1. ~NothingRuns
    BY <1>30 DEF TimerRestarts, Restarts, RestartFails, SettingsTypes
  <2>2. UNCHANGED <<attempt, main, started, context, closing, endpoint>>
    BY <1>30 DEF TimerRestarts
  <2>3. QED
    BY <2>1, <2>2
<1>31. CASE UNCHANGED vars
  BY <1>31
<1>32. QED
  BY <1>1, <1>2, <1>3, <1>4, <1>5, <1>6, <1>7, <1>8, <1>9, <1>10, <1>11, <1>12, <1>13, <1>14,
     <1>15, <1>16, <1>17, <1>18, <1>19, <1>20, <1>21, <1>22, <1>23, <1>24, <1>25, <1>26, <1>27,
     <1>28, <1>29, <1>30, <1>31 DEF Next, Main, ShutdownStep, StopAttempt, ChannelStep, PreviewStep


\* configure() changes the port and the bitrate, and no other field.
LEMMA ConfigureKeeps ==
    ASSUME settings \in Settings, Configure
    PROVE  /\ settings' \in Settings /\ settings'.preview = settings.preview
           /\ settings'.input = settings.input
           /\ Command(settings', Preview) = Command(settings, Preview)
           /\ Inspected(settings', Preview) = Inspected(settings, Preview)
<1>1. PICK p \in Ports, b \in Bitrates : settings' = [settings EXCEPT !.port = p, !.bitrate = b]
  BY DEF Configure
<1>2. p \in Int /\ b \in Int
  BY NodeConstants
<1>3. settings' \in Settings /\ settings'.preview = settings.preview
  BY <1>1, <1>2, ZenonT(60) DEF Settings
<1>4. /\ settings'.encoder = settings.encoder /\ settings'.arguments = settings.arguments
      /\ settings'.input = settings.input /\ settings'.fps = settings.fps
      /\ settings'.width = settings.width /\ settings'.height = settings.height
      /\ settings'.videoWidth = settings.videoWidth
      /\ settings'.videoHeight = settings.videoHeight
      /\ settings'.videoBitrate = settings.videoBitrate
  BY <1>1 DEF Settings
<1>5. FfmpegPreview(settings') = FfmpegPreview(settings)
  BY <1>4 DEF FfmpegPreview, FfmpegParts, FfmpegReads, Reads, CodecArguments, PreviewOutputOf,
             HalfResolution
<1>6. InspectedFfmpeg(settings') = InspectedFfmpeg(settings)
  BY <1>4 DEF InspectedFfmpeg
<1>7. QED
  BY <1>3, <1>4, <1>5, <1>6 DEF Command, Inspected, Preview

\* The settings stay settings; the channels stay the same.
LEMMA StepKeepsSettings ==
    ASSUME SettingsTypes, PreviewInv, [Next]_vars
    PROVE  SettingsTypes'
<1> USE DEF SettingsTypes, Channels, Rtp, Preview, vars, machine, mainVars, stopVars, nativeVars,
            runtimeVars, rosVars
<1>1. CASE ReadParameters
  BY <1>1 DEF ReadParameters, Goes
<1>2. CASE Preflight
  BY <1>2 DEF Preflight, Goes, Undone, Stops
<1>3. CASE PrepareDirectory
  BY <1>3 DEF PrepareDirectory, Goes, Undone, Stops
<1>4. CASE CreateControl
  BY <1>4 DEF CreateControl, Goes
<1>5. CASE Listen
  BY <1>5 DEF Listen, Goes
<1>6. CASE StartFails
  BY <1>6 DEF StartFails, Stops
<1>7. ASSUME NEW c \in Channels, StartPump(c)
      PROVE  SettingsTypes'
  BY <1>7 DEF StartPump
<1>8. CASE RegisterHook
  BY <1>8 DEF RegisterHook, Goes, Stops
<1>9. CASE Subscribe
  BY <1>9 DEF Subscribe, Goes, Undone, Stops
<1>10. CASE LoopEnds
  BY <1>10 DEF LoopEnds, Goes, Stops
<1>11. CASE AttemptReturns
  BY <1>11 DEF AttemptReturns, Goes, Stops, Done, Attempted, AfterFailedAttempt
<1>12. CASE Exit
  BY <1>12 DEF Exit, Goes
<1>13. ASSUME NEW t \in Threads, StopBegins(t)
      PROVE  SettingsTypes'
  BY <1>13 DEF StopBegins, NothingToStop, Attempted
<1>14. ASSUME NEW t \in Threads, StopNative(t)
      PROVE  SettingsTypes'
  BY <1>14 DEF StopNative, Joined, Quiet, Attempted
<1>15. ASSUME NEW t \in Threads, StopNativeFails(t)
      PROVE  SettingsTypes'
  BY <1>15 DEF StopNativeFails, Free
<1>16. ASSUME NEW t \in Threads, StopReleases(t)
      PROVE  SettingsTypes'
  BY <1>16 DEF StopReleases, Attempted
<1>17. ASSUME NEW t \in Threads, StopReleaseFails(t)
      PROVE  SettingsTypes'
  BY <1>17 DEF StopReleaseFails, Attempted, AfterFailedAttempt
<1>18. ASSUME NEW t \in Threads, SignalShutdown(t)
      PROVE  SettingsTypes'
  BY <1>18 DEF SignalShutdown, Stops
<1>19. ASSUME NEW t \in Threads, HooksReturn(t)
      PROVE  SettingsTypes'
  BY <1>19 DEF HooksReturn, Done
<1>20. CASE SetRtp
  BY <1>20 DEF SetRtp, Launches, LaunchFails, AfterFailedStart, StartWaits, MayStart,
               Deactivates, DeactivateFails, Free
<1>21. CASE Configure
  <2>1. UNCHANGED <<active, unfinished, restarting>>
    BY <1>21 DEF Configure
  <2>2. settings' \in Settings /\ settings'.preview = settings.preview
    BY <1>21, ConfigureKeeps
  <2>3. QED
    BY <2>1, <2>2
<1>22. ASSUME NEW c \in Channels, PumpStep(c)
      PROVE  SettingsTypes'
  BY <1>22 DEF PumpStep, Deactivates, DeactivateFails, Free
<1>23. ASSUME NEW c \in Channels, ChildDies(c)
      PROVE  SettingsTypes'
  BY <1>23 DEF ChildDies
<1>24. CASE SubscriberComesOrLeaves
  BY <1>24 DEF SubscriberComesOrLeaves
<1>25. CASE TimerChecks
  BY <1>25 DEF TimerChecks, Demand
<1>26. CASE TimerSets
  <2>1. CASE Launches(Preview)
    BY <1>26, <2>1 DEF TimerSets, Launches, PreviewInv
  <2>2. CASE ~Launches(Preview)
    BY <1>26, <2>2 DEF TimerSets, LaunchFails, StartRefused, StartUnchanged, StartWaits, MayStart,
                       Deactivates, DeactivateFails, Free, PreviewInv
  <2>3. QED
    BY <2>1, <2>2
<1>27. CASE ReaderChecks
  BY <1>27 DEF ReaderChecks
<1>28. CASE ReaderPublishes
  BY <1>28 DEF ReaderPublishes
<1>29. CASE RtpRestarts
  BY <1>29 DEF RtpRestarts, Restarts, RestartFails, AfterFailedStart, Quiet
<1>30. CASE TimerRestarts
  BY <1>30 DEF TimerRestarts, Restarts, RestartFails, AfterFailedStart, Quiet
<1>31. CASE UNCHANGED vars
  BY <1>31
<1>32. QED
  BY <1>1, <1>2, <1>3, <1>4, <1>5, <1>6, <1>7, <1>8, <1>9, <1>10, <1>11, <1>12, <1>13, <1>14,
     <1>15, <1>16, <1>17, <1>18, <1>19, <1>20, <1>21, <1>22, <1>23, <1>24, <1>25, <1>26, <1>27,
     <1>28, <1>29, <1>30, <1>31 DEF Next, Main, ShutdownStep, StopAttempt, ChannelStep, PreviewStep

\* No step starts a preview that has no timer.
LEMMA StepKeepsPreview ==
    ASSUME PlaceTypes, SettingsTypes, StartInv, AttemptInv, HookInv, PreviewInv, PlaceTypes', [Next]_vars
    PROVE  PreviewInv'
<1> USE DEF PlaceTypes, StartInv, AttemptInv, HookInv, PreviewInv, Channels, Positions, Early,
            Both, Rtp, Preview, Threads, NothingRuns, vars, machine, mainVars, stopVars,
            nativeVars, runtimeVars, rosVars
<1>1. CASE ReadParameters
  BY <1>1 DEF ReadParameters, Goes
<1>2. CASE Preflight
  BY <1>2 DEF Preflight, Goes, Undone, Stops
<1>3. CASE PrepareDirectory
  BY <1>3 DEF PrepareDirectory, Goes, Undone, Stops
<1>4. CASE CreateControl
  BY <1>4 DEF CreateControl, Goes
<1>5. CASE Listen
  BY <1>5 DEF Listen, Goes
<1>6. CASE StartFails
  BY <1>6 DEF StartFails, Stops
<1>7. ASSUME NEW c \in Channels, StartPump(c)
      PROVE  PreviewInv'
  BY <1>7 DEF StartPump
<1>8. CASE RegisterHook
  BY <1>8 DEF RegisterHook, Goes, Stops
<1>9. CASE Subscribe
  BY <1>9 DEF Subscribe, Goes, Undone, Stops
<1>10. CASE LoopEnds
  BY <1>10 DEF LoopEnds, Goes, Stops
<1>11. CASE AttemptReturns
  BY <1>11 DEF AttemptReturns, Goes, Stops, Done, Attempted, AfterFailedAttempt
<1>12. CASE Exit
  BY <1>12 DEF Exit, Goes
<1>13. ASSUME NEW t \in Threads, StopBegins(t)
      PROVE  PreviewInv'
  BY <1>13 DEF StopBegins, NothingToStop, Attempted
<1>14. ASSUME NEW t \in Threads, StopNative(t)
      PROVE  PreviewInv'
  BY <1>14 DEF StopNative, Joined, Quiet, Attempted
<1>15. ASSUME NEW t \in Threads, StopNativeFails(t)
      PROVE  PreviewInv'
  BY <1>15 DEF StopNativeFails, Quiet, Attempted, AfterFailedAttempt
<1>16. ASSUME NEW t \in Threads, StopReleases(t)
      PROVE  PreviewInv'
  BY <1>16 DEF StopReleases, Attempted
<1>17. ASSUME NEW t \in Threads, StopReleaseFails(t)
      PROVE  PreviewInv'
  BY <1>17 DEF StopReleaseFails, Attempted, AfterFailedAttempt
<1>18. ASSUME NEW t \in Threads, SignalShutdown(t)
      PROVE  PreviewInv'
  BY <1>18 DEF SignalShutdown, Stops
<1>19. ASSUME NEW t \in Threads, HooksReturn(t)
      PROVE  PreviewInv'
  BY <1>19 DEF HooksReturn, Done
<1>20. CASE SetRtp
  BY <1>20 DEF SetRtp, Launches, LaunchFails, AfterFailedStart, StartWaits, MayStart,
               Deactivates, DeactivateFails, Quiet
<1>21. CASE Configure
  <2>1. settings'.preview = settings.preview
    BY <1>21, ConfigureKeeps DEF SettingsTypes
  <2>2. UNCHANGED <<ros, main, started, timer, active, child, reader, pump>>
    BY <1>21 DEF Configure
  <2>3. QED
    BY <2>1, <2>2
<1>22. ASSUME NEW c \in Channels, PumpStep(c)
      PROVE  PreviewInv'
  BY <1>22 DEF PumpStep, Deactivates, DeactivateFails, Quiet
<1>23. ASSUME NEW c \in Channels, ChildDies(c)
      PROVE  PreviewInv'
  BY <1>23 DEF ChildDies
<1>24. CASE SubscriberComesOrLeaves
  BY <1>24 DEF SubscriberComesOrLeaves
<1>25. CASE TimerChecks
  BY <1>25 DEF TimerChecks, Demand
<1>26. CASE TimerSets
  BY <1>26 DEF TimerSets, Launches, LaunchFails, AfterFailedStart, StartRefused, StartUnchanged,
               StartWaits, MayStart, Deactivates, DeactivateFails, Quiet
<1>27. CASE ReaderChecks
  BY <1>27 DEF ReaderChecks
<1>28. CASE ReaderPublishes
  BY <1>28 DEF ReaderPublishes
<1>29. CASE RtpRestarts
  BY <1>29 DEF RtpRestarts, Restarts, RestartFails, AfterFailedStart, Quiet
<1>30. CASE TimerRestarts
  BY <1>30 DEF TimerRestarts, Restarts, RestartFails, AfterFailedStart, Quiet
<1>31. CASE UNCHANGED vars
  BY <1>31
<1>32. QED
  BY <1>1, <1>2, <1>3, <1>4, <1>5, <1>6, <1>7, <1>8, <1>9, <1>10, <1>11, <1>12, <1>13, <1>14,
     <1>15, <1>16, <1>17, <1>18, <1>19, <1>20, <1>21, <1>22, <1>23, <1>24, <1>25, <1>26, <1>27,
     <1>28, <1>29, <1>30, <1>31 DEF Next, Main, ShutdownStep, StopAttempt, ChannelStep, PreviewStep

\* Configure() inspects what it puts in place.
LEMMA ReadyAfterConfigure ==
    ASSUME settings \in Settings, Configure,
           \A c \in Channels : Inspected(settings, c) \subseteq tools
    PROVE  \A c \in Channels' : Inspected(settings', c) \subseteq tools'
<1>1. /\ settings'.preview = settings.preview /\ tools' = tools
      /\ Inspected(settings', Preview) = Inspected(settings, Preview)
      /\ Inspected(settings', Rtp) \subseteq tools
  BY ConfigureKeeps DEF Configure, machine
<1>2. Channels' = Channels /\ Channels \subseteq {Rtp, Preview}
  BY <1>1 DEF Channels
<1>3. QED
  BY <1>1, <1>2

\* Nothing may launch a child before the preflight.
LEMMA StepKeepsReady ==
    ASSUME PlaceTypes, SettingsTypes, StartInv, AttemptInv, HookInv, PreviewInv, PlaceTypes',
           ReadyInv, [Next]_vars
    PROVE  ReadyInv'
<1> USE DEF PlaceTypes, HookInv, PreviewInv, ReadyInv, Channels, Positions, Early, Both, Rtp,
            Preview, Threads, NothingRuns, vars, machine, mainVars, stopVars, nativeVars,
            runtimeVars, rosVars
<1>1. CASE ReadParameters
  BY <1>1 DEF ReadParameters, Goes
<1>2. CASE Preflight
  BY <1>2 DEF Preflight, Goes, Undone, Stops
<1>3. CASE PrepareDirectory
  BY <1>3 DEF PrepareDirectory, Goes, Undone, Stops
<1>4. CASE CreateControl
  BY <1>4 DEF CreateControl, Goes
<1>5. CASE Listen
  BY <1>5 DEF Listen, Goes
<1>6. CASE StartFails
  BY <1>6 DEF StartFails, Stops
<1>7. ASSUME NEW c \in Channels, StartPump(c)
      PROVE  ReadyInv'
  BY <1>7 DEF StartPump
<1>8. CASE RegisterHook
  BY <1>8 DEF RegisterHook, Goes, Stops
<1>9. CASE Subscribe
  BY <1>9 DEF Subscribe, Goes, Undone, Stops
<1>10. CASE LoopEnds
  BY <1>10 DEF LoopEnds, Goes, Stops
<1>11. CASE AttemptReturns
  BY <1>11 DEF AttemptReturns, Goes, Stops, Done, Attempted, AfterFailedAttempt
<1>12. CASE Exit
  BY <1>12 DEF Exit, Goes
<1>13. ASSUME NEW t \in Threads, StopBegins(t)
      PROVE  ReadyInv'
  BY <1>13 DEF StopBegins, NothingToStop, Attempted
<1>14. ASSUME NEW t \in Threads, StopNative(t)
      PROVE  ReadyInv'
  BY <1>14 DEF StopNative, Joined, Quiet, Attempted
<1>15. ASSUME NEW t \in Threads, StopNativeFails(t)
      PROVE  ReadyInv'
  BY <1>15 DEF StopNativeFails, Quiet, Attempted, AfterFailedAttempt
<1>16. ASSUME NEW t \in Threads, StopReleases(t)
      PROVE  ReadyInv'
  BY <1>16 DEF StopReleases, Attempted
<1>17. ASSUME NEW t \in Threads, StopReleaseFails(t)
      PROVE  ReadyInv'
  BY <1>17 DEF StopReleaseFails, Attempted, AfterFailedAttempt
<1>18. ASSUME NEW t \in Threads, SignalShutdown(t)
      PROVE  ReadyInv'
  BY <1>18 DEF SignalShutdown, Stops
<1>19. ASSUME NEW t \in Threads, HooksReturn(t)
      PROVE  ReadyInv'
  BY <1>19 DEF HooksReturn, Done
<1>20. CASE SetRtp
  BY <1>20 DEF SetRtp, Launches, LaunchFails, AfterFailedStart, StartWaits, MayStart,
               Deactivates, DeactivateFails, Quiet
<1>21. CASE Configure
  <2>1. endpoint # "none"
    BY <1>21 DEF Configure
  <2>2. \A c \in Channels' : Inspected(settings', c) \subseteq tools'
    BY <1>21, <2>1, ReadyAfterConfigure DEF SettingsTypes
  <2>3. QED
    BY <2>2
<1>22. ASSUME NEW c \in Channels, PumpStep(c)
      PROVE  ReadyInv'
  BY <1>22 DEF PumpStep, Deactivates, DeactivateFails, Quiet
<1>23. ASSUME NEW c \in Channels, ChildDies(c)
      PROVE  ReadyInv'
  BY <1>23 DEF ChildDies
<1>24. CASE SubscriberComesOrLeaves
  BY <1>24 DEF SubscriberComesOrLeaves
<1>25. CASE TimerChecks
  BY <1>25 DEF TimerChecks, Demand
<1>26. CASE TimerSets
  BY <1>26 DEF TimerSets, Launches, LaunchFails, AfterFailedStart, StartRefused, StartUnchanged,
               StartWaits, MayStart, Deactivates, DeactivateFails, Quiet
<1>27. CASE ReaderChecks
  BY <1>27 DEF ReaderChecks
<1>28. CASE ReaderPublishes
  BY <1>28 DEF ReaderPublishes
<1>29. CASE RtpRestarts
  BY <1>29 DEF RtpRestarts, Restarts, RestartFails, AfterFailedStart, Quiet
<1>30. CASE TimerRestarts
  BY <1>30 DEF TimerRestarts, Restarts, RestartFails, AfterFailedStart, Quiet
<1>31. CASE UNCHANGED vars
  BY <1>31
<1>32. QED
  BY <1>1, <1>2, <1>3, <1>4, <1>5, <1>6, <1>7, <1>8, <1>9, <1>10, <1>11, <1>12, <1>13, <1>14,
     <1>15, <1>16, <1>17, <1>18, <1>19, <1>20, <1>21, <1>22, <1>23, <1>24, <1>25, <1>26, <1>27,
     <1>28, <1>29, <1>30, <1>31 DEF Next, Main, ShutdownStep, StopAttempt, ChannelStep, PreviewStep

\* The number that replaces a marker.
LEMMA MarkerIsNumber ==
    ASSUME NEW s \in Settings, NEW text
    PROVE  MarkerValue(text, RtpOutput(s)) \in Int
<1>1. /\ s.bitrate \in Int /\ s.fps \in Int /\ s.width \in Int /\ s.height \in Int
  BY DEF Settings
<1>2. s.bitrate \div 1000 \in Int
  BY <1>1
<1>3. Kbps(s.bitrate) \in Int
  BY <1>2 DEF Kbps, AtLeastOne
<1>4. QED
  BY <1>1, <1>3 DEF MarkerValue, RtpOutput, AtLeastOne

Argument == STRING \X STRING \X STRING \X Int

\* _property_arguments makes one argument of each property, which keeps its name.
LEMMA PropertiesAreArguments ==
    ASSUME NEW s \in Settings, NEW element \in STRING,
           NEW properties \in Seq(STRING \X STRING)
    PROVE  LET made == Properties(element, properties, RtpOutput(s))
           IN  /\ made \in Seq(Argument) /\ Len(made) = Len(properties)
               /\ \A i \in 1 .. Len(properties) :
                      made[i] = <<element, properties[i][1], properties[i][2],
                                  MarkerValue(properties[i][2], RtpOutput(s))>>
<1> DEFINE made == Properties(element, properties, RtpOutput(s))
<1>1. \A i \in 1 .. Len(properties) : properties[i] \in STRING \X STRING
  BY ElementOfSeq
<1>2. DOMAIN properties = 1 .. Len(properties) /\ Len(properties) \in Nat
  BY LenProperties
<1>3. made = [i \in 1 .. Len(properties) |->
                 <<element, properties[i][1], properties[i][2],
                   MarkerValue(properties[i][2], RtpOutput(s))>>]
  BY <1>2 DEF Properties
<1>4. \A i \in 1 .. Len(properties) :
          <<element, properties[i][1], properties[i][2],
            MarkerValue(properties[i][2], RtpOutput(s))>> \in Argument
  BY <1>1, MarkerIsNumber DEF Argument
<1>5. made \in [1 .. Len(properties) -> Argument]
  BY <1>3, <1>4
<1> HIDE DEF made
<1>6. made \in Seq(Argument) /\ Len(made) = Len(properties)
  BY <1>2, <1>5
<1>7. QED
  BY <1>3, <1>6 DEF made

\* What is in a concatenation is in one of its parts.
LEMMA ConcatenationHolds ==
    ASSUME NEW S, NEW a \in Seq(S), NEW b \in Seq(S)
    PROVE  ToSet(a \o b) \subseteq ToSet(a) \cup ToSet(b)
<1>1. /\ Len(a) \in Nat /\ Len(b) \in Nat /\ Len(a \o b) = Len(a) + Len(b)
      /\ DOMAIN a = 1 .. Len(a) /\ DOMAIN b = 1 .. Len(b)
      /\ DOMAIN (a \o b) = 1 .. Len(a \o b)
      /\ \A i \in 1 .. Len(a) + Len(b) :
             (a \o b)[i] = IF i <= Len(a) THEN a[i] ELSE b[i - Len(a)]
  BY ConcatProperties, LenProperties
<1>2. SUFFICES ASSUME NEW i \in 1 .. Len(a) + Len(b)
               PROVE  (a \o b)[i] \in ToSet(a) \cup ToSet(b)
  BY <1>1 DEF ToSet
<1>3. CASE i <= Len(a)
  BY <1>1, <1>3 DEF ToSet
<1>4. CASE i > Len(a)
  BY <1>1, <1>4 DEF ToSet
<1>5. QED
  BY <1>1, <1>3, <1>4

\* The names of the properties of one element, in the form of the inspection.
Named(element, properties) ==
    {<<"gst-launch-1.0", element, p[1]>> : p \in ToSet(properties)}

\* An element with its properties replaced still has the properties it had.
LEMMA NamesOfProperties ==
    ASSUME NEW s \in Settings, NEW element \in STRING,
           NEW properties \in Seq(STRING \X STRING),
           NEW a \in ToSet(Properties(element, properties, RtpOutput(s)))
    PROVE  <<"gst-launch-1.0", a[1], a[2]>> \in Named(element, properties)
<1> DEFINE made == Properties(element, properties, RtpOutput(s))
<1>1. /\ made \in Seq(Argument) /\ Len(made) = Len(properties)
      /\ \A i \in 1 .. Len(properties) :
             made[i] = <<element, properties[i][1], properties[i][2],
                         MarkerValue(properties[i][2], RtpOutput(s))>>
  BY PropertiesAreArguments
<1> HIDE DEF made
<1>2. DOMAIN made = 1 .. Len(properties) /\ DOMAIN properties = 1 .. Len(properties)
  BY <1>1, LenProperties
<1>3. PICK i \in 1 .. Len(properties) : a = made[i]
  BY <1>2 DEF ToSet, made
<1>4. a[1] = element /\ a[2] = properties[i][1]
  BY <1>1, <1>3
<1>5. properties[i] \in ToSet(properties)
  BY <1>2 DEF ToSet
<1>6. QED
  BY <1>4, <1>5 DEF Named

\* What is left of the needs of FFmpeg is the program and the encoder.
LEMMA FfmpegNeeds ==
    ASSUME NEW s, NEW filters, NEW output, NEW command, command.program = "ffmpeg",
           command.parts = FfmpegParts(s, filters, output),
           \A p \in output : p[1] # "encoder"
    PROVE  Needs(command) \ Unasked(command) \subseteq InspectedFfmpeg(s)
<1>1. Needs(command) = {<<"ffmpeg">>} \cup {<<"ffmpeg", p[1], p[2]>> : p \in command.parts}
  BY DEF Needs
<1>2. Unasked(command) = {<<"ffmpeg", p[1], p[2]>> : p \in {q \in command.parts : q[1] # "encoder"}}
  BY DEF Unasked
<1>3. ASSUME NEW p \in command.parts, p[1] = "encoder"
      PROVE  p = <<"encoder", s.encoder>>
  BY <1>3 DEF FfmpegParts
<1>4. ASSUME NEW n \in Needs(command), n \notin Unasked(command), n # <<"ffmpeg">>
      PROVE  n = <<"ffmpeg", "encoder", s.encoder>>
  <2>1. PICK p \in command.parts : n = <<"ffmpeg", p[1], p[2]>>
    BY <1>1, <1>4
  <2>2. p[1] = "encoder"
    BY <1>2, <1>4, <2>1
  <2>3. p[1] = "encoder" /\ p[2] = s.encoder
    BY <1>3, <2>2
  <2>4. QED
    BY <2>1, <2>3
<1>5. QED
  BY <1>4 DEF InspectedFfmpeg

\* What a command needs of the machine is what the preflight inspects, but for
\* the parts of FFmpeg which it does not ask for.
LEMMA NeedsAreInspected ==
    ASSUME NEW s \in Settings, NEW c
    PROVE  Needs(Command(s, c)) \ Unasked(Command(s, c)) \subseteq Inspected(s, c)
<1>1. CASE c = "ros-preview"
  <2>1. Needs(FfmpegPreview(s)) \ Unasked(FfmpegPreview(s)) \subseteq InspectedFfmpeg(s)
    <3> DEFINE output == {<<"bsf", "dump_extra">>, <<"bsf", "h264_metadata">>, <<"muxer", "h264">>}
    <3>1. /\ FfmpegPreview(s).program = "ffmpeg"
          /\ FfmpegPreview(s).parts = FfmpegParts(s, {"scale"}, output)
      BY DEF FfmpegPreview
    <3>2. \A p \in output : p[1] # "encoder"
      OBVIOUS
    <3> HIDE DEF output
    <3>3. QED
      BY <3>1, <3>2, FfmpegNeeds
  <2>2. QED
    BY <1>1, <2>1 DEF Command, Inspected
<1>2. CASE c # "ros-preview" /\ s.backend = "ffmpeg"
  <2>1. Needs(FfmpegRtp(s)) \ Unasked(FfmpegRtp(s)) \subseteq InspectedFfmpeg(s)
    <3> DEFINE filters == IF s.videoFilter = {} THEN {"scale", "pad"} ELSE s.videoFilter
               output == {<<"muxer", "rtp">>, <<"protocol", "rtp">>}
    <3>1. FfmpegRtp(s).program = "ffmpeg" /\ FfmpegRtp(s).parts = FfmpegParts(s, filters, output)
      BY DEF FfmpegRtp
    <3>2. \A p \in output : p[1] # "encoder"
      OBVIOUS
    <3> HIDE DEF filters, output
    <3>3. QED
      BY <3>1, <3>2, FfmpegNeeds
  <2>2. QED
    BY <1>2, <2>1 DEF Command, Inspected
<1>3. CASE c # "ros-preview" /\ s.backend # "ffmpeg"
  <2> DEFINE jpeg == s.input = "jpeg"
             decoder == IF jpeg THEN Properties(s.jpegDecoder, s.decoderProperties, RtpOutput(s))
                        ELSE <<>>
             converter == Properties(s.converter, s.converterProperties, RtpOutput(s))
             encoder == Properties(s.h264Encoder, s.encoderProperties, RtpOutput(s))
             elements == {"fdsrc", s.converter, s.scaler, s.h264Encoder, "h264parse",
                          "rtph264pay", "udpsink"}
                         \cup (IF jpeg THEN {s.jpegParser, s.jpegDecoder} ELSE {"rawvideoparse"})
             names == (IF jpeg THEN Named(s.jpegDecoder, s.decoderProperties) ELSE {})
                      \cup Named(s.converter, s.converterProperties)
                      \cup Named(s.h264Encoder, s.encoderProperties)
  <2>1. /\ s.jpegDecoder \in STRING /\ s.converter \in STRING /\ s.h264Encoder \in STRING
        /\ s.decoderProperties \in Seq(STRING \X STRING)
        /\ s.converterProperties \in Seq(STRING \X STRING)
        /\ s.encoderProperties \in Seq(STRING \X STRING)
    BY DEF Settings
  <2>2. decoder \in Seq(Argument) /\ converter \in Seq(Argument) /\ encoder \in Seq(Argument)
    BY <2>1, PropertiesAreArguments, EmptySeq
  <2>3. \A a \in ToSet(decoder) \cup ToSet(converter) \cup ToSet(encoder) :
            <<"gst-launch-1.0", a[1], a[2]>> \in names
    <3>1. ToSet(<< >>) = {}
      BY DEF ToSet
    <3>2. QED
      BY <2>1, <3>1, NamesOfProperties
  <2>4. /\ GStreamerRtp(s).program = "gst-launch-1.0"
        /\ GStreamerRtp(s).parts = {<<"element", e>> : e \in elements}
        /\ GStreamerRtp(s).arguments = decoder \o converter \o encoder
    BY DEF GStreamerRtp
  <2>5. /\ <<"gst-launch-1.0">> \in InspectedGStreamer(s)
        /\ \A e \in elements : <<"gst-launch-1.0", "element", e>> \in InspectedGStreamer(s)
    BY DEF InspectedGStreamer
  <2>6. names \subseteq InspectedGStreamer(s)
    <3> DEFINE Of(element, properties) == {<<element, p[1]>> : p \in ToSet(properties)}
               all == (IF jpeg THEN Of(s.jpegDecoder, s.decoderProperties) ELSE {})
                      \cup Of(s.converter, s.converterProperties)
                      \cup Of(s.h264Encoder, s.encoderProperties)
    <3>1. ASSUME NEW element, NEW properties, Of(element, properties) \subseteq all
          PROVE  Named(element, properties) \subseteq {<<"gst-launch-1.0", p[1], p[2]>> : p \in all}
      <4>1. SUFFICES ASSUME NEW q \in ToSet(properties)
                     PROVE  \E p \in all : <<"gst-launch-1.0", element, q[1]>>
                                             = <<"gst-launch-1.0", p[1], p[2]>>
        BY DEF Named
      <4>2. <<element, q[1]>> \in all
        BY <3>1
      <4>3. QED
        BY <4>2
    <3>2. {<<"gst-launch-1.0", p[1], p[2]>> : p \in all} \subseteq InspectedGStreamer(s)
      BY DEF InspectedGStreamer
    <3> HIDE DEF all
    <3>3. /\ jpeg => Named(s.jpegDecoder, s.decoderProperties) \subseteq InspectedGStreamer(s)
          /\ Named(s.converter, s.converterProperties) \subseteq InspectedGStreamer(s)
          /\ Named(s.h264Encoder, s.encoderProperties) \subseteq InspectedGStreamer(s)
      <4>1. /\ jpeg => Of(s.jpegDecoder, s.decoderProperties) \subseteq all
            /\ Of(s.converter, s.converterProperties) \subseteq all
            /\ Of(s.h264Encoder, s.encoderProperties) \subseteq all
        BY DEF all
      <4> HIDE DEF Of, jpeg
      <4>2. QED
        BY <3>1, <3>2, <4>1
    <3>4. QED
      BY <3>3
  <2> HIDE DEF decoder, converter, encoder, elements, names
  <2>7. ToSet(decoder \o converter \o encoder) \subseteq
            ToSet(decoder) \cup ToSet(converter) \cup ToSet(encoder)
    <3>1. decoder \o converter \in Seq(Argument)
      BY <2>2, ConcatProperties
    <3>2. QED
      BY <2>2, <3>1, ConcatenationHolds
  <2>8. Needs(GStreamerRtp(s)) \subseteq InspectedGStreamer(s)
    BY <2>3, <2>4, <2>5, <2>6, <2>7 DEF Needs
  <2>9. QED
    BY <1>3, <2>8 DEF Command, Inspected
<1>4. QED
  BY <1>1, <1>2, <1>3

\* By the format and the size that it names, every command takes what the pump
\* writes for an image.
LEMMA CommandTakes ==
    ASSUME NEW s, NEW c, s.input \in DOMAIN RawInputs \cup {"jpeg"}
    PROVE  Takes(Command(s, c)) = PackedFrameBytes(s)
<1>1. CASE s.input = "jpeg"
  <2>1. Command(s, c).reads.pixels = "jpeg"
    BY <1>1 DEF Command, FfmpegPreview, FfmpegRtp, GStreamerRtp, FfmpegReads, Reads
  <2>2. QED
    BY <1>1, <2>1 DEF Takes, PackedFrameBytes
<1>2. CASE s.input # "jpeg"
  <2> DEFINE format == RawInputs[s.input]
  <2>1. s.input \in {"rgb8", "bgr8", "rgba8", "bgra8", "mono8"}
    BY <1>2 DEF RawInputs
  <2>2. \A i \in {1, 2} : format[i] # "jpeg" /\ PixelBytes[format[i]] = format[3]
    BY <2>1 DEF RawInputs, PixelBytes
  <2>3. PICK i \in {1, 2} :
            Command(s, c).reads = [pixels |-> format[i], width |-> s.width, height |-> s.height]
    BY <1>2 DEF Command, FfmpegPreview, FfmpegRtp, GStreamerRtp, FfmpegReads, Reads
  <2> HIDE DEF format
  <2>4. Takes(Command(s, c)) = s.width * s.height * format[3]
    BY <2>2, <2>3 DEF Takes
  <2>5. QED
    BY <1>2, <2>4 DEF PackedFrameBytes, format
<1>3. QED
  BY <1>1, <1>2

\* A child runs the command of the settings, and the preflight looked for what it
\* needs.
CommandInv ==
    \A c \in Channels : child[c] # NoChild =>
        child[c] = Command(settings, c) /\ Inspected(settings, c) \subseteq tools

\* What runs was launched from the settings in force.
LEMMA StepKeepsCommand ==
    ASSUME PlaceTypes, SettingsTypes, ReadyInv, CommandInv, [Next]_vars
    PROVE  CommandInv'
<1> USE DEF PlaceTypes, ReadyInv, CommandInv, Channels, Both, Rtp, Preview, vars, machine,
            mainVars, stopVars, nativeVars, runtimeVars, rosVars
<1>1. CASE ReadParameters
  BY <1>1 DEF ReadParameters, Goes
<1>2. CASE Preflight
  BY <1>2 DEF Preflight, Goes, Undone, Stops
<1>3. CASE PrepareDirectory
  BY <1>3 DEF PrepareDirectory, Goes, Undone, Stops
<1>4. CASE CreateControl
  BY <1>4 DEF CreateControl, Goes
<1>5. CASE Listen
  BY <1>5 DEF Listen, Goes
<1>6. CASE StartFails
  BY <1>6 DEF StartFails, Stops
<1>7. ASSUME NEW c \in Channels, StartPump(c)
      PROVE  CommandInv'
  BY <1>7 DEF StartPump
<1>8. CASE RegisterHook
  BY <1>8 DEF RegisterHook, Goes, Stops
<1>9. CASE Subscribe
  BY <1>9 DEF Subscribe, Goes, Undone, Stops
<1>10. CASE LoopEnds
  BY <1>10 DEF LoopEnds, Goes, Stops
<1>11. CASE AttemptReturns
  BY <1>11 DEF AttemptReturns, Goes, Stops, Done, Attempted, AfterFailedAttempt
<1>12. CASE Exit
  BY <1>12 DEF Exit, Goes
<1>13. ASSUME NEW t \in Threads, StopBegins(t)
      PROVE  CommandInv'
  BY <1>13 DEF StopBegins, NothingToStop, Attempted
<1>14. ASSUME NEW t \in Threads, StopNative(t)
      PROVE  CommandInv'
  BY <1>14 DEF StopNative, Joined, Quiet, Attempted
<1>15. ASSUME NEW t \in Threads, StopNativeFails(t)
      PROVE  CommandInv'
  BY SMTT(30), <1>15 DEF StopNativeFails, Quiet, Attempted, AfterFailedAttempt
<1>16. ASSUME NEW t \in Threads, StopReleases(t)
      PROVE  CommandInv'
  BY <1>16 DEF StopReleases, Attempted
<1>17. ASSUME NEW t \in Threads, StopReleaseFails(t)
      PROVE  CommandInv'
  BY <1>17 DEF StopReleaseFails, Attempted, AfterFailedAttempt
<1>18. ASSUME NEW t \in Threads, SignalShutdown(t)
      PROVE  CommandInv'
  BY <1>18 DEF SignalShutdown, Stops
<1>19. ASSUME NEW t \in Threads, HooksReturn(t)
      PROVE  CommandInv'
  BY <1>19 DEF HooksReturn, Done
<1>20. CASE SetRtp
  BY <1>20 DEF SetRtp, Launches, LaunchFails, AfterFailedStart, StartWaits, MayStart,
               Deactivates, DeactivateFails, Quiet
<1>21. CASE Configure
  <2>1. /\ settings'.preview = settings.preview
        /\ Command(settings', Preview) = Command(settings, Preview)
        /\ Inspected(settings', Preview) = Inspected(settings, Preview)
    BY <1>21, ConfigureKeeps DEF SettingsTypes
  <2>2. child[Rtp] = NoChild /\ UNCHANGED <<child, tools>>
    BY <1>21 DEF Configure, Idle
  <2>3. QED
    BY <2>1, <2>2 DEF Channels
<1>22. ASSUME NEW c \in Channels, PumpStep(c)
      PROVE  CommandInv'
  BY <1>22 DEF PumpStep, Deactivates, DeactivateFails, Quiet
<1>23. ASSUME NEW c \in Channels, ChildDies(c)
      PROVE  CommandInv'
  BY <1>23 DEF ChildDies
<1>24. CASE SubscriberComesOrLeaves
  BY <1>24 DEF SubscriberComesOrLeaves
<1>25. CASE TimerChecks
  BY <1>25 DEF TimerChecks, Demand
<1>26. CASE TimerSets
  <2>1. timer # "none" /\ UNCHANGED <<settings, tools>>
    BY <1>26 DEF TimerSets
  <2>2. \A c \in Channels : Inspected(settings, c) \subseteq tools
    BY <2>1 DEF ReadyInv
  <2>3. \/ child' = [child EXCEPT ![Preview] = Command(settings, Preview)]
        \/ child' = [child EXCEPT ![Preview] = child[Preview]]
        \/ child' \in {child, [child EXCEPT ![Preview] = NoChild]}
    BY <1>26 DEF TimerSets, Launches, LaunchFails, AfterFailedStart, StartRefused, StartUnchanged,
               StartWaits, MayStart, Deactivates, DeactivateFails
  <2>4. QED
    BY <2>1, <2>2, <2>3
<1>27. CASE ReaderChecks
  BY <1>27 DEF ReaderChecks
<1>28. CASE ReaderPublishes
  BY <1>28 DEF ReaderPublishes
<1>29. CASE RtpRestarts
  <2>1. active # {} /\ UNCHANGED <<settings, tools>>
    BY <1>29 DEF RtpRestarts, Restarts, RestartFails, SettingsTypes
  <2>2. child' \in {[child EXCEPT ![Rtp] = NoChild], [child EXCEPT ![Rtp] = child[Rtp]],
                    [child EXCEPT ![Rtp] = Command(settings, Rtp)]}
    BY <1>29 DEF RtpRestarts, Restarts, RestartFails, AfterFailedStart
  <2>3. QED
    BY <2>1, <2>2
<1>30. CASE TimerRestarts
  BY <1>30 DEF TimerRestarts, Restarts, RestartFails, AfterFailedStart, Quiet
<1>31. CASE UNCHANGED vars
  BY <1>31
<1>32. QED
  BY <1>1, <1>2, <1>3, <1>4, <1>5, <1>6, <1>7, <1>8, <1>9, <1>10, <1>11, <1>12, <1>13, <1>14,
     <1>15, <1>16, <1>17, <1>18, <1>19, <1>20, <1>21, <1>22, <1>23, <1>24, <1>25, <1>26, <1>27,
     <1>28, <1>29, <1>30, <1>31 DEF Next, Main, ShutdownStep, StopAttempt, ChannelStep, PreviewStep

\* Only configure() changes the settings, and only ReadParameters leads from
\* outside to where the node is built.
OnlyConfigure ==
    \/ Configure /\ main' = main
    \/ settings' = settings /\ (main \in Outside /\ main' \notin Outside => ReadParameters)

LEMMA OnlyConfigureChanges ==
    ASSUME [Next]_vars
    PROVE  OnlyConfigure
<1> USE DEF OnlyConfigure, Outside, vars, machine, mainVars, stopVars, nativeVars, runtimeVars, rosVars
<1>1. CASE ReadParameters
  BY <1>1 DEF ReadParameters, Goes
<1>2. CASE Preflight
  BY <1>2 DEF Preflight, Goes, Undone, Stops
<1>3. CASE PrepareDirectory
  BY <1>3 DEF PrepareDirectory, Goes, Undone, Stops
<1>4. CASE CreateControl
  BY <1>4 DEF CreateControl, Goes
<1>5. CASE Listen
  BY <1>5 DEF Listen, Goes
<1>6. CASE StartFails
  BY <1>6 DEF StartFails, Stops
<1>7. ASSUME NEW c \in Channels, StartPump(c)
      PROVE  OnlyConfigure
  BY <1>7 DEF StartPump
<1>8. CASE RegisterHook
  BY <1>8 DEF RegisterHook, Goes, Stops
<1>9. CASE Subscribe
  BY <1>9 DEF Subscribe, Goes, Undone, Stops
<1>10. CASE LoopEnds
  BY <1>10 DEF LoopEnds, Goes, Stops
<1>11. CASE AttemptReturns
  BY <1>11 DEF AttemptReturns, Goes, Stops, Done, Attempted, AfterFailedAttempt
<1>12. CASE Exit
  BY <1>12 DEF Exit, Goes
<1>13. ASSUME NEW t \in Threads, StopBegins(t)
      PROVE  OnlyConfigure
  BY <1>13 DEF StopBegins, NothingToStop, Attempted
<1>14. ASSUME NEW t \in Threads, StopNative(t)
      PROVE  OnlyConfigure
  BY <1>14 DEF StopNative, Joined, Quiet, Attempted
<1>15. ASSUME NEW t \in Threads, StopNativeFails(t)
      PROVE  OnlyConfigure
  BY <1>15 DEF StopNativeFails, Quiet, Attempted, AfterFailedAttempt
<1>16. ASSUME NEW t \in Threads, StopReleases(t)
      PROVE  OnlyConfigure
  BY <1>16 DEF StopReleases, Attempted
<1>17. ASSUME NEW t \in Threads, StopReleaseFails(t)
      PROVE  OnlyConfigure
  BY <1>17 DEF StopReleaseFails, Attempted, AfterFailedAttempt
<1>18. ASSUME NEW t \in Threads, SignalShutdown(t)
      PROVE  OnlyConfigure
  BY <1>18 DEF SignalShutdown, Stops
<1>19. ASSUME NEW t \in Threads, HooksReturn(t)
      PROVE  OnlyConfigure
  BY <1>19 DEF HooksReturn, Done
<1>20. CASE SetRtp
  BY <1>20 DEF SetRtp, Launches, LaunchFails, AfterFailedStart, StartWaits, MayStart,
               Deactivates, DeactivateFails, Quiet
<1>21. CASE Configure
  BY <1>21 DEF Configure, Idle
<1>22. ASSUME NEW c \in Channels, PumpStep(c)
      PROVE  OnlyConfigure
  BY <1>22 DEF PumpStep, Deactivates, DeactivateFails, Quiet
<1>23. ASSUME NEW c \in Channels, ChildDies(c)
      PROVE  OnlyConfigure
  BY <1>23 DEF ChildDies
<1>24. CASE SubscriberComesOrLeaves
  BY <1>24 DEF SubscriberComesOrLeaves
<1>25. CASE TimerChecks
  BY <1>25 DEF TimerChecks, Demand
<1>26. CASE TimerSets
  BY <1>26 DEF TimerSets, Launches, LaunchFails, AfterFailedStart, StartRefused, StartUnchanged,
               StartWaits, MayStart, Deactivates, DeactivateFails, Quiet
<1>27. CASE ReaderChecks
  BY <1>27 DEF ReaderChecks
<1>28. CASE ReaderPublishes
  BY <1>28 DEF ReaderPublishes
<1>29. CASE RtpRestarts
  BY <1>29 DEF RtpRestarts, Restarts, RestartFails, AfterFailedStart, Quiet
<1>30. CASE TimerRestarts
  BY <1>30 DEF TimerRestarts, Restarts, RestartFails, AfterFailedStart, Quiet
<1>31. CASE UNCHANGED vars
  BY <1>31
<1>32. QED
  BY <1>1, <1>2, <1>3, <1>4, <1>5, <1>6, <1>7, <1>8, <1>9, <1>10, <1>11, <1>12, <1>13, <1>14,
     <1>15, <1>16, <1>17, <1>18, <1>19, <1>20, <1>21, <1>22, <1>23, <1>24, <1>25, <1>26, <1>27,
     <1>28, <1>29, <1>30, <1>31 DEF Next, Main, ShutdownStep, StopAttempt, ChannelStep, PreviewStep

\* The input of the settings stays valid.
LEMMA StepKeepsInput ==
    ASSUME SettingsTypes, InputInv, [Next]_vars
    PROVE  InputInv'
<1>1. CASE Configure /\ main' = main
  <2>1. settings'.input = settings.input
    BY <1>1, ConfigureKeeps DEF SettingsTypes
  <2>2. QED
    BY <1>1, <2>1 DEF InputInv
<1>2. CASE ReadParameters
  <2>1. ASSUME Valid(settings)
        PROVE  settings.input \in DOMAIN RawInputs \cup {"jpeg"}
    <3>1. settings.input \in STRING
      BY DEF SettingsTypes, Settings
    <3>2. QED
      BY <2>1, <3>1 DEF Valid
  <2>2. settings' = settings /\ (main' = "leave" \/ Valid(settings))
    BY <1>2 DEF ReadParameters, Goes
  <2>3. QED
    BY <2>1, <2>2 DEF InputInv, Outside
<1>3. CASE settings' = settings /\ ~(main \in Outside /\ main' \notin Outside)
  BY <1>3 DEF InputInv
<1>4. QED
  BY <1>1, <1>2, <1>3, OnlyConfigureChanges DEF OnlyConfigure

-----------------------------------------------------------------------------
IInv ==
    /\ FlagTypes /\ PlaceTypes /\ SettingsTypes
    /\ StartInv /\ AttemptInv /\ HookInv /\ PreviewInv
    /\ ReadyInv /\ CommandInv /\ InputInv

\* The invariant holds at the start.
LEMMA InitEstablishes == Init => IInv
<1> SUFFICES ASSUME Init PROVE IInv
  OBVIOUS
<1> USE DEF Init
<1>1. FlagTypes
  BY DEF FlagTypes
<1>2. PlaceTypes
  BY DEF PlaceTypes, Positions, Early, Both, Threads
<1>3. SettingsTypes
  BY NodeConstants DEF SettingsTypes
<1>4. StartInv
  BY DEF StartInv, NothingRuns, Both
<1>5. AttemptInv
  BY DEF AttemptInv, Threads, Early
<1>6. HookInv
  BY DEF HookInv, Early
<1>7. PreviewInv
  BY DEF PreviewInv, Rtp, Preview
<1>8. ReadyInv
  BY DEF ReadyInv, Both
<1>9. CommandInv
  BY DEF CommandInv, Channels
<1>10. InputInv
  BY DEF InputInv, Outside
<1>11. QED
  BY <1>1, <1>2, <1>3, <1>4, <1>5, <1>6, <1>7, <1>8, <1>9, <1>10 DEF IInv

\* The inductive invariant holds in every state.
LEMMA Invariant == Spec => []IInv
<1>1. IInv /\ [Next]_vars => IInv'
  <2> SUFFICES ASSUME IInv, [Next]_vars PROVE IInv'
    OBVIOUS
  <2> USE DEF IInv
  <2>1. PlaceTypes'
    BY StepKeepsPlaces
  <2>2. FlagTypes' /\ SettingsTypes'
    BY StepKeepsFlags, StepKeepsSettings
  <2>3. AttemptInv' /\ HookInv' /\ StartInv'
    BY <2>1, StepKeepsAttempts, StepKeepsHooks, StepKeepsStart
  <2>4. PreviewInv' /\ ReadyInv'
    BY <2>1, StepKeepsPreview, StepKeepsReady
  <2>5. CommandInv' /\ InputInv'
    BY StepKeepsCommand, StepKeepsInput
  <2>6. QED
    BY <2>1, <2>2, <2>3, <2>4, <2>5
<1>2. QED
  BY <1>1, InitEstablishes, PTL DEF Spec

\* Types (the variables of runtime.py and of the nodes).
THEOREM NodeTypeCorrect == Spec => []TypeOK
<1>1. IInv => TypeOK
  BY DEF IInv, FlagTypes, PlaceTypes, SettingsTypes, Both, TypeOK
<1>2. QED
  BY <1>1, Invariant, PTL

\* ROS does not take the publisher of the preview down while the reader may use
\* it, whoever shuts ROS down and whatever fails (finish_shutdown, the hook).
THEOREM PublisherIsLast == Spec => []PublisherOutlivesPreview
<1>1. IInv => PublisherOutlivesPreview
  BY DEF IInv, StartInv, HookInv, PreviewInv, NothingRuns, Both, PublisherOutlivesPreview
<1>2. QED
  BY <1>1, Invariant, PTL

\* The process ends without a child, a pump or an endpoint, whichever step of its
\* construction or of its shutdown failed (main in node.py and ros1_node.py).
THEOREM ProcessEndsClean == Spec => []ExitLeavesNothing
<1>1. IInv => ExitLeavesNothing
  BY DEF IInv, StartInv, NothingRuns, Both, Channels, ExitLeavesNothing
<1>2. QED
  BY <1>1, Invariant, PTL

\* A child runs the command of the settings in force; what the preflight asks for
\* was found, which for GStreamer is all that the command names; and the child
\* takes for an image what the pump writes: for all settings, tools and changes.
THEOREM ChildrenMatchSettings == Spec => []ChildIsAsConfigured
<1>1. IInv => ChildIsAsConfigured
  <2> SUFFICES ASSUME IInv, NEW c \in Channels, child[c] # NoChild
               PROVE  /\ child[c] = Command(settings, c)
                      /\ Needs(child[c]) \ Unasked(child[c]) \subseteq tools
                      /\ Takes(child[c]) = PackedFrameBytes(settings)
    BY DEF ChildIsAsConfigured
  <2>1. child[c] = Command(settings, c) /\ Inspected(settings, c) \subseteq tools
    BY DEF IInv, CommandInv
  <2>2. Needs(Command(settings, c)) \ Unasked(Command(settings, c)) \subseteq Inspected(settings, c)
    BY NeedsAreInspected DEF IInv, SettingsTypes
  <2>3. main \notin Outside
    BY DEF IInv, StartInv, NothingRuns, Outside, Both, Channels
  <2>4. Takes(Command(settings, c)) = PackedFrameBytes(settings)
    BY <2>3, CommandTakes DEF IInv, InputInv
  <2>5. QED
    BY <2>1, <2>2, <2>4
<1>2. QED
  BY <1>1, Invariant, PTL

-----------------------------------------------------------------------------
\* A marker whose value the change from s to d moves.
Moves(text, s, d) ==
    \/ text = "@bitrate" /\ d.bitrate # s.bitrate
    \/ text = "@bitrate_kbps" /\ Kbps(d.bitrate) # Kbps(s.bitrate)

\* Such a marker is replaced by another value.
LEMMA MarkerFollowsBitrate ==
    ASSUME NEW s \in Settings, NEW d \in Settings, NEW text, Moves(text, s, d)
    PROVE  MarkerValue(text, RtpOutput(d)) # MarkerValue(text, RtpOutput(s))
BY DEF Moves, MarkerValue, RtpOutput

\* Two settings that agree on everything an encoder's arguments are built from,
\* except the bitrate.
SameProfile(s, d) ==
    /\ d.backend = s.backend /\ d.encoder = s.encoder /\ d.arguments = s.arguments
    /\ d.input = s.input /\ d.fps = s.fps
    /\ d.jpegDecoder = s.jpegDecoder /\ d.decoderProperties = s.decoderProperties
    /\ d.converter = s.converter /\ d.converterProperties = s.converterProperties
    /\ d.h264Encoder = s.h264Encoder /\ d.encoderProperties = s.encoderProperties

\* _ffmpeg_codec_arguments, with the default profile or with a marker.
LEMMA FfmpegFollowsBitrate ==
    ASSUME NEW s \in Settings, NEW d \in Settings, SameProfile(s, d),
           d.bitrate # s.bitrate,
           s.arguments = <<>> \/ \E text \in ToSet(s.arguments) : Moves(text, s, d)
    PROVE  CodecArguments(d, RtpOutput(d)) # CodecArguments(s, RtpOutput(s))
<1>1. d.bitrate # s.bitrate
  OBVIOUS
<1>2. RtpOutput(s).bitrate = s.bitrate /\ RtpOutput(d).bitrate = d.bitrate
  BY DEF RtpOutput
<1>3. CASE s.arguments = << >>
  <2> DEFINE made(x) == CodecArguments(x, RtpOutput(x))
             place == IF s.encoder = "libx264" THEN 3
                      ELSE IF s.encoder = "h264_nvenc" THEN 4 ELSE 1
  <2>1. d.arguments = << >> /\ d.encoder = s.encoder
    BY <1>3 DEF SameProfile
  <2>2. CASE s.encoder = "libx264"
    <3>1. made(s)[3][4] = s.bitrate /\ made(d)[3][4] = d.bitrate
      BY <1>2, <1>3, <2>1, <2>2 DEF CodecArguments
    <3>2. QED
      BY <1>1, <3>1
  <2>3. CASE s.encoder = "h264_nvenc"
    <3>1. made(s)[4][4] = s.bitrate /\ made(d)[4][4] = d.bitrate
      BY <1>2, <1>3, <2>1, <2>3 DEF CodecArguments
    <3>2. QED
      BY <1>1, <3>1
  <2>4. CASE s.encoder \notin {"libx264", "h264_nvenc"}
    <3>1. made(s)[1][4] = s.bitrate /\ made(d)[1][4] = d.bitrate
      BY <1>2, <1>3, <2>1, <2>4 DEF CodecArguments
    <3>2. QED
      BY <1>1, <3>1
  <2>5. QED
    BY <2>2, <2>3, <2>4
<1>4. CASE s.arguments # << >>
  <2>1. PICK i \in DOMAIN s.arguments : Moves(s.arguments[i], s, d)
    BY <1>4 DEF ToSet
  <2>2. d.arguments = s.arguments
    BY DEF SameProfile
  <2>3. /\ CodecArguments(s, RtpOutput(s))[i][4] = MarkerValue(s.arguments[i], RtpOutput(s))
        /\ CodecArguments(d, RtpOutput(d))[i][4] = MarkerValue(s.arguments[i], RtpOutput(d))
    BY <1>4, <2>2 DEF CodecArguments
  <2>4. QED
    BY <2>1, <2>3, MarkerFollowsBitrate
<1>5. QED
  BY <1>3, <1>4

\* The arguments of gst-launch before those of the H.264 encoder.
FrontOf(s) ==
    (IF s.input = "jpeg" THEN Properties(s.jpegDecoder, s.decoderProperties, RtpOutput(s))
     ELSE << >>)
    \o Properties(s.converter, s.converterProperties, RtpOutput(s))

FrontLength(s) ==
    (IF s.input = "jpeg" THEN Len(s.decoderProperties) ELSE 0) + Len(s.converterProperties)

\* The properties of the encoder follow those of the decoder and the converter.
LEMMA EncoderComesLast ==
    ASSUME NEW s \in Settings
    PROVE  /\ FrontLength(s) \in Nat
           /\ \A i \in 1 .. Len(s.encoderProperties) :
                  GStreamerRtp(s).arguments[FrontLength(s) + i][4]
                      = MarkerValue(s.encoderProperties[i][2], RtpOutput(s))
<1> DEFINE decoder == IF s.input = "jpeg"
                      THEN Properties(s.jpegDecoder, s.decoderProperties, RtpOutput(s))
                      ELSE << >>
           converter == Properties(s.converter, s.converterProperties, RtpOutput(s))
           encoder == Properties(s.h264Encoder, s.encoderProperties, RtpOutput(s))
<1>1. /\ s.jpegDecoder \in STRING /\ s.converter \in STRING /\ s.h264Encoder \in STRING
      /\ s.decoderProperties \in Seq(STRING \X STRING)
      /\ s.converterProperties \in Seq(STRING \X STRING)
      /\ s.encoderProperties \in Seq(STRING \X STRING)
  BY DEF Settings
<1>2. GStreamerRtp(s).arguments = FrontOf(s) \o encoder /\ FrontOf(s) = decoder \o converter
  BY DEF GStreamerRtp, FrontOf
<1>3. /\ encoder \in Seq(Argument) /\ Len(encoder) = Len(s.encoderProperties)
      /\ \A i \in 1 .. Len(s.encoderProperties) :
             encoder[i][4] = MarkerValue(s.encoderProperties[i][2], RtpOutput(s))
  <2>1. /\ encoder \in Seq(Argument) /\ Len(encoder) = Len(s.encoderProperties)
        /\ \A i \in 1 .. Len(s.encoderProperties) :
               encoder[i] = <<s.h264Encoder, s.encoderProperties[i][1], s.encoderProperties[i][2],
                              MarkerValue(s.encoderProperties[i][2], RtpOutput(s))>>
    BY <1>1, PropertiesAreArguments
  <2> HIDE DEF encoder
  <2>2. QED
    BY <2>1
<1>4. /\ decoder \in Seq(Argument)
      /\ Len(decoder) = IF s.input = "jpeg" THEN Len(s.decoderProperties) ELSE 0
  <2>1. CASE s.input = "jpeg"
    <3>1. decoder = Properties(s.jpegDecoder, s.decoderProperties, RtpOutput(s))
      BY <2>1
    <3> HIDE DEF decoder
    <3>2. QED
      BY <1>1, <2>1, <3>1, PropertiesAreArguments
  <2>2. CASE s.input # "jpeg"
    BY <2>2, EmptySeq
  <2>3. QED
    BY <2>1, <2>2
<1>5. converter \in Seq(Argument) /\ Len(converter) = Len(s.converterProperties)
  BY <1>1, PropertiesAreArguments
<1> HIDE DEF decoder, converter, encoder
<1>6. FrontOf(s) \in Seq(Argument) /\ Len(FrontOf(s)) = FrontLength(s)
  <2>1. FrontOf(s) \in Seq(Argument) /\ Len(FrontOf(s)) = Len(decoder) + Len(converter)
    BY <1>2, <1>4, <1>5, ConcatProperties, ZenonT(60)
  <2>2. QED
    BY <1>4, <1>5, <2>1 DEF FrontLength
<1>7. FrontLength(s) \in Nat
  BY <1>6, LenProperties
<1>8. ASSUME NEW i \in 1 .. Len(s.encoderProperties)
      PROVE  (FrontOf(s) \o encoder)[FrontLength(s) + i] = encoder[i]
  <2>1. Len(encoder) \in Nat /\ i \in 1 .. Len(encoder)
    BY <1>3, LenProperties
  <2>2. FrontLength(s) + i \in 1 .. Len(FrontOf(s)) + Len(encoder)
    BY <1>6, <1>7, <2>1
  <2>3. (FrontOf(s) \o encoder)[FrontLength(s) + i] = encoder[FrontLength(s) + i - Len(FrontOf(s))]
    BY <1>3, <1>6, <1>7, <2>1, <2>2, ConcatProperties, SMTT(30)
  <2>4. QED
    BY <1>6, <1>7, <2>1, <2>3
<1>9. QED
  BY <1>2, <1>3, <1>7, <1>8

\* The arguments of gst-launch follow the bitrate through a property of the H.264
\* encoder.
LEMMA GStreamerFollowsBitrate ==
    ASSUME NEW s \in Settings, NEW d \in Settings, SameProfile(s, d),
           \E p \in ToSet(s.encoderProperties) : Moves(p[2], s, d)
    PROVE  GStreamerRtp(d).arguments # GStreamerRtp(s).arguments
<1>1. s.encoderProperties \in Seq(STRING \X STRING)
  BY DEF Settings
<1>2. PICK i \in 1 .. Len(s.encoderProperties) : Moves(s.encoderProperties[i][2], s, d)
  <2>1. DOMAIN s.encoderProperties = 1 .. Len(s.encoderProperties)
    BY <1>1, LenProperties
  <2>2. QED
    BY <2>1 DEF ToSet
<1>3. d.encoderProperties = s.encoderProperties /\ FrontLength(d) = FrontLength(s)
  BY DEF SameProfile, FrontLength
<1>4. /\ GStreamerRtp(s).arguments[FrontLength(s) + i][4]
             = MarkerValue(s.encoderProperties[i][2], RtpOutput(s))
      /\ GStreamerRtp(d).arguments[FrontLength(s) + i][4]
             = MarkerValue(s.encoderProperties[i][2], RtpOutput(d))
  BY <1>3, EncoderComesLast
<1>5. QED
  BY <1>2, <1>4, MarkerFollowsBitrate

\* configure() leaves the profile of the encoder alone.
LEMMA ConfigureKeepsProfile ==
    ASSUME settings \in Settings, Configure
    PROVE  LET before == [settings' EXCEPT !.bitrate = settings.bitrate]
           IN  /\ before \in Settings /\ settings' \in Settings
               /\ SameProfile(settings, settings') /\ SameProfile(before, settings')
               /\ before.bitrate = settings.bitrate
               /\ MayBecome(settings, settings')
<1>1. PICK p \in Ports, b \in Bitrates :
          /\ settings' = [settings EXCEPT !.port = p, !.bitrate = b]
          /\ MayBecome(settings, settings')
  BY DEF Configure
<1>2. settings' \in Settings
  BY ConfigureKeeps
<1>3. [settings' EXCEPT !.bitrate = settings.bitrate] \in Settings
  BY <1>2, ZenonT(60) DEF Settings
<1>4. SameProfile(settings, settings')
  BY <1>1 DEF Settings, SameProfile
<1>5. SameProfile([settings' EXCEPT !.bitrate = settings.bitrate], settings')
  BY <1>2 DEF Settings, SameProfile
<1>6. [settings' EXCEPT !.bitrate = settings.bitrate].bitrate = settings.bitrate
  BY <1>2 DEF Settings
<1>7. QED
  BY <1>1, <1>2, <1>3, <1>4, <1>5, <1>6

\* A marker among the values of the profile, if its value moves, makes another
\* command, and so does any change under the default profile of FFmpeg.
LEMMA CommandFollowsBitrate ==
    ASSUME NEW s \in Settings, NEW d \in Settings, SameProfile(s, d),
           d.bitrate # s.bitrate,
           \/ s.backend = "ffmpeg" /\ s.arguments = <<>>
           \/ \E text \in ProfileValues(s) : Moves(text, s, d)
    PROVE  Command(d, Rtp) # Command(s, Rtp)
<1>1. CASE s.backend = "ffmpeg"
  <2>1. Command(s, Rtp) = FfmpegRtp(s) /\ Command(d, Rtp) = FfmpegRtp(d)
    BY <1>1 DEF Command, Rtp, SameProfile
  <2>2. CodecArguments(d, RtpOutput(d)) # CodecArguments(s, RtpOutput(s))
    BY <1>1, FfmpegFollowsBitrate DEF ProfileValues
  <2>3. FfmpegRtp(d).arguments # FfmpegRtp(s).arguments
    BY <2>2 DEF FfmpegRtp
  <2>4. QED
    BY <2>1, <2>3
<1>2. CASE s.backend # "ffmpeg"
  <2>1. Command(s, Rtp) = GStreamerRtp(s) /\ Command(d, Rtp) = GStreamerRtp(d)
    BY <1>2 DEF Command, Rtp, SameProfile
  <2>2. \E p \in ToSet(s.encoderProperties) : Moves(p[2], s, d)
    BY <1>2 DEF ProfileValues
  <2>3. GStreamerRtp(d).arguments # GStreamerRtp(s).arguments
    BY <2>2, GStreamerFollowsBitrate
  <2>4. QED
    BY <2>1, <2>3
<1>3. QED
  BY <1>1, <1>2

Exceptions ==
    \/ /\ settings.quoted # {}
       /\ ProfileValues(settings) \cap {"@bitrate", "@bitrate_kbps"} = {}
    \/ /\ "@bitrate_kbps" \in ProfileValues(settings)
       /\ Kbps(settings'.bitrate) = Kbps(settings.bitrate)

\* A change of the bitrate that configure() accepts is in the command of the next
\* child, for all settings, or is one of the two that the property names
\* (mutable_configuration_fields against _build_command).
THEOREM BitrateIsNotIgnored == Spec => BitrateReachesChild
<1> DEFINE before == [settings' EXCEPT !.bitrate = settings.bitrate]
<1>1. ASSUME settings \in Settings, Configure, settings'.bitrate # settings.bitrate, ~Exceptions
      PROVE  Command(settings', Rtp) # Command(before, Rtp)
  <2>1. /\ before \in Settings /\ settings' \in Settings
        /\ SameProfile(settings, settings') /\ SameProfile(before, settings')
        /\ before.bitrate = settings.bitrate /\ MayBecome(settings, settings')
    BY <1>1, ConfigureKeepsProfile
  <2> HIDE DEF before
  <2>2. /\ before.backend = settings.backend /\ before.arguments = settings.arguments
        /\ ProfileValues(before) = ProfileValues(settings)
    BY <2>1 DEF SameProfile, ProfileValues
  <2>3. BitrateMutable(settings)
    BY <1>1, <2>1 DEF MayBecome
  <2>4. \/ before.backend = "ffmpeg" /\ before.arguments = <<>>
        \/ \E text \in ProfileValues(before) : Moves(text, before, settings')
    <3>1. CASE settings.backend = "ffmpeg" /\ settings.arguments = <<>>
      BY <2>2, <3>1
    <3>2. CASE "@bitrate" \in ProfileValues(settings)
      BY <1>1, <2>1, <2>2, <3>2 DEF Moves
    <3>3. CASE "@bitrate_kbps" \in ProfileValues(settings)
      BY <1>1, <2>1, <2>2, <3>3 DEF Moves, Exceptions
    <3>4. QED
      BY <1>1, <2>3, <3>1, <3>2, <3>3 DEF BitrateMutable, Exceptions
  <2>5. QED
    BY <1>1, <2>1, <2>4, CommandFollowsBitrate
<1>2. IInv /\ [Next]_vars =>
          [settings'.bitrate # settings.bitrate =>
              ~SameCommand(settings', settings.bitrate) \/ Exceptions]_vars
  <2> SUFFICES ASSUME IInv, [Next]_vars, settings'.bitrate # settings.bitrate, ~Exceptions
               PROVE  ~SameCommand(settings', settings.bitrate)
    OBVIOUS
  <2>1. Configure
    BY OnlyConfigureChanges DEF OnlyConfigure
  <2>2. settings \in Settings
    BY DEF IInv, SettingsTypes
  <2>3. QED
    BY <1>1, <2>1, <2>2 DEF SameCommand
<1>3. QED
  BY <1>2, Invariant, PTL DEF Spec, BitrateReachesChild, Exceptions
================================================================================
