------------------------- MODULE EncoderChannelProofs -------------------------
(***************************************************************************)
(* Proofs about EncoderChannel for every set of clients and children and   *)
(* every depth of the queue.  The calls of the encoder are never assumed   *)
(* to be serialised here: that they are is proved, and with it what        *)
(* SubprocessEncoderProofs shows of an encoder whose calls are.            *)
(***************************************************************************)
EXTENDS EncoderChannel, SubprocessEncoderProofs, SequenceTheorems

\* Where a thread holds the transition lock, and where the channel lock.
Owning == {"enabling", "starting", "started", "undo", "undoing", "marking", "quiesce",
           "stopping", "settle"}
Holding == {"starting", "started", "undo", "undoing", "holding", "writing"}
Enabling == {"enabling", "starting", "started", "undo", "undoing"}

\* The locks are held by the threads whose place says so, a thread is in the
\* encoder call its place says, and each place belongs to one kind of thread.
PlaceInv ==
    \A t \in Threads :
        /\ transition = t <=> at[t] \in Owning
        /\ channelLock = t <=> at[t] \in Holding
        /\ call[t] = "start" <=> at[t] = "starting"
        /\ call[t] = "stop" <=> at[t] \in {"undoing", "stopping"}
        /\ call[t] = "write" <=> at[t] = "writing"
        /\ at[t] \in Enabling => t \in Clients
        /\ at[t] \in {"ready", "holding", "writing", "failed", "dead"} => t = Pump
        /\ at[t] \in {"signal", "acquire", "joining", "finished"} => t = Closer

\* The queue holds frames submitted since the channel became active, and none
\* unless it accepts frames; the writer has such a frame of an active channel.
QueueInv ==
    /\ framesIn \in 0 .. MaxFrames /\ taken \in 0 .. MaxFrames /\ since \in 0 .. framesIn
    /\ pending \in Seq(since + 1 .. framesIn)
    /\ Len(pending) <= Depth
    /\ draining \/ ~active => pending = <<>>
    /\ at[Pump] \in {"holding", "writing"} => active /\ taken > since

\* A stop is marked before it works, a start never runs under the mark, and the
\* channel only settles on an encoder that stopped.  A channel that was left
\* inactive, or marked, has an encoder that the pump cannot open again.
DrainInv ==
    /\ \A t \in Threads :
          /\ at[t] \in {"quiesce", "stopping", "settle"} => draining
          /\ at[t] \in Enabling => ~draining
          /\ at[t] = "settle" => Stopped
    /\ ~active /\ transition = None => Stopped \/ stopping
    /\ draining /\ (\A t \in Threads : at[t] # "quiesce") =>
          /\ Stopped \/ stopping
          /\ call[Pump] = "write" => Pump \notin current

\* A shutdown that has stopped the channel leaves it down until the next start.
CloseInv ==
    /\ at[Closer] # "idle" => closing
    /\ at[Closer] \in {"joining", "finished"} =>
          ~active /\ ~draining /\ Stopped /\ transition = None
    /\ at[Closer] = "finished" => at[Pump] = "dead"

-----------------------------------------------------------------------------
\* A step inside a call of the encoder ends the call, or leaves it what it was.
LEMMA InsideCall ==
    ASSUME TypeOK, NEW t \in Threads, pc[t] # "idle",
           Start(t) \/ Stop(t) \/ Restart(t) \/ Finish(t) \/ Write(t)
    PROVE  /\ pc'[t] = "idle" => call' = [call EXCEPT ![t] = "none"]
           /\ pc'[t] # "idle" => call' = call
<1> USE DEF TypeOK, Go
<1>1. CASE Start(t)
  BY <1>1 DEF Start, StartCall, StartUnchanged, StartLaunch, StartRestart, StartReturns,
              Enter, Return
<1>2. CASE Stop(t)
  BY <1>2 DEF Stop, StopCall, StopAcquire, StopTimeout, StopClear, Enter, Return
<1>3. CASE Restart(t)
  BY <1>3 DEF Restart, RestartSkip, RestartBegin, RestartSuperseded, RestartLaunch, Return
<1>4. CASE Finish(t)
  BY <1>4 DEF Finish, Terminate, Kill, Reap, DrainWriter, JoinReaders, FinishRaises,
              Return, Finishing
<1>5. CASE Write(t)
  BY <1>5 DEF Write, WriteCall, BeforeWrite, BeforeWriteRaises, WriteDone, WriteFails,
              RestartAcquire, Return
<1>6. QED
  BY <1>1, <1>2, <1>3, <1>4, <1>5

\* Nobody enters or leaves a call of the encoder in its steps.
LEMMA StepsInside ==
    ASSUME TypeOK, EncoderStep
    PROVE  call' = call
<1>1. CASE Environment
  BY <1>1 DEF Environment, ChildExits, ReaderExits, OutputFails, locals
<1>2. CASE ~Environment
  BY <1>2, InsideCall DEF EncoderStep
<1>3. QED
  BY <1>1, <1>2

\* A step of the channel is a step of its encoder, or none of it.
LEMMA ChannelStepIsStep ==
    ASSUME ChannelNext
    PROVE  [Next]_vars
<1>a. Pump \in Threads
  BY ChannelConstants DEF Threads
<1> USE <1>a
<1>1. ASSUME NEW t \in Threads, Enable(t)
      PROVE  [Next]_vars
  BY <1>1 DEF Enable, Next
<1>2. ASSUME NEW t \in Threads, EnableStart(t)
      PROVE  [Next]_vars
  BY <1>2 DEF EnableStart, Start, Next
<1>3. ASSUME NEW t \in Threads, StartDone(t)
      PROVE  [Next]_vars
  BY <1>3 DEF StartDone, Next
<1>4. ASSUME NEW t \in Threads, Activate(t)
      PROVE  [Next]_vars
  BY <1>4 DEF Activate, Next
<1>5. ASSUME NEW t \in Threads, ActivateFails(t)
      PROVE  [Next]_vars
  BY <1>5 DEF ActivateFails, Next
<1>6. ASSUME NEW t \in Threads, UndoStart(t)
      PROVE  [Next]_vars
  BY <1>6 DEF UndoStart, Stop, Next
<1>7. ASSUME NEW t \in Threads, UndoDone(t)
      PROVE  [Next]_vars
  BY <1>7 DEF UndoDone, Next
<1>8. ASSUME NEW t \in Threads, Disable(t)
      PROVE  [Next]_vars
  BY <1>8 DEF Disable, Next
<1>9. ASSUME NEW t \in Threads, AlreadyDisabled(t)
      PROVE  [Next]_vars
  BY <1>9 DEF AlreadyDisabled, Next
<1>10. ASSUME NEW t \in Threads, Mark(t)
      PROVE  [Next]_vars
  BY <1>10 DEF Mark, Next
<1>11. ASSUME NEW t \in Threads, StopNative(t)
      PROVE  [Next]_vars
  BY <1>11 DEF StopNative, Stop, Next
<1>12. ASSUME NEW t \in Threads, NativeStopped(t)
      PROVE  [Next]_vars
  BY <1>12 DEF NativeStopped, Next
<1>13. ASSUME NEW t \in Threads, Settle(t)
      PROVE  [Next]_vars
  BY <1>13 DEF Settle, Next
<1>14. ASSUME NEW t \in Threads, SettleTimeout(t)
      PROVE  [Next]_vars
  BY <1>14 DEF SettleTimeout, Next
<1>15. CASE Submit
  BY <1>15 DEF Submit, Next
<1>16. CASE PumpWakes
  BY <1>16 DEF PumpWakes, Next
<1>17. CASE PumpEnds
  BY <1>17 DEF PumpEnds, Next
<1>18. CASE PumpTakes
  BY <1>18 DEF PumpTakes, Next
<1>19. CASE PumpFindsNothing
  BY <1>19 DEF PumpFindsNothing, Next
<1>20. CASE PumpWrites
  BY <1>20 DEF PumpWrites, Write, Next
<1>21. CASE PumpWriteDropped
  BY <1>21 DEF PumpWriteDropped, Next
<1>22. CASE PumpWriteReturns
  BY <1>22 DEF PumpWriteReturns, Write, Restart, Next
<1>23. CASE PumpWriteRaises
  BY <1>23 DEF PumpWriteRaises, Write, Finish, Restart, Next
<1>24. CASE CloseBegin
  BY <1>24 DEF CloseBegin, Next
<1>25. CASE SignalPump
  BY <1>25 DEF SignalPump, Next
<1>26. CASE CloseAcquire
  BY <1>26 DEF CloseAcquire, Next
<1>27. CASE CloseTimeout
  BY <1>27 DEF CloseTimeout, Next
<1>28. CASE JoinPump
  BY <1>28 DEF JoinPump, Next
<1>29. CASE RuntimeStart
  BY <1>29 DEF RuntimeStart, Next
<1>30. CASE EncoderStep
  BY <1>30 DEF EncoderStep, Next
<1>31. QED
  BY <1>1, <1>2, <1>3, <1>4, <1>5, <1>6, <1>7, <1>8, <1>9, <1>10, <1>11, <1>12, <1>13,
     <1>14, <1>15, <1>16, <1>17, <1>18, <1>19, <1>20, <1>21, <1>22, <1>23, <1>24, <1>25,
     <1>26, <1>27, <1>28, <1>29, <1>30
  DEF ChannelNext, SetActive, Deactivate, PumpLoop, Shutdown

(***************************************************************************)
(* The encoder inside the channel is the one of SubprocessEncoder: what    *)
(* the channel does to it are calls, and every theorem about it holds.     *)
(***************************************************************************)
THEOREM ChannelIsALifecycle == ChannelSpec => Spec
<1>1. ChannelInit => Init
  BY DEF ChannelInit
<1>2. [ChannelNext]_allVars => [Next]_vars
  BY ChannelStepIsStep DEF allVars
<1>3. QED
  BY <1>1, <1>2, PTL DEF ChannelSpec, Spec

\* So it keeps its invariant.
LEMMA EncoderOfChannel == ChannelSpec => [](TypeOK /\ OwnerInv)
  BY ChannelIsALifecycle, TypeCorrect, OwnerInvariant, PTL

-----------------------------------------------------------------------------
\* The types of ChannelTypeOK that are not the queue's.
FlagTypes ==
    /\ active \in BOOLEAN /\ draining \in BOOLEAN
    /\ closing \in BOOLEAN /\ pumpStop \in BOOLEAN

LockTypes ==
    /\ transition \in Threads \cup {None}
    /\ channelLock \in Threads \cup {None}
    /\ at \in [Threads -> Places]

\* A step keeps the types of the flags.
LEMMA FlagStep ==
    ASSUME FlagTypes, ChannelNext
    PROVE  FlagTypes'
<1> USE DEF FlagTypes, flags, queue, locks, channelVars
<1>1. ASSUME NEW t \in Threads, Enable(t)
      PROVE  FlagTypes'
  BY <1>1 DEF Enable
<1>2. ASSUME NEW t \in Threads, EnableStart(t)
      PROVE  FlagTypes'
  BY <1>2 DEF EnableStart, StartCall, Enter, Go
<1>3. ASSUME NEW t \in Threads, StartDone(t)
      PROVE  FlagTypes'
  BY <1>3 DEF StartDone
<1>4. ASSUME NEW t \in Threads, Activate(t)
      PROVE  FlagTypes'
  BY <1>4 DEF Activate, Leave, AfterSuccess
<1>5. ASSUME NEW t \in Threads, ActivateFails(t)
      PROVE  FlagTypes'
  BY <1>5 DEF ActivateFails
<1>6. ASSUME NEW t \in Threads, UndoStart(t)
      PROVE  FlagTypes'
  BY <1>6 DEF UndoStart, StopCall, Enter, Go
<1>7. ASSUME NEW t \in Threads, UndoDone(t)
      PROVE  FlagTypes'
  BY <1>7 DEF UndoDone, Leave, AfterFailure
<1>8. ASSUME NEW t \in Threads, Disable(t)
      PROVE  FlagTypes'
  BY <1>8 DEF Disable
<1>9. ASSUME NEW t \in Threads, AlreadyDisabled(t)
      PROVE  FlagTypes'
  BY <1>9 DEF AlreadyDisabled
<1>10. ASSUME NEW t \in Threads, Mark(t)
      PROVE  FlagTypes'
  BY <1>10 DEF Mark
<1>11. ASSUME NEW t \in Threads, StopNative(t)
      PROVE  FlagTypes'
  BY <1>11 DEF StopNative, StopCall, Enter, Go
<1>12. ASSUME NEW t \in Threads, NativeStopped(t)
      PROVE  FlagTypes'
  BY <1>12 DEF NativeStopped, Leave, AfterFailure
<1>13. ASSUME NEW t \in Threads, Settle(t)
      PROVE  FlagTypes'
  BY <1>13 DEF Settle, Leave, AfterSuccess
<1>14. ASSUME NEW t \in Threads, SettleTimeout(t)
      PROVE  FlagTypes'
  BY <1>14 DEF SettleTimeout, Leave, AfterFailure
<1>15. CASE Submit
  BY <1>15 DEF Submit
<1>16. CASE PumpWakes
  BY <1>16 DEF PumpWakes
<1>17. CASE PumpEnds
  BY <1>17 DEF PumpEnds
<1>18. CASE PumpTakes
  BY <1>18 DEF PumpTakes
<1>19. CASE PumpFindsNothing
  BY <1>19 DEF PumpFindsNothing
<1>20. CASE PumpWrites
  BY <1>20 DEF PumpWrites, WriteCall, Go
<1>21. CASE PumpWriteDropped
  BY <1>21 DEF PumpWriteDropped
<1>22. CASE PumpWriteReturns
  BY <1>22 DEF PumpWriteReturns
<1>23. CASE PumpWriteRaises
  BY <1>23 DEF PumpWriteRaises
<1>24. CASE CloseBegin
  BY <1>24 DEF CloseBegin
<1>25. CASE SignalPump
  BY <1>25 DEF SignalPump
<1>26. CASE CloseAcquire
  BY <1>26 DEF CloseAcquire
<1>27. CASE CloseTimeout
  BY <1>27 DEF CloseTimeout
<1>28. CASE JoinPump
  BY <1>28 DEF JoinPump
<1>29. CASE RuntimeStart
  BY <1>29 DEF RuntimeStart
<1>30. CASE EncoderStep
  BY <1>30 DEF EncoderStep
<1>31. QED
  BY <1>1, <1>2, <1>3, <1>4, <1>5, <1>6, <1>7, <1>8, <1>9, <1>10, <1>11, <1>12, <1>13,
     <1>14, <1>15, <1>16, <1>17, <1>18, <1>19, <1>20, <1>21, <1>22, <1>23, <1>24, <1>25,
     <1>26, <1>27, <1>28, <1>29, <1>30
  DEF ChannelNext, SetActive, Deactivate, PumpLoop, Shutdown

\* A step keeps the types of the locks and places.
LEMMA LockStep ==
    ASSUME LockTypes, ChannelNext
    PROVE  LockTypes'
<1>a. Pump \in Threads /\ Closer \in Threads
  BY ChannelConstants DEF Threads
<1> USE <1>a DEF LockTypes, Places, InEncoder, MoveTo, flags, queue, locks, channelVars
<1>1. ASSUME NEW t \in Threads, Enable(t)
      PROVE  LockTypes'
  BY <1>1 DEF Enable
<1>2. ASSUME NEW t \in Threads, EnableStart(t)
      PROVE  LockTypes'
  BY <1>2 DEF EnableStart, StartCall, Enter, Go
<1>3. ASSUME NEW t \in Threads, StartDone(t)
      PROVE  LockTypes'
  BY <1>3 DEF StartDone
<1>4. ASSUME NEW t \in Threads, Activate(t)
      PROVE  LockTypes'
  BY <1>4 DEF Activate, Leave, AfterSuccess
<1>5. ASSUME NEW t \in Threads, ActivateFails(t)
      PROVE  LockTypes'
  BY <1>5 DEF ActivateFails
<1>6. ASSUME NEW t \in Threads, UndoStart(t)
      PROVE  LockTypes'
  BY <1>6 DEF UndoStart, StopCall, Enter, Go
<1>7. ASSUME NEW t \in Threads, UndoDone(t)
      PROVE  LockTypes'
  BY <1>7 DEF UndoDone, Leave, AfterFailure
<1>8. ASSUME NEW t \in Threads, Disable(t)
      PROVE  LockTypes'
  BY <1>8 DEF Disable
<1>9. ASSUME NEW t \in Threads, AlreadyDisabled(t)
      PROVE  LockTypes'
  BY <1>9 DEF AlreadyDisabled
<1>10. ASSUME NEW t \in Threads, Mark(t)
      PROVE  LockTypes'
  BY <1>10 DEF Mark
<1>11. ASSUME NEW t \in Threads, StopNative(t)
      PROVE  LockTypes'
  BY <1>11 DEF StopNative, StopCall, Enter, Go
<1>12. ASSUME NEW t \in Threads, NativeStopped(t)
      PROVE  LockTypes'
  BY <1>12 DEF NativeStopped, Leave, AfterFailure
<1>13. ASSUME NEW t \in Threads, Settle(t)
      PROVE  LockTypes'
  BY <1>13 DEF Settle, Leave, AfterSuccess
<1>14. ASSUME NEW t \in Threads, SettleTimeout(t)
      PROVE  LockTypes'
  BY <1>14 DEF SettleTimeout, Leave, AfterFailure
<1>15. CASE Submit
  BY <1>15 DEF Submit
<1>16. CASE PumpWakes
  BY <1>16 DEF PumpWakes
<1>17. CASE PumpEnds
  BY <1>17 DEF PumpEnds
<1>18. CASE PumpTakes
  BY <1>18 DEF PumpTakes
<1>19. CASE PumpFindsNothing
  BY <1>19 DEF PumpFindsNothing
<1>20. CASE PumpWrites
  BY <1>20 DEF PumpWrites, WriteCall, Go
<1>21. CASE PumpWriteDropped
  BY <1>21 DEF PumpWriteDropped
<1>22. CASE PumpWriteReturns
  BY <1>22 DEF PumpWriteReturns
<1>23. CASE PumpWriteRaises
  BY <1>23 DEF PumpWriteRaises
<1>24. CASE CloseBegin
  BY <1>24 DEF CloseBegin
<1>25. CASE SignalPump
  BY <1>25 DEF SignalPump
<1>26. CASE CloseAcquire
  BY <1>26 DEF CloseAcquire
<1>27. CASE CloseTimeout
  BY <1>27 DEF CloseTimeout
<1>28. CASE JoinPump
  BY <1>28 DEF JoinPump
<1>29. CASE RuntimeStart
  BY <1>29 DEF RuntimeStart
<1>30. CASE EncoderStep
  BY <1>30 DEF EncoderStep
<1>31. QED
  BY <1>1, <1>2, <1>3, <1>4, <1>5, <1>6, <1>7, <1>8, <1>9, <1>10, <1>11, <1>12, <1>13,
     <1>14, <1>15, <1>16, <1>17, <1>18, <1>19, <1>20, <1>21, <1>22, <1>23, <1>24, <1>25,
     <1>26, <1>27, <1>28, <1>29, <1>30
  DEF ChannelNext, SetActive, Deactivate, PumpLoop, Shutdown

\* A step keeps every thread in the places and locks that belong together.
LEMMA PlaceStep ==
    ASSUME TypeOK, CallInv, LockTypes, PlaceInv, CloseInv, ChannelNext
    PROVE  PlaceInv'
<1>a. /\ Pump \in Threads /\ Closer \in Threads /\ Clients \subseteq Threads
      /\ None \notin Threads /\ Pump # Closer /\ Pump \notin Clients /\ Closer \notin Clients
  BY ChannelConstants, ConstantTypes DEF Threads
<1>b. call \in [Threads -> {"none", "start", "stop", "write"}]
  BY DEF TypeOK
<1> USE <1>a, <1>b
    DEF CallInv, LockTypes, PlaceInv, Owning, Holding, Enabling, MoveTo,
        vars, flags, queue, locks, channelVars
<1>1. ASSUME NEW t \in Threads, Enable(t)
      PROVE  PlaceInv'
  BY <1>1 DEF Enable
<1>2. ASSUME NEW t \in Threads, EnableStart(t)
      PROVE  PlaceInv'
  BY <1>2 DEF EnableStart, StartCall, Enter, Go
<1>3. ASSUME NEW t \in Threads, StartDone(t)
      PROVE  PlaceInv'
  <2>1. call' = [call EXCEPT ![t] = "none"]
    BY <1>3, InsideCall DEF StartDone
  <2>2. QED
    BY <1>3, <2>1 DEF StartDone
<1>4. ASSUME NEW t \in Threads, Activate(t)
      PROVE  PlaceInv'
  BY <1>4 DEF Activate, Leave, AfterSuccess
<1>5. ASSUME NEW t \in Threads, ActivateFails(t)
      PROVE  PlaceInv'
  BY <1>5 DEF ActivateFails
<1>6. ASSUME NEW t \in Threads, UndoStart(t)
      PROVE  PlaceInv'
  BY <1>6 DEF UndoStart, StopCall, Enter, Go
<1>7. ASSUME NEW t \in Threads, UndoDone(t)
      PROVE  PlaceInv'
  <2>1. call' = [call EXCEPT ![t] = "none"]
    BY <1>7, InsideCall DEF UndoDone
  <2>2. QED
    BY <1>7, <2>1 DEF UndoDone, Leave, AfterFailure
<1>8. ASSUME NEW t \in Threads, Disable(t)
      PROVE  PlaceInv'
  BY <1>8 DEF Disable
<1>9. ASSUME NEW t \in Threads, AlreadyDisabled(t)
      PROVE  PlaceInv'
  BY <1>9 DEF AlreadyDisabled
<1>10. ASSUME NEW t \in Threads, Mark(t)
      PROVE  PlaceInv'
  BY <1>10 DEF Mark
<1>11. ASSUME NEW t \in Threads, StopNative(t)
      PROVE  PlaceInv'
  BY <1>11 DEF StopNative, StopCall, Enter, Go
<1>12. ASSUME NEW t \in Threads, NativeStopped(t)
      PROVE  PlaceInv'
  <2>1. call' = [call EXCEPT ![t] = "none"]
    BY <1>12, InsideCall DEF NativeStopped
  <2>2. QED
    BY <1>12, <2>1 DEF NativeStopped, Leave, AfterFailure
<1>13. ASSUME NEW t \in Threads, Settle(t)
      PROVE  PlaceInv'
  BY <1>13 DEF Settle, Leave, AfterSuccess
<1>14. ASSUME NEW t \in Threads, SettleTimeout(t)
      PROVE  PlaceInv'
  BY <1>14 DEF SettleTimeout, Leave, AfterFailure
<1>15. CASE Submit
  BY <1>15 DEF Submit
<1>16. CASE PumpWakes
  BY <1>16 DEF PumpWakes
<1>17. CASE PumpEnds
  BY <1>17 DEF PumpEnds
<1>18. CASE PumpTakes
  BY <1>18 DEF PumpTakes
<1>19. CASE PumpFindsNothing
  BY <1>19 DEF PumpFindsNothing
<1>20. CASE PumpWrites
  BY <1>20 DEF PumpWrites, WriteCall, Go
<1>21. CASE PumpWriteDropped
  BY <1>21 DEF PumpWriteDropped
<1>22. CASE PumpWriteReturns
  <2>1. call' = [call EXCEPT ![Pump] = "none"]
    BY <1>22 DEF PumpWriteReturns, WriteDone, RestartSkip, RestartSuperseded, RestartLaunch,
                 BeforeWriteRaises, FinishRaises, Return
  <2>2. QED
    BY <1>22, <2>1 DEF PumpWriteReturns
<1>23. CASE PumpWriteRaises
  <2>1. call' = [call EXCEPT ![Pump] = "none"]
    BY <1>23 DEF PumpWriteRaises, WriteDone, RestartSkip, RestartSuperseded, RestartLaunch,
                 BeforeWriteRaises, FinishRaises, Return
  <2>2. QED
    BY <1>23, <2>1 DEF PumpWriteRaises
<1>24. CASE CloseBegin
  BY <1>24 DEF CloseBegin
<1>25. CASE SignalPump
  BY <1>25 DEF SignalPump
<1>26. CASE CloseAcquire
  BY <1>26 DEF CloseAcquire
<1>27. CASE CloseTimeout
  BY <1>27 DEF CloseTimeout
<1>28. CASE JoinPump
  BY <1>28 DEF JoinPump
<1>29. CASE RuntimeStart
  BY <1>29 DEF RuntimeStart, CloseInv
<1>30. CASE EncoderStep
  BY <1>30, StepsInside DEF EncoderStep
<1>31. QED
  BY <1>1, <1>2, <1>3, <1>4, <1>5, <1>6, <1>7, <1>8, <1>9, <1>10, <1>11, <1>12, <1>13,
     <1>14, <1>15, <1>16, <1>17, <1>18, <1>19, <1>20, <1>21, <1>22, <1>23, <1>24, <1>25,
     <1>26, <1>27, <1>28, <1>29, <1>30
  DEF ChannelNext, SetActive, Deactivate, PumpLoop, Shutdown

-----------------------------------------------------------------------------
\* A sequence over a set is one over any larger set.
LEMMA LargerSet ==
    ASSUME NEW S, NEW T, S \subseteq T, NEW s \in Seq(S)
    PROVE  s \in Seq(T)
  OBVIOUS

\* A new frame is queued behind the others; the oldest may be dropped for it.
LEMMA EnqueuedIsNew ==
    ASSUME QueueInv, framesIn < MaxFrames
    PROVE  /\ Enqueued(framesIn + 1) \in Seq(since + 1 .. framesIn + 1)
           /\ Len(Enqueued(framesIn + 1)) <= Depth
<1> DEFINE S == since + 1 .. framesIn + 1
<1>1. framesIn \in Nat /\ since \in 0 .. framesIn /\ Depth \in Nat \ {0}
  BY ChannelConstants DEF QueueInv
<1>2. pending \in Seq(S) /\ Len(pending) <= Depth /\ framesIn + 1 \in S
  <2>1. since + 1 .. framesIn \subseteq S /\ framesIn + 1 \in S
    BY <1>1
  <2>2. QED
    BY <2>1, LargerSet DEF QueueInv
<1> HIDE DEF S
<1> DEFINE kept == IF Len(pending) = Depth THEN Tail(pending) ELSE pending
<1>3. kept \in Seq(S) /\ Len(kept) < Depth
  <2>1. CASE Len(pending) = Depth
    <3>1. pending # <<>>
      BY <1>1, <2>1, EmptySeq
    <3>2. Tail(pending) \in Seq(S) /\ Len(Tail(pending)) = Len(pending) - 1
      BY <1>2, <3>1, HeadTailProperties
    <3>3. QED
      BY <1>1, <2>1, <3>2
  <2>2. CASE Len(pending) # Depth
    BY <1>1, <1>2, <2>2, LenProperties
  <2>3. QED
    BY <2>1, <2>2
<1>4. Append(kept, framesIn + 1) \in Seq(S) /\ Len(Append(kept, framesIn + 1)) = Len(kept) + 1
  BY <1>2, <1>3, AppendProperties
<1>5. Len(kept) \in Nat
  BY <1>3, LenProperties
<1>6. QED
  BY <1>1, <1>3, <1>4, <1>5 DEF Enqueued, S

\* The frame the pump takes was submitted since the channel became active.
LEMMA TakenIsNew ==
    ASSUME QueueInv, pending # <<>>
    PROVE  /\ Head(pending) \in 0 .. MaxFrames /\ Head(pending) > since
           /\ Tail(pending) \in Seq(since + 1 .. framesIn)
           /\ Len(Tail(pending)) <= Depth
<1>1. /\ framesIn \in 0 .. MaxFrames /\ since \in 0 .. framesIn
      /\ MaxFrames \in Nat /\ Depth \in Nat
      /\ pending \in Seq(since + 1 .. framesIn) /\ Len(pending) <= Depth
  BY ChannelConstants DEF QueueInv
<1>2. /\ Head(pending) \in since + 1 .. framesIn
      /\ Tail(pending) \in Seq(since + 1 .. framesIn)
      /\ Len(Tail(pending)) = Len(pending) - 1
  BY <1>1, HeadTailProperties
<1>3. Len(pending) \in Nat
  BY <1>1, LenProperties
<1>4. QED
  BY <1>1, <1>2, <1>3

\* A step keeps what is said of the queue.
LEMMA QueueStep ==
    ASSUME FlagTypes, LockTypes, PlaceInv, QueueInv, DrainInv, ChannelNext
    PROVE  QueueInv'
<1>a. /\ Pump \in Threads /\ Pump \notin Clients /\ None \notin Threads
      /\ Depth \in Nat \ {0} /\ MaxFrames \in Nat
  BY ChannelConstants, ConstantTypes DEF Threads
<1>b. QueueInv
  OBVIOUS
<1>c. \A t \in Threads : at[t] = "settle" => draining
  BY DEF DrainInv
<1>d. \A t \in Threads : at[t] \in {"holding", "writing"} => channelLock = t
  BY DEF PlaceInv, Holding
<1>e. at \in [Threads -> Places]
  BY DEF LockTypes
<1> USE <1>a, <1>b, <1>c, <1>d, <1>e DEF QueueInv, MoveTo, flags, queue, locks, channelVars
<1>1. ASSUME NEW t \in Threads, Enable(t)
      PROVE  QueueInv'
  BY <1>1 DEF Enable
<1>2. ASSUME NEW t \in Threads, EnableStart(t)
      PROVE  QueueInv'
  BY <1>2 DEF EnableStart, StartCall, Enter, Go
<1>3. ASSUME NEW t \in Threads, StartDone(t)
      PROVE  QueueInv'
  BY <1>3 DEF StartDone
<1>4. ASSUME NEW t \in Threads, Activate(t)
      PROVE  QueueInv'
  <2>1. CASE active
    BY <1>4, <2>1 DEF Activate, Leave, AfterSuccess
  <2>2. CASE ~active
    <3>1. pending = <<>> /\ at[Pump] \notin {"holding", "writing"}
      BY <2>2
    <3>2. pending' = <<>> /\ framesIn' = framesIn /\ taken' = taken /\ since' = framesIn
      BY <1>4, <2>2, <3>1 DEF Activate
    <3>3. at'[Pump] \notin {"holding", "writing"}
      BY <1>4, <3>1 DEF Activate, Leave, AfterSuccess
    <3>4. since' \in 0 .. framesIn'
      BY <3>2
    <3>5. pending' \in Seq(since' + 1 .. framesIn') /\ Len(pending') = 0
      BY <3>2, EmptySeq
    <3>6. QED
      BY <3>2, <3>3, <3>4, <3>5
  <2>3. QED
    BY <2>1, <2>2
<1>5. ASSUME NEW t \in Threads, ActivateFails(t)
      PROVE  QueueInv'
  BY <1>5 DEF ActivateFails
<1>6. ASSUME NEW t \in Threads, UndoStart(t)
      PROVE  QueueInv'
  BY <1>6 DEF UndoStart, StopCall, Enter, Go
<1>7. ASSUME NEW t \in Threads, UndoDone(t)
      PROVE  QueueInv'
  BY <1>7 DEF UndoDone, Leave, AfterFailure
<1>8. ASSUME NEW t \in Threads, Disable(t)
      PROVE  QueueInv'
  BY <1>8 DEF Disable
<1>9. ASSUME NEW t \in Threads, AlreadyDisabled(t)
      PROVE  QueueInv'
  BY <1>9 DEF AlreadyDisabled
<1>10. ASSUME NEW t \in Threads, Mark(t)
      PROVE  QueueInv'
  <2>1. pending' = <<>> /\ UNCHANGED <<framesIn, taken, since, active>>
    BY <1>10 DEF Mark
  <2>2. pending' \in Seq(since' + 1 .. framesIn') /\ Len(pending') = 0
    BY <2>1, EmptySeq
  <2>3. at'[Pump] \in {"holding", "writing"} => at[Pump] \in {"holding", "writing"}
    BY <1>10 DEF Mark
  <2>4. QED
    BY <2>1, <2>2, <2>3
<1>11. ASSUME NEW t \in Threads, StopNative(t)
      PROVE  QueueInv'
  BY <1>11 DEF StopNative, StopCall, Enter, Go
<1>12. ASSUME NEW t \in Threads, NativeStopped(t)
      PROVE  QueueInv'
  BY <1>12 DEF NativeStopped, Leave, AfterFailure
<1>13. ASSUME NEW t \in Threads, Settle(t)
      PROVE  QueueInv'
  BY <1>13 DEF Settle, Leave, AfterSuccess
<1>14. ASSUME NEW t \in Threads, SettleTimeout(t)
      PROVE  QueueInv'
  BY <1>14 DEF SettleTimeout, Leave, AfterFailure
<1>15. CASE Submit
  <2>1. /\ framesIn < MaxFrames /\ framesIn' = framesIn + 1
        /\ pending' = IF active /\ ~draining THEN Enqueued(framesIn + 1) ELSE pending
        /\ UNCHANGED <<taken, since, at, active, draining>>
    BY <1>15 DEF Submit
  <2>2. framesIn' \in 0 .. MaxFrames /\ since' \in 0 .. framesIn'
    BY <2>1
  <2>3. pending' \in Seq(since' + 1 .. framesIn') /\ Len(pending') <= Depth
    <3>1. CASE active /\ ~draining
      BY <2>1, <3>1, EnqueuedIsNew
    <3>2. CASE ~(active /\ ~draining)
      <4>1. pending' = <<>>
        BY <2>1, <3>2
      <4>2. QED
        BY <4>1, EmptySeq
    <3>3. QED
      BY <3>1, <3>2
  <2>4. QED
    BY <2>1, <2>2, <2>3
<1>16. CASE PumpWakes
  BY <1>16 DEF PumpWakes
<1>17. CASE PumpEnds
  BY <1>17 DEF PumpEnds
<1>18. CASE PumpTakes
  <2>1. /\ Deliverable
        /\ taken' = Head(pending) /\ pending' = Tail(pending)
        /\ UNCHANGED <<framesIn, since, active, draining>>
    BY <1>18 DEF PumpTakes
  <2>2. active /\ ~draining /\ pending # <<>>
    BY <2>1 DEF Deliverable
  <2>3. QED
    BY <2>1, <2>2, TakenIsNew
<1>19. CASE PumpFindsNothing
  BY <1>19 DEF PumpFindsNothing
<1>20. CASE PumpWrites
  BY <1>20 DEF PumpWrites, WriteCall, Go
<1>21. CASE PumpWriteDropped
  BY <1>21 DEF PumpWriteDropped
<1>22. CASE PumpWriteReturns
  BY <1>22 DEF PumpWriteReturns
<1>23. CASE PumpWriteRaises
  BY <1>23 DEF PumpWriteRaises
<1>24. CASE CloseBegin
  BY <1>24 DEF CloseBegin
<1>25. CASE SignalPump
  BY <1>25 DEF SignalPump
<1>26. CASE CloseAcquire
  BY <1>26 DEF CloseAcquire
<1>27. CASE CloseTimeout
  BY <1>27 DEF CloseTimeout
<1>28. CASE JoinPump
  BY <1>28 DEF JoinPump
<1>29. CASE RuntimeStart
  BY <1>29 DEF RuntimeStart
<1>30. CASE EncoderStep
  BY <1>30 DEF EncoderStep
<1>31. QED
  BY <1>1, <1>2, <1>3, <1>4, <1>5, <1>6, <1>7, <1>8, <1>9, <1>10, <1>11, <1>12, <1>13,
     <1>14, <1>15, <1>16, <1>17, <1>18, <1>19, <1>20, <1>21, <1>22, <1>23, <1>24, <1>25,
     <1>26, <1>27, <1>28, <1>29, <1>30
  DEF ChannelNext, SetActive, Deactivate, PumpLoop, Shutdown

-----------------------------------------------------------------------------
\* Two calls of start() or stop() would both be made under the transition lock.
LEMMA ApartStep ==
    ASSUME TypeOK, LockTypes', PlaceInv'
    PROVE  CallsApart
<1> SUFFICES ASSUME NEW t \in Threads, StartCall(t) \/ StopCall(t),
                    NEW u \in Threads \ {t}, call[u] \in {"start", "stop"}
             PROVE  FALSE
  BY DEF CallsApart
<1>1. call'[t] \in {"start", "stop"} /\ call'[u] = call[u]
  BY DEF StartCall, StopCall, Enter, TypeOK
<1>2. at'[t] \in Owning /\ at'[u] \in Owning
  BY <1>1 DEF PlaceInv, Owning
<1>3. transition' = t /\ transition' = u
  BY <1>2 DEF PlaceInv
<1>4. QED
  BY <1>3

\* A stop that returns leaves the encoder stopped or closed, and nothing new in it.
LEMMA StopEnds ==
    ASSUME TypeOK, OwnerInv, SerialInv, NEW t \in Threads, call[t] = "stop", pc'[t] = "idle",
           Stop(t) \/ Finish(t)
    PROVE  /\ Stopped' \/ stopping'
           /\ proc' \in {proc, None} /\ child' = child
           /\ current' = {}
<1>1. pc[t] # "idle" /\ stopping /\ current = {t}
  BY DEF OwnerInv, CallInv, SerialInv, TypeOK
<1>2. CASE StopClear(t)
  BY <1>1, <1>2 DEF StopClear, Stopped, native
<1>3. CASE StopTimeout(t) \/ FinishRaises(t)
  BY <1>1, <1>3 DEF StopTimeout, FinishRaises, Stopped, owned, native
<1>4. CASE StopAcquire(t)
  BY <1>1, <1>4 DEF StopAcquire, Go, TypeOK
<1>5. CASE StopCall(t)
  BY <1>1, <1>5 DEF StopCall, Enter
<1>6. CASE Finish(t) /\ ~FinishRaises(t)
  BY <1>6 DEF Finish, Terminate, Kill, Reap, DrainWriter, JoinReaders, Go, TypeOK
<1>7. QED
  BY <1>2, <1>3, <1>4, <1>5, <1>6 DEF Stop

\* While it goes on it changes none of these.
LEMMA StopGoesOn ==
    ASSUME TypeOK, OwnerInv, NEW t \in Threads, call[t] = "stop", pc[t] # "idle", pc'[t] # "idle",
           Start(t) \/ Stop(t) \/ Restart(t) \/ Finish(t) \/ Write(t)
    PROVE  UNCHANGED <<proc, recorded, stopping, current>>
<1> USE DEF OwnerInv, CallInv, HoldsWriteLock, Go, Return, TypeOK
<1>1. CASE Start(t)
  BY <1>1 DEF Start, StartCall, StartUnchanged, StartLaunch, StartRestart, StartReturns,
     Enter
<1>2. CASE Stop(t)
  BY <1>2 DEF Stop, StopCall, StopAcquire, StopTimeout, StopClear, Enter, owned
<1>3. CASE Restart(t)
  BY <1>3 DEF Restart, RestartSkip, RestartBegin, RestartSuperseded, RestartLaunch
<1>4. CASE Finish(t)
  BY <1>4 DEF Finish, Terminate, Kill, Reap, DrainWriter, JoinReaders, FinishRaises, owned
<1>5. CASE Write(t)
  BY <1>5 DEF Write, WriteCall, BeforeWrite, BeforeWriteRaises, WriteDone, WriteFails,
              RestartAcquire, owned
<1>6. QED
  BY <1>1, <1>2, <1>3, <1>4, <1>5

\* A writer does not open an encoder that is stopped, and does not change one
\* that was closed under it.
LEMMA WriterLeavesClosed ==
    ASSUME TypeOK, OwnerInv, NEW t \in Threads, call[t] = "write",
           Start(t) \/ Stop(t) \/ Restart(t) \/ Finish(t) \/ Write(t)
    PROVE  /\ Stopped => Stopped'
           /\ (Stopped \/ stopping) /\ t \notin current =>
                  (Stopped' \/ stopping') /\ t \notin current'
<1> USE ConstantTypes DEF OwnerInv, CallInv, TeardownInv, HoldsWriteLock, Finishing, Go, Return,
                          Stopped, TypeOK
<1>1. CASE Start(t)
  BY <1>1 DEF Start, StartCall, StartUnchanged, StartLaunch, StartRestart, StartReturns,
     Enter
<1>2. CASE Stop(t)
  BY <1>2 DEF Stop, StopCall, StopAcquire, StopTimeout, StopClear, Enter, owned
<1>3. CASE RestartSkip(t) \/ RestartSuperseded(t)
  BY <1>3 DEF RestartSkip, RestartSuperseded, owned
<1>4. CASE RestartBegin(t)
  BY <1>4 DEF RestartBegin, owned
<1>5. CASE RestartLaunch(t)
  BY <1>5 DEF RestartLaunch
<1>6. CASE Finish(t)
  BY <1>6 DEF Finish, Terminate, Kill, Reap, DrainWriter, JoinReaders, FinishRaises, owned
<1>7. CASE Write(t)
  BY <1>7 DEF Write, WriteCall, BeforeWrite, BeforeWriteRaises, WriteDone, WriteFails,
              RestartAcquire, owned
<1>8. QED
  BY <1>1, <1>2, <1>3, <1>4, <1>5, <1>6, <1>7 DEF Restart

\* Neither does the environment.
LEMMA EnvironmentKeeps ==
    ASSUME Environment
    PROVE  UNCHANGED <<proc, recorded, stopping, current, call, pc>>
  BY DEF Environment, ChildExits, ReaderExits, OutputFails, owned, locals

\* A step keeps what is said of stops and of what they leave.
LEMMA DrainStep ==
    ASSUME TypeOK, OwnerInv, SerialInv, LockTypes, PlaceInv, QueueInv, DrainInv, CloseInv, ChannelNext
    PROVE  DrainInv'
<1>a. /\ Pump \in Threads /\ Closer \in Threads /\ Clients \subseteq Threads
      /\ None \notin Threads /\ Pump # Closer /\ Pump \notin Clients /\ Closer \notin Clients
  BY ChannelConstants, ConstantTypes DEF Threads
<1>b. call \in [Threads -> {"none", "start", "stop", "write"}]
  BY DEF TypeOK
<1>c. \A t \in Threads : at[t] \in {"holding", "writing"} => active
  BY DEF QueueInv, PlaceInv
<1> USE <1>a, <1>b, <1>c
    DEF LockTypes, PlaceInv, DrainInv, Owning, Holding, Enabling, MoveTo,
        flags, queue, locks, channelVars
<1>1. ASSUME NEW t \in Threads, Enable(t)
      PROVE  DrainInv'
  <2>1. UNCHANGED vars
    BY <1>1 DEF Enable
  <2>2. (Stopped' <=> Stopped) /\ UNCHANGED <<stopping, current, call>>
    BY <2>1 DEF vars, Stopped
  <2>3. QED
    BY <1>1, <2>2 DEF Enable
<1>2. ASSUME NEW t \in Threads, EnableStart(t)
      PROVE  DrainInv'
  BY <1>2 DEF EnableStart, StartCall, Enter, Go, owned, Stopped, OwnerInv, CallInv
<1>3. ASSUME NEW t \in Threads, StartDone(t)
      PROVE  DrainInv'
  <2>1. at[t] = "starting" /\ transition = t /\ ~draining
        /\ UNCHANGED <<active, draining, transition>>
    BY <1>3 DEF StartDone
  <2>2. at' = [at EXCEPT ![t] = "undo"] \/ at' = [at EXCEPT ![t] = "started"]
    BY <1>3 DEF StartDone
  <2>3. QED
    BY <2>1, <2>2
<1>4. ASSUME NEW t \in Threads, Activate(t)
      PROVE  DrainInv'
  <2>1. UNCHANGED vars
    BY <1>4 DEF Activate
  <2>2. (Stopped' <=> Stopped) /\ UNCHANGED <<stopping, current, call>>
    BY <2>1 DEF vars, Stopped
  <2>3. QED
    BY <1>4, <2>2 DEF Activate, Leave, AfterSuccess
<1>5. ASSUME NEW t \in Threads, ActivateFails(t)
      PROVE  DrainInv'
  <2>1. UNCHANGED vars
    BY <1>5 DEF ActivateFails
  <2>2. (Stopped' <=> Stopped) /\ UNCHANGED <<stopping, current, call>>
    BY <2>1 DEF vars, Stopped
  <2>3. QED
    BY <1>5, <2>2 DEF ActivateFails
<1>6. ASSUME NEW t \in Threads, UndoStart(t)
      PROVE  DrainInv'
  BY <1>6 DEF UndoStart, StopCall, Enter, Go, owned
<1>7. ASSUME NEW t \in Threads, UndoDone(t)
      PROVE  DrainInv'
  <2>1. at[t] = "undoing" /\ transition = t /\ ~draining
        /\ UNCHANGED <<active, draining>>
    BY <1>7 DEF UndoDone
  <2>2. Stopped' \/ stopping'
    BY <1>7, <2>1, StopEnds DEF UndoDone
  <2>3. at' = [at EXCEPT ![t] = "idle"]
    BY <1>7, <2>1 DEF UndoDone, Leave, AfterFailure
  <2>4. QED
    BY <2>1, <2>2, <2>3
<1>8. ASSUME NEW t \in Threads, Disable(t)
      PROVE  DrainInv'
  <2>1. UNCHANGED vars
    BY <1>8 DEF Disable
  <2>2. (Stopped' <=> Stopped) /\ UNCHANGED <<stopping, current, call>>
    BY <2>1 DEF vars, Stopped
  <2>3. QED
    BY <1>8, <2>2 DEF Disable
<1>9. ASSUME NEW t \in Threads, AlreadyDisabled(t)
      PROVE  DrainInv'
  <2>1. UNCHANGED vars
    BY <1>9 DEF AlreadyDisabled
  <2>2. (Stopped' <=> Stopped) /\ UNCHANGED <<stopping, current, call>>
    BY <2>1 DEF vars, Stopped
  <2>3. QED
    BY <1>9, <2>2 DEF AlreadyDisabled
<1>10. ASSUME NEW t \in Threads, Mark(t)
      PROVE  DrainInv'
  <2>1. UNCHANGED vars
    BY <1>10 DEF Mark
  <2>2. (Stopped' <=> Stopped) /\ UNCHANGED <<stopping, current, call>>
    BY <2>1 DEF vars, Stopped
  <2>3. QED
    BY <1>10, <2>2 DEF Mark
<1>11. ASSUME NEW t \in Threads, StopNative(t)
      PROVE  DrainInv'
  BY <1>11 DEF StopNative, StopCall, Enter, Go, owned
<1>12. ASSUME NEW t \in Threads, NativeStopped(t)
      PROVE  DrainInv'
  <2>1. at[t] = "stopping" /\ transition = t /\ draining
        /\ UNCHANGED <<active, draining>>
    BY <1>12 DEF NativeStopped
  <2>2. (Stopped' \/ stopping') /\ current' = {}
    BY <1>12, <2>1, StopEnds DEF NativeStopped
  <2>3. \/ at' = [at EXCEPT ![t] = "settle"] /\ Stopped'
        \/ at' = [at EXCEPT ![t] = "idle"]
        \/ at' = [at EXCEPT ![t] = "dead"]
    BY <1>12 DEF NativeStopped, Leave, AfterFailure
  <2>4. QED
    BY <2>1, <2>2, <2>3
<1>13. ASSUME NEW t \in Threads, Settle(t)
      PROVE  DrainInv'
  <2>1. UNCHANGED vars
    BY <1>13 DEF Settle
  <2>2. (Stopped' <=> Stopped) /\ UNCHANGED <<stopping, current, call>>
    BY <2>1 DEF vars, Stopped
  <2>3. QED
    BY <1>13, <2>2 DEF Settle, Leave, AfterSuccess
<1>14. ASSUME NEW t \in Threads, SettleTimeout(t)
      PROVE  DrainInv'
  <2>1. UNCHANGED vars
    BY <1>14 DEF SettleTimeout
  <2>2. (Stopped' <=> Stopped) /\ UNCHANGED <<stopping, current, call>>
    BY <2>1 DEF vars, Stopped
  <2>3. QED
    BY <1>14, <2>2 DEF SettleTimeout, Leave, AfterFailure
<1>15. CASE Submit
  <2>1. UNCHANGED vars
    BY <1>15 DEF Submit
  <2>2. (Stopped' <=> Stopped) /\ UNCHANGED <<stopping, current, call>>
    BY <2>1 DEF vars, Stopped
  <2>3. QED
    BY <1>15, <2>2 DEF Submit
<1>16. CASE PumpWakes
  <2>1. UNCHANGED vars
    BY <1>16 DEF PumpWakes
  <2>2. (Stopped' <=> Stopped) /\ UNCHANGED <<stopping, current, call>>
    BY <2>1 DEF vars, Stopped
  <2>3. QED
    BY <1>16, <2>2 DEF PumpWakes
<1>17. CASE PumpEnds
  <2>1. UNCHANGED vars
    BY <1>17 DEF PumpEnds
  <2>2. (Stopped' <=> Stopped) /\ UNCHANGED <<stopping, current, call>>
    BY <2>1 DEF vars, Stopped
  <2>3. QED
    BY <1>17, <2>2 DEF PumpEnds
<1>18. CASE PumpTakes
  <2>1. UNCHANGED vars
    BY <1>18 DEF PumpTakes
  <2>2. (Stopped' <=> Stopped) /\ UNCHANGED <<stopping, current, call>>
    BY <2>1 DEF vars, Stopped
  <2>3. QED
    BY <1>18, <2>2 DEF PumpTakes
<1>19. CASE PumpFindsNothing
  <2>1. UNCHANGED vars
    BY <1>19 DEF PumpFindsNothing
  <2>2. (Stopped' <=> Stopped) /\ UNCHANGED <<stopping, current, call>>
    BY <2>1 DEF vars, Stopped
  <2>3. QED
    BY <1>19, <2>2 DEF PumpFindsNothing
<1>20. CASE PumpWrites
  BY <1>20 DEF PumpWrites, WriteCall, Go, owned, Stopped, OwnerInv, CallInv
<1>21. CASE PumpWriteDropped
  <2>1. UNCHANGED vars
    BY <1>21 DEF PumpWriteDropped
  <2>2. (Stopped' <=> Stopped) /\ UNCHANGED <<stopping, current, call>>
    BY <2>1 DEF vars, Stopped
  <2>3. QED
    BY <1>21, <2>2 DEF PumpWriteDropped
<1>22. CASE PumpWriteReturns
  <2>1. at[Pump] = "writing" /\ call[Pump] = "write" /\ active
        /\ UNCHANGED <<active, draining, transition>>
    BY <1>22 DEF PumpWriteReturns
  <2>2. at' = [at EXCEPT ![Pump] = "idle"] \/ at' = [at EXCEPT ![Pump] = "failed"]
    BY <1>22 DEF PumpWriteReturns
  <2>3. call'[Pump] = "none"
    BY <1>22 DEF PumpWriteReturns, WriteDone, RestartSkip, RestartSuperseded, RestartLaunch,
                 BeforeWriteRaises, FinishRaises, Return
  <2>4. /\ Stopped => Stopped'
        /\ (Stopped \/ stopping) /\ Pump \notin current => Stopped' \/ stopping'
    BY <1>22, <2>1, WriterLeavesClosed DEF PumpWriteReturns, Write, Restart, Finish
  <2>5. QED
    BY <2>1, <2>2, <2>3, <2>4
<1>23. CASE PumpWriteRaises
  <2>1. at[Pump] = "writing" /\ call[Pump] = "write" /\ active
        /\ UNCHANGED <<active, draining, transition>>
    BY <1>23 DEF PumpWriteRaises
  <2>2. at' = [at EXCEPT ![Pump] = "idle"] \/ at' = [at EXCEPT ![Pump] = "failed"]
    BY <1>23 DEF PumpWriteRaises
  <2>3. call'[Pump] = "none"
    BY <1>23 DEF PumpWriteRaises, WriteDone, RestartSkip, RestartSuperseded, RestartLaunch,
                 BeforeWriteRaises, FinishRaises, Return
  <2>4. /\ Stopped => Stopped'
        /\ (Stopped \/ stopping) /\ Pump \notin current => Stopped' \/ stopping'
    BY <1>23, <2>1, WriterLeavesClosed DEF PumpWriteRaises, Write, Restart, Finish
  <2>5. QED
    BY <2>1, <2>2, <2>3, <2>4
<1>24. CASE CloseBegin
  <2>1. UNCHANGED vars
    BY <1>24 DEF CloseBegin
  <2>2. (Stopped' <=> Stopped) /\ UNCHANGED <<stopping, current, call>>
    BY <2>1 DEF vars, Stopped
  <2>3. QED
    BY <1>24, <2>2 DEF CloseBegin
<1>25. CASE SignalPump
  <2>1. UNCHANGED vars
    BY <1>25 DEF SignalPump
  <2>2. (Stopped' <=> Stopped) /\ UNCHANGED <<stopping, current, call>>
    BY <2>1 DEF vars, Stopped
  <2>3. QED
    BY <1>25, <2>2 DEF SignalPump
<1>26. CASE CloseAcquire
  <2>1. UNCHANGED vars
    BY <1>26 DEF CloseAcquire
  <2>2. (Stopped' <=> Stopped) /\ UNCHANGED <<stopping, current, call>>
    BY <2>1 DEF vars, Stopped
  <2>3. QED
    BY <1>26, <2>2 DEF CloseAcquire
<1>27. CASE CloseTimeout
  <2>1. UNCHANGED vars
    BY <1>27 DEF CloseTimeout
  <2>2. (Stopped' <=> Stopped) /\ UNCHANGED <<stopping, current, call>>
    BY <2>1 DEF vars, Stopped
  <2>3. QED
    BY <1>27, <2>2 DEF CloseTimeout
<1>28. CASE JoinPump
  <2>1. UNCHANGED vars
    BY <1>28 DEF JoinPump
  <2>2. (Stopped' <=> Stopped) /\ UNCHANGED <<stopping, current, call>>
    BY <2>1 DEF vars, Stopped
  <2>3. QED
    BY <1>28, <2>2 DEF JoinPump
<1>29. CASE RuntimeStart
  <2>1. UNCHANGED vars
    BY <1>29 DEF RuntimeStart
  <2>2. (Stopped' <=> Stopped) /\ UNCHANGED <<stopping, current, call>>
    BY <2>1 DEF vars, Stopped
  <2>3. QED
    BY <1>29, <2>2 DEF RuntimeStart, CloseInv
<1>30. CASE EncoderStep
  <2>1. UNCHANGED <<active, draining, transition, at, call>>
    BY <1>30, StepsInside DEF EncoderStep
  <2>2. CASE Environment
    BY <2>1, <2>2, EnvironmentKeeps DEF Stopped
  <2>3. ASSUME NEW t \in Threads, at[t] \in InEncoder, pc[t] # "idle", pc'[t] # "idle",
               Start(t) \/ Stop(t) \/ Restart(t) \/ Finish(t) \/ Write(t)
        PROVE  DrainInv'
    <3>1. CASE at[t] \in Enabling
      BY <2>1, <3>1
    <3>2. CASE at[t] = "stopping"
      <4>1. call[t] = "stop" /\ transition = t
        BY <3>2
      <4>2. UNCHANGED <<proc, recorded, stopping, current>>
        BY <2>3, <4>1, StopGoesOn
      <4>3. QED
        BY <2>1, <4>1, <4>2 DEF Stopped
    <3>3. CASE at[t] = "writing"
      <4>1. t = Pump /\ call[t] = "write" /\ active
        BY <3>3
      <4>2. /\ Stopped => Stopped'
            /\ (Stopped \/ stopping) /\ t \notin current =>
                  (Stopped' \/ stopping') /\ t \notin current'
        BY <2>3, <4>1, WriterLeavesClosed
      <4>3. QED
        BY <2>1, <4>1, <4>2
    <3>4. QED
      BY <2>3, <3>1, <3>2, <3>3 DEF InEncoder
  <2>4. QED
    BY <1>30, <2>2, <2>3 DEF EncoderStep
<1>31. QED
  BY <1>1, <1>2, <1>3, <1>4, <1>5, <1>6, <1>7, <1>8, <1>9, <1>10, <1>11, <1>12, <1>13,
     <1>14, <1>15, <1>16, <1>17, <1>18, <1>19, <1>20, <1>21, <1>22, <1>23, <1>24, <1>25,
     <1>26, <1>27, <1>28, <1>29, <1>30
  DEF ChannelNext, SetActive, Deactivate, PumpLoop, Shutdown

\* A step keeps the channel down once a shutdown has stopped it.
LEMMA CloseStep ==
    ASSUME LockTypes, PlaceInv, QueueInv, DrainInv, CloseInv, ChannelNext
    PROVE  CloseInv'
<1>a. /\ Pump \in Threads /\ Closer \in Threads /\ Clients \subseteq Threads
      /\ None \notin Threads /\ Pump # Closer /\ Pump \notin Clients /\ Closer \notin Clients
  BY ChannelConstants, ConstantTypes DEF Threads
<1>b. \A t \in Threads : at[t] \in {"holding", "writing"} => active
  BY DEF QueueInv, PlaceInv
<1> USE <1>a, <1>b
    DEF LockTypes, PlaceInv, DrainInv, CloseInv, Owning, Holding, Enabling, MoveTo,
        flags, queue, locks, channelVars
<1>1. ASSUME NEW t \in Threads, Enable(t)
      PROVE  CloseInv'
  <2>1. UNCHANGED vars
    BY <1>1 DEF Enable
  <2>2. Stopped' <=> Stopped
    BY <2>1 DEF vars, Stopped
  <2>3. QED
    BY <1>1, <2>2 DEF Enable
<1>2. ASSUME NEW t \in Threads, EnableStart(t)
      PROVE  CloseInv'
  <2>1. transition = t /\ UNCHANGED <<active, draining, closing>>
    BY <1>2 DEF EnableStart
  <2>2. at'[Closer] # "idle" => at[Closer] # "idle"
    BY <1>2 DEF EnableStart
  <2>3. at'[Closer] \in {"joining", "finished"} => at[Closer] \in {"joining", "finished"}
    BY <1>2 DEF EnableStart
  <2>4. QED
    BY <2>1, <2>2, <2>3
<1>3. ASSUME NEW t \in Threads, StartDone(t)
      PROVE  CloseInv'
  <2>1. transition = t /\ UNCHANGED <<active, draining, closing>>
    BY <1>3 DEF StartDone
  <2>2. at'[Closer] # "idle" => at[Closer] # "idle"
    BY <1>3 DEF StartDone
  <2>3. at'[Closer] \in {"joining", "finished"} => at[Closer] \in {"joining", "finished"}
    BY <1>3 DEF StartDone
  <2>4. QED
    BY <2>1, <2>2, <2>3
<1>4. ASSUME NEW t \in Threads, Activate(t)
      PROVE  CloseInv'
  <2>1. UNCHANGED vars
    BY <1>4 DEF Activate
  <2>2. Stopped' <=> Stopped
    BY <2>1 DEF vars, Stopped
  <2>3. QED
    BY <1>4, <2>2 DEF Activate, Leave, AfterSuccess
<1>5. ASSUME NEW t \in Threads, ActivateFails(t)
      PROVE  CloseInv'
  <2>1. UNCHANGED vars
    BY <1>5 DEF ActivateFails
  <2>2. Stopped' <=> Stopped
    BY <2>1 DEF vars, Stopped
  <2>3. QED
    BY <1>5, <2>2 DEF ActivateFails
<1>6. ASSUME NEW t \in Threads, UndoStart(t)
      PROVE  CloseInv'
  <2>1. transition = t /\ UNCHANGED <<active, draining, closing>>
    BY <1>6 DEF UndoStart
  <2>2. at'[Closer] # "idle" => at[Closer] # "idle"
    BY <1>6 DEF UndoStart
  <2>3. at'[Closer] \in {"joining", "finished"} => at[Closer] \in {"joining", "finished"}
    BY <1>6 DEF UndoStart
  <2>4. QED
    BY <2>1, <2>2, <2>3
<1>7. ASSUME NEW t \in Threads, UndoDone(t)
      PROVE  CloseInv'
  <2>1. transition = t /\ UNCHANGED <<active, draining, closing>>
    BY <1>7 DEF UndoDone
  <2>2. at'[Closer] # "idle" => at[Closer] # "idle"
    BY <1>7 DEF UndoDone, Leave, AfterFailure
  <2>3. at'[Closer] \in {"joining", "finished"} => at[Closer] \in {"joining", "finished"}
    BY <1>7 DEF UndoDone, Leave, AfterFailure
  <2>4. QED
    BY <2>1, <2>2, <2>3
<1>8. ASSUME NEW t \in Threads, Disable(t)
      PROVE  CloseInv'
  <2>1. UNCHANGED vars
    BY <1>8 DEF Disable
  <2>2. Stopped' <=> Stopped
    BY <2>1 DEF vars, Stopped
  <2>3. QED
    BY <1>8, <2>2 DEF Disable
<1>9. ASSUME NEW t \in Threads, AlreadyDisabled(t)
      PROVE  CloseInv'
  <2>1. UNCHANGED vars
    BY <1>9 DEF AlreadyDisabled
  <2>2. Stopped' <=> Stopped
    BY <2>1 DEF vars, Stopped
  <2>3. QED
    BY <1>9, <2>2 DEF AlreadyDisabled
<1>10. ASSUME NEW t \in Threads, Mark(t)
      PROVE  CloseInv'
  <2>1. UNCHANGED vars
    BY <1>10 DEF Mark
  <2>2. Stopped' <=> Stopped
    BY <2>1 DEF vars, Stopped
  <2>3. QED
    BY <1>10, <2>2 DEF Mark
<1>11. ASSUME NEW t \in Threads, StopNative(t)
      PROVE  CloseInv'
  <2>1. transition = t /\ UNCHANGED <<active, draining, closing>>
    BY <1>11 DEF StopNative
  <2>2. at'[Closer] # "idle" => at[Closer] # "idle"
    BY <1>11 DEF StopNative
  <2>3. at'[Closer] \in {"joining", "finished"} => at[Closer] \in {"joining", "finished"}
    BY <1>11 DEF StopNative
  <2>4. QED
    BY <2>1, <2>2, <2>3
<1>12. ASSUME NEW t \in Threads, NativeStopped(t)
      PROVE  CloseInv'
  <2>1. transition = t /\ UNCHANGED <<active, draining, closing>>
    BY <1>12 DEF NativeStopped
  <2>2. at'[Closer] # "idle" => at[Closer] # "idle"
    BY <1>12 DEF NativeStopped, Leave, AfterFailure
  <2>3. at'[Closer] \in {"joining", "finished"} => at[Closer] \in {"joining", "finished"}
    BY <1>12 DEF NativeStopped, Leave, AfterFailure
  <2>4. QED
    BY <2>1, <2>2, <2>3
<1>13. ASSUME NEW t \in Threads, Settle(t)
      PROVE  CloseInv'
  <2>1. UNCHANGED vars
    BY <1>13 DEF Settle
  <2>2. Stopped' <=> Stopped
    BY <2>1 DEF vars, Stopped
  <2>3. QED
    BY <1>13, <2>2 DEF Settle, Leave, AfterSuccess
<1>14. ASSUME NEW t \in Threads, SettleTimeout(t)
      PROVE  CloseInv'
  <2>1. UNCHANGED vars
    BY <1>14 DEF SettleTimeout
  <2>2. Stopped' <=> Stopped
    BY <2>1 DEF vars, Stopped
  <2>3. QED
    BY <1>14, <2>2 DEF SettleTimeout, Leave, AfterFailure
<1>15. CASE Submit
  <2>1. UNCHANGED vars
    BY <1>15 DEF Submit
  <2>2. Stopped' <=> Stopped
    BY <2>1 DEF vars, Stopped
  <2>3. QED
    BY <1>15, <2>2 DEF Submit
<1>16. CASE PumpWakes
  <2>1. UNCHANGED vars
    BY <1>16 DEF PumpWakes
  <2>2. Stopped' <=> Stopped
    BY <2>1 DEF vars, Stopped
  <2>3. QED
    BY <1>16, <2>2 DEF PumpWakes
<1>17. CASE PumpEnds
  <2>1. UNCHANGED vars
    BY <1>17 DEF PumpEnds
  <2>2. Stopped' <=> Stopped
    BY <2>1 DEF vars, Stopped
  <2>3. QED
    BY <1>17, <2>2 DEF PumpEnds
<1>18. CASE PumpTakes
  <2>1. UNCHANGED vars
    BY <1>18 DEF PumpTakes
  <2>2. Stopped' <=> Stopped
    BY <2>1 DEF vars, Stopped
  <2>3. QED
    BY <1>18, <2>2 DEF PumpTakes, Deliverable
<1>19. CASE PumpFindsNothing
  <2>1. UNCHANGED vars
    BY <1>19 DEF PumpFindsNothing
  <2>2. Stopped' <=> Stopped
    BY <2>1 DEF vars, Stopped
  <2>3. QED
    BY <1>19, <2>2 DEF PumpFindsNothing
<1>20. CASE PumpWrites
  <2>1. active /\ UNCHANGED <<active, draining, closing, transition>>
    BY <1>20 DEF PumpWrites
  <2>2. at'[Closer] = at[Closer]
    BY <1>20 DEF PumpWrites
  <2>3. QED
    BY <2>1, <2>2
<1>21. CASE PumpWriteDropped
  <2>1. UNCHANGED vars
    BY <1>21 DEF PumpWriteDropped
  <2>2. Stopped' <=> Stopped
    BY <2>1 DEF vars, Stopped
  <2>3. QED
    BY <1>21, <2>2 DEF PumpWriteDropped
<1>22. CASE PumpWriteReturns
  <2>1. active /\ UNCHANGED <<active, draining, closing, transition>>
    BY <1>22 DEF PumpWriteReturns
  <2>2. at'[Closer] = at[Closer]
    BY <1>22 DEF PumpWriteReturns
  <2>3. QED
    BY <2>1, <2>2
<1>23. CASE PumpWriteRaises
  <2>1. active /\ UNCHANGED <<active, draining, closing, transition>>
    BY <1>23 DEF PumpWriteRaises
  <2>2. at'[Closer] = at[Closer]
    BY <1>23 DEF PumpWriteRaises
  <2>3. QED
    BY <2>1, <2>2
<1>24. CASE CloseBegin
  <2>1. UNCHANGED vars
    BY <1>24 DEF CloseBegin
  <2>2. Stopped' <=> Stopped
    BY <2>1 DEF vars, Stopped
  <2>3. QED
    BY <1>24, <2>2 DEF CloseBegin
<1>25. CASE SignalPump
  <2>1. UNCHANGED vars
    BY <1>25 DEF SignalPump
  <2>2. Stopped' <=> Stopped
    BY <2>1 DEF vars, Stopped
  <2>3. QED
    BY <1>25, <2>2 DEF SignalPump
<1>26. CASE CloseAcquire
  <2>1. UNCHANGED vars
    BY <1>26 DEF CloseAcquire
  <2>2. Stopped' <=> Stopped
    BY <2>1 DEF vars, Stopped
  <2>3. QED
    BY <1>26, <2>2 DEF CloseAcquire
<1>27. CASE CloseTimeout
  <2>1. UNCHANGED vars
    BY <1>27 DEF CloseTimeout
  <2>2. Stopped' <=> Stopped
    BY <2>1 DEF vars, Stopped
  <2>3. QED
    BY <1>27, <2>2 DEF CloseTimeout
<1>28. CASE JoinPump
  <2>1. UNCHANGED vars
    BY <1>28 DEF JoinPump
  <2>2. Stopped' <=> Stopped
    BY <2>1 DEF vars, Stopped
  <2>3. QED
    BY <1>28, <2>2 DEF JoinPump
<1>29. CASE RuntimeStart
  <2>1. UNCHANGED vars
    BY <1>29 DEF RuntimeStart
  <2>2. Stopped' <=> Stopped
    BY <2>1 DEF vars, Stopped
  <2>3. QED
    BY <1>29, <2>2 DEF RuntimeStart
<1>30. CASE EncoderStep
  <2>1. UNCHANGED <<active, draining, closing, transition, at>>
    BY <1>30 DEF EncoderStep
  <2>2. CASE Environment
    BY <2>1, <2>2, EnvironmentKeeps DEF Stopped
  <2>3. ASSUME NEW t \in Threads, at[t] \in InEncoder
        PROVE  CloseInv'
    <3>1. transition = t \/ active
      BY <2>3 DEF InEncoder
    <3>2. QED
      BY <2>1, <3>1
  <2>4. QED
    BY <1>30, <2>2, <2>3 DEF EncoderStep
<1>31. QED
  BY <1>1, <1>2, <1>3, <1>4, <1>5, <1>6, <1>7, <1>8, <1>9, <1>10, <1>11, <1>12, <1>13,
     <1>14, <1>15, <1>16, <1>17, <1>18, <1>19, <1>20, <1>21, <1>22, <1>23, <1>24, <1>25,
     <1>26, <1>27, <1>28, <1>29, <1>30
  DEF ChannelNext, SetActive, Deactivate, PumpLoop, Shutdown

-----------------------------------------------------------------------------
\* The inductive invariant.
ChannelInv ==
    /\ TypeOK /\ OwnerInv /\ SerialInv /\ WriterInv
    /\ FlagTypes /\ LockTypes
    /\ PlaceInv /\ QueueInv /\ DrainInv /\ CloseInv

\* Every behaviour of the channel keeps it.
LEMMA ChannelInvariant == ChannelSpec => []ChannelInv
<1>1. ChannelInit => SerialInv /\ WriterInv /\ FlagTypes /\ LockTypes /\ PlaceInv /\ QueueInv
                     /\ DrainInv /\ CloseInv
  <2> SUFFICES ASSUME ChannelInit
               PROVE  /\ SerialInv /\ WriterInv /\ FlagTypes /\ LockTypes /\ PlaceInv
                      /\ QueueInv /\ DrainInv /\ CloseInv
    OBVIOUS
  <2>a. Pump \in Threads /\ Closer \in Threads /\ None \notin Threads
    BY ChannelConstants, ConstantTypes DEF Threads
  <2>1. SerialInv /\ WriterInv
    BY DEF ChannelInit, Init, SerialInv, WriterInv, HoldsWriteLock, Finishing
  <2>2. FlagTypes
    BY DEF ChannelInit, FlagTypes
  <2>3. LockTypes /\ PlaceInv
    BY <2>a DEF ChannelInit, Init, LockTypes, PlaceInv, Places, Owning, Holding, Enabling
  <2>4. QueueInv
    <3>1. MaxFrames \in Nat /\ Depth \in Nat
      BY ChannelConstants
    <3>2. pending \in Seq(since + 1 .. framesIn) /\ Len(pending) = 0
      BY EmptySeq DEF ChannelInit
    <3>3. framesIn = 0 /\ taken = 0 /\ since = 0 /\ pending = <<>> /\ at[Pump] = "idle"
      BY <2>a DEF ChannelInit
    <3>4. QED
      BY <3>1, <3>2, <3>3 DEF QueueInv
  <2>5. DrainInv /\ CloseInv
    BY <2>a DEF ChannelInit, Init, DrainInv, CloseInv, Stopped, Enabling
  <2>6. QED
    BY <2>1, <2>2, <2>3, <2>4, <2>5
<1>2. /\ TypeOK /\ TypeOK' /\ OwnerInv /\ SerialInv /\ WriterInv
      /\ FlagTypes /\ LockTypes /\ PlaceInv /\ QueueInv /\ DrainInv /\ CloseInv
      /\ [ChannelNext]_allVars
      => /\ SerialInv' /\ WriterInv' /\ FlagTypes' /\ LockTypes'
         /\ PlaceInv' /\ QueueInv' /\ DrainInv' /\ CloseInv'
  <2> SUFFICES ASSUME TypeOK, TypeOK', OwnerInv, SerialInv, WriterInv, FlagTypes, LockTypes,
                      PlaceInv, QueueInv, DrainInv, CloseInv, [ChannelNext]_allVars
               PROVE  /\ SerialInv' /\ WriterInv' /\ FlagTypes' /\ LockTypes'
                      /\ PlaceInv' /\ QueueInv' /\ DrainInv' /\ CloseInv'
    OBVIOUS
  <2>1. CASE ChannelNext
    <3>1. FlagTypes' /\ LockTypes' /\ QueueInv'
      BY <2>1, FlagStep, LockStep, QueueStep
    <3>2. PlaceInv'
      BY <2>1, PlaceStep DEF OwnerInv
    <3>3. DrainInv' /\ CloseInv'
      BY <2>1, DrainStep, CloseStep
    <3>4. SerialInv' /\ WriterInv'
      <4>1. CallsApart
        BY <3>1, <3>2, ApartStep
      <4>2. QED
        BY <2>1, <4>1, ChannelStepIsStep, QuiesceInductive
    <3>5. QED
      BY <3>1, <3>2, <3>3, <3>4
  <2>2. CASE UNCHANGED allVars
    <3>1. UNCHANGED vars /\ UNCHANGED channelVars
      BY <2>2 DEF allVars
    <3>2. SerialInv' /\ WriterInv'
      BY <3>1 DEF vars, SerialInv, WriterInv
    <3>3. FlagTypes' /\ LockTypes' /\ QueueInv'
      BY <3>1 DEF FlagTypes, LockTypes, QueueInv, channelVars, flags, queue, locks
    <3>4. PlaceInv'
      BY <3>1 DEF PlaceInv, vars, channelVars, flags, queue, locks
    <3>5. DrainInv' /\ CloseInv'
      BY <3>1 DEF DrainInv, CloseInv, Stopped, vars, channelVars, flags, queue, locks
    <3>6. QED
      BY <3>2, <3>3, <3>4, <3>5
  <2>3. QED
    BY <2>1, <2>2
<1>3. QED
  BY <1>1, <1>2, EncoderOfChannel, PTL DEF ChannelSpec, ChannelInv

\* The types the runs check, the bound of the queue among them.
THEOREM ChannelTypeCorrect == ChannelSpec => []ChannelTypeOK
<1>1. ChannelInv => ChannelTypeOK
  <2> SUFFICES ASSUME ChannelInv
               PROVE  ChannelTypeOK
    OBVIOUS
  <2>1. framesIn \in 0 .. MaxFrames /\ taken \in 0 .. MaxFrames /\ since \in 0 .. framesIn
    BY DEF ChannelInv, QueueInv
  <2>2. pending \in Seq(since + 1 .. framesIn) /\ Len(pending) <= Depth
    BY DEF ChannelInv, QueueInv
  <2>3. since \in 0 .. MaxFrames /\ since + 1 .. framesIn \subseteq 1 .. MaxFrames
    BY <2>1, ChannelConstants
  <2>4. pending \in Seq(1 .. MaxFrames)
    BY <2>2, <2>3, LargerSet
  <2>5. QED
    BY <2>1, <2>2, <2>3, <2>4 DEF ChannelTypeOK, ChannelInv, FlagTypes, LockTypes
<1>2. QED
  BY <1>1, ChannelInvariant, PTL

(***************************************************************************)
(* The channel serialises the calls it makes: what SubprocessEncoder       *)
(* assumes of its callers when Serialized is TRUE is true of this one      *)
(* (runtime.py:106-109), for any number of clients.                        *)
(***************************************************************************)
THEOREM ChannelSerialises == ChannelSpec => []CallersSerialized
<1>1. ChannelInv => CallersSerialized
  <2> SUFFICES ASSUME ChannelInv
               PROVE  CallersSerialized
    OBVIOUS
  <2> USE DEF ChannelInv
  <2>1. ASSUME NEW t \in Threads, NEW u \in Threads,
               call[t] \in {"start", "stop"}, call[u] \in {"start", "stop"}
        PROVE  t = u
    BY <2>1 DEF SerialInv
  <2>2. ASSUME NEW t \in Threads, at[t] = "enabling", channelLock = None
        PROVE  lifecycle = None
    <3> SUFFICES ASSUME lifecycle # None
                 PROVE  FALSE
      OBVIOUS
    <3>1. PICK u \in Threads : lifecycle = u
      BY DEF TypeOK
    <3>2. call[u] # "none" /\ call[u] \in {"none", "start", "stop", "write"}
      BY <3>1 DEF OwnerInv, LockInv, CallInv, HoldsLifecycle, Finishing, TypeOK
    <3>3. at[u] \in {"starting", "undoing", "stopping", "writing"}
      BY <3>2 DEF PlaceInv
    <3>4. at[u] = "stopping"
      BY <2>2, <3>3, ConstantTypes DEF PlaceInv, Holding
    <3>5. transition = u /\ transition = t
      BY <2>2, <3>4 DEF PlaceInv, Owning
    <3>6. QED
      BY <2>2, <3>4, <3>5
  <2>3. QED
    BY <2>1, <2>2 DEF CallersSerialized
<1>2. QED
  BY <1>1, ChannelInvariant, PTL

(***************************************************************************)
(* Inactivity that was applied is real: no pump call is in progress, and   *)
(* the encoder is stopped or closed (runtime.py:386-393).                  *)
(***************************************************************************)
THEOREM InactivityIsReal == ChannelSpec => []InactiveIsQuiet
<1>1. ChannelInv => InactiveIsQuiet
  BY DEF ChannelInv, InactiveIsQuiet, QueueInv, DrainInv
<1>2. QED
  BY <1>1, ChannelInvariant, PTL

(***************************************************************************)
(* A consumer sees no image from before it joined (runtime.py:377-380).    *)
(***************************************************************************)
THEOREM FramesAreFresh == ChannelSpec => []NoStaleFrame
<1>1. ChannelInv => NoStaleFrame
  BY DEF ChannelInv, NoStaleFrame, QueueInv
<1>2. QED
  BY <1>1, ChannelInvariant, PTL

(***************************************************************************)
(* A shutdown that returned left nothing behind, and nothing comes back    *)
(* before the next start (runtime.py:276-277).                             *)
(***************************************************************************)
THEOREM ShutdownLeavesNothing == ChannelSpec => []ShutdownIsComplete
<1>1. ChannelInv => ShutdownIsComplete
  BY DEF ChannelInv, ShutdownIsComplete, CloseInv, Stopped
<1>2. QED
  BY <1>1, ChannelInvariant, PTL

\* With it, an encoder of a channel that reports itself stopped has no child, no
\* reader and no writer at work, with no assumption on its callers.
THEOREM ChannelStoppedIsQuiesced == ChannelSpec => []StoppedMeansQuiesced
<1>1. TypeOK /\ OwnerInv /\ WriterInv => StoppedMeansQuiesced
  BY QuiescedByInvariant
<1>2. QED
  BY <1>1, ChannelInvariant, PTL DEF ChannelInv

(***************************************************************************)
(* No step of a channel launches a child while a stop of its encoder is    *)
(* pending (encoder.py:150-151, 285-288): neither the start of a client    *)
(* nor the restart the pump is in.                                         *)
(***************************************************************************)
THEOREM ChannelPendingStopBlocksLaunch == ChannelSpec => NoLaunchUnderPendingStop
<1>1. ChannelInv => TypeOK /\ OwnerInv /\ SerialInv
  BY DEF ChannelInv
<1>2. QED
  BY <1>1, ChannelIsALifecycle, ChannelInvariant, NoLaunchStep, PTL
  DEF Spec, NoLaunchUnderPendingStop

(***************************************************************************)
(* The encoder keeps its ownership contract (EncoderContract) in a channel *)
(* with any number of clients: the two refinements compose, and what the   *)
(* first had to assume of its callers is true of these.                    *)
(***************************************************************************)
THEOREM ChannelKeepsEncoderContract == ChannelSpec => ImplementsContract
<1>1. ChannelInv => RefinedInv
  BY DEF ChannelInv, RefinedInv
<1>2. RefinedInv /\ RefinedInv' /\ [Next]_vars => [Promised!ContractNext]_(Promised!contractVars)
  BY StepSimulates
<1>3. QED
  BY <1>1, <1>2, ChannelIsALifecycle, ChannelInvariant, InitSimulates, PTL
  DEF Spec, ImplementsContract, Promised!Contract

-----------------------------------------------------------------------------
(***************************************************************************)
(* The locks, in the order in which they are taken: 1 transition_lock,     *)
(* 2 channel.lock, 3 _lifecycle_lock, 4 _write_lock.                       *)
(***************************************************************************)
LockNumbers == 1 .. 4

Holds(t, l) ==
    \/ l = 1 /\ transition = t
    \/ l = 2 /\ channelLock = t
    \/ l = 3 /\ lifecycle = t
    \/ l = 4 /\ writeLock = t

\* Where a thread waits for a lock, with a deadline or without one.
Awaits(t, l) ==
    \/ l = 1 /\ (at[t] \in {"failed", "acquire"} \/ (t \in Clients /\ at[t] = "idle"))
    \/ l = 2 /\ at[t] \in {"enabling", "settle", "ready"}
    \/ l = 3 /\ pc[t] \in {"stop", "broken"}
    \/ l = 4 /\ (pc[t] = "drain" \/ at[t] = "holding")

Holder(t) == \E l \in LockNumbers : Holds(t, l)

\* A thread waits for a lock that somebody holds.
Blocked(t) == \E l \in LockNumbers : Awaits(t, l) /\ \E u \in Threads : Holds(u, l)

\* A thread only waits for a lock that comes after all those it holds.
LocksInOrder ==
    \A t \in Threads : \A h, l \in LockNumbers : Holds(t, h) /\ Awaits(t, l) => h < l

\* Among the threads that hold locks there is one that waits for none of them.
NoCircularWait ==
    (\E t \in Threads : Holder(t)) => \E t \in Threads : Holder(t) /\ ~Blocked(t)

\* A thread that holds a lock of the encoder is in a call of it.
LEMMA EncoderLocksInCall ==
    ASSUME ChannelInv, NEW t \in Threads, Holds(t, 3) \/ Holds(t, 4)
    PROVE  at[t] \in InEncoder /\ pc[t] \in HoldsLifecycle \cup HoldsWriteLock
<1>1. /\ (lifecycle = t) = (pc[t] \in HoldsLifecycle)
      /\ (writeLock = t) = (pc[t] \in HoldsWriteLock)
      /\ (pc[t] = "idle") = (call[t] = "none")
  BY DEF ChannelInv, OwnerInv, LockInv, CallInv
<1>2. pc[t] \in HoldsLifecycle \cup HoldsWriteLock
  BY <1>1 DEF Holds
<1>3. call[t] # "none"
  BY <1>1, <1>2 DEF HoldsLifecycle, HoldsWriteLock, Finishing
<1>4. call[t] \in {"start", "stop", "write"}
  BY <1>3 DEF ChannelInv, TypeOK
<1>5. at[t] \in InEncoder
  BY <1>4 DEF ChannelInv, PlaceInv, InEncoder
<1>6. QED
  BY <1>2, <1>5

\* What its place says of a thread that waits.
LEMMA WaitersAreInOrder == ASSUME ChannelInv PROVE LocksInOrder
<1> SUFFICES ASSUME NEW t \in Threads, NEW h \in LockNumbers, NEW l \in LockNumbers,
                    Holds(t, h), Awaits(t, l)
             PROVE  h < l
  BY DEF LocksInOrder
<1>1. /\ transition = t <=> at[t] \in Owning
      /\ channelLock = t <=> at[t] \in Holding
      /\ (lifecycle = t) = (pc[t] \in HoldsLifecycle)
      /\ (writeLock = t) = (pc[t] \in HoldsWriteLock)
  BY DEF ChannelInv, PlaceInv, OwnerInv, LockInv
<1>2. h \in {1, 2, 3, 4} /\ l \in {1, 2, 3, 4}
  BY DEF LockNumbers
<1>3. h \in {3, 4} => at[t] \in InEncoder
  BY EncoderLocksInCall
<1>4. CASE l = 1
  <2>1. at[t] \in {"failed", "acquire", "idle"}
    BY <1>4 DEF Awaits
  <2>2. h \notin {1, 2}
    BY <1>1, <2>1 DEF Holds, Owning, Holding
  <2>3. h \notin {3, 4}
    BY <1>3, <2>1 DEF InEncoder
  <2>4. QED
    BY <1>2, <2>2, <2>3
<1>5. CASE l = 2
  <2>1. at[t] \in {"enabling", "settle", "ready"}
    BY <1>5 DEF Awaits
  <2>2. h # 2
    BY <1>1, <2>1 DEF Holds, Holding
  <2>3. h \notin {3, 4}
    BY <1>3, <2>1 DEF InEncoder
  <2>4. QED
    BY <1>2, <1>5, <2>2, <2>3
<1>6. CASE l = 3
  <2>1. pc[t] \in {"stop", "broken"}
    BY <1>6 DEF Awaits
  <2>2. h \notin {3, 4}
    BY <1>1, <2>1 DEF Holds, HoldsLifecycle, HoldsWriteLock, Finishing
  <2>3. QED
    BY <1>2, <1>6, <2>2
<1>7. CASE l = 4
  <2>1. pc[t] = "drain" \/ at[t] = "holding"
    BY <1>7 DEF Awaits
  <2>2. CASE pc[t] = "drain"
    <3>1. h # 4
      BY <1>1, <2>2 DEF Holds, HoldsWriteLock
    <3>2. QED
      BY <1>2, <1>7, <3>1
  <2>3. CASE at[t] = "holding"
    <3>1. h \notin {3, 4}
      BY <1>3, <2>3 DEF InEncoder
    <3>2. QED
      BY <1>2, <1>7, <3>1
  <2>4. QED
    BY <2>1, <2>2, <2>3
<1>8. QED
  BY <1>2, <1>4, <1>5, <1>6, <1>7

\* The holder of the last lock that is held is not blocked.
LEMMA LastHolderRuns ==
    ASSUME LocksInOrder, NEW h \in LockNumbers, NEW t \in Threads, Holds(t, h),
           \A l \in LockNumbers : h < l => \A u \in Threads : ~Holds(u, l)
    PROVE  Holder(t) /\ ~Blocked(t)
  BY DEF LocksInOrder, Holder, Blocked

(***************************************************************************)
(* The threads of a channel never wait for each other in a circle: the     *)
(* four locks are taken in one order, also where the pump restarts its     *)
(* child with channel.lock in its hands and where it gives that lock up    *)
(* before it asks for the transition lock (runtime.py:106-109, 536-573,    *)
(* encoder.py:111-115), so that whenever locks are held one of the holders *)
(* is not waiting for another.                                             *)
(***************************************************************************)
THEOREM LocksCannotDeadlock == ChannelSpec => [](LocksInOrder /\ NoCircularWait)
<1>1. ASSUME LocksInOrder
      PROVE  NoCircularWait
  <2> DEFINE Held(l) == \E t \in Threads : Holds(t, l)
  <2> SUFFICES ASSUME \E t \in Threads : Holder(t)
               PROVE  \E t \in Threads : Holder(t) /\ ~Blocked(t)
    BY DEF NoCircularWait
  <2>1. PICK h \in LockNumbers : Held(h) /\ \A l \in LockNumbers : h < l => ~Held(l)
    <3>1. Held(1) \/ Held(2) \/ Held(3) \/ Held(4)
      <4>1. \A l \in LockNumbers : l = 1 \/ l = 2 \/ l = 3 \/ l = 4
        BY DEF LockNumbers
      <4>2. QED
        BY <4>1 DEF Holder
    <3> HIDE DEF Held
    <3>2. QED
      BY <3>1 DEF LockNumbers
  <2>2. PICK t \in Threads : Holds(t, h)
    BY <2>1
  <2>3. QED
    BY <1>1, <2>1, <2>2, LastHolderRuns
<1>2. ChannelInv => LocksInOrder /\ NoCircularWait
  BY <1>1, WaitersAreInOrder
<1>3. QED
  BY <1>2, ChannelInvariant, PTL

-----------------------------------------------------------------------------
(***************************************************************************)
(* The refinement.  First, the transition a thread's place stands for.     *)
(***************************************************************************)
OperationInv ==
    /\ Operation \in {"none", "start", "stop"}
    /\ transition = None => Operation = "none"
    /\ \A t \in Threads :
          /\ at[t] = "marking" => Operation = "none"
          /\ at[t] \in Enabling => Operation = "start"
          /\ at[t] \in {"quiesce", "stopping", "settle"} => Operation = "stop"

\* A thread's place says so because it is the only one in transition.
LEMMA OperationOfPlace ==
    ASSUME ChannelInv
    PROVE  OperationInv
<1>1. \A t, u \in Threads : at[t] \in Owning /\ at[u] \in Owning => t = u
  BY DEF ChannelInv, PlaceInv
<1>2. \A t \in Threads : at[t] \in Owning => transition # None
  BY ConstantTypes DEF ChannelInv, PlaceInv
<1>3. QED
  BY <1>1, <1>2 DEF OperationInv, Operation, Owning, Enabling

\* It is the same transition while nobody in one moves.
LEMMA SameOperation ==
    ASSUME ChannelInv, OperationInv, OperationInv', transition' = transition,
           \A t \in Threads : at[t] \in Owning => at'[t] = at[t]
    PROVE  Operation' = Operation
<1>1. CASE transition = None
  BY <1>1 DEF OperationInv
<1>2. CASE transition # None
  <2>1. PICK t \in Threads : transition = t
    BY <1>2 DEF ChannelInv, LockTypes
  <2>2. at[t] \in Owning /\ at'[t] = at[t]
    BY <2>1 DEF ChannelInv, PlaceInv
  <2>3. QED
    BY <2>2 DEF OperationInv, Owning, Enabling
<1>3. QED
  BY <1>1, <1>2

\* Inside a call, a child that lives is not replaced, and a closed encoder is
\* not opened: that is done by the step that ends the call.
LEMMA InsideStutters ==
    ASSUME TypeOK, OwnerInv, NEW t \in Threads, pc[t] # "idle", pc'[t] # "idle",
           Start(t) \/ Stop(t) \/ Restart(t) \/ Finish(t) \/ Write(t)
    PROVE  Running' = Running /\ Stopped' = Stopped
<1> USE ConstantTypes DEF Running, Stopped, Alive, Go, Return, owned, native, TypeOK
<1>1. CASE Start(t)
  BY <1>1 DEF Start, StartCall, StartUnchanged, StartLaunch, StartRestart, StartReturns,
     Enter
<1>2. CASE Stop(t)
  BY <1>2 DEF Stop, StopCall, StopAcquire, StopTimeout, StopClear, Enter
<1>3. CASE RestartBegin(t)
  BY <1>3 DEF RestartBegin, OwnerInv, TeardownInv
<1>4. CASE Restart(t) /\ ~RestartBegin(t)
  BY <1>4 DEF Restart, RestartSkip, RestartSuperseded, RestartLaunch
<1>5. CASE Terminate(t) \/ Kill(t)
  <2>1. target[t] = proc /\ proc \in Children
    BY <1>5 DEF Terminate, Kill, OwnerInv, TeardownInv, Finishing
  <2>2. /\ UNCHANGED <<proc, recorded, stopping>>
        /\ \A p \in Children : Alive(p)' <=> Alive(p)
    BY <1>5, <2>1 DEF Terminate, Kill, ChildStates
  <2>3. QED
    BY <2>1, <2>2
<1>6. CASE Finish(t) /\ ~Terminate(t) /\ ~Kill(t)
  BY <1>6 DEF Finish, Reap, DrainWriter, JoinReaders, FinishRaises
<1>7. CASE Write(t)
  BY <1>7 DEF Write, WriteCall, BeforeWrite, BeforeWriteRaises, WriteDone, WriteFails,
              RestartAcquire
<1>8. QED
  BY <1>1, <1>2, <1>3, <1>4, <1>5, <1>6, <1>7

\* The ends of a write that replace nothing.
LEMMA WriteEndsStutter ==
    ASSUME TypeOK, OwnerInv, SerialInv, NEW t \in Threads,
           \/ WriteDone(t) \/ BeforeWriteRaises(t) \/ RestartSkip(t) \/ RestartSuperseded(t)
           \/ FinishRaises(t)
    PROVE  Running' = Running /\ Stopped' = Stopped
<1> USE DEF Running, Stopped, Alive, owned, native
<1>1. CASE RestartSuperseded(t)
  <2>1. stopping /\ \A p \in Children : ~Alive(p)
    BY <1>1 DEF RestartSuperseded, SerialInv, OwnerInv, TeardownInv
  <2>2. proc' = None /\ stopping' = stopping
    BY <1>1 DEF RestartSuperseded
  <2>3. QED
    BY <2>1, <2>2 DEF TypeOK
<1>2. CASE ~RestartSuperseded(t)
  BY <1>2 DEF WriteDone, BeforeWriteRaises, RestartSkip, FinishRaises
<1>3. QED
  BY <1>1, <1>2

\* What a restart launches lives, and is owned; or there is nothing.
LEMMA RestartReplaces ==
    ASSUME TypeOK, NEW t \in Threads, RestartLaunch(t)
    PROVE  Running' = ~Stopped'
<1>1. Launch({})
  BY DEF RestartLaunch
<1>2. CASE Launched({})
  BY <1>2, ConstantTypes DEF Launched, Running, Stopped, Alive, TypeOK
<1>3. CASE LaunchRefused({})
  BY <1>3 DEF LaunchRefused, Running, Stopped
<1>4. CASE LaunchHalfDone({})
  BY <1>4, ConstantTypes DEF LaunchHalfDone, Running, Stopped, Alive, TypeOK
<1>5. QED
  BY <1>1, <1>2, <1>3, <1>4 DEF Launch

\* The environment only takes the child away.
LEMMA EnvironmentStutters ==
    ASSUME TypeOK, OwnerInv, Environment
    PROVE  /\ Stopped' = Stopped
           /\ Running' = Running \/ (Running /\ Running' = FALSE)
<1>1. UNCHANGED <<proc, recorded, stopping>>
  BY EnvironmentKeeps
<1>2. Stopped' = Stopped
  BY <1>1 DEF Stopped
<1>3. \A p \in Children : Alive(p)' => Alive(p)
  BY DEF Environment, ChildExits, ReaderExits, OutputFails, Alive, TypeOK
<1>4. QED
  BY <1>1, <1>2, <1>3 DEF Running, TypeOK

\* The pump replaces the child of an active channel that nobody stops; or a stop
\* is marked and has not reached the encoder, and this is part of its work.
LEMMA PumpReplaces ==
    ASSUME ChannelInv, OperationInv, at[Pump] = "writing", RestartLaunch(Pump),
           UNCHANGED <<active, draining, closing>>, Operation' = Operation
    PROVE  Contract!Next
<1>a. Pump \in Threads
  BY ChannelConstants DEF Threads
<1>1. active /\ call[Pump] = "write" /\ Pump \in current
  BY <1>a DEF ChannelInv, QueueInv, PlaceInv, RestartLaunch
<1>2. ~Stopped
  BY <1>a DEF ChannelInv, OwnerInv, TeardownInv, RestartLaunch, Stopped
<1>3. Running' = ~Stopped' /\ Running' \in BOOLEAN /\ (~Stopped)' \in BOOLEAN
  BY <1>a, RestartReplaces DEF ChannelInv, Running, Stopped
<1>4. CASE ~draining
  BY <1>1, <1>2, <1>3, <1>4 DEF Contract!Next, Contract!ChildReplaced
<1>5. CASE draining
  <2>1. PICK t \in Threads : at[t] = "quiesce"
    BY <1>1, <1>5 DEF ChannelInv, DrainInv
  <2>2. Operation = "stop"
    BY <2>1 DEF OperationInv
  <2>3. QED
    BY <1>1, <1>3, <2>2 DEF Contract!Next, Contract!Work
<1>6. QED
  BY <1>4, <1>5 DEF ChannelInv, FlagTypes

\* Every step of the channel is one the contract allows, or none.
LEMMA StepIsAllowed ==
    ASSUME ChannelInv, ChannelInv', OperationInv, OperationInv', ChannelNext
    PROVE  Contract!Next \/ UNCHANGED Contract!channelState
<1>a. /\ Pump \in Threads /\ Closer \in Threads /\ Clients \subseteq Threads
      /\ None \notin Threads /\ Pump # Closer /\ Pump \notin Clients /\ Closer \notin Clients
  BY ChannelConstants, ConstantTypes DEF Threads
<1>b. \A t \in Threads : at[t] \in {"holding", "writing"} => active
  BY DEF ChannelInv, QueueInv, PlaceInv
<1>c. /\ Running \in BOOLEAN /\ (~Stopped) \in BOOLEAN /\ (Running => ~Stopped)
      /\ Running' \in BOOLEAN /\ (~Stopped)' \in BOOLEAN /\ (Running' => ~Stopped')
  BY DEF Running, Stopped
<1> USE <1>a, <1>b, <1>c
    DEF ChannelInv, LockTypes, FlagTypes, PlaceInv, OperationInv, Owning, Enabling, MoveTo,
        flags, queue, locks, channelVars
<1>1. ASSUME NEW t \in Threads, Enable(t)
      PROVE  Contract!Next \/ UNCHANGED Contract!channelState
  <2>1. Running' = Running /\ Stopped' = Stopped
    BY <1>1 DEF Enable, vars, Running, Stopped, Alive
  <2>2. Operation = "none" /\ Operation' = "start"
    BY <1>1 DEF Enable
  <2>3. QED
    BY <1>1, <2>1, <2>2 DEF Enable, Contract!BeginStart, Contract!Next,
       Contract!channelState
<1>2. ASSUME NEW t \in Threads, EnableStart(t)
      PROVE  Contract!Next \/ UNCHANGED Contract!channelState
  <2>1. Running' = Running /\ Stopped' = Stopped
    BY <1>2 DEF EnableStart, StartCall, owned, native, Running, Stopped, Alive
  <2>2. Operation = "start" /\ Operation' = "start"
    BY <1>2 DEF EnableStart
  <2>3. QED
    BY <1>2, <2>1, <2>2 DEF EnableStart, Contract!channelState
<1>3. ASSUME NEW t \in Threads, StartDone(t)
      PROVE  Contract!Next \/ UNCHANGED Contract!channelState
  <2>1. Operation = "start" /\ Operation' = "start"
    BY <1>3 DEF StartDone
  <2>2. QED
    BY <1>3, <2>1 DEF StartDone, Contract!Work, Contract!Next, Contract!channelState
<1>4. ASSUME NEW t \in Threads, Activate(t)
      PROVE  Contract!Next \/ UNCHANGED Contract!channelState
  <2>1. Running' = Running /\ Stopped' = Stopped
    BY <1>4 DEF Activate, vars, Running, Stopped, Alive
  <2>2. Operation = "start" /\ Operation' = "none"
    BY <1>4 DEF Activate, Leave
  <2>3. Running /\ ~Stopped
    BY <1>4 DEF Activate
  <2>4. QED
    BY <1>4, <2>1, <2>2, <2>3 DEF Activate, Contract!Started, Contract!Next,
       Contract!channelState
<1>5. ASSUME NEW t \in Threads, ActivateFails(t)
      PROVE  Contract!Next \/ UNCHANGED Contract!channelState
  <2>1. Running' = Running /\ Stopped' = Stopped
    BY <1>5 DEF ActivateFails, vars, Running, Stopped, Alive
  <2>2. Operation = "start" /\ Operation' = "start"
    BY <1>5 DEF ActivateFails
  <2>3. QED
    BY <1>5, <2>1, <2>2 DEF ActivateFails, Contract!channelState
<1>6. ASSUME NEW t \in Threads, UndoStart(t)
      PROVE  Contract!Next \/ UNCHANGED Contract!channelState
  <2>1. Running' = Running
    BY <1>6 DEF UndoStart, StopCall, owned, native, Running, Alive
  <2>2. Operation = "start" /\ Operation' = "start"
    BY <1>6 DEF UndoStart
  <2>3. QED
    BY <1>6, <2>1, <2>2 DEF UndoStart, Contract!Work, Contract!Next, Contract!channelState
<1>7. ASSUME NEW t \in Threads, UndoDone(t)
      PROVE  Contract!Next \/ UNCHANGED Contract!channelState
  <2>1. Operation = "start" /\ Operation' = "none"
    BY <1>7 DEF UndoDone, Leave
  <2>2. QED
    BY <1>7, <2>1 DEF UndoDone, Contract!StartFails, Contract!Next, Contract!channelState
<1>8. ASSUME NEW t \in Threads, Disable(t)
      PROVE  Contract!Next \/ UNCHANGED Contract!channelState
  <2>1. Running' = Running /\ Stopped' = Stopped
    BY <1>8 DEF Disable, vars, Running, Stopped, Alive
  <2>2. Operation = "none" /\ Operation' = "none"
    BY <1>8 DEF Disable
  <2>3. QED
    BY <1>8, <2>1, <2>2 DEF Disable, Contract!channelState
<1>9. ASSUME NEW t \in Threads, AlreadyDisabled(t)
      PROVE  Contract!Next \/ UNCHANGED Contract!channelState
  <2>1. Running' = Running /\ Stopped' = Stopped
    BY <1>9 DEF AlreadyDisabled, vars, Running, Stopped, Alive
  <2>2. Operation' = Operation
    BY <1>9, SameOperation DEF AlreadyDisabled
  <2>3. QED
    BY <1>9, <2>1, <2>2 DEF AlreadyDisabled, Contract!channelState
<1>10. ASSUME NEW t \in Threads, Mark(t)
      PROVE  Contract!Next \/ UNCHANGED Contract!channelState
  <2>1. Running' = Running /\ Stopped' = Stopped
    BY <1>10 DEF Mark, vars, Running, Stopped, Alive
  <2>2. Operation = "none" /\ Operation' = "stop"
    BY <1>10 DEF Mark
  <2>3. QED
    BY <1>10, <2>1, <2>2 DEF Mark, Contract!BeginStop, Contract!Next, Contract!channelState
<1>11. ASSUME NEW t \in Threads, StopNative(t)
      PROVE  Contract!Next \/ UNCHANGED Contract!channelState
  <2>1. Running' = Running
    BY <1>11 DEF StopNative, StopCall, owned, native, Running, Alive
  <2>2. Operation = "stop" /\ Operation' = "stop"
    BY <1>11 DEF StopNative
  <2>3. QED
    BY <1>11, <2>1, <2>2 DEF StopNative, Contract!Work, Contract!Next, Contract!channelState
<1>12. ASSUME NEW t \in Threads, NativeStopped(t)
      PROVE  Contract!Next \/ UNCHANGED Contract!channelState
  <2>1. call[t] = "stop" /\ Operation = "stop"
    BY <1>12 DEF NativeStopped
  <2>2. proc' \in {proc, None} /\ child' = child
    BY <1>12, <2>1, StopEnds DEF NativeStopped
  <2>3. Running' => Running
    BY <2>2 DEF Running, Alive
  <2>4. CASE Stopped'
    <3>1. Operation' = "stop"
      BY <1>12, <2>4 DEF NativeStopped
    <3>2. QED
      BY <1>12, <2>1, <2>3, <2>4, <3>1 DEF NativeStopped, Contract!Work, Contract!Next,
         Contract!channelState
  <2>5. CASE ~Stopped'
    <3>1. Operation' = "none"
      BY <1>12, <2>5 DEF NativeStopped, Leave
    <3>2. QED
      BY <1>12, <2>1, <2>3, <2>5, <3>1 DEF NativeStopped, Contract!StopFails,
         Contract!Next, Contract!channelState
  <2>6. QED
    BY <2>4, <2>5
<1>13. ASSUME NEW t \in Threads, Settle(t)
      PROVE  Contract!Next \/ UNCHANGED Contract!channelState
  <2>1. Running' = Running /\ Stopped' = Stopped
    BY <1>13 DEF Settle, vars, Running, Stopped, Alive
  <2>2. Operation = "stop" /\ Operation' = "none"
    BY <1>13 DEF Settle, Leave
  <2>3. Stopped /\ ~Running
    BY <1>13 DEF Settle, DrainInv
  <2>4. QED
    BY <1>13, <2>1, <2>2, <2>3 DEF Settle, Contract!Stopped, Contract!Next,
       Contract!channelState
<1>14. ASSUME NEW t \in Threads, SettleTimeout(t)
      PROVE  Contract!Next \/ UNCHANGED Contract!channelState
  <2>1. Running' = Running /\ Stopped' = Stopped
    BY <1>14 DEF SettleTimeout, vars, Running, Stopped, Alive
  <2>2. Operation = "stop" /\ Operation' = "none"
    BY <1>14 DEF SettleTimeout, Leave
  <2>3. active
    <3>1. PICK u \in Threads : channelLock = u
      BY <1>14 DEF SettleTimeout, LockTypes
    <3>2. at[u] \in {"holding", "writing"}
      BY <1>14, <3>1 DEF SettleTimeout, PlaceInv, Holding, Owning
    <3>3. QED
      BY <3>2
  <2>4. QED
    BY <1>14, <2>1, <2>2, <2>3 DEF SettleTimeout, Contract!StopFails, Contract!Next,
       Contract!channelState
<1>15. CASE Submit
  <2>1. Running' = Running /\ Stopped' = Stopped
    BY <1>15 DEF Submit, vars, Running, Stopped, Alive
  <2>2. Operation' = Operation
    BY <1>15, SameOperation DEF Submit
  <2>3. QED
    BY <1>15, <2>1, <2>2 DEF Submit, Contract!channelState
<1>16. CASE PumpWakes
  <2>1. Running' = Running /\ Stopped' = Stopped
    BY <1>16 DEF PumpWakes, vars, Running, Stopped, Alive
  <2>2. Operation' = Operation
    BY <1>16, SameOperation DEF PumpWakes
  <2>3. QED
    BY <1>16, <2>1, <2>2 DEF PumpWakes, Contract!channelState
<1>17. CASE PumpEnds
  <2>1. Running' = Running /\ Stopped' = Stopped
    BY <1>17 DEF PumpEnds, vars, Running, Stopped, Alive
  <2>2. Operation' = Operation
    BY <1>17, SameOperation DEF PumpEnds
  <2>3. QED
    BY <1>17, <2>1, <2>2 DEF PumpEnds, Contract!channelState
<1>18. CASE PumpTakes
  <2>1. Running' = Running /\ Stopped' = Stopped
    BY <1>18 DEF PumpTakes, vars, Running, Stopped, Alive
  <2>2. Operation' = Operation
    BY <1>18, SameOperation DEF PumpTakes
  <2>3. QED
    BY <1>18, <2>1, <2>2 DEF PumpTakes, Contract!channelState
<1>19. CASE PumpFindsNothing
  <2>1. Running' = Running /\ Stopped' = Stopped
    BY <1>19 DEF PumpFindsNothing, vars, Running, Stopped, Alive
  <2>2. Operation' = Operation
    BY <1>19, SameOperation DEF PumpFindsNothing
  <2>3. QED
    BY <1>19, <2>1, <2>2 DEF PumpFindsNothing, Contract!channelState
<1>20. CASE PumpWrites
  <2>1. Running' = Running /\ Stopped' = Stopped
    BY <1>20 DEF PumpWrites, WriteCall, owned, native, Running, Stopped, Alive
  <2>2. Operation' = Operation
    BY <1>20, SameOperation DEF PumpWrites
  <2>3. QED
    BY <1>20, <2>1, <2>2 DEF PumpWrites, Contract!channelState
<1>21. CASE PumpWriteDropped
  <2>1. Running' = Running /\ Stopped' = Stopped
    BY <1>21 DEF PumpWriteDropped, vars, Running, Stopped, Alive
  <2>2. Operation' = Operation
    BY <1>21, SameOperation DEF PumpWriteDropped
  <2>3. QED
    BY <1>21, <2>1, <2>2 DEF PumpWriteDropped, Contract!channelState
<1>22. CASE PumpWriteReturns
  <2>1. Operation' = Operation
    BY <1>22, SameOperation DEF PumpWriteReturns
  <2>2. CASE RestartLaunch(Pump)
    BY <1>22, <2>1, <2>2, PumpReplaces DEF PumpWriteReturns
  <2>3. CASE ~RestartLaunch(Pump)
    <3>1. Running' = Running /\ Stopped' = Stopped
      BY <1>22, <2>3, WriteEndsStutter DEF PumpWriteReturns
    <3>2. QED
      BY <1>22, <2>1, <3>1 DEF PumpWriteReturns, Contract!channelState
  <2>4. QED
    BY <2>2, <2>3
<1>23. CASE PumpWriteRaises
  <2>1. Operation' = Operation
    BY <1>23, SameOperation DEF PumpWriteRaises
  <2>2. CASE RestartLaunch(Pump)
    BY <1>23, <2>1, <2>2, PumpReplaces DEF PumpWriteRaises
  <2>3. CASE ~RestartLaunch(Pump)
    <3>1. Running' = Running /\ Stopped' = Stopped
      BY <1>23, <2>3, WriteEndsStutter DEF PumpWriteRaises
    <3>2. QED
      BY <1>23, <2>1, <3>1 DEF PumpWriteRaises, Contract!channelState
  <2>4. QED
    BY <2>2, <2>3
<1>24. CASE CloseBegin
  <2>1. Running' = Running /\ Stopped' = Stopped
    BY <1>24 DEF CloseBegin, vars, Running, Stopped, Alive
  <2>2. Operation' = Operation
    BY <1>24, SameOperation DEF CloseBegin
  <2>3. QED
    BY <1>24, <2>1, <2>2 DEF CloseBegin, Contract!Close, Contract!Next,
       Contract!channelState
<1>25. CASE SignalPump
  <2>1. Running' = Running /\ Stopped' = Stopped
    BY <1>25 DEF SignalPump, vars, Running, Stopped, Alive
  <2>2. Operation' = Operation
    BY <1>25, SameOperation DEF SignalPump
  <2>3. QED
    BY <1>25, <2>1, <2>2 DEF SignalPump, Contract!channelState
<1>26. CASE CloseAcquire
  <2>1. Running' = Running /\ Stopped' = Stopped
    BY <1>26 DEF CloseAcquire, vars, Running, Stopped, Alive
  <2>2. Operation = "none" /\ Operation' = "none"
    BY <1>26 DEF CloseAcquire
  <2>3. QED
    BY <1>26, <2>1, <2>2 DEF CloseAcquire, Contract!channelState
<1>27. CASE CloseTimeout
  <2>1. Running' = Running /\ Stopped' = Stopped
    BY <1>27 DEF CloseTimeout, vars, Running, Stopped, Alive
  <2>2. Operation' = Operation
    BY <1>27, SameOperation DEF CloseTimeout
  <2>3. QED
    BY <1>27, <2>1, <2>2 DEF CloseTimeout, Contract!channelState
<1>28. CASE JoinPump
  <2>1. Running' = Running /\ Stopped' = Stopped
    BY <1>28 DEF JoinPump, vars, Running, Stopped, Alive
  <2>2. Operation' = Operation
    BY <1>28, SameOperation DEF JoinPump
  <2>3. QED
    BY <1>28, <2>1, <2>2 DEF JoinPump, Contract!channelState
<1>29. CASE RuntimeStart
  <2>1. Running' = Running /\ Stopped' = Stopped
    BY <1>29 DEF RuntimeStart, vars, Running, Stopped, Alive
  <2>2. transition = None /\ ~active /\ Stopped
    BY <1>29 DEF RuntimeStart, CloseInv
  <2>3. Operation = "none" /\ Operation' = "none"
    BY <1>29, <2>2 DEF RuntimeStart
  <2>4. QED
    BY <1>29, <2>1, <2>2, <2>3 DEF RuntimeStart, Contract!Reopen, Contract!Next,
       Contract!channelState
<1>30. CASE EncoderStep
  <2>1. Operation' = Operation /\ UNCHANGED <<active, draining, closing>>
    BY <1>30, SameOperation DEF EncoderStep
  <2>2. CASE Environment
    <3>1. CASE Running' = Running
      BY <2>1, <2>2, <3>1, EnvironmentStutters DEF Contract!channelState
    <3>2. CASE Running /\ Running' = FALSE
      BY <2>1, <2>2, <3>2, EnvironmentStutters DEF Contract!ChildDies, Contract!Next,
         Contract!channelState
    <3>3. QED
      BY <2>2, <3>1, <3>2, EnvironmentStutters
  <2>3. CASE ~Environment
    <3>1. Running' = Running /\ Stopped' = Stopped
      BY <1>30, <2>3, InsideStutters DEF EncoderStep
    <3>2. QED
      BY <2>1, <3>1 DEF Contract!channelState
  <2>4. QED
    BY <2>2, <2>3
<1>31. QED
  BY <1>1, <1>2, <1>3, <1>4, <1>5, <1>6, <1>7, <1>8, <1>9, <1>10, <1>11, <1>12, <1>13,
     <1>14, <1>15, <1>16, <1>17, <1>18, <1>19, <1>20, <1>21, <1>22, <1>23, <1>24, <1>25,
     <1>26, <1>27, <1>28, <1>29, <1>30
  DEF ChannelNext, SetActive, Deactivate, PumpLoop, Shutdown

(***************************************************************************)
(* The channel around the real encoder does what ChannelContract allows:   *)
(* it becomes inactive only when the encoder owns nothing, a stop that     *)
(* failed stays unfinished, no start begins under an unfinished stop or a  *)
(* shutdown (runtime.py:412-413), and a child is launched only by a start  *)
(* or by the pump of an active channel.                                    *)
(***************************************************************************)
THEOREM ChannelRefinesContract == ChannelSpec => ImplementsChannel
<1>1. ChannelInit => Contract!Init
  BY DEF ChannelInit, Init, Contract!Init, Operation, Running, Stopped
<1>2. ChannelInv => OperationInv
  BY OperationOfPlace
<1>3. /\ ChannelInv /\ ChannelInv' /\ OperationInv /\ OperationInv' /\ [ChannelNext]_allVars
      => [Contract!Next]_(Contract!channelState)
  <2>1. CASE UNCHANGED allVars
    BY <2>1 DEF allVars, vars, channelVars, flags, queue, locks, Contract!channelState,
                Operation, Running, Stopped, Alive
  <2>2. QED
    BY <2>1, StepIsAllowed
<1>4. QED
  BY <1>1, <1>2, <1>3, ChannelInvariant, PTL DEF ChannelSpec, ImplementsChannel,
     Contract!Spec
=============================================================================
