-------------------------- MODULE SourceControlProofs --------------------------
(***************************************************************************)
(* Proofs about SourceControl for any number of worker threads and any     *)
(* bound on the revisions: what a receipt, a revision, a replaced encoder  *)
(* and the endpoint mean, and that the channel assumed there does only     *)
(* what ChannelContract allows.                                            *)
(***************************************************************************)
EXTENDS SourceControl, SequenceTheorems, TLAPS

\* Where a request holds the transition lock of the server.
Transiting == {"decide", "assign", "call", "native", "applying", "applied", "judge",
               "receipt", "failed", "configure", "reconfigure", "bump", "keyframe"}

\* The two locks are held by the requests whose position says so.
HolderInv ==
    \A j \in Jobs :
        /\ transition = j <=> at[j] \in Transiting
        /\ native = j <=> at[j] \in {"applying", "reconfigure"}

IsDown == ~active /\ ~running /\ ~owned /\ ~unfinished

\* How far shutdown got, and what it has made sure of by then.
ShutdownInv ==
    /\ owner \notin {"idle", "admission"} => closing
    /\ owner \in {"deactivate", "stopping", "release", "finished"} =>
            \A j \in Jobs : at[j] = "idle"
    /\ listening <=> owner # "finished"
    /\ native = Owner <=> owner = "stopping"
    /\ native = Pump => pumpAlive
    /\ owner \in {"release", "finished"} => IsDown /\ ~pumpAlive

\* The channel, and what the request that works on it knows of it.  An unfinished
\* stop finds something to do, or is still being done.
ChannelInv ==
    /\ running => owned
    /\ unfinished => active \/ owned \/ native # None
    /\ \A j \in Jobs :
          /\ at[j] = "applying" /\ Wanted(j) => ~unfinished
          /\ at[j] = "reconfigure" => IsDown
          /\ at[j] \in {"applied", "judge", "receipt"} /\ ~Wanted(j) =>
                IsDown /\ native = None

\* Every applied update is counted, the last one perhaps not yet.
RevisionInv ==
    /\ \A i \in 1 .. Len(accepted) : accepted[i] = i
    /\ \A j \in Jobs :
          /\ at[j] \in {"reconfigure", "bump"} => expected[j] = revision
          /\ at[j] = "bump" => revision < MaxRevision /\ Len(accepted) = revision
    /\ (\A j \in Jobs : at[j] # "bump") => Len(accepted) + 1 = revision

\* The inductive invariant.
IInv == TypeOK /\ HolderInv /\ ShutdownInv /\ ChannelInv /\ RevisionInv

\* TypeOK, of the flags and of all the rest.
FlagTypes ==
    /\ closing \in BOOLEAN /\ desired \in BOOLEAN /\ lastError \in BOOLEAN
    /\ runtimeClosing \in BOOLEAN /\ listening \in BOOLEAN
    /\ active \in BOOLEAN /\ running \in BOOLEAN /\ owned \in BOOLEAN /\ unfinished \in BOOLEAN
    /\ pumpAlive \in BOOLEAN
    /\ seen \in [Jobs -> BOOLEAN \X BOOLEAN]

PlaceTypes ==
    /\ phase \in {"", "starting", "stopping"}
    /\ revision \in 1 .. MaxRevision
    /\ transition \in Jobs \cup {None}
    /\ captureSlot \in Jobs \cup {None}
    /\ at \in [Jobs -> {"idle", "waiting", "decide", "assign", "call", "native",
                        "applying", "applied", "judge", "receipt", "failed",
                        "configure", "reconfigure", "bump", "keyframe", "capturing"}]
    /\ request \in [Jobs -> Operations]
    /\ expected \in [Jobs -> 1 .. MaxRevision]
    /\ accepted \in Seq(1 .. MaxRevision)
    /\ native \in Jobs \cup {Owner, Pump, None}
    /\ owner \in {"idle", "admission", "quiesce", "deactivate", "stopping",
                  "release", "finished"}

\* These two are TypeOK.
LEMMA TypesInTwo == TypeOK <=> FlagTypes /\ PlaceTypes
  BY DEF TypeOK, FlagTypes, PlaceTypes

\* A revision below the bound has a next one.
LEMMA NextRevision ==
    ASSUME NEW n \in 1 .. MaxRevision, n < MaxRevision
    PROVE  n + 1 \in 1 .. MaxRevision
  BY ControlConstants

\* A sequence that counts from 1 still does when it is given its next number.
LEMMA AppendNext ==
    ASSUME NEW S, NEW s \in Seq(S), NEW e \in S,
           e = Len(s) + 1, \A i \in 1 .. Len(s) : s[i] = i
    PROVE  /\ Len(Append(s, e)) = e
           /\ \A i \in 1 .. Len(Append(s, e)) : Append(s, e)[i] = i
  BY AppendProperties, LenProperties

\* A new server is at revision 1 and has applied nothing.
LEMMA NothingCounted == Len(<<>>) + 1 = 1 /\ \A i \in 1 .. Len(<<>>) : FALSE
  BY EmptySeq

\* An applied update is that of the current revision, and counted as its own.
LEMMA AppliedIsCounted ==
    ASSUME IInv, NEW j \in Jobs, ConfigureApplies(j)
    PROVE  /\ Len(accepted') = revision
           /\ \A i \in 1 .. Len(accepted') : accepted'[i] = i
<1>1. /\ accepted \in Seq(1 .. MaxRevision)
      /\ expected[j] \in 1 .. MaxRevision
  BY DEF IInv, TypeOK
<1>2. \A k \in Jobs : at[k] # "bump"
  BY DEF ConfigureApplies, IInv, HolderInv, Transiting
<1>3. expected[j] = revision /\ expected[j] = Len(accepted) + 1
  BY <1>2 DEF ConfigureApplies, IInv, RevisionInv
<1>4. \A i \in 1 .. Len(accepted) : accepted[i] = i
  BY DEF IInv, RevisionInv
<1>5. /\ Len(Append(accepted, expected[j])) = expected[j]
      /\ \A i \in 1 .. Len(Append(accepted, expected[j])) :
            Append(accepted, expected[j])[i] = i
  BY <1>1, <1>3, <1>4, AppendNext
<1>6. QED
  BY <1>3, <1>5 DEF ConfigureApplies

\* A step keeps the types of the flags.
LEMMA StepKeepsFlags ==
    ASSUME IInv, Next
    PROVE  FlagTypes'
<1> USE TypesInTwo DEF IInv, FlagTypes, Go, control, jobs, channel, encoder, process
<1>1. ASSUME NEW j \in Jobs, NEW operation \in Operations, NEW r \in 1 .. revision,
             Admit(j, operation, r)
      PROVE  FlagTypes'
  BY <1>1 DEF Admit
<1>2. ASSUME NEW j \in Jobs, Deadline(j)
      PROVE  FlagTypes'
  BY <1>2 DEF Deadline, End
<1>3. ASSUME NEW j \in Jobs, Acquire(j)
      PROVE  FlagTypes'
  BY <1>3 DEF Acquire, TransitionFree
<1>4. ASSUME NEW j \in Jobs, ReadClosing(j)
      PROVE  FlagTypes'
  BY <1>4 DEF ReadClosing
<1>5. ASSUME NEW j \in Jobs, Assign(j)
      PROVE  FlagTypes'
  BY <1>5 DEF Assign, Wanted, Wanted
<1>6. ASSUME NEW j \in Jobs, Call(j)
      PROVE  FlagTypes'
  BY <1>6 DEF Call
<1>7. ASSUME NEW j \in Jobs, NativeRefuses(j)
      PROVE  FlagTypes'
  BY <1>7 DEF NativeRefuses
<1>8. ASSUME NEW j \in Jobs, NativeUnchanged(j)
      PROVE  FlagTypes'
  BY <1>8 DEF NativeUnchanged, Applied
<1>9. ASSUME NEW j \in Jobs, NativeBegin(j)
      PROVE  FlagTypes'
  BY <1>9 DEF NativeBegin, Applied
<1>10. ASSUME NEW j \in Jobs, NativeApplies(j)
      PROVE  FlagTypes'
  BY <1>10 DEF NativeApplies, Down
<1>11. ASSUME NEW j \in Jobs, NativeFails(j)
      PROVE  FlagTypes'
  BY <1>11 DEF NativeFails, StopGivesUp
<1>12. ASSUME NEW j \in Jobs, ReadStatus(j)
      PROVE  FlagTypes'
  BY <1>12 DEF ReadStatus
<1>13. ASSUME NEW j \in Jobs, Judge(j)
      PROVE  FlagTypes'
  BY <1>13 DEF Judge
<1>14. ASSUME NEW j \in Jobs, Receipt(j)
      PROVE  FlagTypes'
  BY <1>14 DEF Receipt, SetActiveEnds, End
<1>15. ASSUME NEW j \in Jobs, Failed(j)
      PROVE  FlagTypes'
  BY <1>15 DEF Failed, SetActiveEnds, End
<1>16. ASSUME NEW j \in Jobs, ConfigureBegin(j)
      PROVE  FlagTypes'
  BY <1>16 DEF ConfigureBegin, RevisionIsCurrent, RtpIdle
<1>17. ASSUME NEW j \in Jobs, ConfigureApplies(j)
      PROVE  FlagTypes'
  BY <1>17 DEF ConfigureApplies
<1>18. ASSUME NEW j \in Jobs, RequestRaises(j)
      PROVE  FlagTypes'
  BY <1>18 DEF RequestRaises, End
<1>19. ASSUME NEW j \in Jobs, BumpRevision(j)
      PROVE  FlagTypes'
  BY <1>19 DEF BumpRevision, End
<1>20. ASSUME NEW j \in Jobs, CaptureBegin(j)
      PROVE  FlagTypes'
  BY <1>20 DEF CaptureBegin
<1>21. ASSUME NEW j \in Jobs, CaptureEnds(j)
      PROVE  FlagTypes'
  BY <1>21 DEF CaptureEnds, End
<1>22. CASE ChildDies
  BY <1>22 DEF ChildDies
<1>23. CASE PumpRestarts
  BY <1>23 DEF PumpRestarts
<1>24. CASE PumpStopBegins
  BY <1>24 DEF PumpStopBegins
<1>25. CASE PumpStopEnds
  BY <1>25 DEF PumpStopEnds, Unlocked, Down, StopGivesUp
<1>26. CASE ShutdownBegin
  BY <1>26 DEF ShutdownBegin
<1>27. CASE BeginClose
  BY <1>27 DEF BeginClose
<1>28. CASE WaitQuiescent
  BY <1>28 DEF WaitQuiescent
<1>29. CASE StopPumps
  BY <1>29 DEF StopPumps
<1>30. CASE NativeDown
  BY <1>30 DEF NativeDown, DownChecked, Down
<1>31. CASE ShutdownFails
  BY <1>31 DEF ShutdownFails, StopGivesUp
<1>32. CASE ReleaseEndpoint
  BY <1>32 DEF ReleaseEndpoint
<1>33. CASE RuntimeStart
  BY <1>33 DEF RuntimeStart, FreshServer
<1>34. QED
  BY <1>1, <1>2, <1>3, <1>4, <1>5, <1>6, <1>7, <1>8, <1>9, <1>10, <1>11, <1>12, <1>13,
     <1>14, <1>15, <1>16, <1>17, <1>18, <1>19, <1>20, <1>21, <1>22, <1>23, <1>24, <1>25,
     <1>26, <1>27, <1>28, <1>29, <1>30, <1>31, <1>32, <1>33
  DEF Next, JobStep, SetActive, Configure, Capture, ChannelStep, Shutdown

\* A step keeps the types of the rest.
LEMMA StepKeepsPlaces ==
    ASSUME IInv, Next
    PROVE  PlaceTypes'
<1> USE ControlConstants
    DEF PlaceTypes, Operations, Go, control, jobs, channel, encoder, process
<1>a. PlaceTypes
  BY TypesInTwo DEF IInv
<1>b. revision \in 1 .. MaxRevision
  BY <1>a
<1>c. 1 \in 1 .. MaxRevision /\ \A r \in 1 .. revision : r \in 1 .. MaxRevision
  BY <1>b
<1> USE <1>a, <1>b, <1>c
<1>1. ASSUME NEW j \in Jobs, NEW operation \in Operations, NEW r \in 1 .. revision,
             Admit(j, operation, r)
      PROVE  PlaceTypes'
  BY <1>1 DEF Admit
<1>2. ASSUME NEW j \in Jobs, Deadline(j)
      PROVE  PlaceTypes'
  BY <1>2 DEF Deadline, End
<1>3. ASSUME NEW j \in Jobs, Acquire(j)
      PROVE  PlaceTypes'
  BY <1>3 DEF Acquire, TransitionFree
<1>4. ASSUME NEW j \in Jobs, ReadClosing(j)
      PROVE  PlaceTypes'
  BY <1>4 DEF ReadClosing
<1>5. ASSUME NEW j \in Jobs, Assign(j)
      PROVE  PlaceTypes'
  BY <1>5 DEF Assign, Wanted, Wanted
<1>6. ASSUME NEW j \in Jobs, Call(j)
      PROVE  PlaceTypes'
  BY <1>6 DEF Call
<1>7. ASSUME NEW j \in Jobs, NativeRefuses(j)
      PROVE  PlaceTypes'
  BY <1>7 DEF NativeRefuses
<1>8. ASSUME NEW j \in Jobs, NativeUnchanged(j)
      PROVE  PlaceTypes'
  BY <1>8 DEF NativeUnchanged, Applied
<1>9. ASSUME NEW j \in Jobs, NativeBegin(j)
      PROVE  PlaceTypes'
  BY <1>9 DEF NativeBegin, Applied
<1>10. ASSUME NEW j \in Jobs, NativeApplies(j)
      PROVE  PlaceTypes'
  BY <1>10 DEF NativeApplies, Down
<1>11. ASSUME NEW j \in Jobs, NativeFails(j)
      PROVE  PlaceTypes'
  BY <1>11 DEF NativeFails, StopGivesUp
<1>12. ASSUME NEW j \in Jobs, ReadStatus(j)
      PROVE  PlaceTypes'
  BY <1>12 DEF ReadStatus
<1>13. ASSUME NEW j \in Jobs, Judge(j)
      PROVE  PlaceTypes'
  BY <1>13 DEF Judge
<1>14. ASSUME NEW j \in Jobs, Receipt(j)
      PROVE  PlaceTypes'
  BY <1>14 DEF Receipt, SetActiveEnds, End
<1>15. ASSUME NEW j \in Jobs, Failed(j)
      PROVE  PlaceTypes'
  BY <1>15 DEF Failed, SetActiveEnds, End
<1>16. ASSUME NEW j \in Jobs, ConfigureBegin(j)
      PROVE  PlaceTypes'
  BY <1>16 DEF ConfigureBegin, RevisionIsCurrent, RtpIdle
<1>17. ASSUME NEW j \in Jobs, ConfigureApplies(j)
      PROVE  PlaceTypes'
  <2>1. accepted \in Seq(1 .. MaxRevision) /\ expected[j] \in 1 .. MaxRevision
    BY <1>a
  <2>2. Append(accepted, expected[j]) \in Seq(1 .. MaxRevision)
    BY <2>1, AppendProperties
  <2>3. QED
    BY <1>17, <2>2 DEF ConfigureApplies
<1>18. ASSUME NEW j \in Jobs, RequestRaises(j)
      PROVE  PlaceTypes'
  BY <1>18 DEF RequestRaises, End
<1>19. ASSUME NEW j \in Jobs, BumpRevision(j)
      PROVE  PlaceTypes'
  <2>1. revision < MaxRevision
    BY <1>19 DEF BumpRevision, IInv, RevisionInv
  <2>2. revision' = revision + 1
    BY <1>19 DEF BumpRevision
  <2>3. revision' \in 1 .. MaxRevision
    BY <1>b, <2>1, <2>2, NextRevision
  <2>4. QED
    BY <1>19, <2>3 DEF BumpRevision, End
<1>20. ASSUME NEW j \in Jobs, CaptureBegin(j)
      PROVE  PlaceTypes'
  BY <1>20 DEF CaptureBegin
<1>21. ASSUME NEW j \in Jobs, CaptureEnds(j)
      PROVE  PlaceTypes'
  BY <1>21 DEF CaptureEnds, End
<1>22. CASE ChildDies
  BY <1>22 DEF ChildDies
<1>23. CASE PumpRestarts
  BY <1>23 DEF PumpRestarts
<1>24. CASE PumpStopBegins
  BY <1>24 DEF PumpStopBegins
<1>25. CASE PumpStopEnds
  BY <1>25 DEF PumpStopEnds, Unlocked, Down, StopGivesUp
<1>26. CASE ShutdownBegin
  BY <1>26 DEF ShutdownBegin
<1>27. CASE BeginClose
  BY <1>27 DEF BeginClose
<1>28. CASE WaitQuiescent
  BY <1>28 DEF WaitQuiescent
<1>29. CASE StopPumps
  BY <1>29 DEF StopPumps
<1>30. CASE NativeDown
  BY <1>30 DEF NativeDown, DownChecked, Down
<1>31. CASE ShutdownFails
  BY <1>31 DEF ShutdownFails, StopGivesUp
<1>32. CASE ReleaseEndpoint
  BY <1>32 DEF ReleaseEndpoint
<1>33. CASE RuntimeStart
  <2>1. accepted' = <<>> /\ revision' = 1
    BY <1>33 DEF RuntimeStart, FreshServer
  <2>2. <<>> \in Seq(1 .. MaxRevision)
    BY EmptySeq
  <2>3. accepted' \in Seq(1 .. MaxRevision)
    BY <2>1, <2>2
  <2>4. QED
    BY <1>33, <2>1, <2>3 DEF RuntimeStart, FreshServer
<1>34. QED
  BY <1>1, <1>2, <1>3, <1>4, <1>5, <1>6, <1>7, <1>8, <1>9, <1>10, <1>11, <1>12, <1>13,
     <1>14, <1>15, <1>16, <1>17, <1>18, <1>19, <1>20, <1>21, <1>22, <1>23, <1>24, <1>25,
     <1>26, <1>27, <1>28, <1>29, <1>30, <1>31, <1>32, <1>33, ZenonT(60)
  DEF Next, JobStep, SetActive, Configure, Capture, ChannelStep, Shutdown

\* A step keeps what is said of the locks, of shutdown and of the channel.
LEMMA StepKeepsHolders ==
    ASSUME IInv, Next
    PROVE  HolderInv' /\ ShutdownInv' /\ ChannelInv'
<1> USE ControlConstants
    DEF IInv, TypeOK, HolderInv, ShutdownInv, ChannelInv, Transiting, IsDown, Wanted,
        Go, control, jobs, channel, encoder, process
<1>1. ASSUME NEW j \in Jobs, NEW operation \in Operations, NEW r \in 1 .. revision,
             Admit(j, operation, r)
      PROVE  HolderInv' /\ ShutdownInv' /\ ChannelInv'
  BY <1>1, ZenonT(60) DEF Admit
<1>2. ASSUME NEW j \in Jobs, Deadline(j)
      PROVE  HolderInv' /\ ShutdownInv' /\ ChannelInv'
  BY <1>2 DEF Deadline, End
<1>3. ASSUME NEW j \in Jobs, Acquire(j)
      PROVE  HolderInv' /\ ShutdownInv' /\ ChannelInv'
  BY <1>3 DEF Acquire, TransitionFree
<1>4. ASSUME NEW j \in Jobs, ReadClosing(j)
      PROVE  HolderInv' /\ ShutdownInv' /\ ChannelInv'
  BY <1>4 DEF ReadClosing
<1>5. ASSUME NEW j \in Jobs, Assign(j)
      PROVE  HolderInv' /\ ShutdownInv' /\ ChannelInv'
  BY <1>5 DEF Assign, Wanted, Wanted
<1>6. ASSUME NEW j \in Jobs, Call(j)
      PROVE  HolderInv' /\ ShutdownInv' /\ ChannelInv'
  BY <1>6 DEF Call
<1>7. ASSUME NEW j \in Jobs, NativeRefuses(j)
      PROVE  HolderInv' /\ ShutdownInv' /\ ChannelInv'
  BY <1>7 DEF NativeRefuses
<1>8. ASSUME NEW j \in Jobs, NativeUnchanged(j)
      PROVE  HolderInv' /\ ShutdownInv' /\ ChannelInv'
  BY <1>8 DEF NativeUnchanged, Applied
<1>9. ASSUME NEW j \in Jobs, NativeBegin(j)
      PROVE  HolderInv' /\ ShutdownInv' /\ ChannelInv'
  BY <1>9, ZenonT(60) DEF NativeBegin, Applied
<1>10. ASSUME NEW j \in Jobs, NativeApplies(j)
      PROVE  HolderInv' /\ ShutdownInv' /\ ChannelInv'
  BY <1>10, ZenonT(60) DEF NativeApplies, Down
<1>11. ASSUME NEW j \in Jobs, NativeFails(j)
      PROVE  HolderInv' /\ ShutdownInv' /\ ChannelInv'
  BY <1>11, ZenonT(60) DEF NativeFails, StopGivesUp
<1>12. ASSUME NEW j \in Jobs, ReadStatus(j)
      PROVE  HolderInv' /\ ShutdownInv' /\ ChannelInv'
  BY <1>12 DEF ReadStatus
<1>13. ASSUME NEW j \in Jobs, Judge(j)
      PROVE  HolderInv' /\ ShutdownInv' /\ ChannelInv'
  BY <1>13, ZenonT(60) DEF Judge
<1>14. ASSUME NEW j \in Jobs, Receipt(j)
      PROVE  HolderInv' /\ ShutdownInv' /\ ChannelInv'
  BY <1>14, ZenonT(60) DEF Receipt, SetActiveEnds, End
<1>15. ASSUME NEW j \in Jobs, Failed(j)
      PROVE  HolderInv' /\ ShutdownInv' /\ ChannelInv'
  BY <1>15, ZenonT(60) DEF Failed, SetActiveEnds, End
<1>16. ASSUME NEW j \in Jobs, ConfigureBegin(j)
      PROVE  HolderInv' /\ ShutdownInv' /\ ChannelInv'
  BY <1>16, ZenonT(60) DEF ConfigureBegin, RevisionIsCurrent, RtpIdle
<1>17. ASSUME NEW j \in Jobs, ConfigureApplies(j)
      PROVE  HolderInv' /\ ShutdownInv' /\ ChannelInv'
  BY <1>17 DEF ConfigureApplies
<1>18. ASSUME NEW j \in Jobs, RequestRaises(j)
      PROVE  HolderInv' /\ ShutdownInv' /\ ChannelInv'
  BY <1>18, ZenonT(60) DEF RequestRaises, End
<1>19. ASSUME NEW j \in Jobs, BumpRevision(j)
      PROVE  HolderInv' /\ ShutdownInv' /\ ChannelInv'
  BY <1>19, ZenonT(60) DEF BumpRevision, End
<1>20. ASSUME NEW j \in Jobs, CaptureBegin(j)
      PROVE  HolderInv' /\ ShutdownInv' /\ ChannelInv'
  BY <1>20 DEF CaptureBegin
<1>21. ASSUME NEW j \in Jobs, CaptureEnds(j)
      PROVE  HolderInv' /\ ShutdownInv' /\ ChannelInv'
  BY <1>21 DEF CaptureEnds, End
<1>22. CASE ChildDies
  BY <1>22 DEF ChildDies
<1>23. CASE PumpRestarts
  BY <1>23 DEF PumpRestarts
<1>24. CASE PumpStopBegins
  BY <1>24 DEF PumpStopBegins
<1>25. CASE PumpStopEnds
  <2>1. PICK ended \in BOOLEAN :
           /\ pumpAlive' = ended
           /\ native' = None
           /\ IF ended THEN Down ELSE StopGivesUp
    BY <1>25 DEF PumpStopEnds, Unlocked
  <2>2. /\ native = Pump /\ pumpAlive /\ native # Owner
        /\ UNCHANGED <<control, jobs, process>>
        /\ \A j \in Jobs : at[j] \notin {"applying", "reconfigure"}
        /\ \A j \in Jobs : native # j
    BY <1>25 DEF PumpStopEnds
  <2>3. CASE ended
    BY <2>1, <2>2, <2>3 DEF Down
  <2>4. CASE ~ended
    BY <2>1, <2>2, <2>4 DEF StopGivesUp
  <2>5. QED
    BY <2>3, <2>4
<1>26. CASE ShutdownBegin
  BY <1>26 DEF ShutdownBegin
<1>27. CASE BeginClose
  BY <1>27 DEF BeginClose
<1>28. CASE WaitQuiescent
  BY <1>28 DEF WaitQuiescent
<1>29. CASE StopPumps
  BY <1>29, ZenonT(60) DEF StopPumps
<1>30. CASE NativeDown
  BY <1>30 DEF NativeDown, DownChecked, Down
<1>31. CASE ShutdownFails
  BY <1>31 DEF ShutdownFails, StopGivesUp
<1>32. CASE ReleaseEndpoint
  BY <1>32 DEF ReleaseEndpoint
<1>33. CASE RuntimeStart
  BY <1>33 DEF RuntimeStart, FreshServer
<1>34. QED
  BY <1>1, <1>2, <1>3, <1>4, <1>5, <1>6, <1>7, <1>8, <1>9, <1>10, <1>11, <1>12, <1>13,
     <1>14, <1>15, <1>16, <1>17, <1>18, <1>19, <1>20, <1>21, <1>22, <1>23, <1>24, <1>25,
     <1>26, <1>27, <1>28, <1>29, <1>30, <1>31, <1>32, <1>33
  DEF Next, JobStep, SetActive, Configure, Capture, ChannelStep, Shutdown

\* A step keeps what is said of the revisions.
LEMMA StepKeepsRevisions ==
    ASSUME IInv, Next
    PROVE  RevisionInv'
<1> USE ControlConstants
    DEF IInv, TypeOK, HolderInv, ShutdownInv, RevisionInv, Transiting,
        Go, control, jobs, channel, encoder, process
<1>1. ASSUME NEW j \in Jobs, NEW operation \in Operations, NEW r \in 1 .. revision,
             Admit(j, operation, r)
      PROVE  RevisionInv'
  BY <1>1 DEF Admit
<1>2. ASSUME NEW j \in Jobs, Deadline(j)
      PROVE  RevisionInv'
  BY <1>2 DEF Deadline, End
<1>3. ASSUME NEW j \in Jobs, Acquire(j)
      PROVE  RevisionInv'
  BY <1>3 DEF Acquire, TransitionFree
<1>4. ASSUME NEW j \in Jobs, ReadClosing(j)
      PROVE  RevisionInv'
  BY <1>4 DEF ReadClosing
<1>5. ASSUME NEW j \in Jobs, Assign(j)
      PROVE  RevisionInv'
  BY <1>5 DEF Assign, Wanted, Wanted
<1>6. ASSUME NEW j \in Jobs, Call(j)
      PROVE  RevisionInv'
  BY <1>6 DEF Call
<1>7. ASSUME NEW j \in Jobs, NativeRefuses(j)
      PROVE  RevisionInv'
  BY <1>7 DEF NativeRefuses
<1>8. ASSUME NEW j \in Jobs, NativeUnchanged(j)
      PROVE  RevisionInv'
  BY <1>8 DEF NativeUnchanged, Applied
<1>9. ASSUME NEW j \in Jobs, NativeBegin(j)
      PROVE  RevisionInv'
  BY <1>9 DEF NativeBegin, Applied
<1>10. ASSUME NEW j \in Jobs, NativeApplies(j)
      PROVE  RevisionInv'
  BY <1>10 DEF NativeApplies, Down
<1>11. ASSUME NEW j \in Jobs, NativeFails(j)
      PROVE  RevisionInv'
  BY <1>11 DEF NativeFails, StopGivesUp
<1>12. ASSUME NEW j \in Jobs, ReadStatus(j)
      PROVE  RevisionInv'
  BY <1>12 DEF ReadStatus
<1>13. ASSUME NEW j \in Jobs, Judge(j)
      PROVE  RevisionInv'
  BY <1>13 DEF Judge
<1>14. ASSUME NEW j \in Jobs, Receipt(j)
      PROVE  RevisionInv'
  BY <1>14 DEF Receipt, SetActiveEnds, End
<1>15. ASSUME NEW j \in Jobs, Failed(j)
      PROVE  RevisionInv'
  BY <1>15 DEF Failed, SetActiveEnds, End
<1>16. ASSUME NEW j \in Jobs, ConfigureBegin(j)
      PROVE  RevisionInv'
  BY <1>16 DEF ConfigureBegin, RevisionIsCurrent, RtpIdle
<1>17. ASSUME NEW j \in Jobs, ConfigureApplies(j)
      PROVE  RevisionInv'
  <2>1. /\ Len(accepted) + 1 = revision
        /\ expected[j] = revision
    BY <1>17 DEF ConfigureApplies
  <2>2. /\ Len(accepted') = revision
        /\ \A i \in 1 .. Len(accepted') : accepted'[i] = i
    BY <1>17, AppliedIsCounted
  <2>3. \A k \in Jobs : k # j => at[k] \notin {"reconfigure", "bump"} /\ at'[k] = at[k]
    BY <1>17 DEF ConfigureApplies
  <2>4. revision < MaxRevision /\ revision' = revision /\ expected' = expected /\ at'[j] = "bump"
    BY <1>17 DEF ConfigureApplies
  <2>5. QED
    BY <2>1, <2>2, <2>3, <2>4
<1>18. ASSUME NEW j \in Jobs, RequestRaises(j)
      PROVE  RevisionInv'
  BY <1>18 DEF RequestRaises, End
<1>19. ASSUME NEW j \in Jobs, BumpRevision(j)
      PROVE  RevisionInv'
  BY <1>19 DEF BumpRevision, End
<1>20. ASSUME NEW j \in Jobs, CaptureBegin(j)
      PROVE  RevisionInv'
  BY <1>20 DEF CaptureBegin
<1>21. ASSUME NEW j \in Jobs, CaptureEnds(j)
      PROVE  RevisionInv'
  BY <1>21 DEF CaptureEnds, End
<1>22. CASE ChildDies
  BY <1>22 DEF ChildDies
<1>23. CASE PumpRestarts
  BY <1>23 DEF PumpRestarts
<1>24. CASE PumpStopBegins
  BY <1>24 DEF PumpStopBegins
<1>25. CASE PumpStopEnds
  BY <1>25 DEF PumpStopEnds, Unlocked, Down, StopGivesUp
<1>26. CASE ShutdownBegin
  BY <1>26 DEF ShutdownBegin
<1>27. CASE BeginClose
  BY <1>27 DEF BeginClose
<1>28. CASE WaitQuiescent
  BY <1>28 DEF WaitQuiescent
<1>29. CASE StopPumps
  BY <1>29 DEF StopPumps
<1>30. CASE NativeDown
  BY <1>30 DEF NativeDown, DownChecked, Down
<1>31. CASE ShutdownFails
  BY <1>31 DEF ShutdownFails, StopGivesUp
<1>32. CASE ReleaseEndpoint
  BY <1>32 DEF ReleaseEndpoint
<1>33. CASE RuntimeStart
  <2>1. accepted' = <<>> /\ Len(accepted') = 0 /\ revision' = 1
    BY <1>33 DEF RuntimeStart, FreshServer
  <2>2. \A j \in Jobs : at'[j] = "idle"
    BY <1>33 DEF RuntimeStart
  <2>3. Len(accepted') + 1 = revision' /\ \A i \in 1 .. Len(accepted') : FALSE
    BY <2>1, NothingCounted
  <2>4. QED
    BY <2>2, <2>3
<1>34. QED
  BY <1>1, <1>2, <1>3, <1>4, <1>5, <1>6, <1>7, <1>8, <1>9, <1>10, <1>11, <1>12, <1>13,
     <1>14, <1>15, <1>16, <1>17, <1>18, <1>19, <1>20, <1>21, <1>22, <1>23, <1>24, <1>25,
     <1>26, <1>27, <1>28, <1>29, <1>30, <1>31, <1>32, <1>33
  DEF Next, JobStep, SetActive, Configure, Capture, ChannelStep, Shutdown

\* Every behaviour keeps the invariant.
LEMMA Invariant == Spec => []IInv
<1>1. Init => IInv
  <2> SUFFICES ASSUME Init
               PROVE  IInv
    OBVIOUS
  <2>1. FlagTypes
    BY DEF Init, FlagTypes
  <2>2. PlaceTypes
    <3>1. 1 \in 1 .. MaxRevision
      BY ControlConstants
    <3>2. accepted \in Seq(1 .. MaxRevision)
      BY EmptySeq DEF Init
    <3>3. QED
      BY <3>1, <3>2 DEF Init, PlaceTypes, Operations
  <2>3. HolderInv /\ ShutdownInv /\ ChannelInv
    BY ControlConstants DEF Init, HolderInv, ShutdownInv, ChannelInv, IsDown, Transiting
  <2>4. RevisionInv
    BY NothingCounted DEF Init, RevisionInv
  <2>5. QED
    BY <2>1, <2>2, <2>3, <2>4, TypesInTwo DEF IInv
<1>2. IInv /\ [Next]_vars => IInv'
  <2> SUFFICES ASSUME IInv, [Next]_vars
               PROVE  IInv'
    OBVIOUS
  <2>1. CASE Next
    <3>1. TypeOK'
      BY <2>1, StepKeepsFlags, StepKeepsPlaces, TypesInTwo DEF TypeOK, FlagTypes, PlaceTypes
    <3>2. QED
      BY <2>1, <3>1, StepKeepsHolders, StepKeepsRevisions DEF IInv
  <2>2. CASE UNCHANGED vars
    <3>1. TypeOK'
      <4>1. FlagTypes' /\ PlaceTypes'
        <5>1. FlagTypes /\ PlaceTypes
          BY TypesInTwo DEF IInv
        <5>2. FlagTypes'
          BY <2>2, <5>1 DEF FlagTypes, vars, control, jobs, channel, encoder, process
        <5>3. PlaceTypes'
          BY <2>2, <5>1 DEF PlaceTypes, vars, control, jobs, channel, encoder, process
        <5>4. QED
          BY <5>2, <5>3
      <4>2. QED
        BY <4>1, TypesInTwo DEF TypeOK, FlagTypes, PlaceTypes
    <3>2. HolderInv' /\ ShutdownInv'
      BY <2>2 DEF IInv, HolderInv, ShutdownInv, IsDown, vars, control, jobs, channel,
                  encoder, process
    <3>3. ChannelInv' /\ RevisionInv'
      BY <2>2 DEF IInv, ChannelInv, RevisionInv, IsDown, Wanted, vars, control, jobs,
                  channel, encoder, process
    <3>4. QED
      BY <3>1, <3>2, <3>3 DEF IInv
  <2>3. QED
    BY <2>1, <2>2
<1>3. QED
  BY <1>1, <1>2, PTL DEF Spec

(***************************************************************************)
(* The locks, the positions and the sequence of applied revisions only     *)
(* take the values TypeOK names, for any number of worker threads.         *)
(***************************************************************************)
THEOREM TypeCorrect == Spec => []TypeOK
<1>1. IInv => TypeOK
  BY DEF IInv
<1>2. QED
  BY <1>1, Invariant, PTL

(***************************************************************************)
(* Every configuration is applied to the revision its client had read      *)
(* (control_socket.py:229-234), whatever the number of clients.            *)
(***************************************************************************)
THEOREM RevisionsAreNotLost == Spec => []NoLostUpdate
<1>1. IInv => NoLostUpdate
  BY DEF IInv, RevisionInv, NoLostUpdate
<1>2. QED
  BY <1>1, Invariant, PTL

(***************************************************************************)
(* A stop that is about to be receipted left the channel down, and nobody  *)
(* has begun to work on it since (README.md:94-96).                        *)
(***************************************************************************)
THEOREM StopsAreReceiptedTruly == Spec => []StopReceiptIsTrue
<1>1. IInv => StopReceiptIsTrue
  BY DEF IInv, ChannelInv, IsDown, Wanted, StopReceiptIsTrue
<1>2. QED
  BY <1>1, Invariant, PTL

(***************************************************************************)
(* The endpoint is held while a request may work on the source, and        *)
(* released only with the channel down (runtime.py:276-282).               *)
(***************************************************************************)
THEOREM EndpointIsReleasedLast == Spec => []EndpointOutlivesNative
<1>1. IInv => EndpointOutlivesNative
  BY DEF IInv, ShutdownInv, IsDown, EndpointOutlivesNative
<1>2. QED
  BY <1>1, Invariant, PTL

(***************************************************************************)
(* The encoder that configure() drops owns nothing                         *)
(* (runtime.py:342-362), also after a start that could not be undone.      *)
(***************************************************************************)
THEOREM ConfigureOrphansNothing == Spec => NothingOrphaned
<1>1. IInv /\ [Next]_vars =>
          [accepted' # accepted /\ Len(accepted') > Len(accepted) =>
               ~active /\ ~owned /\ ~running]_vars
  <2> SUFFICES ASSUME IInv, Next, accepted' # accepted, Len(accepted') > Len(accepted)
               PROVE  ~active /\ ~owned /\ ~running
    BY DEF vars, control
  <2>1. (\E j \in Jobs : ConfigureApplies(j)) \/ RuntimeStart
    <3>1. ASSUME NEW j \in Jobs, JobStep(j), ~ConfigureApplies(j)
          PROVE  accepted' = accepted
      BY <3>1 DEF JobStep, SetActive, Configure, Capture, Deadline, Acquire, ReadClosing,
         Assign, Call, NativeRefuses, NativeUnchanged, NativeBegin, NativeApplies,
         NativeFails, ReadStatus, Judge, Receipt, Failed, ConfigureBegin, RequestRaises,
         BumpRevision, CaptureBegin, CaptureEnds, SetActiveEnds, control
    <3>2. CASE ChannelStep \/ Shutdown
      BY <3>2 DEF ChannelStep, Shutdown, ChildDies, PumpRestarts, PumpStopBegins,
         PumpStopEnds, ShutdownBegin, BeginClose, WaitQuiescent, StopPumps, NativeDown,
         ShutdownFails, ReleaseEndpoint, control
    <3>3. ASSUME NEW j \in Jobs, \E operation \in Operations, r \in 1 .. revision :
                                      Admit(j, operation, r)
          PROVE  accepted' = accepted
      BY <3>3 DEF Admit, control
    <3>4. QED
      BY <3>1, <3>2, <3>3 DEF Next
  <2>2. CASE \E j \in Jobs : ConfigureApplies(j)
    BY <2>2 DEF ConfigureApplies, IInv, ChannelInv, IsDown
  <2>3. CASE RuntimeStart
    BY <2>3 DEF RuntimeStart, IInv, ShutdownInv, IsDown
  <2>4. QED
    BY <2>1, <2>2, <2>3
<1>2. QED
  BY <1>1, Invariant, PTL DEF Spec, NothingOrphaned

\* Every step of the channel here is one that the contract allows, or none.
LEMMA StepIsAllowed ==
    ASSUME IInv, Next
    PROVE  Contract!Next \/ UNCHANGED Contract!channelState
<1> USE ControlConstants
    DEF IInv, HolderInv, ShutdownInv, ChannelInv, IsDown, Operation, Wanted,
        Go, control, jobs, channel, encoder, process
<1>f. FlagTypes /\ PlaceTypes
  BY TypesInTwo
<1> USE <1>f DEF FlagTypes, PlaceTypes
<1>1. ASSUME NEW j \in Jobs, NEW operation \in Operations, NEW r \in 1 .. revision,
             Admit(j, operation, r)
      PROVE  Contract!Next \/ UNCHANGED Contract!channelState
  BY <1>1 DEF Admit, Contract!channelState
<1>2. ASSUME NEW j \in Jobs, Deadline(j)
      PROVE  Contract!Next \/ UNCHANGED Contract!channelState
  BY <1>2 DEF Deadline, End, Contract!channelState
<1>3. ASSUME NEW j \in Jobs, Acquire(j)
      PROVE  Contract!Next \/ UNCHANGED Contract!channelState
  BY <1>3 DEF Acquire, TransitionFree, Contract!channelState
<1>4. ASSUME NEW j \in Jobs, ReadClosing(j)
      PROVE  Contract!Next \/ UNCHANGED Contract!channelState
  BY <1>4 DEF ReadClosing, Contract!channelState
<1>5. ASSUME NEW j \in Jobs, Assign(j)
      PROVE  Contract!Next \/ UNCHANGED Contract!channelState
  BY <1>5 DEF Assign, Wanted, Wanted, Contract!channelState
<1>6. ASSUME NEW j \in Jobs, Call(j)
      PROVE  Contract!Next \/ UNCHANGED Contract!channelState
  BY <1>6 DEF Call, Contract!channelState
<1>7. ASSUME NEW j \in Jobs, NativeRefuses(j)
      PROVE  Contract!Next \/ UNCHANGED Contract!channelState
  BY <1>7 DEF NativeRefuses, Contract!channelState
<1>8. ASSUME NEW j \in Jobs, NativeUnchanged(j)
      PROVE  Contract!Next \/ UNCHANGED Contract!channelState
  BY <1>8 DEF NativeUnchanged, Applied, Contract!channelState
<1>9. ASSUME NEW j \in Jobs, NativeBegin(j)
      PROVE  Contract!Next \/ UNCHANGED Contract!channelState
  BY <1>9 DEF NativeBegin, Applied, Contract!BeginStart, Contract!BeginStop,
     Contract!Next, Contract!channelState
<1>10. ASSUME NEW j \in Jobs, NativeApplies(j)
      PROVE  Contract!Next \/ UNCHANGED Contract!channelState
  BY <1>10 DEF NativeApplies, Down, Contract!Started, Contract!Stopped, Contract!Next,
     Contract!channelState
<1>11. ASSUME NEW j \in Jobs, NativeFails(j)
      PROVE  Contract!Next \/ UNCHANGED Contract!channelState
  BY <1>11 DEF NativeFails, StopGivesUp, Contract!StartFails, Contract!StopFails,
     Contract!Next, Contract!channelState
<1>12. ASSUME NEW j \in Jobs, ReadStatus(j)
      PROVE  Contract!Next \/ UNCHANGED Contract!channelState
  BY <1>12 DEF ReadStatus, Contract!channelState
<1>13. ASSUME NEW j \in Jobs, Judge(j)
      PROVE  Contract!Next \/ UNCHANGED Contract!channelState
  BY <1>13 DEF Judge, Contract!channelState
<1>14. ASSUME NEW j \in Jobs, Receipt(j)
      PROVE  Contract!Next \/ UNCHANGED Contract!channelState
  BY <1>14 DEF Receipt, SetActiveEnds, End, Contract!channelState
<1>15. ASSUME NEW j \in Jobs, Failed(j)
      PROVE  Contract!Next \/ UNCHANGED Contract!channelState
  BY <1>15 DEF Failed, SetActiveEnds, End, Contract!channelState
<1>16. ASSUME NEW j \in Jobs, ConfigureBegin(j)
      PROVE  Contract!Next \/ UNCHANGED Contract!channelState
  BY <1>16 DEF ConfigureBegin, RevisionIsCurrent, RtpIdle, Contract!channelState
<1>17. ASSUME NEW j \in Jobs, ConfigureApplies(j)
      PROVE  Contract!Next \/ UNCHANGED Contract!channelState
  BY <1>17 DEF ConfigureApplies, Contract!channelState
<1>18. ASSUME NEW j \in Jobs, RequestRaises(j)
      PROVE  Contract!Next \/ UNCHANGED Contract!channelState
  BY <1>18 DEF RequestRaises, End, Contract!channelState
<1>19. ASSUME NEW j \in Jobs, BumpRevision(j)
      PROVE  Contract!Next \/ UNCHANGED Contract!channelState
  BY <1>19 DEF BumpRevision, End, Contract!channelState
<1>20. ASSUME NEW j \in Jobs, CaptureBegin(j)
      PROVE  Contract!Next \/ UNCHANGED Contract!channelState
  BY <1>20 DEF CaptureBegin, Contract!channelState
<1>21. ASSUME NEW j \in Jobs, CaptureEnds(j)
      PROVE  Contract!Next \/ UNCHANGED Contract!channelState
  BY <1>21 DEF CaptureEnds, End, Contract!channelState
<1>22. CASE ChildDies
  BY <1>22 DEF ChildDies, Contract!ChildDies, Contract!Next, Contract!channelState
<1>23. CASE PumpRestarts
  BY <1>23 DEF PumpRestarts, Contract!ChildReplaced, Contract!Work, Contract!Next,
     Contract!channelState
<1>24. CASE PumpStopBegins
  BY <1>24 DEF PumpStopBegins, Contract!BeginStop, Contract!Next, Contract!channelState
<1>25. CASE PumpStopEnds
  BY <1>25 DEF PumpStopEnds, Unlocked, Down, StopGivesUp, Contract!Stopped,
     Contract!StopFails, Contract!Next, Contract!channelState
<1>26. CASE ShutdownBegin
  BY <1>26 DEF ShutdownBegin, Contract!Close, Contract!Next, Contract!channelState
<1>27. CASE BeginClose
  BY <1>27 DEF BeginClose, Contract!channelState
<1>28. CASE WaitQuiescent
  BY <1>28 DEF WaitQuiescent, Contract!channelState
<1>29. CASE StopPumps
  BY <1>29 DEF StopPumps, Contract!BeginStop, Contract!Next, Contract!channelState
<1>30. CASE NativeDown
  BY <1>30 DEF NativeDown, DownChecked, Down, Contract!Stopped, Contract!Next,
     Contract!channelState
<1>31. CASE ShutdownFails
  BY <1>31 DEF ShutdownFails, StopGivesUp, Contract!StopFails, Contract!Next,
     Contract!channelState
<1>32. CASE ReleaseEndpoint
  BY <1>32 DEF ReleaseEndpoint, Contract!channelState
<1>33. CASE RuntimeStart
  BY <1>33 DEF RuntimeStart, FreshServer, Contract!Reopen, Contract!Next,
     Contract!channelState
<1>34. QED
  BY <1>1, <1>2, <1>3, <1>4, <1>5, <1>6, <1>7, <1>8, <1>9, <1>10, <1>11, <1>12, <1>13,
     <1>14, <1>15, <1>16, <1>17, <1>18, <1>19, <1>20, <1>21, <1>22, <1>23, <1>24, <1>25,
     <1>26, <1>27, <1>28, <1>29, <1>30, <1>31, <1>32, <1>33
  DEF Next, JobStep, SetActive, Configure, Capture, ChannelStep, Shutdown

(***************************************************************************)
(* What is concluded of the server rests on a channel that only does what  *)
(* ChannelContract allows.                                                 *)
(***************************************************************************)
THEOREM ChannelIsContracts == Spec => UsesChannelContract
<1>1. Init => Contract!Init
  BY ControlConstants DEF Init, Contract!Init, Operation
<1>2. IInv /\ [Next]_vars => [Contract!Next]_(Contract!channelState)
  <2>1. CASE UNCHANGED vars
    BY <2>1 DEF Contract!channelState, Operation, Wanted, vars, jobs, channel, encoder,
       process
  <2>2. QED
    BY <2>1, StepIsAllowed
<1>3. QED
  BY <1>1, <1>2, Invariant, PTL DEF Spec, UsesChannelContract, Contract!Spec
=============================================================================
