----------------------- MODULE SubprocessEncoderProofs -----------------------
(***************************************************************************)
(* Proofs about SubprocessEncoder and the contract it implements, for      *)
(* every set of callers, writers and children.                             *)
(***************************************************************************)
EXTENDS EncoderRefinement, TLAPS

\* The launch of a child keeps the types of what it changes.
LEMMA LaunchType ==
    ASSUME TypeOK, NEW readers \in SUBSET (Children \X Readers), Launch(readers)
    PROVE  /\ proc' \in Children \cup {None}
           /\ child' \in [Children -> ChildStates]
           /\ recorded' \subseteq Children \X Readers
           /\ reading' \subseteq Children \X Readers
           /\ stopping' \in BOOLEAN
<1>1. CASE Launched(readers)
  BY <1>1 DEF Launched, TypeOK, ChildStates
<1>2. CASE LaunchRefused(readers)
  BY <1>2 DEF LaunchRefused, TypeOK, native
<1>3. CASE LaunchHalfDone(readers)
  <2>1. PICK p \in Children, r \in Readers :
          /\ proc' = p
          /\ child' = [child EXCEPT ![p] = "live"]
          /\ recorded' = readers \cup ({p} \X (StartedBefore(r) \cup {r}))
          /\ reading' = reading \cup ({p} \X StartedBefore(r))
          /\ stopping' = TRUE
    BY <1>3 DEF LaunchHalfDone
  <2>2. StartedBefore(r) \subseteq Readers
    BY DEF StartedBefore, Readers
  <2>3. QED
    BY <2>1, <2>2 DEF TypeOK, ChildStates
<1>4. QED
  BY <1>1, <1>2, <1>3 DEF Launch

\* A step keeps the types.
LEMMA TypeStep ==
    ASSUME TypeOK, [Next]_vars
    PROVE  TypeOK'
<1> USE DEF Positions, HoldsLifecycle, HoldsWriteLock, Finishing, ChildStates
<1>1. CASE \E t \in Threads : Start(t)
  <2>1. PICK t \in Threads : Start(t)
    BY <1>1
  <2>2. CASE StartCall(t)
    BY <2>2 DEF StartCall, Enter, Go, TypeOK, owned, native
  <2>3. CASE StartUnchanged(t)
    BY <2>3 DEF StartUnchanged, StartReturns, Return, Go, TypeOK, owned, native
  <2>4. CASE StartLaunch(t)
    <3>1. Launch(recorded) /\ StartReturns(t) /\ UNCHANGED <<current, writeLock>>
      BY <2>4 DEF StartLaunch
    <3>2. QED
      BY <3>1, LaunchType DEF StartReturns, Return, Go, TypeOK
  <2>5. CASE StartRestart(t)
    BY <2>5 DEF StartRestart, Go, TypeOK, owned, native
  <2>6. QED
    BY <2>1, <2>2, <2>3, <2>4, <2>5 DEF Start
<1>2. CASE \E t \in Threads : Stop(t)
  <2>1. PICK t \in Threads : Stop(t)
    BY <1>2
  <2>2. CASE StopCall(t)
    BY <2>2 DEF StopCall, Enter, Go, TypeOK, owned, native
  <2>3. CASE StopAcquire(t)
    BY <2>3 DEF StopAcquire, Go, TypeOK, owned, native
  <2>4. CASE StopTimeout(t)
    BY <2>4 DEF StopTimeout, Return, Go, TypeOK, owned, native
  <2>5. CASE StopClear(t)
    BY <2>5 DEF StopClear, Return, Go, TypeOK, native
  <2>6. QED
    BY <2>1, <2>2, <2>3, <2>4, <2>5 DEF Stop
<1>3. CASE \E t \in Threads : Restart(t)
  <2>1. PICK t \in Threads : Restart(t)
    BY <1>3
  <2>2. CASE RestartSkip(t)
    BY <2>2 DEF RestartSkip, Return, Go, TypeOK, owned, native
  <2>3. CASE RestartBegin(t)
    BY <2>3 DEF RestartBegin, Go, TypeOK, owned, native
  <2>4. CASE RestartSuperseded(t)
    BY <2>4 DEF RestartSuperseded, Return, Go, TypeOK, native
  <2>5. CASE RestartLaunch(t)
    <3>1. /\ Launch({}) /\ Return(t) /\ lifecycle' = None
          /\ current' = current \ {t} /\ UNCHANGED writeLock
      BY <2>5 DEF RestartLaunch
    <3>2. QED
      BY <3>1, LaunchType DEF Return, Go, TypeOK
  <2>6. QED
    BY <2>1, <2>2, <2>3, <2>4, <2>5 DEF Restart
<1>4. CASE \E t \in Threads : Finish(t)
  <2>1. PICK t \in Threads : Finish(t)
    BY <1>4
  <2>2. CASE Terminate(t)
    BY <2>2 DEF Terminate, Go, TypeOK, owned
  <2>3. CASE Kill(t)
    BY <2>3 DEF Kill, Go, TypeOK, owned
  <2>4. CASE Reap(t)
    BY <2>4 DEF Reap, Go, TypeOK, owned, native
  <2>5. CASE DrainWriter(t)
    BY <2>5 DEF DrainWriter, Go, TypeOK, owned, native
  <2>6. CASE JoinReaders(t)
    BY <2>6 DEF JoinReaders, Go, TypeOK, owned, native
  <2>7. CASE FinishRaises(t)
    BY <2>7 DEF FinishRaises, Return, Go, TypeOK, owned, native
  <2>8. QED
    BY <2>1, <2>2, <2>3, <2>4, <2>5, <2>6, <2>7 DEF Finish
<1>5. CASE \E t \in Threads : Write(t)
  <2>1. PICK t \in Threads : Write(t)
    BY <1>5
  <2>2. CASE WriteCall(t)
    BY <2>2 DEF WriteCall, Go, TypeOK, owned, native
  <2>3. CASE BeforeWrite(t)
    BY <2>3 DEF BeforeWrite, Go, TypeOK, owned, native
  <2>4. CASE BeforeWriteRaises(t) \/ WriteDone(t)
    BY <2>4 DEF BeforeWriteRaises, WriteDone, Return, Go, TypeOK, owned, native
  <2>5. CASE WriteFails(t)
    BY <2>5 DEF WriteFails, Go, TypeOK, owned, native
  <2>6. CASE RestartAcquire(t)
    BY <2>6 DEF RestartAcquire, Go, TypeOK, owned, native
  <2>7. QED
    BY <2>1, <2>2, <2>3, <2>4, <2>5, <2>6 DEF Write
<1>6. CASE Environment
  BY <1>6 DEF Environment, ChildExits, ReaderExits, OutputFails, TypeOK, owned, locals
<1>7. CASE UNCHANGED vars
  BY <1>7 DEF vars, TypeOK
<1>8. QED
  BY <1>1, <1>2, <1>3, <1>4, <1>5, <1>6, <1>7 DEF Next

\* Every variable keeps its type.
THEOREM TypeCorrect == Spec => []TypeOK
<1>1. Init => TypeOK
  BY ConstantTypes DEF Init, TypeOK, ChildStates, Positions
<1>2. TypeOK /\ [Next]_vars => TypeOK'
  BY TypeStep
<1>3. QED
  BY <1>1, <1>2, PTL DEF Spec

-----------------------------------------------------------------------------
\* Without a child the encoder owns nothing that runs.
LEMMA NothingWithoutChild ==
    ASSUME TypeOK, SingleOwner, proc = None
    PROVE  recorded = {} /\ reading = {} /\ \A p \in Children : ~Alive(p)
<1>1. recorded = {}
  <2> SUFFICES ASSUME NEW x \in recorded
               PROVE  FALSE
    OBVIOUS
  <2>1. x[1] \in Children
    BY DEF TypeOK
  <2>2. QED
    BY <2>1, ConstantTypes DEF SingleOwner
<1>2. QED
  BY <1>1, ConstantTypes DEF SingleOwner

\* A launch into an encoder where nothing runs leaves one owner.
LEMMA LaunchSingleOwner ==
    ASSUME TypeOK, Launch({}), reading = {}, \A p \in Children : ~Alive(p)
    PROVE  SingleOwner'
<1>1. CASE Launched({})
  BY <1>1 DEF Launched, TypeOK, SingleOwner, Alive
<1>2. CASE LaunchRefused({})
  BY <1>2 DEF LaunchRefused, TypeOK, SingleOwner, Alive, native
<1>3. CASE LaunchHalfDone({})
  <2>1. PICK p \in Children, r \in Readers :
          /\ proc' = p
          /\ child' = [child EXCEPT ![p] = "live"]
          /\ recorded' = {} \cup ({p} \X (StartedBefore(r) \cup {r}))
          /\ reading' = reading \cup ({p} \X StartedBefore(r))
    BY <1>3 DEF LaunchHalfDone
  <2>2. QED
    BY <2>1 DEF TypeOK, SingleOwner, Alive
<1>4. QED
  BY <1>1, <1>2, <1>3 DEF Launch

\* OwnerInv is preserved by every step, however the callers interleave.
LEMMA OwnerInductive ==
    ASSUME TypeOK, TypeOK', OwnerInv, [Next]_vars
    PROVE  OwnerInv'
<1> USE DEF HoldsLifecycle, HoldsWriteLock, Finishing
<1>1. CASE \E t \in Threads : Start(t) \/ Stop(t) \/ Restart(t) \/ Finish(t) \/ Write(t)
  <2>1. CASE \E t \in Threads : Start(t)
    <3>1. PICK t \in Threads : Start(t)
      BY <2>1
    <3>2. CASE StartCall(t)
      BY <3>2, ConstantTypes
      DEF StartCall, Enter, Go, owned, native, OwnerInv, LockInv, TeardownInv, CallInv,
          SingleOwner, TypeOK, Alive
    <3>3. CASE StartUnchanged(t)
      BY <3>3, ConstantTypes
      DEF StartUnchanged, StartReturns, Return, Go, owned, native, OwnerInv, LockInv, TeardownInv,
          CallInv, SingleOwner, TypeOK, Alive
    <3>4. CASE StartLaunch(t)
      <4>1. /\ pc[t] = "start" /\ proc = None /\ Launch(recorded)
            /\ Return(t) /\ lifecycle' = None /\ UNCHANGED <<current, writeLock>>
        BY <3>4 DEF StartLaunch, StartReturns
      <4>2. recorded = {} /\ reading = {} /\ \A p \in Children : ~Alive(p)
        BY <4>1, NothingWithoutChild DEF OwnerInv
      <4>3. SingleOwner'
        BY <4>1, <4>2, LaunchSingleOwner
      <4>4. LockInv' /\ TeardownInv' /\ CallInv'
        BY <4>1, ConstantTypes
        DEF Return, Go, OwnerInv, LockInv, TeardownInv, CallInv, TypeOK
      <4>5. QED
        BY <4>3, <4>4 DEF OwnerInv
    <3>5. CASE StartRestart(t)
      BY <3>5, ConstantTypes
      DEF StartRestart, Go, owned, native, OwnerInv, LockInv, TeardownInv, CallInv, SingleOwner, TypeOK, Alive
    <3>6. QED
      BY <3>1, <3>2, <3>3, <3>4, <3>5 DEF Start
  <2>2. CASE \E t \in Threads : Stop(t)
    <3>1. PICK t \in Threads : Stop(t)
      BY <2>2
    <3>2. CASE StopCall(t)
      BY <3>2, ConstantTypes
      DEF StopCall, Enter, Go, owned, native, OwnerInv, LockInv, TeardownInv, CallInv, SingleOwner,
          TypeOK, Alive
    <3>3. CASE StopAcquire(t)
      BY <3>3, ConstantTypes
      DEF StopAcquire, Go, owned, native, OwnerInv, LockInv, TeardownInv, CallInv, SingleOwner, TypeOK, Alive
    <3>4. CASE StopTimeout(t)
      BY <3>4, ConstantTypes
      DEF StopTimeout, Return, Go, owned, native, OwnerInv, LockInv, TeardownInv, CallInv,
          SingleOwner, TypeOK, Alive
    <3>5. CASE StopClear(t)
      BY <3>5, ConstantTypes
      DEF StopClear, Return, Go, native, OwnerInv, LockInv, TeardownInv, CallInv, SingleOwner, TypeOK, Alive
    <3>6. QED
      BY <3>1, <3>2, <3>3, <3>4, <3>5 DEF Stop
  <2>3. CASE \E t \in Threads : Restart(t)
    <3>1. PICK t \in Threads : Restart(t)
      BY <2>3
    <3>2. CASE RestartSkip(t)
      BY <3>2, ConstantTypes
      DEF RestartSkip, Return, Go, owned, native, OwnerInv, LockInv, TeardownInv, CallInv,
          SingleOwner, TypeOK, Alive
    <3>3. CASE RestartBegin(t)
      BY <3>3, ConstantTypes
      DEF RestartBegin, Go, owned, native, OwnerInv, LockInv, TeardownInv, CallInv, SingleOwner, TypeOK, Alive
    <3>4. CASE RestartSuperseded(t)
      BY <3>4, ConstantTypes
      DEF RestartSuperseded, Return, Go, native, OwnerInv, LockInv, TeardownInv, CallInv,
          SingleOwner, TypeOK, Alive
    <3>5. CASE RestartLaunch(t)
      <4>1. /\ pc[t] = "clear" /\ Launch({}) /\ Return(t) /\ lifecycle' = None
            /\ current' = current \ {t} /\ UNCHANGED writeLock
        BY <3>5 DEF RestartLaunch
      <4>2. reading = {} /\ \A p \in Children : ~Alive(p)
        BY <4>1 DEF OwnerInv, TeardownInv
      <4>3. SingleOwner'
        BY <4>1, <4>2, LaunchSingleOwner
      <4>4. LockInv' /\ TeardownInv' /\ CallInv'
        BY <4>1, ConstantTypes
        DEF Return, Go, OwnerInv, LockInv, TeardownInv, CallInv, TypeOK
      <4>5. QED
        BY <4>3, <4>4 DEF OwnerInv
    <3>6. QED
      BY <3>1, <3>2, <3>3, <3>4, <3>5 DEF Restart
  <2>4. CASE \E t \in Threads : Finish(t)
    <3>1. PICK t \in Threads : Finish(t)
      BY <2>4
    <3>2. CASE Terminate(t)
      BY <3>2, ConstantTypes
      DEF Terminate, Go, owned, OwnerInv, LockInv, TeardownInv, CallInv, SingleOwner, TypeOK, Alive
    <3>3. CASE Kill(t)
      BY <3>3, ConstantTypes
      DEF Kill, Go, owned, OwnerInv, LockInv, TeardownInv, CallInv, SingleOwner, TypeOK, Alive
    <3>4. CASE Reap(t)
      BY <3>4, ConstantTypes
      DEF Reap, Go, owned, native, OwnerInv, LockInv, TeardownInv, CallInv, SingleOwner, TypeOK, Alive
    <3>5. CASE DrainWriter(t)
      BY <3>5, ConstantTypes
      DEF DrainWriter, Go, owned, native, OwnerInv, LockInv, TeardownInv, CallInv, SingleOwner, TypeOK, Alive
    <3>6. CASE JoinReaders(t)
      BY <3>6, ConstantTypes
      DEF JoinReaders, Go, owned, native, OwnerInv, LockInv, TeardownInv, CallInv, SingleOwner, TypeOK, Alive
    <3>7. CASE FinishRaises(t)
      BY <3>7, ConstantTypes
      DEF FinishRaises, Return, Go, owned, native, OwnerInv, LockInv, TeardownInv, CallInv,
          SingleOwner, TypeOK, Alive
    <3>8. QED
      BY <3>1, <3>2, <3>3, <3>4, <3>5, <3>6, <3>7 DEF Finish
  <2>5. CASE \E t \in Threads : Write(t)
    <3>1. PICK t \in Threads : Write(t)
      BY <2>5
    <3>2. CASE WriteCall(t)
      BY <3>2, ConstantTypes
      DEF WriteCall, Go, owned, native, OwnerInv, LockInv, TeardownInv, CallInv, SingleOwner, TypeOK, Alive
    <3>3. CASE BeforeWrite(t)
      BY <3>3, ConstantTypes
      DEF BeforeWrite, Go, owned, native, OwnerInv, LockInv, TeardownInv, CallInv, SingleOwner, TypeOK, Alive
    <3>4. CASE BeforeWriteRaises(t)
      BY <3>4, ConstantTypes
      DEF BeforeWriteRaises, Return, Go, owned, native, OwnerInv, LockInv, TeardownInv, CallInv,
          SingleOwner, TypeOK, Alive
    <3>5. CASE WriteDone(t)
      BY <3>5, ConstantTypes
      DEF WriteDone, Return, Go, owned, native, OwnerInv, LockInv, TeardownInv, CallInv,
          SingleOwner, TypeOK, Alive
    <3>6. CASE WriteFails(t)
      BY <3>6, ConstantTypes
      DEF WriteFails, Go, owned, native, OwnerInv, LockInv, TeardownInv, CallInv, SingleOwner, TypeOK, Alive
    <3>7. CASE RestartAcquire(t)
      BY <3>7, ConstantTypes
      DEF RestartAcquire, Go, owned, native, OwnerInv, LockInv, TeardownInv, CallInv, SingleOwner,
          TypeOK, Alive
    <3>8. QED
      BY <3>1, <3>2, <3>3, <3>4, <3>5, <3>6, <3>7 DEF Write
  <2>6. QED
    BY <1>1, <2>1, <2>2, <2>3, <2>4, <2>5
<1>2. CASE Environment
  <2>1. PICK p \in Children :
          ChildExits(p) \/ (\E r \in Readers : ReaderExits(p, r)) \/ OutputFails(p)
    BY <1>2 DEF Environment
  <2>2. CASE ChildExits(p)
    BY <2>2 DEF ChildExits, OwnerInv, LockInv, TeardownInv, CallInv, SingleOwner, TypeOK, Alive, owned, locals
  <2>3. CASE \E r \in Readers : ReaderExits(p, r)
    BY <2>3 DEF ReaderExits, OwnerInv, LockInv, TeardownInv, CallInv, SingleOwner, TypeOK, Alive,
       owned, locals
  <2>4. CASE OutputFails(p)
    BY <2>4 DEF OutputFails, OwnerInv, LockInv, TeardownInv, CallInv, SingleOwner, TypeOK, Alive,
       owned, locals
  <2>5. QED
    BY <2>1, <2>2, <2>3, <2>4
<1>3. CASE UNCHANGED vars
  BY <1>3 DEF vars, OwnerInv, LockInv, TeardownInv, CallInv, SingleOwner, Alive
<1>4. QED
  BY <1>1, <1>2, <1>3 DEF Next

\* The owner invariants hold in every state.
LEMMA OwnerInvariant == Spec => []OwnerInv
<1>1. Init => OwnerInv
  BY ConstantTypes
  DEF Init, OwnerInv, LockInv, TeardownInv, CallInv, SingleOwner, Alive,
      HoldsLifecycle, HoldsWriteLock, Finishing
<1>2. TypeOK /\ TypeOK' /\ OwnerInv /\ [Next]_vars => OwnerInv'
  BY OwnerInductive
<1>3. QED
  BY <1>1, <1>2, TypeCorrect, PTL DEF Spec

\* Whatever its callers do, one child at most is alive, it is the one the
\* encoder records, and every running reader is in the list stop() joins.
THEOREM SingleOwnership == Spec => []SingleOwner
<1>1. OwnerInv => SingleOwner
  BY DEF OwnerInv
<1>2. QED
  BY <1>1, OwnerInvariant, PTL

(***************************************************************************)
(* A stop or a restart only waits for the writer and for the readers once  *)
(* no child is alive that could keep them, whatever the callers do         *)
(* (encoder.py:111-115): this is what lets StopReleasesWriter hold of a    *)
(* child that stalls for ever.                                             *)
(***************************************************************************)
NoWaitOnLiveChild ==
    \A t \in Threads : pc[t] \in {"drain", "join"} => \A p \in Children : ~Alive(p)

THEOREM NobodyWaitsOnLiveChild == Spec => []NoWaitOnLiveChild
<1>1. OwnerInv => NoWaitOnLiveChild
  BY DEF OwnerInv, TeardownInv, NoWaitOnLiveChild
<1>2. QED
  BY <1>1, OwnerInvariant, PTL

-----------------------------------------------------------------------------
\* start() and stop() are only called while nobody else is in one of them.
CallsApart ==
    \A t \in Threads : StartCall(t) \/ StopCall(t) =>
        \A u \in Threads \ {t} : call[u] \notin {"start", "stop"}

\* Such calls preserve SerialInv and WriterInv.
LEMMA QuiesceInductive ==
    ASSUME CallsApart, TypeOK, TypeOK', OwnerInv, SerialInv, WriterInv, [Next]_vars
    PROVE  SerialInv' /\ WriterInv'
<1> USE DEF HoldsLifecycle, HoldsWriteLock, Finishing
<1>1. CASE \E t \in Threads : Start(t) \/ Stop(t) \/ Restart(t) \/ Finish(t) \/ Write(t)
  <2>1. CASE \E t \in Threads : Start(t)
    <3>1. PICK t \in Threads : Start(t)
      BY <2>1
    <3>2. CASE StartCall(t)
      <4>1. \A u \in Threads \ {t} : call[u] \notin {"start", "stop"}
        BY <3>2 DEF CallsApart
      <4>2. QED
        BY <3>2, <4>1, ConstantTypes
        DEF StartCall, Enter, Go, owned, native, OwnerInv, LockInv, TeardownInv, CallInv,
            SerialInv, WriterInv, TypeOK
    <3>3. CASE StartUnchanged(t)
      BY <3>3, ConstantTypes
      DEF StartUnchanged, StartReturns, Return, Go, owned, native, OwnerInv, LockInv, TeardownInv,
          CallInv, SerialInv, WriterInv, TypeOK
    <3>4. CASE StartLaunch(t)
      <4>1. /\ pc[t] = "start" /\ proc = None
            /\ Return(t) /\ lifecycle' = None /\ UNCHANGED <<current, writeLock>>
        BY <3>4 DEF StartLaunch, StartReturns
      <4>2. QED
        BY <4>1, ConstantTypes
        DEF Return, Go, OwnerInv, LockInv, CallInv, SerialInv, WriterInv, TypeOK
    <3>5. CASE StartRestart(t)
      BY <3>5, ConstantTypes
      DEF StartRestart, Go, owned, native, OwnerInv, LockInv, TeardownInv, CallInv, SerialInv,
          WriterInv, TypeOK
    <3>6. QED
      BY <3>1, <3>2, <3>3, <3>4, <3>5 DEF Start
  <2>2. CASE \E t \in Threads : Stop(t)
    <3>1. PICK t \in Threads : Stop(t)
      BY <2>2
    <3>2. CASE StopCall(t)
      <4>1. \A u \in Threads \ {t} : call[u] \notin {"start", "stop"}
        BY <3>2 DEF CallsApart
      <4>2. QED
        BY <3>2, <4>1, ConstantTypes
        DEF StopCall, Enter, Go, owned, native, OwnerInv, LockInv, TeardownInv, CallInv, SerialInv,
            WriterInv, TypeOK
    <3>3. CASE StopAcquire(t)
      BY <3>3, ConstantTypes
      DEF StopAcquire, Go, owned, native, OwnerInv, LockInv, TeardownInv, CallInv, SerialInv,
          WriterInv, TypeOK
    <3>4. CASE StopTimeout(t)
      BY <3>4, ConstantTypes
      DEF StopTimeout, Return, Go, owned, native, OwnerInv, LockInv, TeardownInv, CallInv,
          SerialInv, WriterInv, TypeOK
    <3>5. CASE StopClear(t)
      BY <3>5, ConstantTypes
      DEF StopClear, Return, Go, native, OwnerInv, LockInv, TeardownInv, CallInv, SerialInv, WriterInv, TypeOK
    <3>6. QED
      BY <3>1, <3>2, <3>3, <3>4, <3>5 DEF Stop
  <2>3. CASE \E t \in Threads : Restart(t)
    <3>1. PICK t \in Threads : Restart(t)
      BY <2>3
    <3>2. CASE RestartSkip(t)
      BY <3>2, ConstantTypes
      DEF RestartSkip, Return, Go, owned, native, OwnerInv, LockInv, TeardownInv, CallInv,
          SerialInv, WriterInv, TypeOK
    <3>3. CASE RestartBegin(t)
      BY <3>3, ConstantTypes
      DEF RestartBegin, Go, owned, native, OwnerInv, LockInv, TeardownInv, CallInv, SerialInv,
          WriterInv, TypeOK
    <3>4. CASE RestartSuperseded(t)
      BY <3>4, ConstantTypes
      DEF RestartSuperseded, Return, Go, native, OwnerInv, LockInv, TeardownInv, CallInv,
          SerialInv, WriterInv, TypeOK
    <3>5. CASE RestartLaunch(t)
      <4>1. /\ pc[t] = "clear" /\ call[t] # "stop" /\ t \in current
            /\ Return(t) /\ lifecycle' = None
            /\ current' = current \ {t} /\ UNCHANGED writeLock
        BY <3>5 DEF RestartLaunch
      <4>2. QED
        BY <4>1, ConstantTypes
        DEF Return, Go, OwnerInv, LockInv, CallInv, SerialInv, WriterInv, TypeOK
    <3>6. QED
      BY <3>1, <3>2, <3>3, <3>4, <3>5 DEF Restart
  <2>4. CASE \E t \in Threads : Finish(t)
    <3>1. PICK t \in Threads : Finish(t)
      BY <2>4
    <3>2. CASE Terminate(t)
      BY <3>2, ConstantTypes
      DEF Terminate, Go, owned, OwnerInv, LockInv, TeardownInv, CallInv, SerialInv, WriterInv, TypeOK
    <3>3. CASE Kill(t)
      BY <3>3, ConstantTypes
      DEF Kill, Go, owned, OwnerInv, LockInv, TeardownInv, CallInv, SerialInv, WriterInv, TypeOK
    <3>4. CASE Reap(t)
      BY <3>4, ConstantTypes
      DEF Reap, Go, owned, native, OwnerInv, LockInv, TeardownInv, CallInv, SerialInv, WriterInv, TypeOK
    <3>5. CASE DrainWriter(t)
      BY <3>5, ConstantTypes
      DEF DrainWriter, Go, owned, native, OwnerInv, LockInv, TeardownInv, CallInv, SerialInv,
          WriterInv, TypeOK
    <3>6. CASE JoinReaders(t)
      BY <3>6, ConstantTypes
      DEF JoinReaders, Go, owned, native, OwnerInv, LockInv, TeardownInv, CallInv, SerialInv,
          WriterInv, TypeOK
    <3>7. CASE FinishRaises(t)
      BY <3>7, ConstantTypes
      DEF FinishRaises, Return, Go, owned, native, OwnerInv, LockInv, TeardownInv, CallInv,
          SerialInv, WriterInv, TypeOK
    <3>8. QED
      BY <3>1, <3>2, <3>3, <3>4, <3>5, <3>6, <3>7 DEF Finish
  <2>5. CASE \E t \in Threads : Write(t)
    <3>1. PICK t \in Threads : Write(t)
      BY <2>5
    <3>2. CASE WriteCall(t)
      BY <3>2, ConstantTypes
      DEF WriteCall, Go, owned, native, OwnerInv, LockInv, TeardownInv, CallInv, SerialInv, WriterInv, TypeOK
    <3>3. CASE BeforeWrite(t)
      BY <3>3, ConstantTypes
      DEF BeforeWrite, Go, owned, native, OwnerInv, LockInv, TeardownInv, CallInv, SerialInv,
          WriterInv, TypeOK
    <3>4. CASE BeforeWriteRaises(t)
      BY <3>4, ConstantTypes
      DEF BeforeWriteRaises, Return, Go, owned, native, OwnerInv, LockInv, TeardownInv, CallInv,
          SerialInv, WriterInv, TypeOK
    <3>5. CASE WriteDone(t)
      BY <3>5, ConstantTypes
      DEF WriteDone, Return, Go, owned, native, OwnerInv, LockInv, TeardownInv, CallInv, SerialInv,
          WriterInv, TypeOK
    <3>6. CASE WriteFails(t)
      BY <3>6, ConstantTypes
      DEF WriteFails, Go, owned, native, OwnerInv, LockInv, TeardownInv, CallInv, SerialInv, WriterInv, TypeOK
    <3>7. CASE RestartAcquire(t)
      BY <3>7, ConstantTypes
      DEF RestartAcquire, Go, owned, native, OwnerInv, LockInv, TeardownInv, CallInv, SerialInv,
          WriterInv, TypeOK
    <3>8. QED
      BY <3>1, <3>2, <3>3, <3>4, <3>5, <3>6, <3>7 DEF Write
  <2>6. QED
    BY <1>1, <2>1, <2>2, <2>3, <2>4, <2>5
<1>2. CASE Environment
  <2>1. UNCHANGED <<proc, stopping, current, lifecycle, writeLock, pc, call, target>>
    BY <1>2 DEF Environment, ChildExits, ReaderExits, OutputFails, owned, locals
  <2>2. QED
    BY <2>1 DEF SerialInv, WriterInv
<1>3. CASE UNCHANGED vars
  BY <1>3 DEF vars, SerialInv, WriterInv
<1>4. QED
  BY <1>1, <1>2, <1>3 DEF Next

\* With serialised callers the whole inductive invariant holds.
LEMMA QuiesceInvariant ==
    ASSUME Serialized
    PROVE  Spec => [](TypeOK /\ OwnerInv /\ SerialInv /\ WriterInv)
<1>1. Init => SerialInv /\ WriterInv
  BY DEF Init, SerialInv, WriterInv, HoldsWriteLock, Finishing
<1>2. /\ TypeOK /\ TypeOK' /\ OwnerInv /\ SerialInv /\ WriterInv
      /\ [Next]_vars
      => SerialInv' /\ WriterInv'
  <2>1. CallsApart
    BY DEF CallsApart, StartCall, StopCall, MayCall
  <2>2. QED
    BY <2>1, QuiesceInductive
<1>3. QED
  BY <1>1, <1>2, TypeCorrect, OwnerInvariant, PTL DEF Spec

\* Under the invariant, an encoder that reports itself stopped has no child, no
\* reader and no writer at work.
LEMMA QuiescedByInvariant ==
    ASSUME TypeOK, OwnerInv, WriterInv
    PROVE  StoppedMeansQuiesced
<1> SUFFICES ASSUME Stopped
             PROVE  /\ \A p \in Children : ~Alive(p)
                    /\ reading = {}
                    /\ \A t \in Threads : pc[t] \notin HoldsWriteLock
  BY DEF StoppedMeansQuiesced
<1>1. reading = {} /\ \A p \in Children : ~Alive(p)
  BY NothingWithoutChild DEF Stopped, OwnerInv
<1>2. \A t \in Threads : pc[t] \notin HoldsWriteLock
  BY DEF Stopped, WriterInv
<1>3. QED
  BY <1>1, <1>2

\* With serialised callers, an encoder that reports itself stopped has no
\* child, no reader and no writer at work.
THEOREM StoppedIsQuiesced ==
    ASSUME Serialized
    PROVE  Spec => []StoppedMeansQuiesced
<1>1. TypeOK /\ OwnerInv /\ WriterInv => StoppedMeansQuiesced
  BY QuiescedByInvariant
<1>2. QED
  BY <1>1, QuiesceInvariant, PTL

\* While a call of stop() is under way no other call launches a child.
LEMMA NoLaunchStep ==
    /\ TypeOK /\ OwnerInv /\ SerialInv /\ [Next]_vars
    => [(\E t \in Threads : call[t] = "stop") => proc' \in {proc, None}]_vars
<1> SUFFICES ASSUME TypeOK, OwnerInv, SerialInv, [Next]_vars,
                    NEW s \in Threads, call[s] = "stop"
             PROVE  proc' \in {proc, None}
  BY DEF vars
<1>1. CASE \E t \in Threads : Start(t) \/ Stop(t) \/ Restart(t) \/ Finish(t) \/ Write(t)
  <2>1. PICK t \in Threads : Start(t) \/ Stop(t) \/ Restart(t) \/ Finish(t) \/ Write(t)
    BY <1>1
  <2>2. ~StartLaunch(t)
    BY DEF StartLaunch, SerialInv, OwnerInv, CallInv
  <2>3. ~RestartLaunch(t)
    BY DEF RestartLaunch, SerialInv
  <2>4. CASE Start(t)
    BY <2>2, <2>4
    DEF Start, StartCall, StartUnchanged, StartRestart, owned
  <2>5. CASE Stop(t)
    BY <2>5 DEF Stop, StopCall, StopAcquire, StopTimeout, StopClear, owned
  <2>6. CASE Restart(t)
    BY <2>3, <2>6
    DEF Restart, RestartSkip, RestartBegin, RestartSuperseded, owned
  <2>7. CASE Finish(t)
    BY <2>7
    DEF Finish, Terminate, Kill, Reap, DrainWriter, JoinReaders, FinishRaises, owned
  <2>8. CASE Write(t)
    BY <2>8
    DEF Write, WriteCall, BeforeWrite, BeforeWriteRaises, WriteDone, WriteFails,
        RestartAcquire, owned
  <2>9. QED
    BY <2>1, <2>4, <2>5, <2>6, <2>7, <2>8
<1>2. CASE Environment
  BY <1>2 DEF Environment, ChildExits, ReaderExits, OutputFails, owned
<1>3. CASE UNCHANGED vars
  BY <1>3 DEF vars
<1>4. QED
  BY <1>1, <1>2, <1>3 DEF Next

\* With serialised callers, no step launches a child while a stop() is pending.
THEOREM PendingStopBlocksLaunch ==
    ASSUME Serialized
    PROVE  Spec => NoLaunchUnderPendingStop
  BY NoLaunchStep, QuiesceInvariant, PTL DEF Spec, NoLaunchUnderPendingStop

\* However the callers interleave, only a new stop() changes what an abandoned
\* encoder owns, or opens it.
THEOREM AbandonedNeedsStop == Spec => OnlyStopRecovers
<1>1. /\ TypeOK /\ [Next]_vars
      => [Abandoned => \/ Abandoned' /\ UNCHANGED <<proc, recorded, stopping>>
                       \/ \E t \in Threads : pc'[t] = "stop"]_vars
  <2> SUFFICES ASSUME TypeOK, [Next]_vars, Abandoned
               PROVE  \/ Abandoned' /\ UNCHANGED <<proc, recorded, stopping>>
                      \/ \E t \in Threads : pc'[t] = "stop"
    BY DEF vars
  <2> USE DEF Abandoned, Finishing
  <2>1. CASE \E t \in Threads : Start(t)
    BY <2>1, ZenonT(60)
    DEF Start, StartCall, StartUnchanged, StartLaunch, StartRestart, StartReturns,
        Enter, Return, Go, TypeOK, owned
  <2>2. CASE \E t \in Threads : Stop(t)
    BY <2>2
    DEF Stop, StopCall, StopAcquire, StopTimeout, StopClear, Enter, Return, Go,
        TypeOK, owned
  <2>3. CASE \E t \in Threads : Restart(t)
    BY <2>3, ZenonT(60)
    DEF Restart, RestartSkip, RestartBegin, RestartSuperseded, RestartLaunch,
        Return, Go, TypeOK, owned
  <2>4. CASE \E t \in Threads : Finish(t)
    BY <2>4
    DEF Finish, Terminate, Kill, Reap, DrainWriter, JoinReaders, FinishRaises,
        Return, Go, TypeOK, owned
  <2>5. CASE \E t \in Threads : Write(t)
    BY <2>5, ZenonT(60)
    DEF Write, WriteCall, BeforeWrite, BeforeWriteRaises, WriteDone, WriteFails,
        RestartAcquire, Return, Go, TypeOK, owned
  <2>6. CASE Environment
    BY <2>6 DEF Environment, ChildExits, ReaderExits, OutputFails, owned, locals
  <2>7. CASE UNCHANGED vars
    BY <2>7 DEF vars
  <2>8. QED
    BY <2>1, <2>2, <2>3, <2>4, <2>5, <2>6, <2>7 DEF Next
<1>2. QED
  BY <1>1, TypeCorrect, PTL DEF Spec, OnlyStopRecovers

-----------------------------------------------------------------------------
(***************************************************************************)
(* The encoder implements its contract when its callers serialise start()  *)
(* and stop().                                                             *)
(***************************************************************************)
RefinedInv == TypeOK /\ OwnerInv /\ SerialInv /\ WriterInv

\* A launch into an encoder where nothing runs, no writer included, is an
\* allocation or, when it is refused, leaves no owner and no work.
LEMMA LaunchAllocates ==
    ASSUME TypeOK, Launch({}), NativeWork = {},
           \A t \in Threads : pc'[t] \notin HoldsWriteLock
    PROVE  \/ \E p \in Children :
                /\ p # proc
                /\ proc' = p
                /\ NativeWork' \subseteq {p} \X ({Process} \cup Readers)
           \/ /\ proc' = None
              /\ NativeWork' = {}
              /\ ~stopping'
<1>0. reading = {} /\ \A p \in Children : ~Alive(p)
  BY DEF NativeWork
<1>1. CASE Launched({})
  <2>1. PICK p \in Children :
          /\ p # proc /\ proc' = p
          /\ child' = [child EXCEPT ![p] = "live"]
          /\ reading' = reading \cup ({p} \X Readers)
    BY <1>1 DEF Launched, Fresh
  <2>2. NativeWork' \subseteq {p} \X ({Process} \cup Readers)
    BY <1>0, <2>1 DEF NativeWork, Alive, TypeOK
  <2>3. QED
    BY <2>1, <2>2
<1>2. CASE LaunchRefused({})
  BY <1>0, <1>2 DEF LaunchRefused, NativeWork, native, Alive
<1>3. CASE LaunchHalfDone({})
  <2>1. PICK p \in Children, r \in Readers :
          /\ p # proc /\ proc' = p
          /\ child' = [child EXCEPT ![p] = "live"]
          /\ reading' = reading \cup ({p} \X StartedBefore(r))
    BY <1>3 DEF LaunchHalfDone, Fresh
  <2>2. StartedBefore(r) \subseteq Readers
    BY DEF StartedBefore, Readers
  <2>3. NativeWork' \subseteq {p} \X ({Process} \cup Readers)
    BY <1>0, <2>1, <2>2 DEF NativeWork, Alive, TypeOK
  <2>4. QED
    BY <2>1, <2>3
<1>4. QED
  BY <1>1, <1>2, <1>3 DEF Launch

\* What the invariant says of work when a teardown is over or nothing is owned.
LEMMA NoWorkLeft ==
    ASSUME RefinedInv, \/ proc = None
                \/ \E t \in Threads : pc[t] = "clear"
    PROVE  NativeWork = {}
<1>1. reading = {} /\ \A p \in Children : ~Alive(p)
  BY NothingWithoutChild DEF RefinedInv, OwnerInv, TeardownInv
<1>2. \A t \in Threads : pc[t] \notin HoldsWriteLock
  BY DEF RefinedInv, WriterInv
<1>3. QED
  BY <1>1, <1>2 DEF NativeWork

\* A step that leaves child, readers and the writers in the pipe alone leaves
\* the work alone.
LEMMA SameWork ==
    ASSUME UNCHANGED native,
           \A t \in Threads : (pc'[t] \in HoldsWriteLock) = (pc[t] \in HoldsWriteLock),
           \A t \in Threads : pc[t] \in HoldsWriteLock => target'[t] = target[t]
    PROVE  NativeWork' = NativeWork
  BY DEF NativeWork, native, Alive

\* Every step of the encoder is a step of the contract, or changes nothing it sees.
LEMMA StepSimulates ==
    ASSUME RefinedInv, RefinedInv', [Next]_vars
    PROVE  [Promised!ContractNext]_(Promised!contractVars)
<1> USE DEF Promised!contractVars
<1> DEFINE Stutter == UNCHANGED <<proc, NativeWork, stopping>>
<1>0. SUFFICES \/ Stutter \/ Promised!Close \/ Promised!WorkEnds \/ Promised!Admit
               \/ Promised!Release \/ \E p \in Children : Promised!Allocate(p)
  BY DEF Promised!ContractNext
<1>1. ASSUME NEW t \in Threads, Start(t)
      PROVE  \/ Stutter \/ Promised!Release
             \/ \E p \in Children : Promised!Allocate(p)
  <2>1. CASE StartLaunch(t)
    <3>1. /\ pc[t] = "start" /\ proc = None /\ ~stopping /\ Launch(recorded)
          /\ Return(t)
      BY <2>1 DEF StartLaunch, StartReturns
    <3>2. recorded = {} /\ NativeWork = {}
      BY <3>1, NothingWithoutChild, NoWorkLeft DEF RefinedInv, OwnerInv
    <3>3. \A u \in Threads : pc'[u] \notin HoldsWriteLock
      BY <3>1 DEF RefinedInv, WriterInv, Return, Go, TypeOK, HoldsWriteLock
    <3>4. \/ \E p \in Children :
               /\ p # proc /\ proc' = p
               /\ NativeWork' \subseteq {p} \X ({Process} \cup Readers)
          \/ proc' = None /\ NativeWork' = {} /\ ~stopping'
      BY <3>1, <3>2, <3>3, LaunchAllocates DEF RefinedInv
    <3>5. QED
      BY <3>1, <3>2, <3>4
      DEF Promised!Allocate, Process, WriterPart, Readers, RefinedInv, TypeOK
  <2>2. CASE StartCall(t) \/ StartUnchanged(t) \/ StartRestart(t)
    BY <2>2, SameWork
    DEF StartCall, StartUnchanged, StartRestart, StartReturns, Enter, Return, Go,
        owned, RefinedInv, TypeOK, HoldsWriteLock
  <2>3. QED
    BY <1>1, <2>1, <2>2 DEF Start
<1>2. ASSUME NEW t \in Threads, Stop(t)
      PROVE  Stutter \/ Promised!Close \/ Promised!Release
  <2>1. CASE StopCall(t) \/ StopAcquire(t) \/ StopTimeout(t)
    <3>1. NativeWork' = NativeWork /\ proc' = proc
      BY <2>1, SameWork
      DEF StopCall, StopAcquire, StopTimeout, Enter, Return, Go, owned,
          RefinedInv, TypeOK, HoldsWriteLock
    <3>2. QED
      BY <2>1, <3>1 DEF StopCall, StopAcquire, StopTimeout, Promised!Close
  <2>2. CASE StopClear(t)
    <3>1. NativeWork = {} /\ stopping
      BY <2>2, NoWorkLeft DEF StopClear, RefinedInv, SerialInv
    <3>2. NativeWork' = NativeWork
      BY <2>2, SameWork DEF StopClear, Return, Go, RefinedInv, TypeOK, HoldsWriteLock
    <3>3. QED
      BY <2>2, <3>1, <3>2 DEF StopClear, Promised!Release, RefinedInv, TypeOK
  <2>3. QED
    BY <1>2, <2>1, <2>2 DEF Stop
<1>3. ASSUME NEW t \in Threads, Restart(t)
      PROVE  \/ Stutter \/ Promised!Close \/ Promised!Release
             \/ \E p \in Children : Promised!Allocate(p)
  <2>1. CASE RestartSkip(t) \/ RestartBegin(t)
    <3>1. NativeWork' = NativeWork /\ proc' = proc
      BY <2>1, SameWork
      DEF RestartSkip, RestartBegin, Return, Go, owned, RefinedInv, TypeOK, HoldsWriteLock
    <3>2. QED
      BY <2>1, <3>1 DEF RestartSkip, RestartBegin, Promised!Close
  <2>2. CASE RestartSuperseded(t)
    <3>1. NativeWork = {} /\ stopping
      BY <2>2, NoWorkLeft DEF RestartSuperseded, RefinedInv, SerialInv
    <3>2. NativeWork' = NativeWork
      BY <2>2, SameWork DEF RestartSuperseded, Return, Go, RefinedInv, TypeOK, HoldsWriteLock
    <3>3. QED
      BY <2>2, <3>1, <3>2 DEF RestartSuperseded, Promised!Release, RefinedInv, TypeOK
  <2>3. CASE RestartLaunch(t)
    <3>1. /\ pc[t] = "clear" /\ call[t] # "stop" /\ Launch({}) /\ Return(t)
      BY <2>3 DEF RestartLaunch
    <3>2. NativeWork = {} /\ stopping /\ proc # None
      BY <3>1, NoWorkLeft DEF RefinedInv, SerialInv, OwnerInv, TeardownInv
    <3>3. \A u \in Threads : pc'[u] \notin HoldsWriteLock
      BY <3>1 DEF RefinedInv, WriterInv, Return, Go, TypeOK, HoldsWriteLock
    <3>4. \/ \E p \in Children :
               /\ p # proc /\ proc' = p
               /\ NativeWork' \subseteq {p} \X ({Process} \cup Readers)
          \/ proc' = None /\ NativeWork' = {} /\ ~stopping'
      BY <3>1, <3>2, <3>3, LaunchAllocates DEF RefinedInv
    <3>5. QED
      BY <3>2, <3>4, ZenonT(60)
      DEF Promised!Allocate, Promised!Release, Process, WriterPart, Readers,
          RefinedInv, TypeOK
  <2>4. QED
    BY <1>3, <2>1, <2>2, <2>3 DEF Restart
<1>4. ASSUME NEW t \in Threads, Finish(t)
      PROVE  Stutter
  <2>1. CASE Terminate(t) \/ Kill(t)
    <3>1. \A p \in Children : Alive(p) = Alive(p)'
      BY <2>1 DEF Terminate, Kill, Alive, RefinedInv, TypeOK
    <3>2. UNCHANGED <<proc, stopping, reading, target>>
      BY <2>1 DEF Terminate, Kill, owned
    <3>3. \A u \in Threads : (pc'[u] \in HoldsWriteLock) = (pc[u] \in HoldsWriteLock)
      BY <2>1 DEF Terminate, Kill, Go, RefinedInv, TypeOK, HoldsWriteLock
    <3>4. QED
      BY <3>1, <3>2, <3>3 DEF NativeWork
  <2>2. CASE Reap(t) \/ DrainWriter(t) \/ JoinReaders(t) \/ FinishRaises(t)
    BY <2>2, SameWork
    DEF Reap, DrainWriter, JoinReaders, FinishRaises, Return, Go, owned,
        RefinedInv, TypeOK, HoldsWriteLock, Finishing
  <2>3. QED
    BY <1>4, <2>1, <2>2 DEF Finish
<1>5. ASSUME NEW t \in Threads, Write(t)
      PROVE  Stutter \/ Promised!Admit \/ Promised!WorkEnds
  <2>1. CASE WriteCall(t)
    <3>1. /\ pc[t] = "idle" /\ proc # None /\ ~stopping
          /\ pc' = [pc EXCEPT ![t] = "hook"]
          /\ target' = [target EXCEPT ![t] = proc]
          /\ UNCHANGED <<proc, stopping, child, reading>>
      BY <2>1 DEF WriteCall, Go, owned, native
    <3>2. NativeWork' = NativeWork \cup {<<proc, WriterPart>>}
      <4>1. NativeWork' \subseteq NativeWork \cup {<<proc, WriterPart>>}
        BY <3>1 DEF NativeWork, HoldsWriteLock, Alive, RefinedInv, TypeOK
      <4>2. <<proc, WriterPart>> \in NativeWork'
        BY <3>1 DEF NativeWork, HoldsWriteLock, RefinedInv, TypeOK
      <4>3. NativeWork \subseteq NativeWork'
        BY <3>1 DEF NativeWork, HoldsWriteLock, Alive, RefinedInv, TypeOK
      <4>4. QED
        BY <4>1, <4>2, <4>3
    <3>3. QED
      BY <3>1, <3>2 DEF Promised!Admit
  <2>2. CASE BeforeWrite(t) \/ RestartAcquire(t)
    BY <2>2, SameWork
    DEF BeforeWrite, RestartAcquire, Go, owned, RefinedInv, TypeOK, HoldsWriteLock
  <2>3. CASE BeforeWriteRaises(t) \/ WriteDone(t) \/ WriteFails(t)
    <3>1. UNCHANGED <<proc, stopping, child, reading>>
      BY <2>3 DEF BeforeWriteRaises, WriteDone, WriteFails, owned, native
    <3>2. \A u \in Threads : pc'[u] \in HoldsWriteLock =>
             pc[u] \in HoldsWriteLock /\ target'[u] = target[u]
      BY <2>3
      DEF BeforeWriteRaises, WriteDone, WriteFails, Return, Go, RefinedInv, TypeOK,
          HoldsWriteLock
    <3>3. NativeWork' \subseteq NativeWork
      BY <3>1, <3>2 DEF NativeWork, Alive
    <3>4. QED
      BY <3>1, <3>3 DEF Promised!WorkEnds
  <2>4. QED
    BY <1>5, <2>1, <2>2, <2>3 DEF Write
<1>6. CASE Environment
  <2>1. UNCHANGED <<proc, stopping, pc, target>>
    BY <1>6 DEF Environment, ChildExits, ReaderExits, OutputFails, owned, locals
  <2>2. reading' \subseteq reading /\ \A p \in Children : Alive(p)' => Alive(p)
    BY <1>6
    DEF Environment, ChildExits, ReaderExits, OutputFails, Alive, RefinedInv, TypeOK
  <2>3. NativeWork' \subseteq NativeWork
    BY <2>1, <2>2 DEF NativeWork
  <2>4. QED
    BY <2>1, <2>3 DEF Promised!WorkEnds
<1>7. CASE UNCHANGED vars
  BY <1>7 DEF vars, NativeWork, Alive
<1>8. QED
  BY <1>1, <1>2, <1>3, <1>4, <1>5, <1>6, <1>7 DEF Next

\* An encoder that nobody called owns nothing.
LEMMA InitSimulates == Init => Promised!ContractInit
  BY DEF Init, Promised!ContractInit, NativeWork, Alive, HoldsWriteLock

\* The encoder is an implementation of its contract.
THEOREM EncoderImplementsContract ==
    ASSUME Serialized
    PROVE  Spec => ImplementsContract
<1>1. RefinedInv /\ RefinedInv' /\ [Next]_vars => [Promised!ContractNext]_(Promised!contractVars)
  BY StepSimulates
<1>2. Spec => []RefinedInv
  BY QuiesceInvariant DEF RefinedInv
<1>3. QED
  BY <1>1, <1>2, InitSimulates, PTL DEF Spec, ImplementsContract, Promised!Contract
=============================================================================
