-------------------------- MODULE PreviewOutputProofs --------------------------
(***************************************************************************)
(* Proofs about PreviewOutput, for all threads, children and limits.  A    *)
(* step of the preview is a step of the encoder lifecycle or leaves it     *)
(* alone, so that all that SubprocessEncoderProofs shows holds here too.   *)
(***************************************************************************)
EXTENDS PreviewOutput, SubprocessEncoderProofs, SequenceTheorems

(***************************************************************************)
(* The preview encoder is a SubprocessEncoder (encoder.py:505): its hooks, *)
(* its child's output and its callbacks add nothing to what the lifecycle  *)
(* may do.                                                                 *)
(***************************************************************************)
LEMMA PreviewStepIsStep ==
    ASSUME [PreviewNext]_allVars
    PROVE  [Next]_vars
<1>1. ASSUME NEW t \in Threads, Lifecycle(t)
      PROVE  [Next]_vars
  BY <1>1 DEF Lifecycle, Next, Start, Stop, Restart, Write
<1>2. ASSUME NEW t \in Threads, Launches(t)
      PROVE  [Next]_vars
  BY <1>2 DEF Launches, Next, Start, Restart
<1>3. ASSUME NEW t \in Threads, WriteFrame(t)
      PROVE  [Next]_vars
  BY <1>3 DEF WriteFrame, FrameAdmitted, StampRecorded, OutputStalled, FrameWritten, Next, Write
<1>4. ASSUME NEW p \in Children, ChildStep(p)
      PROVE  [Next]_vars
  <2>1. CASE Encode(p)
    BY <2>1 DEF Encode
  <2>2. CASE ChildExits(p)
    BY <2>2 DEF Next, Environment
  <2>3. CASE ReaderExits(p, "stderr")
    <3>1. "stderr" \in Readers
      BY DEF Readers
    <3>2. QED
      BY <2>3, <3>1 DEF Next, Environment
  <2>4. QED
    BY <1>4, <2>1, <2>2, <2>3 DEF ChildStep
<1>5. ASSUME NEW p \in Children, ReaderStep(p)
      PROVE  [Next]_vars
  <2>1. CASE EmitPairs(p) \/ EmitDrops(p) \/ Publish(p)
    BY <2>1 DEF EmitPairs, EmitDrops, Publish
  <2>2. "output" \in Readers
    BY PreviewConstants DEF Readers
  <2>3. CASE OutputEnds(p) \/ OutputRaises(p)
    BY <2>2, <2>3 DEF OutputEnds, OutputRaises, Next, Environment
  <2>4. QED
    BY <1>5, <2>1, <2>3 DEF ReaderStep
<1>6. CASE UNCHANGED allVars
  BY <1>6 DEF allVars
<1>7. QED
  BY <1>1, <1>2, <1>3, <1>4, <1>5, <1>6 DEF PreviewNext

\* Every behaviour of the preview is one of the encoder's lifecycle.
THEOREM PreviewIsALifecycle == PreviewSpec => Spec
<1>1. PreviewInit => Init
  BY DEF PreviewInit
<1>2. [PreviewNext]_allVars => [Next]_vars
  BY PreviewStepIsStep
<1>3. QED
  BY <1>1, <1>2, PTL DEF PreviewSpec, Spec

-----------------------------------------------------------------------------
(***************************************************************************)
(* Numbers in rising order, and two pipes in the order of a queue.         *)
(***************************************************************************)
Rising(s) == \A i, j \in 1 .. Len(s) : i < j => s[i] < s[j]

\* The queue s starts with what is in the output o, then in the input i.
InLine(o, i, s) ==
    /\ Len(s) >= Len(o) + Len(i)
    /\ \A k \in 1 .. Len(o) : s[k] = o[k]
    /\ \A k \in 1 .. Len(i) : s[Len(o) + k] = i[k]

\* Without the first number the others still rise, all above it.
LEMMA TailRises ==
    ASSUME NEW s \in Seq(Nat), s # << >>, Rising(s)
    PROVE  /\ Tail(s) \in Seq(Nat) /\ Head(s) = s[1] /\ Len(s) \in Nat \ {0}
           /\ Len(Tail(s)) = Len(s) - 1
           /\ Rising(Tail(s))
           /\ \A i \in 1 .. Len(Tail(s)) :
                  Tail(s)[i] = s[i + 1] /\ i + 1 \in 1 .. Len(s) /\ Head(s) < Tail(s)[i]
<1> DEFINE r == Tail(s)
           n == Len(s)
<1>1. /\ r \in Seq(Nat) /\ Head(s) = s[1] /\ n \in Nat \ {0} /\ Len(r) = n - 1
      /\ \A i \in 1 .. Len(r) : r[i] = s[i + 1]
  BY HeadTailProperties, EmptySeq
<1> HIDE DEF r
<1>2. \A i \in 1 .. Len(r) : i + 1 \in 1 .. n /\ 1 \in 1 .. n /\ 1 < i + 1
  BY <1>1
<1>3. \A i \in 1 .. Len(r) : s[1] < r[i]
  BY <1>1, <1>2 DEF Rising
<1>4. ASSUME NEW i \in 1 .. Len(r), NEW j \in 1 .. Len(r), i < j
      PROVE  r[i] < r[j]
  <2>1. i + 1 \in 1 .. n /\ j + 1 \in 1 .. n /\ i + 1 < j + 1
    BY <1>1, <1>4
  <2>2. s[i + 1] < s[j + 1]
    BY <2>1 DEF Rising
  <2>3. QED
    BY <1>1, <2>2
<1>5. QED
  BY <1>1, <1>2, <1>3, <1>4 DEF Rising, r

\* A greater number at the end.
LEMMA AppendRises ==
    ASSUME NEW s \in Seq(Nat), NEW x \in Nat, Rising(s), \A i \in 1 .. Len(s) : s[i] < x
    PROVE  /\ Append(s, x) \in Seq(Nat) /\ Len(Append(s, x)) = Len(s) + 1 /\ Len(s) \in Nat
           /\ Rising(Append(s, x))
           /\ Append(s, x)[Len(s) + 1] = x
           /\ \A i \in 1 .. Len(s) : Append(s, x)[i] = s[i]
<1> DEFINE r == Append(s, x)
           n == Len(s)
<1>1. /\ r \in Seq(Nat) /\ n \in Nat /\ Len(r) = n + 1 /\ r[n + 1] = x
      /\ \A i \in 1 .. n : r[i] = s[i]
  BY AppendProperties, LenProperties
<1> HIDE DEF r
<1>2. ASSUME NEW i \in 1 .. Len(r), NEW j \in 1 .. Len(r), i < j
      PROVE  r[i] < r[j]
  <2>1. i \in 1 .. n /\ r[i] = s[i]
    BY <1>1, <1>2
  <2>2. CASE j = n + 1
    BY <1>1, <2>1, <2>2
  <2>3. CASE j # n + 1
    <3>1. j \in 1 .. n /\ r[j] = s[j]
      BY <1>1, <2>3
    <3>2. QED
      BY <1>2, <2>1, <3>1 DEF Rising
  <2>4. QED
    BY <2>2, <2>3
<1>3. QED
  BY <1>1, <1>2 DEF Rising, r

\* The child encodes a frame.
LEMMA EncodedInLine ==
    ASSUME NEW S, NEW o \in Seq(S), NEW i \in Seq(S), NEW s, i # << >>, InLine(o, i, s)
    PROVE  /\ InLine(Append(o, Head(i)), Tail(i), s)
           /\ Len(Append(o, Head(i))) + Len(Tail(i)) = Len(o) + Len(i)
<1> DEFINE o1 == Append(o, Head(i))
           i1 == Tail(i)
           m == Len(o)
           n == Len(i)
<1>1. /\ m \in Nat /\ n \in Nat \ {0} /\ Head(i) = i[1] /\ Head(i) \in S
      /\ Len(i1) = n - 1 /\ \A k \in 1 .. n - 1 : i1[k] = i[k + 1]
  BY LenProperties, HeadTailProperties, EmptySeq
<1>2. Len(o1) = m + 1 /\ o1[m + 1] = i[1] /\ \A k \in 1 .. m : o1[k] = o[k]
  BY <1>1, AppendProperties
<1>3. /\ Len(s) >= m + n /\ \A k \in 1 .. m : s[k] = o[k]
      /\ \A k \in 1 .. n : s[m + k] = i[k]
  BY DEF InLine
<1> HIDE DEF o1, i1, m, n
<1>4. ASSUME NEW k \in 1 .. m + 1
      PROVE  s[k] = o1[k]
  <2>1. CASE k = m + 1
    <3>1. 1 \in 1 .. n /\ s[m + 1] = i[1]
      BY <1>1, <1>3
    <3>2. QED
      BY <1>2, <2>1, <3>1
  <2>2. CASE k # m + 1
    <3>1. k \in 1 .. m
      BY <1>1, <2>2
    <3>2. QED
      BY <1>2, <1>3, <3>1
  <2>3. QED
    BY <2>1, <2>2
<1>5. ASSUME NEW k \in 1 .. n - 1
      PROVE  s[(m + 1) + k] = i1[k]
  <2>1. k + 1 \in 1 .. n /\ (m + 1) + k = m + (k + 1)
    BY <1>1
  <2>2. s[m + (k + 1)] = i[k + 1]
    BY <1>3, <2>1
  <2>3. QED
    BY <1>1, <2>1, <2>2
<1>6. (m + 1) + (n - 1) = m + n
  BY <1>1
<1>7. InLine(o1, i1, s) /\ Len(o1) + Len(i1) = m + n
  BY <1>1, <1>2, <1>3, <1>4, <1>5, <1>6 DEF InLine
<1>8. QED
  BY <1>7 DEF o1, i1, m, n

\* The reader takes a unit and its stamp.
LEMMA EmittedInLine ==
    ASSUME NEW S, NEW o \in Seq(S), NEW i \in Seq(S), NEW T, NEW s \in Seq(T),
           o # << >>, InLine(o, i, s)
    PROVE  /\ s # << >> /\ Head(s) = Head(o)
           /\ InLine(Tail(o), i, Tail(s))
           /\ Len(Tail(o)) = Len(o) - 1 /\ Len(Tail(s)) = Len(s) - 1
           /\ Len(s) \in Nat /\ Len(o) \in Nat /\ Len(i) \in Nat
<1> DEFINE o1 == Tail(o)
           s1 == Tail(s)
           m == Len(o)
           n == Len(i)
<1>1. /\ m \in Nat \ {0} /\ n \in Nat /\ Len(s) \in Nat /\ Head(o) = o[1]
      /\ Len(o1) = m - 1 /\ \A k \in 1 .. m - 1 : o1[k] = o[k + 1]
  BY LenProperties, HeadTailProperties, EmptySeq
<1>2. /\ Len(s) >= m + n /\ \A k \in 1 .. m : s[k] = o[k]
      /\ \A k \in 1 .. n : s[m + k] = i[k]
  BY DEF InLine
<1>3. Len(s) > 0 /\ s # << >>
  <2>1. Len(s) > 0
    BY <1>1, <1>2
  <2>2. QED
    BY <2>1, EmptySeq
<1>4. Head(s) = s[1] /\ Len(s1) = Len(s) - 1 /\ \A k \in 1 .. Len(s) - 1 : s1[k] = s[k + 1]
  BY <1>3, HeadTailProperties
<1>5. s[1] = o[1]
  BY <1>1, <1>2
<1> HIDE DEF o1, s1, m, n
<1>6. ASSUME NEW k \in 1 .. m - 1
      PROVE  s1[k] = o1[k]
  <2>1. k + 1 \in 1 .. m /\ k \in 1 .. Len(s) - 1
    BY <1>1, <1>2
  <2>2. QED
    BY <1>1, <1>2, <1>4, <2>1
<1>7. ASSUME NEW k \in 1 .. n
      PROVE  s1[(m - 1) + k] = i[k]
  <2>1. (m - 1) + k \in 1 .. Len(s) - 1 /\ ((m - 1) + k) + 1 = m + k
    BY <1>1, <1>2
  <2>2. QED
    BY <1>2, <1>4, <2>1
<1>8. Len(s1) >= (m - 1) + n
  BY <1>1, <1>2, <1>4
<1>9. InLine(o1, i, s1)
  BY <1>1, <1>6, <1>7, <1>8 DEF InLine, n
<1>10. QED
  BY <1>1, <1>3, <1>4, <1>5, <1>9 DEF o1, s1, m, n

\* A stamp is recorded.
LEMMA StampedInLine ==
    ASSUME NEW S, NEW o \in Seq(S), NEW i \in Seq(S), NEW T, NEW s \in Seq(T), NEW x \in T,
           InLine(o, i, s)
    PROVE  InLine(o, i, Append(s, x))
<1> DEFINE r == Append(s, x)
<1>1. /\ Len(o) \in Nat /\ Len(i) \in Nat /\ Len(s) \in Nat /\ Len(r) = Len(s) + 1
      /\ \A k \in 1 .. Len(s) : r[k] = s[k]
  BY LenProperties, AppendProperties
<1>2. /\ Len(s) >= Len(o) + Len(i)
      /\ \A k \in 1 .. Len(o) : s[k] = o[k]
      /\ \A k \in 1 .. Len(i) : s[Len(o) + k] = i[k]
  BY DEF InLine
<1> HIDE DEF r
<1>3. \A k \in 1 .. Len(o) : k \in 1 .. Len(s)
  BY <1>1, <1>2
<1>4. \A k \in 1 .. Len(i) : Len(o) + k \in 1 .. Len(s)
  BY <1>1, <1>2
<1>5. Len(r) >= Len(o) + Len(i)
  BY <1>1, <1>2
<1>6. InLine(o, i, r)
  BY <1>1, <1>2, <1>3, <1>4, <1>5 DEF InLine
<1>7. QED
  BY <1>6 DEF r

\* The frame whose stamp is the last one is in the pipe.
LEMMA WrittenInLine ==
    ASSUME NEW S, NEW o \in Seq(S), NEW i \in Seq(S), NEW s, NEW x \in S, InLine(o, i, s),
           Len(s) = Len(o) + Len(i) + 1, s[Len(s)] = x
    PROVE  /\ InLine(o, Append(i, x), s) /\ Len(Append(i, x)) = Len(i) + 1
           /\ Len(o) \in Nat /\ Len(i) \in Nat
<1> DEFINE r == Append(i, x)
           m == Len(o)
           n == Len(i)
<1>1. /\ m \in Nat /\ n \in Nat /\ Len(r) = n + 1 /\ r[n + 1] = x
      /\ \A k \in 1 .. n : r[k] = i[k]
  BY LenProperties, AppendProperties
<1>2. /\ Len(s) = m + n + 1 /\ \A k \in 1 .. m : s[k] = o[k]
      /\ \A k \in 1 .. n : s[m + k] = i[k]
  BY DEF InLine
<1> HIDE DEF r, m, n
<1>3. ASSUME NEW k \in 1 .. n + 1
      PROVE  s[m + k] = r[k]
  <2>1. CASE k = n + 1
    <3>1. m + k = Len(s)
      BY <1>1, <1>2, <2>1
    <3>2. QED
      BY <1>1, <2>1, <3>1
  <2>2. CASE k # n + 1
    <3>1. k \in 1 .. n
      BY <1>1, <2>2
    <3>2. QED
      BY <1>1, <1>2, <3>1
  <2>3. QED
    BY <2>1, <2>2
<1>4. Len(s) >= m + (n + 1)
  BY <1>1, <1>2
<1>5. InLine(o, r, s)
  BY <1>1, <1>2, <1>3, <1>4 DEF InLine, m
<1>6. QED
  BY <1>1, <1>5 DEF r, m, n

-----------------------------------------------------------------------------
(***************************************************************************)
(* The inductive invariant.                                                *)
(***************************************************************************)
Emissions == {<< >>} \cup ((1 .. MaxFrames) \X (1 .. MaxFrames))

StampTypes ==
    /\ frames \in 0 .. MaxFrames
    /\ writing \in [Threads -> 0 .. MaxFrames]
    /\ stamps \in Seq(1 .. MaxFrames) /\ Len(stamps) <= StampLimit
    /\ input \in [Children -> Seq(1 .. MaxFrames)]
    /\ output \in [Children -> Seq(1 .. MaxFrames)]
    /\ emitting \in [Children -> Emissions]
    /\ published \in (0 .. MaxFrames) \X (0 .. MaxFrames)

\* The one writer writes the newest frame.
PumpInv ==
    \A t \in Threads :
        call[t] = "write" => t \in Writers /\ writing[t] = frames /\ frames > 0

Above(s, n) == \A i \in 1 .. Len(s) : n < s[i]
Below(s, n) == \A i \in 1 .. Len(s) : s[i] < n

\* The stamps that wait rise, between what was published and the newest frame,
\* whose own stamp is not among them before the hook has recorded it.
OrderInv ==
    /\ Rising(stamps)
    /\ published[2] <= frames
    /\ Above(stamps, published[2])
    /\ Below(stamps, frames + 1)
    /\ \A t \in Threads : pc[t] = "hook" => published[2] < frames /\ Below(stamps, frames)

\* What a callback publishes lies between what was published and what waits; its
\* reader is still there.
EmitInv ==
    /\ published[1] = published[2]
    /\ \A p \in Children : emitting[p] # << >> =>
           /\ <<p, "output">> \in reading
           /\ emitting[p][1] = emitting[p][2]
           /\ published[2] < emitting[p][2]
           /\ emitting[p][2] <= frames
           /\ \A t \in Threads : pc[t] = "hook" => emitting[p][2] < frames
           /\ Above(stamps, emitting[p][2])

\* A writer that has recorded the stamp of its frame, but has not got the frame
\* into the pipe of the current child.
Behind(t) ==
    /\ call[t] = "write"
    /\ pc[t] \in {"writing", "broken", "restart"}
    /\ target[t] = proc

\* The stamps are those of the units in the current child's output, then of the
\* frames in its input, then of the frame that is being written.
Paired ==
    /\ InLine(output[proc], input[proc], stamps)
    /\ (\A t \in Threads : ~Behind(t)) => Len(stamps) = Len(output[proc]) + Len(input[proc])
    /\ \A t \in Threads : Behind(t) =>
           /\ Len(stamps) = Len(output[proc]) + Len(input[proc]) + 1
           /\ stamps[Len(stamps)] = writing[t]

FifoInv == proc # None /\ ~stopping => Paired

LifeInv == TypeOK /\ OwnerInv /\ SerialInv /\ WriterInv
PreviewInv == StampTypes /\ PumpInv /\ OrderInv /\ EmitInv /\ FifoInv

\* One reader's callback at most is at work, that of the current child.
LEMMA OneCallback ==
    ASSUME LifeInv, EmitInv, NEW p \in Children, emitting[p] # << >>
    PROVE  p = proc
<1>1. <<p, "output">> \in reading
  BY DEF EmitInv
<1>2. QED
  BY <1>1 DEF LifeInv, OwnerInv, SingleOwner

\* The types of a callback's pair.
LEMMA PairType ==
    ASSUME StampTypes, NEW p \in Children, emitting[p] # << >>
    PROVE  /\ emitting[p] \in (1 .. MaxFrames) \X (1 .. MaxFrames)
           /\ emitting[p][1] \in Nat /\ emitting[p][2] \in Nat
<1>1. emitting[p] \in Emissions
  BY DEF StampTypes
<1>2. emitting[p] \in (1 .. MaxFrames) \X (1 .. MaxFrames)
  BY <1>1 DEF Emissions
<1>3. QED
  BY <1>2

\* The types as numbers.
LEMMA Numbers ==
    ASSUME StampTypes
    PROVE  /\ MaxFrames \in Nat /\ frames \in Nat
           /\ published[1] \in Nat /\ published[2] \in Nat
           /\ stamps \in Seq(Nat) /\ Len(stamps) \in Nat
           /\ \A i \in 1 .. Len(stamps) : stamps[i] \in 1 .. MaxFrames
<1>1. MaxFrames \in Nat
  BY PreviewConstants
<1>2. /\ frames \in 0 .. MaxFrames /\ stamps \in Seq(1 .. MaxFrames)
      /\ published \in (0 .. MaxFrames) \X (0 .. MaxFrames)
  BY DEF StampTypes
<1>3. Len(stamps) \in Nat /\ \A i \in 1 .. Len(stamps) : stamps[i] \in 1 .. MaxFrames
  BY <1>2, LenProperties, ElementOfSeq
<1>4. stamps \in Seq(Nat)
  BY <1>1, <1>2
<1>5. QED
  BY <1>1, <1>2, <1>3, <1>4

-----------------------------------------------------------------------------
(***************************************************************************)
(* The steps that touch neither stamps nor pipes.                          *)
(***************************************************************************)
Calm ==
    /\ \A t \in Threads : call'[t] = "write" => call[t] = "write"
    /\ \A t \in Threads : pc'[t] = "hook" => pc[t] = "hook"
    /\ \A p \in Children : emitting[p] # << >> /\ <<p, "output">> \in reading => <<p, "output">> \in reading'
    /\ proc' # None /\ ~stopping' =>
           /\ proc' = proc /\ ~stopping
           /\ \A t \in Threads : Behind(t)' <=> Behind(t)

\* Such a step keeps the invariant.
LEMMA CalmStep ==
    ASSUME PreviewInv, Calm, UNCHANGED previewVars
    PROVE  PreviewInv'
<1> USE DEF previewVars
<1>1. StampTypes'
  BY DEF PreviewInv, StampTypes
<1>2. PumpInv'
  BY DEF PreviewInv, PumpInv, Calm
<1>3. OrderInv'
  BY DEF PreviewInv, OrderInv, Calm, Above, Below, Rising
<1>4. EmitInv'
  BY DEF PreviewInv, EmitInv, Calm, Above
<1>5. FifoInv'
  <2> SUFFICES ASSUME proc' # None, ~stopping'
               PROVE  Paired'
    BY DEF FifoInv
  <2>1. proc' = proc /\ ~stopping /\ \A t \in Threads : Behind(t)' <=> Behind(t)
    BY DEF Calm
  <2>2. Paired
    BY <2>1 DEF PreviewInv, FifoInv
  <2>3. QED
    BY <2>1, <2>2 DEF Paired, InLine
<1>6. QED
  BY <1>1, <1>2, <1>3, <1>4, <1>5 DEF PreviewInv

\* The calls that neither launch nor write.
LEMMA LifecycleIsCalm ==
    ASSUME LifeInv, NEW t \in Threads, Lifecycle(t)
    PROVE  Calm
<1> USE DEF Calm, Behind, LifeInv, TypeOK, Finishing
<1>1. CASE StartCall(t) \/ StartUnchanged(t) \/ StartRestart(t)
  BY <1>1 DEF StartCall, StartUnchanged, StartRestart, StartReturns, Enter, Return, Go, owned, native,
              OwnerInv, CallInv
<1>2. CASE Stop(t)
  BY <1>2 DEF Stop, StopCall, StopAcquire, StopTimeout, StopClear, Enter, Return, Go, owned, native,
              OwnerInv, CallInv
<1>3. CASE RestartSkip(t) \/ RestartBegin(t) \/ RestartSuperseded(t)
  BY <1>3 DEF RestartSkip, RestartBegin, RestartSuperseded, Return, Go, owned, native
<1>4. CASE Finish(t)
  <2>1. stopping /\ stopping' = stopping
    BY <1>4 DEF Finish, Terminate, Kill, Reap, DrainWriter, JoinReaders, FinishRaises, SerialInv
  <2>2. QED
    BY <1>4, <2>1 DEF Finish, Terminate, Kill, Reap, DrainWriter, JoinReaders, FinishRaises,
                      Return, Go, owned, native
<1>5. CASE WriteFails(t)
  BY <1>5 DEF WriteFails, Go, owned, native, OwnerInv, CallInv
<1>6. CASE RestartAcquire(t)
  BY <1>6 DEF RestartAcquire, Go, owned, native, OwnerInv, CallInv
<1>7. QED
  BY <1>1, <1>2, <1>3, <1>4, <1>5, <1>6 DEF Lifecycle

\* A write that is refused, a child that exits, a reader that leaves its loop.
LEMMA OtherCalm ==
    ASSUME LifeInv,
           \/ \E t \in Threads : OutputStalled(t)
           \/ \E p \in Children : ChildExits(p) \/ ReaderExits(p, "stderr") \/ OutputEnds(p)
           \/ UNCHANGED allVars
    PROVE  Calm
<1> USE DEF Calm, Behind
<1>1. CASE \E t \in Threads : OutputStalled(t)
  BY <1>1 DEF OutputStalled, BeforeWriteRaises, Return, Go, owned, native, LifeInv, TypeOK
<1>2. CASE \E p \in Children : ChildExits(p)
  BY <1>2 DEF ChildExits, owned, locals
<1>3. CASE \E p \in Children : ReaderExits(p, "stderr")
  BY <1>3 DEF ReaderExits, owned, locals
<1>4. CASE \E p \in Children : OutputEnds(p)
  BY <1>4 DEF OutputEnds, ReaderExits, owned, locals
<1>5. CASE UNCHANGED allVars
  BY <1>5 DEF allVars, vars
<1>6. QED
  BY <1>1, <1>2, <1>3, <1>4, <1>5

-----------------------------------------------------------------------------
(***************************************************************************)
(* The steps of the writer.                                                *)
(***************************************************************************)
\* No other thread is in a write.
LEMMA OneWriter ==
    ASSUME PumpInv, NEW t \in Writers, NEW u \in Threads, call[u] = "write"
    PROVE  u = t
BY PreviewConstants DEF PumpInv

\* write_frame begins: its frame is newer than all that wait.
LEMMA FrameAdmittedStep ==
    ASSUME LifeInv, PreviewInv, NEW t \in Threads, FrameAdmitted(t)
    PROVE  PreviewInv'
<1>1. /\ t \in Writers /\ pc[t] = "idle" /\ call[t] = "none" /\ ~stopping /\ proc # None
      /\ frames < MaxFrames
      /\ pc' = [pc EXCEPT ![t] = "hook"]
      /\ call' = [call EXCEPT ![t] = "write"]
      /\ target' = [target EXCEPT ![t] = proc]
      /\ frames' = frames + 1
      /\ writing' = [writing EXCEPT ![t] = frames + 1]
      /\ UNCHANGED <<proc, reading, stopping, stamps, input, output, emitting, published>>
  BY DEF FrameAdmitted, WriteCall, Go, owned, native, LifeInv, OwnerInv, CallInv
<1>2. frames' \in 1 .. MaxFrames /\ frames' = frames + 1 /\ frames \in Nat
  BY <1>1, Numbers DEF PreviewInv
<1>3. \A u \in Threads : call[u] # "write"
  BY <1>1, OneWriter DEF PreviewInv
<1>4. \A u \in Threads : u # t => call'[u] # "write" /\ pc'[u] = pc[u]
  BY <1>1, <1>3 DEF LifeInv, TypeOK
<1>5. /\ call'[t] = "write" /\ pc'[t] = "hook"
      /\ writing'[t] = frames' /\ writing' \in [Threads -> 0 .. MaxFrames]
  BY <1>1, <1>2 DEF LifeInv, TypeOK, PreviewInv, StampTypes
<1>6. StampTypes'
  BY <1>1, <1>2, <1>5 DEF PreviewInv, StampTypes
<1>7. PumpInv'
  BY <1>1, <1>2, <1>4, <1>5 DEF PumpInv
<1>8. /\ published[2] \in Nat /\ Len(stamps) \in Nat
      /\ \A i \in 1 .. Len(stamps) : stamps[i] \in Nat
  BY Numbers DEF PreviewInv
<1>9. OrderInv'
  <2>1. published[2] <= frames /\ Below(stamps, frames + 1) /\ Above(stamps, published[2])
    BY DEF PreviewInv, OrderInv
  <2>2. published'[2] < frames' /\ Below(stamps', frames') /\ Below(stamps', frames' + 1)
    BY <1>1, <1>2, <1>8, <2>1 DEF Below
  <2>3. QED
    BY <1>1, <1>2, <1>8, <2>1, <2>2 DEF PreviewInv, OrderInv, Rising, Above
<1>10. EmitInv'
  <2> SUFFICES ASSUME NEW p \in Children, emitting[p] # << >>
               PROVE  emitting[p][2] <= frames' /\ emitting[p][2] < frames'
    BY <1>1 DEF PreviewInv, EmitInv, Above
  <2>1. emitting[p][2] \in Nat /\ emitting[p][2] <= frames
    BY PairType DEF PreviewInv, EmitInv
  <2>2. QED
    BY <1>2, <2>1
<1>11. FifoInv'
  <2>1. \A u \in Threads : ~Behind(u)
    BY <1>3 DEF Behind
  <2>2. \A u \in Threads : ~Behind(u)'
    BY <1>4, <1>5 DEF Behind
  <2>3. Paired
    BY <1>1 DEF PreviewInv, FifoInv
  <2>4. QED
    BY <1>1, <2>1, <2>2, <2>3 DEF FifoInv, Paired, InLine
<1>12. QED
  BY <1>6, <1>7, <1>9, <1>10, <1>11 DEF PreviewInv

\* The stamp of the newest frame is put behind the others.
LEMMA StampRecordedStep ==
    ASSUME LifeInv, PreviewInv, NEW t \in Threads, StampRecorded(t)
    PROVE  PreviewInv'
<1>1. /\ pc[t] = "hook" /\ call[t] = "write" /\ target[t] = proc /\ proc # None
      /\ Len(stamps) < StampLimit
      /\ pc' = [pc EXCEPT ![t] = "writing"]
      /\ stamps' = Append(stamps, writing[t])
      /\ UNCHANGED <<proc, reading, stopping, call, target, frames, writing, input, output,
                     emitting, published>>
  BY DEF StampRecorded, BeforeWrite, Go, owned, native, LifeInv, OwnerInv, CallInv, WriterInv,
         HoldsWriteLock
<1>2. t \in Writers /\ writing[t] = frames /\ frames > 0
  BY <1>1 DEF PreviewInv, PumpInv
<1>3. frames \in 1 .. MaxFrames /\ StampLimit \in Nat /\ Len(stamps) \in Nat
  BY <1>2, Numbers, PreviewConstants DEF PreviewInv, StampTypes
<1>4. \A u \in Threads : call[u] = "write" => u = t
  BY <1>2, OneWriter DEF PreviewInv
<1>5. \A u \in Threads : pc'[u] # "hook"
  BY <1>1, <1>4 DEF LifeInv, TypeOK, OwnerInv, CallInv, HoldsWriteLock
<1>6. /\ stamps \in Seq(Nat) /\ published[2] \in Nat /\ published[2] < frames
      /\ Rising(stamps) /\ Above(stamps, published[2]) /\ Below(stamps, frames)
      /\ \A i \in 1 .. Len(stamps) : stamps[i] \in Nat
  BY <1>1, Numbers DEF PreviewInv, OrderInv
<1> DEFINE r == Append(stamps, frames)
<1>7. /\ Rising(r) /\ Len(r) = Len(stamps) + 1 /\ r[Len(stamps) + 1] = frames
      /\ \A i \in 1 .. Len(stamps) : r[i] = stamps[i]
  BY <1>3, <1>6, AppendRises DEF Below
<1>8. r \in Seq(1 .. MaxFrames) /\ stamps \in Seq(1 .. MaxFrames)
  BY <1>3, AppendProperties DEF PreviewInv, StampTypes
<1>9. ASSUME NEW n \in Nat, n < frames, Above(stamps, n)
      PROVE  Above(r, n)
  <2>1. ASSUME NEW i \in 1 .. Len(stamps) + 1
        PROVE  n < r[i]
    <3>1. CASE i = Len(stamps) + 1
      BY <1>7, <1>9, <3>1
    <3>2. CASE i # Len(stamps) + 1
      <4>1. i \in 1 .. Len(stamps)
        BY <1>3, <3>2
      <4>2. QED
        BY <1>7, <1>9, <4>1 DEF Above
    <3>3. QED
      BY <3>1, <3>2
  <2>2. QED
    BY <1>7, <2>1 DEF Above
<1>10. Below(r, frames + 1)
  <2>1. ASSUME NEW i \in 1 .. Len(stamps) + 1
        PROVE  r[i] < frames + 1
    <3>1. CASE i = Len(stamps) + 1
      BY <1>3, <1>7, <3>1
    <3>2. CASE i # Len(stamps) + 1
      <4>1. i \in 1 .. Len(stamps)
        BY <1>3, <3>2
      <4>2. r[i] = stamps[i] /\ stamps[i] < frames /\ stamps[i] \in Nat
        BY <1>6, <1>7, <4>1 DEF Below
      <4>3. QED
        BY <1>3, <4>2
    <3>3. QED
      BY <3>1, <3>2
  <2>2. QED
    BY <1>7, <2>1 DEF Below
<1>11. stamps' = r
  BY <1>1, <1>2
<1>12. proc \in Children
  BY <1>1 DEF LifeInv, TypeOK
<1>13. ~stopping => InLine(output[proc], input[proc], r)
               /\ Len(r) = Len(output[proc]) + Len(input[proc]) + 1
  <2> SUFFICES ASSUME ~stopping
               PROVE  InLine(output[proc], input[proc], r)
                      /\ Len(r) = Len(output[proc]) + Len(input[proc]) + 1
    OBVIOUS
  <2>1. Paired
    BY <1>1 DEF PreviewInv, FifoInv
  <2>2. \A u \in Threads : ~Behind(u)
    BY <1>1, <1>4 DEF Behind
  <2>3. output[proc] \in Seq(1 .. MaxFrames) /\ input[proc] \in Seq(1 .. MaxFrames)
    BY <1>12 DEF PreviewInv, StampTypes
  <2>4. InLine(output[proc], input[proc], stamps)
        /\ Len(stamps) = Len(output[proc]) + Len(input[proc])
    BY <2>1, <2>2 DEF Paired
  <2>5. InLine(output[proc], input[proc], r)
    BY <1>3, <1>8, <2>3, <2>4, StampedInLine
  <2>6. QED
    BY <1>7, <2>4, <2>5
<1> HIDE DEF r
<1>14. StampTypes'
  BY <1>1, <1>3, <1>7, <1>8, <1>11 DEF PreviewInv, StampTypes
<1>15. PumpInv'
  BY <1>1 DEF PreviewInv, PumpInv
<1>16. OrderInv'
  <2>1. published[2] <= frames
    BY <1>3, <1>6
  <2>2. Above(r, published[2])
    BY <1>6, <1>9
  <2>3. QED
    BY <1>1, <1>5, <1>7, <1>10, <1>11, <2>1, <2>2 DEF OrderInv
<1>17. EmitInv'
  <2> SUFFICES ASSUME NEW p \in Children, emitting[p] # << >>
               PROVE  Above(r, emitting[p][2])
    BY <1>1, <1>5, <1>11 DEF PreviewInv, EmitInv
  <2>1. emitting[p][2] \in Nat /\ emitting[p][2] < frames /\ Above(stamps, emitting[p][2])
    BY <1>1, PairType DEF PreviewInv, EmitInv
  <2>2. QED
    BY <1>9, <2>1
<1>18. FifoInv'
  <2>1. Behind(t)'
    BY <1>1 DEF Behind, LifeInv, TypeOK
  <2>2. \A u \in Threads : Behind(u)' => u = t
    BY <1>1, <1>4 DEF Behind
  <2>3. r[Len(r)] = writing[t]
    BY <1>2, <1>7
  <2>4. QED
    BY <1>1, <1>11, <1>13, <2>1, <2>2, <2>3 DEF FifoInv, Paired
<1>19. QED
  BY <1>14, <1>15, <1>16, <1>17, <1>18 DEF PreviewInv

\* The frame is in the pipe: the last stamp has its frame.
LEMMA FrameWrittenStep ==
    ASSUME LifeInv, PreviewInv, NEW t \in Threads, FrameWritten(t)
    PROVE  PreviewInv'
<1>1. /\ pc[t] = "writing" /\ call[t] = "write" /\ target[t] = proc /\ proc # None
      /\ pc' = [pc EXCEPT ![t] = "idle"]
      /\ call' = [call EXCEPT ![t] = "none"]
      /\ input' = [input EXCEPT ![proc] = Append(@, writing[t])]
      /\ UNCHANGED <<proc, reading, stopping, frames, writing, stamps, output, emitting, published>>
  BY DEF FrameWritten, WriteDone, Return, Go, owned, native, LifeInv, OwnerInv, CallInv, WriterInv,
         HoldsWriteLock
<1>2. t \in Writers /\ writing[t] = frames /\ frames > 0
  BY <1>1 DEF PreviewInv, PumpInv
<1>3. frames \in 1 .. MaxFrames /\ proc \in Children
  BY <1>1, <1>2, Numbers DEF PreviewInv, StampTypes, LifeInv, TypeOK
<1>4. \A u \in Threads : u # t => call[u] # "write" /\ call'[u] # "write"
  BY <1>1, <1>2, OneWriter DEF PreviewInv, LifeInv, TypeOK
<1>5. call'[t] = "none" /\ pc'[t] = "idle"
  BY <1>1 DEF LifeInv, TypeOK
<1> DEFINE i == input[proc]
           o == output[proc]
<1>6. i \in Seq(1 .. MaxFrames) /\ o \in Seq(1 .. MaxFrames)
  BY <1>3 DEF PreviewInv, StampTypes
<1>7. /\ input' \in [Children -> Seq(1 .. MaxFrames)] /\ input'[proc] = Append(i, frames)
  BY <1>1, <1>2, <1>3, <1>6, AppendProperties DEF PreviewInv, StampTypes
<1> HIDE DEF i, o
<1>8. ~stopping => /\ InLine(o, Append(i, frames), stamps)
                   /\ Len(stamps) = Len(o) + Len(Append(i, frames))
  <2> SUFFICES ASSUME ~stopping
               PROVE  /\ InLine(o, Append(i, frames), stamps)
                      /\ Len(stamps) = Len(o) + Len(Append(i, frames))
    OBVIOUS
  <2>1. Paired /\ Behind(t)
    BY <1>1 DEF PreviewInv, FifoInv, Behind
  <2>2. InLine(o, i, stamps) /\ Len(stamps) = Len(o) + Len(i) + 1 /\ stamps[Len(stamps)] = frames
    BY <1>2, <2>1 DEF Paired, i, o
  <2>3. /\ InLine(o, Append(i, frames), stamps) /\ Len(Append(i, frames)) = Len(i) + 1
        /\ Len(o) \in Nat /\ Len(i) \in Nat
    <3> DEFINE S == 1 .. MaxFrames
               s == stamps
               x == frames
    <3>1. i \in Seq(S) /\ o \in Seq(S) /\ x \in S
      BY <1>3, <1>6
    <3>2. InLine(o, i, s) /\ Len(s) = Len(o) + Len(i) + 1 /\ s[Len(s)] = x
      BY <2>2
    <3> HIDE DEF S, s, x
    <3>3. InLine(o, Append(i, x), s) /\ Len(Append(i, x)) = Len(i) + 1 /\ Len(o) \in Nat /\ Len(i) \in Nat
      BY <3>1, <3>2, WrittenInLine
    <3>4. QED
      BY <3>3 DEF s, x
  <2>4. QED
    BY <2>2, <2>3
<1>9. StampTypes'
  BY <1>1, <1>7 DEF PreviewInv, StampTypes
<1>10. PumpInv'
  BY <1>1, <1>4, <1>5 DEF PumpInv
<1>11. \A u \in Threads : pc'[u] = "hook" => pc[u] = "hook"
  BY <1>1 DEF LifeInv, TypeOK
<1>12. OrderInv'
  BY <1>1, <1>11 DEF PreviewInv, OrderInv
<1>13. EmitInv'
  BY <1>1, <1>11 DEF PreviewInv, EmitInv
<1>14. FifoInv'
  <2>1. \A u \in Threads : ~Behind(u)'
    BY <1>4, <1>5 DEF Behind
  <2>2. QED
    BY <1>1, <1>7, <1>8, <2>1 DEF FifoInv, Paired, o
<1>15. QED
  BY <1>9, <1>10, <1>12, <1>13, <1>14 DEF PreviewInv

-----------------------------------------------------------------------------
(***************************************************************************)
(* The steps of the child and of its output reader.                        *)
(***************************************************************************)
LEMMA EncodeStep ==
    ASSUME LifeInv, PreviewInv, NEW p \in Children, Encode(p)
    PROVE  PreviewInv'
<1>1. /\ p = proc /\ input[p] # << >>
      /\ input' = [input EXCEPT ![p] = Tail(@)]
      /\ output' = [output EXCEPT ![p] = Append(@, Head(input[p]))]
      /\ UNCHANGED <<proc, reading, stopping, pc, call, target, frames, writing, stamps,
                     emitting, published>>
  BY DEF Encode, vars, LifeInv, OwnerInv, SingleOwner
<1> DEFINE i == input[p]
           o == output[p]
           S == 1 .. MaxFrames
<1>2. /\ i \in Seq(S) /\ o \in Seq(S) /\ i # << >>
      /\ input \in [Children -> Seq(S)] /\ output \in [Children -> Seq(S)]
  BY <1>1 DEF PreviewInv, StampTypes
<1>3. Tail(i) \in Seq(S) /\ Append(o, Head(i)) \in Seq(S)
  BY <1>2, HeadTailProperties, AppendProperties
<1>4. /\ input' \in [Children -> Seq(S)] /\ input'[p] = Tail(i)
      /\ output' \in [Children -> Seq(S)] /\ output'[p] = Append(o, Head(i))
  BY <1>1, <1>2, <1>3
<1>5. ASSUME Paired
      PROVE  Paired'
  <2> DEFINE s == stamps
  <2>1. InLine(o, i, s)
    BY <1>1, <1>5 DEF Paired
  <2>2. UNCHANGED <<call, pc, target, proc, stamps, writing>>
    BY <1>1
  <2> HIDE DEF i, o, s, S
  <2>3. /\ InLine(Append(o, Head(i)), Tail(i), s)
        /\ Len(Append(o, Head(i))) + Len(Tail(i)) = Len(o) + Len(i)
    BY <1>2, <2>1, EncodedInLine
  <2>4. /\ (\A t \in Threads : ~Behind(t)) => Len(s) = Len(o) + Len(i)
        /\ \A t \in Threads : Behind(t) => Len(s) = Len(o) + Len(i) + 1 /\ s[Len(s)] = writing[t]
    BY <1>1, <1>5 DEF Paired, i, o, s
  <2>5. /\ (\A t \in Threads : ~Behind(t)) => Len(s) = Len(Append(o, Head(i))) + Len(Tail(i))
        /\ \A t \in Threads : Behind(t) =>
               Len(s) = Len(Append(o, Head(i))) + Len(Tail(i)) + 1 /\ s[Len(s)] = writing[t]
    BY <2>3, <2>4
  <2>6. \A t \in Threads : Behind(t)' <=> Behind(t)
    BY <2>2 DEF Behind
  <2>7. output'[proc'] = Append(o, Head(i)) /\ input'[proc'] = Tail(i) /\ stamps' = s
    BY <1>1, <1>4 DEF s
  <2>8. QED
    BY <2>2, <2>3, <2>5, <2>6, <2>7 DEF Paired
<1>6. StampTypes'
  BY <1>1, <1>4 DEF PreviewInv, StampTypes
<1>7. PumpInv' /\ OrderInv' /\ EmitInv'
  BY <1>1 DEF PreviewInv, PumpInv, OrderInv, EmitInv
<1>8. FifoInv'
  BY <1>1, <1>5 DEF PreviewInv, FifoInv
<1>9. QED
  BY <1>6, <1>7, <1>8 DEF PreviewInv

\* The unit of a child that is not current, or is stopping, is dropped.
LEMMA EmitDropsStep ==
    ASSUME LifeInv, PreviewInv, NEW p \in Children, EmitDrops(p)
    PROVE  PreviewInv'
<1>1. /\ output[p] # << >> /\ (proc # p \/ stopping)
      /\ output' = [output EXCEPT ![p] = Tail(@)]
      /\ UNCHANGED <<proc, reading, stopping, pc, call, target, frames, writing, stamps, input,
                     emitting, published>>
  BY DEF EmitDrops, Emits, vars
<1>2. output' \in [Children -> Seq(1 .. MaxFrames)] /\ \A q \in Children \ {p} : output'[q] = output[q]
  <2>1. output \in [Children -> Seq(1 .. MaxFrames)]
    BY DEF PreviewInv, StampTypes
  <2>2. Tail(output[p]) \in Seq(1 .. MaxFrames)
    BY <1>1, <2>1, HeadTailProperties
  <2>3. QED
    BY <1>1, <2>1, <2>2
<1>3. StampTypes'
  BY <1>1, <1>2 DEF PreviewInv, StampTypes
<1>4. PumpInv' /\ OrderInv' /\ EmitInv'
  BY <1>1 DEF PreviewInv, PumpInv, OrderInv, EmitInv
<1>5. FifoInv'
  <2> SUFFICES ASSUME proc # None, ~stopping
               PROVE  Paired'
    BY <1>1 DEF FifoInv
  <2>1. Paired /\ proc \in Children \ {p}
    BY <1>1 DEF PreviewInv, FifoInv, LifeInv, TypeOK
  <2>2. output'[proc'] = output[proc] /\ input'[proc'] = input[proc]
        /\ UNCHANGED <<stamps, writing, call, pc, target, proc>>
    BY <1>1, <1>2, <2>1
  <2>3. \A t \in Threads : Behind(t)' <=> Behind(t)
    BY <2>2 DEF Behind
  <2>4. QED
    BY <2>1, <2>2, <2>3 DEF Paired
<1>6. QED
  BY <1>3, <1>4, <1>5 DEF PreviewInv

\* The first unit gets the first stamp, which is its own.
LEMMA EmitPairsStep ==
    ASSUME LifeInv, PreviewInv, NEW p \in Children, EmitPairs(p)
    PROVE  PreviewInv'
<1>1. /\ <<p, "output">> \in reading /\ p = proc /\ ~stopping /\ proc # None
      /\ output[p] # << >>
      /\ output' = [output EXCEPT ![p] = Tail(@)]
      /\ stamps' = Tail(stamps)
      /\ emitting' = [emitting EXCEPT ![p] = <<Head(output[p]), Head(stamps)>>]
      /\ UNCHANGED <<proc, reading, stopping, pc, call, target, frames, writing, input, published>>
  BY ConstantTypes DEF EmitPairs, Reading, Emits, vars
<1> DEFINE i == input[p]
           o == output[p]
           s == stamps
           S == 1 .. MaxFrames
<1>2. /\ i \in Seq(S) /\ o \in Seq(S) /\ s \in Seq(S) /\ Len(s) <= StampLimit
      /\ output \in [Children -> Seq(S)] /\ emitting \in [Children -> Emissions]
  BY DEF PreviewInv, StampTypes
<1>3. /\ InLine(o, i, s)
      /\ (\A t \in Threads : ~Behind(t)) => Len(s) = Len(o) + Len(i)
      /\ \A t \in Threads : Behind(t) => Len(s) = Len(o) + Len(i) + 1 /\ s[Len(s)] = writing[t]
  BY <1>1 DEF PreviewInv, FifoInv, Paired
<1>4. s \in Seq(Nat) /\ Rising(s) /\ Above(s, published[2]) /\ Below(s, frames + 1)
  BY Numbers DEF PreviewInv, OrderInv
<1>5. o # << >>
  BY <1>1
<1> HIDE DEF S, s, o, i
<1>6. /\ s # << >> /\ Head(s) = Head(o)
      /\ InLine(Tail(o), i, Tail(s))
      /\ Len(Tail(o)) = Len(o) - 1 /\ Len(Tail(s)) = Len(s) - 1
      /\ Len(s) \in Nat /\ Len(o) \in Nat /\ Len(i) \in Nat
  BY <1>2, <1>3, <1>5, EmittedInLine
<1>7. /\ Head(s) = s[1] /\ Len(s) \in Nat \ {0} /\ Rising(Tail(s))
      /\ \A k \in 1 .. Len(Tail(s)) :
             Tail(s)[k] = s[k + 1] /\ k + 1 \in 1 .. Len(s) /\ Head(s) < Tail(s)[k]
  BY <1>4, <1>6, TailRises
<1>8. Tail(s) \in Seq(S) /\ Tail(o) \in Seq(S) /\ Head(o) \in S
  BY <1>2, <1>5, <1>6, HeadTailProperties
<1>9. /\ published[2] < Head(s) /\ Head(s) < frames + 1 /\ 1 \in 1 .. Len(s)
      /\ Above(Tail(s), published[2]) /\ Below(Tail(s), frames + 1) /\ Above(Tail(s), Head(s))
  <2>1. 1 \in 1 .. Len(s)
    BY <1>7
  <2>2. published[2] < Head(s) /\ Head(s) < frames + 1
    BY <1>4, <1>7, <2>1 DEF Above, Below
  <2>3. Above(Tail(s), published[2]) /\ Below(Tail(s), frames + 1) /\ Above(Tail(s), Head(s))
    BY <1>4, <1>7 DEF Above, Below
  <2>4. QED
    BY <2>1, <2>2, <2>3
<1>10. stamps' = Tail(s) /\ output'[p] = Tail(o) /\ output' \in [Children -> Seq(S)]
  BY <1>1, <1>2, <1>8 DEF s, o
<1>11. /\ emitting' \in [Children -> Emissions]
       /\ emitting'[p] = <<Head(o), Head(o)>>
       /\ \A q \in Children : emitting'[q] # << >> => q = p
  <2>1. <<Head(o), Head(o)>> \in Emissions
    BY <1>8 DEF Emissions, S
  <2>2. emitting' = [emitting EXCEPT ![p] = <<Head(o), Head(o)>>]
    BY <1>1, <1>6 DEF o, s
  <2>3. \A q \in Children : emitting[q] # << >> => q = p
    BY <1>1, OneCallback DEF PreviewInv
  <2>4. QED
    BY <1>2, <2>1, <2>2, <2>3
<1>12. StampTypes'
  <2>1. Len(Tail(s)) <= StampLimit
    BY <1>2, <1>6, PreviewConstants
  <2>2. QED
    BY <1>1, <1>8, <1>10, <1>11, <2>1 DEF PreviewInv, StampTypes, S
<1>13. PumpInv'
  BY <1>1 DEF PreviewInv, PumpInv
<1>14. OrderInv'
  <2>1. ASSUME NEW t \in Threads, pc[t] = "hook"
        PROVE  published[2] < frames /\ Below(Tail(s), frames)
    <3>1. published[2] < frames /\ Below(s, frames)
      BY <2>1 DEF PreviewInv, OrderInv, s
    <3>2. QED
      BY <1>7, <3>1 DEF Below
  <2>2. QED
    BY <1>1, <1>7, <1>9, <1>10, <2>1 DEF PreviewInv, OrderInv
<1>15. EmitInv'
  <2> SUFFICES ASSUME NEW q \in Children, emitting'[q] # << >>
               PROVE  /\ <<q, "output">> \in reading
                      /\ emitting'[q][1] = emitting'[q][2]
                      /\ published[2] < emitting'[q][2]
                      /\ emitting'[q][2] <= frames
                      /\ \A t \in Threads : pc[t] = "hook" => emitting'[q][2] < frames
                      /\ Above(stamps', emitting'[q][2])
    BY <1>1 DEF PreviewInv, EmitInv
  <2>1. q = p /\ emitting'[q][1] = Head(o) /\ emitting'[q][2] = Head(s)
    BY <1>6, <1>11
  <2>2. Head(s) <= frames
    <3>1. Head(s) \in Nat /\ frames \in Nat
      BY <1>6, <1>8, Numbers DEF PreviewInv, S
    <3>2. QED
      BY <1>9, <3>1
  <2>3. ASSUME NEW t \in Threads, pc[t] = "hook"
        PROVE  Head(s) < frames
    <3>1. Below(s, frames)
      BY <2>3 DEF PreviewInv, OrderInv, s
    <3>2. QED
      BY <1>7, <1>9, <3>1 DEF Below
  <2>4. QED
    BY <1>1, <1>6, <1>9, <1>10, <2>1, <2>2, <2>3
<1>16. FifoInv'
  <2>1. ASSUME \A t \in Threads : ~Behind(t)
        PROVE  Len(Tail(s)) = Len(Tail(o)) + Len(i)
    <3>1. Len(s) = Len(o) + Len(i)
      BY <1>3, <2>1
    <3>2. QED
      BY <1>6, <3>1
  <2>2. ASSUME NEW t \in Threads, Behind(t)
        PROVE  Len(Tail(s)) = Len(Tail(o)) + Len(i) + 1 /\ Tail(s)[Len(Tail(s))] = writing[t]
    <3>1. Len(s) = Len(o) + Len(i) + 1 /\ s[Len(s)] = writing[t]
      BY <1>3, <2>2
    <3>2. Len(o) > 0
      BY <1>2, <1>5, <1>6, EmptySeq
    <3>3. Len(Tail(s)) \in 1 .. Len(Tail(s)) /\ Len(Tail(s)) + 1 = Len(s)
      BY <1>6, <3>1, <3>2
    <3>4. Tail(s)[Len(Tail(s))] = s[Len(s)]
      BY <1>7, <3>3
    <3>5. QED
      BY <1>6, <3>1, <3>4
  <2>3. \A t \in Threads : Behind(t)' <=> Behind(t)
    BY <1>1 DEF Behind
  <2>4. output'[proc'] = Tail(o) /\ input'[proc'] = i /\ stamps' = Tail(s) /\ writing' = writing
    BY <1>1, <1>10 DEF i
  <2>5. Paired'
    BY <1>6, <2>1, <2>2, <2>3, <2>4 DEF Paired
  <2>6. QED
    BY <2>5 DEF FifoInv
<1>17. QED
  BY <1>12, <1>13, <1>14, <1>15, <1>16 DEF PreviewInv

\* The callback publishes what is above everything published before.
LEMMA PublishStep ==
    ASSUME LifeInv, PreviewInv, NEW p \in Children, Publish(p)
    PROVE  PreviewInv'
<1>1. /\ emitting[p] # << >>
      /\ published' = emitting[p]
      /\ emitting' = [emitting EXCEPT ![p] = << >>]
      /\ UNCHANGED <<proc, reading, stopping, pc, call, target, frames, writing, stamps, input, output>>
  BY DEF Publish, vars
<1>2. /\ emitting[p] \in (1 .. MaxFrames) \X (1 .. MaxFrames)
      /\ emitting[p][1] = emitting[p][2]
      /\ emitting[p][2] <= frames
      /\ \A t \in Threads : pc[t] = "hook" => emitting[p][2] < frames
      /\ Above(stamps, emitting[p][2])
  BY <1>1, PairType DEF PreviewInv, EmitInv
<1>3. emitting' \in [Children -> Emissions] /\ \A q \in Children : emitting'[q] = << >>
  <2>1. \A q \in Children : emitting[q] # << >> => q = p
    BY <1>1, OneCallback DEF PreviewInv
  <2>2. << >> \in Emissions /\ emitting \in [Children -> Emissions]
    BY DEF Emissions, PreviewInv, StampTypes
  <2>3. QED
    BY <1>1, <2>1, <2>2
<1>4. published' \in (0 .. MaxFrames) \X (0 .. MaxFrames)
  <2>1. 1 .. MaxFrames \subseteq 0 .. MaxFrames
    BY PreviewConstants
  <2>2. QED
    BY <1>1, <1>2, <2>1
<1>5. StampTypes'
  BY <1>1, <1>3, <1>4 DEF PreviewInv, StampTypes
<1>6. PumpInv'
  BY <1>1 DEF PreviewInv, PumpInv
<1>7. OrderInv'
  BY <1>1, <1>2 DEF PreviewInv, OrderInv
<1>8. EmitInv'
  BY <1>1, <1>2, <1>3 DEF EmitInv
<1>9. FifoInv'
  BY <1>1 DEF PreviewInv, FifoInv, Paired, Behind
<1>10. QED
  BY <1>5, <1>6, <1>7, <1>8, <1>9 DEF PreviewInv

\* A reader gives up, with its callback.
LEMMA OutputRaisesStep ==
    ASSUME LifeInv, PreviewInv, NEW p \in Children, OutputRaises(p)
    PROVE  PreviewInv'
<1>1. /\ reading' = reading \ {<<p, "output">>}
      /\ emitting' = [emitting EXCEPT ![p] = << >>]
      /\ UNCHANGED <<proc, stopping, pc, call, target, frames, writing, stamps, input, output, published>>
  BY DEF OutputRaises, OutputFails, ReaderExits, owned, locals
<1>2. << >> \in Emissions /\ emitting \in [Children -> Emissions]
  BY DEF Emissions, PreviewInv, StampTypes
<1>3. StampTypes'
  BY <1>1, <1>2 DEF PreviewInv, StampTypes
<1>4. PumpInv' /\ OrderInv'
  BY <1>1 DEF PreviewInv, PumpInv, OrderInv
<1>5. EmitInv'
  <2> SUFFICES ASSUME NEW q \in Children, emitting'[q] # << >>
               PROVE  /\ emitting'[q] = emitting[q]
                      /\ (<<q, "output">> \in reading => <<q, "output">> \in reading')
    BY <1>1 DEF PreviewInv, EmitInv
  <2>1. QED
    BY <1>1, <1>2
<1>6. FifoInv'
  BY <1>1 DEF PreviewInv, FifoInv, Paired, Behind
<1>7. QED
  BY <1>3, <1>4, <1>5, <1>6 DEF PreviewInv

-----------------------------------------------------------------------------
(***************************************************************************)
(* A launch: the stamps of the child before are gone, with its pipes.      *)
(***************************************************************************)
\* A child that is launched is new to every thread.
LEMMA LaunchIsFresh ==
    ASSUME NEW readers, Launch(readers)
    PROVE  /\ reading \subseteq reading'
           /\ proc' \in Children \cup {None}
           /\ proc' # None => \A t \in Threads : target[t] # proc'
<1>1. CASE Launched(readers)
  BY <1>1 DEF Launched, Fresh
<1>2. CASE LaunchRefused(readers)
  BY <1>2 DEF LaunchRefused, native
<1>3. CASE LaunchHalfDone(readers)
  BY <1>3 DEF LaunchHalfDone, Fresh
<1>4. QED
  BY <1>1, <1>2, <1>3 DEF Launch

\* start() and a restart launch a child.
LEMMA LaunchesStep ==
    ASSUME LifeInv, PreviewInv, NEW t \in Threads, Launches(t)
    PROVE  PreviewInv'
<1>1. /\ \E readers : Launch(readers)
      /\ pc' = [pc EXCEPT ![t] = "idle"]
      /\ call' = [call EXCEPT ![t] = "none"]
      /\ target' = [target EXCEPT ![t] = None]
      /\ StampsAtLaunch
      /\ UNCHANGED <<frames, writing, emitting, published>>
  BY DEF Launches, StartLaunch, RestartLaunch, StartReturns, Return, Go
<1>2. /\ reading \subseteq reading'
      /\ proc' \in Children \cup {None}
      /\ proc' # None => \A u \in Threads : target[u] # proc'
  BY <1>1, LaunchIsFresh
<1>3. /\ stamps' = stamps \/ stamps' = << >>
      /\ proc' # None =>
             /\ stamps' = << >>
             /\ input' = [input EXCEPT ![proc'] = << >>]
             /\ output' = [output EXCEPT ![proc'] = << >>]
      /\ proc' = None => UNCHANGED <<input, output>>
  BY <1>1 DEF StampsAtLaunch
<1>4. /\ \A u \in Threads : pc'[u] = "hook" => pc[u] = "hook"
      /\ \A u \in Threads : call'[u] = "write" => call[u] = "write"
      /\ \A u \in Threads : target'[u] = target[u] \/ target'[u] = None
  BY <1>1 DEF LifeInv, TypeOK
<1> DEFINE M == 1 .. MaxFrames
<1>5. << >> \in Seq(M) /\ Len(<< >>) = 0
  BY EmptySeq, LenProperties
<1>6. /\ stamps \in Seq(M) /\ Len(stamps) <= StampLimit
      /\ input \in [Children -> Seq(M)] /\ output \in [Children -> Seq(M)]
  BY DEF PreviewInv, StampTypes
<1> HIDE DEF M
<1>7. stamps' \in Seq(M) /\ Len(stamps') <= StampLimit
  <2>1. CASE stamps' = stamps
    BY <1>6, <2>1
  <2>2. CASE stamps' = << >>
    <3>1. StampLimit \in Nat
      BY PreviewConstants
    <3>2. QED
      BY <1>5, <2>2, <3>1
  <2>3. QED
    BY <1>3, <2>1, <2>2
<1>8. input' \in [Children -> Seq(M)] /\ output' \in [Children -> Seq(M)]
  <2>1. CASE proc' = None
    BY <1>3, <1>6, <2>1
  <2>2. CASE proc' # None
    BY <1>3, <1>5, <1>6, <2>2
  <2>3. QED
    BY <2>1, <2>2
<1>9. StampTypes'
  BY <1>1, <1>7, <1>8 DEF PreviewInv, StampTypes, M
<1>10. PumpInv'
  BY <1>1, <1>4 DEF PreviewInv, PumpInv
<1>11. /\ \A n : Above(stamps, n) => Above(stamps', n)
       /\ \A n : Below(stamps, n) => Below(stamps', n)
       /\ Rising(stamps) => Rising(stamps')
  <2>1. CASE stamps' = stamps
    BY <2>1
  <2>2. CASE stamps' = << >>
    <3>1. 1 .. Len(<< >>) = {}
      BY <1>5
    <3>2. QED
      BY <2>2, <3>1 DEF Above, Below, Rising
  <2>3. QED
    BY <1>3, <2>1, <2>2
<1>12. OrderInv'
  BY <1>1, <1>4, <1>11 DEF PreviewInv, OrderInv
<1>13. EmitInv'
  BY <1>1, <1>2, <1>4, <1>11 DEF PreviewInv, EmitInv
<1>14. FifoInv'
  <2> SUFFICES ASSUME proc' # None
               PROVE  Paired'
    BY DEF FifoInv
  <2>1. output'[proc'] = << >> /\ input'[proc'] = << >> /\ stamps' = << >>
    BY <1>2, <1>3, <1>6
  <2>2. \A u \in Threads : ~Behind(u)'
    BY <1>2, <1>4 DEF Behind
  <2>3. InLine(<< >>, << >>, << >>) /\ Len(<< >>) = Len(<< >>) + Len(<< >>)
    BY <1>5 DEF InLine
  <2>4. QED
    BY <2>1, <2>2, <2>3 DEF Paired
<1>15. QED
  BY <1>9, <1>10, <1>12, <1>13, <1>14 DEF PreviewInv

-----------------------------------------------------------------------------
\* Every step of the preview keeps the invariant.
LEMMA PreviewStep ==
    ASSUME LifeInv, PreviewInv, [PreviewNext]_allVars
    PROVE  PreviewInv'
<1>1. ASSUME NEW t \in Threads, Lifecycle(t)
      PROVE  PreviewInv'
  <2>1. UNCHANGED previewVars
    BY <1>1 DEF Lifecycle
  <2>2. QED
    BY <1>1, <2>1, LifecycleIsCalm, CalmStep
<1>2. ASSUME NEW t \in Threads, Launches(t)
      PROVE  PreviewInv'
  BY <1>2, LaunchesStep
<1>3. ASSUME NEW t \in Threads, WriteFrame(t)
      PROVE  PreviewInv'
  <2>1. CASE OutputStalled(t)
    <3>1. UNCHANGED previewVars
      BY <2>1 DEF OutputStalled
    <3>2. QED
      BY <2>1, <3>1, OtherCalm, CalmStep
  <2>2. QED
    BY <1>3, <2>1, FrameAdmittedStep, StampRecordedStep, FrameWrittenStep DEF WriteFrame
<1>4. ASSUME NEW p \in Children, ChildStep(p) \/ OutputEnds(p)
      PROVE  PreviewInv'
  <2>1. CASE Encode(p)
    BY <2>1, EncodeStep
  <2>2. CASE ~Encode(p)
    <3>1. UNCHANGED previewVars /\ (ChildExits(p) \/ ReaderExits(p, "stderr") \/ OutputEnds(p))
      BY <1>4, <2>2 DEF ChildStep, OutputEnds
    <3>2. QED
      BY <3>1, OtherCalm, CalmStep
  <2>3. QED
    BY <2>1, <2>2
<1>5. ASSUME NEW p \in Children, ReaderStep(p)
      PROVE  PreviewInv'
  BY <1>4, <1>5, EmitPairsStep, EmitDropsStep, PublishStep, OutputRaisesStep DEF ReaderStep
<1>6. CASE UNCHANGED allVars
  <2>1. UNCHANGED previewVars
    BY <1>6 DEF allVars
  <2>2. QED
    BY <1>6, <2>1, OtherCalm, CalmStep
<1>7. QED
  BY <1>1, <1>2, <1>3, <1>4, <1>5, <1>6 DEF PreviewNext

\* The invariant holds at the start.
LEMMA PreviewStarts ==
    ASSUME PreviewInit
    PROVE  PreviewInv
<1>1. << >> \in Seq(1 .. MaxFrames) /\ Len(<< >>) = 0 /\ 1 .. Len(<< >>) = {}
  BY EmptySeq, LenProperties
<1>2. << >> \in Emissions /\ 0 \in 0 .. MaxFrames /\ StampLimit \in Nat
  BY PreviewConstants DEF Emissions
<1>3. StampTypes
  BY <1>1, <1>2 DEF PreviewInit, StampTypes
<1>4. PumpInv /\ EmitInv /\ FifoInv
  BY DEF PreviewInit, Init, PumpInv, EmitInv, FifoInv
<1>5. OrderInv
  <2>1. Rising(<< >>) /\ Above(<< >>, 0) /\ Below(<< >>, 1)
    BY <1>1 DEF Rising, Above, Below
  <2>2. QED
    BY <2>1 DEF PreviewInit, Init, OrderInv
<1>6. QED
  BY <1>3, <1>4, <1>5 DEF PreviewInv

\* With serialised callers, what waits, what is in the pipes and what is being
\* published stay in step, whatever crashes, restarts or is stopped.
THEOREM PreviewInvariant ==
    ASSUME Serialized
    PROVE  PreviewSpec => [](LifeInv /\ PreviewInv)
<1>1. PreviewSpec => []LifeInv
  <2>1. TypeOK /\ OwnerInv /\ SerialInv /\ WriterInv <=> LifeInv
    BY DEF LifeInv
  <2>2. QED
    BY <2>1, QuiesceInvariant, PreviewIsALifecycle, PTL
<1>2. PreviewInit => PreviewInv
  BY PreviewStarts
<1>3. LifeInv /\ PreviewInv /\ [PreviewNext]_allVars => PreviewInv'
  BY PreviewStep
<1>4. QED
  BY <1>1, <1>2, <1>3, PTL DEF PreviewSpec

\* Every variable of the preview keeps its type.
THEOREM PreviewTypeCorrect ==
    ASSUME Serialized
    PROVE  PreviewSpec => []PreviewTypeOK
<1>1. LifeInv /\ PreviewInv => PreviewTypeOK
  <2> SUFFICES ASSUME LifeInv, StampTypes
               PROVE  PreviewTypeOK
    BY DEF PreviewInv
  <2>1. \A p \in Children :
            emitting[p] = << >> \/ emitting[p] \in (1 .. MaxFrames) \X (1 .. MaxFrames)
    BY PairType
  <2>2. QED
    BY <2>1 DEF PreviewTypeOK, LifeInv, StampTypes
<1>2. QED
  BY <1>1, PreviewInvariant, PTL

\* A unit of the current child always finds a stamp, and it is the stamp of the
\* image the unit encodes.
THEOREM UnitsCarryTheirStamps ==
    ASSUME Serialized
    PROVE  PreviewSpec => []UnitsMatchStamps
<1>1. LifeInv /\ PreviewInv => UnitsMatchStamps
  <2> SUFFICES ASSUME LifeInv, PreviewInv
               PROVE  UnitsMatchStamps
    OBVIOUS
  <2>1. UnitHasItsStamp
    BY DEF PreviewInv, EmitInv, UnitHasItsStamp
  <2>2. ASSUME NEW p \in Children, output[p] # << >>, Emits(p)
        PROVE  stamps # << >>
    <3>1. p = proc /\ Paired
      BY <2>2, ConstantTypes DEF Emits, PreviewInv, FifoInv
    <3>2. /\ output[p] \in Seq(1 .. MaxFrames) /\ input[p] \in Seq(1 .. MaxFrames)
          /\ stamps \in Seq(1 .. MaxFrames) /\ InLine(output[p], input[p], stamps)
      BY <3>1 DEF PreviewInv, StampTypes, Paired
    <3>3. QED
      BY <2>2, <3>2, EmittedInLine
  <2>3. QED
    BY <2>1, <2>2 DEF UnitsMatchStamps, UnitFindsAStamp
<1>2. QED
  BY <1>1, PreviewInvariant, PTL

\* An encoder that reports itself stopped has no callback in progress.
THEOREM StoppedHasNoCallback ==
    ASSUME Serialized
    PROVE  PreviewSpec => []StoppedPublishesNothing
<1>1. LifeInv /\ PreviewInv => StoppedPublishesNothing
  <2> SUFFICES ASSUME LifeInv, PreviewInv, Stopped
               PROVE  \A p \in Children : emitting[p] = << >>
    BY DEF StoppedPublishesNothing
  <2>1. reading = {}
    BY NothingWithoutChild DEF LifeInv, OwnerInv, Stopped
  <2>2. QED
    BY <2>1 DEF PreviewInv, EmitInv
<1>2. QED
  BY <1>1, PreviewInvariant, PTL

\* The preview is published in the order the images came, and no image twice.
THEOREM PublishedInRisingOrder ==
    ASSUME Serialized
    PROVE  PreviewSpec => PublishedInOrder
<1>1. LifeInv /\ PreviewInv /\ [PreviewNext]_allVars
      => [published' # published => published'[2] > published[2]]_allVars
  <2> SUFFICES ASSUME LifeInv, PreviewInv, PreviewNext, published' # published
               PROVE  published'[2] > published[2]
    BY DEF allVars, previewVars
  <2>1. PICK p \in Children : Publish(p)
    BY DEF PreviewNext, Lifecycle, Launches, WriteFrame, FrameAdmitted, StampRecorded, OutputStalled,
           FrameWritten, ChildStep, Encode, ReaderStep, EmitPairs, EmitDrops, OutputEnds, OutputRaises,
           previewVars
  <2>2. published' = emitting[p] /\ published[2] < emitting[p][2]
    BY <2>1 DEF Publish, PreviewInv, EmitInv
  <2>3. published[2] \in Nat /\ emitting[p][2] \in Nat
    BY <2>1, Numbers, PairType DEF Publish, PreviewInv
  <2>4. QED
    BY <2>2, <2>3
<1>2. QED
  BY <1>1, PreviewInvariant, PTL DEF PreviewSpec, PublishedInOrder
================================================================================
