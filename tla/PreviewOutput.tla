------------------------------ MODULE PreviewOutput ------------------------------
(***************************************************************************)
(* The timestamps of the ROS preview (FFmpegH264PreviewEncoder in          *)
(* src/ros_image_rtp_adapter/encoder.py).  A frame and its source stamp    *)
(* travel apart: the frame goes through the pipes and the child, the stamp *)
(* waits in _source_stamps until the output reader has the frame's access  *)
(* unit.  Nothing in the stream says which stamp belongs to a unit; they   *)
(* are paired by order alone, across crashes, restarts, failed writes and  *)
(* stops.                                                                  *)
(*                                                                         *)
(* A frame is its number, which stands for its stamp.  The lifecycle is    *)
(* SubprocessEncoder's: each of its steps is extended with what it does to *)
(* the stamps and the pipes.                                               *)
(***************************************************************************)
EXTENDS SubprocessEncoder, Naturals, SequencesExt

CONSTANTS
    StampLimit, \* stamps that may wait: 64
    MaxFrames   \* bound of the model: frames written in all

\* An encoder has one pump thread (runtime.py:249-258): two writers could put
\* their frames into the pipe in another order than their stamps.
ASSUME PreviewConstants ==
    /\ Preview
    /\ \A t, u \in Writers : t = u
    /\ StampLimit \in Nat \ {0}
    /\ MaxFrames \in Nat

VARIABLES
    frames,     \* frames handed to write_frame
    writing,    \* the frame a writer is writing
    stamps,     \* _source_stamps
    input,      \* of each child: the frames in its stdin and in the codec
    output,     \* of each child: the units in its stdout
    emitting,   \* of each reader: the <<unit, stamp>> its callback publishes
    published   \* history: the <<unit, stamp>> published last

previewVars == <<frames, writing, stamps, input, output, emitting, published>>
allVars == <<vars, previewVars>>

PreviewInit ==
    /\ Init
    /\ frames = 0
    /\ writing = [t \in Threads |-> 0]
    /\ stamps = <<>>
    /\ input = [p \in Children |-> <<>>]
    /\ output = [p \in Children |-> <<>>]
    /\ emitting = [p \in Children |-> <<>>]
    /\ published = <<0, 0>>

\* Mutant: the stamps of the child before are kept.
StampsKeptAtLaunch ==
    IF proc' = None
    THEN UNCHANGED <<stamps, input, output>>
    ELSE /\ UNCHANGED stamps
         /\ input' = [input EXCEPT ![proc'] = <<>>]
         /\ output' = [output EXCEPT ![proc'] = <<>>]

\* _before_launch clears the stamps; a new child has new pipes.  A launch that
\* is refused may have come that far.
StampsAtLaunch ==
    IF proc' = None
    THEN stamps' \in {stamps, <<>>} /\ UNCHANGED <<input, output>>
    ELSE /\ stamps' = <<>>
         /\ input' = [input EXCEPT ![proc'] = <<>>]
         /\ output' = [output EXCEPT ![proc'] = <<>>]

-----------------------------------------------------------------------------
(***************************************************************************)
(* write_frame, with the hook of the preview.                              *)
(***************************************************************************)
FrameAdmitted(t) ==
    /\ frames < MaxFrames
    /\ WriteCall(t)
    /\ frames' = frames + 1
    /\ writing' = [writing EXCEPT ![t] = frames + 1]
    /\ UNCHANGED <<stamps, input, output, emitting, published>>

\* Mutant: the stamps are not limited.
StampRecordedUnlimited(t) ==
    /\ BeforeWrite(t)
    /\ stamps' = Append(stamps, writing[t])
    /\ UNCHANGED <<frames, writing, input, output, emitting, published>>

StampRecorded(t) ==
    /\ BeforeWrite(t)
    /\ Len(stamps) < StampLimit
    /\ stamps' = Append(stamps, writing[t])
    /\ UNCHANGED <<frames, writing, input, output, emitting, published>>

OutputStalled(t) ==
    /\ BeforeWriteRaises(t)
    /\ Len(stamps) >= StampLimit
    /\ UNCHANGED previewVars

\* The last byte of the frame is in the pipe.
FrameWritten(t) ==
    /\ WriteDone(t)
    /\ input' = [input EXCEPT ![target[t]] = Append(@, writing[t])]
    /\ UNCHANGED <<frames, writing, stamps, output, emitting, published>>

-----------------------------------------------------------------------------
(***************************************************************************)
(* The child: one unit for each whole frame, in order (-vsync 0, -bf 0).   *)
(* What it had not written out when it exits is lost.                      *)
(***************************************************************************)
Encode(p) ==
    /\ Alive(p)
    /\ input[p] # <<>>
    /\ input' = [input EXCEPT ![p] = Tail(@)]
    /\ output' = [output EXCEPT ![p] = Append(@, Head(input[p]))]
    /\ UNCHANGED <<vars, frames, writing, stamps, emitting, published>>

-----------------------------------------------------------------------------
(***************************************************************************)
(* _drain_access_units: emit() and the callback.                           *)
(***************************************************************************)
Reading(p) == <<p, "output">> \in reading /\ emitting[p] = <<>>

\* emit() still holds the unit of a child that is current and not stopping.
Emits(p) == proc = p /\ ~stopping

EmitPairs(p) ==
    /\ Reading(p)
    /\ output[p] # <<>>
    /\ Emits(p)
    /\ stamps # <<>>
    /\ output' = [output EXCEPT ![p] = Tail(@)]
    /\ stamps' = Tail(stamps)
    /\ emitting' = [emitting EXCEPT ![p] = <<Head(output[p]), Head(stamps)>>]
    /\ UNCHANGED <<vars, frames, writing, input, published>>

\* The unit of a child that is being stopped is dropped.
EmitDrops(p) ==
    /\ Reading(p)
    /\ output[p] # <<>>
    /\ ~Emits(p)
    /\ output' = [output EXCEPT ![p] = Tail(@)]
    /\ UNCHANGED <<vars, frames, writing, stamps, input, emitting, published>>

\* The callback runs without a lock, and returns.
Publish(p) ==
    /\ emitting[p] # <<>>
    /\ published' = emitting[p]
    /\ emitting' = [emitting EXCEPT ![p] = <<>>]
    /\ UNCHANGED <<vars, frames, writing, stamps, input, output>>

\* Mutant: the reader is gone while its callback still runs.
OutputEndsEarly(p) ==
    /\ ReaderExits(p, "output")
    /\ ~Alive(p) \/ ~Emits(p)
    /\ UNCHANGED previewVars

\* The reader leaves its loop: end of file, or no longer the current child.
OutputEnds(p) ==
    /\ ReaderExits(p, "output")
    /\ emitting[p] = <<>>
    /\ (~Alive(p) /\ output[p] = <<>>) \/ ~Emits(p)
    /\ UNCHANGED previewVars

\* The callback raised, the stream broke the parser's bound, or a unit had no
\* stamp: the reader kills its child.
OutputRaises(p) ==
    /\ OutputFails(p) \/ (~Alive(p) /\ ReaderExits(p, "output"))
    /\ emitting' = [emitting EXCEPT ![p] = <<>>]
    /\ UNCHANGED <<frames, writing, stamps, input, output, published>>

-----------------------------------------------------------------------------
Launches(t) ==
    /\ StartLaunch(t) \/ RestartLaunch(t)
    /\ StampsAtLaunch
    /\ UNCHANGED <<frames, writing, emitting, published>>

\* The steps of the lifecycle that touch neither stamps nor pipes.
Lifecycle(t) ==
    /\ \/ StartCall(t) \/ StartUnchanged(t) \/ StartRestart(t)
       \/ Stop(t)
       \/ RestartSkip(t) \/ RestartBegin(t) \/ RestartSuperseded(t)
       \/ Finish(t)
       \/ WriteFails(t) \/ RestartAcquire(t)
    /\ UNCHANGED previewVars

WriteFrame(t) ==
    FrameAdmitted(t) \/ StampRecorded(t) \/ OutputStalled(t) \/ FrameWritten(t)

ChildStep(p) ==
    \/ Encode(p)
    \/ (ChildExits(p) \/ ReaderExits(p, "stderr")) /\ UNCHANGED previewVars

ReaderStep(p) ==
    EmitPairs(p) \/ EmitDrops(p) \/ Publish(p) \/ OutputEnds(p) \/ OutputRaises(p)

PreviewNext ==
    \/ \E t \in Threads : Lifecycle(t) \/ Launches(t) \/ WriteFrame(t)
    \/ \E p \in Children : ChildStep(p) \/ ReaderStep(p)

PreviewSpec == PreviewInit /\ [][PreviewNext]_allVars

-----------------------------------------------------------------------------
PreviewTypeOK ==
    /\ TypeOK
    /\ frames \in 0 .. MaxFrames
    /\ writing \in [Threads -> 0 .. MaxFrames]
    /\ stamps \in Seq(1 .. MaxFrames) /\ Len(stamps) <= StampLimit
    /\ input \in [Children -> Seq(1 .. MaxFrames)]
    /\ output \in [Children -> Seq(1 .. MaxFrames)]
    /\ \A p \in Children : emitting[p] = <<>> \/ emitting[p] \in (1 .. MaxFrames) \X (1 .. MaxFrames)
    /\ published \in (0 .. MaxFrames) \X (0 .. MaxFrames)

\* What is published, or about to be, carries the stamp of the image it encodes.
UnitHasItsStamp ==
    /\ published[1] = published[2]
    /\ \A p \in Children : emitting[p] # <<>> => emitting[p][1] = emitting[p][2]

\* "H264 output has no matching source timestamp" (encoder.py:618-619) is never
\* raised by the encoder's own doing.
UnitFindsAStamp ==
    \A p \in Children : Reading(p) /\ output[p] # <<>> /\ Emits(p) => stamps # <<>>

(***************************************************************************)
(* Stamps and units are paired by order alone, and yet a unit of the       *)
(* current child always finds a stamp, and it is its own                   *)
(* (encoder.py:562-581, 614-623), whatever crashed, restarted or was       *)
(* stopped before it.                                                      *)
(***************************************************************************)
UnitsMatchStamps == UnitHasItsStamp /\ UnitFindsAStamp

\* The preview is published in the order the images came, and no image twice:
\* not the one whose write failed, and not by the reader of a replaced child.
PublishedInOrder ==
    [][published' # published => published'[2] > published[2]]_allVars

(***************************************************************************)
(* A stop that completed has no callback in progress (encoder.py:138-139): *)
(* the publisher may then be destroyed.                                    *)
(***************************************************************************)
StoppedPublishesNothing ==
    Stopped => \A p \in Children : emitting[p] = <<>>
=============================================================================
