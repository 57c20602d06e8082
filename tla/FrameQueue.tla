------------------------------- MODULE FrameQueue -------------------------------
(***************************************************************************)
(* The frame path of src/ros_image_rtp_adapter/runtime.py: ROS callbacks   *)
(* submit images, each active channel keeps the newest of them within a    *)
(* frame and a byte limit, one pump thread per channel takes them, and     *)
(* captures wait for a fresh one.  All of them share one condition         *)
(* variable, _frame_condition: a thread that found nothing to do sleeps    *)
(* until somebody notifies, so that a missing notification would leave it  *)
(* asleep for ever (the pump) or until its deadline (a capture).           *)
(*                                                                         *)
(* The encoders are left out: a write takes as long as it likes, and any   *)
(* channel may be switched on and off (EncoderChannel has that detail).    *)
(***************************************************************************)
EXTENDS ImageFormat

CONSTANTS
    Channels,       \* the RTP channel and, in ROS 1, the preview channel
    Captures,       \* threads inside a capture request
    Images,         \* the images ROS may deliver, of every shape
    Depth,          \* maxlen of a queue: 1, or 32 without drop_to_latest
    MaxQueuedBytes, \* MAX_QUEUED_BYTES
    MaxFrames       \* bound of the model: images accepted in all

\* A frame always fits an empty queue: 32 MiB of JPEG or 16 Mi pixels of 4
\* bytes against 64 MiB.
ASSUME QueueConstants ==
    /\ Depth \in Nat \ {0}
    /\ MaxQueuedBytes \in Nat
    /\ MaxFrames \in Nat
    /\ MaxFrameBytes <= MaxQueuedBytes
    /\ PackedFrameBytes(RawEncoding, Width, Height) <= MaxQueuedBytes
    /\ \A image \in Images :
           image.size \in Nat /\ (image.type = "raw" => image.step \in Nat)

VARIABLES
    type,       \* input_message_type of the source, which never changes
    framesIn,   \* _frames_in
    latest,     \* _latest: the newest frame accepted
    mode,       \* of each channel: "off", "active", "stopping"
    pending,    \* its queue of [seq, image]
    bytes,      \* its pending_bytes
    dropped,    \* its frames_dropped
    delivered,  \* its frames_out
    owed,       \* history: frames accepted while it was active, without those
                \* that its stops and failed writes threw away
    pumpAt,     \* where its pump thread is
    capture,    \* of each capture: where it is, what it wants, what it got
    closer      \* how far stop() got

channels == <<mode, pending, bytes, dropped, delivered, owed>>
images == <<type, framesIn, latest>>
vars == <<images, channels, pumpAt, capture, closer>>

NoFrame == [seq |-> 0]

Frames == [seq : 1 .. MaxFrames, image : Images]

Size(frame) == EncoderBytes(frame.image)

NoCapture == [at |-> "idle", fresh |-> FALSE, rgb |-> FALSE, asked |-> 0,
              held |-> NoFrame, verdict |-> "none", rgbBytes |-> 0]

Closing == closer # "running"
PumpStop == closer \in {"stopSet", "notified"}

Init ==
    /\ type \in {"compressed", "raw"}
    /\ framesIn = 0
    /\ latest = NoFrame
    /\ mode = [c \in Channels |-> "off"]
    /\ pending = [c \in Channels |-> <<>>]
    /\ bytes = [c \in Channels |-> 0]
    /\ dropped = [c \in Channels |-> 0]
    /\ delivered = [c \in Channels |-> 0]
    /\ owed = [c \in Channels |-> 0]
    /\ pumpAt = [c \in Channels |-> "check"]
    /\ capture = [r \in Captures |-> NoCapture]
    /\ closer = "running"

TotalBytes(q) ==
    LET total[i \in 0 .. Len(q)] == IF i = 0 THEN 0 ELSE total[i - 1] + Size(q[i])
    IN  total[Len(q)]

\* notify_all(): whoever sleeps looks again.
Woken(place) == IF place = "asleep" THEN "check" ELSE place

NotifyAll ==
    /\ pumpAt' = [c \in Channels |-> Woken(pumpAt[c])]
    /\ capture' = [r \in Captures |-> [capture[r] EXCEPT !.at = Woken(@)]]

-----------------------------------------------------------------------------
(***************************************************************************)
(* submit_compressed, submit_raw and _enqueue.                             *)
(***************************************************************************)

\* There is room for a new frame behind these.
Fits(rest, size) ==
    Len(rest) < Depth /\ TotalBytes(rest) + size <= MaxQueuedBytes

\* Mutant: the newest frames make room.
WithoutNewest(q, k) == SubSeq(q, 1, Len(q) - k)

\* popleft(), k times.
Without(q, k) == SubSeq(q, k + 1, Len(q))

\* What is left of q when room was made for one more frame.
Kept(q, size) ==
    Without(q, Min({k \in 0 .. Len(q) : k = Len(q) \/ Fits(Without(q, k), size)}))

\* pending_bytes after room was made for a frame and it was appended.
BytesAfter(c, size) ==
    bytes[c] - (TotalBytes(pending[c]) - TotalBytes(Kept(pending[c], size))) + size

\* Mutant: one drop is counted, however many there were.
DropsAtMostOne(c, size) ==
    Len(pending[c]) - Max({Len(pending[c]) - 1, Len(Kept(pending[c], size))})

\* The frames that made room.
Drops(c, size) == Len(pending[c]) - Len(Kept(pending[c], size))

Accepts(c) == mode[c] = "active"

Submit(image) ==
    LET frame == [seq |-> framesIn + 1, image |-> image]
        size == EncoderBytes(image)
        On(c, new, old) == IF Accepts(c) THEN new ELSE old
    IN  /\ ~Closing
        /\ framesIn < MaxFrames
        /\ Admitted(image, type)
        /\ framesIn' = framesIn + 1
        /\ latest' = frame
        /\ pending' = [c \in Channels |->
              On(c, Append(Kept(pending[c], size), frame), pending[c])]
        /\ bytes' = [c \in Channels |-> On(c, BytesAfter(c, size), bytes[c])]
        /\ dropped' = [c \in Channels |->
              On(c, dropped[c] + Drops(c, size), dropped[c])]
        /\ owed' = [c \in Channels |-> On(c, owed[c] + 1, owed[c])]
        /\ NotifyAll
        /\ UNCHANGED <<type, mode, delivered, closer>>

-----------------------------------------------------------------------------
(***************************************************************************)
(* Switching a channel on and off (_set_channel_active, _deactivate).      *)
(***************************************************************************)
Activate(c) ==
    /\ ~Closing
    /\ mode[c] = "off"
    /\ mode' = [mode EXCEPT ![c] = "active"]
    /\ NotifyAll
    /\ UNCHANGED <<images, pending, bytes, dropped, delivered, owed, closer>>

\* A client, the pump after a failed write, or shutdown begins a stop.
BeginStop(c) ==
    /\ mode' = [mode EXCEPT ![c] = "stopping"]
    /\ pending' = [pending EXCEPT ![c] = <<>>]
    /\ bytes' = [bytes EXCEPT ![c] = 0]
    /\ owed' = [owed EXCEPT ![c] = @ - Len(pending[c])]
    /\ UNCHANGED <<images, dropped, delivered, pumpAt, capture, closer>>

\* The encoder has stopped and the pump is not inside a write.
EndStop(c) ==
    /\ mode[c] = "stopping"
    /\ pumpAt[c] # "writing"
    /\ mode' = [mode EXCEPT ![c] = "off"]
    /\ UNCHANGED <<images, pending, bytes, dropped, delivered, owed,
                   pumpAt, capture, closer>>

-----------------------------------------------------------------------------
(***************************************************************************)
(* _run_channel_pump and _pump_channel.                                    *)
(***************************************************************************)
Deliverable(c) == mode[c] = "active" /\ pending[c] # <<>>

PumpGoes(c, place) ==
    /\ pumpAt' = [pumpAt EXCEPT ![c] = place]
    /\ UNCHANGED <<images, mode, dropped, owed, capture, closer>>

\* wait_for evaluates its predicate under the lock, and sleeps if it is false.
PumpChecks(c) ==
    /\ pumpAt[c] = "check"
    /\ PumpGoes(c, IF PumpStop THEN "ended"
                   ELSE IF Deliverable(c) THEN "pop" ELSE "asleep")
    /\ UNCHANGED <<pending, bytes, delivered>>

PumpTakes(c) ==
    /\ pumpAt[c] = "pop"
    /\ Deliverable(c)
    /\ pending' = [pending EXCEPT ![c] = Tail(@)]
    /\ bytes' = [bytes EXCEPT ![c] = @ - Size(Head(pending[c]))]
    /\ PumpGoes(c, "writing")
    /\ UNCHANGED delivered

\* A stop emptied the queue between the wait and the pop.
PumpFindsNothing(c) ==
    /\ pumpAt[c] = "pop"
    /\ ~Deliverable(c)
    /\ PumpGoes(c, "check")
    /\ UNCHANGED <<pending, bytes, delivered>>

PumpWritten(c) ==
    /\ pumpAt[c] = "writing"
    /\ PumpGoes(c, "counting")
    /\ UNCHANGED <<pending, bytes, delivered>>

\* frames_out is counted once the channel's lock is free again, so that a stop
\* may be through before.
PumpCounts(c) ==
    /\ pumpAt[c] = "counting"
    /\ delivered' = [delivered EXCEPT ![c] = @ + 1]
    /\ PumpGoes(c, "check")
    /\ UNCHANGED <<pending, bytes>>

\* The write raises: the frame is neither delivered nor dropped.
PumpRaises(c) ==
    /\ pumpAt[c] = "writing"
    /\ pumpAt' = [pumpAt EXCEPT ![c] = "failed"]
    /\ owed' = [owed EXCEPT ![c] = @ - 1]
    /\ UNCHANGED <<images, mode, pending, bytes, dropped, delivered, capture, closer>>

\* The pump stops its channel (BeginStop), and ends if that fails too.
PumpGoesOn(c) ==
    /\ pumpAt[c] = "failed"
    /\ \/ mode[c] # "active" /\ PumpGoes(c, "check")
       \/ mode[c] = "stopping" /\ PumpGoes(c, "ended")
    /\ UNCHANGED <<pending, bytes, delivered>>

-----------------------------------------------------------------------------
(***************************************************************************)
(* snapshot_capture: a latest capture takes the newest image at once, a    *)
(* fresh one waits for an image newer than its request.  The image is      *)
(* immutable; it is converted and judged outside of the lock.              *)
(***************************************************************************)
Ended(verdict, rgbBytes) ==
    [NoCapture EXCEPT !.verdict = verdict, !.rgbBytes = rgbBytes]

Taken(c) ==
    IF latest = NoFrame THEN Ended("unavailable", 0)
    ELSE [c EXCEPT !.at = "converting", !.held = latest]

Capturing(r, next) ==
    /\ capture' = [capture EXCEPT ![r] = next]
    /\ UNCHANGED <<images, channels, pumpAt, closer>>

CaptureBegins(r, fresh, rgb) ==
    LET asking == [NoCapture EXCEPT !.fresh = fresh, !.rgb = rgb,
                                    !.asked = IF fresh THEN framesIn ELSE 0]
    IN  /\ closer \in {"running", "closed"}
        /\ capture[r].at = "idle"
        /\ Capturing(r,
              IF ~fresh THEN Taken(asking)
              ELSE IF Closing THEN Ended("unavailable", 0)
              ELSE [asking EXCEPT !.at = "asleep"])

\* Mutant: shutdown hands a waiting capture whatever image there is.
CaptureWakesClosing(r) ==
    /\ capture[r].at = "check"
    /\ Capturing(r, IF framesIn > capture[r].asked \/ Closing THEN Taken(capture[r])
                    ELSE [capture[r] EXCEPT !.at = "asleep"])

\* A newer image is there, shutdown ends the wait without one, or it sleeps on.
CaptureWakes(r) ==
    /\ capture[r].at = "check"
    /\ Capturing(r, IF framesIn > capture[r].asked THEN Taken(capture[r])
                    ELSE IF Closing THEN Ended("unavailable", 0)
                    ELSE [capture[r] EXCEPT !.at = "asleep"])

\* The deadline passed.
CaptureTimeout(r) ==
    /\ capture[r].at = "asleep"
    /\ Capturing(r, Ended("unavailable", 0))

\* There is no JPEG of a raw image, or there is one of whatever is held.
CaptureConverts(r) ==
    LET image == capture[r].held.image
        includeRgb == capture[r].rgb
    IN  /\ capture[r].at = "converting"
        /\ \/ image.type = "raw" /\ Capturing(r, Ended("unavailable", 0))
           \/ \E jpeg \in Jpegs(image), rgb \in RgbLengths(image, includeRgb) :
                  Capturing(r, Ended(Verdict(image, jpeg, rgb, includeRgb), rgb))

-----------------------------------------------------------------------------
(***************************************************************************)
(* stop() of the runtime, and a later start().                             *)
(***************************************************************************)
Close ==
    /\ closer = "running"
    /\ closer' = "closed"
    /\ NotifyAll
    /\ UNCHANGED <<images, channels>>

\* begin_close: the control server admits no further capture.
RefuseCaptures ==
    /\ closer = "closed"
    /\ closer' = "refusing"
    /\ UNCHANGED <<images, channels, pumpAt, capture>>

\* wait_quiescent found no capture; _pump_stop is set without the lock ...
SetPumpStop ==
    /\ closer = "refusing"
    /\ \A r \in Captures : capture[r].at = "idle"
    /\ closer' = "stopSet"
    /\ UNCHANGED <<images, channels, pumpAt, capture>>

\* Mutant: the pumps are not told.
NotifyPumpsNot ==
    /\ closer = "stopSet"
    /\ closer' = "notified"
    /\ UNCHANGED <<pumpAt, capture, images, channels>>

\* ... and the notification follows under it.
NotifyPumps ==
    /\ closer = "stopSet"
    /\ closer' = "notified"
    /\ NotifyAll
    /\ UNCHANGED <<images, channels>>

RuntimeStart ==
    /\ closer = "notified"
    /\ \A c \in Channels : mode[c] = "off" /\ pumpAt[c] = "ended"
    /\ closer' = "running"
    /\ pumpAt' = [c \in Channels |-> "check"]
    /\ UNCHANGED <<images, channels, capture>>

-----------------------------------------------------------------------------
Pump(c) ==
    \/ PumpChecks(c) \/ PumpTakes(c) \/ PumpFindsNothing(c) \/ PumpWritten(c)
    \/ PumpCounts(c) \/ PumpRaises(c) \/ PumpGoesOn(c)

Capture(r) ==
    \/ \E fresh, rgb \in BOOLEAN : CaptureBegins(r, fresh, rgb)
    \/ CaptureWakes(r) \/ CaptureTimeout(r) \/ CaptureConverts(r)

Next ==
    \/ \E image \in Images : Submit(image)
    \/ \E c \in Channels : Activate(c) \/ BeginStop(c) \/ EndStop(c) \/ Pump(c)
    \/ \E r \in Captures : Capture(r)
    \/ Close \/ RefuseCaptures \/ SetPumpStop \/ NotifyPumps
    \/ RuntimeStart

Spec == Init /\ [][Next]_vars

(***************************************************************************)
(* Fairness.  A thread that is awake runs up to its next wait or write,    *)
(* and stop() goes on once it has begun.  Nothing is assumed of a write,   *)
(* of the deadline of a capture, or of who submits.                        *)
(***************************************************************************)
FairSpec ==
    /\ Spec
    /\ \A c \in Channels : WF_vars(PumpChecks(c) \/ PumpTakes(c) \/ PumpFindsNothing(c) \/ PumpCounts(c))
    /\ \A r \in Captures : WF_vars(CaptureWakes(r))
    /\ WF_vars(RefuseCaptures \/ SetPumpStop \/ NotifyPumps)

-----------------------------------------------------------------------------
TypeOK ==
    /\ framesIn \in 0 .. MaxFrames
    /\ type \in {"compressed", "raw"}
    /\ latest \in Frames \cup {NoFrame}
    /\ mode \in [Channels -> {"off", "active", "stopping"}]
    /\ pending \in [Channels -> Seq(Frames)]
    /\ bytes \in [Channels -> Nat]
    /\ dropped \in [Channels -> Nat] /\ delivered \in [Channels -> Nat]
    /\ owed \in [Channels -> Nat]
    /\ pumpAt \in [Channels -> {"check", "asleep", "pop", "writing", "counting", "failed",
                            "ended"}]
    /\ capture \in [Captures ->
          [at : {"idle", "check", "asleep", "converting"},
           fresh : BOOLEAN, rgb : BOOLEAN, asked : 0 .. MaxFrames,
           held : Frames \cup {NoFrame}, rgbBytes : Nat,
           verdict : {"none", "unavailable", "exhausted", "internal", "answered"}]]
    /\ closer \in {"running", "closed", "refusing", "stopSet", "notified"}

\* pending_bytes is kept by increments in four places (runtime.py:380, 529, 532,
\* 550), and bounds the queue with the number of its frames.
QueueWithinLimits(c) ==
    /\ bytes[c] = TotalBytes(pending[c])
    /\ bytes[c] <= MaxQueuedBytes
    /\ Len(pending[c]) <= Depth

(***************************************************************************)
(* A queue is the newest run of what was submitted, within both limits:    *)
(* room is only made at the old end (runtime.py:526-528), so that no frame *)
(* between two queued ones is missing and the newest accepted frame is     *)
(* never the one dropped.                                                  *)
(***************************************************************************)
QueueIsNewestRun ==
    \A c \in Channels :
        /\ QueueWithinLimits(c)
        /\ pending[c] # <<>> =>
            /\ pending[c][Len(pending[c])] = latest
            /\ \A i \in 1 .. Len(pending[c]) - 1 :
                    pending[c][i + 1].seq = pending[c][i].seq + 1

(***************************************************************************)
(* Every frame offered to a channel is accounted for: delivered, dropped,  *)
(* thrown away by a stop or a failed write, queued, or in the hands of     *)
(* the pump (the counters of status(), runtime.py:645-658).                *)
(***************************************************************************)
FramesAccounted ==
    \A c \in Channels :
        owed[c] = delivered[c] + dropped[c] + Len(pending[c])
                  + (IF pumpAt[c] \in {"writing", "counting"} THEN 1 ELSE 0)

(***************************************************************************)
(* The child of a raw source cuts its input by length alone                *)
(* (encoder.py:101-105, 802-811), so that one frame of another length      *)
(* would shift every later one: what is queued is the pixels of one image, *)
(* whole and without row padding (frames.py:141-148).                      *)
(***************************************************************************)
EncoderInputIsWhole ==
    \A c \in Channels : \A i \in 1 .. Len(pending[c]) : IsWhole(pending[c][i].image)

(***************************************************************************)
(* Whatever ROS delivers and the submit methods admit, a capture of it is  *)
(* answered or declined: the checks that _capture makes again              *)
(* (control_socket.py:319-341) never turn an admitted image into an        *)
(* internal fault.  An answer that was to have RGB bytes has them all, and *)
(* one that was to be fresh is of an image accepted after the request,     *)
(* also when shutdown or a restart came between (runtime.py:588-601).      *)
(***************************************************************************)
CaptureAnswers ==
    [][\A r \in Captures :
          /\ capture'[r].verdict # "internal"
          /\ capture[r].at = "converting" /\ capture'[r].verdict = "answered" =>
                /\ capture[r].rgb => capture'[r].rgbBytes = 3 * Width * Height
                /\ capture[r].fresh => capture[r].held.seq > capture[r].asked]_vars

\* A frame in an active channel is taken by the pump, unless it still is in a
\* write (runtime.py:533, 559-562).
PumpDelivers(c) ==
    Deliverable(c) ~> (~Deliverable(c) \/ pumpAt[c] \in {"writing", "failed", "ended"})

\* A pump that is told to end does, even if it was asleep (runtime.py:300-302).
PumpEnds(c) == PumpStop ~> (pumpAt[c] \in {"writing", "failed", "ended"})

\* Shutdown ends a waiting capture at once, not at the capture's own deadline
\* (runtime.py:270-271, 596-597).
ClosingWakesCapture(r) ==
    (Closing /\ capture[r].at = "asleep") ~> (capture[r].at # "asleep")

(***************************************************************************)
(* No wakeup of the one condition variable is lost, whoever sleeps on it   *)
(* and whatever it waits for.                                              *)
(***************************************************************************)
NoLostWakeup ==
    /\ \A c \in Channels : PumpDelivers(c) /\ PumpEnds(c)
    /\ \A r \in Captures : ClosingWakesCapture(r)
=============================================================================
