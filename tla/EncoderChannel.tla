---------------------------- MODULE EncoderChannel ----------------------------
(***************************************************************************)
(* One channel of src/ros_image_rtp_adapter/runtime.py: the latest-frame   *)
(* queue of one consumer, the pump thread that feeds its encoder, the      *)
(* callers of set_active()/set_video_active(), the ROS callback that       *)
(* submits images and the main thread that shuts the runtime down.         *)
(*                                                                         *)
(* The encoder is SubprocessEncoder itself: a step of a thread inside an   *)
(* encoder call is a step of that module.  It is extended with Serialized  *)
(* = FALSE: that the channel's transition_lock serialises the calls is a   *)
(* result here (CallersSerialized), no longer an assumption.               *)
(***************************************************************************)
EXTENDS SubprocessEncoder, Naturals, Sequences

CONSTANTS
    Clients,    \* threads that call set_active: the control server, a ROS timer
    Pump,       \* the pump thread of the channel
    Closer,     \* the thread that owns the runtime and calls its stop()
    Depth,      \* maxlen of the queue
    MaxFrames   \* bound of the model: images ROS delivers in all

ASSUME ChannelConstants ==
    /\ Pump \notin Clients
    /\ Closer \notin Clients \cup {Pump}
    /\ Controllers = Clients \cup {Pump, Closer}
    /\ Writers = {Pump}
    /\ Depth \in Nat \ {0}
    /\ MaxFrames \in Nat

VARIABLES
    active,      \* channel.active
    draining,    \* channel.stopping
    pending,     \* channel.pending, as frame sequence numbers
    framesIn,    \* _frames_in
    taken,       \* the frame the pump popped last
    since,       \* history: _frames_in when the channel became active
    transition,  \* holder of channel.transition_lock
    channelLock, \* holder of channel.lock
    at,          \* where each thread is in the code of runtime.py
    closing,     \* _closing
    pumpStop     \* _pump_stop is set

flags == <<active, draining, closing, pumpStop>>
queue == <<pending, framesIn, taken, since>>
locks == <<transition, channelLock>>
channelVars == <<flags, queue, locks, at>>

allVars == <<vars, channelVars>>

\* At these positions a thread is inside a call of the encoder.
InEncoder == {"starting", "undoing", "stopping", "writing"}

Places == {"idle", "enabling", "started", "undo", "marking", "quiesce", "settle",
           "ready", "holding", "failed", "dead", "acquire", "joining", "finished",
           "signal"} \cup InEncoder

ChannelInit ==
    /\ Init
    /\ active = FALSE /\ draining = FALSE
    /\ pending = <<>> /\ framesIn = 0 /\ taken = 0 /\ since = 0
    /\ transition = None /\ channelLock = None
    /\ at = [t \in Threads |-> "idle"]
    /\ closing = FALSE /\ pumpStop = FALSE

Running == proc # None /\ Alive(proc)

MoveTo(t, place) == at' = [at EXCEPT ![t] = place]

-----------------------------------------------------------------------------
(***************************************************************************)
(* How a thread leaves _deactivate or a set_active call: a client returns  *)
(* to its caller either way, the pump ends its loop when its own stop      *)
(* failed, and shutdown goes on to join the pump or gives this attempt up. *)
(***************************************************************************)
AfterSuccess(t) == IF t = Closer THEN "joining" ELSE "idle"
AfterFailure(t) == IF t = Pump THEN "dead" ELSE "idle"

Leave(t, place) ==
    /\ MoveTo(t, place)
    /\ transition' = None

-----------------------------------------------------------------------------
(***************************************************************************)
(* _set_channel_active(channel, True).                                     *)
(***************************************************************************)

\* Mutant: a start is admitted while the runtime closes.
EnableWhileClosing(t) ==
    /\ t \in Clients
    /\ at[t] = "idle"
    /\ transition = None
    /\ ~draining
    /\ ~(active /\ Running)
    /\ transition' = t
    /\ MoveTo(t, "enabling")
    /\ UNCHANGED <<vars, flags, queue, channelLock>>

\* The request is accepted: it is not refused by a shutdown or an unfinished
\* stop, and is not already applied.
Enable(t) ==
    /\ t \in Clients
    /\ at[t] = "idle"
    /\ transition = None
    /\ ~closing /\ ~draining
    /\ ~(active /\ Running)
    /\ transition' = t
    /\ MoveTo(t, "enabling")
    /\ UNCHANGED <<vars, flags, queue, channelLock>>

\* channel.lock is waited for, without a deadline, before encoder.start().
EnableStart(t) ==
    /\ at[t] = "enabling"
    /\ channelLock = None
    /\ channelLock' = t
    /\ StartCall(t)
    /\ MoveTo(t, "starting")
    /\ UNCHANGED <<flags, queue, transition>>

\* start() raised exactly when it left no child, or a closed encoder.
StartDone(t) ==
    /\ at[t] = "starting"
    /\ Start(t) \/ Restart(t) \/ Finish(t)
    /\ pc'[t] = "idle"
    /\ MoveTo(t, IF proc' = None \/ stopping' THEN "undo" ELSE "started")
    /\ UNCHANGED <<flags, queue, locks>>

Activate(t) ==
    /\ at[t] = "started"
    /\ Running
    /\ active' = TRUE
    /\ since' = IF active THEN since ELSE framesIn
    /\ channelLock' = None
    /\ Leave(t, AfterSuccess(t))
    /\ UNCHANGED <<vars, draining, closing, pumpStop, pending, framesIn, taken>>

\* The child is already gone: "encoder did not start".
ActivateFails(t) ==
    /\ at[t] = "started"
    /\ ~Running
    /\ MoveTo(t, "undo")
    /\ UNCHANGED <<vars, flags, queue, locks>>

UndoStart(t) ==
    /\ at[t] = "undo"
    /\ StopCall(t)
    /\ MoveTo(t, "undoing")
    /\ UNCHANGED <<flags, queue, locks>>

\* Whether the stop succeeded or not, the call raises.
UndoDone(t) ==
    /\ at[t] = "undoing"
    /\ Stop(t) \/ Finish(t)
    /\ pc'[t] = "idle"
    /\ channelLock' = None
    /\ Leave(t, AfterFailure(t))
    /\ UNCHANGED <<flags, queue>>

-----------------------------------------------------------------------------
(***************************************************************************)
(* _set_channel_active(channel, False) and _deactivate.                    *)
(***************************************************************************)

\* Mutant: the pump stops its encoder without the transition lock.
DisableUnlocked(t) ==
    /\ \/ t \in Clients /\ at[t] = "idle" /\ transition = None
       \/ t = Pump /\ at[t] = "failed"
    /\ active \/ ~Stopped
    /\ transition' = t
    /\ MoveTo(t, "marking")
    /\ UNCHANGED <<vars, flags, queue, channelLock>>

\* A client's request, or the pump's own after its write raised.
Disable(t) ==
    /\ \/ t \in Clients /\ at[t] = "idle"
       \/ t = Pump /\ at[t] = "failed"
    /\ transition = None
    /\ active \/ ~Stopped
    /\ transition' = t
    /\ MoveTo(t, "marking")
    /\ UNCHANGED <<vars, flags, queue, channelLock>>

\* The pump finds that another caller deactivated the channel meanwhile.
AlreadyDisabled(t) ==
    /\ t = Pump /\ at[t] = "failed"
    /\ transition = None
    /\ ~active /\ Stopped
    /\ MoveTo(t, "idle")
    /\ UNCHANGED <<vars, flags, queue, locks>>

\* Mutant: the queue is kept.
MarkKeepingQueue(t) ==
    /\ at[t] = "marking"
    /\ draining' = TRUE
    /\ MoveTo(t, "quiesce")
    /\ UNCHANGED <<vars, active, closing, pumpStop, queue, locks>>

Mark(t) ==
    /\ at[t] = "marking"
    /\ draining' = TRUE
    /\ pending' = <<>>
    /\ MoveTo(t, "quiesce")
    /\ UNCHANGED <<vars, active, closing, pumpStop, framesIn, taken, since, locks>>

StopNative(t) ==
    /\ at[t] = "quiesce"
    /\ StopCall(t)
    /\ MoveTo(t, "stopping")
    /\ UNCHANGED <<flags, queue, locks>>

\* Mutant: the encoder is not asked whether it really stopped.
NativeStoppedUnchecked(t) ==
    /\ at[t] = "stopping"
    /\ Stop(t) \/ Finish(t)
    /\ pc'[t] = "idle"
    /\ MoveTo(t, "settle")
    /\ UNCHANGED <<flags, queue, locks>>

\* stop() returned and the encoder reports itself stopped; or it raised, and
\* the channel stays marked, active and owned.
NativeStopped(t) ==
    /\ at[t] = "stopping"
    /\ Stop(t) \/ Finish(t)
    /\ pc'[t] = "idle"
    /\ IF Stopped'
       THEN MoveTo(t, "settle") /\ UNCHANGED transition
       ELSE Leave(t, AfterFailure(t))
    /\ UNCHANGED <<flags, queue, channelLock>>

\* Mutant: inactivity is applied under a pump call.
SettleUnderWrite(t) ==
    /\ at[t] = "settle"
    /\ active' = FALSE
    /\ draining' = FALSE
    /\ Leave(t, AfterSuccess(t))
    /\ UNCHANGED <<vars, closing, pumpStop, queue, channelLock>>

\* Inactivity is applied once the pump has left the write it was in.
Settle(t) ==
    /\ at[t] = "settle"
    /\ channelLock = None
    /\ active' = FALSE
    /\ draining' = FALSE
    /\ Leave(t, AfterSuccess(t))
    /\ UNCHANGED <<vars, closing, pumpStop, queue, channelLock>>

SettleTimeout(t) ==
    /\ at[t] = "settle"
    /\ channelLock # None
    /\ Leave(t, AfterFailure(t))
    /\ UNCHANGED <<vars, flags, queue, channelLock>>

-----------------------------------------------------------------------------
(***************************************************************************)
(* _enqueue, called by a ROS subscription.                                 *)
(***************************************************************************)

\* Drop from the old end until the new frame fits.
Enqueued(frame) ==
    Append(IF Len(pending) = Depth THEN Tail(pending) ELSE pending, frame)

Submit ==
    /\ framesIn < MaxFrames
    /\ ~closing
    /\ framesIn' = framesIn + 1
    /\ pending' = IF active /\ ~draining THEN Enqueued(framesIn + 1) ELSE pending
    /\ UNCHANGED <<vars, flags, taken, since, locks, at>>

-----------------------------------------------------------------------------
(***************************************************************************)
(* _run_channel_pump and _pump_channel.                                    *)
(***************************************************************************)
Deliverable == active /\ ~draining /\ pending # <<>>

PumpWakes ==
    /\ at[Pump] = "idle"
    /\ ~pumpStop
    /\ Deliverable
    /\ MoveTo(Pump, "ready")
    /\ UNCHANGED <<vars, flags, queue, locks>>

PumpEnds ==
    /\ at[Pump] = "idle"
    /\ pumpStop
    /\ MoveTo(Pump, "dead")
    /\ UNCHANGED <<vars, flags, queue, locks>>

PumpTakes ==
    /\ at[Pump] = "ready"
    /\ channelLock = None
    /\ Deliverable
    /\ channelLock' = Pump
    /\ taken' = Head(pending)
    /\ pending' = Tail(pending)
    /\ MoveTo(Pump, "holding")
    /\ UNCHANGED <<vars, flags, framesIn, since, transition>>

PumpFindsNothing ==
    /\ at[Pump] = "ready"
    /\ channelLock = None
    /\ ~Deliverable
    /\ MoveTo(Pump, "idle")
    /\ UNCHANGED <<vars, flags, queue, locks>>

PumpWrites ==
    /\ at[Pump] = "holding"
    /\ WriteCall(Pump)
    /\ MoveTo(Pump, "writing")
    /\ UNCHANGED <<flags, queue, locks>>

\* write_frame() returns without writing: nothing is admitted.
PumpWriteDropped ==
    /\ at[Pump] = "holding"
    /\ stopping \/ proc = None
    /\ channelLock' = None
    /\ MoveTo(Pump, "idle")
    /\ UNCHANGED <<vars, flags, queue, transition>>

\* write_frame() returns: the frame was written, or lost in a restart that
\* succeeded or was left to a stop.
PumpWriteReturns ==
    /\ at[Pump] = "writing"
    /\ \/ WriteDone(Pump)
       \/ RestartSkip(Pump)
       \/ RestartSuperseded(Pump)
       \/ RestartLaunch(Pump) /\ proc' # None /\ ~stopping'
    /\ channelLock' = None
    /\ MoveTo(Pump, "idle")
    /\ UNCHANGED <<flags, queue, transition>>

PumpWriteRaises ==
    /\ at[Pump] = "writing"
    /\ \/ BeforeWriteRaises(Pump)
       \/ FinishRaises(Pump)
       \/ RestartLaunch(Pump) /\ (proc' = None \/ stopping')
    /\ channelLock' = None
    /\ MoveTo(Pump, "failed")
    /\ UNCHANGED <<flags, queue, transition>>

-----------------------------------------------------------------------------
(***************************************************************************)
(* stop() of the runtime, _stop_pumps, its retry by finish_shutdown, and a *)
(* later start().                                                          *)
(***************************************************************************)
CloseBegin ==
    /\ at[Closer] = "idle"
    /\ closing' = TRUE
    /\ MoveTo(Closer, "signal")
    /\ UNCHANGED <<vars, active, draining, pumpStop, queue, locks>>

\* The control server has quiesced: the pump is told to end.
SignalPump ==
    /\ at[Closer] = "signal"
    /\ pumpStop' = TRUE
    /\ MoveTo(Closer, "acquire")
    /\ UNCHANGED <<vars, active, draining, closing, queue, locks>>

\* Mutant: shutdown waits for the pump before it terminates the encoder.
CloseAcquireAfterPump ==
    /\ at[Closer] = "acquire"
    /\ transition = None
    /\ channelLock = None
    /\ transition' = Closer
    /\ MoveTo(Closer, "marking")
    /\ UNCHANGED <<vars, flags, queue, channelLock>>

CloseAcquire ==
    /\ at[Closer] = "acquire"
    /\ transition = None
    /\ transition' = Closer
    /\ MoveTo(Closer, "marking")
    /\ UNCHANGED <<vars, flags, queue, channelLock>>

\* Mutant: the transition lock is waited for without a deadline.
CloseTimeoutOnlyJoining ==
    /\ at[Closer] = "joining" /\ at[Pump] # "dead"
    /\ MoveTo(Closer, "idle")
    /\ UNCHANGED <<vars, flags, queue, locks>>

\* The deadline passes: this attempt fails, and is retried.
CloseTimeout ==
    /\ \/ at[Closer] = "acquire" /\ transition # None
       \/ at[Closer] = "joining" /\ at[Pump] # "dead"
    /\ MoveTo(Closer, "idle")
    /\ UNCHANGED <<vars, flags, queue, locks>>

JoinPump ==
    /\ at[Closer] = "joining"
    /\ at[Pump] = "dead"
    /\ MoveTo(Closer, "finished")
    /\ UNCHANGED <<vars, flags, queue, locks>>

\* start() after a completed stop(): a new pump thread.
RuntimeStart ==
    /\ at[Closer] = "finished"
    /\ closing' = FALSE
    /\ pumpStop' = FALSE
    /\ at' = [at EXCEPT ![Closer] = "idle", ![Pump] = "idle"]
    /\ UNCHANGED <<vars, active, draining, queue, locks>>

-----------------------------------------------------------------------------
\* A step inside an encoder call, or of its environment.
EncoderStep ==
    /\ UNCHANGED channelVars
    /\ \/ Environment
       \/ \E t \in Threads :
            /\ at[t] \in InEncoder
            /\ pc[t] # "idle"
            /\ Start(t) \/ Stop(t) \/ Restart(t) \/ Finish(t) \/ Write(t)
            /\ pc'[t] # "idle"

SetActive(t) ==
    \/ Enable(t) \/ EnableStart(t) \/ StartDone(t) \/ Activate(t)
    \/ ActivateFails(t) \/ UndoStart(t) \/ UndoDone(t)
    \/ Disable(t) \/ AlreadyDisabled(t)

Deactivate(t) ==
    \/ Mark(t) \/ StopNative(t) \/ NativeStopped(t) \/ Settle(t) \/ SettleTimeout(t)

PumpLoop ==
    \/ PumpWakes \/ PumpEnds \/ PumpTakes \/ PumpFindsNothing
    \/ PumpWrites \/ PumpWriteDropped \/ PumpWriteReturns \/ PumpWriteRaises

Shutdown ==
    \/ CloseBegin \/ SignalPump \/ CloseAcquire \/ CloseTimeout \/ JoinPump

ChannelNext ==
    \/ \E t \in Threads : SetActive(t) \/ Deactivate(t)
    \/ Submit
    \/ PumpLoop
    \/ Shutdown
    \/ RuntimeStart
    \/ EncoderStep

ChannelSpec == ChannelInit /\ [][ChannelNext]_allVars

(***************************************************************************)
(* Fairness.  Every thread inside a call goes on: its waits carry          *)
(* deadlines or are for locks, and it is not starved of a lock that stays  *)
(* free.  finish_shutdown retries.  As in SubprocessEncoder, a killed      *)
(* child dies and a write into a dead child's pipe fails; a live child may *)
(* stall for ever.                                                         *)
(***************************************************************************)
CloseProgress ==
    \/ SetActive(Closer) \/ Deactivate(Closer) \/ Shutdown
    \/ CallSteps(Closer) /\ pc'[Closer] # "idle" /\ UNCHANGED channelVars

ClientProgress(t) ==
    \/ EnableStart(t) \/ StartDone(t) \/ Activate(t) \/ ActivateFails(t)
    \/ UndoStart(t) \/ UndoDone(t)
    \/ Deactivate(t)
    \/ CallSteps(t) /\ pc'[t] # "idle" /\ UNCHANGED channelVars

PumpProgress ==
    \/ pc[Pump] # "writing" /\ PumpLoop
    \/ Disable(Pump) \/ AlreadyDisabled(Pump) \/ Deactivate(Pump)
    \/ /\ CallSteps(Pump) \/ BeforeWrite(Pump) \/ RestartAcquire(Pump) \/ PipeBreaks(Pump)
       /\ pc'[Pump] # "idle"
       /\ UNCHANGED channelVars

ChannelFairSpec ==
    /\ ChannelSpec
    /\ WF_allVars(CloseProgress)
    /\ \A t \in Clients : WF_allVars(ClientProgress(t))
    /\ WF_allVars(PumpProgress)
    /\ \A p \in Children : WF_allVars(child[p] = "killed" /\ ChildExits(p) /\ UNCHANGED channelVars)

-----------------------------------------------------------------------------
ChannelTypeOK ==
    /\ TypeOK
    /\ active \in BOOLEAN /\ draining \in BOOLEAN
    /\ closing \in BOOLEAN /\ pumpStop \in BOOLEAN
    /\ pending \in Seq(1 .. MaxFrames) /\ Len(pending) <= Depth
    /\ framesIn \in 0 .. MaxFrames
    /\ taken \in 0 .. MaxFrames /\ since \in 0 .. MaxFrames
    /\ transition \in Threads \cup {None}
    /\ channelLock \in Threads \cup {None}
    /\ at \in [Threads -> Places]

(***************************************************************************)
(* The channel meets what the encoder assumes of its callers: start() and  *)
(* stop() never overlap, and start() never finds the lifecycle lock taken  *)
(* (it would raise, encoder.py:152-153), although the pump restarts its    *)
(* child without the transition lock (runtime.py:106-109).                 *)
(***************************************************************************)
CallersSerialized ==
    /\ \A t, u \in Threads :
            call[t] \in {"start", "stop"} /\ call[u] \in {"start", "stop"} => t = u
    /\ \A t \in Threads :
            at[t] = "enabling" /\ channelLock = None => lifecycle = None

(***************************************************************************)
(* Applied inactivity is real (runtime.py:386-393): when no transition is  *)
(* under way an inactive channel has no pump call in progress, its encoder *)
(* holds no child that could still be written to or replaced: either it is *)
(* stopped, or a failed start left it closed.                              *)
(***************************************************************************)
InactiveIsQuiet ==
    ~active /\ transition = None =>
        /\ Stopped \/ stopping
        /\ at[Pump] \notin {"holding", "writing"}
        /\ pending = <<>>

(***************************************************************************)
(* A consumer never sees an image from before it joined: a frame in a      *)
(* pipe, or about to be, was submitted after the last activation           *)
(* (runtime.py:377-380, 517-532).                                          *)
(***************************************************************************)
NoStaleFrame ==
    at[Pump] \in {"holding", "writing"} /\ (active \/ draining) => taken > since

(***************************************************************************)
(* Shutdown that returned left nothing behind (runtime.py:276-277, 287):   *)
(* the child is reaped, the writer gone, the pump thread dead, and the     *)
(* channel stays down until the runtime is started again.                  *)
(***************************************************************************)
ShutdownIsComplete ==
    at[Closer] = "finished" =>
        Stopped /\ ~active /\ at[Pump] = "dead" /\ proc = None

\* The transition under way, as those who wait for it see it.
Operation ==
    IF \E t \in Threads : at[t] \in {"enabling", "starting", "started", "undo", "undoing"}
    THEN "start"
    ELSE IF \E t \in Threads : at[t] \in {"quiesce", "stopping", "settle"}
    THEN "stop"
    ELSE "none"

Contract == INSTANCE ChannelContract WITH
    running <- Running,
    owned <- ~Stopped,
    unfinished <- draining,
    op <- Operation

(***************************************************************************)
(* The channel does what its contract says: it becomes inactive only when  *)
(* the encoder owns nothing any more, a stop that failed stays unfinished  *)
(* and keeps what it owns, no start begins under an unfinished stop or a   *)
(* shutdown (runtime.py:412-413), and a child is launched only by a start, *)
(* or by the pump of an active channel that nobody stops: never after      *)
(* shutdown has applied inactivity.                                        *)
(***************************************************************************)
ImplementsChannel == Contract!Spec

\* "One consumer-scoped encoder with its own latest-frame queue and pump"
\* (runtime.py:90): a channel that accepts frames has a pump to deliver them.
ActiveChannelHasPump ==
    active /\ ~draining /\ transition = None /\ ~closing => at[Pump] # "dead"

\* "Stopping never waits for the pump: terminating the process is what
\* releases a pump blocked in a pipe write to a stalled encoder."
\* (runtime.py:381-382): once shutdown began, the pump leaves its write.
ShutdownReleasesPump ==
    (closing /\ pc[Pump] = "writing") ~> (pc[Pump] # "writing")

\* What remains true of it: unless a client holds the transition lock while it
\* waits to start the encoder, shutdown releases the pump.
ShutdownReleasesPumpUnlessStarting ==
    (/\ closing /\ pc[Pump] = "writing"
     /\ \A t \in Clients : at[t] # "enabling") ~> (pc[Pump] # "writing")

\* Every attempt to shut down ends, with the work done or to be retried.
ShutdownAttemptEnds ==
    (at[Closer] # "finished") ~> (at[Closer] \in {"idle", "finished"})
=============================================================================
