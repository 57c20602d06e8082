------------------------------- MODULE SourceNode -------------------------------
(***************************************************************************)
(* The process (src/ros_image_rtp_adapter/node.py, ros1_node.py and the    *)
(* construction, start and stop of runtime.py): main builds the node, and  *)
(* finish_shutdown keeps ROS alive until the native work is gone.  Around  *)
(* main run, in ROS 1, the thread in which ROS itself shuts down, the      *)
(* timer that follows the subscribers of the preview, and the reader that  *)
(* publishes it; and in both the clients of the endpoint and the pumps.    *)
(* A change of a channel is one step: EncoderChannel has its inside.       *)
(***************************************************************************)
EXTENDS EncoderCommand, FiniteSets

CONSTANTS
    SettingsOf,   \* the settings of ROS parameters, valid or not
    ToolsOf(_),   \* sets of tools a machine may have for some settings
    Ports, Bitrates  \* what clients configure

ASSUME NodeConstants == SettingsOf \subseteq Settings /\ Ports \subseteq Int /\ Bitrates \subseteq Int

VARIABLES
    ros,          \* which of the two programs runs
    settings,     \* runtime.settings, and what the RTP encoder was built from
    tools,        \* what is installed
    directory,    \* the directory of the control socket
    main,         \* the position of main
    attempt,      \* the position of each thread in an attempt of stop()
    lifecycle,    \* holder of _lifecycle_lock
    started,      \* _started
    closing,      \* _closing
    endpoint,     \* _control and _rpc_runtime
    pump,         \* the thread of each channel
    active,       \* channels that are active
    unfinished,   \* channels with a stop that began and did not succeed
    child,        \* the command each encoder's child runs
    restarting,   \* channels whose start waits for the write of their pump
    context,      \* the ROS context, with its publishers
    hooked,       \* rospy has the hook shutdown()
    shutdownStarted,
    subscribers,  \* somebody subscribes to the preview
    timer,        \* the thread of the demand timer
    reader        \* the reader of the preview in _publish_video

machine == <<ros, tools>>
mainVars == <<main, directory>>
stopVars == <<attempt, lifecycle, shutdownStarted>>
nativeVars == <<active, unfinished, child, pump, restarting>>
runtimeVars == <<started, closing, endpoint>>
rosVars == <<context, hooked, subscribers, timer, reader>>
vars == <<machine, settings, mainVars, stopVars, nativeVars, runtimeVars, rosVars>>

Rtp == "rtp"
Preview == "ros-preview"
Threads == {"main", "external"}
NoChild == [program |-> "none"]
NoThread == "no thread"

\* self._channels: on_access_unit is given when there is a video topic.
Channels == {Rtp} \cup (IF settings.preview THEN {Preview} ELSE {})

Init ==
    /\ ros \in {"ros1", "ros2"}
    /\ settings \in SettingsOf
    /\ tools \in ToolsOf(settings)
    /\ directory \in {"absent", "private", "foreign"}
    /\ main = "parameters"
    /\ attempt = [t \in Threads |-> "none"]
    /\ lifecycle = NoThread
    /\ started = FALSE /\ closing = FALSE /\ endpoint = "none"
    /\ pump = [c \in {Rtp, Preview} |-> "none"]
    /\ active = {} /\ unfinished = {} /\ restarting = {}
    /\ child = [c \in {Rtp, Preview} |-> NoChild]
    /\ context = "up" /\ hooked = FALSE /\ shutdownStarted = FALSE
    /\ subscribers = FALSE /\ timer = "none" /\ reader = "none"

-----------------------------------------------------------------------------
(***************************************************************************)
(* Channels: _set_channel_active, under the transition lock.  A reader     *)
(* that publishes is not interrupted: the encoder is not stopped, nor its  *)
(* child replaced, before it returned.                                     *)
(***************************************************************************)
Quiet(c) == c = Preview => reader = "none"

Free(c) == c \notin restarting

MayStart(c) == Free(c) /\ ~closing /\ c \notin unfinished

StartRefused(c) ==
    /\ Free(c)
    /\ closing \/ c \in unfinished
    /\ UNCHANGED nativeVars

StartUnchanged(c) ==
    /\ MayStart(c)
    /\ c \in active /\ child[c] # NoChild
    /\ UNCHANGED nativeVars

Launches(c) ==
    /\ MayStart(c)
    /\ c \notin active /\ child[c] = NoChild
    /\ Quiet(c)
    /\ active' = active \cup {c}
    /\ child' = [child EXCEPT ![c] = Command(settings, c)]
    /\ UNCHANGED <<unfinished, pump, restarting>>

\* A child may have been launched although encoder.start() raised: it is
\* stopped, or stays when encoder.stop() raises too.
AfterFailedStart(c) ==
    \E command \in {NoChild, IF child[c] = NoChild THEN Command(settings, c) ELSE child[c]} :
        child' = [child EXCEPT ![c] = command]

LaunchFails(c) ==
    /\ MayStart(c)
    /\ c \notin active
    /\ AfterFailedStart(c)
    /\ UNCHANGED <<active, unfinished, pump, restarting>>

\* The child of an active channel died.  Its pump may be in a write, to the child
\* that replaces it, and channel.lock is waited for without a deadline.
StartWaits(c) ==
    /\ MayStart(c)
    /\ c \in active /\ child[c] = NoChild
    /\ restarting' = restarting \cup {c}
    /\ UNCHANGED <<active, unfinished, child, pump>>

\* The wait is over; whether the process closes is not asked again.
Restarts(c) ==
    /\ c \in restarting
    /\ child[c] = NoChild => Quiet(c)
    /\ child' = [child EXCEPT ![c] = IF child[c] = NoChild THEN Command(settings, c) ELSE @]
    /\ restarting' = restarting \ {c}
    /\ UNCHANGED <<active, unfinished, pump>>

RestartFails(c) ==
    /\ c \in restarting
    /\ AfterFailedStart(c)
    /\ restarting' = restarting \ {c}
    /\ UNCHANGED <<active, unfinished, pump>>

Deactivates(c) ==
    /\ Free(c)
    /\ Quiet(c)
    /\ active' = active \ {c}
    /\ unfinished' = unfinished \ {c}
    /\ child' = [child EXCEPT ![c] = NoChild]
    /\ UNCHANGED <<pump, restarting>>

DeactivateFails(c) ==
    /\ Free(c)
    /\ c \in active \cup unfinished \/ child[c] # NoChild \/ ~Quiet(c)
    /\ unfinished' = unfinished \cup {c}
    /\ child' \in {child, [child EXCEPT ![c] = NoChild]}
    /\ UNCHANGED <<active, restarting>>

\* A request of Media Edge.
SetRtp ==
    /\ endpoint = "open" /\ ~closing
    /\ \/ Launches(Rtp) \/ LaunchFails(Rtp) \/ StartWaits(Rtp)
       \/ Deactivates(Rtp)
       \/ DeactivateFails(Rtp) /\ UNCHANGED pump
    /\ UNCHANGED <<machine, settings, mainVars, stopVars, runtimeVars, rosVars>>

\* An admitted request goes on, also while the process closes.
RtpRestarts ==
    /\ Restarts(Rtp) \/ RestartFails(Rtp)
    /\ UNCHANGED <<machine, settings, mainVars, stopVars, runtimeVars, rosVars>>

\* The pump restarts a dead child, or stops its channel; if it cannot, the
\* thread ends.
PumpStep(c) ==
    /\ pump[c] = "running" /\ c \in active /\ c \notin unfinished
    /\ \/ /\ child[c] = NoChild
          /\ Quiet(c)
          /\ child' = [child EXCEPT ![c] = Command(settings, c)]
          /\ UNCHANGED <<active, unfinished, pump, restarting>>
       \/ Deactivates(c)
       \/ DeactivateFails(c) /\ pump' = [pump EXCEPT ![c] = "ended"]
    /\ UNCHANGED <<machine, settings, mainVars, stopVars, runtimeVars, rosVars>>

ChildDies(c) ==
    /\ child[c] # NoChild
    /\ child' = [child EXCEPT ![c] = NoChild]
    /\ UNCHANGED <<machine, settings, mainVars, stopVars, runtimeVars, rosVars,
                   active, unfinished, pump, restarting>>

\* Mutant: configure() does not look at the channel.
IdleAlways == TRUE

Idle == Rtp \notin active \cup unfinished /\ child[Rtp] = NoChild

\* The new encoder and its settings take the place of the old in one step.
Configure ==
    /\ endpoint = "open" /\ ~closing
    /\ Idle
    /\ \E port \in Ports, bitrate \in Bitrates :
          LET candidate == [settings EXCEPT !.port = port, !.bitrate = bitrate]
          IN  /\ MayBecome(settings, candidate)
              /\ Inspected(candidate, Rtp) \subseteq tools
              /\ settings' = candidate
    /\ UNCHANGED <<machine, mainVars, stopVars, nativeVars, runtimeVars, rosVars>>

-----------------------------------------------------------------------------
(***************************************************************************)
(* One attempt of stop(), by main or by the thread that shuts ROS down.    *)
(***************************************************************************)

\* Mutant: a failed attempt is the last one.
GivesUp == "done"

\* finish_shutdown
AfterFailedAttempt == "wait"

\* start() makes one attempt of its own, which the constructor repeats.
Attempted(t, where) ==
    attempt' = [attempt EXCEPT ![t] =
        IF where # "failed" THEN where
        ELSE IF t = "main" /\ main = "failing" THEN "done" ELSE AfterFailedAttempt]

NothingToStop == ~started /\ endpoint = "none" /\ \A c \in Channels : child[c] = NoChild

StopBegins(t) ==
    /\ attempt[t] = "wait"
    /\ lifecycle = NoThread
    /\ IF NothingToStop
       THEN Attempted(t, "done") /\ UNCHANGED <<lifecycle, closing>>
       ELSE Attempted(t, "native") /\ lifecycle' = t /\ closing' = TRUE
    /\ UNCHANGED <<machine, settings, mainVars, shutdownStarted, nativeVars, started, endpoint, rosVars>>

\* Mutant: a thread object is enough.
JoinedAll == {c \in Channels : pump[c] # "none"}

\* A thread that was never started has no ident.
Joined == {c \in Channels : pump[c] \in {"running", "ended"}}

\* Joining a thread that was not started raises.
StopNative(t) ==
    /\ attempt[t] = "native"
    /\ restarting = {}
    /\ \A c \in Channels : Quiet(c)
    /\ \A c \in Joined : pump[c] # "unstarted"
    /\ child' = [c \in DOMAIN child |-> NoChild]
    /\ active' = {} /\ unfinished' = {}
    /\ pump' = [c \in DOMAIN pump |-> "none"]
    /\ Attempted(t, "release")
    /\ UNCHANGED <<machine, settings, mainVars, lifecycle, shutdownStarted, restarting,
                   runtimeVars, rosVars>>

\* The server does not become quiet, the lock of a channel is not had in time,
\* a channel cannot be stopped (the preview after RTP), or a pump not joined.
StopNativeFails(t) ==
    /\ attempt[t] = "native"
    /\ \E down, marked \in SUBSET {c \in Channels : Free(c)} :
          /\ down \cap marked = {}
          /\ Preview \in down \cup marked => Rtp \in down
          /\ \A c \in down : Quiet(c)
          /\ child' = [c \in DOMAIN child |-> IF c \in down THEN NoChild ELSE child[c]]
          /\ active' = active \ down
          /\ unfinished' = (unfinished \ down) \cup marked
    /\ Attempted(t, "failed")
    /\ lifecycle' = NoThread
    /\ UNCHANGED <<machine, settings, mainVars, shutdownStarted, pump, restarting,
                   runtimeVars, rosVars>>

StopReleases(t) ==
    /\ attempt[t] = "release"
    /\ endpoint' = "none" /\ started' = FALSE
    /\ lifecycle' = NoThread
    /\ Attempted(t, "done")
    /\ UNCHANGED <<machine, settings, mainVars, shutdownStarted, nativeVars, closing, rosVars>>

StopReleaseFails(t) ==
    /\ attempt[t] = "release"
    /\ lifecycle' = NoThread
    /\ Attempted(t, "failed")
    /\ UNCHANGED <<machine, settings, mainVars, shutdownStarted, nativeVars, runtimeVars, rosVars>>

StopAttempt(t) ==
    StopBegins(t) \/ StopNative(t) \/ StopNativeFails(t) \/ StopReleases(t) \/ StopReleaseFails(t)

-----------------------------------------------------------------------------
(***************************************************************************)
(* Main, up to the loop.                                                   *)
(***************************************************************************)
Goes(from, to) == main = from /\ main' = to

\* Calls self.shutdown() (ROS 1) or finish_shutdown(destroy_node) (ROS 2), or,
\* in start(), stop().
Stops(t) == attempt' = [attempt EXCEPT ![t] = "wait"]

\* _initialize_runtime() raised.
Undone(from) ==
    /\ Goes(from, "undo")
    /\ Stops("main")
    /\ shutdownStarted' = (ros = "ros1")

\* The preview is implemented for ROS 1.
ReadParameters ==
    /\ IF Valid(settings) /\ (ros = "ros2" => ~settings.preview)
       THEN Goes("parameters", "preflight")
       ELSE Goes("parameters", "leave")
    /\ UNCHANGED <<machine, settings, directory, stopVars, nativeVars, runtimeVars, rosVars>>

Preflight ==
    /\ IF \A c \in Channels : Inspected(settings, c) \subseteq tools
       THEN Goes("preflight", "directory") /\ UNCHANGED stopVars
       ELSE Undone("preflight") /\ UNCHANGED lifecycle
    /\ UNCHANGED <<machine, settings, directory, nativeVars, runtimeVars, rosVars>>

\* prepare_default_control_directory never changes what exists.
PrepareDirectory ==
    /\ IF directory = "foreign"
       THEN Undone("directory") /\ UNCHANGED <<directory, started, lifecycle>>
       ELSE /\ Goes("directory", "control")
            /\ directory' = "private"
            /\ started' = TRUE
            /\ UNCHANGED stopVars
    /\ UNCHANGED <<machine, settings, nativeVars, closing, endpoint, rosVars>>

\* _create_control, the threads, and the listener; each may raise, and start()
\* then stops what there is.
StartFails ==
    /\ main \in {"control", "pumps", "listen"}
    /\ main' = "failing"
    /\ Stops("main")
    /\ endpoint' \in IF main = "control" THEN {"none", "created"} ELSE {endpoint}
    /\ pump' \in IF main = "pumps"
                 THEN {[pump EXCEPT ![c] = "unstarted"] : c \in {d \in Channels : pump[d] = "none"}}
                 ELSE {pump}
    /\ pump'[Preview] # "none" => pump'[Rtp] = "running"
    /\ UNCHANGED <<machine, settings, directory, lifecycle, shutdownStarted, started, closing,
                   active, unfinished, child, restarting, rosVars>>

CreateControl ==
    /\ Goes("control", "pumps")
    /\ endpoint' = "created"
    /\ UNCHANGED <<machine, settings, directory, stopVars, nativeVars, started, closing, rosVars>>

StartPump(c) ==
    /\ main = "pumps"
    /\ pump[c] = "none"
    /\ c = Preview => pump[Rtp] = "running"
    /\ pump' = [pump EXCEPT ![c] = "running"]
    /\ main' = IF \A d \in Channels : pump'[d] = "running" THEN "listen" ELSE "pumps"
    /\ UNCHANGED <<machine, settings, directory, stopVars, active, unfinished, child,
                   restarting, runtimeVars, rosVars>>

Listen ==
    /\ Goes("listen", "hook")
    /\ endpoint' = "open"
    /\ UNCHANGED <<machine, settings, directory, stopVars, nativeVars, started, closing, rosVars>>

\* rospy.on_shutdown: a hook that comes too late is called at once.
RegisterHook ==
    /\ IF ros = "ros2" \/ context = "up"
       THEN Goes("hook", "subscribe") /\ hooked' = (ros = "ros1") /\ UNCHANGED stopVars
       ELSE /\ Goes("hook", "late")
            /\ Stops("main")
            /\ shutdownStarted' = TRUE
            /\ UNCHANGED <<hooked, lifecycle>>
    /\ UNCHANGED <<machine, settings, directory, nativeVars, runtimeVars,
                   context, subscribers, timer, reader>>

\* The subscription and the timers.
Subscribe ==
    /\ \/ /\ Goes("subscribe", "spin")
          /\ timer' = IF settings.preview THEN "waiting" ELSE "none"
          /\ UNCHANGED stopVars
       \/ Undone("subscribe") /\ UNCHANGED <<lifecycle, timer>>
    /\ UNCHANGED <<machine, settings, directory, nativeVars, runtimeVars,
                   context, hooked, subscribers, reader>>

\* A signal, or ROS is down.
LoopEnds ==
    /\ Goes("spin", "finish")
    /\ Stops("main")
    /\ shutdownStarted' = (ros = "ros1")
    /\ UNCHANGED <<machine, settings, directory, lifecycle, nativeVars, runtimeVars, rosVars>>

-----------------------------------------------------------------------------
(***************************************************************************)
(* Main, after the constructor failed or the loop ended; and the shutdown  *)
(* of ROS, which in ROS 1 may also come from outside (rosnode kill).       *)
(***************************************************************************)
Done(t) == attempt[t] = "done"

\* super().destroy_node() may refuse, and the next attempt has nothing to stop.
AttemptReturns ==
    /\ Done("main")
    /\ \/ Goes("failing", "undo") /\ Stops("main") /\ shutdownStarted' = (ros = "ros1")
       \/ Goes("late", "subscribe") /\ attempt' = [attempt EXCEPT !["main"] = "none"]
                                    /\ UNCHANGED shutdownStarted
       \/ /\ main \in {"undo", "finish"}
          /\ main' = "leave"
          /\ attempt' = [attempt EXCEPT !["main"] = "none"]
          /\ UNCHANGED shutdownStarted
       \/ /\ ros = "ros2" /\ main \in {"undo", "finish"}
          /\ Attempted("main", "failed")
          /\ UNCHANGED <<main, shutdownStarted>>
    /\ UNCHANGED <<machine, settings, directory, lifecycle, nativeVars, runtimeVars, rosVars>>

\* signal_shutdown runs the hooks before it takes the publishers down.
SignalShutdown(t) ==
    /\ ros = "ros1" /\ context = "up"
    /\ t = "main" => main = "leave"
    /\ main # "exited"
    /\ IF hooked
       THEN context' = "hooks" /\ Stops(t) /\ shutdownStarted' = TRUE
       ELSE context' = "down" /\ UNCHANGED <<attempt, shutdownStarted>>
    /\ UNCHANGED <<machine, settings, mainVars, lifecycle, nativeVars, runtimeVars,
                   hooked, subscribers, timer, reader>>

HooksReturn(t) ==
    /\ context = "hooks"
    /\ Done(t)
    /\ t = "main" => main = "leave"
    /\ context' = "down"
    /\ attempt' = [attempt EXCEPT ![t] = "none"]
    /\ UNCHANGED <<machine, settings, mainVars, lifecycle, shutdownStarted, nativeVars, runtimeVars,
                   hooked, subscribers, timer, reader>>

\* A shutdown of ROS that is under way elsewhere is not waited for.  The other
\* threads end with the process.
Exit ==
    /\ Goes("leave", "exited")
    /\ attempt["main"] = "none"
    /\ ros = "ros1" => context # "up"
    /\ context' = "down"
    /\ attempt' = [t \in Threads |-> "none"]
    /\ lifecycle' = NoThread
    /\ timer' = "none"
    /\ UNCHANGED <<machine, settings, directory, shutdownStarted, nativeVars, runtimeVars,
                   hooked, subscribers, reader>>

-----------------------------------------------------------------------------
(***************************************************************************)
(* The preview in ROS 1.                                                   *)
(***************************************************************************)
SubscriberComesOrLeaves ==
    /\ ros = "ros1" /\ settings.preview /\ context # "down"
    /\ main # "parameters"
    /\ subscribers' = ~subscribers
    /\ UNCHANGED <<machine, settings, mainVars, stopVars, nativeVars, runtimeVars,
                   context, hooked, timer, reader>>

\* Mutant: a channel that is active stays so.
DemandKept == IF subscribers \/ Preview \in active THEN "on" ELSE "off"

Demand == IF subscribers THEN "on" ELSE "off"

TimerChecks ==
    /\ timer = "waiting"
    /\ ~shutdownStarted /\ context # "down"
    /\ timer' = Demand
    /\ UNCHANGED <<machine, settings, mainVars, stopVars, nativeVars, runtimeVars,
                   context, hooked, subscribers, reader>>

\* set_video_active with what was read; the thread does not survive an exception.
TimerSets ==
    /\ \/ /\ timer = "on"
          /\ \/ (Launches(Preview) \/ StartUnchanged(Preview)) /\ timer' = "waiting"
             \/ StartWaits(Preview) /\ UNCHANGED timer
             \/ (LaunchFails(Preview) \/ StartRefused(Preview)) /\ timer' = "dead"
       \/ /\ timer = "off"
          /\ \/ Deactivates(Preview) /\ timer' = "waiting"
             \/ DeactivateFails(Preview) /\ UNCHANGED pump /\ timer' = "dead"
    /\ UNCHANGED <<machine, settings, mainVars, stopVars, runtimeVars,
                   context, hooked, subscribers, reader>>

TimerRestarts ==
    /\ timer = "on"
    /\ \/ Restarts(Preview) /\ timer' = "waiting"
       \/ RestartFails(Preview) /\ timer' = "dead"
    /\ UNCHANGED <<machine, settings, mainVars, stopVars, runtimeVars,
                   context, hooked, subscribers, reader>>

\* _publish_video tests, and publishes.
ReaderChecks ==
    /\ reader = "none"
    /\ child[Preview] # NoChild
    /\ ~shutdownStarted /\ context # "down"
    /\ reader' = "publishing"
    /\ UNCHANGED <<machine, settings, mainVars, stopVars, nativeVars, runtimeVars,
                   context, hooked, subscribers, timer>>

ReaderPublishes ==
    /\ reader = "publishing"
    /\ reader' = "none"
    /\ UNCHANGED <<machine, settings, mainVars, stopVars, nativeVars, runtimeVars,
                   context, hooked, subscribers, timer>>

-----------------------------------------------------------------------------
Main ==
    \/ ReadParameters \/ Preflight \/ PrepareDirectory
    \/ CreateControl \/ Listen \/ StartFails
    \/ \E c \in Channels : StartPump(c)
    \/ RegisterHook \/ Subscribe \/ LoopEnds
    \/ AttemptReturns \/ Exit

ShutdownStep ==
    \E t \in Threads : StopAttempt(t) \/ SignalShutdown(t) \/ HooksReturn(t)

ChannelStep ==
    SetRtp \/ RtpRestarts \/ Configure \/ \E c \in Channels : PumpStep(c) \/ ChildDies(c)

PreviewStep ==
    \/ SubscriberComesOrLeaves \/ TimerChecks \/ TimerSets \/ TimerRestarts
    \/ ReaderChecks \/ ReaderPublishes

Next == Main \/ ShutdownStep \/ ChannelStep \/ PreviewStep

Spec == Init /\ [][Next]_vars

\* Main and the threads of ROS go on, and an attempt that is repeated for ever
\* does not fail for ever.  Nothing is assumed of signals, clients, children,
\* subscribers and images, nor that a start which waits for channel.lock has it.
Fairness ==
    /\ WF_vars(\/ Main /\ ~LoopEnds
               \/ SignalShutdown("main")
               \/ \E t \in Threads : StopBegins(t) \/ HooksReturn(t))
    /\ WF_vars(TimerChecks \/ TimerSets)
    /\ WF_vars(ReaderPublishes)
    /\ SF_vars(AttemptReturns /\ main' # main)
    /\ SF_vars(\E t \in Threads : StopNative(t))
    /\ SF_vars(\E t \in Threads : StopReleases(t))

FairSpec == Spec /\ Fairness

-----------------------------------------------------------------------------
TypeOK ==
    /\ started \in BOOLEAN /\ closing \in BOOLEAN /\ hooked \in BOOLEAN
    /\ shutdownStarted \in BOOLEAN /\ subscribers \in BOOLEAN
    /\ lifecycle \in Threads \cup {NoThread}
    /\ attempt \in [Threads -> {"none", "wait", "native", "release", "done"}]
    /\ endpoint \in {"none", "created", "open"}
    /\ pump \in [{Rtp, Preview} -> {"none", "unstarted", "running", "ended"}]
    /\ active \subseteq Channels /\ unfinished \subseteq Channels
    /\ restarting \subseteq active
    /\ context \in {"up", "hooks", "down"}
    /\ timer \in {"none", "waiting", "on", "off", "dead"}
    /\ reader \in {"none", "publishing"}

\* The publisher of the preview is not destroyed while its reader publishes, or
\* while a child may make it publish: whoever takes ROS down, at whatever moment
\* of construction or of another shutdown, and whatever fails
\* (finish_shutdown, the shutdown hook).
PublisherOutlivesPreview ==
    context = "down" => reader = "none" /\ child[Preview] = NoChild

\* When the process ends there is no child, pump or endpoint left, also when the
\* constructor failed before main had the node (node.py, ros1_node.py).
ExitLeavesNothing ==
    main = "exited" =>
        /\ \A c \in Channels : child[c] = NoChild /\ pump[c] = "none"
        /\ endpoint = "none" /\ active = {}

\* The transition lock of a channel is never given back.
ForeverRestarting == \E c \in {Rtp, Preview} : [](c \in restarting)

\* A shutdown that has begun ends with the process, and so do the hooks of ROS:
\* main and the hooks never wait for each other, nor for what was not started
\* (_stop_pumps), but only for a start that waits for ever for a pump's write.
ShutdownEnds ==
    /\ (main \in {"failing", "undo", "finish", "leave"}) ~> (main = "exited" \/ ForeverRestarting)
    /\ (context = "hooks") ~> (context = "down" \/ ForeverRestarting)

\* The preview runs only while somebody subscribes to it: a child nobody watches
\* is stopped, unless a failure has ended the timer (_update_video_consumer) or a
\* start waits for ever.
UnwatchedPreviewStops ==
    (child[Preview] # NoChild /\ ~subscribers) ~>
        \/ child[Preview] = NoChild \/ subscribers
        \/ timer = "dead" \/ ForeverRestarting

\* What a command of FFmpeg names besides the encoder: _ffmpeg_validate_encoder
\* does not ask for it.
Unasked(command) ==
    IF command.program = "ffmpeg"
    THEN {<<"ffmpeg", p[1], p[2]>> : p \in {q \in command.parts : q[1] # "encoder"}}
    ELSE {}

(***************************************************************************)
(* A child runs the command of the settings that are in force, also after  *)
(* they were changed online (configure); of what it needs, all that the    *)
(* preflight asks for was found on this machine, and for GStreamer that is *)
(* everything (validate_runtime); and it takes from its input what the     *)
(* pump writes for one raw image of the source, by the format and the size *)
(* that its own command names, whatever it puts out (_build_command).      *)
(***************************************************************************)
ChildIsAsConfigured ==
    \A c \in Channels : child[c] # NoChild =>
        /\ child[c] = Command(settings, c)
        /\ Needs(child[c]) \ Unasked(child[c]) \subseteq tools
        /\ Takes(child[c]) = PackedFrameBytes(settings)

\* The values of the encoder's profile.
ProfileValues(s) ==
    IF s.backend = "ffmpeg" THEN ToSet(s.arguments)
    ELSE {p[2] : p \in ToSet(s.encoderProperties)}

SameCommand(s, bitrate) == Command(s, Rtp) = Command([s EXCEPT !.bitrate = bitrate], Rtp)

(***************************************************************************)
(* A change of the bitrate that configure() accepts is in the command of   *)
(* the next child (mutable_configuration_fields, _build_command), with two *)
(* exceptions: the text of a custom profile has a marker, but none of its  *)
(* values is one; or all there is are markers of kilobits, and the change  *)
(* is lost in rounding.                                                    *)
(***************************************************************************)
BitrateReachesChild ==
    [][settings'.bitrate # settings.bitrate =>
          \/ ~SameCommand(settings', settings.bitrate)
          \/ /\ settings.quoted # {}
             /\ ProfileValues(settings) \cap {"@bitrate", "@bitrate_kbps"} = {}
          \/ /\ "@bitrate_kbps" \in ProfileValues(settings)
             /\ Kbps(settings'.bitrate) = Kbps(settings.bitrate)]_vars
=============================================================================
