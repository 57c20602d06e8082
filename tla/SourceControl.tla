----------------------------- MODULE SourceControl -----------------------------
(***************************************************************************)
(* The control server of src/ros_image_rtp_adapter/control_socket.py, as   *)
(* the runtime composes it with the RTP channel and with shutdown          *)
(* (runtime.py): requests run on SDK worker threads, one source transition *)
(* at a time; shutdown closes admission, waits for the accepted requests,  *)
(* stops the encoder and only then releases the endpoint.                  *)
(*                                                                         *)
(* The RTP channel is abstracted to what the server, its status and        *)
(* configure() see of it.  It does what ChannelContract allows, as the     *)
(* channel of EncoderChannel does, which has its detail.                   *)
(***************************************************************************)
EXTENDS Naturals, Sequences

CONSTANTS
    Jobs,         \* worker threads of the SDK runtime, one request each
    MaxRevision,  \* bound of the model: configuration revisions
    Owner,        \* the thread that shuts the runtime down
    Pump,         \* the pump thread, which stops a failed encoder on its own
    None

ASSUME ControlConstants ==
    /\ MaxRevision \in Nat \ {0}
    /\ None \notin Jobs \cup {Owner, Pump}
    /\ Owner \notin Jobs \cup {Pump}
    /\ Pump \notin Jobs

VARIABLES
    closing,     \* SourceControlServer._closing: admission is closed
    desired,     \* _desired_active
    lastError,   \* _last_error is not empty
    phase,       \* _phase
    revision,    \* _revision
    transition,  \* holder of _transition
    captureSlot, \* holder of _capture_slots
    at,          \* where each admitted request is
    request,     \* its operation
    expected,    \* its expected_revision
    seen,        \* the native state its status() call read
    accepted,    \* history: the expected_revision of every applied update
    runtimeClosing, \* ImageRtpAdapterRuntime._closing
    active,      \* channel.active of the RTP channel
    running,     \* encoder.running
    owned,       \* the encoder is not stopped: it owns native work
    unfinished,  \* channel.stopping: a stop that has not completed
    native,      \* holder of channel.transition_lock
    pumpAlive,   \* the pump thread has not returned
    owner,       \* where shutdown is
    listening    \* the endpoint lease is held

control == <<closing, desired, lastError, phase, revision, transition, captureSlot, accepted>>
jobs    == <<at, request, expected, seen>>
encoder == <<active, running, owned, unfinished>>
channel == <<encoder, native, pumpAlive>>
process == <<runtimeClosing, owner, listening>>
vars    == <<control, jobs, channel, process>>

Operations == {"start", "stop", "configure", "keyframe", "capture"}

Wanted(j) == request[j] = "start"

FreshServer ==
    /\ closing' = FALSE /\ desired' = FALSE /\ lastError' = FALSE /\ phase' = ""
    /\ revision' = 1 /\ accepted' = <<>>
    /\ transition' = None /\ captureSlot' = None

Init ==
    /\ closing = FALSE /\ desired = FALSE /\ lastError = FALSE /\ phase = ""
    /\ revision = 1 /\ accepted = <<>>
    /\ transition = None /\ captureSlot = None
    /\ at = [j \in Jobs |-> "idle"]
    /\ request = [j \in Jobs |-> "capture"]
    /\ expected = [j \in Jobs |-> 1]
    /\ seen = [j \in Jobs |-> <<FALSE, FALSE>>]
    /\ runtimeClosing = FALSE /\ owner = "idle" /\ listening = TRUE
    /\ active = FALSE /\ running = FALSE /\ owned = FALSE /\ unfinished = FALSE
    /\ native = None /\ pumpAlive = TRUE

Go(j, place) == at' = [at EXCEPT ![j] = place]

\* The request returns or raises; its domain job is no longer counted.
End(j) ==
    /\ at' = [at EXCEPT ![j] = "idle"]
    /\ request' = [request EXCEPT ![j] = "capture"]
    /\ expected' = [expected EXCEPT ![j] = 1]
    /\ seen' = [seen EXCEPT ![j] = <<FALSE, FALSE>>]

\* `state' of _status, when no transition sets the phase.
Faulted(isActive, isRunning) ==
    IF lastError /\ (desired # isActive \/ closing) THEN TRUE
    ELSE ~closing /\ isActive # isRunning

-----------------------------------------------------------------------------
(***************************************************************************)
(* Admission (_domain_operation) and the transition lock with its          *)
(* deadline.                                                               *)
(***************************************************************************)
Admit(j, operation, revisionSeen) ==
    /\ listening
    /\ ~closing
    /\ at[j] = "idle"
    /\ operation # "configure" => revisionSeen = 1
    /\ Go(j, "waiting")
    /\ request' = [request EXCEPT ![j] = operation]
    /\ expected' = [expected EXCEPT ![j] = revisionSeen]
    /\ UNCHANGED <<control, channel, process, seen>>

\* The deadline of the call passes, or it was cancelled before it had the lock.
Deadline(j) ==
    /\ at[j] = "waiting"
    /\ End(j)
    /\ UNCHANGED <<control, channel, process>>

\* Mutant: transitions are not serialised.
TransitionAlwaysFree == TRUE

TransitionFree == transition = None

Acquire(j) ==
    /\ at[j] = "waiting"
    /\ request[j] # "capture"
    /\ TransitionFree
    /\ transition' = j
    /\ Go(j, CASE request[j] = "configure" -> "configure"
               [] request[j] = "keyframe" -> "keyframe"
               [] OTHER -> "decide")
    /\ UNCHANGED <<closing, desired, lastError, phase, revision, captureSlot,
                   accepted, request, expected, seen, channel, process>>

-----------------------------------------------------------------------------
(***************************************************************************)
(* _set_active.                                                            *)
(***************************************************************************)

\* `if not self._closing' is read without the admission lock ...
ReadClosing(j) ==
    /\ at[j] = "decide"
    /\ Go(j, IF closing THEN "call" ELSE "assign")
    /\ UNCHANGED <<control, request, expected, seen, channel, process>>

\* ... and the assignment it guards is a step of its own.
Assign(j) ==
    /\ at[j] = "assign"
    /\ desired' = Wanted(j)
    /\ Go(j, "call")
    /\ UNCHANGED <<closing, lastError, phase, revision, transition, captureSlot,
                   accepted, request, expected, seen, channel, process>>

Call(j) ==
    /\ at[j] = "call"
    /\ phase' = IF Wanted(j) THEN "starting" ELSE "stopping"
    /\ Go(j, "native")
    /\ UNCHANGED <<closing, desired, lastError, revision, transition, captureSlot,
                   accepted, request, expected, seen, channel, process>>

\* The runtime refuses a start while it closes or a stop is unfinished.
NativeRefuses(j) ==
    /\ at[j] = "native"
    /\ native = None
    /\ Wanted(j) /\ (runtimeClosing \/ unfinished)
    /\ Go(j, "failed")
    /\ UNCHANGED <<control, request, expected, seen, channel, process>>

\* What is wanted is so already.
Applied(j) == IF Wanted(j) THEN active /\ running ELSE ~active /\ ~owned

NativeUnchanged(j) ==
    /\ at[j] = "native"
    /\ native = None
    /\ Wanted(j) => ~runtimeClosing /\ ~unfinished
    /\ Applied(j)
    /\ Go(j, "applied")
    /\ UNCHANGED <<control, request, expected, seen, channel, process>>

NativeBegin(j) ==
    /\ at[j] = "native"
    /\ native = None
    /\ Wanted(j) => ~runtimeClosing /\ ~unfinished
    /\ ~Applied(j)
    /\ native' = j
    /\ unfinished' = (unfinished \/ ~Wanted(j))
    /\ Go(j, "applying")
    /\ UNCHANGED <<control, request, expected, seen, active, running, owned, pumpAlive,
                   process>>

Down == active' = FALSE /\ running' = FALSE /\ owned' = FALSE /\ unfinished' = FALSE

NativeApplies(j) ==
    /\ at[j] = "applying"
    /\ native' = None
    /\ IF Wanted(j)
       THEN active' = TRUE /\ running' = TRUE /\ owned' = TRUE /\ UNCHANGED unfinished
       ELSE Down
    /\ Go(j, "applied")
    /\ UNCHANGED <<control, request, expected, seen, pumpAlive, process>>

\* Mutant: a stop that failed is not remembered.
StopForgets ==
    /\ running' \in {running, FALSE}
    /\ owned' \in BOOLEAN
    /\ running' => owned'
    /\ active \/ owned'
    /\ unfinished' = FALSE
    /\ UNCHANGED active

\* A stop that failed stays unfinished.  What it owns is kept, or only the
\* writer of an active channel did not leave in time.
StopGivesUp ==
    /\ running' \in {running, FALSE}
    /\ owned' \in BOOLEAN
    /\ running' => owned'
    /\ active \/ owned'
    /\ UNCHANGED <<active, unfinished>>

\* A failed start leaves active what was active; its child is stopped, unless
\* that failed too.
NativeFails(j) ==
    /\ at[j] = "applying"
    /\ native' = None
    /\ IF Wanted(j)
       THEN /\ running' \in BOOLEAN /\ owned' \in BOOLEAN
            /\ running' => owned'
            /\ UNCHANGED <<active, unfinished>>
       ELSE StopGivesUp
    /\ Go(j, "failed")
    /\ UNCHANGED <<control, request, expected, seen, pumpAlive, process>>

\* The phase is over; the status of the channel is read for the receipt.
ReadStatus(j) ==
    /\ at[j] = "applied"
    /\ phase' = ""
    /\ seen' = [seen EXCEPT ![j] = <<active, running>>]
    /\ Go(j, "judge")
    /\ UNCHANGED <<closing, desired, lastError, revision, transition, captureSlot,
                   accepted, request, expected, channel, process>>

Judge(j) ==
    /\ at[j] = "judge"
    /\ Go(j, IF seen[j][1] # Wanted(j) \/ Faulted(seen[j][1], seen[j][2])
             THEN "failed" ELSE "receipt")
    /\ UNCHANGED <<control, request, expected, seen, channel, process>>

SetActiveEnds(j, error) ==
    /\ lastError' = error
    /\ phase' = ""
    /\ transition' = None
    /\ End(j)
    /\ UNCHANGED <<closing, desired, revision, captureSlot, accepted, channel, process>>

\* completion: applied
Receipt(j) == at[j] = "receipt" /\ SetActiveEnds(j, FALSE)

Failed(j) == at[j] = "failed" /\ SetActiveEnds(j, TRUE)

-----------------------------------------------------------------------------
(***************************************************************************)
(* _configure and _capture.                                                *)
(***************************************************************************)
\* _configure raises, at any point before it has applied.  _keyframe always
\* does: the encoder's input is a pipe.
RequestRaises(j) ==
    /\ at[j] \in {"configure", "reconfigure", "keyframe"}
    /\ transition' = None
    /\ native' = IF native = j THEN None ELSE native
    /\ End(j)
    /\ UNCHANGED <<closing, desired, lastError, phase, revision, captureSlot,
                   accepted, encoder, pumpAlive, process>>

\* Mutant: the expected revision is not compared.
AnyRevision(j) == TRUE

RevisionIsCurrent(j) == expected[j] = revision

\* Mutant: a child that an inactive channel still owns is not noticed.
RtpInactive == ~active /\ ~unfinished

RtpIdle == ~active /\ ~unfinished /\ ~owned

\* The revision still is the one the client read, and the RTP channel is idle:
\* the runtime holds the channel's transition lock from here.
ConfigureBegin(j) ==
    /\ at[j] = "configure"
    /\ RevisionIsCurrent(j)
    /\ native = None
    /\ ~runtimeClosing /\ RtpIdle
    /\ native' = j
    /\ Go(j, "reconfigure")
    /\ UNCHANGED <<control, request, expected, seen, encoder, pumpAlive, process>>

\* The new encoder passed its preflight and replaced the old one.
ConfigureApplies(j) ==
    /\ at[j] = "reconfigure"
    /\ revision < MaxRevision
    /\ native' = None
    /\ accepted' = Append(accepted, expected[j])
    /\ Go(j, "bump")
    /\ UNCHANGED <<closing, desired, lastError, phase, revision, transition,
                   captureSlot, request, expected, seen, encoder, pumpAlive, process>>

BumpRevision(j) ==
    /\ at[j] = "bump"
    /\ revision' = revision + 1
    /\ transition' = None
    /\ End(j)
    /\ UNCHANGED <<closing, desired, lastError, phase, captureSlot, accepted,
                   channel, process>>

\* One capture at a time; another is refused at once, with no effect.
CaptureBegin(j) ==
    /\ at[j] = "waiting"
    /\ request[j] = "capture"
    /\ captureSlot = None
    /\ captureSlot' = j
    /\ Go(j, "capturing")
    /\ UNCHANGED <<closing, desired, lastError, phase, revision, transition,
                   accepted, request, expected, seen, channel, process>>

\* The capture is answered, or fails.
CaptureEnds(j) ==
    /\ at[j] = "capturing"
    /\ captureSlot' = None
    /\ End(j)
    /\ UNCHANGED <<closing, desired, lastError, phase, revision, transition,
                   accepted, channel, process>>

-----------------------------------------------------------------------------
(***************************************************************************)
(* What the RTP channel does of itself: its child dies, its pump replaces  *)
(* the child, or stops it for good after a failure.                        *)
(***************************************************************************)
ChildDies ==
    /\ running
    /\ running' = FALSE
    /\ UNCHANGED <<control, jobs, active, owned, unfinished, native, pumpAlive, process>>

\* A restart in progress may still complete while a stop begins, not after one
\* has failed.  If the launch fails, nothing is owned any more.
PumpRestarts ==
    /\ pumpAlive /\ active /\ owned /\ ~running
    /\ unfinished => native # None
    /\ running' \in BOOLEAN
    /\ owned' = running'
    /\ UNCHANGED <<control, jobs, active, unfinished, native, pumpAlive, process>>

\* Its write raised.  By then another caller may have stopped the channel.
PumpStopBegins ==
    /\ pumpAlive /\ (active \/ owned)
    /\ native = None
    /\ native' = Pump
    /\ unfinished' = TRUE
    /\ UNCHANGED <<control, jobs, active, running, owned, pumpAlive, process>>

\* Mutant: the transition lock is kept by a stop that failed.
LockAfter(ended) == IF ended THEN None ELSE Pump

Unlocked(ended) == None

\* The thread returns when its own stop failed.
PumpStopEnds ==
    /\ native = Pump
    /\ pumpAlive
    /\ \E ended \in BOOLEAN :
          /\ pumpAlive' = ended
          /\ native' = Unlocked(ended)
          /\ IF ended THEN Down ELSE StopGivesUp
    /\ UNCHANGED <<control, jobs, process>>

-----------------------------------------------------------------------------
(***************************************************************************)
(* stop() of the runtime, retried until it succeeds.                       *)
(***************************************************************************)
ShutdownBegin ==
    /\ owner = "idle"
    /\ runtimeClosing' = TRUE
    /\ owner' = "admission"
    /\ UNCHANGED <<control, jobs, channel, listening>>

BeginClose ==
    /\ owner = "admission"
    /\ closing' = TRUE
    /\ desired' = FALSE
    /\ owner' = "quiesce"
    /\ UNCHANGED <<lastError, phase, revision, transition, captureSlot, accepted,
                   jobs, channel, runtimeClosing, listening>>

WaitQuiescent ==
    /\ owner = "quiesce"
    /\ \A j \in Jobs : at[j] = "idle"
    /\ owner' = "deactivate"
    /\ UNCHANGED <<control, jobs, channel, runtimeClosing, listening>>

StopPumps ==
    /\ owner = "deactivate"
    /\ native = None
    /\ native' = Owner
    /\ unfinished' = TRUE
    /\ owner' = "stopping"
    /\ UNCHANGED <<control, jobs, active, running, owned, pumpAlive, runtimeClosing,
                   listening>>

\* Mutant: the encoder is not asked whether it really stopped.
DownUnchecked == active' = FALSE /\ unfinished' = FALSE /\ UNCHANGED <<running, owned>>

DownChecked == Down

\* Every channel is down, and its pump thread has been joined.
NativeDown ==
    /\ owner = "stopping"
    /\ native' = None
    /\ DownChecked
    /\ pumpAlive' = FALSE
    /\ owner' = "release"
    /\ UNCHANGED <<control, jobs, runtimeClosing, listening>>

\* A deadline passed or the native stop failed: close_failed, and a retry.
ShutdownFails ==
    /\ \/ owner = "quiesce" /\ \E j \in Jobs : at[j] # "idle"
       \/ owner = "deactivate" /\ native # None
       \/ owner = "stopping"
       \/ owner = "release"
    /\ native' = IF native = Owner THEN None ELSE native
    /\ IF owner = "stopping" THEN StopGivesUp ELSE UNCHANGED encoder
    /\ lastError' = TRUE
    /\ owner' = "idle"
    /\ UNCHANGED <<closing, desired, phase, revision, transition, captureSlot,
                   accepted, jobs, pumpAlive, runtimeClosing, listening>>

ReleaseEndpoint ==
    /\ owner = "release"
    /\ listening' = FALSE
    /\ owner' = "finished"
    /\ UNCHANGED <<control, jobs, channel, runtimeClosing>>

\* start() after a completed stop(): a new control server.
RuntimeStart ==
    /\ owner = "finished"
    /\ runtimeClosing' = FALSE
    /\ listening' = TRUE
    /\ owner' = "idle"
    /\ FreshServer
    /\ pumpAlive' = TRUE
    /\ UNCHANGED <<jobs, encoder, native>>

-----------------------------------------------------------------------------
SetActive(j) ==
    \/ Acquire(j) \/ ReadClosing(j) \/ Assign(j) \/ Call(j)
    \/ NativeRefuses(j) \/ NativeUnchanged(j) \/ NativeBegin(j) \/ NativeApplies(j) \/ NativeFails(j)
    \/ ReadStatus(j) \/ Judge(j) \/ Receipt(j) \/ Failed(j)

Configure(j) ==
    ConfigureBegin(j) \/ ConfigureApplies(j) \/ RequestRaises(j) \/ BumpRevision(j)

Capture(j) == CaptureBegin(j) \/ CaptureEnds(j)

JobStep(j) == Deadline(j) \/ SetActive(j) \/ Configure(j) \/ Capture(j)

ChannelStep == ChildDies \/ PumpRestarts \/ PumpStopBegins \/ PumpStopEnds

Shutdown ==
    \/ ShutdownBegin \/ BeginClose \/ WaitQuiescent \/ StopPumps \/ NativeDown
    \/ ShutdownFails \/ ReleaseEndpoint

Next ==
    \/ \E j \in Jobs : \/ \E operation \in Operations, r \in 1 .. revision :
                              Admit(j, operation, r)
                       \/ JobStep(j)
    \/ ChannelStep
    \/ Shutdown
    \/ RuntimeStart

Spec == Init /\ [][Next]_vars

(***************************************************************************)
(* Fairness.  A worker thread goes on with its request, but for the two    *)
(* waits without a deadline that may last: the start of a channel that is  *)
(* active already waits for the write of its pump (channel.lock), and      *)
(* configure for whoever has transition_lock.  Every other wait has a      *)
(* deadline or is a guard here; so has the pump's inside its own stop.     *)
(***************************************************************************)
WaitsForWriter(j) == at[j] = "applying" /\ Wanted(j) /\ active

WaitsForTransition(j) == at[j] = "configure" /\ native # None

FairSpec ==
    /\ Spec
    /\ \A j \in Jobs : WF_vars(~WaitsForWriter(j) /\ ~WaitsForTransition(j) /\ JobStep(j))
    /\ WF_vars(PumpStopEnds)

-----------------------------------------------------------------------------
TypeOK ==
    /\ closing \in BOOLEAN /\ desired \in BOOLEAN /\ lastError \in BOOLEAN
    /\ phase \in {"", "starting", "stopping"}
    /\ revision \in 1 .. MaxRevision
    /\ transition \in Jobs \cup {None}
    /\ captureSlot \in Jobs \cup {None}
    /\ at \in [Jobs -> {"idle", "waiting", "decide", "assign", "call", "native",
                        "applying", "applied", "judge", "receipt", "failed",
                        "configure", "reconfigure", "bump", "keyframe", "capturing"}]
    /\ request \in [Jobs -> Operations]
    /\ expected \in [Jobs -> 1 .. MaxRevision]
    /\ seen \in [Jobs -> BOOLEAN \X BOOLEAN]
    /\ accepted \in Seq(1 .. MaxRevision)
    /\ runtimeClosing \in BOOLEAN /\ listening \in BOOLEAN
    /\ active \in BOOLEAN /\ running \in BOOLEAN /\ owned \in BOOLEAN /\ unfinished \in BOOLEAN
    /\ pumpAlive \in BOOLEAN
    /\ native \in Jobs \cup {Owner, Pump, None}
    /\ owner \in {"idle", "admission", "quiesce", "deactivate", "stopping",
                  "release", "finished"}

(***************************************************************************)
(* No lost update (control_socket.py:229-234): configurations are applied  *)
(* one per revision, in order.  Two clients that read the same revision do *)
(* not both apply theirs, although the check, the native change and the    *)
(* increment are separate steps.                                           *)
(***************************************************************************)
NoLostUpdate ==
    \A i \in 1 .. Len(accepted) : accepted[i] = i

(***************************************************************************)
(* completion:applied is only sent when the native state matches           *)
(* (README.md:94-96): when a stop is about to be receipted the channel is  *)
(* inactive, its child is gone and no stop is unfinished, whatever other   *)
(* requests, the pump and the shutdown do meanwhile.                       *)
(***************************************************************************)
StopReceiptIsTrue ==
    \A j \in Jobs : at[j] = "receipt" /\ request[j] = "stop" =>
        ~active /\ ~owned /\ ~running /\ ~unfinished

(***************************************************************************)
(* The endpoint lease outlives native work (runtime.py:276-282, README.md  *)
(* 96-98): once shutdown found the server quiescent, no request works on   *)
(* the source and none begins to, until a new server                       *)
(* (control_socket.py:137-146); and when the endpoint is released the      *)
(* channel is down.                                                        *)
(***************************************************************************)
EndpointOutlivesNative ==
    /\ ~listening \/ owner \in {"deactivate", "stopping", "release", "finished"} =>
          \A j \in Jobs : at[j] = "idle"
    /\ ~listening => ~active /\ ~owned /\ ~running /\ ~unfinished

(***************************************************************************)
(* configure() replaces the encoder object (runtime.py:342-362): the one   *)
(* that is dropped owns no child that nobody could stop any more, also     *)
(* when a start of an inactive channel failed and could not be undone.     *)
(***************************************************************************)
NothingOrphaned ==
    [][accepted' # accepted /\ Len(accepted') > Len(accepted) =>
           ~active /\ ~owned /\ ~running]_vars

Operation ==
    IF native \in Jobs /\ at[native] = "applying" /\ Wanted(native) THEN "start"
    ELSE IF native \in {Owner, Pump} \/ (native \in Jobs /\ at[native] = "applying")
    THEN "stop"
    ELSE "none"

Contract == INSTANCE ChannelContract WITH
    op <- Operation,
    closing <- runtimeClosing

(***************************************************************************)
(* The channel of this module does only what ChannelContract allows, which *)
(* the detailed channel is shown to implement: what is concluded here      *)
(* rests on nothing the real channel does not keep.                        *)
(***************************************************************************)
UsesChannelContract == Contract!Spec

\* An accepted request ends, whatever the others do, so that its caller gets an
\* answer and wait_quiescent can succeed: unless a client's start of a channel
\* that was active already (runtime.py:419) waits for ever for the pump's write.
RequestsEndUnlessStarting ==
    \A j \in Jobs :
        (at[j] # "idle") ~> (at[j] = "idle" \/ \E k \in Jobs : []WaitsForWriter(k))

\* While shutdown is under way the source is not wanted any more
\* (test/test_source_control.py:536-538, control_socket.py:255).
ClosingClearsDesired ==
    closing => ~desired
=============================================================================
