# A verification project for the ROS image RTP adapter

The adapter takes images from a ROS topic and feeds them to encoder child
processes: one child per consumer, an RTP stream for Media Edge and, in ROS 1,
an H.264 preview topic. Media Edge switches the stream on and off, configures
it and captures snapshots over a local control socket. The hard part of the
program is ownership: threads, pipes and processes that block, crash or refuse
to die, which must be started and stopped by several callers at once without
ever being leaked, doubled or forgotten.

This directory holds TLA+ models of that program, the TLC configurations that
check them, and proofs that TLAPS checks. `PROJECT.json` lists the components,
runs, mutants, hazards and theorems, and maps every definition to the lines it
translates. Line numbers in the modules are those of the files under `src/`.

    tlc -workers 2 -config SubprocessEncoder.cfg MCSubprocessEncoder
    tlapm SubprocessEncoderProofs.tla

## 1. Inventory

### 1.1 Components

| component | code | state it keeps | operations |
| --- | --- | --- | --- |
| encoder child | `encoder.py:108-356` | `_proc`, `_readers`, `_stopping`, `_stop_generation`, three locks | `start`, `stop`, `write_frame` and its restart, reader threads |
| preview output | `encoder.py:505-637` | `_source_stamps`, the callback | `_before_write`, `_before_launch`, `_drain_access_units` |
| access unit parser | `h264.py` | `_buffer`, `_scan_from`, `_unit_started` | `feed`, `finish` |
| channel | `runtime.py:89-116, 376-431, 536-573` | `active`, `stopping`, the queue, two locks, a pump thread | `set_active`, `set_video_active`, `_deactivate`, the pump |
| frame queues, snapshots | `runtime.py:504-534, 583-643` | `pending`, `pending_bytes`, counters, `_latest`, one condition variable | `_enqueue`, `_pump_channel`, `snapshot_capture` |
| runtime | `runtime.py:230-321, 326-362` | `_started`, `_closing`, `_pump_stop`, settings | `start`, `stop`, `configure` |
| control server | `control_socket.py` | `_closing`, `_domain_jobs`, `_transition`, `_capture_slots`, `_revision`, `_desired_active`, `_last_error` | start, stop, config, keyframe, capture, status, `begin_close`, `wait_quiescent` |
| roster writer | `scripts/write_media_edge_source_roster.py` | a file and its temporary file | `write_source_roster` |
| nodes | `node.py`, `ros1_node.py` | the runtime, the ROS context, `_shutdown_started` | construction, the shutdown hook, the demand timer, the preview publisher, `destroy_node`, `shutdown`, `main` |
| images | `frames.py`, `runtime.py:434-502` | none | checks of a JPEG and of a raw image, packing of raw rows, conversions |
| settings | `settings.py` | the control directory | validation, what may be changed online, the control directory |
| command lines | `encoder.py:359-504, 639-920` | none | arguments of ffmpeg and gst-launch, the preflight |

### 1.2 How they interact

- A worker thread of the control server or a ROS timer calls `set_active` of
  the runtime, which takes the channel's `transition_lock` and calls the
  encoder. The pump calls `write_frame` under `channel.lock`, and the same
  `set_active(False)` when a write raises.
- ROS callbacks append to the queues of all active channels under one
  condition variable. Pumps and waiting captures sleep on it.
- The encoder's reader threads run beside all this; the preview's publishes
  access units through a callback.
- Shutdown closes the runtime and then the server, waits until no request is
  left, stops encoders and pumps, and releases the endpoint last. Each wait
  has a deadline and the whole is retried.
- Who calls it differs: `main` after a signal, the constructor that failed, and
  in ROS 1 the thread in which ROS itself shuts down, through a hook. The ROS
  context, with the publisher of the preview, must outlive all of them.
- Settings become the command of the next child; a configuration replaces them,
  and the encoder built from them, while the channel is idle. The preflight has
  asked the machine for what the commands need, once.

### 1.3 What is hard

Three locks in the encoder, two in the channel, one in the server and one
condition variable, with a strict idea of which of them may be waited for while
which is held; children that stall, so that a writer blocks for ever unless
somebody terminates its child; children that crash, so that the writer restarts
them while somebody else stops them; system calls that fail half way through a
teardown; deadlines and retries; images and timestamps that travel apart. The
`hazards` of `PROJECT.json` list where each of these bites.

### 1.4 What makes each part correct

- **encoder child**: at most one child and its readers; `stopped` only after
  all native work ended; a pending stop is never answered with a new child; a
  failed teardown is kept until a later stop; a stop frees the writer of a
  stalled child; every call returns.
- **preview output**: an access unit is published with the stamp of the image
  it encodes, in order, at most once, and not after a completed stop.
- **parser**: the units depend on the stream, not on the reads; an exact bound.
- **channel**: `start` and `stop` of its encoder never overlap; an inactive
  channel is quiet; no image from before the activation; shutdown leaves
  nothing behind and releases a stuck pump.
- **queues**: both limits, the newest images, exact counters, no lost wakeup.
- **control server**: compare-and-set of the revision; a receipt only for what
  is applied; no work after quiescence; the endpoint outlives native work.
- **roster**: whole and durable at every moment, no litter.
- **nodes**: the publisher outlives what publishes; whatever fails in the
  constructor and whoever shuts down, the process ends and leaves nothing.
- **images**: what reaches the pipe of a raw child is one image, whole; what was
  admitted can be captured.
- **settings, command lines**: a child runs the command of the settings in
  force, on a machine that has what it needs; an accepted change has an effect.
  Both hold with exceptions, which the properties name (section 3.3).

## 2. Modules

| module | what it is |
| --- | --- |
| `SubprocessEncoder` | the encoder child: threads, locks, readers, child, operating system |
| `EncoderContract` | what it promises: ownership and native work, without locks or threads |
| `EncoderRefinement` | the mapping from the first to the second |
| `SubprocessEncoderProofs` | theorems about the encoder and its contract |
| `EncoderChannelProofs`, `SourceControlProofs`, `FrameQueueProofs`, `PreviewOutputProofs`, `SourceNodeProofs`, `SourceRosterProofs`, `AnnexBAccessUnitsProofs` | theorems about the module each is named after |
| `PreviewOutput` | extends each step of `SubprocessEncoder` with the stamps and the pipes of the preview |
| `EncoderChannel` | composes `SubprocessEncoder` with the channel, its clients, its pump and shutdown |
| `ChannelContract` | what a channel promises to those who switch it on and off |
| `SourceControl` | the control server over a channel that keeps that promise, with shutdown |
| `ImageFormat` | operators: the checks of an image, the packing of raw rows, the answer of a capture |
| `FrameQueue` | queues, pumps, captures and the condition variable they share, over `ImageFormat` |
| `AnnexBAccessUnits` | the parser |
| `EncoderCommand` | operators: from settings to the commands of the children |
| `SourceNode` | the process from its parameters to its exit, over `EncoderCommand` |
| `SourceRoster` | the roster writer |
| `MC...` | values of the constants and symmetry for TLC |

Each module takes the finest view of its own subject and leaves out what another
one has: `FrameQueue` has no encoder, `SourceControl` no locks of the encoder,
`EncoderChannel` no bytes, `SourceNode` no queues, and a switch of a channel is
one step there. Two contracts join them: `EncoderContract`, which
`SubprocessEncoder` implements, and `ChannelContract`, which is guaranteed by
`EncoderChannel` around the real encoder and assumed by `SourceControl`.

### 2.1 `SubprocessEncoder`

`proc`, `recorded`, `stopping` are `_proc`, `_readers`, `_stopping`; `lifecycle`
and `writeLock` are the holders of two locks. A section under `_state_lock` is
one step: nothing blocks in it, except the launch of a child, which nobody else
can observe half done because every reader of the state takes that lock.
`current` holds the threads whose local `generation` still equals
`_stop_generation`; the code only ever compares for equality. `child` and
`reading` are what the operating system knows: children that are live, have been
sent SIGTERM and lost their stdin (`closing`), were killed, or exited, and reader
threads that really run. A reader whose thread could not be started is recorded
and does not run.

- `start`: `StartCall`, then `StartLaunch`, `StartUnchanged` or `StartRestart`;
  it raises when the lifecycle lock is taken or the encoder is closed, which
  changes nothing.
- `stop`: `StopCall`, `StopAcquire` or `StopTimeout`, the stages of
  `_finish_stop` (`Terminate`, `Kill`, `Reap`, `DrainWriter`, `JoinReaders`,
  each of which may raise in `FinishRaises`), `StopClear`.
- `write_frame`: `WriteCall`, `BeforeWrite`, then `WriteDone` or `WriteFails`,
  and after a failure `RestartAcquire` and a restart that shares the stages
  above. A write that is skipped because the encoder is closed is a no-op.
- `Serialized` chooses callers that hold a lock of their own around `start` and
  `stop`, as the runtime does.

### 2.2 `EncoderContract`, `EncoderRefinement`

The contract has an owner, the set of native activities that have not ended
(the child itself, each reader, a writer) and whether the encoder is closed.
Its point is in `Allocate` and `Release`: ownership begins, changes hands and
ends only when no activity is left. The mapping takes `owner = proc`,
`closed = stopping`, and `work` from the state of the operating system and the
position of the writers.

### 2.3 `EncoderChannel`

Extends `SubprocessEncoder` with `Serialized = FALSE`: every step of a thread
inside an encoder call is a step of that module, and whether the calls overlap
is decided by the model of the channel's locks. `at` is the position of a client,
the pump or the thread that shuts down in `_set_channel_active`, `_deactivate`,
`_run_channel_pump` and `stop`. Whether an encoder call failed is read from the
encoder's state when it returns. `wait_quiescent` is not assumed here, so that
clients may still be active while shutdown stops the channel, which allows more
behaviours than the program. A failed attempt is retried (`finish_shutdown`),
and the runtime may be started again after it stopped.

### 2.4 `FrameQueue`, `ImageFormat`

An image is a record of what the checks can tell of it: its type, size and
geometry, and for a JPEG whether it is framed, verifies and decodes. The bytes of
a raw image are their positions in the message, so that `Packed` (the rows
without their padding) can be compared, position by position, with what the
child has to get. What Pillow computes is Pillow's; that it fails, and how long
its results are, are choices.

`Submit` is `submit_compressed` or `submit_raw` with every check, and `_enqueue`
with both limits; an image that is refused changes nothing. The two ways of
leaving a queue are the pump and the stop of the channel. A sleeping pump or
capture wakes through `NotifyAll` or, a capture, at its deadline; a capture takes
an image under the lock and converts and judges it outside (`CaptureConverts`).
`_pump_stop` is set outside the lock (`SetPumpStop`) and announced under it
(`NotifyPumps`), as in the code; `frames_out` is counted after the write, when a
stop may be through already. Without `require_jpeg` the checks of a JPEG would be
skipped; `settings.py` admits no such source.

### 2.5 `PreviewOutput`

An image is its number, which stands for its stamp. `input` and `output` are
what is in the pipes and the codec of each child. The child is external: it is
assumed to emit one unit per whole image, in order, as `-vsync 0 -bf 0` ask of
it, and to lose what it had not written when it exits. Every step of the
encoder's lifecycle is in the model, so that stamps, units and readers of a
replaced child are.

### 2.6 `SourceControl`, `ChannelContract`

A request of the server takes the steps of `_domain_operation`, the transition
lock with its deadline, and then of `_set_active` (where the test of `_closing`
and the assignment of `_desired_active` are two steps), `_configure`, keyframe or
`_capture` (which has a slot of its own and no transition lock). The RTP channel
is four flags and its transition lock; its pump stops it after a failed write,
its child dies at any time, and a failed start or stop may leave the encoder
owning native work (`owned`). `configure` takes the transition lock of the
channel, tests that it is idle, and replaces the encoder object, so that
`NothingOrphaned` can say what must not be replaced. Shutdown follows `stop` of
the runtime: close, wait for quiescence, stop the pumps, release the endpoint;
each may fail, and is retried. A new start creates a new server.

`ChannelContract` has one transition at a time, a start only when nothing is
closing or unfinished, an unfinished stop that only a successful stop ends, and
no child after it. `EncoderChannel` maps its locks, threads and children to it
(`ImplementsChannel`), `SourceControl` its flags (`UsesChannelContract`).

### 2.7 `AnnexBAccessUnits`, `SourceRoster`

The parser's loop is `Scanned`: as many turns (`Turn`) as a buffer can need,
written as a recursive function; that the number is enough is a theorem
(`LoopEnds`). What it returned is compared with definitions that look at the
whole stream at once (`ClosedUnits`, `AllUnits`).
The roster's file system is external: names, contents that are synced or not,
and a loss of power that may bring back any version since the last sync of the
directory and loses content that was not synced.

### 2.8 `SourceNode`, `EncoderCommand`

`main` is the position of the program: parameters, preflight, control directory,
server, pumps, listener, hook, subscription, loop; each may fail, and what is
then undone is the code's (`StartFails`, `Undone`). An attempt of `stop` is
`StopBegins`, `StopNative`, `StopReleases`, by `main` or, in ROS 1, by the thread
in which ROS shuts down, and is repeated after a failure. A pump whose thread
could not be started is `unstarted`: joining it would raise. A switch of a channel
is one step, except where it may wait without a deadline: a start of an active
channel whose child died waits for `channel.lock` with the transition lock in its
hands (`StartWaits`, then `Restarts` or `RestartFails`), and what else needs the
transition lock waits for it (`Free`). A start that fails may leave the child it
launched (`AfterFailedStart`), when `encoder.stop()` raises as well. The demand timer
reads the subscribers in one step and sets the channel in another, and dies of
an exception. The reader tests and publishes in two steps. rospy is external:
hooks run before publishers are destroyed, a hook that comes too late is called
at once.

Settings are the fields that tell commands apart. `Command` gives the program, the
parts of it that the command names (elements of GStreamer; encoder, decoder,
filters, demuxer, muxer, bitstream filters and protocols of FFmpeg), the arguments
with their markers replaced, and the format and size of the images that the child
is told to read. `Needs` is what the command uses of the machine, written from the
command alone; `Inspected` is what the preflight asks for. `PackedFrameBytes` is
what the pump writes for an image, `Takes` what a program takes for one, computed
from the name of the format in the command. The values of the profile and the
bitrate markers quoted in its text (`quoted`) are separate fields: the code searches
the text, where a marker may be part of a longer argument or belong to a key that a
later one of the same name overrides, while the command has the values.

## 3. Runs

| run | instance | distinct states | what it shows |
| --- | --- | --- | --- |
| `SubprocessEncoder` | 2 controllers, one of them the pump, 2 writers, 4 children, failing system calls, fair | 45 thousand | single ownership, quiescence, no launch under a pending stop, recovery by stop alone, the contract, a stop frees the writer, every stop returns |
| `PreviewOutput` | 1 controller, 1 writer, 3 children, 4 images, 2 waiting stamps | 209 thousand | units and stamps stay paired and ordered; nothing published after a stop |
| `EncoderChannel_safety` | 2 clients, pump, shutdown, 3 children, queue of 2, 3 images, failing system calls | 652 thousand | callers are serialised; an inactive channel is quiet; no stale image; shutdown is complete; the channel contract is implemented |
| `EncoderChannel_live` | 1 client, pump, shutdown, fair | 154 thousand | shutdown releases a stuck pump, and every attempt ends |
| `FrameQueue` | 1 channel, 1 capture, 19 images of 1 x 2 pixels, limits 2 images and 8 bytes, 4 images accepted, fair | 329 thousand | limits and newest run, counters, whole raw frames, captures, no lost wakeup |
| `SourceControl` | 2 requests at a time, 3 revisions, fair | 221 thousand | revisions, receipts, no replaced encoder that owns a child, endpoint, the channel contract is kept to, a request only lasts behind a start that waits for ever |
| `AnnexBAccessUnits` | streams of up to 13 bytes over 0, 1, 9, at most 4 of them not 0, bound 8 | 414 thousand | units do not depend on reads; exact bound |
| `SourceRoster` | 3 writers, 3 names, 2 attempts, 2 losses of power | 17 thousand | the roster is whole, durable, without litter |
| `SourceNode` | ROS 1 and ROS 2, 8 settings (2 invalid), machines that lack at most one thing, 2 bitrates, fair | 79 thousand | the publisher outlives the preview, nothing is left at exit, commands fit settings, preflight and input, a bitrate has effect, shutdown ends, an unwatched preview stops |

Three runs show a disagreement between the code and what the repository says of
it; each checks one property and TLC finds it violated (`findings` has the
quotations):

- `SourceControl_desired`: a start that tested `_closing` before `begin_close`
  sets `desired_active` after it.
- `EncoderChannel_pumpless`: after the pump's own stop has failed, the channel
  can become active again without a pump.
- `EncoderChannel_stalled`: a client that enables a channel whose child has just
  died waits for `channel.lock` with the transition lock in its hands; if the
  restarted child stalls, no shutdown ever gets to terminate it. The passing
  counterpart, `ShutdownReleasesPumpUnlessStarting`, excludes just that client.

### 3.1 Bounds

- *Children.* A child is forgotten when the encoder no longer owns it and it
  and its readers are gone; its identity is then used again. So three or four
  identities do not bound the number of launches: behaviours have any number of
  crashes and restarts, and the identities suffice for all children that can
  exist side by side, including the one a faulty version would leak.
- *Threads.* Two callers contend for every lock, and the pump is in both roles;
  in the channel two clients, the pump and shutdown. Calls repeat for ever.
- *Images.* `MaxFrames` bounds the images of a behaviour, since each has its own
  number. It exceeds the depth of the queue, or the limit of waiting stamps, by
  at least one, so that every limit is hit.
- *Shapes of images.* In `FrameQueue` the good images are JPEGs of 4 and 6 bytes
  and raw images of 2 bytes, packed or padded: two of 4 bytes fill both limits,
  one of 6 bytes makes room for itself by dropping two. There is one more image
  for every reason to refuse one, and one that passes the checks and does not
  decode.
- *Channels.* `FrameQueue` runs with one channel: two share nothing but the
  images and the notifications.
- *Requests.* A request that ended may be made again, so that two at a time give
  every sequence of pairs. `MaxRevision` = 3 lets a revision be raised twice, so
  that a stale update can meet one that was applied.
- *Parser.* 13 bytes, four of them not 0 (`MaxMarks`), hold two long delimiters,
  or units over the bound of 8; a read may take any number of the bytes that are there.
- *Roster.* Two attempts give one collision. The file system starts without
  temporary files; the files of killed writers stay.

- *Settings.* The default, both backends with raw and JPEG input, profiles with
  and without markers, one whose only marker is quoted inside a longer argument, a
  second FFmpeg codec, a filter of the profile's own, and two that are invalid. One
  port and two bitrates are configured: a port is one more field of the same kind.
  The GStreamer settings start from a third bitrate, which differs from one of the
  two by less than half a kilobit.
- *Machines.* One has everything, one each lacks a single thing that the preflight
  asks for, and one lacks the filter `hflip`, for which it does not ask.

Deadlock is checked wherever the system goes on for ever. The parser, the roster
writers and the process of `SourceNode` end, and their configurations say so.

### 3.2 Fairness

Safety properties assume none. The liveness properties assume what the code's
own deadlines and locks give: a thread inside a call goes on when it can, because
its waits have deadlines, except two kinds that are named below; a child
that was sent SIGKILL dies; a write into the pipe of a dead child fails; a
thread that was notified runs; `finish_shutdown` tries again. Nothing is
assumed of a live child (it may stall for ever), of a write into it, of the
clients, of the images, and of the deadline of a capture, whose passing would
hide a lost wakeup.

Two locks are waited for without a deadline: `transition_lock` (`runtime.py:342,
410`) and `channel.lock` (`350, 419`). `EncoderChannel` has the holders of these
locks as threads: a waiter goes on once the lock is free, and nothing is assumed of
a holder inside a write. The modules without those threads do not let the waits end
by fairness:

- In `SourceControl` no fairness is assumed of a request that waits for
  `channel.lock` (`WaitsForWriter`), which a stalled write may hold for ever, nor of a
  configuration that waits for a transition lock that is taken (`WaitsForTransition`).
  So
  `RequestsEndUnlessStarting` says that an admitted request ends, or that some start
  waits for `channel.lock` for ever, which is the state that `EncoderChannel_stalled`
  reaches. That a request always ends is false, and TLC refutes it under this
  fairness.
- In `SourceNode` no fairness is assumed of `Restarts` and `RestartFails`, neither
  for a client nor for the demand timer. `ShutdownEnds` and `UnwatchedPreviewStops`
  hold unless such a start waits for ever (`ForeverRestarting`): then shutdown
  retries without end, and the timer does not see that the subscribers left.

Otherwise in `SourceNode` `main` and the thread of ROS go on, the timer and the
reader run, and a stop, a release or a `destroy_node` that is repeated for ever does
not fail for ever (strong fairness of its success): this is what `finish_shutdown`
waits for. Nothing is assumed there of signals, clients, children and subscribers.

### 3.3 Exceptions that the properties name

Two properties of `SourceNode` are weaker than the text of the package suggests,
by what the code really does:

- *Preflight.* `README.md:71` of the package says that backend capabilities are
  preflighted during readiness. For GStreamer that is everything the command names.
  For FFmpeg it is the program and the encoder (`encoder.py:359-372`); filters,
  demuxer, decoder, muxer and bitstream filters are not asked for. On the machine
  without `hflip` the run launches a child that names it. `ChildIsAsConfigured`
  excepts these parts by name (`Unasked`).
- *Bitrate.* `README.md:117-118` of the package says that fixed profiles own their
  bitrate and omit it from the mutable fields. The code looks for a quoted marker
  anywhere in the text of the profile (`runtime.py:371-373`), so that a change can be
  accepted for a profile none of whose values is a marker; and a change of less than
  a kilobit can be accepted for a profile whose markers are in kilobits.
  `BitrateReachesChild` allows these two cases, both of which occur in the run, and
  no other.

## 4. Proofs

TLAPS proves the following for every value of the constants that the named
assumptions admit: any number of callers, clients, requests, channels and
children, any limits, images, streams and settings.

| theorem | module | statement |
| --- | --- | --- |
| `TypeCorrect` | `SubprocessEncoderProofs` | `Spec => []TypeOK` |
| `SingleOwnership` | | `Spec => []SingleOwner` |
| `AbandonedNeedsStop` | | `Spec => OnlyStopRecovers` |
| `StoppedIsQuiesced` | | with serialised callers, `Spec => []StoppedMeansQuiesced` |
| `NobodyWaitsOnLiveChild` | | `Spec => []NoWaitOnLiveChild` |
| `PendingStopBlocksLaunch` | | with serialised callers, `Spec => NoLaunchUnderPendingStop` |
| `EncoderImplementsContract` | | with serialised callers, `Spec => ImplementsContract` |
| `ChannelIsALifecycle` | `EncoderChannelProofs` | `ChannelSpec => Spec` |
| `ChannelTypeCorrect` | | `ChannelSpec => []ChannelTypeOK` |
| `ChannelSerialises` | | `ChannelSpec => []CallersSerialized` |
| `InactivityIsReal` | | `ChannelSpec => []InactiveIsQuiet` |
| `FramesAreFresh` | | `ChannelSpec => []NoStaleFrame` |
| `ShutdownLeavesNothing` | | `ChannelSpec => []ShutdownIsComplete` |
| `ChannelStoppedIsQuiesced` | | `ChannelSpec => []StoppedMeansQuiesced` |
| `ChannelPendingStopBlocksLaunch` | | `ChannelSpec => NoLaunchUnderPendingStop` |
| `ChannelKeepsEncoderContract` | | `ChannelSpec => ImplementsContract` |
| `LocksCannotDeadlock` | | `ChannelSpec => [](LocksInOrder /\ NoCircularWait)` |
| `ChannelRefinesContract` | | `ChannelSpec => ImplementsChannel` |
| `TypeCorrect` | `SourceControlProofs` | `Spec => []TypeOK` |
| `RevisionsAreNotLost` | | `Spec => []NoLostUpdate` |
| `StopsAreReceiptedTruly` | | `Spec => []StopReceiptIsTrue` |
| `EndpointIsReleasedLast` | | `Spec => []EndpointOutlivesNative` |
| `ConfigureOrphansNothing` | | `Spec => NothingOrphaned` |
| `ChannelIsContracts` | | `Spec => UsesChannelContract` |
| `QueueTypeCorrect` | `FrameQueueProofs` | `Spec => []TypeOK` |
| `QueuesHoldTheNewest` | | `Spec => []QueueIsNewestRun` |
| `EveryFrameIsAccounted` | | `Spec => []FramesAccounted` |
| `OnlyWholeImagesAreQueued` | | `Spec => []EncoderInputIsWhole` |
| `CapturesAreAnswered` | | `Spec => CaptureAnswers` |
| `NobodySleepsOverWork` | | `Spec => []SleepInv` |
| `PreviewIsALifecycle` | `PreviewOutputProofs` | `PreviewSpec => Spec` |
| `PreviewTypeCorrect` | | with serialised callers, `PreviewSpec => []PreviewTypeOK` |
| `UnitsCarryTheirStamps` | | with serialised callers, `PreviewSpec => []UnitsMatchStamps` |
| `StoppedHasNoCallback` | | with serialised callers, `PreviewSpec => []StoppedPublishesNothing` |
| `PublishedInRisingOrder` | | with serialised callers, `PreviewSpec => PublishedInOrder` |
| `NodeTypeCorrect` | `SourceNodeProofs` | `Spec => []TypeOK` |
| `PublisherIsLast` | | `Spec => []PublisherOutlivesPreview` |
| `ProcessEndsClean` | | `Spec => []ExitLeavesNothing` |
| `ChildrenMatchSettings` | | `Spec => []ChildIsAsConfigured` |
| `BitrateIsNotIgnored` | | `Spec => BitrateReachesChild` |
| `RosterAlwaysWhole` | `SourceRosterProofs` | `Spec => []RosterIsWhole` |
| `SuccessIsDurable` | | `Spec => []SuccessLasts` |
| `WritersCleanUp` | | `Spec => []NoLitter` |
| `LoopEnds` | `AnnexBAccessUnitsProofs` | of a parser that did not raise before, `Scanned` ends its loop and keeps what it returned right |
| `ParserInvariant` | | `Spec => []ParserInv` |
| `UnitsAreTheStreams` | | `Spec => []ReadsDoNotMatter` |
| `BoundIsKept` | | `Spec => []BoundIsExact` |

### 4.1 Assumptions

`ConstantTypes`, `ChannelConstants`, `ControlConstants`, `RosterConstants`,
`NodeConstants` and `ParserConstants` type the constants. Those that say more:

- `Serialized`, where the table says so: the callers of an encoder hold a lock of
  their own around `start` and `stop`. It is needed: `stop` clears `_stopping`
  when its generation is the newest (`encoder.py:193`), so that a stop which was
  overtaken by another stop and by a start goes on to tear down a child while the
  encoder is open, and a writer may take that child after the teardown has waited
  for writers. It is no assumption on the program: `ChannelSerialises` proves it
  of the channel, which has the free encoder (`Serialized = FALSE`) in it and
  keeps its callers apart by the transition lock. What the encoder's module
  proves with the assumption is therefore proved of the channel without it
  (`ChannelStoppedIsQuiesced`, `ChannelPendingStopBlocksLaunch`,
  `ChannelKeepsEncoderContract`).
- `FormatConstants`, `QueueConstants`: an admitted image fits the byte limit of a
  queue and the pixel limit of a capture, which `settings.py` and the constants of
  `runtime.py` give; sizes and row steps of messages are numbers.
- `PreviewConstants`: an encoder has one writer, the pump of its channel
  (`runtime.py:249-258`). Two would put frames and stamps in different orders.

### 4.2 The inductive invariants

None of the properties is inductive alone. Each invariant was checked by TLC on
the instance of its run before it was proved.

*Encoder.* `OwnerInv`: who holds a lock is at a position that says so (`LockInv`);
a thread in a teardown works on the current child, past the reap no child is
alive, and past the join no reader runs (`TeardownInv`); which positions each
call goes through (`CallInv`); and `SingleOwner` itself. It is inductive without
any assumption on the callers: the lifecycle lock alone makes it so. `SerialInv`:
with serialised callers a stop keeps the encoder closed until it clears it
itself, and its generation is the newest. `WriterInv`: a writer in the pipe writes
to the current child, and past the write lock of a teardown there is no writer; it
needs `SerialInv`, for only a closed encoder keeps new writers out.
`NoLaunchUnderPendingStop` and `OnlyStopRecovers` follow from the invariant action
by action; the refinement maps every action to a step of the contract or to a
stutter under the same invariant. `NoWaitOnLiveChild`, whatever the callers do, is
the safety half of `StopReleasesWriter`: nobody waits for a writer or a reader
while a child is alive that could keep them.

*Channel.* Every step of the channel is a step of the encoder or leaves it alone,
so that `OwnerInv` holds at once. `PlaceInv` ties the two locks, the places of the
threads and the encoder calls they are in to each other; from it follows that no
two threads are in `start` or `stop` (`CallsApart`), and with that `SerialInv` and
`WriterInv`, although nothing was assumed of the callers. `QueueInv` says that what
waits was submitted since the activation. `DrainInv` is the heart: while a stop is
marked no start is under way, a channel settles only on a stopped encoder, and an
encoder that was left closed has no writer whose restart could open it. `CloseInv`
says what a shutdown has made sure of at each stage. The refinement adds
`OperationInv`, which transition of the contract a thread's place stands for.

The four locks of a channel (the transition lock, `channel.lock`, and the two of
the encoder, `_lifecycle_lock` and `_write_lock`) are taken in this order:
`LocksInOrder` follows from `PlaceInv` and `LockInv`. A thread that holds the last
lock that is held therefore waits for none (`NoCircularWait`), so that the stall of
`EncoderChannel_stalled` is no cycle of locks: the thread at its end waits for a
live child.

*Server.* `HolderInv`: the locks and the positions of requests agree.
`ShutdownInv`: how far shutdown got, and that from quiescence on no request is at
work, which needs that admission was closed before it was waited for.
`ChannelInv`: what a request knows of the channel while it works on it: a receipt
is judged on a channel that is down, a configuration replaces an encoder that is
down, an unfinished stop always finds something to do. `RevisionInv`: every
applied update is counted, the last one perhaps not yet, which needs the
transition lock across the slow call.

*Queues.* `QueueInv` says of a queue that it is a run of consecutive frames that
ends with the newest, within both limits, and that its byte count is the total of
its frames; `LatestInv` what the newest is; `CountInv` the sums of the counters;
`CaptureInv` what a capture holds while it converts outside the lock. Below them are
lemmas about the data: what `TotalBytes` and `FlattenSeq` compute (`TotalRuns`,
`JoinedRows`), that a packed raw image has the bytes of its pixels (`PackedIsJoined`,
`AdmittedIsWhole`), that dropping the oldest frames makes room (`KeptHasRoom`).
`SleepInv` is the safety half of `NoLostWakeup`: a pump that sleeps has nothing to
deliver and no stop was announced to it, a capture that sleeps has not been
overtaken by the frame it asked for. It holds because a sleeper tests what it waits
for under the lock of the condition, and what ends a sleep is announced under it.

*Preview.* `PreviewIsALifecycle` carries the encoder's invariants over. `FifoInv`
is what pairing by order rests on: the waiting stamps are, in order, those of the
units in the current child's output, of the frames in its input, and of the one
frame whose stamp was recorded and that is not yet in the pipe (`Behind`: a writer
that is in the pipe, or whose write failed and that waits to restart this child).
`OrderInv` and `EmitInv`: what was published, what a callback holds, what waits and
what is being written rise in this order; `PumpInv`: the one writer has the newest
frame. That a replaced child's reader does not disturb the order is `SingleOwner`
of the lifecycle: its callback has returned before the next launch.

*Process.* `StartInv`, `AttemptInv`, `HookInv`: who may stop the runtime when, and
that ROS is only taken down before the runtime by somebody who found no hook, in
which case the preview has no timer and never gets one. `PreviewInv`: without its
timer the preview does not run. `ReadyInv` and `CommandInv`: a child can only be
launched after the preflight, from the settings in force. The commands themselves
are compared by lemmas about the operators of `EncoderCommand`: that what a command
needs is among what is inspected, but for the parts of FFmpeg that are not asked for
(`NeedsAreInspected`); that the format a command names takes what the pump writes
(`CommandTakes`), which needs an input that was validated (`InputInv`: a node is only
built from such parameters, and `configure` keeps them); and that a marker among the
values of the profile is replaced by another value when the bitrate moves it
(`CommandFollowsBitrate`, `EncoderComesLast`). A start that waits is one of an active
channel (`SettingsTypes`), so that it finds the preflight done, and none is left of a
runtime that was stopped.

*Roster.* A writer holds a file of its own from its creation to its replacement and
knows its content (`HolderInv`, which also needs that no two writers hold the same
name), so that only synced files become versions (`SyncedInv`); a writer that is
done put in place what is durable, and one before the sync of the directory what is
still there (`DurableInv`); and `NoLitter`. The types are part of it: that a version
is a whole file follows from `HolderInv`.

*Parser.* `ReadsDoNotMatter` says what was returned and nothing of the search, so
it is not inductive: the next read is only cut right if no delimiter was passed
over. `ParserInv` adds this. A parser follows the stream (`FollowsBy`) when the
cuts it found are all the cuts up to the offset from which it goes on (`Lists`),
what it holds is the stream after the last cut, and the offset is `Settled`: no
delimiter starts before it and ends after it, however the stream goes on. The
overlap of four bytes is what settles it, as a delimiter has five at most
(`_BOUNDARY_OVERLAP`, `h264.py:6`). `LoopInv` carries this through the turns of the
loop, each of which finds the next cut and goes on four bytes later at least,
whence the number of turns in `Scanned` is enough. That a unit over the bound
raises in whichever read shows it needs that the bytes held are all of the open
unit.

### 4.3 Only model-checked

- Liveness, which is out of the provers' reach, as is `ENABLED`: `StopReleasesWriter`,
  `EveryStopReturns`, `ShutdownReleasesPumpUnlessStarting`, `ShutdownAttemptEnds`,
  `RequestsEndUnlessStarting`, `NoLostWakeup`, `ShutdownEnds`, `UnwatchedPreviewStops`.
  Of the waits they are about, `NoWaitOnLiveChild`, `NoCircularWait` and `SleepInv`
  are proved: what is left to fairness is that a step that can be taken is taken.
- The findings of the three runs that show a violation.

Induction is done where a recursive function allows it: the library's induction
theorems take an operator and cannot be instantiated, but a set of numbers has a
least element, which gives induction over a set (`Induction` in `FrameQueueProofs`
and `AnnexBAccessUnitsProofs`).

## 5. Not modelled

- Pixels: what Pillow decodes, encodes and converts.
- Of command lines: caps, times and fractional frame rates, and what an argument of
  a custom FFmpeg profile may itself name (the preflight cannot know it either). Raw
  images are taken to follow each other without padding of their rows, also in
  `rawvideoparse`, whose default strides are GStreamer's. Of settings: the checks of
  texts (topics, identifiers, socket path, clock domain, JSON, element names), which
  are the field `wellFormed`, and the walk along the components of the control
  directory, which is one step.
- In `SourceNode`, an encoder that still owns a child which died: such a child is
  gone there at once. `SubprocessEncoder` has the difference.
- The XRPC SDK: transport, leases, cancellation. Its workers are the requests of
  `SourceControl`; that an endpoint is released only by `stop` is taken from how
  the runtime calls it.
- Requests that change nothing: status, describe, reading the configuration.
- Logging and the periodic status report of the nodes.
- A reader thread that stops its own encoder: no callback here does.
- Of the roster, the collision of all 32 random names, after which the clean-up would
  unlink the last of them, and a clean-up whose `unlink` fails itself.
- Test publisher, launch files, packaging and integration scripts: sequential
  tools that keep no state and are no part of the running adapter.

## 6. Plan

Modelled, in the order of the importance of the behaviour:

1. `SubprocessEncoder` with its contract, refinement and proofs.
2. `EncoderChannel`: the encoder in its channel.
3. `SourceControl`: requests and shutdown.
4. `PreviewOutput` and `AnnexBAccessUnits`: the preview.
5. `FrameQueue` and `SourceRoster`.
6. `ChannelContract` between `EncoderChannel` and `SourceControl`.
7. `ImageFormat` under `FrameQueue`: images with shapes, whole raw frames, captures.
8. `EncoderCommand` and `SourceNode`: settings, commands, construction, exit.

Every safety invariant and every property of steps that a passing run checks is
proved, and so is every refinement. The two halves of the channel contract,
`ChannelRefinesContract` and `ChannelIsContracts`, are theorems of their own: one
statement that joins them would need a server whose channel is `EncoderChannel`
itself, which is more than the runs could explore. Liveness stays with TLC.
