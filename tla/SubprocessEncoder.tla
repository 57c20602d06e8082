-------------------------- MODULE SubprocessEncoder --------------------------
(***************************************************************************)
(* The supervised encoder child of src/ros_image_rtp_adapter/encoder.py    *)
(* (class SubprocessEncoder and what the FFmpeg preview adds to it): one   *)
(* child process, the reader threads of its output pipes, the pump that    *)
(* writes frames into its stdin, and the callers of start() and stop().    *)
(*                                                                         *)
(* Three locks order them.  _state_lock only guards short sections, each   *)
(* of which is one step here.  _lifecycle_lock serialises start, stop and  *)
(* restart; _write_lock serialises pipe writes.  A stop terminates the     *)
(* child BEFORE it waits for the write lock, so that a writer blocked on a *)
(* stalled child is released.                                              *)
(***************************************************************************)
EXTENDS FiniteSets

CONSTANTS
    Controllers,    \* threads that call start() and stop()
    Writers,        \* threads that call write_frame()
    Children,       \* identities of child processes; reused once forgotten
    Preview,        \* TRUE: the H264 preview encoder, with an output reader
    Serialized,     \* TRUE: callers hold a lock of their own around start/stop
    SyscallErrors,  \* TRUE: signals, waits and pipe closes may fail
    None            \* no child, no thread

Threads == Controllers \cup Writers

\* The pipes a thread of the encoder drains, in the order they are started.
Readers == IF Preview THEN {"stderr", "output"} ELSE {"stderr"}

StartedBefore(r) == IF r = "output" THEN {"stderr"} ELSE {}

ASSUME ConstantTypes ==
    /\ Preview \in BOOLEAN
    /\ Serialized \in BOOLEAN
    /\ SyscallErrors \in BOOLEAN
    /\ None \notin Children
    /\ None \notin Threads

VARIABLES
    proc,       \* _proc: the child this encoder owns
    child,      \* what the operating system knows of each child
    recorded,   \* _readers: the reader threads the encoder must join
    reading,    \* the reader threads that are really running
    stopping,   \* _stopping: no launch and no write is admitted
    current,    \* threads whose recorded _stop_generation is still the latest
    lifecycle,  \* holder of _lifecycle_lock
    writeLock,  \* holder of _write_lock
    pc,         \* where each thread is in its call
    call,       \* the call it is in
    target      \* the child its local variable proc (failed_proc) names

vars == <<proc, child, recorded, reading, stopping, current, lifecycle,
          writeLock, pc, call, target>>

locals == <<pc, call, target>>
native == <<child, reading>>
owned  == <<proc, recorded>>

ChildStates == {"exited", "live", "closing", "killed"}

\* Positions between TERM and the last join: _finish_stop.
Finishing == {"term", "wait", "killed", "drain", "join"}

HoldsLifecycle == {"start", "restart", "clear"} \cup Finishing
HoldsWriteLock == {"hook", "writing"}
Positions == {"idle", "stop", "broken"} \cup HoldsLifecycle \cup HoldsWriteLock

Init ==
    /\ proc = None
    /\ child = [p \in Children |-> "exited"]
    /\ recorded = {}
    /\ reading = {}
    /\ stopping = FALSE
    /\ current = {}
    /\ lifecycle = None
    /\ writeLock = None
    /\ pc = [t \in Threads |-> "idle"]
    /\ call = [t \in Threads |-> "none"]
    /\ target = [t \in Threads |-> None]

Alive(p) == child[p] # "exited"

\* stopped, the property callers read to see that native ownership ended.
Stopped == proc = None /\ recorded = {} /\ ~stopping

Go(t, position) == pc' = [pc EXCEPT ![t] = position]

\* The call of t returns or raises; its locals are gone.
Return(t) ==
    /\ Go(t, "idle")
    /\ call' = [call EXCEPT ![t] = "none"]
    /\ target' = [target EXCEPT ![t] = None]

Enter(t, name, position) ==
    /\ pc[t] = "idle"
    /\ Go(t, position)
    /\ call' = [call EXCEPT ![t] = name]
    /\ UNCHANGED target

\* The runtime calls start() and stop() under a lock of its own.
MayCall(t) ==
    Serialized => \A u \in Threads \ {t} : call[u] \notin {"start", "stop"}

-----------------------------------------------------------------------------
(***************************************************************************)
(* _launch_locked, entered with the lifecycle and the state lock: the      *)
(* whole launch is one step of the caller.  `readers' is what _readers     *)
(* holds at the moment of the launch.                                      *)
(***************************************************************************)

\* A new Popen object: no thread and no reader still names it.
Fresh(p) ==
    /\ ~Alive(p)
    /\ p # proc
    /\ \A t \in Threads : target[t] # p
    /\ \A r \in Readers : <<p, r>> \notin recorded \cup reading

Launched(readers) ==
    \E p \in Children :
        /\ Fresh(p)
        /\ proc' = p
        /\ child' = [child EXCEPT ![p] = "live"]
        /\ recorded' = readers \cup ({p} \X Readers)
        /\ reading' = reading \cup ({p} \X Readers)
        /\ stopping' = FALSE

\* validate_runtime or Popen raised: nothing was allocated.
LaunchRefused(readers) ==
    /\ proc' = None
    /\ recorded' = readers
    /\ stopping' = FALSE
    /\ UNCHANGED native

\* A reader thread could not be started: the child is kept, to be stopped.
LaunchHalfDone(readers) ==
    \E p \in Children, r \in Readers :
        /\ Fresh(p)
        /\ proc' = p
        /\ child' = [child EXCEPT ![p] = "live"]
        /\ recorded' = readers \cup ({p} \X (StartedBefore(r) \cup {r}))
        /\ reading' = reading \cup ({p} \X StartedBefore(r))
        /\ stopping' = TRUE

Launch(readers) ==
    Launched(readers) \/ LaunchRefused(readers) \/ LaunchHalfDone(readers)

-----------------------------------------------------------------------------
(***************************************************************************)
(* start().                                                                *)
(***************************************************************************)

\* The lifecycle lock is taken without waiting, or the call raises at once.
StartCall(t) ==
    /\ t \in Controllers
    /\ MayCall(t)
    /\ lifecycle = None
    /\ lifecycle' = t
    /\ Enter(t, "start", "start")
    /\ UNCHANGED <<owned, native, stopping, current, writeLock>>

StartReturns(t) ==
    /\ Return(t)
    /\ lifecycle' = None

\* A stop has not completed, or the child is already up.
StartUnchanged(t) ==
    /\ pc[t] = "start"
    /\ stopping \/ (proc # None /\ Alive(proc))
    /\ StartReturns(t)
    /\ UNCHANGED <<owned, native, stopping, current, writeLock>>

StartLaunch(t) ==
    /\ pc[t] = "start"
    /\ ~stopping
    /\ proc = None
    /\ Launch(recorded)
    /\ StartReturns(t)
    /\ UNCHANGED <<current, writeLock>>

\* The child it owns is dead: replace it.
StartRestart(t) ==
    /\ pc[t] = "start"
    /\ ~stopping
    /\ proc # None /\ ~Alive(proc)
    /\ Go(t, "restart")
    /\ target' = [target EXCEPT ![t] = proc]
    /\ UNCHANGED <<owned, native, stopping, current, lifecycle, writeLock, call>>

-----------------------------------------------------------------------------
(***************************************************************************)
(* stop().                                                                 *)
(***************************************************************************)

\* Admission closes before the caller waits for the lifecycle lock; the new
\* generation makes every earlier one stale.
StopCall(t) ==
    /\ t \in Controllers
    /\ MayCall(t)
    /\ stopping' = TRUE
    /\ current' = {t}
    /\ Enter(t, "stop", "stop")
    /\ UNCHANGED <<owned, native, lifecycle, writeLock>>

\* Mutant: the writer is waited for before the child is terminated.
StopAcquireDrainFirst(t) ==
    /\ pc[t] = "stop"
    /\ lifecycle = None
    /\ lifecycle' = t
    /\ Go(t, IF proc = None THEN "clear" ELSE "drain")
    /\ target' = [target EXCEPT ![t] = proc]
    /\ UNCHANGED <<owned, native, stopping, current, writeLock, call>>

StopAcquire(t) ==
    /\ pc[t] = "stop"
    /\ lifecycle = None
    /\ lifecycle' = t
    /\ Go(t, IF proc = None THEN "clear" ELSE "term")
    /\ target' = [target EXCEPT ![t] = proc]
    /\ UNCHANGED <<owned, native, stopping, current, writeLock, call>>

\* The deadline passes while another call owns the lifecycle lock.
StopTimeout(t) ==
    /\ pc[t] = "stop"
    /\ lifecycle # None
    /\ Return(t)
    /\ current' = current \ {t}
    /\ UNCHANGED <<owned, native, stopping, lifecycle, writeLock>>

StopClear(t) ==
    /\ pc[t] = "clear"
    /\ call[t] = "stop"
    /\ proc' = None
    /\ recorded' = {}
    /\ stopping' = (stopping /\ t \notin current)
    /\ current' = current \ {t}
    /\ lifecycle' = None
    /\ Return(t)
    /\ UNCHANGED <<native, writeLock>>

-----------------------------------------------------------------------------
(***************************************************************************)
(* _restart_locked: entered with the lifecycle lock by start() and by a    *)
(* writer whose pipe broke.                                                *)
(***************************************************************************)

RestartSkip(t) ==
    /\ pc[t] = "restart"
    /\ proc # target[t] \/ stopping
    /\ Return(t)
    /\ lifecycle' = None
    /\ UNCHANGED <<owned, native, stopping, current, writeLock>>

\* Mutant: a restart goes on although the encoder is closed.
RestartBeginWhileClosed(t) ==
    /\ pc[t] = "restart"
    /\ proc = target[t]
    /\ stopping' = TRUE
    /\ current' = current \cup {t}
    /\ Go(t, "term")
    /\ UNCHANGED <<owned, native, lifecycle, writeLock, call, target>>

RestartBegin(t) ==
    /\ pc[t] = "restart"
    /\ proc = target[t]
    /\ ~stopping
    /\ stopping' = TRUE
    /\ current' = current \cup {t}
    /\ Go(t, "term")
    /\ UNCHANGED <<owned, native, lifecycle, writeLock, call, target>>

\* A stop arrived meanwhile: it owns the next transition.
RestartSuperseded(t) ==
    /\ pc[t] = "clear"
    /\ call[t] # "stop"
    /\ t \notin current
    /\ proc' = None
    /\ recorded' = {}
    /\ lifecycle' = None
    /\ Return(t)
    /\ UNCHANGED <<native, stopping, current, writeLock>>

\* Mutant: the generation is not compared before the replacement is launched.
RestartLaunchUnfenced(t) ==
    /\ pc[t] = "clear"
    /\ call[t] # "stop"
    /\ Launch({})
    /\ current' = current \ {t}
    /\ lifecycle' = None
    /\ Return(t)
    /\ UNCHANGED writeLock

RestartLaunch(t) ==
    /\ pc[t] = "clear"
    /\ call[t] # "stop"
    /\ t \in current
    /\ Launch({})
    /\ current' = current \ {t}
    /\ lifecycle' = None
    /\ Return(t)
    /\ UNCHANGED writeLock

-----------------------------------------------------------------------------
(***************************************************************************)
(* _finish_stop and _stop_process, on the child target[t].                 *)
(***************************************************************************)

\* SIGTERM if the child still runs, then its stdin is closed.
Terminate(t) ==
    /\ pc[t] = "term"
    /\ child' = [child EXCEPT ![target[t]] =
                    IF @ = "live" THEN "closing" ELSE @]
    /\ Go(t, "wait")
    /\ UNCHANGED <<owned, reading, stopping, current, lifecycle, writeLock,
                   call, target>>

\* The child outlived its grace period.
Kill(t) ==
    /\ pc[t] = "wait"
    /\ Alive(target[t])
    /\ child' = [child EXCEPT ![target[t]] = "killed"]
    /\ Go(t, "killed")
    /\ UNCHANGED <<owned, reading, stopping, current, lifecycle, writeLock,
                   call, target>>

\* Mutant: the write lock is not waited for.
ReapWithoutDrain(t) ==
    /\ pc[t] \in {"wait", "killed"}
    /\ ~Alive(target[t])
    /\ Go(t, "join")
    /\ UNCHANGED <<owned, native, stopping, current, lifecycle, writeLock,
                   call, target>>

Reap(t) ==
    /\ pc[t] \in {"wait", "killed"}
    /\ ~Alive(target[t])
    /\ Go(t, "drain")
    /\ UNCHANGED <<owned, native, stopping, current, lifecycle, writeLock,
                   call, target>>

\* Mutant: the write lock is asked for without waiting.
DrainWriterNotWaiting(t) ==
    /\ pc[t] = "drain"
    /\ Go(t, "join")
    /\ UNCHANGED <<owned, native, stopping, current, lifecycle, writeLock,
                   call, target>>

\* The write lock is taken and given back: the writer has left the pipe.
DrainWriter(t) ==
    /\ pc[t] = "drain"
    /\ writeLock = None
    /\ Go(t, "join")
    /\ UNCHANGED <<owned, native, stopping, current, lifecycle, writeLock,
                   call, target>>

\* Mutant: the readers are not joined.
JoinReadersNotWaiting(t) ==
    /\ pc[t] = "join"
    /\ Go(t, "clear")
    /\ UNCHANGED <<owned, native, stopping, current, lifecycle, writeLock,
                   call, target>>

JoinReaders(t) ==
    /\ pc[t] = "join"
    /\ recorded \cap reading = {}
    /\ Go(t, "clear")
    /\ UNCHANGED <<owned, native, stopping, current, lifecycle, writeLock,
                   call, target>>

\* Mutant: the readers are joined without a deadline.
StageBlockedJoinForever(t) ==
    \/ pc[t] = "killed" /\ Alive(target[t])
    \/ pc[t] = "drain"  /\ writeLock # None
    \/ SyscallErrors /\ pc[t] \in {"term", "wait", "killed"}

\* The stage t is in cannot complete before the deadline, or a system call of
\* it failed.
StageBlocked(t) ==
    \/ pc[t] = "killed" /\ Alive(target[t])
    \/ pc[t] = "drain"  /\ writeLock # None
    \/ pc[t] = "join"   /\ recorded \cap reading # {}
    \/ SyscallErrors /\ pc[t] \in {"term", "wait", "killed", "join"}

\* _finish_stop raises out of stop, start or write_frame: the encoder stays
\* closed and keeps what it owns, until another stop.
FinishRaises(t) ==
    /\ pc[t] \in Finishing
    /\ StageBlocked(t)
    /\ Return(t)
    /\ current' = current \ {t}
    /\ lifecycle' = None
    /\ UNCHANGED <<owned, native, stopping, writeLock>>

-----------------------------------------------------------------------------
(***************************************************************************)
(* write_frame().                                                          *)
(***************************************************************************)

\* A frame that arrives while no child is admitted returns without a word
\* (a call that changes nothing); otherwise the writer takes the write lock
\* and remembers the child.
WriteCall(t) ==
    /\ t \in Writers
    /\ writeLock = None
    /\ ~stopping
    /\ proc # None
    /\ pc[t] = "idle"
    /\ Go(t, "hook")
    /\ call' = [call EXCEPT ![t] = "write"]
    /\ target' = [target EXCEPT ![t] = proc]
    /\ writeLock' = t
    /\ UNCHANGED <<owned, native, stopping, current, lifecycle>>

\* _before_write: the preview records the stamp of the frame.
BeforeWrite(t) ==
    /\ pc[t] = "hook"
    /\ Go(t, "writing")
    /\ UNCHANGED <<owned, native, stopping, current, lifecycle, writeLock,
                   call, target>>

\* The preview's output has stalled: 64 stamps wait for their access unit.
BeforeWriteRaises(t) ==
    /\ Preview
    /\ pc[t] = "hook"
    /\ Return(t)
    /\ writeLock' = None
    /\ UNCHANGED <<owned, native, stopping, current, lifecycle>>

WriteDone(t) ==
    /\ pc[t] = "writing"
    /\ child[target[t]] = "live"
    /\ Return(t)
    /\ writeLock' = None
    /\ UNCHANGED <<owned, native, stopping, current, lifecycle>>

\* The pipe broke: the child exited or closed it, or stop closed our end.
\* The write lock is released before the lifecycle lock is waited for.
WriteFails(t) ==
    /\ pc[t] = "writing"
    /\ Go(t, "broken")
    /\ writeLock' = None
    /\ UNCHANGED <<owned, native, stopping, current, lifecycle, call, target>>

RestartAcquire(t) ==
    /\ pc[t] = "broken"
    /\ lifecycle = None
    /\ lifecycle' = t
    /\ Go(t, "restart")
    /\ UNCHANGED <<owned, native, stopping, current, writeLock, call, target>>

-----------------------------------------------------------------------------
(***************************************************************************)
(* The operating system and the reader threads.                            *)
(***************************************************************************)

\* A child crashes, obeys SIGTERM or the end of its input, or is killed.
ChildExits(p) ==
    /\ Alive(p)
    /\ child' = [child EXCEPT ![p] = "exited"]
    /\ UNCHANGED <<owned, reading, stopping, current, lifecycle, writeLock, locals>>

\* A reader sees the end of its pipe, or gives up on an error.
ReaderExits(p, r) ==
    /\ <<p, r>> \in reading
    /\ reading' = reading \ {<<p, r>>}
    /\ UNCHANGED <<owned, child, stopping, current, lifecycle, writeLock, locals>>

\* The output of the preview cannot be attributed: its reader kills the child.
OutputFails(p) ==
    /\ <<p, "output">> \in reading
    /\ child[p] \in {"live", "closing"}
    /\ child' = [child EXCEPT ![p] = "killed"]
    /\ reading' = reading \ {<<p, "output">>}
    /\ UNCHANGED <<owned, stopping, current, lifecycle, writeLock, locals>>

-----------------------------------------------------------------------------
Start(t)   == StartCall(t) \/ StartUnchanged(t) \/ StartLaunch(t) \/ StartRestart(t)
Stop(t)    == StopCall(t) \/ StopAcquire(t) \/ StopTimeout(t) \/ StopClear(t)
Restart(t) == RestartSkip(t) \/ RestartBegin(t) \/ RestartSuperseded(t) \/ RestartLaunch(t)
Finish(t)  == \/ Terminate(t) \/ Kill(t) \/ Reap(t) \/ DrainWriter(t)
              \/ JoinReaders(t) \/ FinishRaises(t)
Write(t)   == \/ WriteCall(t) \/ BeforeWrite(t) \/ BeforeWriteRaises(t)
              \/ WriteDone(t) \/ WriteFails(t) \/ RestartAcquire(t)

Environment ==
    \E p \in Children :
        \/ ChildExits(p)
        \/ \E r \in Readers : ReaderExits(p, r)
        \/ OutputFails(p)

Next ==
    \/ \E t \in Threads : Start(t) \/ Stop(t) \/ Restart(t) \/ Finish(t) \/ Write(t)
    \/ Environment

Spec == Init /\ [][Next]_vars

(***************************************************************************)
(* Fairness.  A thread inside a stop() or a restart runs: every wait in it *)
(* carries a deadline.  A killed child dies.  A write into a pipe whose    *)
(* reader is gone fails.  Nothing is assumed of a live child, of a write   *)
(* into it, of a reader thread, or of the callers.                         *)
(***************************************************************************)
CallSteps(t) ==
    \/ StartUnchanged(t) \/ StartLaunch(t) \/ StartRestart(t)
    \/ StopAcquire(t) \/ StopTimeout(t) \/ StopClear(t)
    \/ Restart(t)
    \/ Finish(t)

PipeBreaks(t) == WriteFails(t) /\ ~Alive(target[t])

FairSpec ==
    /\ Spec
    /\ \A t \in Threads : WF_vars(CallSteps(t)) /\ WF_vars(BeforeWrite(t) \/ BeforeWriteRaises(t))
    /\ \A t \in Threads : WF_vars(PipeBreaks(t))
    /\ \A p \in Children : WF_vars(ChildExits(p) /\ child[p] = "killed")

-----------------------------------------------------------------------------
TypeOK ==
    /\ proc \in Children \cup {None}
    /\ child \in [Children -> ChildStates]
    /\ recorded \subseteq Children \X Readers
    /\ reading \subseteq Children \X Readers
    /\ stopping \in BOOLEAN
    /\ current \subseteq Threads
    /\ lifecycle \in Threads \cup {None}
    /\ writeLock \in Threads \cup {None}
    /\ pc \in [Threads -> Positions]
    /\ call \in [Threads -> {"none", "start", "stop", "write"}]
    /\ target \in [Threads -> Children \cup {None}]

(***************************************************************************)
(* Native work never escapes its owner: a child that runs, and a reader    *)
(* thread that runs, belong to the child the encoder records as its own    *)
(* and are in the list it joins.  A second child beside the first, or a    *)
(* replacement launched before the old one was reaped and its readers      *)
(* joined (encoder.py:111-114), would break it.                            *)
(***************************************************************************)
SingleOwner ==
    /\ \A p \in Children : Alive(p) => p = proc
    /\ reading \subseteq recorded
    /\ \A x \in recorded : x[1] = proc

(***************************************************************************)
(* `stopped` is evidence of quiescence (encoder.py:135-143): while it      *)
(* holds no child lives, no reader thread runs and no writer is between    *)
(* taking a child and leaving its pipe.                                    *)
(***************************************************************************)
StoppedMeansQuiesced ==
    Stopped => /\ \A p \in Children : ~Alive(p)
               /\ reading = {}
               /\ \A t \in Threads : pc[t] \notin HoldsWriteLock

(***************************************************************************)
(* No child is launched while a stop() has been called and has not         *)
(* returned: neither a start nor the restart a failed writer was already   *)
(* in may replace the child the stop is about to remove                    *)
(* (encoder.py:150-151 and 285-288).                                       *)
(***************************************************************************)
NoLaunchUnderPendingStop ==
    [][(\E t \in Threads : call[t] = "stop") => proc' \in {proc, None}]_vars

(***************************************************************************)
(* A failed teardown or a half-done launch keeps what it owns.  While the  *)
(* encoder is closed and no call is at work on it, nothing but a new       *)
(* stop() changes what it owns or opens it: not a start()                  *)
(* (encoder.py:156-157), and not the restart of a writer whose pipe broke  *)
(* earlier and that only now gets the lifecycle lock (encoder.py:278).     *)
(***************************************************************************)
Abandoned ==
    stopping /\ \A t \in Threads : pc[t] \notin {"stop", "clear"} \cup Finishing

OnlyStopRecovers ==
    [][Abandoned => \/ Abandoned' /\ UNCHANGED <<proc, recorded, stopping>>
                    \/ \E t \in Threads : pc'[t] = "stop"]_vars

(***************************************************************************)
(* A stop() that waits for the writer gets it out of the child's pipe      *)
(* (encoder.py:111-115): the child it terminated before is gone by then,   *)
(* so that the write fails.  A stop that waited first would leave the      *)
(* writer of a stalled child there for ever.                               *)
(***************************************************************************)
StopReleasesWriter ==
    \A t \in Controllers, u \in Writers :
        (pc[t] = "drain" /\ call[t] = "stop" /\ pc[u] = "writing") ~> (pc[u] # "writing")

\* Every stop() and every restart returns or raises by its deadline.
EveryStopReturns ==
    \A t \in Threads : (pc[t] \in {"stop", "start"} \cup Finishing) ~> (pc[t] = "idle")

-----------------------------------------------------------------------------
(***************************************************************************)
(* The inductive invariant, in the parts its proof uses.                   *)
(***************************************************************************)

\* The two locks are held by the threads whose position says so.
LockInv ==
    \A t \in Threads :
        /\ (lifecycle = t) = (pc[t] \in HoldsLifecycle)
        /\ (writeLock = t) = (pc[t] \in HoldsWriteLock)

\* A thread that tears down works on the current child; a thread in "clear"
\* without a child is a stop that found none.
TeardownInv ==
    \A t \in Threads :
        /\ pc[t] \in Finishing \cup {"clear"} => target[t] = proc
        /\ pc[t] \in Finishing => proc # None
        /\ pc[t] \in HoldsWriteLock \cup {"broken", "restart"} => target[t] # None
        /\ pc[t] = "clear" /\ call[t] # "stop" => proc # None
        /\ pc[t] \in {"drain", "join", "clear"} => \A p \in Children : ~Alive(p)
        /\ pc[t] = "clear" => reading = {}

\* Which positions each call goes through.
CallInv ==
    \A t \in Threads :
        /\ (pc[t] = "idle") = (call[t] = "none")
        /\ pc[t] = "stop" => call[t] = "stop"
        /\ pc[t] = "start" => call[t] = "start"
        /\ pc[t] = "restart" => call[t] # "stop"
        /\ pc[t] \in HoldsWriteLock \cup {"broken"} => call[t] = "write"
        /\ t \in current => pc[t] \in {"stop", "clear"} \cup Finishing

OwnerInv == LockInv /\ TeardownInv /\ CallInv /\ SingleOwner

\* With callers that serialise start() and stop(), closing is never undone
\* under a call that relies on it.
SerialInv ==
    /\ \A t, u \in Threads :
            call[t] \in {"start", "stop"} /\ call[u] \in {"start", "stop"} => t = u
    /\ \A t \in Threads :
            call[t] = "stop" => stopping /\ current = {t}
    /\ \A t \in Threads : pc[t] \in Finishing \cup {"clear"} => stopping

\* A writer in the pipe writes to the current child, and a teardown past the
\* write lock has no writer left.
WriterInv ==
    \A t \in Threads :
        /\ pc[t] \in HoldsWriteLock => target[t] = proc /\ proc # None
        /\ pc[t] \in {"join", "clear"} =>
                \A u \in Threads : pc[u] \notin HoldsWriteLock
=============================================================================
