---------------------------- MODULE ChannelContract ----------------------------
(***************************************************************************)
(* What a channel of src/ros_image_rtp_adapter/runtime.py promises to      *)
(* those who ask it to be active or inactive (runtime.py:89-94, 274-276,   *)
(* 376-432), without frames, threads or locks.  EncoderChannel implements  *)
(* it around the real encoder; SourceControl uses a channel that only does *)
(* what is allowed here.                                                   *)
(***************************************************************************)
VARIABLES
    active,      \* channel.active
    running,     \* the encoder has a live child
    owned,       \* the encoder is not stopped: it still owns native work
    unfinished,  \* channel.stopping: a stop has begun and not succeeded
    op,          \* the transition under way
    closing      \* the runtime is shutting down

channelState == <<active, running, owned, unfinished, op, closing>>

Init ==
    /\ active = FALSE /\ running = FALSE /\ owned = FALSE
    /\ unfinished = FALSE /\ closing = FALSE
    /\ op = "none"

BeginStart ==
    /\ op = "none"
    /\ ~closing /\ ~unfinished
    /\ op' = "start"
    /\ UNCHANGED <<active, running, owned, unfinished, closing>>

BeginStop ==
    /\ op = "none"
    /\ op' = "stop"
    /\ unfinished' = TRUE
    /\ UNCHANGED <<active, running, owned, closing>>

\* The encoder works on it.  Only a start, or a restart of the pump that the
\* stop has not yet overtaken, launches a child.
Work ==
    /\ op # "none"
    /\ owned' \in BOOLEAN
    /\ running' \in BOOLEAN
    /\ running' => owned' /\ (op = "start" \/ running \/ active)
    /\ UNCHANGED <<active, unfinished, op, closing>>

Started ==
    /\ op = "start"
    /\ op' = "none"
    /\ active' = TRUE /\ running' = TRUE /\ owned' = TRUE
    /\ UNCHANGED <<unfinished, closing>>

\* What was active stays so; the encoder may keep what could not be undone.
StartFails ==
    /\ op = "start"
    /\ op' = "none"
    /\ owned' \in BOOLEAN
    /\ running' \in BOOLEAN
    /\ running' => owned'
    /\ UNCHANGED <<active, unfinished, closing>>

Stopped ==
    /\ op = "stop"
    /\ op' = "none"
    /\ active' = FALSE /\ running' = FALSE /\ owned' = FALSE /\ unfinished' = FALSE
    /\ UNCHANGED closing

\* Nothing is given up: it stays active and unfinished until a stop succeeds.
\* A next stop finds something to do, so that it can.
StopFails ==
    /\ op = "stop"
    /\ op' = "none"
    /\ owned' \in BOOLEAN
    /\ running' \in BOOLEAN
    /\ running' => running /\ owned'
    /\ active \/ owned'
    /\ UNCHANGED <<active, unfinished, closing>>

ChildDies ==
    /\ running
    /\ running' = FALSE
    /\ UNCHANGED <<active, owned, unfinished, op, closing>>

\* The pump replaces a dead child, of a channel nobody is stopping, or fails to.
ChildReplaced ==
    /\ active /\ owned /\ ~unfinished
    /\ running' = owned'
    /\ owned' \in BOOLEAN
    /\ UNCHANGED <<active, unfinished, op, closing>>

Close ==
    /\ closing' = TRUE
    /\ UNCHANGED <<active, running, owned, unfinished, op>>

Reopen ==
    /\ op = "none"
    /\ ~active /\ ~owned
    /\ closing' = FALSE
    /\ UNCHANGED <<active, running, owned, unfinished, op>>

Next ==
    \/ BeginStart \/ Started \/ StartFails
    \/ BeginStop \/ Stopped \/ StopFails
    \/ Work \/ ChildDies \/ ChildReplaced
    \/ Close \/ Reopen

Spec == Init /\ [][Next]_channelState
=============================================================================
