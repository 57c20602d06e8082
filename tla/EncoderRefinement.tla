-------------------------- MODULE EncoderRefinement --------------------------
(***************************************************************************)
(* SubprocessEncoder implements EncoderContract when its callers serialise *)
(* start() and stop(), as the runtime does (runtime.py, transition_lock).  *)
(***************************************************************************)
EXTENDS SubprocessEncoder

Process == "process"
WriterPart == "writer"

\* The child, the readers of its pipes and the writer between its check of
\* the encoder and the end of its write.
NativeWork ==
    {<<p, Process>> : p \in {q \in Children : Alive(q)}}
        \cup reading
        \cup {<<target[t], WriterPart>> : t \in {u \in Threads : pc[u] \in HoldsWriteLock}}

Promised == INSTANCE EncoderContract WITH
    Parts <- {Process, WriterPart} \cup Readers,
    Writer <- WriterPart,
    owner <- proc,
    work <- NativeWork,
    closed <- stopping

(***************************************************************************)
(* Every step of the encoder is a step of its contract, or changes nothing *)
(* the contract speaks of (encoder.py:109-115): in particular a restart    *)
(* passes ownership on, and a stop ends it, only when the old child, its   *)
(* readers and its writer have ended.                                      *)
(***************************************************************************)
ImplementsContract == Promised!Contract
=============================================================================
