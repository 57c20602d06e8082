--------------------------- MODULE EncoderContract ---------------------------
(***************************************************************************)
(* What an encoder promises its channel, without locks, threads or calls   *)
(* (encoder.py:109-115 and 135-143): it owns at most one child, all native *)
(* work is work of that child, work enters only while the encoder is open, *)
(* and ownership ends, or passes to a replacement, only after the work has *)
(* ended.                                                                  *)
(***************************************************************************)
CONSTANTS Children, Parts, Writer, None

VARIABLES
    owner,   \* the child the encoder owns
    work,    \* native activities that have not ended, <<child, part>>
    closed   \* no launch and no write is admitted

contractVars == <<owner, work, closed>>

ContractInit ==
    /\ owner = None
    /\ work = {}
    /\ closed = FALSE

\* A child is launched: the first one, or a replacement by a restart that
\* closed the encoder and waited for the old work to end.
Allocate(p) ==
    /\ p # owner
    /\ (owner = None) = ~closed
    /\ work = {}
    /\ owner' = p
    /\ work' \subseteq {p} \X (Parts \ {Writer})
    /\ closed' \in BOOLEAN

\* A writer takes the child that is current.
Admit ==
    /\ owner # None
    /\ ~closed
    /\ work' = work \cup {<<owner, Writer>>}
    /\ UNCHANGED <<owner, closed>>

WorkEnds ==
    /\ work' \subseteq work
    /\ UNCHANGED <<owner, closed>>

Close ==
    /\ closed' = TRUE
    /\ UNCHANGED <<owner, work>>

\* Ownership ends; the encoder opens unless a newer stop is on its way.
Release ==
    /\ closed
    /\ work = {}
    /\ owner' = None
    /\ closed' \in BOOLEAN
    /\ UNCHANGED work

ContractNext ==
    \/ \E p \in Children : Allocate(p)
    \/ Admit \/ WorkEnds \/ Close \/ Release

Contract == ContractInit /\ [][ContractNext]_contractVars
=============================================================================
