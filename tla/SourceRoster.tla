------------------------------ MODULE SourceRoster ------------------------------
(***************************************************************************)
(* write_source_roster of src/scripts/write_media_edge_source_roster.py:   *)
(* the roster that tells Media Edge of its source is replaced through a    *)
(* temporary file beside it.  Several processes may do so at once; each    *)
(* may fail at any system call or be killed, and the machine may lose      *)
(* power, which loses whatever was not synced.                             *)
(*                                                                         *)
(* A version of the roster is its place in the order of the replacements;  *)
(* version 0 is what was there before.                                     *)
(***************************************************************************)
EXTENDS Naturals, Sequences

CONSTANTS
    Writers,    \* processes that write the roster, each with its own content
    Names,      \* names of temporary files
    Attempts,   \* how many names are tried: 32
    MaxCrashes, \* bound of the model: losses of power
    None

ASSUME RosterConstants ==
    /\ Attempts \in Nat \ {0}
    /\ MaxCrashes \in Nat
    /\ None \notin Writers \cup Names

VARIABLES
    temporaries, \* of each name: the content of its file, "none" if it has none
    versions,    \* the content of each version that was put in place
    roster,      \* the version the name of the roster stands for
    durable,     \* the oldest version a loss of power may bring back
    torn,        \* a loss of power left a roster with missing content
    pc,          \* where each writer is
    tries,       \* names it has tried
    temporary,   \* temporary_name, once its file exists
    put,         \* history: the version it put in place, 0 for none
    crashes

disk == <<temporaries, versions, roster, durable, torn, crashes>>
locals == <<pc, tries, temporary, put>>
vars == <<disk, locals>>

Contents == {"none", "empty", "written", "synced"}

Active == {"create", "write", "sync", "replace", "syncdir"}

Init ==
    /\ temporaries = [n \in Names |-> "none"]
    /\ versions = <<>>
    /\ roster = 0
    /\ durable = 0
    /\ torn = FALSE
    /\ pc = [w \in Writers |-> "idle"]
    /\ tries = [w \in Writers |-> 0]
    /\ temporary = [w \in Writers |-> None]
    /\ put = [w \in Writers |-> 0]
    /\ crashes = 0

Go(w, place) == pc' = [pc EXCEPT ![w] = place]

-----------------------------------------------------------------------------
\* The arguments are valid, the directory opens, the roster is no symbolic link.
Begin(w) ==
    /\ pc[w] = "idle"
    /\ Go(w, "create")
    /\ UNCHANGED <<disk, tries, temporary, put>>

Refuse(w) ==
    /\ pc[w] = "idle"
    /\ Go(w, "failed")
    /\ UNCHANGED <<disk, tries, temporary, put>>

\* O_EXCL: the name is taken, the next one is tried.  That every one of the
\* random names is taken is left out.
Collide(w, name) ==
    /\ pc[w] = "create"
    /\ temporaries[name] # "none"
    /\ tries[w] < Attempts - 1
    /\ tries' = [tries EXCEPT ![w] = @ + 1]
    /\ UNCHANGED <<disk, pc, temporary, put>>

Create(w, name) ==
    /\ pc[w] = "create"
    /\ temporaries[name] = "none"
    /\ temporaries' = [temporaries EXCEPT ![name] = "empty"]
    /\ temporary' = [temporary EXCEPT ![w] = name]
    /\ Go(w, "write")
    /\ UNCHANGED <<versions, roster, durable, torn, crashes, tries, put>>

FileBecomes(w, content, place) ==
    /\ temporaries' = [temporaries EXCEPT ![temporary[w]] = content]
    /\ Go(w, place)
    /\ UNCHANGED <<versions, roster, durable, torn, crashes, tries, temporary, put>>

Write(w) == pc[w] = "write" /\ FileBecomes(w, "written", "sync")

\* Mutant: the file is not synced.
SyncNothing(w) == pc[w] = "sync" /\ FileBecomes(w, "written", "replace")

Sync(w) == pc[w] = "sync" /\ FileBecomes(w, "synced", "replace")

\* os.replace: the file takes the name of the roster.
Replace(w) ==
    /\ pc[w] = "replace"
    /\ versions' = Append(versions, temporaries[temporary[w]])
    /\ roster' = Len(versions) + 1
    /\ put' = [put EXCEPT ![w] = Len(versions) + 1]
    /\ temporaries' = [temporaries EXCEPT ![temporary[w]] = "none"]
    /\ temporary' = [temporary EXCEPT ![w] = None]
    /\ Go(w, "syncdir")
    /\ UNCHANGED <<durable, torn, crashes, tries>>

\* Mutant: the directory is not synced.
SyncDirectoryNot(w) ==
    /\ pc[w] = "syncdir"
    /\ Go(w, "done")
    /\ UNCHANGED <<durable, temporaries, versions, roster, torn, crashes, tries,
                   temporary, put>>

\* The replacements made so far survive a loss of power.
SyncDirectory(w) ==
    /\ pc[w] = "syncdir"
    /\ durable' = roster
    /\ Go(w, "done")
    /\ UNCHANGED <<temporaries, versions, roster, torn, crashes, tries, temporary, put>>

\* Mutant: the temporary file is left behind.
FailLittering(w) ==
    /\ pc[w] \in Active
    /\ Go(w, "failed")
    /\ UNCHANGED <<disk, tries, temporary, put>>

\* A system call fails: `finally' unlinks the temporary file.  If it is the
\* creation that failed, the name it tried has no file.
Fail(w) ==
    /\ pc[w] \in Active
    /\ Go(w, "failed")
    /\ temporaries' = [n \in Names |->
                          IF n = temporary[w] THEN "none" ELSE temporaries[n]]
    /\ temporary' = [temporary EXCEPT ![w] = None]
    /\ UNCHANGED <<versions, roster, durable, torn, crashes, tries, put>>

-----------------------------------------------------------------------------
\* The process dies; its temporary file stays.
Die(w) ==
    /\ pc[w] \in Active
    /\ Go(w, "dead")
    /\ temporary' = [temporary EXCEPT ![w] = None]
    /\ UNCHANGED <<disk, tries, put>>

\* Power is lost: every process dies, some version since the last sync of the
\* directory is back, and content that was not synced is missing.
LosePower ==
    /\ crashes < MaxCrashes
    /\ crashes' = crashes + 1
    /\ \E v \in durable .. roster :
          /\ roster' = v
          /\ durable' = v
          /\ torn' = (v # 0 /\ versions[v] # "synced")
          /\ versions' = SubSeq(versions, 1, v)
    /\ pc' = [w \in Writers |-> IF pc[w] \in Active THEN "dead" ELSE pc[w]]
    /\ temporary' = [w \in Writers |-> None]
    /\ temporaries' = [n \in Names |-> IF temporaries[n] = "none" THEN "none" ELSE "empty"]
    /\ UNCHANGED <<tries, put>>

-----------------------------------------------------------------------------
WriteRoster(w) ==
    \/ Begin(w) \/ Refuse(w)
    \/ \E n \in Names : Collide(w, n) \/ Create(w, n)
    \/ Write(w) \/ Sync(w) \/ Replace(w) \/ SyncDirectory(w)
    \/ Fail(w) \/ Die(w)

Next == LosePower \/ \E w \in Writers : WriteRoster(w)

Spec == Init /\ [][Next]_vars

-----------------------------------------------------------------------------
TypeOK ==
    /\ temporaries \in [Names -> Contents]
    /\ versions \in Seq({"written", "synced"})
    /\ roster = Len(versions)
    /\ durable \in 0 .. roster
    /\ torn \in BOOLEAN
    /\ pc \in [Writers -> Active \cup {"idle", "done", "failed", "dead"}]
    /\ tries \in [Writers -> 0 .. Attempts - 1]
    /\ temporary \in [Writers -> Names \cup {None}]
    /\ put \in [Writers -> Nat]
    /\ crashes \in 0 .. MaxCrashes

(***************************************************************************)
(* Whoever opens the roster finds all of one version of it, the old or a   *)
(* new one, whatever failed, died or lost power in between                 *)
(* (write_media_edge_source_roster.py:86-104).                             *)
(***************************************************************************)
RosterIsWhole ==
    ~torn /\ (roster # 0 => versions[roster] \in {"written", "synced"})

(***************************************************************************)
(* A writer that reported success is never undone: not by a loss of power, *)
(* only by a later replacement (write_media_edge_source_roster.py:97-104). *)
(***************************************************************************)
SuccessLasts ==
    \A w \in Writers : pc[w] = "done" => roster >= put[w]

\* A writer that ended, well or not, left no temporary file; only one that was
\* killed may (write_media_edge_source_roster.py:105-110).
NoLitter ==
    (\A w \in Writers : pc[w] # "dead") =>
        \A n \in Names : temporaries[n] # "none" =>
            \E w \in Writers : pc[w] \in Active /\ temporary[w] = n
=============================================================================
