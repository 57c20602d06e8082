--------------------------- MODULE SourceRosterProofs ---------------------------
(***************************************************************************)
(* Proofs about SourceRoster for any number of writers, names and losses   *)
(* of power.                                                               *)
(***************************************************************************)
EXTENDS SourceRoster, SequenceTheorems, TLAPS

Holds(w) == pc[w] \in {"write", "sync", "replace"}

\* What is in the file a writer holds.
Progress(place) ==
    CASE place = "write" -> "empty" [] place = "sync" -> "written" [] OTHER -> "synced"

\* A writer holds a file of its own from its creation to its replacement, and
\* knows its content.
HolderInv ==
    \A w \in Writers :
        /\ Holds(w) <=> temporary[w] # None
        /\ Holds(w) => temporaries[temporary[w]] = Progress(pc[w])
        /\ \A v \in Writers :
               v # w /\ Holds(v) /\ Holds(w) => temporary[v] # temporary[w]

\* Only synced files were put in place.
SyncedInv == ~torn /\ \A i \in 1 .. Len(versions) : versions[i] = "synced"

\* What a writer reported is durable; what it put in place is still there.
DurableInv ==
    \A w \in Writers : /\ pc[w] = "done" => put[w] <= durable
                       /\ pc[w] = "syncdir" => put[w] <= roster

IInv == TypeOK /\ HolderInv /\ SyncedInv /\ DurableInv /\ NoLitter

\* A writer's step keeps the types.
LEMMA WriterKeepsTypes ==
    ASSUME TypeOK, HolderInv, NEW w \in Writers, WriteRoster(w)
    PROVE  TypeOK'
<1> USE RosterConstants DEF Active, Contents, disk, Go
<1>1. CASE Begin(w)
  BY <1>1 DEF Begin, TypeOK
<1>2. CASE Refuse(w)
  BY <1>2 DEF Refuse, TypeOK
<1>3. ASSUME NEW n \in Names, Collide(w, n)
      PROVE  TypeOK'
  BY <1>3 DEF Collide, TypeOK
<1>4. ASSUME NEW n \in Names, Create(w, n)
      PROVE  TypeOK'
  BY <1>4 DEF Create, TypeOK
<1>5. CASE Write(w)
  BY <1>5 DEF Write, FileBecomes, TypeOK
<1>6. CASE Sync(w)
  BY <1>6 DEF Sync, FileBecomes, TypeOK
<1>7. CASE Replace(w)
  <2>1. temporaries[temporary[w]] = "synced"
    BY <1>7 DEF Replace, HolderInv, Holds, Progress
  <2>2. /\ versions' = Append(versions, "synced")
        /\ versions' \in Seq({"written", "synced"})
        /\ Len(versions') = Len(versions) + 1
    BY <1>7, <2>1 DEF Replace, TypeOK
  <2>3. roster' = Len(versions') /\ roster' \in Nat /\ durable' \in 0 .. roster'
    BY <1>7, <2>2 DEF Replace, TypeOK
  <2>4. /\ temporaries' \in [Names -> Contents]
        /\ temporary' \in [Writers -> Names \cup {None}]
        /\ put' \in [Writers -> Nat]
        /\ pc' \in [Writers -> Active \cup {"idle", "done", "failed", "dead"}]
    BY <1>7, <2>2, <2>3 DEF Replace, TypeOK
  <2>5. QED
    BY <1>7, <2>2, <2>3, <2>4 DEF Replace, TypeOK
<1>8. CASE SyncDirectory(w)
  BY <1>8 DEF SyncDirectory, TypeOK
<1>9. CASE Fail(w)
  BY <1>9 DEF Fail, TypeOK
<1>10. CASE Die(w)
  BY <1>10 DEF Die, TypeOK
<1>11. QED
  BY <1>1, <1>2, <1>3, <1>4, <1>5, <1>6, <1>7, <1>8, <1>9, <1>10 DEF WriteRoster

\* A writer's step keeps what is said of the files of the writers.
LEMMA WriterKeepsFiles ==
    ASSUME IInv, NEW w \in Writers, WriteRoster(w)
    PROVE  HolderInv' /\ NoLitter'
<1> USE RosterConstants
    DEF Active, Contents, disk, Go, IInv, TypeOK, HolderInv, Holds, Progress, NoLitter
<1>1. CASE Begin(w)
  BY <1>1 DEF Begin
<1>2. CASE Refuse(w)
  BY <1>2 DEF Refuse
<1>3. ASSUME NEW n \in Names, Collide(w, n)
      PROVE  HolderInv' /\ NoLitter'
  BY <1>3 DEF Collide
<1>4. ASSUME NEW n \in Names, Create(w, n)
      PROVE  HolderInv' /\ NoLitter'
  BY <1>4 DEF Create
<1>5. CASE Write(w)
  BY <1>5 DEF Write, FileBecomes
<1>6. CASE Sync(w)
  BY <1>6 DEF Sync, FileBecomes
<1>7. CASE Replace(w)
  BY <1>7 DEF Replace
<1>8. CASE SyncDirectory(w)
  BY <1>8 DEF SyncDirectory
<1>9. CASE Fail(w)
  BY <1>9 DEF Fail
<1>10. CASE Die(w)
  BY <1>10 DEF Die
<1>11. QED
  BY <1>1, <1>2, <1>3, <1>4, <1>5, <1>6, <1>7, <1>8, <1>9, <1>10 DEF WriteRoster

\* A writer's step keeps what is said of the versions.
LEMMA WriterKeepsVersions ==
    ASSUME IInv, NEW w \in Writers, WriteRoster(w)
    PROVE  SyncedInv' /\ DurableInv'
<1> USE RosterConstants DEF Active, disk, Go, IInv, TypeOK, SyncedInv, DurableInv
<1>1. CASE Begin(w)
  BY <1>1 DEF Begin
<1>2. CASE Refuse(w)
  BY <1>2 DEF Refuse
<1>3. ASSUME NEW n \in Names, Collide(w, n) \/ Create(w, n)
      PROVE  SyncedInv' /\ DurableInv'
  BY <1>3 DEF Collide, Create
<1>4. CASE Write(w) \/ Sync(w)
  BY <1>4 DEF Write, Sync, FileBecomes
<1>5. CASE Replace(w)
  <2>1. temporaries[temporary[w]] = "synced"
    BY <1>5 DEF Replace, HolderInv, Holds, Progress
  <2>2. /\ Len(versions') = Len(versions) + 1
        /\ \A i \in 1 .. Len(versions') : versions'[i] = "synced"
    BY <1>5, <2>1 DEF Replace
  <2>3. SyncedInv'
    BY <1>5, <2>2 DEF Replace
  <2>4. DurableInv'
    BY <1>5, <2>2 DEF Replace
  <2>5. QED
    BY <2>3, <2>4
<1>6. CASE SyncDirectory(w)
  BY <1>6 DEF SyncDirectory
<1>7. CASE Fail(w)
  BY <1>7 DEF Fail
<1>8. CASE Die(w)
  BY <1>8 DEF Die
<1>9. QED
  BY <1>1, <1>2, <1>3, <1>4, <1>5, <1>6, <1>7, <1>8 DEF WriteRoster

\* A loss of power keeps the invariant: it takes every file from its holder, and
\* nothing that was synced.
LEMMA LossKeepsInvariant == IInv /\ LosePower => IInv'
<1> SUFFICES ASSUME IInv, LosePower
             PROVE  IInv'
  OBVIOUS
<1> USE RosterConstants DEF Active, Contents, IInv
<1>1. PICK v \in durable .. roster :
        /\ roster' = v /\ durable' = v
        /\ torn' = (v # 0 /\ versions[v] # "synced")
        /\ versions' = SubSeq(versions, 1, v)
  BY DEF LosePower
<1>2. v \in 0 .. Len(versions)
  BY DEF TypeOK
<1>3. /\ versions' \in Seq({"written", "synced"})
      /\ Len(versions') = v
      /\ \A i \in 1 .. v : versions'[i] = versions[i]
  BY <1>1, <1>2, SubSeqProperties DEF TypeOK
<1>4. TypeOK'
  <2>1. temporaries' \in [Names -> Contents] /\ temporary' \in [Writers -> Names \cup {None}]
    BY DEF LosePower, TypeOK
  <2>2. pc' \in [Writers -> Active \cup {"idle", "done", "failed", "dead"}]
    BY DEF LosePower, TypeOK
  <2>3. crashes' \in 0 .. MaxCrashes
    BY DEF LosePower, TypeOK
  <2>4. QED
    BY <1>1, <1>2, <1>3, <2>1, <2>2, <2>3 DEF LosePower, TypeOK
<1>5. HolderInv'
  BY DEF LosePower, HolderInv, Holds, TypeOK
<1>6. SyncedInv'
  BY <1>1, <1>2, <1>3 DEF SyncedInv, TypeOK
<1>7. DurableInv'
  BY <1>1, <1>2 DEF LosePower, DurableInv, TypeOK
<1>8. NoLitter'
  BY DEF LosePower, HolderInv, Holds, NoLitter, TypeOK
<1>9. QED
  BY <1>4, <1>5, <1>6, <1>7, <1>8

\* The invariant is inductive.
LEMMA Invariant == Spec => []IInv
<1>1. Init => IInv
  <2> SUFFICES ASSUME Init
               PROVE  IInv
    OBVIOUS
  <2> USE RosterConstants DEF Init, Active, Contents
  <2>1. TypeOK
    <3>1. versions \in Seq({"written", "synced"}) /\ Len(versions) = 0
      OBVIOUS
    <3>2. tries \in [Writers -> 0 .. Attempts - 1]
      BY 0 \in 0 .. Attempts - 1
    <3>3. /\ roster = Len(versions) /\ durable \in 0 .. roster
          /\ crashes \in 0 .. MaxCrashes
      BY <3>1
    <3>4. /\ temporaries \in [Names -> Contents]
          /\ temporary \in [Writers -> Names \cup {None}]
          /\ put \in [Writers -> Nat]
          /\ pc \in [Writers -> Active \cup {"idle", "done", "failed", "dead"}]
          /\ torn \in BOOLEAN
      OBVIOUS
    <3>5. QED
      BY <3>1, <3>2, <3>3, <3>4 DEF TypeOK
  <2>2. HolderInv
    BY DEF HolderInv, Holds
  <2>3. SyncedInv /\ DurableInv /\ NoLitter
    BY DEF SyncedInv, DurableInv, NoLitter
  <2>4. QED
    BY <2>1, <2>2, <2>3 DEF IInv
<1>2. IInv /\ [Next]_vars => IInv'
  <2> SUFFICES ASSUME IInv, [Next]_vars
               PROVE  IInv'
    OBVIOUS
  <2>1. CASE LosePower
    BY <2>1, LossKeepsInvariant
  <2>2. ASSUME NEW w \in Writers, WriteRoster(w)
        PROVE  IInv'
    <3>1. TypeOK'
      BY <2>2, WriterKeepsTypes DEF IInv
    <3>2. HolderInv' /\ NoLitter'
      BY <2>2, WriterKeepsFiles
    <3>3. SyncedInv' /\ DurableInv'
      BY <2>2, WriterKeepsVersions
    <3>4. QED
      BY <3>1, <3>2, <3>3 DEF IInv
  <2>3. CASE UNCHANGED vars
    BY <2>3 DEF vars, disk, locals, IInv, TypeOK, HolderInv, Holds, SyncedInv, DurableInv, NoLitter
  <2>4. QED
    BY <2>1, <2>2, <2>3 DEF Next
<1>3. QED
  BY <1>1, <1>2, PTL DEF Spec

\* The roster is whole at every moment: only a synced file ever takes its name.
THEOREM RosterAlwaysWhole == Spec => []RosterIsWhole
<1>1. IInv => RosterIsWhole
  BY DEF IInv, TypeOK, SyncedInv, RosterIsWhole
<1>2. QED
  BY <1>1, Invariant, PTL

\* A success that was reported outlives every loss of power.
THEOREM SuccessIsDurable == Spec => []SuccessLasts
<1>1. IInv => SuccessLasts
  BY DEF IInv, TypeOK, DurableInv, SuccessLasts
<1>2. QED
  BY <1>1, Invariant, PTL

\* Only a writer that was killed leaves a temporary file.
THEOREM WritersCleanUp == Spec => []NoLitter
<1>1. IInv => NoLitter
  BY DEF IInv
<1>2. QED
  BY <1>1, Invariant, PTL
=============================================================================
