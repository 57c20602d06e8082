---------------------- MODULE AnnexBAccessUnitsProofs ----------------------
(***************************************************************************)
(* Proofs about the parser of AnnexBAccessUnits, for every stream, every   *)
(* way to cut it into reads and every bound on the size of a unit.  What   *)
(* the loop of feed makes of a read is shown by induction over its turns.  *)
(***************************************************************************)
EXTENDS AnnexBAccessUnits, SequenceTheorems, FiniteSetTheorems, WellFoundedInduction,
        TLAPS

\* A set of numbers that is not empty has a least element, which is its Min.
LEMMA MinIsLeast ==
    ASSUME NEW S \in SUBSET Nat, S # {}
    PROVE  Min(S) \in S /\ \A k \in S : Min(S) <= k
<1>1. PICK m \in S : \A k \in S : <<k, m>> \notin OpToRel(<, Nat)
  BY WFMin, NatLessThanWellFounded, Zenon
<1>2. \A k \in S : ~(k < m)
  BY <1>1, Zenon DEF OpToRel
<1>3. m \in S /\ S \subseteq Nat
  OBVIOUS
<1>4. \A k \in S : m <= k
  BY <1>2, <1>3
<1>5. QED
  BY <1>4, Zenon DEF Min

\* Induction over the numbers, for sets: a counterexample would have a least one.
LEMMA Induction ==
    ASSUME NEW S, 0 \in S, \A n \in Nat : n \in S => n + 1 \in S
    PROVE  \A n \in Nat : n \in S
<1> DEFINE missed == Nat \ S
           m == Min(missed)
<1>1. SUFFICES ASSUME missed # {}
               PROVE  FALSE
  OBVIOUS
<1>2. m \in missed /\ \A k \in missed : m <= k
  BY <1>1, MinIsLeast
<1> HIDE DEF m
<1>3. m # 0 /\ m - 1 \in Nat
  BY <1>2
<1>4. m - 1 \in S
  BY <1>2, <1>3
<1>5. QED
  BY <1>2, <1>3, <1>4

-----------------------------------------------------------------------------
(***************************************************************************)
(* Delimiters, byte by byte.                                               *)
(***************************************************************************)
ShortAt(s, i) ==
    /\ i + 3 <= Len(s)
    /\ s[i] = 0 /\ s[i + 1] = 0 /\ s[i + 2] = 1 /\ s[i + 3] = 9

LongAt(s, i) ==
    /\ i + 4 <= Len(s)
    /\ s[i] = 0 /\ s[i + 1] = 0 /\ s[i + 2] = 0 /\ s[i + 3] = 1 /\ s[i + 4] = 9

\* A short delimiter occurs where its four bytes stand.
LEMMA ShortOccurs ==
    ASSUME NEW s \in Seq(Bytes), NEW i \in Nat \ {0}
    PROVE  Occurs(ShortDelimiter, s, i) <=> ShortAt(s, i)
<1>1. Len(s) \in Nat
  BY LenProperties
<1>2. CASE i + 3 <= Len(s)
  <2> DEFINE part == SubSeq(s, i, i + 3)
  <2>1. \A k \in i .. i + 3 : s[k] \in Bytes
    BY <1>1, <1>2, ElementOfSeq
  <2>2. /\ part \in Seq(Bytes) /\ Len(part) = 4
        /\ \A k \in 1 .. 4 : part[k] = s[i + k - 1]
    BY <2>1, SubSeqProperties
  <2> HIDE DEF part
  <2>3. part[1] = s[i] /\ part[2] = s[i + 1] /\ part[3] = s[i + 2] /\ part[4] = s[i + 3]
    BY <2>2
  <2>4. part = <<part[1], part[2], part[3], part[4]>>
    BY <2>2
  <2>5. part = <<0, 0, 1, 9>>
        <=> s[i] = 0 /\ s[i + 1] = 0 /\ s[i + 2] = 1 /\ s[i + 3] = 9
    BY <2>3, <2>4
  <2>6. QED
    BY <1>2, <2>5 DEF Occurs, ShortDelimiter, ShortAt, part
<1>3. CASE ~(i + 3 <= Len(s))
  BY <1>1, <1>3 DEF Occurs, ShortDelimiter, ShortAt
<1>4. QED
  BY <1>2, <1>3

\* A long delimiter occurs where its five bytes stand.
LEMMA LongOccurs ==
    ASSUME NEW s \in Seq(Bytes), NEW i \in Nat \ {0}
    PROVE  Occurs(LongDelimiter, s, i) <=> LongAt(s, i)
<1>1. Len(s) \in Nat
  BY LenProperties
<1>2. CASE i + 4 <= Len(s)
  <2> DEFINE part == SubSeq(s, i, i + 4)
  <2>1. \A k \in i .. i + 4 : s[k] \in Bytes
    BY <1>1, <1>2, ElementOfSeq
  <2>2. /\ part \in Seq(Bytes) /\ Len(part) = 5
        /\ \A k \in 1 .. 5 : part[k] = s[i + k - 1]
    BY <2>1, SubSeqProperties
  <2> HIDE DEF part
  <2>3. /\ part[1] = s[i] /\ part[2] = s[i + 1] /\ part[3] = s[i + 2]
        /\ part[4] = s[i + 3] /\ part[5] = s[i + 4]
    BY <2>2
  <2>4. part = <<part[1], part[2], part[3], part[4], part[5]>>
    BY <2>2
  <2>5. part = <<0, 0, 0, 1, 9>>
        <=> s[i] = 0 /\ s[i + 1] = 0 /\ s[i + 2] = 0 /\ s[i + 3] = 1 /\ s[i + 4] = 9
    BY <2>3, <2>4, SMTT(30)
  <2>6. QED
    BY <1>2, <2>5 DEF Occurs, LongDelimiter, LongAt, part
<1>3. CASE ~(i + 4 <= Len(s))
  BY <1>1, <1>3 DEF Occurs, LongDelimiter, LongAt
<1>4. QED
  BY <1>2, <1>3

\* Where the pattern matches, which of its matches start a delimiter, and where
\* a match ends.
LEMMA DelimiterBytes ==
    ASSUME NEW s \in Seq(Bytes)
    PROVE  /\ \A n \in Nat : \A i : i \in Matches(s, n) <=>
                 i \in Nat /\ i > n /\ (ShortAt(s, i) \/ LongAt(s, i))
           /\ \A i : i \in Delimiters(s) <=>
                 /\ i \in Nat \ {0}
                 /\ ShortAt(s, i) \/ LongAt(s, i)
                 /\ i > 1 => ~LongAt(s, i - 1)
           /\ \A i \in Nat \ {0} :
                 MatchEnd(s, i) = IF ShortAt(s, i) THEN i + 3 ELSE i + 4
<1>1. Len(s) \in Nat
  BY LenProperties
<1>2. ASSUME NEW n \in Nat, NEW i
      PROVE  i \in Matches(s, n) <=>
                i \in Nat /\ i > n /\ (ShortAt(s, i) \/ LongAt(s, i))
  <2>1. i \in n + 1 .. Len(s) => i \in Nat \ {0}
    OBVIOUS
  <2>2. i \in Nat /\ i > n /\ (ShortAt(s, i) \/ LongAt(s, i))
        => i \in n + 1 .. Len(s) /\ i \in Nat \ {0}
    BY <1>1 DEF ShortAt, LongAt
  <2>3. i \in n + 1 .. Len(s) => i \in Nat /\ i > n
    OBVIOUS
  <2>4. i \in Matches(s, n) <=> i \in n + 1 .. Len(s) /\
           (Occurs(ShortDelimiter, s, i) \/ Occurs(LongDelimiter, s, i))
    BY DEF Matches
  <2>5. i \in Nat \ {0} =>
           /\ Occurs(ShortDelimiter, s, i) <=> ShortAt(s, i)
           /\ Occurs(LongDelimiter, s, i) <=> LongAt(s, i)
    BY ShortOccurs, LongOccurs
  <2>6. QED
    BY <2>1, <2>2, <2>3, <2>4, <2>5
<1>3. ASSUME NEW i
      PROVE  i \in Delimiters(s) <=>
                /\ i \in Nat \ {0}
                /\ ShortAt(s, i) \/ LongAt(s, i)
                /\ i > 1 => ~LongAt(s, i - 1)
  <2>1. i \in Nat \ {0} /\ i > 1 => (Occurs(LongDelimiter, s, i - 1) <=> LongAt(s, i - 1))
    <3>1. i \in Nat \ {0} /\ i > 1 => i - 1 \in Nat \ {0}
      OBVIOUS
    <3>2. QED
      BY <3>1, LongOccurs
  <2>2. i \in Matches(s, 0) <=> i \in Nat \ {0} /\ (ShortAt(s, i) \/ LongAt(s, i))
    BY <1>2
  <2>3. i \in Delimiters(s) <=>
           i \in Matches(s, 0) /\ ~(i > 1 /\ Occurs(LongDelimiter, s, i - 1))
    BY DEF Delimiters
  <2>4. QED
    BY <2>1, <2>2, <2>3
<1>4. ASSUME NEW i \in Nat \ {0}
      PROVE  MatchEnd(s, i) = IF ShortAt(s, i) THEN i + 3 ELSE i + 4
  BY ShortOccurs DEF MatchEnd
<1>5. QED
  BY <1>2, <1>3, <1>4

\* A delimiter ends within its stream, three bytes after its start or later.
LEMMA DelimiterEnds ==
    ASSUME NEW s \in Seq(Bytes), NEW i \in Delimiters(s)
    PROVE  /\ i \in Nat \ {0}
           /\ MatchEnd(s, i) \in Nat
           /\ i + 3 <= MatchEnd(s, i) /\ MatchEnd(s, i) <= Len(s)
<1>1. i \in Nat \ {0} /\ (ShortAt(s, i) \/ LongAt(s, i))
  BY DelimiterBytes
<1>2. MatchEnd(s, i) = IF ShortAt(s, i) THEN i + 3 ELSE i + 4
  BY <1>1, DelimiterBytes
<1>3. Len(s) \in Nat
  BY LenProperties
<1>4. QED
  BY <1>1, <1>2, <1>3 DEF ShortAt, LongAt

-----------------------------------------------------------------------------
(***************************************************************************)
(* A stream and what it may go on to be.                                   *)
(***************************************************************************)

\* No delimiter of the stream r, however r goes on, starts in its first n bytes
\* and ends after them.
Settled(r, n) ==
    \A t \in Seq(Bytes) :
        \A i \in Delimiters(r \o t) : i <= n => MatchEnd(r \o t, i) <= n

\* The bytes of a stream stay as it goes on.
LEMMA BytesStay ==
    ASSUME NEW r \in Seq(Bytes), NEW t \in Seq(Bytes), NEW i \in Nat \ {0}
    PROVE  /\ r \o t \in Seq(Bytes) /\ Len(r) \in Nat
           /\ Len(r \o t) \in Nat /\ Len(r) <= Len(r \o t)
           /\ i + 3 <= Len(r) => (ShortAt(r \o t, i) <=> ShortAt(r, i))
           /\ i + 4 <= Len(r) => (LongAt(r \o t, i) <=> LongAt(r, i))
<1> DEFINE s == r \o t
<1>1. s \in Seq(Bytes) /\ Len(s) = Len(r) + Len(t) /\ Len(r) \in Nat /\ Len(t) \in Nat
  BY ConcatProperties, LenProperties
<1>2. \A k \in 1 .. Len(r) : s[k] = r[k]
  BY <1>1, ConcatProperties
<1> HIDE DEF s
<1>3. i + 3 <= Len(r) => (ShortAt(s, i) <=> ShortAt(r, i))
  <2>1. i + 3 <= Len(r) => {i, i + 1, i + 2, i + 3} \subseteq 1 .. Len(r)
    BY <1>1
  <2>2. i + 3 <= Len(r) =>
           s[i] = r[i] /\ s[i + 1] = r[i + 1] /\ s[i + 2] = r[i + 2] /\ s[i + 3] = r[i + 3]
    BY <1>2, <2>1, Zenon
  <2>3. QED
    BY <1>1, <2>2 DEF ShortAt
<1>4. i + 4 <= Len(r) => (LongAt(s, i) <=> LongAt(r, i))
  <2>1. i + 4 <= Len(r) => {i, i + 1, i + 2, i + 3, i + 4} \subseteq 1 .. Len(r)
    BY <1>1
  <2>2. i + 4 <= Len(r) =>
           /\ s[i] = r[i] /\ s[i + 1] = r[i + 1] /\ s[i + 2] = r[i + 2]
           /\ s[i + 3] = r[i + 3] /\ s[i + 4] = r[i + 4]
    BY <1>2, <2>1, Zenon
  <2>3. QED
    BY <1>1, <2>2 DEF LongAt
<1>5. QED
  BY <1>1, <1>3, <1>4 DEF s

\* A delimiter of a stream is one of what the stream becomes, and the other way
\* round when it ends within the stream.
LEMMA DelimiterStays ==
    ASSUME NEW r \in Seq(Bytes), NEW t \in Seq(Bytes), NEW i
    PROVE  /\ i \in Delimiters(r) <=>
                 i \in Delimiters(r \o t) /\ MatchEnd(r \o t, i) <= Len(r)
           /\ i \in Delimiters(r) => MatchEnd(r \o t, i) = MatchEnd(r, i)
<1> DEFINE s == r \o t
<1>1. CASE i \in Nat \ {0}
  <2>1. /\ s \in Seq(Bytes) /\ Len(r) \in Nat /\ Len(s) \in Nat /\ Len(r) <= Len(s)
        /\ i + 3 <= Len(r) => (ShortAt(s, i) <=> ShortAt(r, i))
        /\ i + 4 <= Len(r) => (LongAt(s, i) <=> LongAt(r, i))
    BY <1>1, BytesStay
  <2>2. i > 1 /\ i + 3 <= Len(r) => (LongAt(s, i - 1) <=> LongAt(r, i - 1))
    <3>1. i > 1 => i - 1 \in Nat \ {0} /\ i - 1 + 4 = i + 3
      BY <1>1
    <3>2. QED
      BY <1>1, <3>1, BytesStay
  <2>3. /\ ShortAt(r, i) => i + 3 <= Len(r)
        /\ LongAt(r, i) => i + 4 <= Len(r) /\ i + 3 <= Len(r)
        /\ LongAt(r, i) => ~ShortAt(r, i)
        /\ LongAt(s, i) => ~ShortAt(s, i)
    BY <1>1, <2>1 DEF ShortAt, LongAt
  <2>4. /\ i \in Delimiters(r) <=>
              (ShortAt(r, i) \/ LongAt(r, i)) /\ (i > 1 => ~LongAt(r, i - 1))
        /\ i \in Delimiters(s) <=>
              (ShortAt(s, i) \/ LongAt(s, i)) /\ (i > 1 => ~LongAt(s, i - 1))
        /\ MatchEnd(r, i) = IF ShortAt(r, i) THEN i + 3 ELSE i + 4
        /\ MatchEnd(s, i) = IF ShortAt(s, i) THEN i + 3 ELSE i + 4
    BY <1>1, <2>1, DelimiterBytes
  <2> HIDE DEF s
  <2>5. i \in Delimiters(r) => i \in Delimiters(s) /\ MatchEnd(s, i) <= Len(r)
    BY <1>1, <2>1, <2>2, <2>3, <2>4
  <2>6. i \in Delimiters(s) /\ MatchEnd(s, i) <= Len(r) => i \in Delimiters(r)
    <3>1. CASE ShortAt(s, i)
      BY <1>1, <2>1, <2>2, <2>4, <3>1
    <3>2. CASE ~ShortAt(s, i)
      BY <1>1, <2>1, <2>2, <2>3, <2>4, <3>2
    <3>3. QED
      BY <3>1, <3>2
  <2>7. i \in Delimiters(r) => MatchEnd(s, i) = MatchEnd(r, i)
    BY <1>1, <2>1, <2>3, <2>4
  <2>8. QED
    BY <2>5, <2>6, <2>7 DEF s
<1>2. CASE i \notin Nat \ {0}
  <2>1. i \notin Delimiters(r) /\ i \notin Delimiters(s)
    BY <1>2, ConcatProperties, DelimiterBytes
  <2>2. QED
    BY <2>1
<1>3. QED
  BY <1>1, <1>2

\* What is settled stays so, with the same delimiters, as the stream goes on.
LEMMA SettledStays ==
    ASSUME NEW r \in Seq(Bytes), NEW t \in Seq(Bytes), NEW n \in Nat, n <= Len(r),
           Settled(r, n)
    PROVE  /\ Settled(r \o t, n)
           /\ \A i : i <= n => (i \in Delimiters(r \o t) <=> i \in Delimiters(r))
<1>1. Settled(r \o t, n)
  <2>1. ASSUME NEW u \in Seq(Bytes), NEW i \in Delimiters((r \o t) \o u), i <= n
        PROVE  MatchEnd((r \o t) \o u, i) <= n
    <3>1. (r \o t) \o u = r \o (t \o u) /\ t \o u \in Seq(Bytes)
      BY ConcatAssociative, ConcatProperties, SMTT(30)
    <3>2. QED
      BY <2>1, <3>1 DEF Settled
  <2>2. QED
    BY <2>1 DEF Settled
<1>2. ASSUME NEW i, i <= n
      PROVE  i \in Delimiters(r \o t) <=> i \in Delimiters(r)
  <2>1. i \in Delimiters(r) => i \in Delimiters(r \o t)
    BY DelimiterStays
  <2>2. ASSUME i \in Delimiters(r \o t)
        PROVE  i \in Delimiters(r)
    <3>1. MatchEnd(r \o t, i) <= n
      BY <1>2, <2>2 DEF Settled
    <3>2. Len(r) \in Nat
      BY LenProperties
    <3>3. MatchEnd(r \o t, i) \in Nat
      BY <2>2, ConcatProperties, DelimiterEnds
    <3>4. MatchEnd(r \o t, i) <= Len(r)
      BY <3>1, <3>2, <3>3
    <3>5. QED
      BY <2>2, <3>4, DelimiterStays
  <2>3. QED
    BY <2>1, <2>2
<1>3. QED
  BY <1>1, <1>2

\* So do the cuts: the first delimiter stays the first.
LEMMA CutsStay ==
    ASSUME NEW r \in Seq(Bytes), NEW t \in Seq(Bytes), NEW n \in Nat, n <= Len(r),
           Settled(r, n)
    PROVE  \A i : i <= n => (i \in Cuts(r \o t) <=> i \in Cuts(r))
<1> DEFINE d == Delimiters(r)
           e == Delimiters(r \o t)
<1>1. d \subseteq Nat /\ e \subseteq Nat
  BY ConcatProperties, DelimiterBytes
<1>2. \A i : i <= n => (i \in e <=> i \in d)
  BY SettledStays
<1>3. /\ d # {} => Min(d) \in d /\ \A k \in d : Min(d) <= k
      /\ e # {} => Min(e) \in e /\ \A k \in e : Min(e) <= k
  BY <1>1, MinIsLeast
<1>4. /\ \A i : i \in Cuts(r) <=> i \in d /\ i # Min(d)
      /\ \A i : i \in Cuts(r \o t) <=> i \in e /\ i # Min(e)
  BY DEF Cuts
<1> HIDE DEF d, e
<1>5. ASSUME NEW i, i <= n, i \in d \/ i \in e
      PROVE  Min(d) = Min(e)
  <2>1. i \in d /\ i \in e /\ i \in Nat
    BY <1>1, <1>2, <1>5
  <2>2. /\ Min(d) \in d /\ Min(d) <= i /\ Min(d) \in Nat
        /\ Min(e) \in e /\ Min(e) <= i /\ Min(e) \in Nat
    BY <1>1, <1>3, <2>1
  <2>3. Min(d) <= n /\ Min(e) <= n
    BY <1>5, <2>1, <2>2
  <2>4. Min(d) \in e /\ Min(e) \in d
    BY <1>2, <2>2, <2>3
  <2>5. Min(e) <= Min(d) /\ Min(d) <= Min(e)
    BY <1>3, <2>4
  <2>6. QED
    BY <2>2, <2>5
<1>6. QED
  BY <1>2, <1>4, <1>5

\* The first match after what is settled is the next delimiter, and settles the
\* stream up to its end.
LEMMA NextDelimiter ==
    ASSUME NEW r \in Seq(Bytes), NEW m \in Nat, Settled(r, m),
           NEW a \in Nat, a > m, ShortAt(r, a) \/ LongAt(r, a),
           \A i \in Nat : i > m /\ (ShortAt(r, i) \/ LongAt(r, i)) => a <= i
    PROVE  /\ a \in Delimiters(r)
           /\ MatchEnd(r, a) \in Nat
           /\ a + 3 <= MatchEnd(r, a) /\ MatchEnd(r, a) <= Len(r)
           /\ Settled(r, MatchEnd(r, a))
           /\ \A i : i \in Delimiters(r) /\ i <= MatchEnd(r, a)
                     <=> (i \in Delimiters(r) /\ i <= m) \/ i = a
<1> DEFINE e == MatchEnd(r, a)
<1>1. Len(r) \in Nat /\ r \o << >> = r /\ << >> \in Seq(Bytes)
  BY LenProperties, ConcatEmptySeq, EmptySeq
<1>2. e = IF ShortAt(r, a) THEN a + 3 ELSE a + 4
  BY DelimiterBytes
<1>3. e \in Nat /\ a + 3 <= e /\ e <= Len(r)
  BY <1>1, <1>2 DEF ShortAt, LongAt
<1> HIDE DEF e
<1>4. a \in Delimiters(r)
  <2>1. SUFFICES ASSUME a > 1, LongAt(r, a - 1)
                 PROVE  FALSE
    BY DelimiterBytes
  <2>2. a - 1 \in Nat \ {0}
    BY <2>1
  <2>3. a - 1 = m
    BY <2>1, <2>2
  <2>4. a - 1 > 1 => ~LongAt(r, a - 1 - 1)
    BY <2>1, <2>2 DEF LongAt
  <2>5. a - 1 \in Delimiters(r)
    BY <2>1, <2>2, <2>4, DelimiterBytes
  <2>6. \A i \in Delimiters(r) : i <= m => MatchEnd(r, i) <= m
    BY <1>1 DEF Settled
  <2>7. MatchEnd(r, a - 1) <= m
    BY <2>3, <2>5, <2>6
  <2>8. MatchEnd(r, a - 1) \in Nat /\ a - 1 + 3 <= MatchEnd(r, a - 1)
    BY <2>5, DelimiterEnds
  <2>9. QED
    BY <2>3, <2>7, <2>8
<1>5. ASSUME NEW t \in Seq(Bytes), NEW i \in Delimiters(r \o t), i <= e
      PROVE  i <= m \/ i = a
  <2> DEFINE s == r \o t
  <2>1. s \in Seq(Bytes)
    BY ConcatProperties
  <2>2. /\ i \in Nat \ {0}
        /\ ShortAt(s, i) \/ LongAt(s, i)
        /\ i > 1 => ~LongAt(s, i - 1)
    BY <1>5, <2>1, DelimiterBytes
  <2>3. /\ \A k \in Nat \ {0} : k + 3 <= Len(r) => (ShortAt(s, k) <=> ShortAt(r, k))
        /\ \A k \in Nat \ {0} : k + 4 <= Len(r) => (LongAt(s, k) <=> LongAt(r, k))
    BY BytesStay
  <2> HIDE DEF s
  <2>4. ASSUME m < i, i < a
        PROVE  FALSE
    <3>1. i + 4 <= Len(r) /\ i + 3 <= Len(r)
      BY <1>1, <1>3, <2>2, <2>4
    <3>2. ShortAt(r, i) \/ LongAt(r, i)
      BY <2>2, <2>3, <3>1
    <3>3. QED
      BY <2>2, <2>4, <3>2
  <2>5. ASSUME a < i
        PROVE  FALSE
    <3>1. s[i] = 0 /\ s[i + 1] = 0
      BY <2>2 DEF ShortAt, LongAt
    <3>2. CASE ShortAt(r, a)
      <4>1. ShortAt(s, a)
        BY <2>3, <3>2 DEF ShortAt
      <4>2. i = a + 1 \/ i = a + 2 \/ i = a + 3
        BY <1>2, <1>5, <2>2, <2>5, <3>2 DEF e
      <4>3. s[a + 2] = 1 /\ s[a + 3] = 9
        BY <4>1 DEF ShortAt
      <4>4. i = a + 1 => s[i + 1] = s[a + 2]
        OBVIOUS
      <4>5. QED
        BY <3>1, <4>2, <4>3, <4>4
    <3>3. CASE ~ShortAt(r, a)
      <4>1. LongAt(s, a)
        BY <2>3, <3>3, SMTT(30) DEF LongAt
      <4>2. i = a + 1 \/ i = a + 2 \/ i = a + 3 \/ i = a + 4
        BY <1>2, <1>5, <2>2, <2>5, <3>3 DEF e
      <4>3. s[a + 3] = 1 /\ s[a + 4] = 9
        BY <4>1 DEF LongAt
      <4>4. i # a + 1
        <5>1. i = a + 1 => i > 1 /\ i - 1 = a
          OBVIOUS
        <5>2. QED
          BY <2>2, <4>1, <5>1
      <4>5. i = a + 2 => s[i + 1] = s[a + 3]
        OBVIOUS
      <4>6. QED
        BY <3>1, <4>2, <4>3, <4>4, <4>5
    <3>4. QED
      BY <3>2, <3>3
  <2>6. QED
    BY <2>2, <2>4, <2>5
<1>6. Settled(r, e)
  <2>1. ASSUME NEW t \in Seq(Bytes), NEW i \in Delimiters(r \o t), i <= e
        PROVE  MatchEnd(r \o t, i) <= e
    <3>1. CASE i = a
      BY <1>3, <1>4, <3>1, DelimiterStays DEF e
    <3>2. CASE i <= m
      <4>1. MatchEnd(r \o t, i) <= m /\ m <= e
        BY <1>3, <3>2 DEF Settled
      <4>2. MatchEnd(r \o t, i) \in Nat
        BY ConcatProperties, DelimiterEnds
      <4>3. QED
        BY <1>3, <4>1, <4>2
    <3>3. QED
      BY <1>5, <2>1, <3>1, <3>2
  <2>2. QED
    BY <2>1 DEF Settled
<1>7. ASSUME NEW i
      PROVE  i \in Delimiters(r) /\ i <= e <=> (i \in Delimiters(r) /\ i <= m) \/ i = a
  <2>1. i \in Delimiters(r) /\ i <= e => i <= m \/ i = a
    BY <1>1, <1>5
  <2>2. i \in Delimiters(r) => i \in Nat
    BY DelimiterBytes
  <2>3. i \in Nat /\ i <= m => i <= e
    BY <1>3
  <2>4. a <= e
    BY <1>3
  <2>5. QED
    BY <1>4, <2>1, <2>2, <2>3, <2>4
<1>8. QED
  BY <1>3, <1>4, <1>6, <1>7 DEF e

-----------------------------------------------------------------------------
(***************************************************************************)
(* The cuts of a stream, in their order.                                   *)
(***************************************************************************)

\* c lists the cuts of s up to position m.
Lists(c, s, m) ==
    /\ c \in Seq(Nat \ {0})
    /\ \A j, k \in 1 .. Len(c) : j < k => c[j] < c[k]
    /\ \A i : i \in Cuts(s) /\ i <= m <=> \E k \in 1 .. Len(c) : i = c[k]

\* Where the unit number n starts, and how many bytes are before the open unit.
FromCut(c, n) == IF n = 1 THEN 1 ELSE c[n - 1]
Returned(c) == FromCut(c, Len(c) + 1) - 1

\* The numbers from 1 to n are n numbers.
LEMMA CountOfInterval ==
    ASSUME NEW n \in Nat
    PROVE  IsFiniteSet(1 .. n) /\ Cardinality(1 .. n) = n
<1>1. 1 \in Int /\ n \in Int
  OBVIOUS
<1>2. IsFiniteSet(1 .. n) /\ Cardinality(1 .. n) = IF 1 > n THEN 0 ELSE n - 1 + 1
  BY <1>1, FS_Interval, Zenon
<1>3. (IF 1 > n THEN 0 ELSE n - 1 + 1) = n
  OBVIOUS
<1>4. QED
  BY <1>2, <1>3

\* A stream has finitely many cuts, and each is a delimiter.
LEMMA CutsAreDelimiters ==
    ASSUME NEW s \in Seq(Bytes)
    PROVE  /\ IsFiniteSet(Cuts(s))
           /\ Cuts(s) \subseteq Delimiters(s)
           /\ Cuts(s) \subseteq Nat \ {0}
           /\ Cardinality(Cuts(s)) \in Nat
<1>1. Cuts(s) \subseteq Delimiters(s)
  BY DEF Cuts
<1>2. Delimiters(s) \subseteq 1 .. Len(s) /\ Len(s) \in Nat
  <2>1. Len(s) \in Nat
    BY LenProperties
  <2>2. \A i \in Delimiters(s) : i \in Nat \ {0} /\ i <= Len(s)
    BY <2>1, DelimiterEnds
  <2>3. QED
    BY <2>1, <2>2
<1>3. IsFiniteSet(1 .. Len(s))
  BY <1>2, FS_Interval
<1>4. IsFiniteSet(Cuts(s))
  BY <1>1, <1>2, <1>3, FS_Subset
<1>5. QED
  BY <1>1, <1>2, <1>4, FS_CardinalityType

\* A cut is preceded by as many cuts as the list has before it.
LEMMA CutsBefore ==
    ASSUME NEW s \in Seq(Bytes), NEW m \in Nat, NEW c, Lists(c, s, m),
           NEW k \in 1 .. Len(c)
    PROVE  Cardinality({j \in Cuts(s) : j < c[k]}) = k - 1
<1> DEFINE before == {j \in Cuts(s) : j < c[k]}
           f == [x \in 1 .. k - 1 |-> c[x]]
<1>1. /\ Len(c) \in Nat /\ k \in Nat /\ k - 1 \in Nat
      /\ \A x \in 1 .. Len(c) : c[x] \in Nat
  BY LenProperties, ElementOfSeq DEF Lists
<1>2. \A x \in 1 .. k - 1 : x \in 1 .. Len(c) /\ x < k
  BY <1>1
<1>3. \A x \in 1 .. k - 1 : f[x] \in before
  BY <1>1, <1>2 DEF Lists
<1>4. \A x, y \in 1 .. k - 1 : f[x] = f[y] => x = y
  <2>1. \A x, y \in 1 .. k - 1 : x < y => c[x] < c[y]
    BY <1>2 DEF Lists
  <2>2. ASSUME NEW x \in 1 .. k - 1, NEW y \in 1 .. k - 1, c[x] = c[y]
        PROVE  x = y
    <3>1. c[x] \in Nat /\ ~(c[x] < c[y]) /\ ~(c[y] < c[x])
      BY <1>1, <1>2, <2>2
    <3>2. ~(x < y) /\ ~(y < x)
      BY <2>1, <3>1
    <3>3. QED
      BY <3>2
  <2>3. QED
    BY <2>2
<1>5. \A j \in before : \E x \in 1 .. k - 1 : f[x] = j
  <2>1. SUFFICES ASSUME NEW j \in before
                 PROVE  \E x \in 1 .. k - 1 : c[x] = j
    OBVIOUS
  <2>2. j \in Cuts(s) /\ j \in Nat /\ j < c[k] /\ c[k] <= m
    BY CutsAreDelimiters DEF Lists
  <2>3. j <= m
    BY <1>1, <2>2
  <2>4. PICK x \in 1 .. Len(c) : j = c[x]
    BY <2>2, <2>3 DEF Lists
  <2>5. ~(k < x) /\ x # k
    <3>1. k < x => c[k] < c[x]
      BY DEF Lists
    <3>2. QED
      BY <1>1, <2>2, <2>4, <3>1
  <2>6. x \in 1 .. k - 1
    BY <1>1, <2>5
  <2>7. QED
    BY <2>4, <2>6
<1> HIDE DEF before
<1>6. f \in Bijection(1 .. k - 1, before)
  <2>1. f \in [1 .. k - 1 -> before]
    BY <1>3
  <2>2. QED
    BY <1>4, <1>5, <2>1 DEF Bijection, Injection, IsInjective, Surjection
<1>7. ExistsBijection(1 .. k - 1, before)
  BY <1>6 DEF ExistsBijection
<1>8. QED
  BY <1>1, <1>7, FS_CountingElements DEF before

\* The list has the n-th cut at its n-th place, and there may be more cuts.
LEMMA CutsInOrder ==
    ASSUME NEW s \in Seq(Bytes), NEW m \in Nat, NEW c, Lists(c, s, m)
    PROVE  /\ \A k \in 1 .. Len(c) : NthCut(s, k) = c[k]
           /\ Len(c) <= Cardinality(Cuts(s))
<1> DEFINE before(i) == {j \in Cuts(s) : j < i}
<1>1. /\ Len(c) \in Nat /\ \A x \in 1 .. Len(c) : c[x] \in Nat /\ c[x] \in Cuts(s) /\ c[x] <= m
  BY LenProperties, ElementOfSeq DEF Lists
<1>2. \A k \in 1 .. Len(c) : Cardinality(before(c[k])) = k - 1
  BY CutsBefore
<1>3. IsFiniteSet(Cuts(s)) /\ Cuts(s) \subseteq Nat
  BY CutsAreDelimiters
<1>4. ASSUME NEW k \in 1 .. Len(c)
      PROVE  NthCut(s, k) = c[k]
  <2>1. ASSUME NEW i \in Cuts(s), Cardinality(before(i)) = k - 1
        PROVE  i = c[k]
    <3>1. i \in Nat /\ c[k] \in Nat /\ c[k] <= m /\ c[k] \in Cuts(s)
      BY <1>1, <1>3
    <3>2. CASE i < c[k]
      <4>1. i <= m
        BY <3>1, <3>2
      <4>2. PICK l \in 1 .. Len(c) : i = c[l]
        BY <4>1 DEF Lists
      <4>3. l - 1 = k - 1
        BY <1>2, <2>1, <4>2
      <4>4. QED
        BY <4>2, <4>3
    <3>3. CASE c[k] < i
      <4>1. before(c[k]) \cup {c[k]} \subseteq before(i)
        BY <1>3, <3>1, <3>3
      <4>2. c[k] \notin before(c[k])
        BY <3>1
      <4>3. IsFiniteSet(before(c[k])) /\ IsFiniteSet(before(i))
        BY <1>3, FS_Subset
      <4>4. Cardinality(before(c[k])) = k - 1
        BY <1>2
      <4> HIDE DEF before
      <4>5. Cardinality(before(c[k]) \cup {c[k]}) = k - 1 + 1
        BY <4>2, <4>3, <4>4, FS_AddElement
      <4>6. Cardinality(before(c[k]) \cup {c[k]}) <= Cardinality(before(i))
        BY <4>1, <4>3, FS_Subset
      <4>7. QED
        BY <2>1, <4>5, <4>6
    <3>4. QED
      BY <3>1, <3>2, <3>3
  <2>2. c[k] \in Cuts(s) /\ Cardinality(before(c[k])) = k - 1
    BY <1>1, <1>2
  <2>3. NthCut(s, k) = CHOOSE i \in Cuts(s) : Cardinality(before(i)) = k - 1
    BY DEF NthCut
  <2> HIDE DEF before
  <2>4. QED
    BY <2>1, <2>2, <2>3
<1>5. Len(c) <= Cardinality(Cuts(s))
  <2> DEFINE f == [x \in 1 .. Len(c) |-> c[x]]
  <2>1. f \in [1 .. Len(c) -> Cuts(s)]
    BY <1>1
  <2>2. ASSUME NEW x \in 1 .. Len(c), NEW y \in 1 .. Len(c), f[x] = f[y]
        PROVE  x = y
    <3>1. c[x] \in Nat /\ c[y] \in Nat /\ c[x] = c[y]
      BY <1>1, <2>2
    <3>2. (x < y => c[x] < c[y]) /\ (y < x => c[y] < c[x])
      BY DEF Lists
    <3>3. ~(x < y) /\ ~(y < x)
      BY <3>1, <3>2
    <3>4. QED
      BY <3>3
  <2>3. f \in Injection(1 .. Len(c), Cuts(s))
    BY <2>1, <2>2 DEF Injection, IsInjective
  <2>4. Cardinality(1 .. Len(c)) <= Cardinality(Cuts(s))
    BY <1>3, <2>3, FS_Injection
  <2>5. Cardinality(1 .. Len(c)) = Len(c)
    BY <1>1, CountOfInterval
  <2>6. QED
    BY <2>4, <2>5
<1>6. QED
  BY <1>4, <1>5

\* The units of a stream, from a list of its cuts.
LEMMA UnitsFromCuts ==
    ASSUME NEW s \in Seq(Bytes), NEW m \in Nat, NEW c, Lists(c, s, m)
    PROVE  /\ \A n \in 1 .. Len(c) : Unit(s, n) = SubSeq(s, FromCut(c, n), c[n] - 1)
           /\ (\A i \in Cuts(s) : i <= m) =>
                 /\ Cardinality(Cuts(s)) = Len(c)
                 /\ Unit(s, Len(c) + 1) = SubSeq(s, Returned(c) + 1, Len(s))
<1>1. /\ Len(c) \in Nat /\ Cardinality(Cuts(s)) \in Nat
      /\ \A x \in 1 .. Len(c) : c[x] \in Nat /\ c[x] \in Cuts(s)
  BY LenProperties, ElementOfSeq, CutsAreDelimiters DEF Lists
<1>2. Len(c) <= Cardinality(Cuts(s)) /\ \A k \in 1 .. Len(c) : NthCut(s, k) = c[k]
  BY CutsInOrder
<1>3. ASSUME NEW n \in 1 .. Len(c) + 1
      PROVE  UnitStart(s, n) = FromCut(c, n)
  <2>1. n # 1 => n - 1 \in 1 .. Len(c)
    BY <1>1
  <2>2. QED
    BY <1>2, <2>1 DEF UnitStart, FromCut
<1>4. ASSUME NEW n \in 1 .. Len(c)
      PROVE  Unit(s, n) = SubSeq(s, FromCut(c, n), c[n] - 1)
  <2>1. ~(n > Cardinality(Cuts(s))) /\ n \in 1 .. Len(c) + 1
    BY <1>1, <1>2
  <2>2. UnitEnd(s, n) = c[n] - 1
    BY <1>2, <2>1 DEF UnitEnd
  <2>3. QED
    BY <1>3, <2>1, <2>2 DEF Unit
<1>5. ASSUME \A i \in Cuts(s) : i <= m
      PROVE  /\ Cardinality(Cuts(s)) = Len(c)
             /\ Unit(s, Len(c) + 1) = SubSeq(s, Returned(c) + 1, Len(s))
  <2> DEFINE f == [x \in 1 .. Len(c) |-> c[x]]
  <2>1. f \in [1 .. Len(c) -> Cuts(s)]
    BY <1>1
  <2>2. \A i \in Cuts(s) : \E x \in 1 .. Len(c) : f[x] = i
    BY <1>5 DEF Lists
  <2>3. f \in Surjection(1 .. Len(c), Cuts(s))
    BY <2>1, <2>2 DEF Surjection
  <2>4. IsFiniteSet(1 .. Len(c)) /\ Cardinality(1 .. Len(c)) = Len(c)
    BY <1>1, CountOfInterval
  <2>5. Cardinality(Cuts(s)) <= Len(c)
    BY <2>3, <2>4, FS_Surjection
  <2>6. Cardinality(Cuts(s)) = Len(c)
    BY <1>1, <1>2, <2>5
  <2>7. UnitEnd(s, Len(c) + 1) = Len(s)
    BY <1>1, <2>6 DEF UnitEnd
  <2>8. Len(c) + 1 \in 1 .. Len(c) + 1
    BY <1>1
  <2>9. FromCut(c, Len(c) + 1) \in Nat /\ Returned(c) + 1 = FromCut(c, Len(c) + 1)
    <3>1. Len(c) # 0 => Len(c) \in 1 .. Len(c) /\ Len(c) + 1 - 1 = Len(c)
      BY <1>1
    <3>2. Len(c) = 0 => Len(c) + 1 = 1
      OBVIOUS
    <3>3. FromCut(c, Len(c) + 1) \in Nat
      BY <1>1, <3>1, <3>2 DEF FromCut
    <3>4. QED
      BY <3>3 DEF Returned
  <2>10. QED
    BY <1>3, <2>6, <2>7, <2>8, <2>9 DEF Unit
<1>6. QED
  BY <1>4, <1>5

-----------------------------------------------------------------------------
(***************************************************************************)
(* A parser that was fed the stream r, with the cuts c, has returned the   *)
(* units w, holds the bytes b and goes on searching after offset n; g      *)
(* tells whether it has seen a delimiter.                                  *)
(***************************************************************************)
FollowsBy(c, r, w, b, n, g) ==
    /\ n \in Nat /\ g \in BOOLEAN
    /\ Lists(c, r, Returned(c) + n)
    /\ Returned(c) + n <= Len(r)
    /\ Settled(r, Returned(c) + n)
    /\ b = SubSeq(r, Returned(c) + 1, Len(r))
    /\ w \in Seq(Seq(Bytes))
    /\ Len(w) = Len(c)
    /\ \A k \in 1 .. Len(c) : w[k] = SubSeq(r, FromCut(c, k), c[k] - 1)
    /\ g <=> \E i \in Delimiters(r) : i <= Returned(c) + n

\* What was returned ends before the last cut.
LEMMA ReturnedIsNumber ==
    ASSUME NEW c \in Seq(Nat \ {0})
    PROVE  /\ Len(c) \in Nat
           /\ \A k \in 1 .. Len(c) : c[k] \in Nat \ {0}
           /\ Returned(c) \in Nat
           /\ FromCut(c, Len(c) + 1) = Returned(c) + 1
           /\ \A k \in 1 .. Len(c) : FromCut(c, k) \in Nat \ {0}
<1>1. Len(c) \in Nat /\ \A k \in 1 .. Len(c) : c[k] \in Nat \ {0}
  BY LenProperties, ElementOfSeq
<1>2. \A k \in 1 .. Len(c) + 1 : FromCut(c, k) \in Nat \ {0}
  <2>1. \A k \in 1 .. Len(c) + 1 : k # 1 => k - 1 \in 1 .. Len(c)
    BY <1>1
  <2>2. QED
    BY <1>1, <2>1 DEF FromCut
<1>3. Len(c) + 1 \in 1 .. Len(c) + 1
  BY <1>1
<1>4. QED
  BY <1>1, <1>2, <1>3 DEF Returned

\* The bytes of a suffix and of a prefix.
LEMMA SuffixBytes ==
    ASSUME NEW r \in Seq(Bytes), NEW d \in Nat, d <= Len(r)
    PROVE  LET b == SubSeq(r, d + 1, Len(r))
           IN  /\ b \in Seq(Bytes)
               /\ Len(b) = Len(r) - d /\ Len(r) - d \in Nat
               /\ \A i \in 1 .. Len(r) - d : b[i] = r[d + i]
<1>1. Len(r) \in Nat /\ d + 1 \in Int /\ Len(r) \in Int
  BY LenProperties
<1>2. \A i \in d + 1 .. Len(r) : r[i] \in Bytes
  BY <1>1, ElementOfSeq
<1>3. /\ SubSeq(r, d + 1, Len(r)) \in Seq(Bytes)
      /\ Len(SubSeq(r, d + 1, Len(r))) = IF d + 1 <= Len(r) THEN Len(r) - (d + 1) + 1 ELSE 0
      /\ \A i \in 1 .. Len(r) - (d + 1) + 1 : SubSeq(r, d + 1, Len(r))[i] = r[d + 1 + i - 1]
  BY <1>1, <1>2, SubSeqProperties
<1>4. QED
  BY <1>1, <1>3

\* A match in a suffix is a match in the stream.
LEMMA SuffixMatches ==
    ASSUME NEW r \in Seq(Bytes), NEW d \in Nat, d <= Len(r), NEW n \in Nat
    PROVE  LET b == SubSeq(r, d + 1, Len(r))
           IN  /\ \A i : i \in Matches(b, n) <=>
                     i \in Nat /\ i > n /\ (ShortAt(r, d + i) \/ LongAt(r, d + i))
               /\ \A i \in Nat \ {0} : MatchEnd(b, i) = MatchEnd(r, d + i) - d
<1> DEFINE b == SubSeq(r, d + 1, Len(r))
<1>1. /\ b \in Seq(Bytes) /\ Len(b) = Len(r) - d /\ Len(r) \in Nat
      /\ \A i \in 1 .. Len(r) - d : b[i] = r[d + i]
  BY SuffixBytes, LenProperties
<1> HIDE DEF b
<1>2. ASSUME NEW i \in Nat \ {0}
      PROVE  /\ ShortAt(b, i) <=> ShortAt(r, d + i)
             /\ LongAt(b, i) <=> LongAt(r, d + i)
  <2>1. d + i + 3 <= Len(r) =>
           /\ b[i] = r[d + i] /\ b[i + 1] = r[d + i + 1]
           /\ b[i + 2] = r[d + i + 2] /\ b[i + 3] = r[d + i + 3]
    <3>1. d + i + 3 <= Len(r) =>
             i \in 1 .. Len(r) - d /\ i + 1 \in 1 .. Len(r) - d
             /\ i + 2 \in 1 .. Len(r) - d /\ i + 3 \in 1 .. Len(r) - d
      BY <1>1
    <3>2. d + (i + 1) = d + i + 1 /\ d + (i + 2) = d + i + 2 /\ d + (i + 3) = d + i + 3
      OBVIOUS
    <3>3. QED
      BY <1>1, <3>1, <3>2
  <2>2. d + i + 4 <= Len(r) => b[i + 4] = r[d + i + 4]
    <3>1. d + i + 4 <= Len(r) => i + 4 \in 1 .. Len(r) - d
      BY <1>1
    <3>2. d + (i + 4) = d + i + 4
      OBVIOUS
    <3>3. QED
      BY <1>1, <3>1, <3>2
  <2>3. (i + 3 <= Len(b) <=> d + i + 3 <= Len(r)) /\ (i + 4 <= Len(b) <=> d + i + 4 <= Len(r))
    BY <1>1
  <2>4. ShortAt(b, i) <=> ShortAt(r, d + i)
    BY <2>1, <2>3 DEF ShortAt
  <2>5. d + i + 4 <= Len(r) => d + i + 3 <= Len(r)
    BY <1>1
  <2>6. LongAt(b, i) <=> LongAt(r, d + i)
    BY <2>1, <2>2, <2>3, <2>5 DEF LongAt
  <2>7. QED
    BY <2>4, <2>6
<1>3. ASSUME NEW i
      PROVE  i \in Matches(b, n) <=>
                i \in Nat /\ i > n /\ (ShortAt(r, d + i) \/ LongAt(r, d + i))
  <2>1. i \in Matches(b, n) <=> i \in Nat /\ i > n /\ (ShortAt(b, i) \/ LongAt(b, i))
    BY <1>1, DelimiterBytes
  <2>2. i \in Nat /\ i > n => i \in Nat \ {0}
    OBVIOUS
  <2>3. QED
    BY <1>2, <2>1, <2>2
<1>4. ASSUME NEW i \in Nat \ {0}
      PROVE  MatchEnd(b, i) = MatchEnd(r, d + i) - d
  <2>1. MatchEnd(b, i) = IF ShortAt(b, i) THEN i + 3 ELSE i + 4
    BY <1>1, DelimiterBytes
  <2>2. d + i \in Nat \ {0}
    OBVIOUS
  <2>3. MatchEnd(r, d + i) = IF ShortAt(r, d + i) THEN d + i + 3 ELSE d + i + 4
    BY <2>2, DelimiterBytes
  <2>4. QED
    BY <1>2, <2>1, <2>3
<1>5. QED
  BY <1>3, <1>4 DEF b

\* A prefix that ended before the end stays as the stream goes on.
LEMMA PrefixStays ==
    ASSUME NEW r \in Seq(Bytes), NEW t \in Seq(Bytes), NEW i \in Nat \ {0}, NEW j \in Nat,
           j <= Len(r)
    PROVE  SubSeq(r \o t, i, j) = SubSeq(r, i, j)
<1>1. Len(r) \in Nat
  BY LenProperties
<1>2. CASE i <= j
  <2>1. i \in 1 .. Len(r) /\ j \in 1 .. Len(r)
    BY <1>1, <1>2
  <2>2. QED
    BY <2>1, SubSeqOfConcat1
<1>3. CASE j < i
  BY <1>3, SubSeqEmpty
<1>4. QED
  BY <1>2, <1>3

\* What is held of a stream grows with it.
LEMMA SuffixGrows ==
    ASSUME NEW r \in Seq(Bytes), NEW t \in Seq(Bytes), NEW d \in Nat, d <= Len(r)
    PROVE  SubSeq(r \o t, d + 1, Len(r \o t)) = SubSeq(r, d + 1, Len(r)) \o t
<1> DEFINE s == r \o t
           b == SubSeq(r, d + 1, Len(r))
           e == SubSeq(s, d + 1, Len(s))
<1>1. /\ s \in Seq(Bytes) /\ Len(s) = Len(r) + Len(t) /\ Len(r) \in Nat /\ Len(t) \in Nat
      /\ \A i \in 1 .. Len(r) + Len(t) : s[i] = IF i <= Len(r) THEN r[i] ELSE t[i - Len(r)]
  BY ConcatProperties, LenProperties
<1>2. /\ b \in Seq(Bytes) /\ Len(b) = Len(r) - d
      /\ \A i \in 1 .. Len(r) - d : b[i] = r[d + i]
  BY SuffixBytes
<1> HIDE DEF s, b
<1>3. /\ e \in Seq(Bytes) /\ Len(e) = Len(s) - d
      /\ \A i \in 1 .. Len(s) - d : e[i] = s[d + i]
  <2>1. d <= Len(s)
    BY <1>1
  <2>2. QED
    BY <1>1, <2>1, SuffixBytes
<1> HIDE DEF e
<1>4. /\ b \o t \in Seq(Bytes) /\ Len(b \o t) = Len(b) + Len(t)
      /\ \A i \in 1 .. Len(b) + Len(t) :
            (b \o t)[i] = IF i <= Len(b) THEN b[i] ELSE t[i - Len(b)]
  BY <1>2, ConcatProperties
<1>5. Len(e) = Len(b \o t)
  BY <1>1, <1>2, <1>3, <1>4
<1>6. ASSUME NEW i \in 1 .. Len(e)
      PROVE  e[i] = (b \o t)[i]
  <2>1. i \in 1 .. Len(s) - d /\ d + i \in 1 .. Len(r) + Len(t) /\ i \in 1 .. Len(b) + Len(t)
    BY <1>1, <1>2, <1>3
  <2>2. CASE i <= Len(b)
    <3>1. i \in 1 .. Len(r) - d /\ d + i <= Len(r)
      BY <1>1, <1>2, <2>1, <2>2
    <3>2. QED
      BY <1>1, <1>2, <1>3, <1>4, <2>1, <2>2, <3>1
  <2>3. CASE ~(i <= Len(b))
    <3>1. ~(d + i <= Len(r)) /\ d + i - Len(r) = i - Len(b)
      BY <1>1, <1>2, <2>1, <2>3
    <3>2. e[i] = s[d + i] /\ s[d + i] = t[d + i - Len(r)]
      BY <1>1, <1>3, <2>1, <3>1
    <3>3. (b \o t)[i] = t[i - Len(b)]
      BY <1>4, <2>1, <2>3
    <3>4. QED
      BY <3>1, <3>2, <3>3
  <2>4. QED
    BY <2>2, <2>3
<1>7. e = b \o t
  BY <1>3, <1>4, <1>5, <1>6, SeqEqual
<1>8. QED
  BY <1>7 DEF e, b, s

\* A part of a suffix is a part of the stream.
LEMMA PartOfSuffix ==
    ASSUME NEW r \in Seq(Bytes), NEW d \in Nat, d <= Len(r),
           NEW i \in Nat \ {0}, NEW j \in Nat, j <= Len(r) - d
    PROVE  SubSeq(SubSeq(r, d + 1, Len(r)), i, j) = SubSeq(r, d + i, d + j)
<1> DEFINE b == SubSeq(r, d + 1, Len(r))
           p == SubSeq(b, i, j)
           q == SubSeq(r, d + i, d + j)
<1>1. /\ b \in Seq(Bytes) /\ Len(b) = Len(r) - d /\ Len(r) \in Nat
      /\ \A k \in 1 .. Len(r) - d : b[k] = r[d + k]
  BY SuffixBytes, LenProperties
<1> HIDE DEF b
<1>2. /\ p \in Seq(Bytes) /\ Len(p) = IF i <= j THEN j - i + 1 ELSE 0
      /\ \A k \in 1 .. j - i + 1 : p[k] = b[i + k - 1]
  <2>1. i \in Int /\ j \in Int /\ \A k \in i .. j : k \in 1 .. Len(b)
    BY <1>1
  <2>2. \A k \in i .. j : b[k] \in Bytes
    BY <1>1, <2>1, ElementOfSeq
  <2>3. QED
    BY <2>1, <2>2, SubSeqProperties
<1>3. /\ q \in Seq(Bytes) /\ Len(q) = IF d + i <= d + j THEN d + j - (d + i) + 1 ELSE 0
      /\ \A k \in 1 .. d + j - (d + i) + 1 : q[k] = r[d + i + k - 1]
  <2>1. d + i \in Int /\ d + j \in Int /\ \A k \in d + i .. d + j : k \in 1 .. Len(r)
    BY <1>1
  <2>2. \A k \in d + i .. d + j : r[k] \in Bytes
    BY <2>1, ElementOfSeq
  <2>3. QED
    BY <2>1, <2>2, SubSeqProperties
<1> HIDE DEF p, q
<1>4. Len(p) = Len(q) /\ Len(p) \in Nat /\ (Len(p) # 0 => Len(p) = j - i + 1)
  BY <1>2, <1>3
<1>5. ASSUME NEW k \in 1 .. Len(p)
      PROVE  p[k] = q[k]
  <2>1. /\ k \in 1 .. j - i + 1 /\ k \in 1 .. d + j - (d + i) + 1
        /\ i + k - 1 \in 1 .. Len(r) - d
        /\ d + (i + k - 1) = d + i + k - 1
    BY <1>1, <1>4
  <2>2. p[k] = b[i + k - 1] /\ q[k] = r[d + i + k - 1]
    BY <1>2, <1>3, <2>1
  <2>3. b[i + k - 1] = r[d + (i + k - 1)]
    BY <1>1, <2>1
  <2>4. QED
    BY <2>1, <2>2, <2>3
<1>6. p = q
  BY <1>2, <1>3, <1>4, <1>5, SeqEqual
<1>7. QED
  BY <1>6 DEF p, q, b

-----------------------------------------------------------------------------
(***************************************************************************)
(* What a read and a turn of the loop make of a parser.                    *)
(***************************************************************************)

\* A read adds to what is held, and changes nothing of what was settled.
LEMMA ReadFollows ==
    ASSUME NEW r \in Seq(Bytes), NEW t \in Seq(Bytes), NEW c, NEW w, NEW b, NEW n, NEW g,
           FollowsBy(c, r, w, b, n, g)
    PROVE  FollowsBy(c, r \o t, w, b \o t, n, g)
<1> DEFINE s == r \o t
           m == Returned(c) + n
<1>1. /\ c \in Seq(Nat \ {0}) /\ Len(c) \in Nat
      /\ \A k \in 1 .. Len(c) : c[k] \in Nat \ {0}
      /\ Returned(c) \in Nat /\ n \in Nat /\ m \in Nat /\ m <= Len(r) /\ Settled(r, m)
      /\ \A k \in 1 .. Len(c) : FromCut(c, k) \in Nat \ {0}
  BY ReturnedIsNumber DEF FollowsBy, Lists
<1>2. /\ s \in Seq(Bytes) /\ Len(r) \in Nat /\ Len(s) \in Nat /\ Len(r) <= Len(s)
  BY ConcatProperties, LenProperties
<1> HIDE DEF m
<1>3. /\ Settled(s, m)
      /\ \A i : i <= m => (i \in Delimiters(s) <=> i \in Delimiters(r))
      /\ \A i : i <= m => (i \in Cuts(s) <=> i \in Cuts(r))
  BY <1>1, SettledStays, CutsStay
<1>4. SubSeq(s, Returned(c) + 1, Len(s)) = b \o t
  <2>1. Returned(c) <= Len(r)
    BY <1>1, <1>2 DEF m
  <2>2. b = SubSeq(r, Returned(c) + 1, Len(r))
    BY DEF FollowsBy
  <2>3. QED
    BY <1>1, <2>1, <2>2, SuffixGrows
<1>5. ASSUME NEW k \in 1 .. Len(c)
      PROVE  w[k] = SubSeq(s, FromCut(c, k), c[k] - 1)
  <2>1. c[k] <= m
    BY DEF FollowsBy, Lists, m
  <2>2. c[k] \in Nat \ {0} /\ c[k] - 1 \in Nat /\ c[k] - 1 <= Len(r)
    BY <1>1, <1>2, <2>1
  <2>3. SubSeq(s, FromCut(c, k), c[k] - 1) = SubSeq(r, FromCut(c, k), c[k] - 1)
    BY <1>1, <2>2, PrefixStays, ZenonT(60)
  <2>4. QED
    BY <2>3 DEF FollowsBy
<1>6. Lists(c, s, m)
  <2>1. Lists(c, r, m)
    BY DEF FollowsBy, m
  <2>2. QED
    BY <1>3, <2>1 DEF Lists
<1>7. g <=> \E i \in Delimiters(s) : i <= m
  <2>1. g <=> \E i \in Delimiters(r) : i <= m
    BY DEF FollowsBy, m
  <2>2. QED
    BY <1>3, <2>1
<1>8. m <= Len(s)
  BY <1>1, <1>2
<1>9. QED
  BY <1>3, <1>4, <1>5, <1>6, <1>7, <1>8 DEF FollowsBy, m, s

\* When no match is left in what is held, none is in the stream.
LEMMA NoMatchLeft ==
    ASSUME NEW r \in Seq(Bytes), NEW c, NEW w, NEW b, NEW n, NEW g,
           FollowsBy(c, r, w, b, n, g), Matches(b, n) = {}
    PROVE  \A i \in Nat : i > Returned(c) + n => ~ShortAt(r, i) /\ ~LongAt(r, i)
<1> DEFINE d == Returned(c)
<1>1. /\ d \in Nat /\ n \in Nat /\ d + n <= Len(r) /\ Len(r) \in Nat
      /\ b = SubSeq(r, d + 1, Len(r))
  BY ReturnedIsNumber, LenProperties DEF FollowsBy, Lists
<1> HIDE DEF d
<1>2. d <= Len(r)
  BY <1>1
<1>3. ASSUME NEW i \in Nat, i > d + n, ShortAt(r, i) \/ LongAt(r, i)
      PROVE  FALSE
  <2>1. i - d \in Nat /\ i - d > n /\ d + (i - d) = i
    BY <1>1, <1>3
  <2>2. ShortAt(r, d + (i - d)) \/ LongAt(r, d + (i - d))
    BY <1>3, <2>1
  <2>3. \A k : k \in Matches(b, n) <=>
           k \in Nat /\ k > n /\ (ShortAt(r, d + k) \/ LongAt(r, d + k))
    BY <1>1, <1>2, SuffixMatches
  <2>4. i - d \in Matches(b, n)
    BY <2>1, <2>2, <2>3
  <2>5. QED
    BY <2>4
<1>4. QED
  BY <1>3 DEF d

\* When no match is left, what is beyond the overlap is settled as well.
LEMMA NoMatchFollows ==
    ASSUME NEW r \in Seq(Bytes), NEW c, NEW w, NEW b, NEW n, NEW g,
           FollowsBy(c, r, w, b, n, g), Matches(b, n) = {}
    PROVE  LET l == Larger(n, Minus(Len(b), BoundaryOverlap))
           IN  l \in Nat /\ n <= l /\ FollowsBy(c, r, w, b, l, g)
<1> DEFINE d == Returned(c)
           l == Larger(n, Minus(Len(b), BoundaryOverlap))
<1>1. /\ c \in Seq(Nat \ {0}) /\ d \in Nat /\ n \in Nat /\ d + n <= Len(r) /\ Len(r) \in Nat
      /\ Settled(r, d + n) /\ b = SubSeq(r, d + 1, Len(r))
  BY ReturnedIsNumber, LenProperties DEF FollowsBy, Lists
<1> HIDE DEF d
<1>2. d <= Len(r)
  BY <1>1
<1>3. Len(b) = Len(r) - d /\ Len(b) \in Nat
  BY <1>1, <1>2, SuffixBytes
<1>4. /\ l \in Nat /\ n <= l /\ d + l \in Nat /\ d + l <= Len(r) /\ d + n <= d + l
      /\ l # n => d + l + 4 <= Len(r)
  BY <1>1, <1>3 DEF Larger, Minus, BoundaryOverlap
<1> HIDE DEF l
<1>5. \A i \in Nat : i > d + n => ~ShortAt(r, i) /\ ~LongAt(r, i)
  BY NoMatchLeft DEF d
<1>6. ASSUME NEW t \in Seq(Bytes), NEW i \in Delimiters(r \o t), i <= d + l
      PROVE  i <= d + n /\ MatchEnd(r \o t, i) <= d + n
  <2>1. i \in Nat \ {0} /\ (ShortAt(r \o t, i) \/ LongAt(r \o t, i))
    BY ConcatProperties, DelimiterBytes
  <2>2. CASE i <= d + n
    BY <1>1, <2>2 DEF Settled
  <2>3. CASE ~(i <= d + n)
    <3>1. i + 4 <= Len(r) /\ i + 3 <= Len(r) /\ i > d + n
      BY <1>1, <1>4, <1>6, <2>1, <2>3
    <3>2. ShortAt(r, i) \/ LongAt(r, i)
      BY <2>1, <3>1, BytesStay
    <3>3. QED
      BY <1>5, <2>1, <3>1, <3>2
  <2>4. QED
    BY <2>2, <2>3
<1>7. Settled(r, d + l)
  <2>1. ASSUME NEW t \in Seq(Bytes), NEW i \in Delimiters(r \o t), i <= d + l
        PROVE  MatchEnd(r \o t, i) <= d + l
    <3>1. MatchEnd(r \o t, i) <= d + n
      BY <1>6, <2>1
    <3>2. MatchEnd(r \o t, i) \in Nat
      BY ConcatProperties, DelimiterEnds
    <3>3. QED
      BY <1>1, <1>4, <3>1, <3>2
  <2>2. QED
    BY <2>1 DEF Settled
<1>8. ASSUME NEW i \in Delimiters(r)
      PROVE  i <= d + n /\ i <= d + l
  <2>1. i \in Nat \ {0} /\ (ShortAt(r, i) \/ LongAt(r, i))
    BY DelimiterBytes
  <2>2. i <= d + n
    BY <1>1, <1>5, <2>1
  <2>3. QED
    BY <1>1, <1>4, <2>1, <2>2
<1>9. Lists(c, r, d + l)
  <2>1. Lists(c, r, d + n)
    BY DEF FollowsBy, d
  <2>2. Cuts(r) \subseteq Delimiters(r)
    BY CutsAreDelimiters
  <2>3. QED
    BY <1>8, <2>1, <2>2 DEF Lists
<1>10. g <=> \E i \in Delimiters(r) : i <= d + l
  <2>1. g <=> \E i \in Delimiters(r) : i <= d + n
    BY DEF FollowsBy, d
  <2>2. QED
    BY <1>8, <2>1
<1>11. FollowsBy(c, r, w, b, l, g)
  BY <1>1, <1>4, <1>7, <1>9, <1>10 DEF FollowsBy, d
<1>12. QED
  BY <1>4, <1>11 DEF l

\* The first match in what is held is the next delimiter of the stream.
LEMMA MatchIsNext ==
    ASSUME NEW r \in Seq(Bytes), NEW c, NEW w, NEW b, NEW n, NEW g,
           FollowsBy(c, r, w, b, n, g), Matches(b, n) # {}
    PROVE  LET start == Min(Matches(b, n))
               end == MatchEnd(b, start)
               a == Returned(c) + start
               e == Returned(c) + end
           IN  /\ start \in Nat \ {0} /\ start > n /\ end \in Nat
               /\ start + 3 <= end /\ end <= Len(b)
               /\ Returned(c) \in Nat /\ a \in Nat \ {0} /\ e <= Len(r)
               /\ a \in Delimiters(r) /\ Settled(r, e)
               /\ \A i : i \in Delimiters(r) /\ i <= e
                         <=> (i \in Delimiters(r) /\ i <= Returned(c) + n) \/ i = a
<1> DEFINE M == Matches(b, n)
           start == Min(M)
           end == MatchEnd(b, start)
           d == Returned(c)
           a == d + start
<1>1. /\ c \in Seq(Nat \ {0}) /\ d \in Nat /\ n \in Nat /\ d + n <= Len(r) /\ Len(r) \in Nat
      /\ Settled(r, d + n) /\ b = SubSeq(r, d + 1, Len(r))
  BY ReturnedIsNumber, LenProperties DEF FollowsBy, Lists
<1> HIDE DEF d
<1>2. d <= Len(r)
  BY <1>1
<1>3. Len(b) = Len(r) - d /\ Len(b) \in Nat
  BY <1>1, <1>2, SuffixBytes
<1>4. /\ \A i : i \in M <=> i \in Nat /\ i > n /\ (ShortAt(r, d + i) \/ LongAt(r, d + i))
      /\ \A i \in Nat \ {0} : MatchEnd(b, i) = MatchEnd(r, d + i) - d
  BY <1>1, <1>2, SuffixMatches
<1>5. start \in M /\ \A k \in M : start <= k
  <2>1. M \subseteq Nat
    BY <1>4
  <2> HIDE DEF M
  <2>2. QED
    BY <2>1, MinIsLeast DEF M
<1> HIDE DEF M, start
<1>6. /\ start \in Nat \ {0} /\ start > n /\ a \in Nat \ {0} /\ a > d + n
      /\ ShortAt(r, a) \/ LongAt(r, a)
  <2>1. start \in Nat /\ start > n /\ (ShortAt(r, d + start) \/ LongAt(r, d + start))
    BY <1>4, <1>5
  <2>2. start \in Nat \ {0} /\ d + start \in Nat \ {0} /\ d + start > d + n
    BY <1>1, <2>1
  <2>3. QED
    BY <2>1, <2>2
<1>7. ASSUME NEW i \in Nat, i > d + n, ShortAt(r, i) \/ LongAt(r, i)
      PROVE  a <= i
  <2>1. i - d \in Nat /\ i - d > n /\ d + (i - d) = i
    BY <1>1, <1>7
  <2>2. start <= i - d
    BY <1>4, <1>5, <1>7, <2>1
  <2>3. QED
    BY <1>1, <1>6, <1>7, <2>1, <2>2
<1> HIDE DEF a
<1>8. /\ a \in Delimiters(r) /\ MatchEnd(r, a) \in Nat
      /\ a + 3 <= MatchEnd(r, a) /\ MatchEnd(r, a) <= Len(r)
      /\ Settled(r, MatchEnd(r, a))
      /\ \A i : i \in Delimiters(r) /\ i <= MatchEnd(r, a)
                <=> (i \in Delimiters(r) /\ i <= d + n) \/ i = a
  <2> DEFINE m == d + n
  <2>1. m \in Nat /\ a \in Nat /\ a > m /\ Settled(r, m)
    BY <1>1, <1>6
  <2>2. \A i \in Nat : i > m /\ (ShortAt(r, i) \/ LongAt(r, i)) => a <= i
    BY <1>7
  <2>3. ShortAt(r, a) \/ LongAt(r, a)
    BY <1>6
  <2> HIDE DEF m
  <2>4. /\ a \in Delimiters(r) /\ MatchEnd(r, a) \in Nat
        /\ a + 3 <= MatchEnd(r, a) /\ MatchEnd(r, a) <= Len(r)
        /\ Settled(r, MatchEnd(r, a))
        /\ \A i : i \in Delimiters(r) /\ i <= MatchEnd(r, a)
                  <=> (i \in Delimiters(r) /\ i <= m) \/ i = a
    BY <2>1, <2>2, <2>3, NextDelimiter
  <2>5. QED
    BY <2>4 DEF m
<1>9. end = MatchEnd(r, a) - d
  BY <1>4, <1>6 DEF a
<1> HIDE DEF end
<1>10. /\ end \in Nat /\ start + 3 <= end /\ end <= Len(b)
       /\ d + end = MatchEnd(r, a)
  BY <1>1, <1>3, <1>6, <1>8, <1>9 DEF a
<1>11. QED
  BY <1>1, <1>6, <1>8, <1>10 DEF a, d, end, start, M

\* A first delimiter starts the first unit, which holds what is before it too.
LEMMA FirstFollows ==
    ASSUME NEW r \in Seq(Bytes), NEW c, NEW w, NEW b, NEW n,
           FollowsBy(c, r, w, b, n, FALSE), Matches(b, n) # {}
    PROVE  FollowsBy(c, r, w, b, MatchEnd(b, Min(Matches(b, n))), TRUE)
<1> DEFINE start == Min(Matches(b, n))
           end == MatchEnd(b, start)
           d == Returned(c)
           a == d + start
<1>1. /\ c \in Seq(Nat \ {0}) /\ Len(r) \in Nat /\ n \in Nat
      /\ Lists(c, r, d + n) /\ b = SubSeq(r, d + 1, Len(r))
      /\ ~ \E i \in Delimiters(r) : i <= d + n
  BY LenProperties DEF FollowsBy, Lists
<1>2. /\ start \in Nat \ {0} /\ start > n /\ end \in Nat
      /\ start + 3 <= end /\ end <= Len(b)
      /\ d \in Nat /\ a \in Nat \ {0} /\ d + end <= Len(r)
      /\ a \in Delimiters(r) /\ Settled(r, d + end)
      /\ \A i : i \in Delimiters(r) /\ i <= d + end
                <=> (i \in Delimiters(r) /\ i <= d + n) \/ i = a
  BY MatchIsNext
<1> HIDE DEF start, end, d, a
<1>3. \A i : i \in Delimiters(r) /\ i <= d + end <=> i = a
  BY <1>1, <1>2
<1>4. a = Min(Delimiters(r))
  <2>1. Delimiters(r) \subseteq Nat
    BY DelimiterBytes
  <2>2. Min(Delimiters(r)) \in Delimiters(r) /\ Min(Delimiters(r)) <= a
    BY <1>2, <2>1, MinIsLeast
  <2>3. a <= d + end
    BY <1>2, <1>3
  <2>4. Min(Delimiters(r)) <= d + end
    BY <1>2, <2>1, <2>2, <2>3
  <2>5. QED
    BY <1>3, <2>2, <2>4
<1>5. \A i : ~(i \in Cuts(r) /\ i <= d + end)
  <2>1. \A i : i \in Cuts(r) => i \in Delimiters(r) /\ i # a
    BY <1>4 DEF Cuts
  <2>2. QED
    BY <1>3, <2>1
<1>6. \A i : ~(i \in Cuts(r) /\ i <= d + n)
  <2>1. Cuts(r) \subseteq Delimiters(r)
    BY CutsAreDelimiters
  <2>2. QED
    BY <1>1, <2>1
<1>7. Lists(c, r, d + end)
  BY <1>1, <1>5, <1>6 DEF Lists
<1>8. \E i \in Delimiters(r) : i <= d + end
  BY <1>2, <1>3
<1>9. FollowsBy(c, r, w, b, end, TRUE)
  BY <1>2, <1>7, <1>8 DEF FollowsBy, d
<1>10. QED
  BY <1>9 DEF end, start

\* What the first match in b, after offset n, makes of a parser that has seen a
\* delimiter: a unit more, and the bytes from the match on.
Closes(c, r, w, b, n) ==
    LET start == Min(Matches(b, n))
        end == MatchEnd(b, start)
    IN  /\ FollowsBy(Append(c, Returned(c) + start), r, Append(w, SubSeq(b, 1, start - 1)),
                     SubSeq(b, start, Len(b)), end - (start - 1), TRUE)
        /\ Len(c) + 1 \in 1 .. Cardinality(Cuts(r)) + 1
        /\ Len(Unit(r, Len(c) + 1)) = start - 1

\* Every later delimiter is a cut: what is held before it is the next unit.
LEMMA ClosedFollows ==
    ASSUME NEW r \in Seq(Bytes), NEW c, NEW w, NEW b, NEW n,
           FollowsBy(c, r, w, b, n, TRUE), Matches(b, n) # {}
    PROVE  Closes(c, r, w, b, n)
<1> DEFINE start == Min(Matches(b, n))
           end == MatchEnd(b, start)
           d == Returned(c)
           a == d + start
           h == Append(c, a)
           unit == SubSeq(b, 1, start - 1)
           rest == SubSeq(b, start, Len(b))
<1>1. /\ c \in Seq(Nat \ {0}) /\ Len(c) \in Nat /\ Len(r) \in Nat /\ n \in Nat
      /\ Lists(c, r, d + n) /\ b = SubSeq(r, d + 1, Len(r)) /\ d + n <= Len(r)
      /\ \A k \in 1 .. Len(c) : c[k] \in Nat \ {0}
      /\ FromCut(c, Len(c) + 1) = d + 1
      /\ \E i \in Delimiters(r) : i <= d + n
      /\ w \in Seq(Seq(Bytes)) /\ Len(w) = Len(c)
      /\ \A k \in 1 .. Len(c) : w[k] = SubSeq(r, FromCut(c, k), c[k] - 1)
  BY LenProperties, ReturnedIsNumber DEF FollowsBy, Lists
<1>2. /\ start \in Nat \ {0} /\ start > n /\ end \in Nat
      /\ start + 3 <= end /\ end <= Len(b)
      /\ d \in Nat /\ a \in Nat \ {0} /\ d + end <= Len(r)
      /\ a \in Delimiters(r) /\ Settled(r, d + end)
      /\ \A i : i \in Delimiters(r) /\ i <= d + end
                <=> (i \in Delimiters(r) /\ i <= d + n) \/ i = a
  BY MatchIsNext
<1> HIDE DEF start, end, d
<1>3. a > d + n /\ a <= d + end /\ d + n <= d + end
  BY <1>1, <1>2
<1>4. a \in Cuts(r)
  <2>1. Delimiters(r) \subseteq Nat
    BY DelimiterBytes
  <2>2. PICK i \in Delimiters(r) : i <= d + n
    BY <1>1
  <2>3. Min(Delimiters(r)) \in Nat /\ Min(Delimiters(r)) <= i /\ i \in Nat
    BY <2>1, MinIsLeast
  <2>4. a # Min(Delimiters(r))
    BY <1>1, <1>2, <1>3, <2>2, <2>3
  <2>5. QED
    BY <1>2, <2>4 DEF Cuts
<1> HIDE DEF a
<1>5. /\ h \in Seq(Nat \ {0}) /\ Len(h) = Len(c) + 1
      /\ \A k \in 1 .. Len(c) : h[k] = c[k]
      /\ h[Len(c) + 1] = a
  BY <1>1, <1>2, AppendProperties
<1> HIDE DEF h
<1>6. \A k \in 1 .. Len(h) : k \in 1 .. Len(c) \/ k = Len(c) + 1
  BY <1>1, <1>5
<1>7. Lists(h, r, d + end)
  <2>1. ASSUME NEW j \in 1 .. Len(h), NEW k \in 1 .. Len(h), j < k
        PROVE  h[j] < h[k]
    <3>1. j \in 1 .. Len(c)
      BY <1>1, <1>5, <2>1
    <3>2. CASE k \in 1 .. Len(c)
      BY <1>1, <1>5, <2>1, <3>1, <3>2 DEF Lists
    <3>3. CASE k = Len(c) + 1
      <4>1. c[j] <= d + n
        BY <1>1, <3>1 DEF Lists
      <4>2. c[j] < a
        BY <1>1, <1>2, <1>3, <3>1, <4>1, SMTT(30)
      <4>3. QED
        BY <1>5, <3>1, <3>3, <4>2
    <3>4. QED
      BY <1>6, <3>2, <3>3
  <2>2. ASSUME NEW i
        PROVE  i \in Cuts(r) /\ i <= d + end <=> \E k \in 1 .. Len(h) : i = h[k]
    <3>1. Cuts(r) \subseteq Delimiters(r)
      BY CutsAreDelimiters
    <3>2. i \in Cuts(r) /\ i <= d + end <=> (i \in Cuts(r) /\ i <= d + n) \/ i = a
      BY <1>2, <1>3, <1>4, <3>1
    <3>3. i \in Cuts(r) /\ i <= d + n <=> \E k \in 1 .. Len(c) : i = c[k]
      BY <1>1 DEF Lists
    <3>4. (\E k \in 1 .. Len(h) : i = h[k]) <=> (\E k \in 1 .. Len(c) : i = c[k]) \/ i = a
      <4>1. \A k \in 1 .. Len(c) : k \in 1 .. Len(h)
        BY <1>1, <1>5
      <4>2. Len(c) + 1 \in 1 .. Len(h)
        BY <1>1, <1>5
      <4>3. QED
        BY <1>5, <1>6, <4>1, <4>2
    <3>5. QED
      BY <3>2, <3>3, <3>4
  <2>3. QED
    BY <1>5, <2>1, <2>2 DEF Lists
<1>8. Returned(h) = a - 1 /\ Returned(h) + (end - (start - 1)) = d + end
  <2>1. Returned(h) = a - 1
    <3>1. Len(h) + 1 # 1 /\ Len(h) + 1 - 1 = Len(c) + 1
      BY <1>1, <1>5
    <3>2. QED
      BY <1>5, <3>1 DEF Returned, FromCut
  <2>2. QED
    BY <1>2, <2>1 DEF a
<1>9. \A k \in 1 .. Len(c) + 1 : FromCut(h, k) = FromCut(c, k)
  <2>1. \A k \in 1 .. Len(c) + 1 : k # 1 => k - 1 \in 1 .. Len(c)
    BY <1>1
  <2>2. QED
    BY <1>5, <2>1 DEF FromCut
<1>10. /\ d <= Len(r) /\ b \in Seq(Bytes) /\ Len(b) = Len(r) - d /\ Len(b) \in Nat
  <2>1. d <= Len(r)
    BY <1>1, <1>2
  <2>2. QED
    BY <1>1, <1>2, <2>1, SuffixBytes
<1>11. /\ unit \in Seq(Bytes) /\ Len(unit) = start - 1
       /\ unit = SubSeq(r, d + 1, a - 1)
  <2>1. SubSeq(r, d + 1, a - 1) \in Seq(Bytes) /\ Len(SubSeq(r, d + 1, a - 1)) = start - 1
    <3>1. d + 1 \in Int /\ a - 1 \in Int /\ \A i \in d + 1 .. a - 1 : r[i] \in Bytes
      <4>1. \A i \in d + 1 .. a - 1 : i \in 1 .. Len(r)
        BY <1>1, <1>2, <1>3
      <4>2. QED
        BY <1>2, <4>1, ElementOfSeq
    <3>2. /\ SubSeq(r, d + 1, a - 1) \in Seq(Bytes)
          /\ Len(SubSeq(r, d + 1, a - 1)) =
                IF d + 1 <= a - 1 THEN a - 1 - (d + 1) + 1 ELSE 0
      BY <3>1, SubSeqProperties
    <3>3. (IF d + 1 <= a - 1 THEN a - 1 - (d + 1) + 1 ELSE 0) = start - 1
      BY <1>2 DEF a
    <3>4. QED
      BY <3>2, <3>3
  <2>2. unit = SubSeq(r, d + 1, a - 1)
    <3>1. 1 \in Nat \ {0} /\ start - 1 \in Nat /\ start - 1 <= Len(r) - d
      BY <1>2, <1>10
    <3>2. SubSeq(b, 1, start - 1) = SubSeq(r, d + 1, d + (start - 1))
      BY <1>1, <1>2, <1>10, <3>1, PartOfSuffix
    <3>3. d + (start - 1) = a - 1
      BY <1>2 DEF a
    <3>4. QED
      BY <3>2, <3>3
  <2>3. QED
    BY <2>1, <2>2
<1>12. rest = SubSeq(r, Returned(h) + 1, Len(r))
  <2>1. Len(b) <= Len(r) - d
    BY <1>1, <1>2, <1>10
  <2>2. SubSeq(b, start, Len(b)) = SubSeq(r, d + start, d + Len(b))
    BY <1>1, <1>2, <1>10, <2>1, PartOfSuffix
  <2>3. d + start = Returned(h) + 1
    BY <1>2, <1>8 DEF a
  <2>4. d + Len(b) = Len(r)
    BY <1>1, <1>2, <1>10
  <2>5. QED
    BY <2>2, <2>3, <2>4
<1> HIDE DEF unit, rest
<1>13. /\ Append(w, unit) \in Seq(Seq(Bytes)) /\ Len(Append(w, unit)) = Len(h)
       /\ \A k \in 1 .. Len(h) : Append(w, unit)[k] = SubSeq(r, FromCut(h, k), h[k] - 1)
  <2>1. /\ Append(w, unit) \in Seq(Seq(Bytes)) /\ Len(Append(w, unit)) = Len(c) + 1
        /\ \A k \in 1 .. Len(c) : Append(w, unit)[k] = w[k]
        /\ Append(w, unit)[Len(c) + 1] = unit
    <3>1. w \in Seq(Seq(Bytes)) /\ Len(w) = Len(c) /\ unit \in Seq(Bytes)
      BY <1>1, <1>11
    <3>2. /\ Append(w, unit) \in Seq(Seq(Bytes)) /\ Len(Append(w, unit)) = Len(w) + 1
          /\ \A k \in 1 .. Len(w) : Append(w, unit)[k] = w[k]
          /\ Append(w, unit)[Len(w) + 1] = unit
      BY <3>1, AppendProperties
    <3>3. QED
      BY <3>1, <3>2
  <2>2. ASSUME NEW k \in 1 .. Len(h)
        PROVE  Append(w, unit)[k] = SubSeq(r, FromCut(h, k), h[k] - 1)
    <3>1. CASE k \in 1 .. Len(c)
      <4>1. FromCut(h, k) = FromCut(c, k) /\ h[k] = c[k]
        BY <1>1, <1>5, <1>9, <3>1
      <4>2. QED
        BY <1>1, <2>1, <3>1, <4>1
    <3>2. CASE k = Len(c) + 1
      <4>1. FromCut(h, k) = d + 1 /\ h[k] = a
        BY <1>1, <1>5, <1>9, <3>2
      <4>2. QED
        BY <1>11, <2>1, <3>2, <4>1
    <3>3. QED
      BY <1>6, <3>1, <3>2
  <2>3. QED
    BY <1>5, <2>1, <2>2
<1>14. \E i \in Delimiters(r) : i <= d + end
  BY <1>2, <1>3
<1>15. FollowsBy(h, r, Append(w, unit), rest, end - (start - 1), TRUE)
  <2> DEFINE l == end - (start - 1)
  <2>1. l \in Nat /\ Returned(h) + l = d + end
    BY <1>2, <1>8
  <2> HIDE DEF l
  <2>2. FollowsBy(h, r, Append(w, unit), rest, l, TRUE)
    BY <1>2, <1>7, <1>12, <1>13, <1>14, <2>1 DEF FollowsBy
  <2>3. QED
    BY <2>2 DEF l
<1>16. /\ Len(c) + 1 \in 1 .. Cardinality(Cuts(r)) + 1
       /\ Len(Unit(r, Len(c) + 1)) = start - 1
  <2>1. d + end \in Nat /\ Cardinality(Cuts(r)) \in Nat
    BY <1>2, CutsAreDelimiters
  <2>2. Len(h) <= Cardinality(Cuts(r))
    BY <1>7, <2>1, CutsInOrder
  <2>3. Len(c) + 1 \in 1 .. Len(h)
    BY <1>1, <1>5
  <2>4. Unit(r, Len(c) + 1) = SubSeq(r, FromCut(h, Len(c) + 1), h[Len(c) + 1] - 1)
    BY <1>7, <2>1, <2>3, UnitsFromCuts
  <2>5. FromCut(h, Len(c) + 1) = d + 1 /\ h[Len(c) + 1] = a
    BY <1>1, <1>5, <1>9
  <2>6. Unit(r, Len(c) + 1) = unit
    BY <1>11, <2>4, <2>5
  <2>7. Len(c) + 1 \in 1 .. Cardinality(Cuts(r)) + 1
    BY <1>1, <1>5, <2>1, <2>2
  <2>8. QED
    BY <1>11, <2>6, <2>7
<1>17. QED
  BY <1>15, <1>16 DEF Closes, h, a, d, unit, rest, end, start

-----------------------------------------------------------------------------
(***************************************************************************)
(* The loop of feed, for a parser that had returned u before the read and  *)
(* was fed the stream r in all.                                            *)
(***************************************************************************)
Parsers == [buffer : Seq(Bytes), scan : Nat, started : BOOLEAN, units : Seq(Seq(Bytes)),
            raised : BOOLEAN]

Bounded(u) == \A n \in DOMAIN u : Len(u[n]) <= Maximum

\* The stream holds a unit over the bound.
HoldsTooLong(r) ==
    \E n \in 1 .. Cardinality(Cuts(r)) + 1 : Len(Unit(r, n)) > Maximum

LoopInv(p, r, u) ==
    /\ p \in Parsers
    /\ u \in Seq(Seq(Bytes))
    /\ Bounded(u \o p.units)
    /\ p.raised => HoldsTooLong(r)
    /\ ~p.raised => \E c : FollowsBy(c, r, u \o p.units, p.buffer, p.scan, p.started)

\* A further turn changes nothing of note, and what is left to search otherwise.
Done(p) == p.raised \/ Matches(p.buffer, p.scan) = {}
Left(p) == Len(p.buffer) - p.scan

\* The search never starts beyond the buffer.
LEMMA LeftIsNumber ==
    ASSUME NEW r \in Seq(Bytes), NEW u, NEW p, LoopInv(p, r, u), ~p.raised
    PROVE  Left(p) \in Nat /\ Len(p.buffer) \in Nat
<1>1. PICK c : FollowsBy(c, r, u \o p.units, p.buffer, p.scan, p.started)
  BY DEF LoopInv
<1>2. /\ Returned(c) \in Nat /\ Returned(c) + p.scan <= Len(r) /\ Len(r) \in Nat
      /\ p.buffer = SubSeq(r, Returned(c) + 1, Len(r)) /\ p.scan \in Nat
  BY <1>1, ReturnedIsNumber, LenProperties DEF FollowsBy, Lists
<1>3. Returned(c) <= Len(r)
  BY <1>2
<1>4. Len(p.buffer) = Len(r) - Returned(c) /\ Len(p.buffer) \in Nat
  BY <1>2, <1>3, SuffixBytes
<1>5. QED
  BY <1>2, <1>4 DEF Left

\* A turn that finds no match.
LEMMA LastTurn ==
    ASSUME NEW r \in Seq(Bytes), NEW u, NEW p, LoopInv(p, r, u), Done(p)
    PROVE  LoopInv(Turn(p), r, u) /\ Done(Turn(p))
<1>1. CASE p.raised
  BY <1>1 DEF Turn, Done
<1>2. CASE ~p.raised
  <2> DEFINE l == Larger(p.scan, Minus(Len(p.buffer), BoundaryOverlap))
  <2>1. Matches(p.buffer, p.scan) = {} /\ p \in Parsers
    BY <1>2 DEF Done, LoopInv
  <2>2. PICK c : FollowsBy(c, r, u \o p.units, p.buffer, p.scan, p.started)
    BY <1>2 DEF LoopInv
  <2>3. /\ l \in Nat /\ p.scan <= l
        /\ FollowsBy(c, r, u \o p.units, p.buffer, l, p.started)
    BY <2>1, <2>2, NoMatchFollows
  <2> HIDE DEF l
  <2>4. Turn(p) = [p EXCEPT !.scan = l]
    BY <1>2, <2>1 DEF Turn, ScanResumes, l
  <2>5. /\ Turn(p) \in Parsers /\ Turn(p).scan = l /\ Turn(p).buffer = p.buffer
        /\ Turn(p).started = p.started /\ Turn(p).units = p.units
        /\ Turn(p).raised = p.raised
    BY <2>1, <2>3, <2>4 DEF Parsers
  <2>6. Matches(p.buffer, l) = {}
    <3>1. p.scan \in Nat /\ p.buffer \in Seq(Bytes)
      BY <2>1 DEF Parsers
    <3>2. \A i : i \in Matches(p.buffer, l) => i \in Matches(p.buffer, p.scan)
      BY <2>3, <3>1, DelimiterBytes
    <3>3. QED
      BY <2>1, <3>2
  <2>7. LoopInv(Turn(p), r, u)
    BY <1>2, <2>3, <2>5 DEF LoopInv
  <2>8. QED
    BY <2>5, <2>6, <2>7 DEF Done
<1>3. QED
  BY <1>1, <1>2

\* A turn that finds a match goes past it, or finds a unit over the bound.
LEMMA MatchTurn ==
    ASSUME NEW r \in Seq(Bytes), NEW u, NEW p, LoopInv(p, r, u), ~Done(p)
    PROVE  /\ LoopInv(Turn(p), r, u)
           /\ ~Turn(p).raised => Left(Turn(p)) + 4 <= Left(p)
<1> DEFINE start == Min(Matches(p.buffer, p.scan))
           end == MatchEnd(p.buffer, start)
           q == Turn(p)
<1>1. /\ ~p.raised /\ Matches(p.buffer, p.scan) # {} /\ p \in Parsers
      /\ u \in Seq(Seq(Bytes)) /\ Bounded(u \o p.units)
  BY DEF Done, LoopInv
<1>2. PICK c : FollowsBy(c, r, u \o p.units, p.buffer, p.scan, p.started)
  BY <1>1 DEF LoopInv
<1>3. /\ p.buffer \in Seq(Bytes) /\ p.scan \in Nat /\ p.started \in BOOLEAN
      /\ p.units \in Seq(Seq(Bytes)) /\ Len(p.buffer) \in Nat
  BY <1>1, LenProperties DEF Parsers
<1>4. /\ start \in Nat \ {0} /\ start > p.scan /\ end \in Nat
      /\ start + 3 <= end /\ end <= Len(p.buffer)
  BY <1>1, <1>2, MatchIsNext
<1>5. q = IF p.started THEN UnitClosed(p, start, end) ELSE FirstDelimiter(p, end)
  BY <1>1 DEF Turn
<1>6. CASE ~p.started
  <2>1. FollowsBy(c, r, u \o p.units, p.buffer, end, TRUE)
    <3>1. p.started = FALSE
      BY <1>3, <1>6
    <3>2. FollowsBy(c, r, u \o p.units, p.buffer, p.scan, FALSE)
      BY <1>2, <3>1
    <3>3. QED
      BY <1>1, <3>2, FirstFollows
  <2> HIDE DEF q, start, end
  <2>2. q = [p EXCEPT !.started = TRUE, !.scan = end]
    BY <1>5, <1>6 DEF FirstDelimiter
  <2>3. /\ q \in Parsers /\ q.scan = end /\ q.buffer = p.buffer
        /\ q.started = TRUE /\ q.units = p.units /\ q.raised = p.raised
    BY <1>1, <1>4, <2>2 DEF Parsers
  <2>4. LoopInv(q, r, u)
    BY <1>1, <2>1, <2>3 DEF LoopInv
  <2>5. Left(q) + 4 <= Left(p)
    BY <1>3, <1>4, <2>3 DEF Left
  <2>6. QED
    BY <2>4, <2>5 DEF q
<1>7. CASE p.started
  <2> DEFINE h == Append(c, Returned(c) + start)
             unit == SubSeq(p.buffer, 1, start - 1)
             rest == SubSeq(p.buffer, start, Len(p.buffer))
  <2>1. /\ FollowsBy(h, r, Append(u \o p.units, unit), rest, end - (start - 1), TRUE)
        /\ Len(c) + 1 \in 1 .. Cardinality(Cuts(r)) + 1
        /\ Len(Unit(r, Len(c) + 1)) = start - 1
    <3>1. p.started = TRUE
      BY <1>3, <1>7
    <3>2. FollowsBy(c, r, u \o p.units, p.buffer, p.scan, TRUE)
      BY <1>2, <3>1
    <3>3. Closes(c, r, u \o p.units, p.buffer, p.scan)
      BY <1>1, <3>2, ClosedFollows
    <3>4. QED
      BY <3>3 DEF Closes
  <2>2. /\ unit \in Seq(Bytes) /\ Len(unit) = start - 1
        /\ rest \in Seq(Bytes) /\ Len(rest) = Len(p.buffer) - (start - 1)
    <3>1. \A i \in 1 .. Len(p.buffer) : p.buffer[i] \in Bytes
      BY <1>3, ElementOfSeq
    <3>2. 1 \in Int /\ start - 1 \in Int /\ start \in Int /\ Len(p.buffer) \in Int
      BY <1>3, <1>4
    <3>3. /\ \A i \in 1 .. start - 1 : p.buffer[i] \in Bytes
          /\ \A i \in start .. Len(p.buffer) : p.buffer[i] \in Bytes
      BY <1>3, <1>4, <3>1
    <3>4. /\ unit \in Seq(Bytes)
          /\ Len(unit) = IF 1 <= start - 1 THEN start - 1 - 1 + 1 ELSE 0
      BY <3>2, <3>3, SubSeqProperties
    <3>5. /\ rest \in Seq(Bytes)
          /\ Len(rest) =
                IF start <= Len(p.buffer) THEN Len(p.buffer) - start + 1 ELSE 0
      BY <3>2, <3>3, SubSeqProperties
    <3> HIDE DEF unit, rest
    <3>6. QED
      BY <1>3, <1>4, <3>4, <3>5, SMTT(30)
  <2> HIDE DEF q, h, unit, rest, start, end
  <2>3. CASE start - 1 > Maximum
    <3>1. q = [p EXCEPT !.raised = TRUE]
      BY <1>5, <1>7, <2>3 DEF UnitClosed
    <3>2. q \in Parsers /\ q.raised = TRUE /\ q.units = p.units
      BY <1>1, <3>1 DEF Parsers
    <3>3. HoldsTooLong(r)
      BY <2>1, <2>3 DEF HoldsTooLong
    <3>4. QED
      BY <1>1, <3>2, <3>3 DEF LoopInv, q
  <2>4. CASE ~(start - 1 > Maximum)
    <3>1. q = [p EXCEPT !.units = Append(@, unit), !.buffer = rest,
                        !.scan = end - (start - 1)]
      BY <1>5, <1>7, <2>4 DEF UnitClosed, unit, rest
    <3>2. Append(p.units, unit) \in Seq(Seq(Bytes))
      BY <1>3, <2>2, AppendProperties
    <3>3. end - (start - 1) \in Nat
      BY <1>4
    <3>4. /\ q \in Parsers /\ q.units = Append(p.units, unit) /\ q.buffer = rest
          /\ q.scan = end - (start - 1) /\ q.started = p.started /\ q.raised = p.raised
      BY <1>1, <2>2, <3>1, <3>2, <3>3 DEF Parsers
    <3>5. u \o Append(p.units, unit) = Append(u \o p.units, unit)
      <4>1. /\ Append(p.units, unit) = p.units \o <<unit>>
            /\ u \o p.units \in Seq(Seq(Bytes))
        BY <1>1, <1>3, <2>2, AppendIsConcat, ConcatProperties
      <4>2. Append(u \o p.units, unit) = (u \o p.units) \o <<unit>>
        BY <2>2, <4>1, AppendIsConcat
      <4>3. <<unit>> \in Seq(Seq(Bytes))
        BY <2>2
      <4>4. (u \o p.units) \o <<unit>> = u \o (p.units \o <<unit>>)
        <5> DEFINE one == <<unit>>
                   v == p.units
        <5>1. one \in Seq(Seq(Bytes)) /\ u \in Seq(Seq(Bytes)) /\ v \in Seq(Seq(Bytes))
          BY <1>1, <1>3, <4>3
        <5> HIDE DEF one, v
        <5>2. (u \o v) \o one = u \o (v \o one)
          BY <5>1, ConcatAssociative
        <5>3. QED
          BY <5>2 DEF one, v
      <4>5. QED
        BY <4>1, <4>2, <4>4
    <3>6. Bounded(Append(u \o p.units, unit))
      <4> DEFINE w == u \o p.units
      <4>1. w \in Seq(Seq(Bytes)) /\ Bounded(w)
        BY <1>1, <1>3, ConcatProperties
      <4> HIDE DEF w
      <4>2. /\ Len(Append(w, unit)) = Len(w) + 1 /\ Append(w, unit) \in Seq(Seq(Bytes))
            /\ \A i \in 1 .. Len(w) : Append(w, unit)[i] = w[i]
            /\ Append(w, unit)[Len(w) + 1] = unit
        BY <2>2, <4>1, AppendProperties
      <4>3. /\ DOMAIN w = 1 .. Len(w) /\ Len(w) \in Nat
            /\ DOMAIN Append(w, unit) = 1 .. Len(w) + 1
        BY <4>1, <4>2, LenProperties
      <4>4. Len(unit) <= Maximum
        BY <1>4, <2>2, <2>4, ParserConstants
      <4>5. \A i \in 1 .. Len(w) + 1 : i \in 1 .. Len(w) \/ i = Len(w) + 1
        BY <4>3
      <4>6. QED
        BY <4>1, <4>2, <4>3, <4>4, <4>5 DEF Bounded, w
    <3>7. p.started = TRUE
      BY <1>3, <1>7
    <3>8. LoopInv(q, r, u)
      BY <1>1, <2>1, <3>4, <3>5, <3>6, <3>7 DEF LoopInv
    <3>9. Left(q) + 4 <= Left(p)
      BY <1>3, <1>4, <2>2, <3>4, SMTT(30) DEF Left
    <3>10. QED
      BY <3>8, <3>9 DEF q
  <2>5. QED
    BY <2>3, <2>4
<1>8. QED
  BY <1>6, <1>7

\* What a loop makes of its parser, turn by turn, exists.
LEMMA TurnsExist ==
    ASSUME NEW p, NEW n \in Nat
    PROVE  \E f : f = [i \in 0 .. n |-> IF i = 0 THEN p ELSE Turn(f[i - 1])]
<1> DEFINE Is(f, k) == f = [i \in 0 .. k |-> IF i = 0 THEN p ELSE Turn(f[i - 1])]
           S == {k \in Nat : \E f : Is(f, k)}
<1>1. 0 \in S
  <2>1. Is([i \in 0 .. 0 |-> p], 0)
    OBVIOUS
  <2>2. QED
    BY <2>1
<1>2. ASSUME NEW k \in Nat, k \in S
      PROVE  k + 1 \in S
  <2>1. PICK f : Is(f, k)
    BY <1>2
  <2> DEFINE g == [i \in 0 .. k + 1 |-> IF i = k + 1 THEN Turn(f[k]) ELSE f[i]]
  <2>2. Is(g, k + 1)
    BY <2>1
  <2> HIDE DEF g
  <2>3. QED
    BY <2>2
<1> HIDE DEF S
<1>3. n \in S
  BY <1>1, <1>2, Induction
<1>4. QED
  BY <1>3 DEF S

\* A quarter, rounded down.
LEMMA QuarterIsNumber ==
    ASSUME NEW n \in Nat
    PROVE  \A l : l = n \div 4 + 1 => l \in Nat /\ l # 0 /\ n < 4 * l
OBVIOUS

(***************************************************************************)
(* The turns of Scanned are as many as `while True' takes (h264.py:27-42): *)
(* each but the last goes past a delimiter of four bytes, so that after    *)
(* them the loop has raised or has no match left, and what held of the     *)
(* parser before the read holds of what the loop made of it.               *)
(***************************************************************************)
THEOREM LoopEnds ==
    ASSUME NEW r \in Seq(Bytes), NEW u, NEW p, LoopInv(p, r, u), ~p.raised
    PROVE  LoopInv(Scanned(p), r, u) /\ Done(Scanned(p))
<1> DEFINE last == Len(p.buffer) \div 4 + 1
           Is(g) == g = [i \in 0 .. last |-> IF i = 0 THEN p ELSE Turn(g[i - 1])]
           f == CHOOSE g : Is(g)
<1>1. /\ Len(p.buffer) \in Nat /\ p.scan \in Nat /\ Left(p) <= Len(p.buffer)
  BY LeftIsNumber DEF LoopInv, Parsers, Left
<1>2. last \in Nat /\ last # 0 /\ Len(p.buffer) < 4 * last
  <2>1. last = Len(p.buffer) \div 4 + 1
    OBVIOUS
  <2> HIDE DEF last
  <2>2. QED
    BY <1>1, <2>1, QuarterIsNumber, Zenon
<1>3. Scanned(p) = f[last]
  BY DEF Scanned
<1>4. Is(f)
  <2> HIDE DEF last
  <2>1. \E g : Is(g)
    BY <1>2, TurnsExist
  <2>2. QED
    BY <2>1, Zenon
<1> HIDE DEF f, last
<1>5. f[0] = p /\ \A i \in 1 .. last : f[i] = Turn(f[i - 1])
  BY <1>2, <1>4
<1> DEFINE K(q, i) == LoopInv(q, r, u) /\ (Done(q) \/ Left(q) + 4 * i <= Len(p.buffer))
           T == {i \in Nat : i <= last => K(f[i], i)}
<1>6. 0 \in T
  <2>1. Left(p) + 4 * 0 <= Len(p.buffer)
    BY <1>1, LeftIsNumber
  <2>2. K(p, 0)
    BY <2>1
  <2>3. QED
    BY <1>5, <2>2
<1>7. ASSUME NEW i \in Nat, i \in T
      PROVE  i + 1 \in T
  <2>1. SUFFICES ASSUME i + 1 <= last
                 PROVE  K(f[i + 1], i + 1)
    OBVIOUS
  <2>2. /\ f[i + 1] = Turn(f[i]) /\ K(f[i], i)
    <3>1. i + 1 \in 1 .. last /\ i + 1 - 1 = i /\ i <= last
      BY <1>2, <2>1
    <3>2. QED
      BY <1>5, <1>7, <3>1
  <2>3. CASE Done(f[i])
    BY <2>2, <2>3, LastTurn
  <2>4. CASE ~Done(f[i])
    <3> DEFINE q == f[i]
               t == Turn(q)
    <3>1. LoopInv(q, r, u) /\ Left(q) + 4 * i <= Len(p.buffer) /\ ~q.raised
      BY <2>2, <2>4 DEF Done
    <3>2. LoopInv(t, r, u) /\ (~t.raised => Left(t) + 4 <= Left(q))
      BY <2>4, <3>1, MatchTurn
    <3>3. CASE t.raised
      BY <2>2, <3>2, <3>3 DEF Done
    <3>4. CASE ~t.raised
      <4>1. Left(q) \in Nat /\ Left(t) \in Nat
        BY <3>1, <3>2, <3>4, LeftIsNumber
      <4> HIDE DEF q, t
      <4>2. Left(t) + 4 * (i + 1) <= Len(p.buffer)
        BY <1>1, <3>1, <3>2, <3>4, <4>1
      <4>3. QED
        BY <2>2, <3>2, <4>2 DEF q, t
    <3>5. QED
      BY <3>3, <3>4
  <2>5. QED
    BY <2>3, <2>4
<1> HIDE DEF T
<1>8. last \in T /\ last - 1 \in T /\ last - 1 \in Nat
  BY <1>2, <1>6, <1>7, Induction
<1>9. Done(f[last])
  <2>1. K(f[last], last)
    BY <1>2, <1>8 DEF T
  <2>2. ASSUME ~Done(f[last])
        PROVE  FALSE
    <3>1. Left(f[last]) \in Nat
      BY <2>1, <2>2, LeftIsNumber DEF Done
    <3>2. QED
      BY <1>1, <1>2, <2>1, <2>2, <3>1
  <2>3. QED
    BY <2>2
<1>10. QED
  BY <1>2, <1>3, <1>8, <1>9 DEF T

-----------------------------------------------------------------------------
(***************************************************************************)
(* The parser: between reads it has found every delimiter of what it was   *)
(* fed.                                                                    *)
(***************************************************************************)

\* Without a match left, every cut is found: what was returned are the closed
\* units of the stream, and what is held is the open one.
LEMMA NoMatchIsCut ==
    ASSUME NEW r \in Seq(Bytes), NEW c, NEW w, NEW b, NEW n, NEW g,
           FollowsBy(c, r, w, b, n, g), Matches(b, n) = {}
    PROVE  /\ Len(c) = Cardinality(Cuts(r))
           /\ w = ClosedUnits(r)
           /\ b = Unit(r, Cardinality(Cuts(r)) + 1)
<1> DEFINE m == Returned(c) + n
<1>1. /\ c \in Seq(Nat \ {0}) /\ Len(c) \in Nat /\ Returned(c) \in Nat /\ n \in Nat /\ m \in Nat
      /\ Lists(c, r, m) /\ b = SubSeq(r, Returned(c) + 1, Len(r))
      /\ w \in Seq(Seq(Bytes)) /\ Len(w) = Len(c)
      /\ \A k \in 1 .. Len(c) : w[k] = SubSeq(r, FromCut(c, k), c[k] - 1)
  BY ReturnedIsNumber DEF FollowsBy, Lists
<1>2. \A i \in Cuts(r) : i <= m
  <2>1. ASSUME NEW i \in Cuts(r)
        PROVE  i <= m
    <3>1. i \in Nat \ {0} /\ (ShortAt(r, i) \/ LongAt(r, i))
      BY CutsAreDelimiters, DelimiterBytes
    <3>2. ~(i > m)
      BY <3>1, NoMatchLeft
    <3>3. QED
      BY <1>1, <3>1, <3>2
  <2>2. QED
    BY <2>1
<1> HIDE DEF m
<1>3. /\ \A k \in 1 .. Len(c) : Unit(r, k) = SubSeq(r, FromCut(c, k), c[k] - 1)
      /\ Cardinality(Cuts(r)) = Len(c)
      /\ Unit(r, Len(c) + 1) = SubSeq(r, Returned(c) + 1, Len(r))
  <2>1. /\ \A k \in 1 .. Len(c) : Unit(r, k) = SubSeq(r, FromCut(c, k), c[k] - 1)
        /\ (\A i \in Cuts(r) : i <= m) =>
              /\ Cardinality(Cuts(r)) = Len(c)
              /\ Unit(r, Len(c) + 1) = SubSeq(r, Returned(c) + 1, Len(r))
    BY <1>1, UnitsFromCuts, Zenon
  <2>2. QED
    BY <1>2, <2>1, Zenon
<1>4. w = ClosedUnits(r)
  <2>1. w = [k \in 1 .. Len(c) |-> w[k]]
    BY <1>1, LenProperties
  <2>2. ClosedUnits(r) = [k \in 1 .. Len(c) |-> Unit(r, k)]
    BY <1>3 DEF ClosedUnits
  <2>3. \A k \in 1 .. Len(c) : w[k] = Unit(r, k)
    BY <1>1, <1>3
  <2>4. QED
    BY <2>1, <2>2, <2>3
<1>5. QED
  BY <1>1, <1>3, <1>4

\* No delimiter starts before the first byte.
LEMMA NothingSettled ==
    ASSUME NEW r \in Seq(Bytes)
    PROVE  Settled(r, 0)
<1>1. ASSUME NEW t \in Seq(Bytes), NEW i \in Delimiters(r \o t), i <= 0
      PROVE  MatchEnd(r \o t, i) <= 0
  <2>1. r \o t \in Seq(Bytes)
    BY ConcatProperties
  <2>2. i \in Nat \ {0}
    BY <2>1, DelimiterEnds
  <2>3. QED
    BY <1>1, <2>2
<1>2. QED
  BY <1>1 DEF Settled

\* Then what is held holds a delimiter when the stream does.
LEMMA DelimiterHeld ==
    ASSUME NEW r \in Seq(Bytes), NEW c, NEW w, NEW b, NEW n, NEW g,
           FollowsBy(c, r, w, b, n, g)
    PROVE  Matches(b, 0) # {} <=> Delimiters(r) # {}
<1> DEFINE d == Returned(c)
<1>1. /\ c \in Seq(Nat \ {0}) /\ Len(c) \in Nat /\ Len(r) \in Nat /\ d \in Nat /\ n \in Nat
      /\ d + n <= Len(r) /\ Lists(c, r, d + n) /\ b = SubSeq(r, d + 1, Len(r))
      /\ FromCut(c, Len(c) + 1) = d + 1
  BY ReturnedIsNumber, LenProperties DEF FollowsBy, Lists
<1> HIDE DEF d
<1>2. d <= Len(r)
  BY <1>1
<1>3. \A i : i \in Matches(b, 0) <=>
         i \in Nat /\ i > 0 /\ (ShortAt(r, d + i) \/ LongAt(r, d + i))
  BY <1>1, <1>2, SuffixMatches
<1>4. CASE Len(c) = 0
  <2>1. d = 0
    <3>1. FromCut(c, Len(c) + 1) = 1
      BY <1>4 DEF FromCut
    <3>2. QED
      BY <1>1, <3>1
  <2>2. ASSUME NEW i \in Delimiters(r)
        PROVE  i \in Matches(b, 0)
    <3>1. i \in Nat /\ i > 0 /\ (ShortAt(r, i) \/ LongAt(r, i)) /\ d + i = i
      BY <2>1, DelimiterBytes
    <3>2. QED
      BY <1>3, <3>1
  <2>3. ASSUME Matches(b, 0) # {}
        PROVE  Delimiters(r) # {}
    <3> DEFINE M == Matches(b, 0)
               a == Min(M)
    <3>1. a \in M /\ \A k \in M : a <= k
      <4>1. M \subseteq Nat
        BY <1>3
      <4> HIDE DEF M
      <4>2. QED
        BY <2>3, <4>1, MinIsLeast DEF M
    <3> HIDE DEF a, M
    <3>2. \A i : i \in M <=> i \in Nat /\ i > 0 /\ (ShortAt(r, i) \/ LongAt(r, i))
      <4>1. \A i \in Nat : d + i = i
        BY <2>1
      <4>2. QED
        BY <1>3, <4>1 DEF M
    <3>3. Settled(r, 0)
      BY NothingSettled
    <3>4. a \in Delimiters(r)
      BY <3>1, <3>2, <3>3, NextDelimiter
    <3>5. QED
      BY <3>4
  <2>4. QED
    BY <2>2, <2>3
<1>5. CASE Len(c) # 0
  <2>1. Len(c) \in 1 .. Len(c) /\ Len(c) + 1 # 1 /\ Len(c) + 1 - 1 = Len(c)
    BY <1>1, <1>5
  <2>2. c[Len(c)] = d + 1
    BY <1>1, <2>1 DEF FromCut
  <2>3. c[Len(c)] \in Cuts(r)
    BY <1>1, <2>1 DEF Lists
  <2>4. d + 1 \in Delimiters(r)
    BY <2>2, <2>3, CutsAreDelimiters
  <2>5. ShortAt(r, d + 1) \/ LongAt(r, d + 1)
    BY <2>4, DelimiterBytes
  <2>6. 1 \in Matches(b, 0)
    BY <1>3, <2>5
  <2>7. QED
    BY <2>4, <2>6
<1>6. QED
  BY <1>4, <1>5

\* At the end of the stream the open unit is the last, if there is one.
LEMMA FinishIsAll ==
    ASSUME NEW r \in Seq(Bytes), NEW c, NEW w, NEW b \in Seq(Bytes), NEW n, NEW g,
           FollowsBy(c, r, w, b, n, g), Matches(b, n) = {}
    PROVE  (IF Matches(b, 0) # {} THEN Append(w, b) ELSE w) = AllUnits(r)
<1>1. /\ Len(c) = Cardinality(Cuts(r)) /\ w = ClosedUnits(r)
      /\ b = Unit(r, Cardinality(Cuts(r)) + 1)
  BY NoMatchIsCut
<1>2. Matches(b, 0) # {} <=> Delimiters(r) # {}
  BY DelimiterHeld
<1>3. w \in Seq(Seq(Bytes)) /\ Len(w) = Cardinality(Cuts(r)) /\ Len(w) \in Nat
  BY <1>1, LenProperties DEF FollowsBy
<1>4. CASE Delimiters(r) = {}
  <2>1. Cuts(r) = {}
    BY <1>4 DEF Cuts
  <2>2. Len(w) = 0
    BY <1>3, <2>1, FS_EmptySet
  <2>3. w = << >>
    BY <1>3, <2>2, EmptySeq
  <2>4. QED
    BY <1>2, <1>4, <2>3 DEF AllUnits
<1>5. CASE Delimiters(r) # {}
  <2> DEFINE l == Len(w)
             all == Append(w, b)
  <2>1. /\ all \in Seq(Seq(Bytes)) /\ Len(all) = l + 1 /\ l \in Nat
        /\ \A k \in 1 .. l : all[k] = w[k]
        /\ all[l + 1] = b
    BY <1>3, AppendProperties
  <2>2. \A k \in 1 .. l : w[k] = Unit(r, k)
    BY <1>1, <1>3 DEF ClosedUnits
  <2>3. b = Unit(r, l + 1)
    BY <1>1, <1>3
  <2>4. AllUnits(r) = [k \in 1 .. l + 1 |-> Unit(r, k)]
    BY <1>3, <1>5 DEF AllUnits
  <2> HIDE DEF all, l
  <2>5. \A k \in 1 .. l + 1 : k \in 1 .. l \/ k = l + 1
    BY <2>1
  <2>6. \A k \in 1 .. l + 1 : all[k] = Unit(r, k)
    BY <2>1, <2>2, <2>3, <2>5
  <2>7. all = [k \in 1 .. l + 1 |-> all[k]]
    BY <2>1, LenProperties
  <2>8. all = AllUnits(r)
    BY <2>4, <2>6, <2>7
  <2>9. QED
    BY <1>2, <1>5, <2>8 DEF all
<1>6. QED
  BY <1>4, <1>5

(***************************************************************************)
(* The inductive invariant.  While the parser is open it follows the       *)
(* stream, with every match found; ReadsDoNotMatter alone says nothing of  *)
(* the offset at which the next search starts.                             *)
(***************************************************************************)
StreamType ==
    /\ incoming \in Seq(Bytes) /\ received \in Seq(Bytes) /\ buffer \in Seq(Bytes)
    /\ scanFrom \in Nat /\ started \in BOOLEAN
    /\ units \in Seq(Seq(Bytes))
    /\ state \in {"open", "finished", "failed"}

OpenInv ==
    state = "open" =>
        /\ \E c : FollowsBy(c, received, units, buffer, scanFrom, started)
        /\ Matches(buffer, scanFrom) = {}
        /\ Len(buffer) <= Maximum

EndedInv ==
    /\ state = "finished" => units = AllUnits(received)
    /\ state = "failed" => HoldsTooLong(received)

ParserInv == StreamType /\ Bounded(units) /\ OpenInv /\ EndedInv

\* A parser that was fed nothing has nothing to find.
LEMMA InitIsOpen == Init => ParserInv
<1> SUFFICES ASSUME Init
             PROVE  ParserInv
  OBVIOUS
<1> DEFINE e == << >>
<1>1. e \in Seq(Bytes) /\ e \in Seq(Nat \ {0}) /\ e \in Seq(Seq(Bytes)) /\ Len(e) = 0
  BY EmptySeq
<1>2. e = SubSeq(e, 1, 0) /\ DOMAIN e = {}
  BY <1>1, SubSeqFull, LenProperties
<1>3. /\ incoming = e /\ received = e /\ buffer = e /\ units = e
      /\ scanFrom = 0 /\ started = FALSE /\ state = "open"
  BY DEF Init
<1> HIDE DEF e
<1>4. Delimiters(e) = {} /\ Cuts(e) = {}
  <2>1. \A i \in Delimiters(e) : FALSE
    <3>1. \A i \in Delimiters(e) : i \in Nat /\ MatchEnd(e, i) \in Nat
                                   /\ i + 3 <= MatchEnd(e, i) /\ MatchEnd(e, i) <= 0
      BY <1>1, DelimiterEnds
    <3>2. QED
      BY <3>1
  <2>2. QED
    BY <2>1 DEF Cuts
<1>5. Matches(e, 0) = {}
  BY <1>1 DEF Matches
<1>6. Returned(e) = 0
  BY <1>1 DEF Returned, FromCut
<1>7. Settled(e, 0)
  BY <1>1, NothingSettled
<1>8. FollowsBy(e, e, e, e, 0, FALSE)
  <2>1. Lists(e, e, 0)
    BY <1>1, <1>4 DEF Lists
  <2>2. Returned(e) + 0 = 0 /\ Returned(e) + 1 = 1
    BY <1>6
  <2>3. QED
    BY <1>1, <1>2, <1>4, <1>7, <2>1, <2>2 DEF FollowsBy
<1>9. StreamType
  BY <1>1, <1>3 DEF StreamType
<1>10. Bounded(units)
  BY <1>2, <1>3 DEF Bounded
<1>11. OpenInv
  <2>1. FollowsBy(e, received, units, buffer, scanFrom, started)
    BY <1>3, <1>8
  <2>2. Matches(buffer, scanFrom) = {}
    BY <1>3, <1>5
  <2>3. Len(buffer) <= Maximum
    BY <1>1, <1>3, ParserConstants
  <2>4. QED
    BY <2>1, <2>2, <2>3 DEF OpenInv
<1>12. EndedInv
  BY <1>3 DEF EndedInv
<1>13. QED
  BY <1>9, <1>10, <1>11, <1>12 DEF ParserInv

\* A read keeps the invariant.
LEMMA FeedKeeps ==
    ASSUME ParserInv, Feed
    PROVE  ParserInv'
<1> DEFINE r == received \o incoming
           p == [buffer |-> buffer \o incoming, scan |-> scanFrom, started |-> started,
                 units |-> <<>>, raised |-> FALSE]
           q == Scanned(p)
<1>1. StreamType /\ state = "open"
  BY DEF ParserInv, Feed
<1>2. r \in Seq(Bytes) /\ buffer \o incoming \in Seq(Bytes) /\ << >> \in Seq(Seq(Bytes))
      /\ units \o << >> = units
  BY <1>1, ConcatProperties, EmptySeq, ConcatEmptySeq DEF StreamType
<1>3. /\ p \in Parsers /\ ~p.raised /\ p.units = << >> /\ p.buffer = buffer \o incoming
      /\ p.scan = scanFrom /\ p.started = started
  BY <1>1, <1>2 DEF StreamType, Parsers
<1>4. PICK c : FollowsBy(c, received, units, buffer, scanFrom, started)
  BY <1>1 DEF ParserInv, OpenInv
<1>5. FollowsBy(c, r, units, buffer \o incoming, scanFrom, started)
  BY <1>1, <1>4, ReadFollows DEF StreamType
<1>6. /\ incoming' = <<>> /\ received' = r /\ buffer' = q.buffer /\ scanFrom' = q.scan
      /\ started' = q.started
      /\ IF q.raised \/ Len(q.buffer) > Maximum
         THEN state' = "failed" /\ units' = units
         ELSE state' = "open" /\ units' = units \o q.units
  BY DEF Feed
<1> HIDE DEF r, p
<1>7. LoopInv(p, r, units)
  BY <1>1, <1>2, <1>3, <1>5 DEF LoopInv, StreamType, ParserInv
<1>8. LoopInv(q, r, units) /\ Done(q)
  BY <1>2, <1>3, <1>7, LoopEnds
<1> HIDE DEF q
<1>9. /\ q.buffer \in Seq(Bytes) /\ q.scan \in Nat /\ q.started \in BOOLEAN
      /\ q.units \in Seq(Seq(Bytes)) /\ q.raised \in BOOLEAN
      /\ units \o q.units \in Seq(Seq(Bytes)) /\ Len(q.buffer) \in Nat
  BY <1>1, <1>8, ConcatProperties, LenProperties DEF LoopInv, Parsers, StreamType
<1>10. incoming' \in Seq(Bytes)
  BY <1>6, EmptySeq
<1>11. CASE q.raised
  <2>1. state' = "failed" /\ units' = units /\ HoldsTooLong(r)
    BY <1>6, <1>8, <1>11 DEF LoopInv
  <2>2. HoldsTooLong(received')
    BY <1>6, <2>1
  <2>3. QED
    BY <1>1, <1>2, <1>6, <1>9, <1>10, <2>1, <2>2
    DEF ParserInv, StreamType, OpenInv, EndedInv, Bounded, HoldsTooLong
<1>12. CASE ~q.raised
  <2>1. PICK h : FollowsBy(h, r, units \o q.units, q.buffer, q.scan, q.started)
    BY <1>8, <1>12 DEF LoopInv
  <2>2. Matches(q.buffer, q.scan) = {} /\ Bounded(units \o q.units)
    BY <1>8, <1>12 DEF Done, LoopInv
  <2>3. CASE Len(q.buffer) > Maximum
    <3>1. Cardinality(Cuts(r)) \in Nat /\ q.buffer = Unit(r, Cardinality(Cuts(r)) + 1)
      BY <1>2, <2>1, <2>2, NoMatchIsCut, CutsAreDelimiters
    <3>2. HoldsTooLong(r)
      BY <2>3, <3>1 DEF HoldsTooLong
    <3>3. state' = "failed" /\ units' = units
      BY <1>6, <2>3
    <3>4. HoldsTooLong(received')
      BY <1>6, <3>2
    <3>5. QED
      BY <1>1, <1>2, <1>6, <1>9, <1>10, <3>3, <3>4
      DEF ParserInv, StreamType, OpenInv, EndedInv, Bounded, HoldsTooLong
  <2>4. CASE ~(Len(q.buffer) > Maximum)
    <3>1. state' = "open" /\ units' = units \o q.units
      BY <1>6, <1>12, <2>4
    <3>2. Len(q.buffer) <= Maximum
      BY <1>9, <2>4, ParserConstants
    <3>3. FollowsBy(h, received', units', buffer', scanFrom', started')
      BY <1>6, <2>1, <3>1
    <3>4. Matches(buffer', scanFrom') = {} /\ Len(buffer') <= Maximum /\ Bounded(units')
      BY <1>6, <2>2, <3>1, <3>2
    <3>5. StreamType'
      BY <1>2, <1>6, <1>9, <1>10, <3>1 DEF StreamType
    <3>6. QED
      BY <3>1, <3>3, <3>4, <3>5 DEF ParserInv, OpenInv, EndedInv
  <2>5. QED
    BY <2>3, <2>4
<1>13. QED
  BY <1>9, <1>11, <1>12

\* So does the end of the stream.
LEMMA FinishKeeps ==
    ASSUME ParserInv, Finish
    PROVE  ParserInv'
<1>1. StreamType /\ state = "open" /\ Bounded(units) /\ Matches(buffer, scanFrom) = {}
      /\ Len(buffer) <= Maximum
  BY DEF ParserInv, OpenInv, Finish
<1>2. PICK c : FollowsBy(c, received, units, buffer, scanFrom, started)
  BY <1>1 DEF ParserInv, OpenInv
<1>3. /\ state' = "finished" /\ buffer' = <<>> /\ scanFrom' = 0 /\ started' = FALSE
      /\ incoming' = incoming /\ received' = received
      /\ units' = IF Matches(buffer, 0) # {} THEN Append(units, buffer) ELSE units
  BY DEF Finish
<1>4. units' = AllUnits(received')
  <2>1. (IF Matches(buffer, 0) # {} THEN Append(units, buffer) ELSE units) = AllUnits(received)
    BY <1>1, <1>2, FinishIsAll DEF StreamType
  <2>2. QED
    BY <1>3, <2>1
<1>5. units' \in Seq(Seq(Bytes)) /\ Bounded(units')
  <2>1. /\ units \in Seq(Seq(Bytes)) /\ buffer \in Seq(Bytes)
    BY <1>1 DEF StreamType
  <2>2. /\ Append(units, buffer) \in Seq(Seq(Bytes))
        /\ Len(Append(units, buffer)) = Len(units) + 1
        /\ \A i \in 1 .. Len(units) : Append(units, buffer)[i] = units[i]
        /\ Append(units, buffer)[Len(units) + 1] = buffer
    BY <2>1, AppendProperties
  <2>3. /\ Len(units) \in Nat /\ DOMAIN units = 1 .. Len(units)
        /\ DOMAIN Append(units, buffer) = 1 .. Len(units) + 1
    BY <2>1, <2>2, LenProperties
  <2>4. \A i \in 1 .. Len(units) + 1 : i \in 1 .. Len(units) \/ i = Len(units) + 1
    BY <2>3
  <2>5. Bounded(Append(units, buffer))
    BY <1>1, <2>2, <2>3, <2>4 DEF Bounded
  <2>6. QED
    BY <1>1, <1>3, <2>1, <2>2, <2>5
<1>6. StreamType'
  <2>1. << >> \in Seq(Bytes)
    BY EmptySeq
  <2>2. QED
    BY <1>1, <1>3, <1>5, <2>1 DEF StreamType
<1>7. QED
  BY <1>3, <1>4, <1>5, <1>6 DEF ParserInv, OpenInv, EndedInv

(***************************************************************************)
(* The parser follows its stream at every moment.                          *)
(***************************************************************************)
THEOREM ParserInvariant == Spec => []ParserInv
<1>1. Init => ParserInv
  BY InitIsOpen
<1>2. ParserInv /\ [Next]_vars => ParserInv'
  <2> SUFFICES ASSUME ParserInv, [Next]_vars
               PROVE  ParserInv'
    OBVIOUS
  <2>1. ASSUME NEW byte \in Bytes, Arrive(byte)
        PROVE  ParserInv'
    <3>1. incoming' \in Seq(Bytes)
      BY <2>1, AppendProperties DEF Arrive, ParserInv, StreamType
    <3>2. UNCHANGED <<received, buffer, scanFrom, started, units, state>>
      BY <2>1 DEF Arrive
    <3>3. QED
      BY <3>1, <3>2 DEF ParserInv, StreamType, OpenInv, EndedInv, Bounded
  <2>2. CASE Feed
    BY <2>2, FeedKeeps
  <2>3. CASE Finish
    BY <2>3, FinishKeeps
  <2>4. CASE UNCHANGED vars
    BY <2>4 DEF vars, ParserInv, StreamType, OpenInv, EndedInv, Bounded
  <2>5. QED
    BY <2>1, <2>2, <2>3, <2>4 DEF Next
<1>3. QED
  BY <1>1, <1>2, PTL DEF Spec

(***************************************************************************)
(* Wherever the reads end, the parser has returned exactly the complete    *)
(* units of what it was fed and holds exactly the rest; at the end of the  *)
(* stream it has returned all of them (h264.py:24-52).                     *)
(***************************************************************************)
THEOREM UnitsAreTheStreams == Spec => []ReadsDoNotMatter
<1>1. ParserInv => ReadsDoNotMatter
  <2> SUFFICES ASSUME ParserInv
               PROVE  ReadsDoNotMatter
    OBVIOUS
  <2>1. ASSUME state = "open"
        PROVE  /\ units = ClosedUnits(received)
               /\ buffer = Unit(received, Cardinality(Cuts(received)) + 1)
    <3>1. PICK c : FollowsBy(c, received, units, buffer, scanFrom, started)
      BY <2>1 DEF ParserInv, OpenInv
    <3>2. Matches(buffer, scanFrom) = {} /\ received \in Seq(Bytes)
      BY <2>1 DEF ParserInv, OpenInv, StreamType
    <3>3. QED
      BY <3>1, <3>2, NoMatchIsCut
  <2>2. QED
    BY <2>1 DEF ReadsDoNotMatter, ParserInv, EndedInv
<1>2. QED
  BY <1>1, ParserInvariant, PTL

(***************************************************************************)
(* No unit the parser returns, nor what it holds, exceeds its bound, and   *)
(* it gives up only on a stream that holds a unit over the bound           *)
(* (h264.py:38-44).                                                        *)
(***************************************************************************)
THEOREM BoundIsKept == Spec => []BoundIsExact
<1>1. ParserInv => BoundIsExact
  BY DEF ParserInv, Bounded, OpenInv, EndedInv, HoldsTooLong, BoundIsExact
<1>2. QED
  BY <1>1, ParserInvariant, PTL
=============================================================================
