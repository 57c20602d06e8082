--------------------------- MODULE FrameQueueProofs ---------------------------
(***************************************************************************)
(* Proofs about FrameQueue and ImageFormat, for all channels, captures,    *)
(* images and limits.  What a sum over a queue or a join of rows is, is    *)
(* shown by induction: a set that holds 0 and the successor of what it     *)
(* holds has all natural numbers, because what it misses would have a      *)
(* least element.                                                          *)
(***************************************************************************)
EXTENDS FrameQueue, SequenceTheorems, WellFoundedInduction, TLAPS

\* A set of numbers that is not empty has a least element.
LEMMA LeastElement ==
    ASSUME NEW S \in SUBSET Nat, S # {}
    PROVE  \E m \in S : \A k \in S : m <= k
<1>1. PICK m \in S : \A k \in S : <<k, m>> \notin OpToRel(<, Nat)
  BY WFMin, NatLessThanWellFounded, Zenon
<1>2. \A k \in S : ~(k < m)
  BY <1>1, Zenon DEF OpToRel
<1>3. m \in S /\ S \subseteq Nat
  OBVIOUS
<1>4. QED
  BY <1>2, <1>3

\* Induction over the numbers, for sets: a counterexample would have a least one.
LEMMA Induction ==
    ASSUME NEW S, 0 \in S, \A n \in Nat : n \in S => n + 1 \in S
    PROVE  \A n \in Nat : n \in S
<1>1. SUFFICES ASSUME Nat \ S # {}
               PROVE  FALSE
  OBVIOUS
<1>2. PICK m \in Nat \ S : \A k \in Nat \ S : m <= k
  BY <1>1, LeastElement
<1>3. m # 0 /\ m - 1 \in Nat
  BY <1>2
<1>4. m - 1 \in S
  BY <1>2, <1>3
<1>5. QED
  BY <1>2, <1>3, <1>4

-----------------------------------------------------------------------------
(***************************************************************************)
(* The bytes of a queue.                                                   *)
(***************************************************************************)
IsTotal(f, n, w) == f = [i \in 0 .. n |-> IF i = 0 THEN 0 ELSE f[i - 1] + w[i]]

\* The function that TotalBytes chooses exists.
LEMMA TotalExists ==
    ASSUME NEW w, NEW n \in Nat
    PROVE  \E f : IsTotal(f, n, w)
<1> DEFINE S == {k \in Nat : \E f : IsTotal(f, k, w)}
<1>1. 0 \in S
  <2>1. IsTotal([i \in 0 .. 0 |-> 0], 0, w)
    BY DEF IsTotal
  <2>2. QED
    BY <2>1
<1>2. ASSUME NEW k \in Nat, k \in S
      PROVE  k + 1 \in S
  <2>1. PICK f : IsTotal(f, k, w)
    BY <1>2
  <2> DEFINE g == [i \in 0 .. k + 1 |-> IF i = k + 1 THEN f[k] + w[k + 1] ELSE f[i]]
  <2>2. IsTotal(g, k + 1, w)
    BY <2>1 DEF IsTotal
  <2>3. QED
    BY <2>2
<1> HIDE DEF S
<1>3. n \in S
  BY <1>1, <1>2, Induction
<1>4. QED
  BY <1>3 DEF S

\* The running total of the sizes of a queue, and TotalBytes at its end.
Sizes(q) == [i \in 1 .. Len(q) |-> Size(q[i])]

RunningTotal(f, q) ==
    /\ TotalBytes(q) = f[Len(q)]
    /\ f[0] = 0 /\ \A i \in 0 .. Len(q) : f[i] \in Nat
    /\ \A i \in 1 .. Len(q) : Size(q[i]) \in Nat /\ f[i] = f[i - 1] + Size(q[i])

\* TotalBytes is a running total over the queue.
LEMMA TotalRuns ==
    ASSUME NEW S, \A x \in S : Size(x) \in Nat, NEW q \in Seq(S)
    PROVE  \E f : RunningTotal(f, q)
<1> DEFINE Is(f) == f = [i \in 0 .. Len(q) |-> IF i = 0 THEN 0 ELSE f[i - 1] + Size(q[i])]
           f == CHOOSE g : Is(g)
<1>1. TotalBytes(q) = f[Len(q)]
  BY DEF TotalBytes
<1>2. Len(q) \in Nat /\ \A i \in 1 .. Len(q) : Size(q[i]) \in Nat
  BY LenProperties, ElementOfSeq
<1>3. \E g : Is(g)
  <2>1. PICK g : IsTotal(g, Len(q), Sizes(q))
    BY <1>2, TotalExists
  <2>2. Is(g)
    BY <1>2, <2>1, SMTT(30) DEF IsTotal, Sizes
  <2>3. QED
    BY <2>2
<1>4. Is(f)
  BY <1>3, Zenon
<1> HIDE DEF f
<1>5. f[0] = 0 /\ \A i \in 1 .. Len(q) : f[i] = f[i - 1] + Size(q[i])
  BY <1>2, <1>4, SMTT(30)
<1>6. \A i \in Nat : i <= Len(q) => f[i] \in Nat
  <2> DEFINE T == {i \in Nat : i <= Len(q) => f[i] \in Nat}
  <2>1. 0 \in T
    BY <1>5
  <2>2. ASSUME NEW i \in Nat, i \in T
        PROVE  i + 1 \in T
    <3>1. CASE i + 1 <= Len(q)
      <4>1. i + 1 \in 1 .. Len(q) /\ f[i] \in Nat
        BY <1>2, <2>2, <3>1
      <4>2. f[i + 1] = f[i] + Size(q[i + 1])
        BY <1>5, <4>1
      <4>3. QED
        BY <1>2, <4>1, <4>2
    <3>2. CASE ~(i + 1 <= Len(q))
      BY <3>2
    <3>3. QED
      BY <3>1, <3>2
  <2> HIDE DEF T
  <2>3. \A i \in Nat : i \in T
    BY <2>1, <2>2, Induction
  <2>4. QED
    BY <2>3 DEF T
<1>7. \A i \in 0 .. Len(q) : f[i] \in Nat
  BY <1>2, <1>6
<1>8. RunningTotal(f, q)
  BY <1>1, <1>2, <1>5, <1>7 DEF RunningTotal
<1>9. QED
  BY <1>8

\* An empty queue has no bytes.
LEMMA TotalOfNone == TotalBytes(<< >>) = 0
<1>1. \A x \in {} : Size(x) \in Nat
  OBVIOUS
<1>2. << >> \in Seq({}) /\ Len(<< >>) = 0
  BY EmptySeq
<1>3. QED
  BY <1>1, <1>2, TotalRuns DEF RunningTotal

\* Two running totals over the same sizes, the second k places later.
Alike(n, k, f, g, w) ==
    /\ f[0] = 0
    /\ \A i \in 1 .. n : /\ f[i] = f[i - 1] + w[i] /\ g[i + k] = g[(i - 1) + k] + w[i]
                         /\ w[i] \in Nat
    /\ \A i \in 0 .. n : f[i] \in Nat /\ g[i + k] \in Nat

\* Two running totals over the same sizes grow alike.
LEMMA TotalsRunAlike ==
    ASSUME NEW n \in Nat, NEW k \in Nat, NEW f, NEW g, NEW w, Alike(n, k, f, g, w)
    PROVE  g[n + k] = g[k] + f[n]
<1> USE DEF Alike
<1> DEFINE T == {i \in Nat : i <= n => g[i + k] = g[k] + f[i]}
<1>1. 0 \in T
  <2>1. 0 \in 0 .. n /\ 0 + k = k
    OBVIOUS
  <2>2. g[k] \in Nat
    BY <2>1
  <2>3. QED
    BY <2>1, <2>2
<1>2. ASSUME NEW i \in Nat, i \in T
      PROVE  i + 1 \in T
  <2>1. CASE i + 1 <= n
    <3>1. i + 1 \in 1 .. n /\ i \in 0 .. n /\ (i + 1) - 1 = i /\ 0 \in 0 .. n /\ 0 + k = k
      BY <2>1
    <3>2. g[i + k] = g[k] + f[i]
      BY <1>2, <2>1
    <3>3. f[i + 1] = f[i] + w[i + 1] /\ g[(i + 1) + k] = g[i + k] + w[i + 1]
      BY <3>1
    <3>4. f[i] \in Nat /\ g[k] \in Nat /\ w[i + 1] \in Nat
      BY <3>1
    <3>5. g[(i + 1) + k] = g[k] + f[i + 1]
      BY <3>2, <3>3, <3>4
    <3>6. QED
      BY <3>5
  <2>2. CASE ~(i + 1 <= n)
    BY <2>2
  <2>3. QED
    BY <2>1, <2>2
<1> HIDE DEF T
<1>3. n \in T
  BY <1>1, <1>2, Induction
<1>4. QED
  BY <1>3 DEF T

\* append() adds the size of the frame.
LEMMA TotalOfAppend ==
    ASSUME NEW S, \A x \in S : Size(x) \in Nat, NEW q \in Seq(S), NEW x \in S
    PROVE  /\ TotalBytes(q) \in Nat
           /\ TotalBytes(Append(q, x)) = TotalBytes(q) + Size(x)
<1> DEFINE r == Append(q, x)
           n == Len(q)
           w == Sizes(q)
<1>1. /\ r \in Seq(S) /\ Len(r) = n + 1 /\ n \in Nat
      /\ r[n + 1] = x /\ \A i \in 1 .. n : r[i] = q[i] /\ w[i] = Size(q[i])
  BY AppendProperties, LenProperties DEF Sizes
<1>2. PICK f : /\ TotalBytes(q) = f[n] /\ f[0] = 0 /\ \A i \in 0 .. n : f[i] \in Nat
               /\ \A i \in 1 .. n : Size(q[i]) \in Nat /\ f[i] = f[i - 1] + Size(q[i])
  <2>1. \E e : RunningTotal(e, q)
    BY TotalRuns
  <2>2. QED
    BY <2>1 DEF RunningTotal
<1> HIDE DEF r
<1>3. PICK g : /\ TotalBytes(r) = g[Len(r)] /\ g[0] = 0 /\ \A i \in 0 .. Len(r) : g[i] \in Nat
               /\ \A i \in 1 .. Len(r) : Size(r[i]) \in Nat /\ g[i] = g[i - 1] + Size(r[i])
  <2>1. \E e : RunningTotal(e, r)
    BY <1>1, TotalRuns
  <2>2. QED
    BY <2>1 DEF RunningTotal
<1> HIDE DEF n, w
<1>4. ASSUME NEW i \in 1 .. n
      PROVE  /\ w[i] \in Nat
             /\ f[i] = f[i - 1] + w[i] /\ g[i + 0] = g[(i - 1) + 0] + w[i]
  <2>1. i \in 1 .. Len(r) /\ i + 0 = i /\ (i - 1) + 0 = i - 1
    BY <1>1
  <2>2. r[i] = q[i] /\ w[i] = Size(q[i])
    BY <1>1
  <2>3. f[i] = f[i - 1] + Size(q[i]) /\ Size(q[i]) \in Nat
    BY <1>2
  <2>4. g[i] = g[i - 1] + Size(r[i])
    BY <1>3, <2>1
  <2>5. QED
    BY <2>1, <2>2, <2>3, <2>4
<1>5. \A i \in 0 .. n : f[i] \in Nat /\ g[i + 0] \in Nat
  BY <1>1, <1>2, <1>3
<1>6. g[n + 0] = g[0] + f[n]
  <2>1. \A i \in 1 .. n : f[i] = f[i - 1] + w[i] /\ g[i + 0] = g[(i - 1) + 0] + w[i]
    BY <1>4
  <2>2. \A i \in 1 .. n : w[i] \in Nat
    BY <1>4
  <2>3. 0 \in Nat /\ n \in Nat /\ f[0] = 0
    BY <1>1, <1>2
  <2>4. Alike(n, 0, f, g, w)
    BY <1>5, <2>1, <2>2, <2>3 DEF Alike
  <2>5. QED
    BY <2>3, <2>4, TotalsRunAlike
<1>7. g[n + 1] = g[n] + Size(x) /\ Size(x) \in Nat /\ g[n] \in Nat /\ f[n] \in Nat
  BY <1>1, <1>2, <1>3
<1>8. TotalBytes(r) = g[n + 1] /\ g[0] = 0 /\ TotalBytes(q) = f[n]
  BY <1>1, <1>2, <1>3 DEF n
<1>9. TotalBytes(r) = TotalBytes(q) + Size(x) /\ TotalBytes(q) \in Nat
  BY <1>1, <1>6, <1>7, <1>8
<1>10. QED
  BY <1>9 DEF r

\* popleft() takes the size of the frame.
LEMMA TotalOfTail ==
    ASSUME NEW S, \A x \in S : Size(x) \in Nat, NEW q \in Seq(S), q # << >>
    PROVE  /\ TotalBytes(Tail(q)) \in Nat /\ Size(Head(q)) \in Nat
           /\ TotalBytes(q) = TotalBytes(Tail(q)) + Size(Head(q))
<1> DEFINE r == Tail(q)
           n == Len(r)
           w == Sizes(r)
<1>1. /\ r \in Seq(S) /\ n \in Nat /\ Len(q) = n + 1
      /\ Head(q) = q[1] /\ \A i \in 1 .. n : r[i] = q[i + 1] /\ w[i] = Size(r[i])
  BY HeadTailProperties, LenProperties, EmptySeq DEF Sizes
<1>2. PICK g : /\ TotalBytes(q) = g[Len(q)] /\ g[0] = 0 /\ \A i \in 0 .. Len(q) : g[i] \in Nat
               /\ \A i \in 1 .. Len(q) : Size(q[i]) \in Nat /\ g[i] = g[i - 1] + Size(q[i])
  <2>1. \E e : RunningTotal(e, q)
    BY TotalRuns
  <2>2. QED
    BY <2>1 DEF RunningTotal
<1> HIDE DEF r
<1>3. PICK f : /\ TotalBytes(r) = f[n] /\ f[0] = 0 /\ \A i \in 0 .. n : f[i] \in Nat
               /\ \A i \in 1 .. n : Size(r[i]) \in Nat /\ f[i] = f[i - 1] + Size(r[i])
  <2>1. \E e : RunningTotal(e, r)
    BY <1>1, TotalRuns
  <2>2. QED
    BY <2>1 DEF RunningTotal
<1>4. /\ g[1] = Size(Head(q)) /\ Size(Head(q)) \in Nat
      /\ TotalBytes(q) = g[n + 1] /\ TotalBytes(r) = f[n]
  <2>1. 1 \in 1 .. Len(q) /\ 1 - 1 = 0
    BY <1>1
  <2>2. g[1] = g[0] + Size(q[1]) /\ Size(q[1]) \in Nat
    BY <1>2, <2>1
  <2>3. QED
    BY <1>1, <1>2, <1>3, <2>2
<1> HIDE DEF n, w
<1>5. ASSUME NEW i \in 1 .. n
      PROVE  /\ w[i] \in Nat
             /\ f[i] = f[i - 1] + w[i] /\ g[i + 1] = g[(i - 1) + 1] + w[i]
  <2>1. i + 1 \in 1 .. Len(q) /\ (i + 1) - 1 = i /\ (i - 1) + 1 = i
    BY <1>1
  <2>2. r[i] = q[i + 1] /\ w[i] = Size(r[i])
    BY <1>1
  <2>3. f[i] = f[i - 1] + Size(r[i]) /\ Size(r[i]) \in Nat
    BY <1>3
  <2>4. g[i + 1] = g[i] + Size(q[i + 1])
    BY <1>2, <2>1
  <2>5. QED
    BY <2>1, <2>2, <2>3, <2>4
<1>6. \A i \in 0 .. n : f[i] \in Nat /\ g[i + 1] \in Nat
  BY <1>1, <1>2, <1>3
<1>7. g[n + 1] = g[1] + f[n]
  <2>1. \A i \in 1 .. n : f[i] = f[i - 1] + w[i] /\ g[i + 1] = g[(i - 1) + 1] + w[i]
    BY <1>5
  <2>2. \A i \in 1 .. n : w[i] \in Nat
    BY <1>5
  <2>3. 1 \in Nat /\ n \in Nat /\ f[0] = 0
    BY <1>1, <1>3
  <2>4. Alike(n, 1, f, g, w)
    BY <1>6, <2>1, <2>2, <2>3 DEF Alike
  <2>5. QED
    BY <2>3, <2>4, TotalsRunAlike
<1>8. f[n] \in Nat
  BY <1>1, <1>3
<1>9. QED
  BY <1>4, <1>7, <1>8 DEF r

-----------------------------------------------------------------------------
(***************************************************************************)
(* The rows of a raw image, joined: FlattenSeq of n rows of m bytes.       *)
(***************************************************************************)
Cat(s, t) == s \o t

IsJoin(f, n, rows) == f = [i \in 1 .. n |-> IF i = 1 THEN rows[i] ELSE Cat(f[i - 1], rows[i])]

\* The function that FlattenSeq chooses exists.
LEMMA JoinExists ==
    ASSUME NEW rows, NEW n \in Nat
    PROVE  \E f : IsJoin(f, n, rows)
<1> DEFINE S == {k \in Nat : \E f : IsJoin(f, k, rows)}
<1>1. 0 \in S
  <2>1. IsJoin([i \in 1 .. 0 |-> 0], 0, rows)
    BY DEF IsJoin
  <2>2. QED
    BY <2>1
<1>2. ASSUME NEW k \in Nat, k \in S
      PROVE  k + 1 \in S
  <2>1. PICK f : IsJoin(f, k, rows)
    BY <1>2
  <2> DEFINE g == [i \in 1 .. k + 1 |->
                      IF i = k + 1 THEN (IF i = 1 THEN rows[i] ELSE Cat(f[k], rows[i])) ELSE f[i]]
  <2>2. IsJoin(g, k + 1, rows)
    BY <2>1 DEF IsJoin
  <2>3. QED
    BY <2>2
<1> HIDE DEF S
<1>3. n \in S
  BY <1>1, <1>2, Induction
<1>4. QED
  BY <1>3 DEF S

\* Of two products with one natural number, the greater factor has the greater.
LEMMA ProductsGrow ==
    ASSUME NEW a \in Nat, NEW b \in Nat, NEW m \in Nat, a <= b
    PROVE  a * m <= b * m /\ a * m \in Nat /\ b * m \in Nat
<1>1. b - a \in Nat /\ (b - a) * m \in Nat /\ a * m \in Nat
  OBVIOUS
<1>2. b * m = a * m + (b - a) * m
  OBVIOUS
<1>3. QED
  BY <1>1, <1>2

\* Where byte b of row r is.
LEMMA PlaceOfByte ==
    ASSUME NEW n \in Nat, NEW m \in Nat, NEW r \in 0 .. n - 1, NEW b \in 1 .. m
    PROVE  r * m + b \in 1 .. n * m /\ r * m \in Nat
<1>1. r \in Nat /\ r + 1 \in Nat /\ r + 1 <= n
  OBVIOUS
<1>2. (r + 1) * m <= n * m /\ r * m \in Nat /\ n * m \in Nat
  BY <1>1, ProductsGrow
<1>3. (r + 1) * m = r * m + m
  BY <1>1
<1>4. QED
  BY <1>2, <1>3

\* The first k rows, joined.
Joined(s, k, m, rows) ==
    /\ s \in Seq(Nat) /\ Len(s) = k * m
    /\ \A r \in 0 .. k - 1 : \A b \in 1 .. m : s[r * m + b] = rows[r + 1][b]

\* One more row, of the same length, is joined to the rows before it.
LEMMA JoinOneMore ==
    ASSUME NEW k \in Nat, NEW m \in Nat, NEW rows, NEW s, Joined(s, k, m, rows),
           rows[k + 1] \in Seq(Nat), Len(rows[k + 1]) = m
    PROVE  Joined(Cat(s, rows[k + 1]), k + 1, m, rows)
<1> DEFINE row == rows[k + 1]
           t == Cat(s, row)
<1>1. /\ s \in Seq(Nat) /\ Len(s) = k * m /\ k * m \in Nat
      /\ row \in Seq(Nat) /\ Len(row) = m
  BY ProductsGrow DEF Joined
<1> HIDE DEF row
<1>2. /\ t \in Seq(Nat) /\ Len(t) = k * m + m
      /\ \A i \in 1 .. k * m + m : t[i] = IF i <= k * m THEN s[i] ELSE row[i - k * m]
  <2>1. t = s \o row /\ s \in Seq(Nat) /\ row \in Seq(Nat)
    BY <1>1 DEF Cat
  <2> HIDE DEF t
  <2>2. /\ s \o row \in Seq(Nat) /\ Len(s \o row) = Len(s) + Len(row)
        /\ \A i \in 1 .. Len(s) + Len(row) :
               (s \o row)[i] = IF i <= Len(s) THEN s[i] ELSE row[i - Len(s)]
    BY <2>1, ConcatProperties, Zenon
  <2>3. Len(s) = k * m /\ Len(row) = m
    BY <1>1
  <2>4. QED
    BY <2>1, <2>2, <2>3, Zenon
<1>3. (k + 1) * m = k * m + m
  OBVIOUS
<1> HIDE DEF t
<1>4. ASSUME NEW r \in 0 .. (k + 1) - 1, NEW b \in 1 .. m
      PROVE  t[r * m + b] = rows[r + 1][b]
  <2>1. CASE r = k
    <3>1. k * m + b \in 1 .. k * m + m /\ ~(k * m + b <= k * m) /\ (k * m + b) - k * m = b
      BY <1>1
    <3>2. t[k * m + b] = row[b]
      BY <1>2, <3>1
    <3>3. QED
      BY <2>1, <3>2 DEF row
  <2>2. CASE r # k
    <3>1. r \in 0 .. k - 1
      BY <2>2
    <3>2. r * m + b \in 1 .. k * m
      BY <3>1, PlaceOfByte
    <3>3. t[r * m + b] = s[r * m + b]
      BY <1>1, <1>2, <3>2
    <3>4. QED
      BY <3>1, <3>3 DEF Joined
  <2>3. QED
    BY <2>1, <2>2
<1>5. Joined(t, k + 1, m, rows)
  BY <1>2, <1>3, <1>4 DEF Joined
<1>6. QED
  BY <1>5 DEF t, row

\* FlattenSeq joins rows of one length, in order.
LEMMA JoinedRows ==
    ASSUME NEW n \in Nat \ {0}, NEW m \in Nat, NEW rows \in Seq(Seq(Nat)), Len(rows) = n,
           \A r \in 1 .. n : Len(rows[r]) = m
    PROVE  Joined(FlattenSeq(rows), n, m, rows)
<1> DEFINE Is(f) == f = [i \in 1 .. Len(rows) |->
                       IF i = 1 THEN rows[i] ELSE Cat(f[i - 1], rows[i])]
           f == CHOOSE g : Is(g)
<1>1. FlattenSeq(rows) = f[n]
  BY DEF FlattenSeq, Cat
<1>2. \E g : Is(g)
  <2>1. PICK g : IsJoin(g, n, rows)
    BY JoinExists
  <2>2. Is(g)
    BY <2>1 DEF IsJoin
  <2>3. QED
    BY <2>2
<1>3. Is(f)
  BY <1>2, Zenon
<1> HIDE DEF f
<1>4. f[1] = rows[1] /\ \A i \in 2 .. n : f[i] = Cat(f[i - 1], rows[i])
  BY <1>3
<1>5. \A r \in 1 .. n : rows[r] \in Seq(Nat)
  BY ElementOfSeq
<1> DEFINE T == {k \in Nat : k + 1 <= n => Joined(f[k + 1], k + 1, m, rows)}
<1>6. 0 \in T
  <2>1. rows[1] \in Seq(Nat) /\ Len(rows[1]) = m /\ 1 * m = m
    BY <1>5
  <2>2. ASSUME NEW r \in 0 .. 1 - 1, NEW b \in 1 .. m
        PROVE  rows[1][r * m + b] = rows[r + 1][b]
    <3>1. r = 0 /\ r * m + b = b
      OBVIOUS
    <3>2. QED
      BY <3>1
  <2>3. Joined(rows[1], 1, m, rows)
    BY <2>1, <2>2 DEF Joined
  <2>4. QED
    BY <1>4, <2>3
<1>7. ASSUME NEW k \in Nat, k \in T
      PROVE  k + 1 \in T
  <2>1. CASE (k + 1) + 1 <= n
    <3>1. Joined(f[k + 1], k + 1, m, rows)
      BY <1>7, <2>1
    <3>2. (k + 1) + 1 \in 2 .. n /\ ((k + 1) + 1) - 1 = k + 1 /\ (k + 1) + 1 \in 1 .. n
      BY <2>1
    <3>3. f[(k + 1) + 1] = Cat(f[k + 1], rows[(k + 1) + 1])
      BY <1>4, <3>2
    <3>4. rows[(k + 1) + 1] \in Seq(Nat) /\ Len(rows[(k + 1) + 1]) = m
      BY <1>5, <3>2
    <3>5. Joined(Cat(f[k + 1], rows[(k + 1) + 1]), (k + 1) + 1, m, rows)
      BY <3>1, <3>4, JoinOneMore
    <3>6. QED
      BY <3>3, <3>5
  <2>2. CASE ~((k + 1) + 1 <= n)
    BY <2>2
  <2>3. QED
    BY <2>1, <2>2
<1> HIDE DEF T
<1>8. \A k \in Nat : k \in T
  BY <1>6, <1>7, Induction
<1>9. Joined(f[n], n, m, rows)
  <2>1. n - 1 \in Nat /\ (n - 1) + 1 = n /\ n <= n
    OBVIOUS
  <2>2. n - 1 \in T
    BY <1>8, <2>1
  <2>3. QED
    BY <2>1, <2>2 DEF T
<1>10. QED
  BY <1>1, <1>9

-----------------------------------------------------------------------------
(***************************************************************************)
(* An admitted raw image, packed.                                          *)
(***************************************************************************)

\* The row bytes are what the child multiplies.
LEMMA RowsMakeFrame ==
    ASSUME NEW raw, RawAccepted(raw), raw.step \in Nat, raw.size \in Nat
    PROVE  /\ RowBytes(raw) \in Nat \ {0} /\ Height \in Nat \ {0}
           /\ raw.height = Height
           /\ Height * RowBytes(raw) = PackedFrameBytes(RawEncoding, Width, Height)
           /\ PackedFrameBytes(raw.encoding, raw.width, raw.height)
                = PackedFrameBytes(RawEncoding, Width, Height)
           /\ RowBytes(raw) <= raw.step /\ Height * raw.step <= raw.size
<1>1. raw.encoding = RawEncoding /\ raw.width = Width /\ raw.height = Height
  BY DEF RawAccepted
<1>2. PixelBytes[RawEncoding] \in Nat \ {0}
  BY FormatConstants DEF PixelBytes
<1>3. Width \in Nat \ {0} /\ Height \in Nat \ {0}
  BY FormatConstants
<1> DEFINE p == PixelBytes[RawEncoding]
<1>4. RowBytes(raw) = Width * p
  BY <1>1 DEF RowBytes
<1> HIDE DEF p
<1>5. p \in Nat \ {0}
  BY <1>2 DEF p
<1>6. Width * p \in Nat \ {0}
  <2>1. Width >= 1 /\ p >= 1 /\ Width \in Nat /\ p \in Nat
    BY <1>3, <1>5
  <2>2. 1 * p <= Width * p /\ Width * p \in Nat
    BY <2>1, ProductsGrow
  <2>3. QED
    BY <2>1, <2>2
<1>7. Height * (Width * p) = Width * Height * p
  BY <1>3, <1>5
<1>8. PackedFrameBytes(RawEncoding, Width, Height) = Width * Height * p
  BY DEF PackedFrameBytes, p
<1>9. RowBytes(raw) <= raw.step /\ raw.step * Height <= raw.size
  BY <1>1, <1>4, <1>6 DEF RawAccepted
<1>10. raw.step * Height = Height * raw.step
  BY <1>3
<1>11. QED
  BY <1>1, <1>3, <1>4, <1>6, <1>7, <1>8, <1>9, <1>10

\* Bytes first .. last of a raw message.
AreBytes(s, first, count) ==
    s \in Seq(Nat) /\ Len(s) = count /\ \A i \in 1 .. count : s[i] = first + i - 1

\* A slice of a message has the bytes of its positions.
LEMMA BytesOfMessage ==
    ASSUME NEW raw, raw.size \in Nat, NEW first \in Nat \ {0}, NEW last \in Nat,
           first <= last, last <= raw.size
    PROVE  AreBytes(SubSeq(Data(raw), first, last), first, last - first + 1)
<1>1. \A i \in first .. last : Data(raw)[i] = i
  BY DEF Data
<1>2. \A i \in first .. last : Data(raw)[i] \in Nat
  BY <1>1
<1>3. /\ SubSeq(Data(raw), first, last) \in Seq(Nat)
      /\ Len(SubSeq(Data(raw), first, last)) = IF first <= last THEN last - first + 1 ELSE 0
      /\ \A i \in 1 .. last - first + 1 :
             SubSeq(Data(raw), first, last)[i] = Data(raw)[first + i - 1]
  BY <1>2, SubSeqProperties
<1>4. \A i \in 1 .. last - first + 1 : first + i - 1 \in first .. last
  OBVIOUS
<1>5. \A i \in 1 .. last - first + 1 :
          SubSeq(Data(raw), first, last)[i] = first + i - 1
  BY <1>1, <1>3, <1>4
<1>6. Len(SubSeq(Data(raw), first, last)) = last - first + 1
  BY <1>3
<1>7. QED
  BY <1>3, <1>5, <1>6 DEF AreBytes

\* Nothing is missing from a packed image, whatever its padding was.
LEMMA PackedIsJoined ==
    ASSUME NEW raw, RawAccepted(raw), raw.step \in Nat, raw.size \in Nat
    PROVE  /\ Packed(raw) \in Seq(Nat)
           /\ Len(Packed(raw)) = PackedFrameBytes(RawEncoding, Width, Height)
           /\ \A r \in 0 .. Height - 1, b \in 1 .. RowBytes(raw) :
                  Packed(raw)[r * RowBytes(raw) + b] = r * raw.step + b
<1> DEFINE rb == RowBytes(raw)
           step == raw.step
           full == PackedFrameBytes(RawEncoding, Width, Height)
<1>1. /\ rb \in Nat \ {0} /\ Height \in Nat \ {0} /\ raw.height = Height
      /\ Height * rb = full
      /\ PackedFrameBytes(raw.encoding, raw.width, raw.height) = full
      /\ rb <= step /\ Height * step <= raw.size /\ step \in Nat
  BY RowsMakeFrame
<1>2. full \in Nat \ {0} /\ full <= raw.size
  <2>1. 1 \in Nat /\ 1 <= Height /\ Height \in Nat /\ rb \in Nat /\ rb >= 1
    BY <1>1
  <2>2. 1 * rb <= Height * rb /\ Height * rb \in Nat
    BY <2>1, ProductsGrow
  <2>3. rb * Height <= step * Height
    BY <1>1, <2>1, ProductsGrow
  <2>4. rb * Height = Height * rb /\ step * Height = Height * step
    BY <1>1, <2>1
  <2>5. QED
    BY <1>1, <2>1, <2>2, <2>3, <2>4
<1>3. CASE step = rb
  <2>1. Packed(raw) = SubSeq(Data(raw), 1, full)
    BY <1>1, <1>3 DEF Packed
  <2>2. /\ Packed(raw) \in Seq(Nat) /\ Len(Packed(raw)) = full
        /\ \A i \in 1 .. full : Packed(raw)[i] = i
    <3>1. 1 \in Nat \ {0} /\ full \in Nat /\ 1 <= full /\ full - 1 + 1 = full
      BY <1>2
    <3>2. AreBytes(SubSeq(Data(raw), 1, full), 1, full - 1 + 1)
      BY <1>2, <3>1, BytesOfMessage
    <3>3. AreBytes(Packed(raw), 1, full)
      BY <2>1, <3>1, <3>2
    <3>4. \A i \in 1 .. full : 1 + i - 1 = i
      OBVIOUS
    <3>5. QED
      BY <3>3, <3>4 DEF AreBytes
  <2>3. ASSUME NEW r \in 0 .. Height - 1, NEW b \in 1 .. rb
        PROVE  Packed(raw)[r * rb + b] = r * step + b
    <3>1. r * rb + b \in 1 .. Height * rb
      BY <1>1, PlaceOfByte
    <3>2. Packed(raw)[r * rb + b] = r * rb + b
      BY <1>1, <2>2, <3>1
    <3>3. QED
      BY <1>3, <3>2
  <2>4. QED
    BY <2>2, <2>3
<1>4. CASE step # rb
  <2> DEFINE rows == [r \in 1 .. raw.height |->
                         SubSeq(Data(raw), (r - 1) * step + 1, (r - 1) * step + rb)]
  <2>1. Packed(raw) = FlattenSeq(rows)
    BY <1>4 DEF Packed
  <2>2. ASSUME NEW r \in 1 .. Height
        PROVE  /\ rows[r] \in Seq(Nat) /\ Len(rows[r]) = rb
               /\ \A b \in 1 .. rb : rows[r][b] = (r - 1) * step + b
    <3> DEFINE start == (r - 1) * step
    <3>1. rows[r] = SubSeq(Data(raw), start + 1, start + rb)
      BY <1>1
    <3>2. start \in Nat /\ start + rb <= raw.size
      <4>1. r - 1 \in 0 .. Height - 1 /\ r - 1 \in Nat /\ Height \in Nat /\ rb \in 1 .. step
        BY <1>1
      <4>2. start + rb \in 1 .. Height * step /\ start \in Nat
        BY <1>1, <4>1, PlaceOfByte
      <4>3. QED
        BY <1>1, <4>2
    <3> HIDE DEF start, rows
    <3>3. /\ start + 1 \in Nat \ {0} /\ start + rb \in Nat /\ start + 1 <= start + rb
          /\ (start + rb) - (start + 1) + 1 = rb
          /\ \A b \in 1 .. rb : (start + 1) + b - 1 = start + b
      BY <1>1, <3>2
    <3>4. AreBytes(SubSeq(Data(raw), start + 1, start + rb), start + 1,
                   (start + rb) - (start + 1) + 1)
      BY <3>2, <3>3, BytesOfMessage
    <3>5. rows[r] \in Seq(Nat) /\ Len(rows[r]) = rb /\ \A b \in 1 .. rb : rows[r][b] = start + b
      BY <3>1, <3>3, <3>4 DEF AreBytes
    <3>6. QED
      BY <3>5 DEF start
  <2>3. rows \in Seq(Seq(Nat)) /\ Len(rows) = Height
    BY <1>1, <2>2
  <2> HIDE DEF rows
  <2>4. \A r \in 1 .. Height : Len(rows[r]) = rb
    BY <2>2
  <2>5. Joined(FlattenSeq(rows), Height, rb, rows)
    BY <1>1, <2>3, <2>4, JoinedRows
  <2>6. ASSUME NEW r \in 0 .. Height - 1, NEW b \in 1 .. rb
        PROVE  Packed(raw)[r * rb + b] = r * step + b
    <3>1. r + 1 \in 1 .. Height /\ (r + 1) - 1 = r
      BY <1>1
    <3>2. FlattenSeq(rows)[r * rb + b] = rows[r + 1][b]
      BY <2>5 DEF Joined
    <3>3. rows[r + 1][b] = ((r + 1) - 1) * step + b
      BY <2>2, <3>1
    <3>4. QED
      BY <2>1, <3>1, <3>2, <3>3
  <2>7. Packed(raw) \in Seq(Nat) /\ Len(Packed(raw)) = full
    BY <1>1, <2>1, <2>5 DEF Joined
  <2>8. QED
    BY <2>6, <2>7
<1>5. QED
  BY <1>3, <1>4

(***************************************************************************)
(* What the submit methods admit is whole when it is packed, and fits an   *)
(* empty queue (frames.py:112-148, runtime.py:501-532).                    *)
(***************************************************************************)
LEMMA AdmittedIsWhole ==
    ASSUME NEW image \in Images, NEW source \in {"compressed", "raw"}, Admitted(image, source)
    PROVE  IsWhole(image) /\ EncoderBytes(image) \in Nat /\ EncoderBytes(image) <= MaxQueuedBytes
<1>1. image.size \in Nat /\ (image.type = "raw" => image.step \in Nat)
  BY QueueConstants
<1>2. CASE image.type = "raw"
  <2>1. RawAccepted(image)
    BY <1>2 DEF Admitted
  <2>2. /\ Packed(image) \in Seq(Nat)
        /\ Len(Packed(image)) = PackedFrameBytes(RawEncoding, Width, Height)
        /\ \A r \in 0 .. Height - 1, b \in 1 .. RowBytes(image) :
               Packed(image)[r * RowBytes(image) + b] = r * image.step + b
    BY <1>1, <1>2, <2>1, PackedIsJoined
  <2>3. Len(Packed(image)) \in Nat
    BY <2>2, LenProperties
  <2>4. IsWhole(image)
    BY <2>2 DEF IsWhole
  <2>5. EncoderBytes(image) = PackedFrameBytes(RawEncoding, Width, Height)
    BY <1>2, <2>2 DEF EncoderBytes
  <2>6. QED
    BY <2>2, <2>3, <2>4, <2>5, QueueConstants
<1>3. CASE image.type # "raw"
  <2>1. source = "compressed" /\ JpegAccepted(image)
    BY <1>3 DEF Admitted
  <2>2. EncoderBytes(image) = image.size /\ IsWhole(image)
    BY <1>3 DEF EncoderBytes, IsWhole
  <2>3. image.size <= MaxFrameBytes /\ MaxFrameBytes \in Nat
    BY <2>1, FormatConstants DEF JpegAccepted
  <2>4. QED
    BY <1>1, <2>2, <2>3, QueueConstants
<1>4. QED
  BY <1>2, <1>3

-----------------------------------------------------------------------------
(***************************************************************************)
(* Making room.                                                            *)
(***************************************************************************)
LEMMA LeastIsMin ==
    ASSUME NEW S \in SUBSET Nat, S # {}
    PROVE  Min(S) \in S
<1>1. \E m \in S : \A k \in S : m <= k
  BY LeastElement
<1>2. QED
  BY <1>1, Zenon DEF Min

\* What is left without the k oldest frames.
LEMMA WithoutIsSuffix ==
    ASSUME NEW S, NEW q \in Seq(S), NEW k \in 0 .. Len(q)
    PROVE  /\ Without(q, k) \in Seq(S) /\ Len(Without(q, k)) = Len(q) - k
           /\ \A i \in 1 .. Len(q) - k : Without(q, k)[i] = q[i + k]
<1>1. Len(q) \in Nat /\ \A i \in k + 1 .. Len(q) : q[i] \in S
  BY LenProperties, ElementOfSeq
<1>2. k + 1 \in Int /\ Len(q) \in Int
  BY <1>1
<1>3. /\ SubSeq(q, k + 1, Len(q)) \in Seq(S)
      /\ Len(SubSeq(q, k + 1, Len(q))) = IF k + 1 <= Len(q) THEN Len(q) - (k + 1) + 1 ELSE 0
      /\ \A i \in 1 .. Len(q) - (k + 1) + 1 :
             SubSeq(q, k + 1, Len(q))[i] = q[(k + 1) + i - 1]
  BY <1>1, <1>2, SubSeqProperties
<1>4. /\ Len(q) - (k + 1) + 1 = Len(q) - k
      /\ (~(k + 1 <= Len(q)) => Len(q) - k = 0)
      /\ \A i \in 1 .. Len(q) - k : (k + 1) + i - 1 = i + k
  BY <1>1
<1>5. QED
  BY <1>3, <1>4 DEF Without

\* A queue keeps a run up to its newest frame, and then has room.
LEMMA KeptHasRoom ==
    ASSUME NEW S, \A x \in S : Size(x) \in Nat, NEW q \in Seq(S),
           NEW size \in Nat, size <= MaxQueuedBytes
    PROVE  \E k \in 0 .. Len(q) :
               /\ Kept(q, size) = Without(q, k)
               /\ Len(Without(q, k)) < Depth
               /\ TotalBytes(Without(q, k)) \in Nat
               /\ TotalBytes(Without(q, k)) + size <= MaxQueuedBytes
<1> DEFINE K == {k \in 0 .. Len(q) : k = Len(q) \/ Fits(Without(q, k), size)}
           k == Min(K)
<1>1. Len(q) \in Nat
  BY LenProperties
<1>2. K \in SUBSET Nat /\ Len(q) \in K
  BY <1>1
<1>3. k \in K /\ Kept(q, size) = Without(q, k)
  <2>1. K # {}
    BY <1>2
  <2>2. k \in K
    BY <1>2, <2>1, LeastIsMin
  <2>3. QED
    BY <2>2 DEF Kept
<1> HIDE DEF k
<1>4. k \in 0 .. Len(q) /\ (k = Len(q) \/ Fits(Without(q, k), size))
  BY <1>3
<1>5. Without(q, k) \in Seq(S) /\ Len(Without(q, k)) = Len(q) - k
  BY <1>4, WithoutIsSuffix
<1>6. TotalBytes(Without(q, k)) \in Nat
  <2>1. CASE Without(q, k) = << >>
    BY <2>1, TotalOfNone
  <2>2. CASE Without(q, k) # << >>
    <3>1. /\ TotalBytes(Tail(Without(q, k))) \in Nat /\ Size(Head(Without(q, k))) \in Nat
          /\ TotalBytes(Without(q, k))
               = TotalBytes(Tail(Without(q, k))) + Size(Head(Without(q, k)))
      BY <1>5, <2>2, TotalOfTail
    <3>2. QED
      BY <3>1
  <2>3. QED
    BY <2>1, <2>2
<1>7. CASE k = Len(q)
  <2>1. Len(Without(q, k)) = 0
    BY <1>1, <1>5, <1>7
  <2>2. Without(q, k) = << >>
    BY <1>5, <2>1, EmptySeq
  <2>3. TotalBytes(Without(q, k)) = 0
    BY <2>2, TotalOfNone
  <2>4. QED
    BY <1>3, <1>4, <1>6, <2>1, <2>3, QueueConstants
<1>8. CASE Fits(Without(q, k), size)
  BY <1>3, <1>4, <1>6, <1>8 DEF Fits
<1>9. QED
  BY <1>4, <1>7, <1>8

\* A suffix of a consecutive run is one, with the same end.
Consecutive(q) == \A i \in 1 .. Len(q) - 1 : q[i + 1].seq = q[i].seq + 1

\* Frames that leave at the old end leave a run with the same newest frame.
LEMMA SuffixIsRun ==
    ASSUME NEW S, NEW q \in Seq(S), NEW k \in 0 .. Len(q), Consecutive(q)
    PROVE  /\ Consecutive(Without(q, k))
           /\ Without(q, k) # << >> =>
                  q # << >> /\ Without(q, k)[Len(Without(q, k))] = q[Len(q)]
<1> DEFINE r == Without(q, k)
           n == Len(q)
<1>1. r \in Seq(S) /\ n \in Nat /\ Len(r) = n - k /\ \A i \in 1 .. n - k : r[i] = q[i + k]
  BY WithoutIsSuffix, LenProperties
<1> HIDE DEF r
<1>2. ASSUME NEW i \in 1 .. Len(r) - 1
      PROVE  r[i + 1].seq = r[i].seq + 1
  <2>1. i \in 1 .. n - k /\ i + 1 \in 1 .. n - k /\ i + k \in 1 .. n - 1
        /\ (i + 1) + k = (i + k) + 1
    BY <1>1
  <2>2. q[(i + k) + 1].seq = q[i + k].seq + 1
    BY <2>1 DEF Consecutive
  <2>3. r[i] = q[i + k] /\ r[i + 1] = q[(i + k) + 1]
    BY <1>1, <2>1
  <2>4. QED
    BY <2>2, <2>3
<1>3. ASSUME r # << >>
      PROVE  q # << >> /\ r[Len(r)] = q[n]
  <2>1. Len(r) \in Nat \ {0}
    BY <1>1, <1>3, EmptySeq
  <2>2. n - k \in 1 .. n - k /\ (n - k) + k = n /\ n > 0
    BY <1>1, <2>1
  <2>3. q # << >>
    BY <2>2, EmptySeq
  <2>4. QED
    BY <1>1, <2>2, <2>3
<1>4. QED
  BY <1>2, <1>3 DEF Consecutive, r

\* The pump takes the oldest frame: what is left is a run.
LEMMA TailIsRun ==
    ASSUME NEW S, NEW q \in Seq(S), q # << >>, Consecutive(q)
    PROVE  /\ Consecutive(Tail(q))
           /\ Tail(q) # << >> => Tail(q)[Len(Tail(q))] = q[Len(q)]
<1>1. Len(q) \in Nat \ {0}
  BY EmptySeq
<1>2. Tail(q) = Without(q, 1)
  <2>1. Tail(q) = SubSeq(q, 2, Len(q))
    BY TailIsSubSeq
  <2>2. 1 + 1 = 2
    OBVIOUS
  <2>3. QED
    BY <2>1, <2>2 DEF Without
<1>3. 1 \in 0 .. Len(q)
  BY <1>1
<1>4. QED
  BY <1>2, <1>3, SuffixIsRun

\* The next frame is appended: the queue is a run that ends with it.
LEMMA AppendIsRun ==
    ASSUME NEW S, NEW q \in Seq(S), NEW x \in S, Consecutive(q),
           q # << >> => x.seq = q[Len(q)].seq + 1
    PROVE  /\ Append(q, x) \in Seq(S) /\ Len(Append(q, x)) = Len(q) + 1
           /\ Consecutive(Append(q, x)) /\ Append(q, x)[Len(Append(q, x))] = x
<1> DEFINE r == Append(q, x)
           n == Len(q)
<1>1. /\ r \in Seq(S) /\ Len(r) = n + 1 /\ n \in Nat
      /\ r[n + 1] = x /\ \A i \in 1 .. n : r[i] = q[i]
  BY AppendProperties, LenProperties
<1> HIDE DEF r
<1>2. ASSUME NEW i \in 1 .. Len(r) - 1
      PROVE  r[i + 1].seq = r[i].seq + 1
  <2>1. CASE i = n
    <3>1. i \in 1 .. n /\ r[i] = q[n] /\ r[i + 1] = x
      BY <1>1, <2>1
    <3>2. q # << >>
      BY <3>1, <2>1, EmptySeq
    <3>3. QED
      BY <3>1, <3>2
  <2>2. CASE i # n
    <3>1. i \in 1 .. n - 1 /\ i \in 1 .. n /\ i + 1 \in 1 .. n
      BY <1>1, <2>2
    <3>2. q[i + 1].seq = q[i].seq + 1
      BY <3>1 DEF Consecutive
    <3>3. QED
      BY <1>1, <3>1, <3>2
  <2>3. QED
    BY <2>1, <2>2
<1>3. r \in Seq(S) /\ Len(r) = n + 1 /\ Consecutive(r) /\ r[Len(r)] = x
  BY <1>1, <1>2 DEF Consecutive
<1>4. QED
  BY <1>3 DEF r

-----------------------------------------------------------------------------
(***************************************************************************)
(* The inductive invariant.  Only admitted images are held anywhere, so    *)
(* that every frame has a size and fits an empty queue; the newest frame   *)
(* has the number of frames accepted, so that the next one continues every *)
(* queue, and a capture that saw the number grow holds a newer frame.  Only *)
(* an active channel queues anything: a frame that came while it was off   *)
(* would be missing from its run.                                          *)
(***************************************************************************)
Good == {x \in Frames : Admitted(x.image, type)}

PlaceInv ==
    /\ type \in {"compressed", "raw"}
    /\ framesIn \in 0 .. MaxFrames
    /\ mode \in [Channels -> {"off", "active", "stopping"}]
    /\ pumpAt \in [Channels -> {"check", "asleep", "pop", "writing", "counting", "failed",
                                "ended"}]
    /\ closer \in {"running", "closed", "refusing", "stopSet", "notified"}

LatestInv ==
    IF framesIn = 0 THEN latest = NoFrame ELSE latest \in Good /\ latest.seq = framesIn

\* A queue q of b bytes, behind which the frame last was the newest.
IsRun(q, b, last) ==
    /\ b = TotalBytes(q) /\ b <= MaxQueuedBytes /\ Len(q) <= Depth
    /\ Consecutive(q)
    /\ q # << >> => q[Len(q)] = last

QueueInv ==
    /\ pending \in [Channels -> Seq(Good)]
    /\ bytes \in [Channels -> Nat]
    /\ \A c \in Channels : IsRun(pending[c], bytes[c], latest)
    /\ \A c \in Channels : mode[c] # "active" => pending[c] = << >>

CountInv ==
    /\ dropped \in [Channels -> Nat]
    /\ delivered \in [Channels -> Nat]
    /\ owed \in [Channels -> Nat]
    /\ FramesAccounted

Flags == BOOLEAN

CaptureRecords ==
    [at : {"idle", "check", "asleep", "converting"}, fresh : Flags, rgb : Flags,
     asked : 0 .. MaxFrames, held : Good \cup {NoFrame}, rgbBytes : Nat,
     verdict : {"none", "unavailable", "exhausted", "answered"}]

\* A capture under way has no verdict yet, and converts what it may.
InOrder(c) ==
    /\ c.at # "idle" => c.verdict = "none"
    /\ c.at = "converting" =>
           c.held \in Good /\ (c.fresh = TRUE => c.held.seq > c.asked)

CaptureInv ==
    /\ capture \in [Captures -> CaptureRecords]
    /\ \A r \in Captures : InOrder(capture[r])

IInv == PlaceInv /\ LatestInv /\ QueueInv /\ CountInv /\ CaptureInv

-----------------------------------------------------------------------------
\* A frame that was admitted is whole, and its size is within the byte limit.
LEMMA GoodFrames ==
    ASSUME PlaceInv
    PROVE  \A x \in Good : /\ Size(x) \in Nat /\ Size(x) <= MaxQueuedBytes
                           /\ IsWhole(x.image) /\ x.image \in Images
                           /\ x.seq \in 1 .. MaxFrames
<1>1. SUFFICES ASSUME NEW x \in Good
               PROVE  /\ Size(x) \in Nat /\ Size(x) <= MaxQueuedBytes
                      /\ IsWhole(x.image) /\ x.image \in Images
                      /\ x.seq \in 1 .. MaxFrames
  OBVIOUS
<1>2. x.image \in Images /\ x.seq \in 1 .. MaxFrames /\ Admitted(x.image, type)
  BY DEF Good, Frames
<1>3. type \in {"compressed", "raw"}
  BY DEF PlaceInv
<1>4. QED
  BY <1>2, <1>3, AdmittedIsWhole DEF Size

\* A step that submits nothing leaves what was accepted alone.
LEMMA SameImages ==
    ASSUME LatestInv, UNCHANGED images
    PROVE  LatestInv' /\ Good' = Good
<1>1. type' = type /\ framesIn' = framesIn /\ latest' = latest
  BY DEF images
<1>2. Good' = Good
  BY <1>1 DEF Good
<1>3. QED
  BY <1>1, <1>2 DEF LatestInv

\* A step that leaves the queues alone, and takes no channel out of "active".
LEMMA SameQueues ==
    ASSUME LatestInv, QueueInv, UNCHANGED <<images, pending, bytes>>,
           \A c \in Channels : mode'[c] # "active" => mode[c] # "active"
    PROVE  QueueInv'
<1>1. Good' = Good /\ latest' = latest /\ pending' = pending /\ bytes' = bytes
  BY SameImages DEF images
<1>2. QED
  BY <1>1 DEF QueueInv

\* A step that leaves the captures alone.
LEMMA SameCaptures ==
    ASSUME LatestInv, CaptureInv, UNCHANGED <<images, capture>>
    PROVE  CaptureInv'
<1>1. Good' = Good /\ capture' = capture
  BY SameImages
<1>2. QED
  BY <1>1 DEF CaptureInv, InOrder, CaptureRecords

\* notify_all() wakes a capture, and changes nothing it has.
LEMMA WakingCaptures ==
    ASSUME CaptureInv, NotifyAll, Good \subseteq Good'
    PROVE  CaptureInv'
<1>1. ASSUME NEW r \in Captures
      PROVE  capture'[r] \in CaptureRecords' /\ InOrder(capture[r])'
  <2> DEFINE c == capture[r]
  <2>1. c \in CaptureRecords /\ InOrder(c)
    BY DEF CaptureInv
  <2>2. capture'[r] = [c EXCEPT !.at = Woken(c.at)]
    BY DEF NotifyAll
  <2>3. /\ Woken(c.at) \in {"idle", "check", "asleep", "converting"}
        /\ Woken(c.at) = "converting" <=> c.at = "converting"
        /\ Woken(c.at) = "idle" <=> c.at = "idle"
    BY <2>1 DEF Woken, CaptureRecords
  <2> HIDE DEF c
  <2>4. c \in CaptureRecords'
    BY <2>1 DEF CaptureRecords
  <2>5. /\ [c EXCEPT !.at = Woken(c.at)] \in CaptureRecords'
        /\ [c EXCEPT !.at = Woken(c.at)].at = Woken(c.at)
        /\ [c EXCEPT !.at = Woken(c.at)].verdict = c.verdict
        /\ [c EXCEPT !.at = Woken(c.at)].held = c.held
        /\ [c EXCEPT !.at = Woken(c.at)].asked = c.asked
        /\ [c EXCEPT !.at = Woken(c.at)].fresh = c.fresh
    BY <2>3, <2>4 DEF CaptureRecords
  <2>6. QED
    BY <2>1, <2>2, <2>3, <2>5 DEF InOrder
<1>2. capture' = [r \in Captures |-> capture'[r]]
  BY DEF NotifyAll
<1>3. QED
  BY <1>1, <1>2 DEF CaptureInv

\* notify_all() takes no frame from a pump and gives it none.
LEMMA WakingPumps ==
    ASSUME PlaceInv, NotifyAll
    PROVE  /\ pumpAt' \in [Channels -> {"check", "asleep", "pop", "writing", "counting",
                                        "failed", "ended"}]
           /\ \A c \in Channels : pumpAt'[c] \in {"writing", "counting"}
                                    <=> pumpAt[c] \in {"writing", "counting"}
  BY DEF PlaceInv, NotifyAll, Woken

-----------------------------------------------------------------------------
(***************************************************************************)
(* submit_*: a frame joins a queue.                                        *)
(***************************************************************************)
LEMMA QueueAfterSubmit ==
    ASSUME NEW S, \A x \in S : Size(x) \in Nat, NEW q \in Seq(S), NEW b, NEW last,
           IsRun(q, b, last), NEW x \in S, Size(x) <= MaxQueuedBytes,
           q # << >> => x.seq = last.seq + 1,
           NEW k, k = Kept(q, Size(x))
    PROVE  /\ Append(k, x) \in Seq(S)
           /\ b - (TotalBytes(q) - TotalBytes(k)) + Size(x) \in Nat
           /\ IsRun(Append(k, x), b - (TotalBytes(q) - TotalBytes(k)) + Size(x), x)
           /\ Len(k) \in 0 .. Len(q) /\ Len(Append(k, x)) = Len(k) + 1
<1>1. Size(x) \in Nat /\ Len(q) \in Nat
  BY LenProperties
<1>2. PICK j \in 0 .. Len(q) :
          /\ Kept(q, Size(x)) = Without(q, j)
          /\ Len(Without(q, j)) < Depth
          /\ TotalBytes(Without(q, j)) \in Nat
          /\ TotalBytes(Without(q, j)) + Size(x) <= MaxQueuedBytes
  BY <1>1, KeptHasRoom
<1>3. k \in Seq(S) /\ Len(k) = Len(q) - j
  BY <1>2, WithoutIsSuffix
<1>4. Consecutive(q) /\ b = TotalBytes(q) /\ (q # << >> => q[Len(q)] = last)
  BY DEF IsRun
<1>5. Consecutive(k) /\ (k # << >> => q # << >> /\ k[Len(k)] = q[Len(q)])
  BY <1>2, <1>4, SuffixIsRun
<1>6. k # << >> => x.seq = k[Len(k)].seq + 1
  BY <1>4, <1>5
<1>7. /\ Append(k, x) \in Seq(S) /\ Len(Append(k, x)) = Len(k) + 1
      /\ Consecutive(Append(k, x)) /\ Append(k, x)[Len(Append(k, x))] = x
  BY <1>3, <1>5, <1>6, AppendIsRun
<1>8. TotalBytes(k) \in Nat /\ TotalBytes(Append(k, x)) = TotalBytes(k) + Size(x)
  BY <1>3, TotalOfAppend
<1>9. TotalBytes(q) \in Nat
  BY TotalOfAppend
<1>10. b - (TotalBytes(q) - TotalBytes(k)) + Size(x) = TotalBytes(k) + Size(x)
  BY <1>1, <1>4, <1>8, <1>9
<1>11. Len(k) < Depth /\ TotalBytes(k) + Size(x) <= MaxQueuedBytes /\ Len(k) \in 0 .. Len(q)
  BY <1>1, <1>2, <1>3
<1>12. Len(Append(k, x)) <= Depth
  BY <1>7, <1>11, QueueConstants
<1>13. IsRun(Append(k, x), TotalBytes(k) + Size(x), x)
  BY <1>7, <1>8, <1>11, <1>12 DEF IsRun
<1>14. TotalBytes(k) + Size(x) \in Nat
  BY <1>1, <1>8
<1>15. QED
  BY <1>7, <1>10, <1>11, <1>13, <1>14

\* submit_compressed, submit_raw and _enqueue.
LEMMA SubmitKeeps ==
    ASSUME IInv, NEW image \in Images, Submit(image)
    PROVE  IInv'
<1> DEFINE frame == [seq |-> framesIn + 1, image |-> image]
           size == EncoderBytes(image)
           kept == [c \in Channels |-> Kept(pending[c], size)]
<1> USE DEF IInv
<1>1. /\ Admitted(image, type) /\ framesIn < MaxFrames
      /\ type' = type /\ framesIn' = framesIn + 1 /\ latest' = frame
      /\ mode' = mode /\ delivered' = delivered /\ closer' = closer
  BY DEF Submit
<1>2. NotifyAll
  BY DEF Submit
<1>3. Good' = Good
  BY <1>1 DEF Good
<1>4. framesIn \in 0 .. MaxFrames /\ MaxFrames \in Nat
  BY QueueConstants DEF PlaceInv
<1>5. frame \in Good /\ frame.seq = framesIn + 1 /\ Size(frame) = size
  BY <1>1, <1>4 DEF Good, Frames, Size
<1>6. size \in Nat /\ size <= MaxQueuedBytes /\ \A x \in Good : Size(x) \in Nat
  BY <1>5, GoodFrames
<1> HIDE DEF frame, size
<1>7. PlaceInv'
  <2>1. framesIn + 1 \in 0 .. MaxFrames
    BY <1>1, <1>4
  <2>2. QED
    BY <1>1, <1>2, <2>1, WakingPumps DEF PlaceInv
<1>8. LatestInv'
  BY <1>1, <1>3, <1>4, <1>5 DEF LatestInv
<1>9. ASSUME NEW c \in Channels, mode[c] = "active"
      PROVE  /\ pending'[c] = Append(kept[c], frame)
             /\ bytes'[c] = bytes[c] - (TotalBytes(pending[c]) - TotalBytes(kept[c])) + size
             /\ dropped'[c] = dropped[c] + (Len(pending[c]) - Len(kept[c]))
             /\ owed'[c] = owed[c] + 1
  BY <1>9 DEF Submit, Accepts, BytesAfter, Drops, frame, size
<1>10. ASSUME NEW c \in Channels, mode[c] # "active"
       PROVE  /\ pending'[c] = pending[c] /\ bytes'[c] = bytes[c]
              /\ dropped'[c] = dropped[c] /\ owed'[c] = owed[c]
  BY <1>10 DEF Submit, Accepts
<1>11. /\ pending' = [c \in Channels |-> pending'[c]]
       /\ bytes' = [c \in Channels |-> bytes'[c]]
       /\ dropped' = [c \in Channels |-> dropped'[c]]
       /\ owed' = [c \in Channels |-> owed'[c]]
  BY DEF Submit
<1>12. ASSUME NEW c \in Channels, mode[c] = "active"
       PROVE  /\ pending'[c] \in Seq(Good) /\ bytes'[c] \in Nat
              /\ IsRun(pending'[c], bytes'[c], frame)
              /\ Len(kept[c]) \in 0 .. Len(pending[c])
              /\ Len(pending'[c]) = Len(kept[c]) + 1
  <2> DEFINE q == pending[c]
             k == kept[c]
             b == bytes[c] - (TotalBytes(q) - TotalBytes(k)) + size
  <2>1. q \in Seq(Good) /\ IsRun(q, bytes[c], latest)
    BY DEF QueueInv
  <2>2. q # << >> => frame.seq = latest.seq + 1
    <3>1. ASSUME q # << >>
          PROVE  framesIn # 0
      <4>1. q[Len(q)] = latest /\ Len(q) \in 1 .. Len(q)
        BY <2>1, <3>1, EmptySeq DEF IsRun
      <4>2. latest \in Good
        BY <2>1, <4>1, ElementOfSeq
      <4>3. latest.seq \in 1 .. MaxFrames /\ NoFrame.seq = 0
        BY <4>2, GoodFrames DEF NoFrame
      <4>4. QED
        BY <4>3 DEF LatestInv
    <3>2. QED
      BY <1>5, <3>1 DEF LatestInv
  <2>3. k = Kept(q, Size(frame))
    BY <1>5
  <2> HIDE DEF q, k
  <2>4. /\ Append(k, frame) \in Seq(Good)
        /\ bytes[c] - (TotalBytes(q) - TotalBytes(k)) + Size(frame) \in Nat
        /\ IsRun(Append(k, frame),
                 bytes[c] - (TotalBytes(q) - TotalBytes(k)) + Size(frame), frame)
        /\ Len(k) \in 0 .. Len(q) /\ Len(Append(k, frame)) = Len(k) + 1
    BY <1>5, <1>6, <2>1, <2>2, <2>3, QueueAfterSubmit
  <2>5. pending'[c] = Append(k, frame) /\ bytes'[c] = b
    BY <1>9, <1>12 DEF q, k
  <2>6. QED
    BY <1>5, <2>4, <2>5 DEF q, k
<1> HIDE DEF kept
<1>13. ASSUME NEW c \in Channels, mode[c] # "active"
       PROVE  /\ pending'[c] \in Seq(Good) /\ bytes'[c] \in Nat
              /\ IsRun(pending'[c], bytes'[c], frame) /\ pending'[c] = << >>
  <2>1. pending[c] \in Seq(Good) /\ bytes[c] \in Nat /\ pending[c] = << >>
        /\ IsRun(pending[c], bytes[c], latest)
    BY <1>13 DEF QueueInv
  <2>2. IsRun(pending[c], bytes[c], frame)
    BY <2>1 DEF IsRun
  <2>3. QED
    BY <1>10, <1>13, <2>1, <2>2
<1>14. QueueInv'
  <2>1. \A c \in Channels : pending'[c] \in Seq(Good) /\ bytes'[c] \in Nat
    BY <1>12, <1>13
  <2>2. \A c \in Channels : IsRun(pending'[c], bytes'[c], latest')
    BY <1>1, <1>12, <1>13
  <2>3. pending' \in [Channels -> Seq(Good)] /\ bytes' \in [Channels -> Nat]
    BY <1>11, <2>1
  <2>4. \A c \in Channels : mode'[c] # "active" => pending'[c] = << >>
    BY <1>1, <1>13
  <2>5. QED
    BY <1>3, <2>2, <2>3, <2>4 DEF QueueInv
<1>15. CountInv'
  <2>1. ASSUME NEW c \in Channels
        PROVE  /\ dropped'[c] \in Nat /\ owed'[c] \in Nat
               /\ owed'[c] = delivered[c] + dropped'[c] + Len(pending'[c])
                             + (IF pumpAt[c] \in {"writing", "counting"} THEN 1 ELSE 0)
    <3>1. /\ dropped[c] \in Nat /\ owed[c] \in Nat /\ delivered[c] \in Nat
          /\ owed[c] = delivered[c] + dropped[c] + Len(pending[c])
                       + (IF pumpAt[c] \in {"writing", "counting"} THEN 1 ELSE 0)
      BY DEF CountInv, FramesAccounted
    <3>2. Len(pending[c]) \in Nat
      BY LenProperties DEF QueueInv
    <3>3. CASE mode[c] = "active"
      <4>1. /\ Len(kept[c]) \in 0 .. Len(pending[c]) /\ Len(pending'[c]) = Len(kept[c]) + 1
            /\ dropped'[c] = dropped[c] + (Len(pending[c]) - Len(kept[c]))
            /\ owed'[c] = owed[c] + 1
        BY <1>9, <1>12, <3>3
      <4> DEFINE hand == IF pumpAt[c] \in {"writing", "counting"} THEN 1 ELSE 0
                 o == owed[c]
                 v == delivered[c]
                 d == dropped[c]
                 n == Len(pending[c])
                 k == Len(kept[c])
      <4>2. hand \in Nat
        OBVIOUS
      <4>3. o = v + d + n + hand
        BY <3>1
      <4>4. o \in Nat /\ v \in Nat /\ d \in Nat /\ n \in Nat
        BY <3>1, <3>2
      <4>5. /\ k \in 0 .. n /\ Len(pending'[c]) = k + 1
            /\ dropped'[c] = d + (n - k) /\ owed'[c] = o + 1
        BY <4>1
      <4> HIDE DEF hand, o, v, d, n, k
      <4>6. k \in Int /\ 0 <= k /\ k <= n
        BY <4>4, <4>5
      <4>7. /\ d + (n - k) \in Nat /\ o + 1 \in Nat
            /\ o + 1 = v + (d + (n - k)) + (k + 1) + hand
        BY <4>2, <4>3, <4>4, <4>6
      <4>8. QED
        BY <4>5, <4>7 DEF hand, v
    <3>4. CASE mode[c] # "active"
      BY <1>10, <3>1, <3>4
    <3>5. QED
      BY <3>3, <3>4
  <2>2. \A c \in Channels : pumpAt'[c] \in {"writing", "counting"}
                              <=> pumpAt[c] \in {"writing", "counting"}
    BY <1>2, WakingPumps
  <2>3. FramesAccounted'
    BY <1>1, <2>1, <2>2 DEF FramesAccounted
  <2>4. dropped' \in [Channels -> Nat] /\ owed' \in [Channels -> Nat]
    BY <1>11, <2>1
  <2>5. QED
    BY <1>1, <2>3, <2>4 DEF CountInv
<1>16. CaptureInv'
  BY <1>2, <1>3, WakingCaptures
<1>17. QED
  BY <1>7, <1>8, <1>14, <1>15, <1>16

-----------------------------------------------------------------------------
(***************************************************************************)
(* Channels and their pumps.                                               *)
(***************************************************************************)
InHand(place) == place \in {"writing", "counting"}

\* A step that moves no frame and counts none.
LEMMA SameCounts ==
    ASSUME CountInv, UNCHANGED <<pending, dropped, delivered, owed>>,
           \A c \in Channels : InHand(pumpAt'[c]) <=> InHand(pumpAt[c])
    PROVE  CountInv'
  BY DEF CountInv, FramesAccounted, InHand

\* A step that moves no frame.
LEMMA QuietStep ==
    ASSUME IInv, UNCHANGED <<images, pending, bytes, dropped, delivered, owed>>,
           \A c \in Channels : mode'[c] # "active" => mode[c] # "active",
           \A c \in Channels : InHand(pumpAt'[c]) <=> InHand(pumpAt[c]),
           PlaceInv', CaptureInv'
    PROVE  IInv'
<1>1. LatestInv'
  BY SameImages DEF IInv
<1>2. QueueInv'
  BY SameQueues DEF IInv
<1>3. CountInv'
  BY SameCounts DEF IInv
<1>4. QED
  BY <1>1, <1>2, <1>3 DEF IInv

\* The notifications of a stop and of a shutdown.
LEMMA NotifyingKeeps ==
    ASSUME IInv, NotifyAll, UNCHANGED <<images, pending, bytes, dropped, delivered, owed>>,
           mode' \in [Channels -> {"off", "active", "stopping"}],
           \A c \in Channels : mode'[c] # "active" => mode[c] # "active",
           closer' \in {"running", "closed", "refusing", "stopSet", "notified"}
    PROVE  IInv'
<1>1. Good' = Good /\ PlaceInv /\ CaptureInv
  BY SameImages DEF IInv
<1>2. CaptureInv'
  BY <1>1, WakingCaptures
<1>3. type' = type /\ framesIn' = framesIn
  BY DEF images
<1>4. PlaceInv'
  BY <1>1, <1>3, WakingPumps DEF PlaceInv
<1>5. \A c \in Channels : InHand(pumpAt'[c]) <=> InHand(pumpAt[c])
  BY <1>1, WakingPumps DEF InHand
<1>6. QED
  BY <1>2, <1>4, <1>5, QuietStep

\* A channel becomes active, or its stop ends.
LEMMA SwitchingKeeps ==
    ASSUME IInv, NEW c \in Channels, Activate(c) \/ EndStop(c)
    PROVE  IInv'
<1>1. mode \in [Channels -> {"off", "active", "stopping"}] /\ PlaceInv
  BY DEF IInv, PlaceInv
<1>2. CASE Activate(c)
  <2>1. mode' = [mode EXCEPT ![c] = "active"] /\ mode[c] = "off"
    BY <1>2 DEF Activate
  <2>2. /\ mode' \in [Channels -> {"off", "active", "stopping"}]
        /\ \A d \in Channels : mode'[d] # "active" => mode[d] # "active"
    BY <1>1, <2>1
  <2>3. /\ NotifyAll /\ closer' = closer
        /\ UNCHANGED <<images, pending, bytes, dropped, delivered, owed>>
    BY <1>2 DEF Activate
  <2>4. closer' \in {"running", "closed", "refusing", "stopSet", "notified"}
    BY <1>1, <2>3 DEF PlaceInv
  <2>5. QED
    BY <2>2, <2>3, <2>4, NotifyingKeeps
<1>3. CASE EndStop(c)
  <2>1. mode' = [mode EXCEPT ![c] = "off"] /\ mode[c] = "stopping"
    BY <1>3 DEF EndStop
  <2>2. /\ mode' \in [Channels -> {"off", "active", "stopping"}]
        /\ \A d \in Channels : mode'[d] # "active" => mode[d] # "active"
    BY <1>1, <2>1
  <2>3. UNCHANGED <<images, pending, bytes, dropped, delivered, owed, pumpAt, capture, closer>>
    BY <1>3 DEF EndStop
  <2>4. PlaceInv'
    BY <1>1, <2>2, <2>3 DEF PlaceInv, images
  <2>5. CaptureInv'
    BY <2>3, SameCaptures DEF IInv
  <2>6. QED
    BY <2>2, <2>3, <2>4, <2>5, QuietStep
<1>4. QED
  BY <1>2, <1>3

\* A stop throws the queue away.
LEMMA BeginStopKeeps ==
    ASSUME IInv, NEW c \in Channels, BeginStop(c)
    PROVE  IInv'
<1>1. /\ PlaceInv /\ LatestInv /\ QueueInv /\ CountInv /\ CaptureInv
  BY DEF IInv
<1>2. /\ mode' = [mode EXCEPT ![c] = "stopping"]
      /\ pending' = [pending EXCEPT ![c] = << >>]
      /\ bytes' = [bytes EXCEPT ![c] = 0]
      /\ owed' = [owed EXCEPT ![c] = owed[c] - Len(pending[c])]
      /\ UNCHANGED images
      /\ UNCHANGED <<dropped, delivered, pumpAt, capture, closer>>
  BY DEF BeginStop
<1>3. PlaceInv'
  BY <1>1, <1>2 DEF PlaceInv, images
<1>4. LatestInv' /\ Good' = Good /\ CaptureInv'
  BY <1>1, <1>2, SameImages, SameCaptures
<1>5. QueueInv'
  <2>1. << >> \in Seq(Good) /\ Len(<< >>) = 0
    BY EmptySeq
  <2>2. pending' \in [Channels -> Seq(Good)]
    BY <1>1, <1>2, <2>1 DEF QueueInv
  <2>3. bytes' \in [Channels -> Nat]
    BY <1>1, <1>2 DEF QueueInv
  <2>4. IsRun(<< >>, 0, latest)
    BY <2>1, TotalOfNone, QueueConstants DEF IsRun, Consecutive
  <2>5. \A d \in Channels : IsRun(pending'[d], bytes'[d], latest')
    BY <1>1, <1>2, <2>4 DEF QueueInv, images
  <2>6. \A d \in Channels : mode'[d] # "active" => pending'[d] = << >>
    BY <1>1, <1>2 DEF QueueInv, PlaceInv
  <2>7. QED
    BY <1>4, <2>2, <2>3, <2>5, <2>6 DEF QueueInv
<1>6. CountInv'
  <2>1. ASSUME NEW d \in Channels
        PROVE  /\ owed'[d] \in Nat
               /\ owed'[d] = delivered[d] + dropped[d] + Len(pending'[d])
                             + (IF InHand(pumpAt[d]) THEN 1 ELSE 0)
    <3> DEFINE hand == IF InHand(pumpAt[d]) THEN 1 ELSE 0
               n == Len(pending[d])
    <3>1. /\ owed[d] \in Nat /\ delivered[d] \in Nat /\ dropped[d] \in Nat
          /\ owed[d] = delivered[d] + dropped[d] + n + hand
      BY <1>1 DEF CountInv, FramesAccounted, InHand
    <3>2. n \in Nat /\ hand \in Nat
      BY <1>1, LenProperties DEF QueueInv
    <3>3. Len(<< >>) = 0
      BY EmptySeq
    <3> HIDE DEF hand, n
    <3>4. owed[d] - n \in Nat /\ owed[d] - n = delivered[d] + dropped[d] + 0 + hand
      BY <3>1, <3>2
    <3>5. CASE d = c
      <4>1. pending'[d] = << >> /\ owed'[d] = owed[d] - n
        BY <1>1, <1>2, <3>5 DEF CountInv, QueueInv, n
      <4>2. Len(pending'[d]) = 0
        BY <3>3, <4>1
      <4>3. QED
        BY <3>4, <4>1, <4>2 DEF hand
    <3>6. CASE d # c
      <4>1. pending'[d] = pending[d] /\ owed'[d] = owed[d]
        BY <1>1, <1>2, <3>6 DEF CountInv, QueueInv
      <4>2. QED
        BY <3>1, <4>1 DEF hand, n
    <3>7. QED
      BY <3>5, <3>6
  <2>2. FramesAccounted'
    BY <1>2, <2>1 DEF FramesAccounted, InHand
  <2>3. owed' \in [Channels -> Nat]
    BY <1>1, <1>2, <2>1 DEF CountInv
  <2>4. QED
    BY <1>1, <1>2, <2>2, <2>3 DEF CountInv
<1>7. QED
  BY <1>3, <1>4, <1>5, <1>6 DEF IInv

\* The steps of a pump that move no frame.
LEMMA PumpMoves ==
    ASSUME IInv, NEW c \in Channels,
           PumpChecks(c) \/ PumpFindsNothing(c) \/ PumpWritten(c) \/ PumpGoesOn(c)
    PROVE  IInv'
<1>1. PICK place \in {"check", "asleep", "pop", "counting", "ended"} :
          PumpGoes(c, place) /\ (InHand(place) <=> InHand(pumpAt[c]))
  <2>1. CASE PumpChecks(c)
    <3>1. PICK place \in {"ended", "pop", "asleep"} : PumpGoes(c, place)
      BY <2>1 DEF PumpChecks
    <3>2. pumpAt[c] = "check"
      BY <2>1 DEF PumpChecks
    <3>3. QED
      BY <3>1, <3>2 DEF InHand
  <2>2. CASE PumpFindsNothing(c)
    BY <2>2 DEF PumpFindsNothing, InHand
  <2>3. CASE PumpWritten(c)
    BY <2>3 DEF PumpWritten, InHand
  <2>4. CASE PumpGoesOn(c)
    BY <2>4 DEF PumpGoesOn, InHand
  <2>5. QED
    BY <2>1, <2>2, <2>3, <2>4
<1>2. UNCHANGED <<pending, bytes, delivered>>
  BY DEF PumpChecks, PumpFindsNothing, PumpWritten, PumpGoesOn
<1>3. /\ pumpAt' = [pumpAt EXCEPT ![c] = place]
      /\ UNCHANGED <<images, mode, dropped, owed, capture, closer>>
  BY <1>1 DEF PumpGoes
<1>4. PlaceInv'
  BY <1>1, <1>3 DEF IInv, PlaceInv, images
<1>5. CaptureInv'
  BY <1>3, SameCaptures DEF IInv
<1>6. \A d \in Channels : InHand(pumpAt'[d]) <=> InHand(pumpAt[d])
  BY <1>1, <1>3 DEF IInv, PlaceInv
<1>7. QED
  BY <1>2, <1>3, <1>4, <1>5, <1>6, QuietStep

\* The pump takes a frame.
LEMMA PumpTakesKeeps ==
    ASSUME IInv, NEW c \in Channels, PumpTakes(c)
    PROVE  IInv'
<1>1. /\ PlaceInv /\ LatestInv /\ QueueInv /\ CountInv /\ CaptureInv
  BY DEF IInv
<1>2. /\ pumpAt[c] = "pop" /\ mode[c] = "active" /\ pending[c] # << >>
      /\ pending' = [pending EXCEPT ![c] = Tail(pending[c])]
      /\ bytes' = [bytes EXCEPT ![c] = bytes[c] - Size(Head(pending[c]))]
      /\ pumpAt' = [pumpAt EXCEPT ![c] = "writing"]
      /\ UNCHANGED images
      /\ UNCHANGED <<mode, dropped, delivered, owed, capture, closer>>
  BY DEF PumpTakes, PumpGoes, Deliverable
<1>3. PlaceInv'
  BY <1>1, <1>2 DEF PlaceInv, images
<1>4. LatestInv' /\ Good' = Good /\ CaptureInv'
  BY <1>1, <1>2, SameImages, SameCaptures
<1> DEFINE q == pending[c]
<1>5. q \in Seq(Good) /\ IsRun(q, bytes[c], latest)
  BY <1>1 DEF QueueInv
<1>6. \A x \in Good : Size(x) \in Nat
  BY <1>1, GoodFrames
<1>7. q # << >> /\ Tail(q) \in Seq(Good) /\ Len(Tail(q)) = Len(q) - 1 /\ Len(q) \in Nat \ {0}
  BY <1>2, <1>5, HeadTailProperties, EmptySeq
<1>8. /\ TotalBytes(Tail(q)) \in Nat /\ Size(Head(q)) \in Nat
      /\ TotalBytes(q) = TotalBytes(Tail(q)) + Size(Head(q))
  BY <1>5, <1>6, <1>7, TotalOfTail
<1>9. Consecutive(Tail(q)) /\ (Tail(q) # << >> => Tail(q)[Len(Tail(q))] = q[Len(q)])
  BY <1>5, <1>7, TailIsRun DEF IsRun
<1>10. /\ bytes[c] - Size(Head(q)) \in Nat
       /\ IsRun(Tail(q), bytes[c] - Size(Head(q)), latest)
  <2>1. bytes[c] = TotalBytes(q) /\ bytes[c] <= MaxQueuedBytes /\ Len(q) <= Depth
    BY <1>5 DEF IsRun
  <2>2. /\ bytes[c] - Size(Head(q)) = TotalBytes(Tail(q))
        /\ TotalBytes(Tail(q)) <= MaxQueuedBytes /\ Len(Tail(q)) <= Depth
    BY <1>7, <1>8, <2>1, QueueConstants
  <2>3. q[Len(q)] = latest
    BY <1>5, <1>7 DEF IsRun
  <2>4. QED
    BY <1>8, <1>9, <2>2, <2>3 DEF IsRun
<1>11. /\ pending'[c] = Tail(q) /\ bytes'[c] = bytes[c] - Size(Head(q))
       /\ \A d \in Channels \ {c} : pending'[d] = pending[d] /\ bytes'[d] = bytes[d]
  BY <1>1, <1>2 DEF QueueInv
<1> HIDE DEF q
<1>12. QueueInv'
  <2>1. pending' \in [Channels -> Seq(Good)] /\ bytes' \in [Channels -> Nat]
    BY <1>1, <1>2, <1>7, <1>10 DEF QueueInv, q
  <2>2. \A d \in Channels : IsRun(pending'[d], bytes'[d], latest)
    <3>1. IsRun(pending'[c], bytes'[c], latest)
      BY <1>10, <1>11
    <3>2. \A d \in Channels \ {c} : IsRun(pending'[d], bytes'[d], latest)
      BY <1>1, <1>11 DEF QueueInv
    <3>3. QED
      BY <3>1, <3>2
  <2>3. latest' = latest
    BY <1>2 DEF images
  <2>4. \A d \in Channels : mode'[d] # "active" => pending'[d] = << >>
    BY <1>1, <1>2, <1>11 DEF QueueInv
  <2>5. QED
    BY <1>4, <2>1, <2>2, <2>3, <2>4 DEF QueueInv
<1>13. CountInv'
  <2>1. ASSUME NEW d \in Channels
        PROVE  owed[d] = delivered[d] + dropped[d] + Len(pending'[d])
                         + (IF InHand(pumpAt'[d]) THEN 1 ELSE 0)
    <3>1. /\ owed[d] \in Nat /\ delivered[d] \in Nat /\ dropped[d] \in Nat
          /\ owed[d] = delivered[d] + dropped[d] + Len(pending[d])
                       + (IF InHand(pumpAt[d]) THEN 1 ELSE 0)
      BY <1>1 DEF CountInv, FramesAccounted, InHand
    <3>2. CASE d = c
      <4>1. ~InHand(pumpAt[d]) /\ InHand(pumpAt'[d])
        BY <1>1, <1>2, <3>2 DEF InHand, PlaceInv
      <4>2. Len(pending'[d]) = Len(pending[d]) - 1 /\ Len(pending[d]) \in Nat
        BY <1>7, <1>11, <3>2 DEF q
      <4>3. owed[d] = delivered[d] + dropped[d] + Len(pending[d]) + 0
        BY <3>1, <4>1
      <4>4. owed[d] = delivered[d] + dropped[d] + Len(pending'[d]) + 1
        BY <3>1, <4>2, <4>3
      <4>5. QED
        BY <4>1, <4>4
    <3>3. CASE d # c
      <4>1. pumpAt'[d] = pumpAt[d] /\ pending'[d] = pending[d]
        BY <1>1, <1>2, <1>11, <3>3 DEF PlaceInv
      <4>2. QED
        BY <3>1, <4>1
    <3>4. QED
      BY <3>2, <3>3
  <2>2. FramesAccounted'
    BY <1>2, <2>1 DEF FramesAccounted, InHand
  <2>3. QED
    BY <1>1, <1>2, <2>2 DEF CountInv
<1>14. QED
  BY <1>3, <1>4, <1>12, <1>13 DEF IInv

\* The frame is delivered, or its write failed.
LEMMA PumpEndsWrite ==
    ASSUME IInv, NEW c \in Channels, PumpCounts(c) \/ PumpRaises(c)
    PROVE  IInv'
<1>1. /\ PlaceInv /\ LatestInv /\ QueueInv /\ CountInv /\ CaptureInv
  BY DEF IInv
<1>2. /\ UNCHANGED <<images, pending, bytes>>
      /\ UNCHANGED <<mode, dropped, capture, closer>>
  BY DEF PumpCounts, PumpGoes, PumpRaises
<1>3. /\ InHand(pumpAt[c])
      /\ \/ /\ pumpAt' = [pumpAt EXCEPT ![c] = "check"]
            /\ delivered' = [delivered EXCEPT ![c] = delivered[c] + 1]
            /\ owed' = owed
         \/ /\ pumpAt' = [pumpAt EXCEPT ![c] = "failed"]
            /\ owed' = [owed EXCEPT ![c] = owed[c] - 1]
            /\ delivered' = delivered
  BY DEF PumpCounts, PumpGoes, PumpRaises, InHand
<1>4. PlaceInv'
  BY <1>1, <1>2, <1>3 DEF PlaceInv, images
<1>5. LatestInv' /\ QueueInv' /\ CaptureInv'
  BY <1>1, <1>2, SameImages, SameQueues, SameCaptures
<1>6. CountInv'
  <2>1. ASSUME NEW d \in Channels
        PROVE  /\ owed'[d] \in Nat /\ delivered'[d] \in Nat
               /\ owed'[d] = delivered'[d] + dropped[d] + Len(pending[d])
                             + (IF InHand(pumpAt'[d]) THEN 1 ELSE 0)
    <3>1. /\ owed[d] \in Nat /\ delivered[d] \in Nat /\ dropped[d] \in Nat
          /\ owed[d] = delivered[d] + dropped[d] + Len(pending[d])
                       + (IF InHand(pumpAt[d]) THEN 1 ELSE 0)
      BY <1>1 DEF CountInv, FramesAccounted, InHand
    <3>2. Len(pending[d]) \in Nat
      BY <1>1, LenProperties DEF QueueInv
    <3>3. CASE d = c
      <4>1. InHand(pumpAt[d]) /\ ~InHand(pumpAt'[d])
        BY <1>1, <1>3, <3>3 DEF InHand, PlaceInv
      <4>2. owed[d] = delivered[d] + dropped[d] + Len(pending[d]) + 1
        BY <3>1, <4>1
      <4>3. \/ delivered'[d] = delivered[d] + 1 /\ owed'[d] = owed[d]
            \/ delivered'[d] = delivered[d] /\ owed'[d] = owed[d] - 1
        BY <1>1, <1>3, <3>3 DEF CountInv
      <4>4. /\ owed'[d] \in Nat /\ delivered'[d] \in Nat
            /\ owed'[d] = delivered'[d] + dropped[d] + Len(pending[d]) + 0
        <5> DEFINE o == owed[d]
                   v == delivered[d]
                   x == dropped[d]
                   n == Len(pending[d])
        <5>1. o \in Nat /\ v \in Nat /\ x \in Nat /\ n \in Nat /\ o = v + x + n + 1
          BY <3>1, <3>2, <4>2
        <5>2. \/ delivered'[d] = v + 1 /\ owed'[d] = o
              \/ delivered'[d] = v /\ owed'[d] = o - 1
          BY <4>3
        <5> HIDE DEF o, v, x, n
        <5>3. /\ o - 1 \in Nat /\ o - 1 = v + x + n + 0
              /\ v + 1 \in Nat /\ o = (v + 1) + x + n + 0
          BY <5>1
        <5>4. QED
          BY <5>1, <5>2, <5>3 DEF x, n
      <4>5. QED
        BY <4>1, <4>4
    <3>4. CASE d # c
      <4>1. pumpAt'[d] = pumpAt[d] /\ delivered'[d] = delivered[d] /\ owed'[d] = owed[d]
        BY <1>1, <1>3, <3>4 DEF CountInv, PlaceInv
      <4>2. QED
        BY <3>1, <4>1
    <3>5. QED
      BY <3>3, <3>4
  <2>2. FramesAccounted'
    BY <1>2, <2>1 DEF FramesAccounted, InHand
  <2>3. owed' \in [Channels -> Nat] /\ delivered' \in [Channels -> Nat]
    BY <1>1, <1>3, <2>1 DEF CountInv
  <2>4. QED
    BY <1>1, <1>2, <2>2, <2>3 DEF CountInv
<1>7. QED
  BY <1>4, <1>5, <1>6 DEF IInv

-----------------------------------------------------------------------------
(***************************************************************************)
(* Captures.                                                               *)
(***************************************************************************)

\* Whatever is admitted can be answered: no check of the caller fails.
LEMMA VerdictIsSound ==
    ASSUME NEW image \in Images, NEW source \in {"compressed", "raw"}, Admitted(image, source),
           NEW includeRgb \in BOOLEAN, NEW jpeg \in Jpegs(image),
           NEW rgb \in RgbLengths(image, includeRgb)
    PROVE  /\ rgb \in Nat
           /\ Verdict(image, jpeg, rgb, includeRgb) \in {"unavailable", "exhausted", "answered"}
           /\ Verdict(image, jpeg, rgb, includeRgb) = "answered" /\ includeRgb =>
                  rgb = 3 * Width * Height
<1>1. image.frameId = FrameId
  BY DEF Admitted
<1>2. Width \in Nat /\ Height \in Nat
  BY FormatConstants
<1>3. image.width = Width /\ image.height = Height
  <2>1. CASE source = "raw"
    BY <2>1 DEF Admitted, RawAccepted
  <2>2. CASE source # "raw"
    BY <2>2 DEF Admitted, JpegAccepted
  <2>3. QED
    BY <2>1, <2>2
<1>4. jpeg.width = Width /\ jpeg.height = Height
  <2>1. CASE image.type = "raw"
    BY <2>1 DEF Jpegs
  <2>2. CASE image.type # "raw"
    BY <1>3, <2>2 DEF Jpegs
  <2>3. QED
    BY <2>1, <2>2
<1>5. rgb = Width * Height * 3 \/ rgb = 0
  BY <1>3 DEF RgbLengths
<1>6. ~includeRgb => rgb = 0
  BY DEF RgbLengths
<1>7. Width * Height * 3 \in Nat /\ Width * Height * 3 = 3 * Width * Height
  BY <1>2
<1>8. rgb \in Nat
  BY <1>5, <1>7
<1> DEFINE full == Width * Height * 3
<1>9. Captured(jpeg, rgb, includeRgb) <=> JpegReadable(jpeg) /\ (includeRgb => rgb = full)
  BY <1>4 DEF Captured
<1>10. /\ Judged(image, jpeg, rgb) \in {"exhausted", "internal", "answered"}
       /\ Judged(image, jpeg, rgb) = "internal" =>
              (rgb # 0 /\ rgb # full) \/ ~JpegReadable(jpeg)
  BY <1>1, <1>4 DEF Judged
<1>11. Captured(jpeg, rgb, includeRgb) => Judged(image, jpeg, rgb) # "internal"
  BY <1>5, <1>9, <1>10
<1>12. Verdict(image, jpeg, rgb, includeRgb) \in {"unavailable", "exhausted", "answered"}
  BY <1>10, <1>11 DEF Verdict
<1>13. Verdict(image, jpeg, rgb, includeRgb) = "answered" => Captured(jpeg, rgb, includeRgb)
  BY DEF Verdict
<1>14. QED
  BY <1>7, <1>8, <1>9, <1>12, <1>13

\* A capture that ended is a good record of one.
LEMMA EndedIsInOrder ==
    ASSUME NEW verdict \in {"unavailable", "exhausted", "answered"}, NEW n \in Nat
    PROVE  /\ Ended(verdict, n) \in CaptureRecords /\ InOrder(Ended(verdict, n))
           /\ Ended(verdict, n).verdict = verdict /\ Ended(verdict, n).rgbBytes = n
<1>1. FALSE \in Flags
  BY DEF Flags
<1>2. 0 \in 0 .. MaxFrames
  BY QueueConstants
<1> DEFINE flag == FALSE
<1>3. NoCapture = [at |-> "idle", fresh |-> flag, rgb |-> flag, asked |-> 0,
                   held |-> NoFrame, verdict |-> "none", rgbBytes |-> 0]
  BY Zenon DEF NoCapture
<1> HIDE DEF flag
<1>4. Ended(verdict, n) = [at |-> "idle", fresh |-> flag, rgb |-> flag, asked |-> 0,
                           held |-> NoFrame, verdict |-> verdict, rgbBytes |-> n]
  <2>1. Ended(verdict, n) = [NoCapture EXCEPT !.verdict = verdict, !.rgbBytes = n]
    BY Zenon DEF Ended
  <2>2. QED
    BY <1>3, <2>1
<1>5. flag \in Flags
  BY <1>1 DEF flag
<1>6. Ended(verdict, n) \in CaptureRecords
  BY <1>2, <1>4, <1>5 DEF CaptureRecords
<1>7. /\ Ended(verdict, n).at = "idle" /\ Ended(verdict, n).verdict = verdict
      /\ Ended(verdict, n).rgbBytes = n
  BY <1>4
<1>8. QED
  BY <1>6, <1>7 DEF InOrder

\* A capture that takes the latest image, or finds none.
LEMMA TakenIsInOrder ==
    ASSUME PlaceInv, LatestInv, NEW c \in CaptureRecords, c.verdict = "none",
           c.fresh = TRUE => framesIn > c.asked
    PROVE  /\ Taken(c) \in CaptureRecords /\ InOrder(Taken(c))
           /\ Taken(c).verdict \in {"none", "unavailable"}
<1>1. CASE latest = NoFrame
  <2>1. Taken(c) = Ended("unavailable", 0)
    BY <1>1 DEF Taken
  <2>2. 0 \in Nat
    OBVIOUS
  <2>3. QED
    BY <2>1, <2>2, EndedIsInOrder
<1>2. CASE latest # NoFrame
  <2> DEFINE t == [c EXCEPT !.at = "converting", !.held = latest]
  <2>1. Taken(c) = t
    BY <1>2 DEF Taken
  <2>2. latest \in Good /\ latest.seq = framesIn
    BY <1>2 DEF LatestInv
  <2>3. t \in CaptureRecords
    BY <2>2 DEF CaptureRecords
  <2>4. /\ t.at = "converting" /\ t.held = latest /\ t.verdict = c.verdict
        /\ t.asked = c.asked /\ t.fresh = c.fresh
    BY DEF CaptureRecords
  <2> HIDE DEF t
  <2>5. InOrder(t)
    BY <2>2, <2>4 DEF InOrder
  <2>6. QED
    BY <2>1, <2>3, <2>4, <2>5
<1>3. QED
  BY <1>1, <1>2

\* One capture moved.
LEMMA CaptureMoved ==
    ASSUME IInv, NEW r \in Captures, NEW next, Capturing(r, next),
           next \in CaptureRecords, InOrder(next)
    PROVE  IInv' /\ capture' = [capture EXCEPT ![r] = next]
<1>1. /\ capture' = [capture EXCEPT ![r] = next]
      /\ UNCHANGED images /\ UNCHANGED channels /\ UNCHANGED <<pumpAt, closer>>
  BY DEF Capturing
<1>2. UNCHANGED <<mode, pending, bytes, dropped, delivered, owed>>
  BY <1>1 DEF channels
<1>3. PlaceInv'
  BY <1>1, <1>2 DEF IInv, PlaceInv, images
<1>4. Good' = Good
  BY <1>1, SameImages DEF IInv
<1>5. CaptureInv'
  <2>1. /\ capture \in [Captures -> CaptureRecords]
        /\ \A s \in Captures : InOrder(capture[s])
    BY DEF IInv, CaptureInv
  <2>2. capture' \in [Captures -> CaptureRecords]
    BY <1>1, <2>1
  <2>3. \A s \in Captures : InOrder(capture'[s])
    BY <1>1, <2>1
  <2>4. CaptureRecords' = CaptureRecords
    BY <1>4 DEF CaptureRecords
  <2>5. \A s \in Captures : InOrder(capture[s])'
    BY <1>4, <2>3 DEF InOrder
  <2>6. QED
    BY <2>2, <2>4, <2>5 DEF CaptureInv
<1>6. QED
  BY <1>1, <1>2, <1>3, <1>5, QuietStep

\* What a step of a capture ends in.
AnswerIsSound(c, next) ==
    /\ next.verdict # "internal"
    /\ c.at = "converting" /\ next.verdict = "answered" =>
           /\ c.rgb => next.rgbBytes = 3 * Width * Height
           /\ c.fresh => c.held.seq > c.asked

\* A capture without an answer has not answered wrongly.
LEMMA WaitingIsSound ==
    ASSUME NEW c, NEW next, next.verdict \in {"none", "unavailable"}
    PROVE  AnswerIsSound(c, next)
  BY DEF AnswerIsSound

\* A capture as its request makes it.
Asking(fresh, rgb) ==
    [NoCapture EXCEPT !.fresh = fresh, !.rgb = rgb, !.asked = IF fresh THEN framesIn ELSE 0]

\* It is a good record, and a fresh one asks for what comes after the newest image.
LEMMA AskingIsGood ==
    ASSUME PlaceInv, NEW fresh \in BOOLEAN, NEW rgb \in BOOLEAN
    PROVE  /\ Asking(fresh, rgb) \in CaptureRecords
           /\ Asking(fresh, rgb).verdict = "none"
           /\ Asking(fresh, rgb).fresh = fresh
           /\ Asking(fresh, rgb).asked = IF fresh THEN framesIn ELSE 0
<1> DEFINE asked == IF fresh THEN framesIn ELSE 0
           flag == FALSE
           f == fresh
           g == rgb
<1>1. asked \in 0 .. MaxFrames
  BY QueueConstants DEF PlaceInv
<1>2. f \in Flags /\ g \in Flags
  BY DEF Flags
<1> HIDE DEF asked
<1>3. NoCapture = [at |-> "idle", fresh |-> flag, rgb |-> flag, asked |-> 0,
                   held |-> NoFrame, verdict |-> "none", rgbBytes |-> 0]
  BY Zenon DEF NoCapture
<1>4. Asking(fresh, rgb) = [NoCapture EXCEPT !.fresh = f, !.rgb = g, !.asked = asked]
  BY Zenon DEF Asking, asked
<1> HIDE DEF flag, f, g
<1>5. Asking(fresh, rgb) = [at |-> "idle", fresh |-> f, rgb |-> g, asked |-> asked,
                            held |-> NoFrame, verdict |-> "none", rgbBytes |-> 0]
  BY <1>3, <1>4
<1>6. /\ Asking(fresh, rgb) \in CaptureRecords /\ Asking(fresh, rgb).verdict = "none"
      /\ Asking(fresh, rgb).fresh = f /\ Asking(fresh, rgb).asked = asked
  BY <1>1, <1>2, <1>5 DEF CaptureRecords
<1>7. QED
  BY <1>6, Zenon DEF f, asked

\* A step of a capture leads to a good record, and answers soundly if it answers.
LEMMA CaptureStep ==
    ASSUME IInv, NEW r \in Captures, Capture(r)
    PROVE  \E next \in CaptureRecords :
               Capturing(r, next) /\ InOrder(next) /\ AnswerIsSound(capture[r], next)
<1> DEFINE c == capture[r]
<1>1. /\ PlaceInv /\ LatestInv /\ c \in CaptureRecords /\ InOrder(c)
  BY DEF IInv, CaptureInv
<1>2. /\ c.at \in {"idle", "check", "asleep", "converting"} /\ c.asked \in 0 .. MaxFrames
      /\ c.verdict \in {"none", "unavailable", "exhausted", "answered"}
  BY <1>1 DEF CaptureRecords
<1>3. /\ Ended("unavailable", 0) \in CaptureRecords /\ InOrder(Ended("unavailable", 0))
      /\ Ended("unavailable", 0).verdict = "unavailable"
  <2>1. 0 \in Nat
    OBVIOUS
  <2>2. QED
    BY <2>1, EndedIsInOrder
<1>4. ASSUME NEW fresh \in BOOLEAN, NEW rgb \in BOOLEAN, CaptureBegins(r, fresh, rgb)
      PROVE  \E next \in CaptureRecords :
                 Capturing(r, next) /\ InOrder(next) /\ AnswerIsSound(c, next)
  <2> DEFINE asking == Asking(fresh, rgb)
             sleeping == [asking EXCEPT !.at = "asleep"]
  <2>1. Capturing(r, IF ~fresh THEN Taken(asking)
                     ELSE IF Closing THEN Ended("unavailable", 0) ELSE sleeping)
    BY <1>4, Zenon DEF CaptureBegins, Asking
  <2>2. asking \in CaptureRecords /\ asking.verdict = "none" /\ asking.fresh = fresh
    BY <1>1, AskingIsGood, Zenon
  <2> HIDE DEF asking
  <2>3. sleeping \in CaptureRecords /\ sleeping.at = "asleep" /\ sleeping.verdict = "none"
    BY <2>2 DEF CaptureRecords
  <2> HIDE DEF sleeping
  <2>4. InOrder(sleeping)
    BY <2>3 DEF InOrder
  <2>5. CASE ~fresh
    <3>1. Capturing(r, Taken(asking))
      BY <2>1, <2>5
    <3>2. asking.fresh = TRUE => framesIn > asking.asked
      BY <2>2, <2>5
    <3>3. /\ Taken(asking) \in CaptureRecords /\ InOrder(Taken(asking))
          /\ Taken(asking).verdict \in {"none", "unavailable"}
      BY <1>1, <2>2, <3>2, TakenIsInOrder
    <3>4. AnswerIsSound(c, Taken(asking))
      BY <3>3, WaitingIsSound
    <3>5. QED
      BY <3>1, <3>3, <3>4
  <2>6. CASE fresh /\ Closing
    <3>1. Capturing(r, Ended("unavailable", 0))
      BY <2>1, <2>6
    <3>2. AnswerIsSound(c, Ended("unavailable", 0))
      BY <1>3, WaitingIsSound
    <3>3. QED
      BY <1>3, <3>1, <3>2
  <2>7. CASE fresh /\ ~Closing
    <3>1. Capturing(r, sleeping)
      BY <2>1, <2>7
    <3>2. AnswerIsSound(c, sleeping)
      BY <2>3, WaitingIsSound
    <3>3. QED
      BY <2>3, <2>4, <3>1, <3>2
  <2>8. QED
    BY <2>5, <2>6, <2>7
<1>5. CASE CaptureWakes(r)
  <2> DEFINE sleeping == [c EXCEPT !.at = "asleep"]
  <2>1. /\ c.at = "check"
        /\ Capturing(r, IF framesIn > c.asked THEN Taken(c)
                        ELSE IF Closing THEN Ended("unavailable", 0) ELSE sleeping)
    BY <1>5 DEF CaptureWakes
  <2>2. c.verdict = "none"
    BY <1>1, <2>1 DEF InOrder
  <2>3. sleeping \in CaptureRecords /\ sleeping.at = "asleep" /\ sleeping.verdict = "none"
    BY <1>1, <2>2 DEF CaptureRecords
  <2> HIDE DEF sleeping
  <2>4. InOrder(sleeping)
    BY <2>3 DEF InOrder
  <2>5. CASE framesIn > c.asked
    <3>1. Capturing(r, Taken(c))
      BY <2>1, <2>5
    <3>2. c.fresh = TRUE => framesIn > c.asked
      BY <2>5
    <3>3. /\ Taken(c) \in CaptureRecords /\ InOrder(Taken(c))
          /\ Taken(c).verdict \in {"none", "unavailable"}
      BY <1>1, <2>2, <3>2, TakenIsInOrder
    <3>4. AnswerIsSound(c, Taken(c))
      BY <3>3, WaitingIsSound
    <3>5. QED
      BY <3>1, <3>3, <3>4
  <2>6. CASE ~(framesIn > c.asked) /\ Closing
    <3>1. Capturing(r, Ended("unavailable", 0))
      BY <2>1, <2>6
    <3>2. AnswerIsSound(c, Ended("unavailable", 0))
      BY <1>3, WaitingIsSound
    <3>3. QED
      BY <1>3, <3>1, <3>2
  <2>7. CASE ~(framesIn > c.asked) /\ ~Closing
    <3>1. Capturing(r, sleeping)
      BY <2>1, <2>7
    <3>2. AnswerIsSound(c, sleeping)
      BY <2>3, WaitingIsSound
    <3>3. QED
      BY <2>3, <2>4, <3>1, <3>2
  <2>8. QED
    BY <2>5, <2>6, <2>7
<1>6. CASE CaptureTimeout(r)
  <2>1. Capturing(r, Ended("unavailable", 0))
    BY <1>6 DEF CaptureTimeout
  <2>2. AnswerIsSound(c, Ended("unavailable", 0))
    BY <1>3, WaitingIsSound
  <2>3. QED
    BY <1>3, <2>1, <2>2
<1>7. CASE CaptureConverts(r)
  <2> DEFINE image == c.held.image
  <2>1. c.at = "converting"
    BY <1>7 DEF CaptureConverts
  <2>2. c.held \in Good /\ (c.fresh = TRUE => c.held.seq > c.asked)
    BY <1>1, <2>1 DEF InOrder
  <2>3. image \in Images /\ Admitted(image, type) /\ type \in {"compressed", "raw"}
    BY <1>1, <2>2 DEF Good, Frames, PlaceInv
  <2>4. c.rgb \in BOOLEAN /\ c.fresh \in BOOLEAN
    BY <1>1 DEF CaptureRecords, Flags
  <2>5. CASE Capturing(r, Ended("unavailable", 0))
    <3>1. AnswerIsSound(c, Ended("unavailable", 0))
      BY <1>3, WaitingIsSound
    <3>2. QED
      BY <1>3, <2>5, <3>1
  <2>6. ASSUME NEW jpeg \in Jpegs(image), NEW rgb \in RgbLengths(image, c.rgb),
               Capturing(r, Ended(Verdict(image, jpeg, rgb, c.rgb), rgb))
        PROVE  \E next \in CaptureRecords :
                   Capturing(r, next) /\ InOrder(next) /\ AnswerIsSound(c, next)
    <3> DEFINE verdict == Verdict(image, jpeg, rgb, c.rgb)
    <3> HIDE DEF image
    <3>1. /\ rgb \in Nat /\ verdict \in {"unavailable", "exhausted", "answered"}
          /\ verdict = "answered" /\ c.rgb => rgb = 3 * Width * Height
      BY <2>3, <2>4, <2>6, VerdictIsSound
    <3> HIDE DEF verdict
    <3>2. /\ Ended(verdict, rgb) \in CaptureRecords /\ InOrder(Ended(verdict, rgb))
          /\ Ended(verdict, rgb).verdict = verdict /\ Ended(verdict, rgb).rgbBytes = rgb
      BY <3>1, EndedIsInOrder
    <3>3. c.fresh => c.held.seq > c.asked
      BY <2>2, <2>4
    <3>4. AnswerIsSound(c, Ended(verdict, rgb))
      BY <3>1, <3>2, <3>3 DEF AnswerIsSound
    <3>5. Capturing(r, Ended(verdict, rgb))
      BY <2>6 DEF verdict
    <3>6. QED
      BY <3>2, <3>4, <3>5
  <2>7. \/ Capturing(r, Ended("unavailable", 0))
        \/ \E jpeg \in Jpegs(image), rgb \in RgbLengths(image, c.rgb) :
               Capturing(r, Ended(Verdict(image, jpeg, rgb, c.rgb), rgb))
    BY <1>7 DEF CaptureConverts
  <2>8. QED
    BY <2>5, <2>6, <2>7
<1>8. QED
  BY <1>4, <1>5, <1>6, <1>7 DEF Capture

-----------------------------------------------------------------------------
(***************************************************************************)
(* The invariant holds.                                                    *)
(***************************************************************************)
LEMMA InitInv == Init => IInv
<1> SUFFICES ASSUME Init
             PROVE  IInv
  OBVIOUS
<1>1. PlaceInv
  BY QueueConstants DEF Init, PlaceInv
<1>2. LatestInv
  BY DEF Init, LatestInv
<1>3. << >> \in Seq(Good) /\ Len(<< >>) = 0
  BY EmptySeq
<1>4. QueueInv
  <2>1. \A last : IsRun(<< >>, 0, last)
    BY <1>3, TotalOfNone, QueueConstants DEF IsRun, Consecutive
  <2>2. \A c \in Channels : pending[c] = << >> /\ bytes[c] = 0
    BY DEF Init
  <2>3. \A c \in Channels : IsRun(pending[c], bytes[c], latest)
    BY <2>1, <2>2
  <2>4. pending \in [Channels -> Seq(Good)] /\ bytes \in [Channels -> Nat]
    BY <1>3 DEF Init
  <2>5. QED
    BY <2>2, <2>3, <2>4 DEF QueueInv
<1>5. CountInv
  <2>1. \A c \in Channels : /\ owed[c] = 0 /\ delivered[c] = 0 /\ dropped[c] = 0
                            /\ Len(pending[c]) = 0 /\ pumpAt[c] = "check"
    BY <1>3 DEF Init
  <2>2. FramesAccounted
    BY <2>1 DEF FramesAccounted
  <2>3. QED
    BY <2>2 DEF Init, CountInv
<1>6. CaptureInv
  <2>1. capture = [r \in Captures |-> NoCapture]
    BY DEF Init
  <2> DEFINE flag == FALSE
  <2>2. NoCapture = [at |-> "idle", fresh |-> flag, rgb |-> flag, asked |-> 0,
                     held |-> NoFrame, verdict |-> "none", rgbBytes |-> 0]
    BY Zenon DEF NoCapture
  <2>3. flag \in Flags
    BY DEF Flags
  <2> HIDE DEF flag
  <2>4. 0 \in 0 .. MaxFrames
    BY QueueConstants
  <2>5. NoCapture \in CaptureRecords /\ NoCapture.at = "idle"
    BY <2>2, <2>3, <2>4 DEF CaptureRecords
  <2>6. InOrder(NoCapture)
    BY <2>5 DEF InOrder
  <2>7. QED
    BY <2>1, <2>5, <2>6 DEF CaptureInv
<1>7. QED
  BY <1>1, <1>2, <1>4, <1>5, <1>6 DEF IInv

\* stop() and a later start().
LEMMA ClosingKeeps ==
    ASSUME IInv, Close \/ RefuseCaptures \/ SetPumpStop \/ NotifyPumps \/ RuntimeStart
    PROVE  IInv'
<1>1. PlaceInv /\ mode \in [Channels -> {"off", "active", "stopping"}]
  BY DEF IInv, PlaceInv
<1>2. UNCHANGED images /\ UNCHANGED <<mode, pending, bytes, dropped, delivered, owed>>
  BY DEF Close, RefuseCaptures, SetPumpStop, NotifyPumps, RuntimeStart, channels
<1>3. closer' \in {"running", "closed", "refusing", "stopSet", "notified"}
  BY DEF Close, RefuseCaptures, SetPumpStop, NotifyPumps, RuntimeStart
<1>4. CASE Close \/ NotifyPumps
  <2>1. NotifyAll
    BY <1>4 DEF Close, NotifyPumps
  <2>2. QED
    BY <1>1, <1>2, <1>3, <2>1, NotifyingKeeps
<1>5. CASE RefuseCaptures \/ SetPumpStop
  <2>1. UNCHANGED <<pumpAt, capture>>
    BY <1>5 DEF RefuseCaptures, SetPumpStop
  <2>2. PlaceInv'
    BY <1>1, <1>2, <1>3, <2>1 DEF PlaceInv, images
  <2>3. CaptureInv'
    BY <1>2, <2>1, SameCaptures DEF IInv
  <2>4. QED
    BY <1>2, <2>1, <2>2, <2>3, QuietStep
<1>6. CASE RuntimeStart
  <2>1. /\ pumpAt' = [c \in Channels |-> "check"] /\ capture' = capture
        /\ \A c \in Channels : pumpAt[c] = "ended"
    BY <1>6 DEF RuntimeStart
  <2>2. PlaceInv'
    BY <1>1, <1>2, <1>3, <2>1 DEF PlaceInv, images
  <2>3. CaptureInv'
    BY <1>2, <2>1, SameCaptures DEF IInv
  <2>4. \A c \in Channels : InHand(pumpAt'[c]) <=> InHand(pumpAt[c])
    BY <2>1 DEF InHand
  <2>5. QED
    BY <1>2, <2>2, <2>3, <2>4, QuietStep
<1>7. QED
  BY <1>4, <1>5, <1>6

\* The invariant is kept by every step.
LEMMA StepInv == IInv /\ [Next]_vars => IInv'
<1> SUFFICES ASSUME IInv, [Next]_vars
             PROVE  IInv'
  OBVIOUS
<1>1. ASSUME NEW image \in Images, Submit(image)
      PROVE  IInv'
  BY <1>1, SubmitKeeps
<1>2. ASSUME NEW c \in Channels, Activate(c) \/ EndStop(c)
      PROVE  IInv'
  BY <1>2, SwitchingKeeps
<1>3. ASSUME NEW c \in Channels, BeginStop(c)
      PROVE  IInv'
  BY <1>3, BeginStopKeeps
<1>4. ASSUME NEW c \in Channels, Pump(c)
      PROVE  IInv'
  <2>1. CASE PumpChecks(c) \/ PumpFindsNothing(c) \/ PumpWritten(c) \/ PumpGoesOn(c)
    BY <2>1, PumpMoves
  <2>2. CASE PumpTakes(c)
    BY <2>2, PumpTakesKeeps
  <2>3. CASE PumpCounts(c) \/ PumpRaises(c)
    BY <2>3, PumpEndsWrite
  <2>4. QED
    BY <1>4, <2>1, <2>2, <2>3 DEF Pump
<1>5. ASSUME NEW r \in Captures, Capture(r)
      PROVE  IInv'
  <2>1. PICK next \in CaptureRecords : Capturing(r, next) /\ InOrder(next)
    BY <1>5, CaptureStep
  <2>2. QED
    BY <2>1, CaptureMoved
<1>6. CASE Close \/ RefuseCaptures \/ SetPumpStop \/ NotifyPumps \/ RuntimeStart
  BY <1>6, ClosingKeeps
<1>7. CASE UNCHANGED vars
  <2>1. /\ UNCHANGED images
        /\ UNCHANGED <<mode, pending, bytes, dropped, delivered, owed>>
        /\ UNCHANGED <<pumpAt, capture, closer>>
    BY <1>7 DEF vars, channels
  <2>2. PlaceInv' /\ CaptureInv'
    BY <2>1, SameCaptures DEF IInv, PlaceInv, images
  <2>3. QED
    BY <2>1, <2>2, QuietStep
<1>8. QED
  BY <1>1, <1>2, <1>3, <1>4, <1>5, <1>6, <1>7 DEF Next

\* The inductive invariant holds in every state, for all channels, images and limits.
THEOREM FrameQueueInvariant == Spec => []IInv
  BY InitInv, StepInv, PTL DEF Spec

-----------------------------------------------------------------------------
\* Good frames are frames.
LEMMA FramesOfQueues == ASSUME NEW q \in Seq(Good) PROVE q \in Seq(Frames)
<1>1. Len(q) \in Nat /\ q \in [1 .. Len(q) -> Good]
  BY LenProperties
<1>2. Good \subseteq Frames
  BY DEF Good
<1>3. q \in [1 .. Len(q) -> Frames]
  BY <1>1, <1>2
<1>4. QED
  BY <1>1, <1>3, SeqDef

(***************************************************************************)
(* All variables of the frame path keep their types, the counters among    *)
(* them: nothing that is subtracted from (pending_bytes, the frames that a *)
(* stop throws away) ever falls below zero (runtime.py:376-381, 526-550).  *)
(***************************************************************************)
THEOREM QueueTypeCorrect == Spec => []TypeOK
<1>1. ASSUME IInv
      PROVE  TypeOK
  <2>1. PlaceInv /\ LatestInv /\ QueueInv /\ CountInv /\ CaptureInv
    BY <1>1 DEF IInv
  <2>2. latest \in Frames \cup {NoFrame}
    BY <2>1 DEF LatestInv, Good
  <2>3. pending \in [Channels -> Seq(Frames)]
    <3>1. pending \in [Channels -> Seq(Good)]
      BY <2>1 DEF QueueInv
    <3>2. \A c \in Channels : pending[c] \in Seq(Frames)
      BY <3>1, FramesOfQueues
    <3>3. QED
      BY <3>1, <3>2
  <2>4. capture \in [Captures ->
          [at : {"idle", "check", "asleep", "converting"},
           fresh : Flags, rgb : Flags, asked : 0 .. MaxFrames,
           held : Frames \cup {NoFrame}, rgbBytes : Nat,
           verdict : {"none", "unavailable", "exhausted", "internal", "answered"}]]
    <3>1. Good \subseteq Frames
      BY DEF Good
    <3>2. capture \in [Captures -> CaptureRecords]
      BY <2>1 DEF CaptureInv
    <3>3. CaptureRecords \subseteq
          [at : {"idle", "check", "asleep", "converting"},
           fresh : Flags, rgb : Flags, asked : 0 .. MaxFrames,
           held : Frames \cup {NoFrame}, rgbBytes : Nat,
           verdict : {"none", "unavailable", "exhausted", "internal", "answered"}]
      BY <3>1 DEF CaptureRecords
    <3>4. QED
      BY <3>2, <3>3
  <2>5. bytes \in [Channels -> Nat] /\ dropped \in [Channels -> Nat]
        /\ delivered \in [Channels -> Nat] /\ owed \in [Channels -> Nat]
    BY <2>1 DEF QueueInv, CountInv
  <2>6. /\ framesIn \in 0 .. MaxFrames
        /\ type \in {"compressed", "raw"}
        /\ mode \in [Channels -> {"off", "active", "stopping"}]
        /\ pumpAt \in [Channels -> {"check", "asleep", "pop", "writing", "counting", "failed",
                                    "ended"}]
        /\ closer \in {"running", "closed", "refusing", "stopSet", "notified"}
    BY <2>1 DEF PlaceInv
  <2>7. QED
    BY <2>2, <2>3, <2>4, <2>5, <2>6, Zenon DEF TypeOK, Flags
<1>2. QED
  BY <1>1, FrameQueueInvariant, PTL

(***************************************************************************)
(* Every queue is the newest run of what was submitted, within both        *)
(* limits, for every depth, byte limit and set of images, and its byte     *)
(* count is what its frames have (runtime.py:376-380, 523-550).            *)
(***************************************************************************)
THEOREM QueuesHoldTheNewest == Spec => []QueueIsNewestRun
<1>1. ASSUME IInv
      PROVE  QueueIsNewestRun
  <2>1. \A c \in Channels : IsRun(pending[c], bytes[c], latest)
    BY <1>1 DEF IInv, QueueInv
  <2>2. QED
    BY <2>1 DEF QueueIsNewestRun, QueueWithinLimits, IsRun, Consecutive
<1>2. QED
  BY <1>1, FrameQueueInvariant, PTL

(***************************************************************************)
(* The counters of status() add up to what was offered, whatever was       *)
(* stopped, failed or dropped in between (runtime.py:645-658).             *)
(***************************************************************************)
THEOREM EveryFrameIsAccounted == Spec => []FramesAccounted
<1>1. IInv => FramesAccounted
  BY DEF IInv, CountInv
<1>2. QED
  BY <1>1, FrameQueueInvariant, PTL

(***************************************************************************)
(* What the child of a raw source is given is the pixels of one image,     *)
(* whole and without padding, for every geometry, encoding and row step    *)
(* (frames.py:105-154).                                                    *)
(***************************************************************************)
THEOREM OnlyWholeImagesAreQueued == Spec => []EncoderInputIsWhole
<1>1. ASSUME IInv
      PROVE  EncoderInputIsWhole
  <2>1. PlaceInv /\ QueueInv
    BY <1>1 DEF IInv
  <2>2. ASSUME NEW c \in Channels, NEW i \in 1 .. Len(pending[c])
        PROVE  IsWhole(pending[c][i].image)
    <3>1. pending[c] \in Seq(Good)
      BY <2>1 DEF QueueInv
    <3>2. pending[c][i] \in Good
      BY <2>2, <3>1, ElementOfSeq
    <3>3. QED
      BY <2>1, <3>2, GoodFrames
  <2>3. QED
    BY <2>2 DEF EncoderInputIsWhole
<1>2. QED
  BY <1>1, FrameQueueInvariant, PTL

\* No step of anyone gives a capture anything but a sound answer.
LEMMA AnswersStep ==
    ASSUME IInv, [Next]_vars, NEW r \in Captures
    PROVE  AnswerIsSound(capture[r], capture'[r])
<1>1. capture[r] \in CaptureRecords /\ InOrder(capture[r])
  BY DEF IInv, CaptureInv
<1>2. capture[r].verdict # "internal"
      /\ (capture[r].at = "converting" => capture[r].verdict = "none")
  BY <1>1 DEF CaptureRecords, InOrder
<1>3. ASSUME capture'[r].verdict = capture[r].verdict
      PROVE  AnswerIsSound(capture[r], capture'[r])
  BY <1>2, <1>3 DEF AnswerIsSound
<1>4. CASE NotifyAll
  <2>1. capture'[r] = [capture[r] EXCEPT !.at = Woken(capture[r].at)]
    BY <1>4 DEF NotifyAll
  <2>2. capture'[r].verdict = capture[r].verdict
    BY <1>1, <2>1 DEF CaptureRecords
  <2>3. QED
    BY <1>3, <2>2
<1>5. CASE capture' = capture
  BY <1>3, <1>5
<1>6. ASSUME NEW s \in Captures, Capture(s)
      PROVE  AnswerIsSound(capture[r], capture'[r])
  <2>1. PICK next \in CaptureRecords :
            Capturing(s, next) /\ AnswerIsSound(capture[s], next)
    BY <1>6, CaptureStep
  <2>2. capture' = [capture EXCEPT ![s] = next] /\ capture \in [Captures -> CaptureRecords]
    BY <2>1 DEF Capturing, IInv, CaptureInv
  <2>3. CASE r = s
    BY <2>1, <2>2, <2>3
  <2>4. CASE r # s
    <3>1. capture'[r] = capture[r]
      BY <2>2, <2>4
    <3>2. QED
      BY <1>3, <3>1
  <2>5. QED
    BY <2>3, <2>4
<1>7. NotifyAll \/ capture' = capture \/ \E s \in Captures : Capture(s)
  <2>1. ASSUME NEW image \in Images, Submit(image)
        PROVE  NotifyAll
    BY <2>1 DEF Submit
  <2>2. ASSUME NEW c \in Channels, Activate(c) \/ BeginStop(c) \/ EndStop(c)
        PROVE  NotifyAll \/ capture' = capture
    BY <2>2 DEF Activate, BeginStop, EndStop
  <2>3. ASSUME NEW c \in Channels, Pump(c)
        PROVE  capture' = capture
    BY <2>3 DEF Pump, PumpChecks, PumpTakes, PumpFindsNothing, PumpWritten, PumpCounts,
                PumpRaises, PumpGoesOn, PumpGoes
  <2>4. ASSUME Close \/ RefuseCaptures \/ SetPumpStop \/ NotifyPumps \/ RuntimeStart
        PROVE  NotifyAll \/ capture' = capture
    BY <2>4 DEF Close, RefuseCaptures, SetPumpStop, NotifyPumps, RuntimeStart
  <2>5. UNCHANGED vars => capture' = capture
    BY DEF vars
  <2>6. QED
    BY <2>1, <2>2, <2>3, <2>4, <2>5 DEF Next
<1>8. QED
  BY <1>4, <1>5, <1>6, <1>7

(***************************************************************************)
(* A capture of whatever was admitted is answered or declined, never an    *)
(* internal fault; its RGB bytes are complete and a fresh one is of a      *)
(* later image, also across a shutdown and a restart (runtime.py:581-643,  *)
(* control_socket.py:315-345).                                             *)
(***************************************************************************)
THEOREM CapturesAreAnswered == Spec => CaptureAnswers
<1> DEFINE Sound ==
        \A r \in Captures :
          /\ capture'[r].verdict # "internal"
          /\ capture[r].at = "converting" /\ capture'[r].verdict = "answered" =>
                /\ capture[r].rgb => capture'[r].rgbBytes = 3 * Width * Height
                /\ capture[r].fresh => capture[r].held.seq > capture[r].asked
<1>1. IInv /\ [Next]_vars => Sound
  BY AnswersStep DEF AnswerIsSound
<1> HIDE DEF Sound
<1>2. Spec => [][Sound]_vars
  BY <1>1, FrameQueueInvariant, PTL DEF Spec
<1>3. QED
  BY <1>2, PTL DEF CaptureAnswers, Sound

-----------------------------------------------------------------------------
(***************************************************************************)
(* The condition variable.  Nobody sleeps on it while what it waits for is *)
(* there: what NoLostWakeup rests on.                                      *)
(***************************************************************************)
PumpSleepsRightly(c) ==
    pumpAt[c] = "asleep" => ~Deliverable(c) /\ closer # "notified"

CaptureSleepsRightly(r) ==
    capture[r].at = "asleep" => ~Closing /\ framesIn <= capture[r].asked

SleepInv ==
    /\ \A c \in Channels : PumpSleepsRightly(c)
    /\ \A r \in Captures : CaptureSleepsRightly(r)

\* notify_all() leaves nobody asleep.
LEMMA NotifiedAreAwake ==
    ASSUME CaptureInv, NotifyAll
    PROVE  SleepInv'
<1>1. \A place : Woken(place) # "asleep"
  BY DEF Woken
<1>2. \A c \in Channels : pumpAt'[c] # "asleep"
  BY <1>1 DEF NotifyAll
<1>3. ASSUME NEW r \in Captures
      PROVE  capture'[r].at # "asleep"
  <2>1. capture[r] \in CaptureRecords
    BY DEF CaptureInv
  <2>2. capture'[r] = [capture[r] EXCEPT !.at = Woken(capture[r].at)]
    BY DEF NotifyAll
  <2>3. capture'[r].at = Woken(capture[r].at)
    BY <2>1, <2>2 DEF CaptureRecords
  <2>4. QED
    BY <1>1, <2>3
<1>4. QED
  BY <1>2, <1>3 DEF SleepInv, PumpSleepsRightly, CaptureSleepsRightly

\* A step of one channel, or of its pump, that leaves its pump awake or nothing to
\* deliver.
LEMMA OtherSleepersStay ==
    ASSUME IInv, SleepInv, NEW c \in Channels,
           \A d \in Channels \ {c} :
               pumpAt'[d] = pumpAt[d] /\ mode'[d] = mode[d] /\ pending'[d] = pending[d],
           UNCHANGED <<images, capture, closer>>,
           PumpSleepsRightly(c)'
    PROVE  SleepInv'
<1>1. ASSUME NEW d \in Channels
      PROVE  PumpSleepsRightly(d)'
  <2>1. CASE d = c
    BY <2>1
  <2>2. CASE d # c
    BY <2>2 DEF SleepInv, PumpSleepsRightly, Deliverable
  <2>3. QED
    BY <2>1, <2>2
<1>2. ASSUME NEW r \in Captures
      PROVE  CaptureSleepsRightly(r)'
  BY DEF SleepInv, CaptureSleepsRightly, images, Closing
<1>3. QED
  BY <1>1, <1>2 DEF SleepInv

\* The steps of a pump: it goes to sleep when it found nothing.
LEMMA PumpsSleepRightly ==
    ASSUME IInv, SleepInv, NEW c \in Channels, Pump(c)
    PROVE  SleepInv'
<1>1. /\ pumpAt \in [Channels -> {"check", "asleep", "pop", "writing", "counting", "failed",
                                  "ended"}]
      /\ pending \in [Channels -> Seq(Good)]
      /\ closer \in {"running", "closed", "refusing", "stopSet", "notified"}
  BY DEF IInv, PlaceInv, QueueInv
<1>2. UNCHANGED <<images, mode, capture, closer>>
  BY DEF Pump, PumpChecks, PumpTakes, PumpFindsNothing, PumpWritten, PumpCounts, PumpRaises,
     PumpGoesOn, PumpGoes
<1>3. CASE PumpChecks(c)
  <2>1. /\ pumpAt' = [pumpAt EXCEPT ![c] = IF PumpStop THEN "ended"
                                           ELSE IF Deliverable(c) THEN "pop" ELSE "asleep"]
        /\ pending' = pending
    BY <1>3 DEF PumpChecks, PumpGoes
  <2>2. pumpAt'[c] = "asleep" => ~PumpStop /\ ~Deliverable(c)
    BY <1>1, <2>1
  <2>3. PumpSleepsRightly(c)'
    BY <1>2, <2>1, <2>2 DEF PumpSleepsRightly, Deliverable, PumpStop
  <2>4. \A d \in Channels \ {c} :
            pumpAt'[d] = pumpAt[d] /\ mode'[d] = mode[d] /\ pending'[d] = pending[d]
    BY <1>1, <1>2, <2>1
  <2>5. QED
    BY <1>2, <2>3, <2>4, OtherSleepersStay
<1>4. CASE PumpTakes(c) \/ PumpFindsNothing(c) \/ PumpWritten(c) \/ PumpCounts(c)
           \/ PumpRaises(c) \/ PumpGoesOn(c)
  <2>1. PICK place \in {"check", "writing", "counting", "failed", "ended"} :
            pumpAt' = [pumpAt EXCEPT ![c] = place]
    BY <1>4 DEF PumpTakes, PumpFindsNothing, PumpWritten, PumpCounts, PumpRaises, PumpGoesOn,
                PumpGoes
  <2>2. pending' = pending \/ pending' = [pending EXCEPT ![c] = Tail(pending[c])]
    BY <1>4 DEF PumpTakes, PumpFindsNothing, PumpWritten, PumpCounts, PumpRaises, PumpGoesOn,
                PumpGoes
  <2>3. PumpSleepsRightly(c)'
    BY <1>1, <2>1 DEF PumpSleepsRightly
  <2>4. \A d \in Channels \ {c} :
            pumpAt'[d] = pumpAt[d] /\ mode'[d] = mode[d] /\ pending'[d] = pending[d]
    BY <1>1, <1>2, <2>1, <2>2
  <2>5. QED
    BY <1>2, <2>3, <2>4, OtherSleepersStay
<1>5. QED
  BY <1>3, <1>4 DEF Pump

\* The steps of a capture: it goes to sleep when no newer image is there.
LEMMA CapturesSleepRightly ==
    ASSUME IInv, SleepInv, NEW r \in Captures, Capture(r)
    PROVE  SleepInv'
<1> DEFINE k == capture[r]
<1>1. /\ capture \in [Captures -> CaptureRecords] /\ k \in CaptureRecords
      /\ PlaceInv /\ framesIn \in 0 .. MaxFrames /\ MaxFrames \in Nat
  BY QueueConstants DEF IInv, PlaceInv, CaptureInv
<1>2. k.asked \in 0 .. MaxFrames
  BY <1>1 DEF CaptureRecords
<1>3. \A verdict, rgbBytes : Ended(verdict, rgbBytes).at = "idle"
  BY DEF Ended, NoCapture
<1>4. ASSUME NEW x \in CaptureRecords
      PROVE  Taken(x).at # "asleep"
  <2>1. CASE latest = NoFrame
    BY <1>3, <2>1 DEF Taken
  <2>2. CASE latest # NoFrame
    BY <2>2 DEF Taken, CaptureRecords
  <2>3. QED
    BY <2>1, <2>2
<1>5. PICK next :
          /\ Capturing(r, next)
          /\ next.at = "asleep" => ~Closing /\ framesIn <= next.asked
  <2>1. ASSUME NEW fresh \in BOOLEAN, NEW rgb \in BOOLEAN, CaptureBegins(r, fresh, rgb)
        PROVE  \E next : /\ Capturing(r, next)
                         /\ next.at = "asleep" => ~Closing /\ framesIn <= next.asked
    <3> DEFINE asking == Asking(fresh, rgb)
    <3>1. /\ asking \in CaptureRecords
          /\ asking.asked = IF fresh THEN framesIn ELSE 0
      BY <1>1, AskingIsGood, Zenon
    <3>2. Capturing(r, IF ~fresh THEN Taken(asking)
                       ELSE IF Closing THEN Ended("unavailable", 0)
                       ELSE [asking EXCEPT !.at = "asleep"])
      BY <2>1, Zenon DEF CaptureBegins, Asking
    <3> HIDE DEF asking
    <3>3. CASE ~fresh
      BY <1>4, <3>1, <3>2, <3>3
    <3>4. CASE fresh /\ Closing
      BY <1>3, <3>2, <3>4
    <3>5. CASE fresh /\ ~Closing
      <4>1. [asking EXCEPT !.at = "asleep"].asked = asking.asked
        BY <3>1 DEF CaptureRecords
      <4>2. framesIn <= [asking EXCEPT !.at = "asleep"].asked
        BY <1>1, <3>1, <3>5, <4>1
      <4>3. QED
        BY <3>2, <3>5, <4>2
    <3>6. QED
      BY <3>3, <3>4, <3>5
  <2>2. ASSUME CaptureWakes(r)
        PROVE  \E next : /\ Capturing(r, next)
                         /\ next.at = "asleep" => ~Closing /\ framesIn <= next.asked
    <3>1. Capturing(r, IF framesIn > k.asked THEN Taken(k)
                       ELSE IF Closing THEN Ended("unavailable", 0)
                       ELSE [k EXCEPT !.at = "asleep"])
      BY <2>2 DEF CaptureWakes
    <3>2. [k EXCEPT !.at = "asleep"].asked = k.asked
      BY <1>1 DEF CaptureRecords
    <3> HIDE DEF k
    <3>3. CASE framesIn > k.asked
      BY <1>1, <1>4, <3>1, <3>3
    <3>4. CASE ~(framesIn > k.asked) /\ Closing
      BY <1>3, <3>1, <3>4
    <3>5. CASE ~(framesIn > k.asked) /\ ~Closing
      <4>1. framesIn <= k.asked
        BY <1>1, <1>2, <3>5
      <4>2. QED
        BY <3>1, <3>2, <3>5, <4>1
    <3>6. QED
      BY <3>3, <3>4, <3>5
  <2>3. ASSUME CaptureTimeout(r) \/ CaptureConverts(r)
        PROVE  \E verdict, rgbBytes : Capturing(r, Ended(verdict, rgbBytes))
    BY <2>3 DEF CaptureTimeout, CaptureConverts
  <2>4. QED
    BY <1>3, <2>1, <2>2, <2>3 DEF Capture
<1>6. /\ capture' = [capture EXCEPT ![r] = next]
      /\ UNCHANGED images /\ UNCHANGED channels /\ pumpAt' = pumpAt /\ closer' = closer
  BY <1>5 DEF Capturing
<1>7. /\ framesIn' = framesIn /\ mode' = mode /\ pending' = pending
  BY <1>6 DEF images, channels
<1>8. ASSUME NEW s \in Captures
      PROVE  CaptureSleepsRightly(s)'
  <2>1. CASE s = r
    <3>1. capture'[s] = next
      BY <1>1, <1>6, <2>1
    <3>2. QED
      BY <1>5, <1>6, <1>7, <3>1 DEF CaptureSleepsRightly, Closing
  <2>2. CASE s # r
    <3>1. capture'[s] = capture[s]
      BY <1>1, <1>6, <2>2
    <3>2. QED
      BY <1>6, <1>7, <3>1 DEF SleepInv, CaptureSleepsRightly, Closing
  <2>3. QED
    BY <2>1, <2>2
<1>9. ASSUME NEW c \in Channels
      PROVE  PumpSleepsRightly(c)'
  BY <1>6, <1>7 DEF SleepInv, PumpSleepsRightly, Deliverable
<1>10. QED
  BY <1>8, <1>9 DEF SleepInv

(***************************************************************************)
(* Whoever sleeps on the condition variable has nothing to wake up for: no *)
(* pump sleeps over a frame it could deliver, or once it was told to end,  *)
(* and no capture once the runtime closes or a newer image is there,       *)
(* although _pump_stop is set outside the lock (runtime.py:270-271,        *)
(* 300-302, 378-380, 533-534, 541-545, 588-597).                           *)
(***************************************************************************)
THEOREM NobodySleepsOverWork == Spec => []SleepInv
<1>1. Init => SleepInv
  BY DEF Init, SleepInv, PumpSleepsRightly, CaptureSleepsRightly, NoCapture
<1>2. IInv /\ SleepInv /\ [Next]_vars => SleepInv'
  <2> SUFFICES ASSUME IInv, SleepInv, [Next]_vars
               PROVE  SleepInv'
    OBVIOUS
  <2>1. CaptureInv
    BY DEF IInv
  <2>2. CASE NotifyAll
    BY <2>1, <2>2, NotifiedAreAwake
  <2>3. ASSUME NEW c \in Channels, BeginStop(c) \/ EndStop(c)
        PROVE  SleepInv'
    <3>1. /\ mode \in [Channels -> {"off", "active", "stopping"}]
          /\ pending \in [Channels -> Seq(Good)]
      BY DEF IInv, PlaceInv, QueueInv
    <3>2. /\ UNCHANGED <<images, pumpAt, capture, closer>>
          /\ mode'[c] # "active"
          /\ \A d \in Channels \ {c} : mode'[d] = mode[d] /\ pending'[d] = pending[d]
      BY <2>3, <3>1 DEF BeginStop, EndStop
    <3>3. PumpSleepsRightly(c)'
      BY <3>2 DEF SleepInv, PumpSleepsRightly, Deliverable
    <3>4. QED
      BY <3>2, <3>3, OtherSleepersStay
  <2>4. ASSUME NEW c \in Channels, Pump(c)
        PROVE  SleepInv'
    BY <2>4, PumpsSleepRightly
  <2>5. ASSUME NEW r \in Captures, Capture(r)
        PROVE  SleepInv'
    BY <2>5, CapturesSleepRightly
  <2>6. CASE RefuseCaptures \/ SetPumpStop
    <3>1. /\ Closing /\ closer' # "notified"
          /\ UNCHANGED images /\ UNCHANGED channels /\ UNCHANGED <<pumpAt, capture>>
      BY <2>6 DEF RefuseCaptures, SetPumpStop, Closing
    <3>2. \A r \in Captures : capture[r].at # "asleep"
      BY <3>1 DEF SleepInv, CaptureSleepsRightly
    <3>3. QED
      BY <3>1, <3>2 DEF SleepInv, PumpSleepsRightly, CaptureSleepsRightly, Deliverable,
                        channels
  <2>7. CASE RuntimeStart
    <3>1. /\ Closing /\ pumpAt' = [c \in Channels |-> "check"] /\ capture' = capture
      BY <2>7 DEF RuntimeStart, Closing
    <3>2. \A r \in Captures : capture[r].at # "asleep"
      BY <3>1 DEF SleepInv, CaptureSleepsRightly
    <3>3. QED
      BY <3>1, <3>2 DEF SleepInv, PumpSleepsRightly, CaptureSleepsRightly
  <2>8. CASE UNCHANGED vars
    BY <2>8 DEF vars, channels, images, SleepInv, PumpSleepsRightly, CaptureSleepsRightly,
                Deliverable, Closing
  <2>9. /\ \A image \in Images : Submit(image) => NotifyAll
        /\ \A c \in Channels : Activate(c) => NotifyAll
        /\ Close \/ NotifyPumps => NotifyAll
    BY DEF Submit, Activate, Close, NotifyPumps
  <2>10. QED
    BY <2>2, <2>3, <2>4, <2>5, <2>6, <2>7, <2>8, <2>9 DEF Next
<1>3. QED
  BY <1>1, <1>2, FrameQueueInvariant, PTL DEF Spec
================================================================================
