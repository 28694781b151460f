--------------------------- MODULE StreamsProofs ---------------------------
(***************************************************************************)
(* Theorems about Streams: its types, that only an "ms-*" puts an ID out   *)
(* of order, that a reader which resumes from its last ID misses and       *)
(* repeats nothing, and what XRANGE answers.                               *)
(***************************************************************************)
EXTENDS Streams, DataLemmas

-----------------------------------------------------------------------------
(* Picked walks the stream from its head.                                  *)

\* f[n] is what the walk has written after n entries.
Walks(f, s, I, N) ==
    f = [n \in 0 .. N |-> IF n = 0 THEN <<>>
                          ELSE IF n \in I THEN Append(f[n - 1], s[n]) ELSE f[n - 1]]

LEMMA WalkExists == ASSUME NEW s, NEW I, NEW N \in Nat PROVE \E f : Walks(f, s, I, N)
<1> DEFINE T == {m \in Nat : \E f : Walks(f, s, I, m)}
           Step(t, n) == IF n \in I THEN Append(t, s[n]) ELSE t
<1>1. 0 \in T
  <2> DEFINE f == [n \in 0 .. 0 |-> <<>>]
  <2>1. Walks(f, s, I, 0)
    BY DEF Walks
  <2> HIDE DEF f
  <2> QED BY <2>1
<1>2. ASSUME NEW m \in Nat, m \in T PROVE m + 1 \in T
  <2>1. PICK f : Walks(f, s, I, m)
    BY <1>2
  <2>2. f = [n \in 0 .. m |-> IF n = 0 THEN <<>> ELSE Step(f[n - 1], n)]
    BY <2>1 DEF Walks
  <2> DEFINE g == [n \in 0 .. m + 1 |-> IF n = m + 1 THEN Step(f[m], n) ELSE f[n]]
  <2> HIDE DEF Step
  <2>3. ASSUME NEW n \in 0 .. m + 1
        PROVE  g[n] = IF n = 0 THEN <<>> ELSE Step(g[n - 1], n)
    <3>1. CASE n = 0
      <4>1. 0 \in 0 .. m + 1 /\ 0 \in 0 .. m /\ 0 # m + 1
        OBVIOUS
      <4>2. f[0] = <<>>
        BY <2>2, <4>1
      <4> QED BY <3>1, <4>1, <4>2
    <3>2. CASE n = m + 1
      <4>1. n - 1 = m /\ m \in 0 .. m + 1 /\ m # m + 1 /\ n # 0
        BY <3>2
      <4>2. g[n - 1] = f[m]
        BY <4>1
      <4> QED BY <3>2, <4>1, <4>2
    <3>3. CASE n # 0 /\ n # m + 1
      <4>1. n \in 0 .. m /\ n - 1 \in 0 .. m + 1 /\ n - 1 # m + 1
        BY <3>3
      <4>2. g[n - 1] = f[n - 1] /\ g[n] = f[n]
        BY <3>3, <4>1
      <4>3. f[n] = Step(f[n - 1], n)
        BY <2>2, <3>3, <4>1
      <4> QED BY <3>3, <4>2, <4>3
    <3> QED BY <3>1, <3>2, <3>3
  <2>4. g = [n \in 0 .. m + 1 |-> g[n]]
    OBVIOUS
  <2> HIDE DEF g
  <2>5. g = [n \in 0 .. m + 1 |-> IF n = 0 THEN <<>> ELSE Step(g[n - 1], n)]
    BY <2>3, <2>4
  <2>6. Walks(g, s, I, m + 1)
    BY <2>5 DEF Walks, Step
  <2> QED BY <2>6
<1> HIDE DEF T
<1>3. Nat \subseteq T
  BY <1>1, <1>2, NumberInduction
<1> QED BY <1>3 DEF T

(* The walk, entry by entry.                                               *)
LEMMA PickedWalk ==
    ASSUME NEW S, NEW s \in Seq(S), NEW I
    PROVE  \E f : /\ Picked(s, I) = f[Len(s)]
                  /\ f[0] = <<>>
                  /\ \A n \in 1 .. Len(s) :
                        f[n] = IF n \in I THEN Append(f[n - 1], s[n]) ELSE f[n - 1]
<1> DEFINE f == CHOOSE g : Walks(g, s, I, Len(s))
<1>1. Len(s) \in Nat
  BY LenProperties
<1>2. Picked(s, I) = f[Len(s)]
  BY DEF Picked, Walks
<1>3. Walks(f, s, I, Len(s))
  BY <1>1, WalkExists
<1> HIDE DEF f
<1>4. f = [n \in 0 .. Len(s) |-> IF n = 0 THEN <<>>
                          ELSE IF n \in I THEN Append(f[n - 1], s[n]) ELSE f[n - 1]]
  BY <1>3 DEF Walks
<1>5. f[0] = <<>>
  BY <1>1, <1>4
<1>6. ASSUME NEW n \in 1 .. Len(s)
      PROVE  f[n] = IF n \in I THEN Append(f[n - 1], s[n]) ELSE f[n - 1]
  <2>1. n \in 0 .. Len(s) /\ n # 0
    OBVIOUS
  <2> QED BY <1>4, <2>1
<1> QED BY <1>2, <1>5, <1>6

(* What is picked: the entries at the positions given, and only these.     *)
LEMMA PickedRange ==
    ASSUME NEW S, NEW s \in Seq(S), NEW I \in SUBSET (1 .. Len(s))
    PROVE  /\ Picked(s, I) \in Seq(S)
           /\ Range(Picked(s, I)) = {s[n] : n \in I}
<1>0. Len(s) \in Nat /\ \A n \in 1 .. Len(s) : s[n] \in S
  BY LenProperties, ElementOfSeq
<1>a. \A i \in I : i \in 1 .. Len(s) /\ i \in Nat /\ i # 0 /\ i <= Len(s)
  BY <1>0
<1>1. PICK f : /\ Picked(s, I) = f[Len(s)]
               /\ f[0] = <<>>
               /\ \A n \in 1 .. Len(s) :
                     f[n] = IF n \in I THEN Append(f[n - 1], s[n]) ELSE f[n - 1]
  BY PickedWalk
<1> DEFINE Upto(v, n) == \E j \in I : j <= n /\ v = s[j]
           T == {n \in Nat : n <= Len(s) =>
                    f[n] \in Seq(S) /\ \A v : v \in Range(f[n]) <=> Upto(v, n)}
<1>2. 0 \in T
  <2>1. \A v : ~Upto(v, 0)
    BY <1>a
  <2>2. <<>> \in Seq(S) /\ Len(<<>>) = 0
    BY EmptySeq
  <2>3. Range(<<>>) = {<<>>[i] : i \in 1 .. 0}
    BY <2>2, RangeEquality
  <2>4. \A v : v \notin Range(<<>>)
    BY <2>3
  <2> HIDE DEF Upto
  <2> QED BY <1>1, <2>1, <2>2, <2>4
<1>3. ASSUME NEW n \in Nat, n \in T PROVE n + 1 \in T
  <2> SUFFICES ASSUME n + 1 <= Len(s)
               PROVE  f[n + 1] \in Seq(S) /\ \A v : v \in Range(f[n + 1]) <=> Upto(v, n + 1)
    OBVIOUS
  <2>1. n + 1 \in 1 .. Len(s) /\ (n + 1) - 1 = n /\ n <= Len(s)
    BY <1>0
  <2>2. f[n] \in Seq(S) /\ \A v : v \in Range(f[n]) <=> Upto(v, n)
    BY <1>3, <2>1
  <2>3. s[n + 1] \in S
    BY <1>0, <2>1
  <2>4. CASE n + 1 \in I
    <3>1. f[n + 1] = Append(f[n], s[n + 1])
      BY <1>1, <2>1, <2>4
    <3>2. f[n + 1] = f[n] \o <<s[n + 1]>> /\ f[n + 1] \in Seq(S)
      <4>1. Append(f[n], s[n + 1]) = f[n] \o <<s[n + 1]>>
        BY <2>2, <2>3, AppendIsConcat
      <4>2. Append(f[n], s[n + 1]) \in Seq(S)
        BY <2>2, <2>3, AppendProperties
      <4> QED BY <3>1, <4>1, <4>2
    <3>3. <<s[n + 1]>> \in Seq(S) /\ Range(<<s[n + 1]>>) = {s[n + 1]}
      <4>1. <<s[n + 1]>> \in Seq(S) /\ Len(<<s[n + 1]>>) = 1
        BY <2>3
      <4>2. Range(<<s[n + 1]>>) = {<<s[n + 1]>>[i] : i \in 1 .. 1}
        BY <4>1, RangeEquality
      <4> QED BY <4>1, <4>2
    <3>4. Range(f[n] \o <<s[n + 1]>>) = Range(f[n]) \cup {s[n + 1]}
      <4>1. Range(f[n] \o <<s[n + 1]>>) = Range(f[n]) \cup Range(<<s[n + 1]>>)
        <5>1. \A x, y \in Seq(S) : Range(x \o y) = Range(x) \cup Range(y)
          BY RangeConcatenation
        <5> HIDE DEF Upto
        <5> QED BY <3>3, <2>2, <5>1
      <4> QED BY <4>1, <3>3
    <3>5. \A v : Upto(v, n + 1) <=> Upto(v, n) \/ v = s[n + 1]
      BY <1>a, <2>4
    <3>6. \A v : v \in Range(f[n + 1]) <=> v \in Range(f[n]) \/ v = s[n + 1]
      BY <3>2, <3>4
    <3> HIDE DEF Upto
    <3> QED BY <2>2, <3>2, <3>5, <3>6
  <2>5. CASE n + 1 \notin I
    <3>1. f[n + 1] = f[n]
      BY <1>1, <2>1, <2>5
    <3>2. \A v : Upto(v, n + 1) <=> Upto(v, n)
      BY <1>a, <2>5
    <3> HIDE DEF Upto
    <3> QED BY <3>1, <3>2, <2>2
  <2> QED BY <2>4, <2>5
<1> HIDE DEF T
<1>4. Nat \subseteq T
  BY <1>2, <1>3, NumberInduction
<1>5. Len(s) \in T
  BY <1>0, <1>4
<1>6. f[Len(s)] \in Seq(S) /\ \A v : v \in Range(f[Len(s)]) <=> Upto(v, Len(s))
  <2> HIDE DEF Upto
  <2> QED BY <1>0, <1>5 DEF T
<1>7. \A v : Upto(v, Len(s)) <=> v \in {s[n] : n \in I}
  BY <1>a
<1> HIDE DEF Upto
<1>8. Range(f[Len(s)]) = {s[n] : n \in I}
  BY <1>6, <1>7
<1> QED BY <1>1, <1>6, <1>8

(* The entries after position m are picked as they stand.                  *)
LEMMA PickedSuffix ==
    ASSUME NEW S, NEW s \in Seq(S), NEW m \in 0 .. Len(s)
    PROVE  Picked(s, m + 1 .. Len(s)) = SubSeq(s, m + 1, Len(s))
<1> DEFINE I == m + 1 .. Len(s)
<1>0. Len(s) \in Nat /\ m \in Nat /\ m <= Len(s)
  BY LenProperties
<1>1. PICK f : /\ Picked(s, I) = f[Len(s)]
               /\ f[0] = <<>>
               /\ \A n \in 1 .. Len(s) :
                     f[n] = IF n \in I THEN Append(f[n - 1], s[n]) ELSE f[n - 1]
  BY PickedWalk
<1> DEFINE T == {n \in Nat : n <= Len(s) => f[n] = SubSeq(s, m + 1, n)}
<1>2. 0 \in T
  <2>1. SubSeq(s, m + 1, 0) = <<>>
    BY <1>0, SubSeqEmpty
  <2> QED BY <1>1, <2>1
<1>3. ASSUME NEW n \in Nat, n \in T PROVE n + 1 \in T
  <2> SUFFICES ASSUME n + 1 <= Len(s) PROVE f[n + 1] = SubSeq(s, m + 1, n + 1)
    OBVIOUS
  <2>1. n + 1 \in 1 .. Len(s) /\ (n + 1) - 1 = n /\ n <= Len(s)
    BY <1>0
  <2>2. f[n] = SubSeq(s, m + 1, n)
    BY <1>3, <2>1
  <2>3. CASE n + 1 \in I
    <3>1. f[n + 1] = Append(f[n], s[n + 1])
      BY <1>1, <2>1, <2>3
    <3>2. m + 1 \in 1 .. Len(s) /\ n + 1 \in m + 1 .. Len(s)
      BY <1>0, <2>1, <2>3
    <3>3. SubSeq(s, m + 1, n + 1) = SubSeq(s, m + 1, (n + 1) - 1) \o <<s[n + 1]>>
      BY <3>2, SubSeqRecursiveSecond
    <3>4. SubSeq(s, m + 1, n) \in Seq(S) /\ s[n + 1] \in S
      <4>1. \A i \in 1 .. Len(s) : s[i] \in S
        BY ElementOfSeq
      <4>2. \A i \in m + 1 .. n : s[i] \in S
        BY <4>1, <1>0, <2>1
      <4> QED BY <4>1, <4>2, <1>0, <2>1, SubSeqProperties
    <3>5. Append(SubSeq(s, m + 1, n), s[n + 1]) = SubSeq(s, m + 1, n) \o <<s[n + 1]>>
      BY <3>4, AppendIsConcat
    <3> QED BY <3>1, <3>3, <3>5, <2>1, <2>2
  <2>4. CASE n + 1 \notin I
    <3>1. f[n + 1] = f[n]
      BY <1>1, <2>1, <2>4
    <3>2. n + 1 < m + 1 /\ n < m + 1
      BY <1>0, <2>1, <2>4
    <3>3. SubSeq(s, m + 1, n) = <<>> /\ SubSeq(s, m + 1, n + 1) = <<>>
      BY <3>2, <1>0, SubSeqEmpty
    <3> QED BY <3>1, <3>3, <2>2
  <2> QED BY <2>3, <2>4
<1> HIDE DEF T
<1>4. Nat \subseteq T
  BY <1>2, <1>3, NumberInduction
<1>5. f[Len(s)] = SubSeq(s, m + 1, Len(s))
  BY <1>0, <1>4 DEF T
<1> QED BY <1>1, <1>5

-----------------------------------------------------------------------------
(* The order of IDs, and what XREAD returns of a stream in order.          *)

LEMMA IdParts == \A x \in Ids : x[1] \in Nat /\ x[2] \in Nat
  BY DEF Ids

\* The ID at position m, 0-0 being before the first.
At(s, m) == IF m = 0 THEN <<0, 0>> ELSE s[m]

LEMMA AtId ==
    ASSUME NEW s \in Seq(Ids), NEW m \in 0 .. Len(s)
    PROVE  At(s, m) \in Ids
<1>1. Len(s) \in Nat /\ \A n \in 1 .. Len(s) : s[n] \in Ids
  BY LenProperties, ElementOfSeq
<1>2. <<0, 0>> \in Ids
  BY DEF Ids
<1> QED BY <1>1, <1>2 DEF At

(* In a stream in order an ID precedes all that come later.                *)
LEMMA OrderedPairs ==
    ASSUME NEW s \in Seq(Ids), InOrder(s)
    PROVE  \A i \in 0 .. Len(s), j \in 1 .. Len(s) : i < j => Precedes(At(s, i), s[j])
<1>0. Len(s) \in Nat
  BY LenProperties
<1>1. \A n \in 0 .. Len(s) : At(s, n)[1] \in Nat /\ At(s, n)[2] \in Nat
  BY AtId, IdParts
<1> DEFINE P(i, j) == Precedes(At(s, i), At(s, j))
           T == {n \in Nat : \A i \in 0 .. Len(s) : i + n + 1 <= Len(s) => P(i, i + n + 1)}
<1>2. ASSUME NEW i \in 0 .. Len(s), i + 1 <= Len(s) PROVE P(i, i + 1)
  <2>1. i + 1 \in 1 .. Len(s) /\ (i + 1) - 1 = i /\ i + 1 # 0
    BY <1>0, <1>2
  <2>2. Precedes(IF i + 1 = 1 THEN <<0, 0>> ELSE s[(i + 1) - 1], s[i + 1])
    BY <2>1 DEF InOrder
  <2>3. At(s, i + 1) = s[i + 1]
    BY <2>1 DEF At
  <2>4. (IF i + 1 = 1 THEN <<0, 0>> ELSE s[(i + 1) - 1]) = At(s, i)
    BY <2>1 DEF At
  <2> QED BY <2>2, <2>3, <2>4
<1>3. ASSUME NEW a \in 0 .. Len(s), NEW b \in 0 .. Len(s), NEW c \in 0 .. Len(s),
             P(a, b), P(b, c)
      PROVE  P(a, c)
  BY <1>1, <1>3 DEF Precedes
<1> HIDE DEF P
<1>4. 0 \in T
  <2>1. \A i \in 0 .. Len(s) : i + 0 + 1 = i + 1
    OBVIOUS
  <2> QED BY <1>2, <2>1
<1>5. ASSUME NEW n \in Nat, n \in T PROVE n + 1 \in T
  <2> SUFFICES ASSUME NEW i \in 0 .. Len(s), i + (n + 1) + 1 <= Len(s)
               PROVE  P(i, i + (n + 1) + 1)
    OBVIOUS
  <2>1. /\ i + n + 1 \in 0 .. Len(s) /\ i + n + 1 <= Len(s)
        /\ i + (n + 1) + 1 = (i + n + 1) + 1 /\ i + (n + 1) + 1 \in 0 .. Len(s)
    BY <1>0
  <2>2. P(i, i + n + 1)
    BY <1>5, <2>1
  <2>3. P(i + n + 1, (i + n + 1) + 1)
    BY <1>2, <2>1
  <2> QED BY <1>3, <2>1, <2>2, <2>3
<1> HIDE DEF T
<1>6. Nat \subseteq T
  BY <1>4, <1>5, NumberInduction
<1>7. ASSUME NEW i \in 0 .. Len(s), NEW j \in 1 .. Len(s), i < j PROVE Precedes(At(s, i), s[j])
  <2>1. j - i - 1 \in Nat /\ i + (j - i - 1) + 1 = j /\ j <= Len(s) /\ j # 0
    BY <1>0, <1>7
  <2>2. j - i - 1 \in T
    BY <1>6, <2>1
  <2>3. P(i, i + (j - i - 1) + 1)
    BY <2>1, <2>2 DEF T
  <2> QED BY <2>1, <2>3 DEF P, At
<1> QED BY <1>7

(* XREAD from the ID at position m returns the entries after m.            *)
LEMMA ReadAfter ==
    ASSUME NEW s \in Seq(Ids), InOrder(s), NEW m \in 0 .. Len(s)
    PROVE  XreadEntries(At(s, m), s) = SubSeq(s, m + 1, Len(s))
<1>0. Len(s) \in Nat /\ m \in Nat /\ m <= Len(s)
  BY LenProperties
<1>1. \A n \in 1 .. Len(s) : s[n] \in Ids /\ s[n][1] \in Nat /\ s[n][2] \in Nat
  BY ElementOfSeq, IdParts
<1>2. At(s, m) \in Ids /\ At(s, m)[1] \in Nat /\ At(s, m)[2] \in Nat
  BY AtId, IdParts
<1>3. \A a, b \in Ids : isBigger(a, b) <=> Precedes(a, b)
  BY IdParts DEF isBigger, Precedes
<1>4. \A a, b \in Ids : Precedes(a, b) => ~Precedes(b, a)
  BY IdParts DEF Precedes
<1>5. ASSUME NEW n \in 1 .. Len(s)
      PROVE  isBigger(At(s, m), s[n]) <=> n > m
  <2>1. CASE n > m
    BY <2>1, <1>0, <1>1, <1>2, <1>3, OrderedPairs
  <2>2. CASE n = m
    <3>1. At(s, m) = s[n]
      BY <2>2 DEF At
    <3> QED BY <2>2, <3>1, <1>1, <1>2, <1>3, <1>4
  <2>3. CASE n < m
    <3>1. m \in 1 .. Len(s) /\ n \in 0 .. Len(s) /\ At(s, n) = s[n] /\ At(s, m) = s[m]
      BY <2>3, <1>0 DEF At
    <3>2. Precedes(s[n], s[m])
      BY <2>3, <3>1, OrderedPairs
    <3>3. ~isBigger(s[m], s[n])
      BY <3>1, <3>2, <1>1, <1>3, <1>4
    <3> QED BY <2>3, <3>1, <3>3
  <2> QED BY <2>1, <2>2, <2>3, <1>0
<1>6. ASSUME NEW n \in 1 .. Len(s)
      PROVE  ~isBigger(LastOf(s), s[n])
  <2>1. Len(s) \in 1 .. Len(s) /\ LastOf(s) = s[Len(s)] /\ n \in 0 .. Len(s) /\ At(s, n) = s[n]
    BY <1>0 DEF LastOf, At
  <2>2. CASE n = Len(s)
    BY <2>1, <2>2, <1>1, <1>3, <1>4
  <2>3. CASE n < Len(s)
    <3>1. Precedes(s[n], s[Len(s)])
      BY <2>1, <2>3, OrderedPairs
    <3> QED BY <2>1, <3>1, <1>1, <1>3, <1>4
  <2> QED BY <2>2, <2>3, <1>0
<1> DEFINE I == {n \in 1 .. Len(s) : add_to_string(At(s, m), LastOf(s), s[n])}
<1>7. \A n : n \in I <=> n \in m + 1 .. Len(s)
  <2>1. \A n \in 1 .. Len(s) : n > m <=> n \in m + 1 .. Len(s)
    BY <1>0
  <2>2. \A n \in m + 1 .. Len(s) : n \in 1 .. Len(s)
    BY <1>0
  <2> QED BY <1>5, <1>6, <2>1, <2>2 DEF add_to_string
<1>8. I = m + 1 .. Len(s)
  BY <1>7
<1>9. XreadEntries(At(s, m), s) = Picked(s, I)
  BY DEF XreadEntries
<1> QED BY <1>8, <1>9, PickedSuffix

(* Whatever the bound and the stream, XREAD returns a sequence of IDs.     *)
LEMMA XreadIds ==
    ASSUME NEW s \in Seq(Ids), NEW start
    PROVE  XreadEntries(start, s) \in Seq(Ids)
  BY PickedRange DEF XreadEntries

-----------------------------------------------------------------------------
(* A reader that has seen q of the stream s, from position f on.           *)

Follows(s, f, q) ==
    f + Len(q) <= Len(s) /\ q = SubSeq(s, f + 1, f + Len(q))

\* A stream that grows stays followed, and the earlier IDs stay in place.
LEMMA FollowsAppend ==
    ASSUME NEW s \in Seq(Ids), NEW id \in Ids, NEW f \in Nat, NEW q \in Seq(Ids),
           Follows(s, f, q)
    PROVE  /\ Follows(Append(s, id), f, q)
           /\ At(Append(s, id), f + Len(q)) = At(s, f + Len(q))
<1> DEFINE t == Append(s, id)
           m == f + Len(q)
<1>0. Len(s) \in Nat /\ Len(q) \in Nat /\ m \in Nat /\ m <= Len(s)
  BY LenProperties DEF Follows
<1>1. t \in Seq(Ids) /\ Len(t) = Len(s) + 1 /\ \A i \in 1 .. Len(s) : t[i] = s[i]
  BY AppendProperties
<1> HIDE DEF t
<1>2. SubSeq(t, f + 1, m) = SubSeq(s, f + 1, m)
  <2>0. f <= m /\ m <= Len(t)
    BY <1>0, <1>1
  <2> HIDE DEF m
  <2>1. [i \in 1 .. m - f |-> t[f + i]] = SubSeq(t, f + 1, m)
    BY <1>0, <1>1, <2>0, SliceIsSubSeq
  <2>2. [i \in 1 .. m - f |-> s[f + i]] = SubSeq(s, f + 1, m)
    BY <1>0, <2>0, SliceIsSubSeq
  <2>3. ASSUME NEW i \in 1 .. m - f PROVE t[f + i] = s[f + i]
    <3>1. f + i \in 1 .. Len(s)
      BY <1>0
    <3> QED BY <1>1, <3>1
  <2> QED BY <2>1, <2>2, <2>3
<1>3. At(t, m) = At(s, m)
  BY <1>0, <1>1 DEF At
<1>4. m <= Len(t)
  BY <1>0, <1>1
<1> QED BY <1>2, <1>3, <1>4 DEF Follows, t

LEMMA InOrderAppend ==
    ASSUME NEW s \in Seq(Ids), NEW id \in Ids, InOrder(Append(s, id))
    PROVE  InOrder(s)
<1> DEFINE t == Append(s, id)
<1>1. Len(s) \in Nat /\ Len(t) = Len(s) + 1 /\ \A i \in 1 .. Len(s) : t[i] = s[i]
  BY LenProperties, AppendProperties
<1>2. InOrder(t)
  OBVIOUS
<1> HIDE DEF t
<1>3. ASSUME NEW n \in 1 .. Len(s)
      PROVE  Precedes(IF n = 1 THEN <<0, 0>> ELSE s[n - 1], s[n])
  <2>1. n \in 1 .. Len(t) /\ t[n] = s[n]
    BY <1>1
  <2>2. n # 1 => t[n - 1] = s[n - 1]
    BY <1>1
  <2> QED BY <1>2, <2>1, <2>2 DEF InOrder
<1> QED BY <1>3 DEF InOrder

\* What XREAD from the reader's position returns brings it to the end.
LEMMA FollowsRead ==
    ASSUME NEW s \in Seq(Ids), NEW f \in Nat, NEW q \in Seq(Ids),
           Follows(s, f, q), InOrder(s)
    PROVE  LET new == XreadEntries(At(s, f + Len(q)), s)
           IN  /\ Follows(s, f, q \o new) /\ f + Len(q \o new) = Len(s)
               /\ Len(new) = Len(s) - (f + Len(q))
<1> DEFINE m == f + Len(q)
           new == XreadEntries(At(s, m), s)
<1>0. Len(s) \in Nat /\ Len(q) \in Nat /\ m \in 0 .. Len(s) /\ m \in Nat /\ m <= Len(s)
  BY LenProperties DEF Follows
<1>1. new = SubSeq(s, m + 1, Len(s))
  BY <1>0, ReadAfter
<1>2. q = SubSeq(s, f + 1, m)
  BY DEF Follows
<1>3. q \o new = SubSeq(s, f + 1, Len(s))
  <2>1. f + 1 \in 1 .. Len(s) + 1 /\ m \in (f + 1) - 1 .. Len(s) /\ Len(s) \in m .. Len(s)
    BY <1>0
  <2>2. SubSeq(s, f + 1, m) \o SubSeq(s, m + 1, Len(s)) = SubSeq(s, f + 1, Len(s))
    BY <2>1, ConcatAdjacentSubSeq
  <2> QED BY <1>1, <1>2, <2>2
<1>4. new \in Seq(Ids)
  BY XreadIds
<1>5. Len(new) = Len(s) - m
  <2>1. \A i \in 1 .. Len(s) : s[i] \in Ids
    BY ElementOfSeq
  <2>2. \A i \in m + 1 .. Len(s) : s[i] \in Ids
    BY <1>0, <2>1
  <2>3. Len(SubSeq(s, m + 1, Len(s))) = IF m + 1 <= Len(s) THEN Len(s) - (m + 1) + 1 ELSE 0
    BY <1>0, <2>2, SubSeqProperties
  <2> HIDE DEF m
  <2> QED BY <1>0, <1>1, <2>3
<1> HIDE DEF new
<1>6. f + Len(q \o new) = Len(s)
  <2>1. Len(q \o new) = Len(q) + Len(new)
    BY <1>4, ConcatProperties
  <2> QED BY <1>0, <1>5, <2>1
<1>7. Follows(s, f, q \o new)
  BY <1>0, <1>3, <1>6 DEF Follows
<1> QED BY <1>5, <1>6, <1>7 DEF new

\* The last ID a reader got is the one at its position.
LEMMA FollowsCursor ==
    ASSUME NEW s \in Seq(Ids), NEW f \in Nat, NEW q \in Seq(Ids),
           Follows(s, f, q), f = 0 \/ q # <<>>
    PROVE  (IF q = <<>> THEN <<0, 0>> ELSE LastOf(q)) = At(s, f + Len(q))
<1>0. Len(s) \in Nat /\ Len(q) \in Nat
  BY LenProperties
<1>1. CASE q = <<>>
  <2>1. Len(q) = 0 /\ f + Len(q) = 0
    BY <1>1, EmptySeq
  <2> QED BY <1>1, <2>1 DEF At
<1>2. CASE q # <<>>
  <2>1. Len(q) # 0
    BY <1>2, EmptySeq
  <2> DEFINE m == f + Len(q)
  <2>2. m \in Nat /\ m <= Len(s) /\ m # 0 /\ f <= m /\ m - f = Len(q)
    BY <1>0, <2>1 DEF Follows
  <2>3. q = SubSeq(s, f + 1, m)
    BY DEF Follows
  <2>4. [i \in 1 .. m - f |-> s[f + i]] = SubSeq(s, f + 1, m)
    BY <2>2, SliceIsSubSeq
  <2>5. q[Len(q)] = s[f + Len(q)]
    <3>1. Len(q) \in 1 .. m - f
      BY <1>0, <2>1, <2>2
    <3> HIDE DEF m
    <3> QED BY <2>3, <2>4, <3>1
  <2> QED BY <1>2, <2>2, <2>5 DEF At, LastOf
<1> QED BY <1>1, <1>2

-----------------------------------------------------------------------------
(* The inductive invariant.  A blocked reader waits at the key it consumes *)
(* with the ID of its own position as min_id: this is what hands it, and   *)
(* only it, the entries that follow.                                       *)

ReaderOK(r) ==
    /\ is_blocked[r] => /\ key[r] # NULL /\ waiting_for_key[r] = key[r]
                        /\ min_id[r] # NULL
    /\ from[r] # Unknown => from[r] \in Nat
    /\ key[r] = NULL => from[r] = 0 /\ seen[r] = <<>>
    /\ key[r] # NULL /\ from[r] # Unknown /\ InOrder(stream[key[r]]) =>
         /\ Follows(stream[key[r]], from[r], seen[r])
         /\ is_blocked[r] => min_id[r] = At(stream[key[r]], from[r] + Len(seen[r]))

ReadersOK == \A r \in Readers : ReaderOK(r)

IInv == TypeOK /\ ReadersOK /\ OnlyPartialIdsGoBack

LEMMA InitIInv == Init => IInv
<1> SUFFICES ASSUME Init PROVE IInv
  OBVIOUS
<1>1. <<>> \in Seq(Ids) /\ Len(<<>>) = 0 /\ <<0, 0>> \in Ids
  BY EmptySeq DEF Ids
<1>2. TypeOK
  BY <1>1 DEF Init, TypeOK
<1>3. ReadersOK
  BY DEF Init, ReadersOK, ReaderOK
<1>4. OnlyPartialIdsGoBack
  BY <1>1 DEF Init, OnlyPartialIdsGoBack
<1> QED BY <1>2, <1>3, <1>4 DEF IInv

(* Steps that touch no stream keep the streams' part of the invariant.     *)
LEMMA SameStreams ==
    OnlyPartialIdsGoBack /\ UNCHANGED stream => OnlyPartialIdsGoBack'
  BY DEF OnlyPartialIdsGoBack

LEMMA TickIInv == IInv /\ Tick => IInv'
<1> SUFFICES ASSUME IInv, Tick PROVE IInv'
  OBVIOUS
<1>1. TypeOK'
  BY DEF IInv, TypeOK, Tick, client, reader
<1>2. ReadersOK'
  BY DEF IInv, ReadersOK, ReaderOK, Tick, client, reader
<1>3. OnlyPartialIdsGoBack'
  BY SameStreams DEF IInv, Tick
<1> QED BY <1>1, <1>2, <1>3 DEF IInv

LEMMA SweepIInv == IInv /\ Sweep => IInv'
<1> SUFFICES ASSUME IInv, Sweep PROVE IInv'
  OBVIOUS
<1>1. TypeOK'
  <2>1. is_blocked' \in [Readers -> BOOLEAN]
    BY DEF IInv, TypeOK, Sweep
  <2> QED BY <2>1 DEF IInv, TypeOK, Sweep, reader
<1>2. ReadersOK'
  <2> SUFFICES ASSUME NEW r \in Readers PROVE ReaderOK(r)'
    BY DEF ReadersOK
  <2>1. is_blocked'[r] => is_blocked[r]
    BY DEF Sweep
  <2>2. ReaderOK(r)
    BY DEF IInv, ReadersOK
  <2> QED BY <2>1, <2>2 DEF ReaderOK, Sweep, reader
<1>3. OnlyPartialIdsGoBack'
  BY SameStreams DEF IInv, Sweep
<1> QED BY <1>1, <1>2, <1>3 DEF IInv

\* The position of a reader that has read from k, or has not started.
LEMMA Positions ==
    ASSUME IInv, NEW r \in Readers, NEW k \in Keys,
           key[r] \in {NULL, k}, from[r] # Unknown, InOrder(stream[k])
    PROVE  /\ stream[k] \in Seq(Ids) /\ from[r] \in Nat /\ seen[r] \in Seq(Ids)
           /\ Follows(stream[k], from[r], seen[r])
<1>1. stream[k] \in Seq(Ids) /\ seen[r] \in Seq(Ids) /\ Len(stream[k]) \in Nat
  BY LenProperties DEF IInv, TypeOK
<1>2. ReaderOK(r)
  BY DEF IInv, ReadersOK
<1>3. from[r] \in Nat
  BY <1>2 DEF ReaderOK
<1>4. CASE key[r] = NULL
  <2>1. from[r] = 0 /\ seen[r] = <<>> /\ Len(seen[r]) = 0
    BY <1>2, <1>4, EmptySeq DEF ReaderOK
  <2>2. SubSeq(stream[k], 0 + 1, 0 + 0) = <<>>
    BY SubSeqEmpty
  <2> QED BY <1>1, <1>3, <2>1, <2>2 DEF Follows
<1>5. CASE key[r] = k
  BY <1>1, <1>2, <1>3, <1>5, StreamsAssumption DEF ReaderOK
<1> QED BY <1>4, <1>5

\* An XREAD of r leaves the other readers as they are.
LEMMA OthersOK ==
    ASSUME IInv, NEW r \in Readers, NEW q \in Readers, q # r,
           UNCHANGED <<stream>>,
           is_blocked'[q] = is_blocked[q], waiting_for_key'[q] = waiting_for_key[q],
           min_id'[q] = min_id[q], key'[q] = key[q], from'[q] = from[q], seen'[q] = seen[q]
    PROVE  ReaderOK(q)'
  BY DEF IInv, ReadersOK, ReaderOK

LEMMA XreadIInv ==
    ASSUME IInv, NEW r \in Readers, NEW k \in Keys, XREAD(r, k)
    PROVE  IInv'
<1>0. /\ key \in [Readers -> Keys \cup {NULL}] /\ seen \in [Readers -> Seq(Ids)]
      /\ stream[k] \in Seq(Ids) /\ seen[r] \in Seq(Ids) /\ k # NULL
  BY StreamsAssumption DEF IInv, TypeOK
<1>1. /\ key' = [key EXCEPT ![r] = k] /\ UNCHANGED <<now, stream, last, from, client>>
      /\ ~is_blocked[r] /\ key[r] \in {NULL, k} /\ (from[r] = 0 \/ seen[r] # <<>>)
  BY DEF XREAD, Resume
<1> DEFINE new == XreadEntries(Cursor(r), stream[k])
           got == IF stream[k] = <<>> THEN seen[r] ELSE seen[r] \o new
<1>2. new \in Seq(Ids)
  BY <1>0, XreadIds
<1>3. got \in Seq(Ids)
  BY <1>0, <1>2, ConcatProperties
<1>4. seen' = [seen EXCEPT ![r] = got]
  BY DEF XREAD
<1> HIDE DEF new, got
<1>5. TypeOK'
  <2>1. key' \in [Readers -> Keys \cup {NULL}] /\ seen' \in [Readers -> Seq(Ids)]
    BY <1>0, <1>1, <1>3, <1>4
  <2> QED BY <1>1, <2>1 DEF IInv, TypeOK, client
<1>6. /\ key'[r] = k /\ seen'[r] = got /\ from'[r] = from[r] /\ stream' = stream
      /\ is_blocked'[r] = is_blocked[r]
  BY <1>0, <1>1, <1>4 DEF client
<1>7. ASSUME from[r] # Unknown, InOrder(stream[k])
      PROVE  Follows(stream[k], from[r], got)
  <2>1. from[r] \in Nat /\ Follows(stream[k], from[r], seen[r])
    BY <1>0, <1>1, <1>7, Positions
  <2>2. CASE stream[k] = <<>>
    BY <2>1, <2>2 DEF got
  <2>3. CASE stream[k] # <<>>
    <3>1. Cursor(r) = At(stream[k], from[r] + Len(seen[r]))
      BY <1>0, <1>1, <2>1, FollowsCursor DEF Cursor
    <3>2. Follows(stream[k], from[r], seen[r] \o XreadEntries(At(stream[k], from[r] + Len(seen[r])), stream[k]))
      BY <1>0, <1>7, <2>1, FollowsRead
    <3> QED BY <2>3, <3>1, <3>2 DEF got, new
  <2> QED BY <2>2, <2>3
<1>8. ReaderOK(r)'
  <2>1. ReaderOK(r)
    BY DEF IInv, ReadersOK
  <2>2. from[r] # Unknown => from[r] \in Nat
    BY <2>1 DEF ReaderOK
  <2> QED BY <1>0, <1>1, <1>6, <1>7, <2>2 DEF ReaderOK
<1>9. ASSUME NEW q \in Readers PROVE ReaderOK(q)'
  <2>1. CASE q = r
    BY <1>8, <2>1
  <2>2. CASE q # r
    <3>1. key'[q] = key[q] /\ seen'[q] = seen[q]
      BY <1>0, <1>1, <1>4, <2>2
    <3> QED BY <1>1, <2>2, <3>1, OthersOK DEF client
  <2> QED BY <2>1, <2>2
<1> QED BY <1>1, <1>5, <1>9, SameStreams DEF IInv, ReadersOK

\* What a blocking XREAD of r at k does to the fields of the client.
LEMMA BlockFields ==
    ASSUME TypeOK, NEW r \in Readers, NEW k \in Keys, NEW t \in Timeouts,
           NEW id \in Ids \cup {Dollar}, Block(r, k, t, id)
    PROVE  /\ timeout_at' \in [Readers -> Nat] /\ is_blocked' \in [Readers -> BOOLEAN]
           /\ min_id' \in [Readers -> Ids \cup {NULL, Dollar}]
           /\ waiting_for_key' \in [Readers -> Keys \cup {NULL}]
           /\ is_blocked'[r] = TRUE /\ waiting_for_key'[r] = k /\ min_id'[r] = id
           /\ \A q \in Readers : q # r =>
                /\ is_blocked'[q] = is_blocked[q] /\ min_id'[q] = min_id[q]
                /\ waiting_for_key'[q] = waiting_for_key[q]
<1>1. t \in Nat /\ now \in Nat
  BY StreamsAssumption DEF TypeOK
<1>2. timeout_at' \in [Readers -> Nat]
  <2>1. (IF t = 0 THEN 0 ELSE now + t) \in Nat
    BY <1>1
  <2> QED BY <2>1 DEF TypeOK, Block
<1> QED BY <1>2 DEF TypeOK, Block

LEMMA XreadBlockIInv ==
    ASSUME IInv, NEW r \in Readers, NEW k \in Keys, NEW t \in Timeouts, XREAD_BLOCK(r, k, t)
    PROVE  IInv'
<1>0. /\ key \in [Readers -> Keys \cup {NULL}] /\ stream[k] \in Seq(Ids)
      /\ seen[r] \in Seq(Ids) /\ k # NULL
  BY StreamsAssumption DEF IInv, TypeOK
<1>1. /\ key' = [key EXCEPT ![r] = k] /\ UNCHANGED <<now, stream, last, from, seen>>
      /\ key[r] \in {NULL, k} /\ (from[r] = 0 \/ seen[r] # <<>>)
  BY DEF XREAD_BLOCK, Resume
<1>2. Cursor(r) \in Ids
  <2>1. CASE seen[r] = <<>>
    BY <2>1 DEF Cursor, Ids
  <2>2. CASE seen[r] # <<>>
    <3>1. Len(seen[r]) \in 1 .. Len(seen[r])
      BY <1>0, <2>2, EmptySeq
    <3> QED BY <1>0, <2>2, <3>1, ElementOfSeq DEF Cursor, LastOf
  <2> QED BY <2>1, <2>2
<1>3. Block(r, k, t, Cursor(r))
  BY DEF XREAD_BLOCK
<1>4. /\ timeout_at' \in [Readers -> Nat] /\ is_blocked' \in [Readers -> BOOLEAN]
      /\ min_id' \in [Readers -> Ids \cup {NULL, Dollar}]
      /\ waiting_for_key' \in [Readers -> Keys \cup {NULL}]
      /\ is_blocked'[r] = TRUE /\ waiting_for_key'[r] = k /\ min_id'[r] = Cursor(r)
      /\ \A q \in Readers : q # r =>
           /\ is_blocked'[q] = is_blocked[q] /\ min_id'[q] = min_id[q]
           /\ waiting_for_key'[q] = waiting_for_key[q]
  BY <1>2, <1>3, BlockFields DEF IInv
<1>5. TypeOK'
  <2>1. key' \in [Readers -> Keys \cup {NULL}]
    BY <1>0, <1>1
  <2> QED BY <1>1, <1>4, <2>1 DEF IInv, TypeOK
<1>6. key'[r] = k
  BY <1>0, <1>1
<1>7. ASSUME from[r] # Unknown, InOrder(stream[k])
      PROVE  /\ Follows(stream[k], from[r], seen[r])
             /\ Cursor(r) = At(stream[k], from[r] + Len(seen[r]))
  <2>1. from[r] \in Nat /\ Follows(stream[k], from[r], seen[r])
    BY <1>0, <1>1, <1>7, Positions
  <2> QED BY <1>0, <1>1, <2>1, FollowsCursor DEF Cursor
<1>8. ReaderOK(r)'
  <2>1. ReaderOK(r)
    BY DEF IInv, ReadersOK
  <2>2. from[r] # Unknown => from[r] \in Nat
    BY <2>1 DEF ReaderOK
  <2>3. Cursor(r) # NULL
    BY <1>2, StreamsAssumption DEF Ids
  <2> QED BY <1>0, <1>1, <1>4, <1>6, <1>7, <2>2, <2>3 DEF ReaderOK
<1>9. ASSUME NEW q \in Readers PROVE ReaderOK(q)'
  <2>1. CASE q = r
    BY <1>8, <2>1
  <2>2. CASE q # r
    <3>1. key'[q] = key[q]
      BY <1>0, <1>1, <2>2
    <3> QED BY <1>1, <1>4, <2>2, <3>1, OthersOK
  <2> QED BY <2>1, <2>2
<1> QED BY <1>1, <1>5, <1>9, SameStreams DEF IInv, ReadersOK

LEMMA XreadDollarIInv ==
    ASSUME IInv, NEW r \in Readers, NEW k \in Keys, NEW t \in Timeouts, XREAD_DOLLAR(r, k, t)
    PROVE  IInv'
<1> DEFINE id == IF stream[k] = <<>> THEN Dollar ELSE LastOf(stream[k])
           start == IF stream[k] = <<>> THEN Unknown ELSE Len(stream[k])
<1>0. /\ key \in [Readers -> Keys \cup {NULL}] /\ from \in [Readers -> Int]
      /\ stream[k] \in Seq(Ids) /\ Len(stream[k]) \in Nat /\ k # NULL
  BY StreamsAssumption, LenProperties DEF IInv, TypeOK
<1>1. /\ key' = [key EXCEPT ![r] = k] /\ UNCHANGED <<now, stream, last, seen>>
      /\ seen[r] = <<>> /\ from' = [from EXCEPT ![r] = start] /\ Block(r, k, t, id)
  BY DEF XREAD_DOLLAR
<1>2. stream[k] # <<>> => Len(stream[k]) # 0 /\ LastOf(stream[k]) \in Ids
  <2>1. stream[k] # <<>> => Len(stream[k]) \in 1 .. Len(stream[k])
    BY <1>0, EmptySeq
  <2> QED BY <1>0, <2>1, ElementOfSeq DEF LastOf
<1>3. id \in Ids \cup {Dollar} /\ id # NULL /\ start \in Int /\ Unknown = -1
  BY <1>0, <1>2, StreamsAssumption DEF Unknown, Ids
<1> HIDE DEF id
<1>4. /\ timeout_at' \in [Readers -> Nat] /\ is_blocked' \in [Readers -> BOOLEAN]
      /\ min_id' \in [Readers -> Ids \cup {NULL, Dollar}]
      /\ waiting_for_key' \in [Readers -> Keys \cup {NULL}]
      /\ is_blocked'[r] = TRUE /\ waiting_for_key'[r] = k /\ min_id'[r] = id
      /\ \A q \in Readers : q # r =>
           /\ is_blocked'[q] = is_blocked[q] /\ min_id'[q] = min_id[q]
           /\ waiting_for_key'[q] = waiting_for_key[q]
  BY <1>1, <1>3, BlockFields DEF IInv
<1>5. TypeOK'
  <2>1. key' \in [Readers -> Keys \cup {NULL}] /\ from' \in [Readers -> Int]
    BY <1>0, <1>1, <1>3
  <2> QED BY <1>1, <1>4, <2>1 DEF IInv, TypeOK
<1>6. key'[r] = k /\ from'[r] = start /\ seen'[r] = <<>> /\ stream' = stream
  BY <1>0, <1>1
<1>7. ASSUME start # Unknown
      PROVE  /\ start \in Nat /\ Follows(stream[k], start, <<>>)
             /\ id = At(stream[k], start + Len(<<>>))
  <2>1. stream[k] # <<>> /\ start = Len(stream[k]) /\ id = LastOf(stream[k])
    BY <1>7 DEF id
  <2>2. Len(<<>>) = 0 /\ start + 0 = start
    BY <1>0, <2>1
  <2>3. SubSeq(stream[k], start + 1, start) = <<>>
    BY <1>0, <2>1, SubSeqEmpty
  <2>4. start \in Nat /\ start # 0 /\ start <= Len(stream[k]) /\ id = stream[k][start]
    BY <1>0, <1>2, <2>1 DEF LastOf
  <2> HIDE DEF start
  <2>5. id = At(stream[k], start + Len(<<>>))
    BY <2>2, <2>4 DEF At
  <2> QED BY <2>2, <2>3, <2>4, <2>5 DEF Follows
<1> HIDE DEF start
<1>8. ReaderOK(r)'
  BY <1>0, <1>3, <1>4, <1>6, <1>7 DEF ReaderOK
<1>9. ASSUME NEW q \in Readers PROVE ReaderOK(q)'
  <2>1. CASE q = r
    BY <1>8, <2>1
  <2>2. CASE q # r
    <3>1. key'[q] = key[q] /\ from'[q] = from[q]
      BY <1>0, <1>1, <2>2
    <3> QED BY <1>1, <1>4, <2>2, <3>1, OthersOK
  <2> QED BY <2>1, <2>2
<1> QED BY <1>1, <1>5, <1>9, SameStreams DEF IInv, ReadersOK

-----------------------------------------------------------------------------
(* XADD.                                                                   *)

\* The ID of an accepted XADD continues the stream, unless it is an "ms-*"
\* with an old ms.
Continues(k, id) ==
    \/ stream[k] = <<>>
    \/ Precedes(LastOf(stream[k]), id)
    \/ id[1] < LastOf(stream[k])[1] /\ id[1] \in PartialMs /\ id[2] \in {0, 1}

LEMMA NewIds ==
    ASSUME IInv, NEW k \in Keys, XADD(k)
    PROVE  \E id \in Ids : Continues(k, id) /\ AppendEntry(k, id)
<1>0. /\ now \in Nat /\ stream[k] \in Seq(Ids) /\ last[k] \in Ids
      /\ stream[k] # <<>> => last[k] = LastOf(stream[k])
  BY DEF IInv, TypeOK
<1>1. last[k][1] \in Nat /\ last[k][2] \in Nat
  BY <1>0, IdParts
<1>2. CASE AppendEntry(k, generateId(k))
  <2>1. generateId(k) \in Ids
    BY <1>0, <1>1 DEF generateId, Ids
  <2>2. Continues(k, generateId(k))
    <3>1. CASE stream[k] = <<>>
      BY <3>1 DEF Continues
    <3>2. CASE stream[k] # <<>>
      <4>1. Precedes(last[k], generateId(k))
        BY <3>2, <1>0, <1>1 DEF generateId, Precedes
      <4> QED BY <3>2, <4>1, <1>0 DEF Continues
    <3> QED BY <3>1, <3>2
  <2> QED BY <1>2, <2>1, <2>2
<1>3. CASE \E ms \in PartialMs : AppendEntry(k, generatePartialId(k, ms))
  <2>1. PICK ms \in PartialMs : AppendEntry(k, generatePartialId(k, ms))
    BY <1>3
  <2>2. ms \in Nat
    BY StreamsAssumption
  <2>3. generatePartialId(k, ms) \in Ids
    BY <2>2, <1>1 DEF generatePartialId, Ids
  <2>4. Continues(k, generatePartialId(k, ms))
    <3>1. CASE stream[k] = <<>>
      BY <3>1 DEF Continues
    <3>2. CASE stream[k] # <<>>
      <4>1. \/ Precedes(last[k], generatePartialId(k, ms))
            \/ /\ generatePartialId(k, ms)[1] < last[k][1]
               /\ generatePartialId(k, ms)[1] \in PartialMs
               /\ generatePartialId(k, ms)[2] \in {0, 1}
        <5>1. CASE ms = last[k][1]
          BY <5>1, <1>1, <2>2 DEF generatePartialId, Precedes
        <5>2. CASE ms # last[k][1]
          BY <5>2, <1>1, <2>2 DEF generatePartialId, Precedes
        <5> QED BY <5>1, <5>2
      <4> QED BY <3>2, <4>1, <1>0 DEF Continues
    <3> QED BY <3>1, <3>2
  <2> QED BY <2>1, <2>3, <2>4
<1>4. CASE \E id \in ExplicitIds : validate_stream_id(k, id) /\ AppendEntry(k, id)
  <2>1. PICK id \in ExplicitIds : validate_stream_id(k, id) /\ AppendEntry(k, id)
    BY <1>4
  <2>2. id \in Ids
    BY StreamsAssumption DEF Ids
  <2>3. Continues(k, id)
    <3>1. CASE stream[k] = <<>>
      BY <3>1 DEF Continues
    <3>2. CASE stream[k] # <<>>
      <4>1. isBigger(last[k], id)
        BY <3>2, <2>1, <1>0 DEF validate_stream_id
      <4>2. Precedes(last[k], id)
        BY <4>1, <1>0, <2>2, IdParts DEF isBigger, Precedes
      <4> QED BY <3>2, <4>2, <1>0 DEF Continues
    <3> QED BY <3>1, <3>2
  <2> QED BY <2>1, <2>2, <2>3
<1> QED BY <1>2, <1>3, <1>4 DEF XADD

\* The stream that grew: its own entries in order but for old "ms-*".
LEMMA AppendGoesBack ==
    ASSUME IInv, NEW k \in Keys, NEW id \in Ids, Continues(k, id), AppendEntry(k, id)
    PROVE  OnlyPartialIdsGoBack'
<1> DEFINE Fine(a, b) == Precedes(a, b) \/ (b[1] < a[1] /\ b[1] \in PartialMs /\ b[2] \in {0, 1})
           s == stream[k]
           t == Append(s, id)
<1>0. stream \in [Keys -> Seq(Ids)] /\ s \in Seq(Ids) /\ Len(s) \in Nat
  BY LenProperties DEF IInv, TypeOK
<1>1. stream' = [stream EXCEPT ![k] = t]
  BY DEF AppendEntry
<1>2. /\ Len(t) = Len(s) + 1 /\ \A i \in 1 .. Len(s) : t[i] = s[i]
      /\ t[Len(s) + 1] = id
  BY <1>0, AppendProperties
<1> HIDE DEF t
<1>3. \A q \in Keys : \A n \in 2 .. Len(stream[q]) : Fine(stream[q][n - 1], stream[q][n])
  BY DEF IInv, OnlyPartialIdsGoBack
<1>4. s # <<>> => Fine(s[Len(s)], id)
  BY DEF Continues, LastOf
<1> HIDE DEF Fine
<1>5. ASSUME NEW n \in 2 .. Len(t) PROVE Fine(t[n - 1], t[n])
  <2>1. CASE n <= Len(s)
    <3>1. n \in 2 .. Len(s) /\ n \in 1 .. Len(s) /\ n - 1 \in 1 .. Len(s)
      BY <1>0, <2>1
    <3>2. t[n] = s[n] /\ t[n - 1] = s[n - 1]
      BY <3>1, <1>2
    <3> QED BY <3>1, <3>2, <1>3
  <2>2. CASE n = Len(s) + 1
    <3>1. n - 1 = Len(s) /\ Len(s) \in 1 .. Len(s)
      BY <1>0, <2>2
    <3>2. s # <<>>
      BY <3>1, EmptySeq
    <3>3. t[n - 1] = s[Len(s)] /\ t[n] = id
      BY <1>2, <2>2, <3>1
    <3> QED BY <3>2, <3>3, <1>4
  <2> QED BY <2>1, <2>2, <1>0, <1>2
<1>6. ASSUME NEW q \in Keys, NEW n \in 2 .. Len(stream'[q])
      PROVE  Fine(stream'[q][n - 1], stream'[q][n])
  <2>1. CASE q = k
    <3>1. stream'[q] = t
      BY <1>0, <1>1, <2>1
    <3> QED BY <1>5, <1>6, <3>1
  <2>2. CASE q # k
    <3>1. stream'[q] = stream[q]
      BY <1>0, <1>1, <2>2
    <3> QED BY <1>3, <1>6, <3>1
  <2> QED BY <2>1, <2>2
<1> QED BY <1>6 DEF Fine, OnlyPartialIdsGoBack

\* The delivery, reader by reader: who is woken gets what follows its bound.
LEMMA Delivery ==
    ASSUME IInv, NEW k \in Keys, NEW id \in Ids, AppendEntry(k, id)
    PROVE  \E low : \A r \in Readers :
              LET got == XreadEntries(low[r], Append(stream[k], id))
                  woken == r \in Offered(k) /\ got # <<>>
              IN  /\ r \in Offered(k) /\ min_id[r] # Dollar => low[r] = min_id[r]
                  /\ seen'[r] = (IF woken THEN seen[r] \o got ELSE seen[r])
                  /\ is_blocked'[r] = (is_blocked[r] /\ ~woken)
                  /\ waiting_for_key'[r] = (IF woken THEN NULL ELSE waiting_for_key[r])
                  /\ min_id'[r] = (IF woken THEN NULL ELSE min_id[r])
<1> DEFINE s == Append(stream[k], id)
           got(low, r) == XreadEntries(low[r], s)
           woken(low) == {r \in Offered(k) : got(low, r) # <<>>}
<1>1. PICK low \in LowerBounds(k, s) :
             /\ seen' = [r \in Readers |-> IF r \in woken(low) THEN seen[r] \o got(low, r) ELSE seen[r]]
             /\ is_blocked' = [r \in Readers |-> is_blocked[r] /\ r \notin woken(low)]
             /\ waiting_for_key' = [r \in Readers |->
                    IF r \in woken(low) THEN NULL ELSE waiting_for_key[r]]
             /\ min_id' = [r \in Readers |-> IF r \in woken(low) THEN NULL ELSE min_id[r]]
  BY DEF AppendEntry
<1>2. \A r \in Offered(k) : min_id[r] # Dollar => low[r] = min_id[r]
  BY <1>1 DEF LowerBounds
<1> HIDE DEF got, s
<1>3. ASSUME NEW r \in Readers
      PROVE  LET w == r \in Offered(k) /\ got(low, r) # <<>>
             IN  /\ seen'[r] = (IF w THEN seen[r] \o got(low, r) ELSE seen[r])
                 /\ is_blocked'[r] = (is_blocked[r] /\ ~w)
                 /\ waiting_for_key'[r] = (IF w THEN NULL ELSE waiting_for_key[r])
                 /\ min_id'[r] = (IF w THEN NULL ELSE min_id[r])
  BY <1>1
<1> QED BY <1>2, <1>3 DEF got, s

LEMMA DeliveryTypes ==
    ASSUME IInv, NEW k \in Keys, NEW id \in Ids, AppendEntry(k, id)
    PROVE  /\ seen' \in [Readers -> Seq(Ids)]
           /\ is_blocked' \in [Readers -> BOOLEAN]
           /\ waiting_for_key' \in [Readers -> Keys \cup {NULL}]
           /\ min_id' \in [Readers -> Ids \cup {NULL, Dollar}]
<1>1. Append(stream[k], id) \in Seq(Ids)
  BY AppendProperties DEF IInv, TypeOK
<1>2. PICK low : \A r \in Readers :
              LET got == XreadEntries(low[r], Append(stream[k], id))
                  woken == r \in Offered(k) /\ got # <<>>
              IN  /\ r \in Offered(k) /\ min_id[r] # Dollar => low[r] = min_id[r]
                  /\ seen'[r] = (IF woken THEN seen[r] \o got ELSE seen[r])
                  /\ is_blocked'[r] = (is_blocked[r] /\ ~woken)
                  /\ waiting_for_key'[r] = (IF woken THEN NULL ELSE waiting_for_key[r])
                  /\ min_id'[r] = (IF woken THEN NULL ELSE min_id[r])
  BY Delivery
<1>3. /\ seen' = [r \in Readers |-> seen'[r]]
      /\ is_blocked' = [r \in Readers |-> is_blocked'[r]]
      /\ waiting_for_key' = [r \in Readers |-> waiting_for_key'[r]]
      /\ min_id' = [r \in Readers |-> min_id'[r]]
  BY DEF AppendEntry
<1>4. ASSUME NEW r \in Readers
      PROVE  /\ seen'[r] \in Seq(Ids) /\ is_blocked'[r] \in BOOLEAN
             /\ waiting_for_key'[r] \in Keys \cup {NULL}
             /\ min_id'[r] \in Ids \cup {NULL, Dollar}
  <2> DEFINE got == XreadEntries(low[r], Append(stream[k], id))
  <2>1. seen[r] \in Seq(Ids) /\ got \in Seq(Ids)
    BY <1>1, XreadIds DEF IInv, TypeOK
  <2>2. seen[r] \o got \in Seq(Ids)
    BY <2>1, ConcatProperties
  <2>3. /\ seen'[r] \in {seen[r] \o got, seen[r]}
        /\ is_blocked'[r] \in BOOLEAN
        /\ waiting_for_key'[r] \in {NULL, waiting_for_key[r]}
        /\ min_id'[r] \in {NULL, min_id[r]}
    BY <1>2
  <2>4. waiting_for_key[r] \in Keys \cup {NULL} /\ min_id[r] \in Ids \cup {NULL, Dollar}
    BY DEF IInv, TypeOK
  <2> QED BY <2>1, <2>2, <2>3, <2>4
<1> QED BY <1>3, <1>4

\* A reader of the key: it is released with all that follows its position,
\* or it was not blocked and stays where it is.
LEMMA ReaderAtGrowth ==
    ASSUME IInv, NEW k \in Keys, NEW id \in Ids, AppendEntry(k, id),
           NEW r \in Readers, key[r] = k, from[r] # Unknown,
           InOrder(Append(stream[k], id))
    PROVE  /\ Follows(Append(stream[k], id), from[r], seen'[r])
           /\ ~is_blocked'[r]
<1> DEFINE s == stream[k]
           t == Append(s, id)
           m == from[r] + Len(seen[r])
<1>0. s \in Seq(Ids) /\ seen[r] \in Seq(Ids) /\ Len(s) \in Nat /\ Len(seen[r]) \in Nat
  BY LenProperties DEF IInv, TypeOK
<1>1. t \in Seq(Ids) /\ Len(t) = Len(s) + 1
  BY <1>0, AppendProperties
<1>2. InOrder(s)
  BY <1>0, InOrderAppend
<1>3. from[r] \in Nat /\ Follows(s, from[r], seen[r])
  BY <1>2, Positions
<1>4. Follows(t, from[r], seen[r]) /\ At(t, m) = At(s, m)
  BY <1>0, <1>3, FollowsAppend
<1>5. InOrder(t)
  OBVIOUS
<1>6. PICK low :
              LET got == XreadEntries(low[r], t)
                  woken == r \in Offered(k) /\ got # <<>>
              IN  /\ r \in Offered(k) /\ min_id[r] # Dollar => low[r] = min_id[r]
                  /\ seen'[r] = (IF woken THEN seen[r] \o got ELSE seen[r])
                  /\ is_blocked'[r] = (is_blocked[r] /\ ~woken)
  <2>1. PICK low : \A q \in Readers :
              LET got == XreadEntries(low[q], Append(stream[k], id))
                  woken == q \in Offered(k) /\ got # <<>>
              IN  /\ q \in Offered(k) /\ min_id[q] # Dollar => low[q] = min_id[q]
                  /\ seen'[q] = (IF woken THEN seen[q] \o got ELSE seen[q])
                  /\ is_blocked'[q] = (is_blocked[q] /\ ~woken)
                  /\ waiting_for_key'[q] = (IF woken THEN NULL ELSE waiting_for_key[q])
                  /\ min_id'[q] = (IF woken THEN NULL ELSE min_id[q])
    BY Delivery
  <2> WITNESS low
  <2> QED BY <2>1
<1> HIDE DEF t
<1>7. is_blocked[r] \in BOOLEAN
  BY DEF IInv, TypeOK
<1>8. CASE ~is_blocked[r]
  <2>1. r \notin Offered(k)
    BY <1>8 DEF Offered
  <2> QED BY <1>4, <1>6, <1>7, <1>8, <2>1 DEF t
<1>9. CASE is_blocked[r]
  <2>1. waiting_for_key[r] = k /\ min_id[r] # NULL /\ min_id[r] = At(s, m)
    <3>1. ReaderOK(r)
      BY DEF IInv, ReadersOK
    <3>2. k # NULL
      BY StreamsAssumption
    <3> QED BY <1>2, <1>9, <3>1, <3>2 DEF ReaderOK
  <2>2. r \in Offered(k)
    BY <1>9, <2>1 DEF Offered
  <2>3. min_id[r] \in Ids
    <3>1. m \in 0 .. Len(s)
      BY <1>0, <1>3 DEF Follows
    <3> QED BY <1>0, <2>1, <3>1, AtId
  <2>4. min_id[r] # Dollar
    BY <2>3, StreamsAssumption DEF Ids
  <2> DEFINE new == XreadEntries(At(t, m), t)
  <2>5. /\ Follows(t, from[r], seen[r] \o new)
        /\ Len(new) = Len(t) - m
    BY <1>0, <1>1, <1>3, <1>4, <1>5, FollowsRead
  <2>6. new # <<>>
    <3>1. m <= Len(s) /\ m \in Nat
      BY <1>0, <1>3 DEF Follows
    <3> HIDE DEF m
    <3>2. Len(new) # 0
      BY <1>0, <1>1, <2>5, <3>1
    <3> HIDE DEF new
    <3> QED BY <3>2, EmptySeq
  <2>7. low[r] = At(t, m)
    BY <1>4, <1>6, <2>1, <2>2, <2>4
  <2>8. XreadEntries(low[r], t) = new
    BY <2>7
  <2> HIDE DEF new
  <2>9. seen'[r] = seen[r] \o new /\ ~is_blocked'[r]
    BY <1>6, <1>7, <2>2, <2>6, <2>8
  <2> QED BY <2>5, <2>9 DEF t
<1> QED BY <1>8, <1>9

LEMMA XaddIInv ==
    ASSUME IInv, NEW k \in Keys, XADD(k)
    PROVE  IInv'
<1>1. PICK id \in Ids : Continues(k, id) /\ AppendEntry(k, id)
  BY NewIds
<1> DEFINE t == Append(stream[k], id)
<1>2. /\ stream \in [Keys -> Seq(Ids)] /\ last \in [Keys -> Ids] /\ stream[k] \in Seq(Ids)
      /\ \A q \in Keys : stream[q] # <<>> => last[q] = LastOf(stream[q])
  BY DEF IInv, TypeOK
<1>3. t \in Seq(Ids) /\ LastOf(t) = id
  BY <1>2, AppendProperties DEF LastOf
<1>4. /\ stream' = [stream EXCEPT ![k] = t] /\ last' = [last EXCEPT ![k] = id]
      /\ UNCHANGED <<now, timeout_at, key, from>>
  BY <1>1 DEF AppendEntry
<1>5. TypeOK'
  <2> HIDE DEF t
  <2>1. stream' \in [Keys -> Seq(Ids)] /\ last' \in [Keys -> Ids]
    BY <1>2, <1>3, <1>4
  <2>2. \A q \in Keys : stream'[q] # <<>> => last'[q] = LastOf(stream'[q])
    BY <1>2, <1>3, <1>4
  <2>3. /\ seen' \in [Readers -> Seq(Ids)]
        /\ is_blocked' \in [Readers -> BOOLEAN]
        /\ waiting_for_key' \in [Readers -> Keys \cup {NULL}]
        /\ min_id' \in [Readers -> Ids \cup {NULL, Dollar}]
    BY <1>1, DeliveryTypes
  <2> QED BY <1>4, <2>1, <2>2, <2>3 DEF IInv, TypeOK
<1>6. ASSUME NEW r \in Readers PROVE ReaderOK(r)'
  <2>1. ReaderOK(r)
    BY DEF IInv, ReadersOK
  <2>2. PICK low :
              LET got == XreadEntries(low[r], t)
                  woken == r \in Offered(k) /\ got # <<>>
              IN  /\ seen'[r] = (IF woken THEN seen[r] \o got ELSE seen[r])
                  /\ is_blocked'[r] = (is_blocked[r] /\ ~woken)
                  /\ waiting_for_key'[r] = (IF woken THEN NULL ELSE waiting_for_key[r])
                  /\ min_id'[r] = (IF woken THEN NULL ELSE min_id[r])
    <3>1. PICK low : \A q \in Readers :
              LET got == XreadEntries(low[q], Append(stream[k], id))
                  woken == q \in Offered(k) /\ got # <<>>
              IN  /\ q \in Offered(k) /\ min_id[q] # Dollar => low[q] = min_id[q]
                  /\ seen'[q] = (IF woken THEN seen[q] \o got ELSE seen[q])
                  /\ is_blocked'[q] = (is_blocked[q] /\ ~woken)
                  /\ waiting_for_key'[q] = (IF woken THEN NULL ELSE waiting_for_key[q])
                  /\ min_id'[q] = (IF woken THEN NULL ELSE min_id[q])
      BY <1>1, Delivery
    <3> WITNESS low
    <3> QED BY <3>1
  <2> HIDE DEF t
  <2>3. is_blocked[r] \in BOOLEAN /\ from'[r] = from[r] /\ key'[r] = key[r]
    BY <1>4 DEF IInv, TypeOK
  <2>4. is_blocked'[r] => /\ is_blocked[r] /\ seen'[r] = seen[r] /\ min_id'[r] = min_id[r]
                          /\ waiting_for_key'[r] = waiting_for_key[r]
    BY <2>2, <2>3
  <2>5. r \in Offered(k) => key[r] = k
    BY <2>1 DEF Offered, ReaderOK
  <2>6. key[r] # k => /\ seen'[r] = seen[r] /\ is_blocked'[r] = is_blocked[r]
                      /\ min_id'[r] = min_id[r]
    BY <2>2, <2>3, <2>5
  <2>7. k # NULL
    BY StreamsAssumption
  <2>8. CASE key[r] = k
    <3>1. stream'[key[r]] = t
      BY <1>2, <1>4, <2>8
    <3>2. from[r] # Unknown /\ InOrder(t) =>
             Follows(t, from[r], seen'[r]) /\ ~is_blocked'[r]
      BY <1>1, <2>8, ReaderAtGrowth DEF t
    <3> QED BY <2>1, <2>3, <2>4, <2>7, <2>8, <3>1, <3>2 DEF ReaderOK
  <2>9. CASE key[r] # k
    <3>1. key[r] # NULL => stream'[key[r]] = stream[key[r]]
      BY <1>2, <1>4, <2>9 DEF IInv, TypeOK
    <3> QED BY <2>1, <2>3, <2>4, <2>6, <2>9, <3>1 DEF ReaderOK
  <2> QED BY <2>8, <2>9
<1>7. OnlyPartialIdsGoBack'
  BY <1>1, AppendGoesBack
<1> QED BY <1>5, <1>6, <1>7 DEF IInv, ReadersOK

-----------------------------------------------------------------------------
(* XRANGE.                                                                 *)

LEMMA XrangeAnswer ==
    ASSUME NEW s \in Seq(Ids), NEW lo \in Ids, NEW hi \in Ids
    PROVE  LET got == Picked(s, {n \in 1 .. Len(s) : in_range(lo, hi, s[n])})
               within == Picked(s, {n \in 1 .. Len(s) :
                                       ~Precedes(s[n], lo) /\ ~Precedes(hi, s[n])})
           IN  /\ Range(got) \subseteq Range(within)
               /\ lo[1] = hi[1] => got = within
<1> DEFINE G == {n \in 1 .. Len(s) : in_range(lo, hi, s[n])}
           W == {n \in 1 .. Len(s) : ~Precedes(s[n], lo) /\ ~Precedes(hi, s[n])}
<1>1. \A n \in 1 .. Len(s) : s[n][1] \in Nat /\ s[n][2] \in Nat
  BY ElementOfSeq, IdParts
<1>2. lo[1] \in Nat /\ lo[2] \in Nat /\ hi[1] \in Nat /\ hi[2] \in Nat
  BY IdParts
<1>3. G \subseteq W
  BY <1>1, <1>2 DEF in_range, Precedes
<1>4. ASSUME lo[1] = hi[1] PROVE G = W
  <2>1. \A n \in 1 .. Len(s) :
           in_range(lo, hi, s[n]) <=> ~Precedes(s[n], lo) /\ ~Precedes(hi, s[n])
    BY <1>1, <1>2, <1>4 DEF in_range, Precedes
  <2> QED BY <2>1
<1>5. Range(Picked(s, G)) = {s[n] : n \in G} /\ Range(Picked(s, W)) = {s[n] : n \in W}
  <2>1. ASSUME NEW I \in SUBSET (1 .. Len(s)) PROVE Range(Picked(s, I)) = {s[n] : n \in I}
    BY PickedRange
  <2> QED BY <2>1
<1>6. Range(Picked(s, G)) \subseteq Range(Picked(s, W))
  <2> HIDE DEF G, W
  <2> QED BY <1>3, <1>5
<1> QED BY <1>4, <1>6

LEMMA XrangeOK == TypeOK => XrangeSound
<1> SUFFICES ASSUME TypeOK, NEW k \in Keys, stream[k] # <<>>,
                    NEW start \in Bounds \cup {Minus}, NEW end \in Bounds \cup {Plus}
             PROVE  LET s == stream[k]
                        lo == IF start = Minus THEN s[1] ELSE start
                        hi == IF end = Plus THEN LastOf(s) ELSE end
                        within == Picked(s, {n \in 1 .. Len(s) :
                                                ~Precedes(s[n], lo) /\ ~Precedes(hi, s[n])})
                        got == XRANGE(start, end, s)
                    IN  /\ Range(got) \subseteq Range(within)
                        /\ lo[1] = hi[1] => got = within
  BY DEF XrangeSound
<1> DEFINE s == stream[k]
           lo == IF start = Minus THEN s[1] ELSE start
           hi == IF end = Plus THEN LastOf(s) ELSE end
<1>1. s \in Seq(Ids)
  BY DEF TypeOK
<1>2. 1 \in 1 .. Len(s) /\ Len(s) \in 1 .. Len(s)
  BY <1>1, EmptySeq
<1>3. s[1] \in Ids /\ LastOf(s) \in Ids
  BY <1>1, <1>2, ElementOfSeq DEF LastOf
<1>4. Bounds \subseteq Ids
  <2>1. PartialMs \X {0, 1} \subseteq Ids
    <3>1. PartialMs \subseteq Nat /\ {0, 1} \subseteq Nat
      BY StreamsAssumption
    <3> QED BY <3>1 DEF Ids
  <2>2. ExplicitIds \subseteq Ids
    BY StreamsAssumption DEF Ids
  <2> QED BY <2>1, <2>2 DEF Bounds
<1>5. lo \in Ids /\ hi \in Ids
  BY <1>3, <1>4
<1>6. XRANGE(start, end, s) = Picked(s, {n \in 1 .. Len(s) : in_range(lo, hi, s[n])})
  BY DEF XRANGE
<1> HIDE DEF lo, hi, s
<1>7. LET got == Picked(s, {n \in 1 .. Len(s) : in_range(lo, hi, s[n])})
          within == Picked(s, {n \in 1 .. Len(s) : ~Precedes(s[n], lo) /\ ~Precedes(hi, s[n])})
      IN  Range(got) \subseteq Range(within) /\ (lo[1] = hi[1] => got = within)
  BY <1>1, <1>5, XrangeAnswer
<1> QED BY <1>6, <1>7 DEF lo, hi, s

-----------------------------------------------------------------------------
(* The theorems.                                                           *)

LEMMA NextIInv == IInv /\ [Next]_vars => IInv'
<1> SUFFICES ASSUME IInv, [Next]_vars PROVE IInv'
  OBVIOUS
<1>1. CASE Tick
  BY <1>1, TickIInv
<1>2. CASE Sweep
  BY <1>2, SweepIInv
<1>3. CASE \E k \in Keys : XADD(k)
  BY <1>3, XaddIInv
<1>4. CASE \E r \in Readers, k \in Keys : XREAD(r, k)
  BY <1>4, XreadIInv
<1>5. CASE \E r \in Readers, k \in Keys, t \in Timeouts : XREAD_BLOCK(r, k, t)
  BY <1>5, XreadBlockIInv
<1>6. CASE \E r \in Readers, k \in Keys, t \in Timeouts : XREAD_DOLLAR(r, k, t)
  BY <1>6, XreadDollarIInv
<1>7. CASE UNCHANGED vars
  <2>1. TypeOK'
    BY <1>7 DEF IInv, TypeOK, vars
  <2>2. ReadersOK'
    BY <1>7 DEF IInv, ReadersOK, ReaderOK, vars
  <2> QED BY <1>7, <2>1, <2>2, SameStreams DEF IInv, vars
<1> QED BY <1>1, <1>2, <1>3, <1>4, <1>5, <1>6, <1>7 DEF Next

(* The inductive invariant holds in every behaviour: besides the types, a  *)
(* blocked reader waits at its key with the ID of its own position.        *)
THEOREM Invariance == Spec => []IInv
<1>1. Init => IInv
  BY InitIInv
<1>2. IInv /\ [Next]_vars => IInv'
  BY NextIInv
<1> QED BY <1>1, <1>2, PTL DEF Spec

(* Types, and last_ms and last_seq always those of the stream's last entry,*)
(* whatever XADDs handle_set_stream accepts.                               *)
THEOREM TypeCorrect == Spec => []TypeOK
<1>1. IInv => TypeOK
  BY DEF IInv
<1> QED BY <1>1, Invariance, PTL

(* Only an "ms-*", whose ID validate_stream_id lets pass unseen, ever puts *)
(* an entry behind one with a larger ID.                                   *)
THEOREM OrderOfIds == Spec => []OnlyPartialIdsGoBack
<1>1. IInv => OnlyPartialIdsGoBack
  BY DEF IInv
<1> QED BY <1>1, Invariance, PTL

(* XREAD, XREAD BLOCK, the delivery by XADD and the time-outs together     *)
(* hand a reader every entry after its starting point, once and in order,  *)
(* as long as its stream is in order.                                      *)
THEOREM NothingMissed == Spec => []ReaderMissesNothing
<1>1. IInv => ReaderMissesNothing
  BY DEF IInv, ReadersOK, ReaderOK, Follows, ReaderMissesNothing
<1> QED BY <1>1, Invariance, PTL

(* What XRANGE answers lies in the range, and is all of it when both       *)
(* bounds have the same ms, for every stream that XADD can build.          *)
THEOREM RangesAnswered == Spec => []XrangeSound
  BY TypeCorrect, XrangeOK, PTL
=============================================================================
