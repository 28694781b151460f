----------------------------- MODULE DataLemmas -----------------------------
(***************************************************************************)
(* Facts about numbers and sequences that the proofs about the components  *)
(* share.  Induction is stated for a set instead of a predicate, so that   *)
(* it can be cited like any other fact.                                    *)
(***************************************************************************)
EXTENDS Integers, Sequences, SequenceTheorems, WellFoundedInduction, TLAPS

(* A set of natural numbers that is not empty has a least element.         *)
LEMMA LeastNumber ==
    ASSUME NEW T, T \subseteq Nat, T # {}
    PROVE  \E x \in T : \A y \in T : x <= y
<1>1. IsWellFoundedOn(OpToRel(<, Nat), Nat)
  BY NatLessThanWellFounded
<1>2. PICK x \in T : \A y \in T : ~(<<y, x>> \in OpToRel(<, Nat))
  BY <1>1, WFMin
<1>3. \A y \in T : y < x => <<y, x>> \in OpToRel(<, Nat)
  BY DEF OpToRel
<1>4. \A y \in T : ~(y < x)
  BY <1>2, <1>3
<1> QED BY <1>4

(* A set with 0 and the successor of each of its numbers has all numbers.  *)
LEMMA NumberInduction ==
    ASSUME NEW T, 0 \in T, \A n \in Nat : n \in T => n + 1 \in T
    PROVE  Nat \subseteq T
<1> DEFINE Missing == {n \in Nat : n \notin T}
<1> SUFFICES ASSUME Missing # {} PROVE FALSE
  OBVIOUS
<1>1. PICK x \in Missing : \A y \in Missing : x <= y
  BY LeastNumber
<1>2. x # 0 /\ x - 1 \in Nat
  BY <1>1
<1>3. x - 1 \in T
  BY <1>1, <1>2
<1> QED BY <1>1, <1>2, <1>3

(* A function on 1 .. n is a sequence of length n.                         *)
LEMMA FunctionIsSeq ==
    ASSUME NEW T, NEW n \in Nat, NEW f \in [1 .. n -> T]
    PROVE  f \in Seq(T) /\ Len(f) = n /\ DOMAIN f = 1 .. n
  BY SeqDef, LenProperties

\* No value is at two positions of l.
Distinct(l) == \A m, n \in 1 .. Len(l) : l[m] = l[n] => m = n

(* Cutting n elements off the front of a sequence takes exactly these out  *)
(* of its values.                                                          *)
LEMMA DropFront ==
    ASSUME NEW S, NEW l \in Seq(S), Distinct(l), NEW n \in 0 .. Len(l)
    PROVE  LET r == SubSeq(l, n + 1, Len(l))
           IN  /\ r \in Seq(S) /\ Len(r) = Len(l) - n
               /\ Distinct(r)
               /\ Range(r) = Range(l) \ {l[j] : j \in 1 .. n}
<1> DEFINE r == SubSeq(l, n + 1, Len(l))
<1>0. Len(l) \in Nat /\ n \in Nat /\ n <= Len(l)
  BY LenProperties
<1>1. /\ Len(l) \in Nat /\ n \in Nat /\ n <= Len(l)
      /\ DOMAIN l = 1 .. Len(l)
      /\ \A j \in 1 .. Len(l) : l[j] \in S
  BY LenProperties, ElementOfSeq
<1>2. /\ r \in Seq(S) /\ Len(r) = Len(l) - n
      /\ \A i \in 1 .. Len(l) - n : r[i] = l[n + i]
  <2>1. \A i \in n + 1 .. Len(l) : l[i] \in S
    BY <1>1
  <2>2. /\ r \in Seq(S)
        /\ Len(r) = IF n + 1 <= Len(l) THEN Len(l) - (n + 1) + 1 ELSE 0
        /\ \A i \in 1 .. Len(l) - (n + 1) + 1 : r[i] = l[(n + 1) + i - 1]
    BY <1>1, <2>1, SubSeqProperties
  <2> HIDE DEF r
  <2>3. ASSUME NEW i \in 1 .. Len(l) - n PROVE r[i] = l[n + i]
    <3>1. i \in 1 .. Len(l) - (n + 1) + 1 /\ (n + 1) + i - 1 = n + i
      BY <1>1
    <3> QED BY <2>2, <3>1
  <2>4. Len(r) = Len(l) - n
    <3>1. CASE n + 1 <= Len(l)
      BY <3>1, <1>1, <2>2
    <3>2. CASE ~(n + 1 <= Len(l))
      <4>1. Len(r) = 0
        BY <3>2, <2>2
      <4>2. n = Len(l)
        BY <3>2, <1>0
      <4> QED BY <4>1, <4>2, <1>0
    <3> QED BY <3>1, <3>2
  <2> QED BY <2>2, <2>3, <2>4
<1> HIDE DEF r
<1>3. DOMAIN r = 1 .. Len(l) - n
  BY <1>2, LenProperties
<1>4. Distinct(r)
  BY <1>1, <1>2 DEF Distinct
<1>5. \A v : v \in Range(r) <=> \E i \in n + 1 .. Len(l) : v = l[i]
  <2>1. ASSUME NEW v, v \in Range(r) PROVE \E i \in n + 1 .. Len(l) : v = l[i]
    <3>1. PICK i \in 1 .. Len(l) - n : v = r[i]
      BY <2>1, <1>3 DEF Range
    <3>2. n + i \in n + 1 .. Len(l) /\ v = l[n + i]
      BY <3>1, <1>1, <1>2
    <3> QED BY <3>2
  <2>2. ASSUME NEW v, NEW i \in n + 1 .. Len(l), v = l[i] PROVE v \in Range(r)
    <3>1. i - n \in 1 .. Len(l) - n /\ r[i - n] = l[n + (i - n)] /\ n + (i - n) = i
      BY <1>1, <1>2
    <3> QED BY <2>2, <3>1, <1>3 DEF Range
  <2> QED BY <2>1, <2>2
<1>6. \A v : v \in Range(l) <=> \E i \in 1 .. Len(l) : v = l[i]
  BY <1>1 DEF Range
<1>7. \A v : (\E i \in n + 1 .. Len(l) : v = l[i])
                <=> (\E i \in 1 .. Len(l) : v = l[i]) /\ ~(\E j \in 1 .. n : v = l[j])
  BY <1>1 DEF Distinct
<1>8. Range(r) = Range(l) \ {l[j] : j \in 1 .. n}
  <2>1. \A v : v \in Range(r) <=> v \in Range(l) \ {l[j] : j \in 1 .. n}
    <3> SUFFICES ASSUME NEW v
                 PROVE  v \in Range(r) <=> v \in Range(l) /\ v \notin {l[j] : j \in 1 .. n}
      OBVIOUS
    <3>1. v \in {l[j] : j \in 1 .. n} <=> \E j \in 1 .. n : v = l[j]
      OBVIOUS
    <3> QED BY <1>5, <1>6, <1>7, <3>1
  <2> QED BY <2>1
<1> QED BY <1>2, <1>4, <1>8 DEF r

(* Cutting off the head takes exactly the head out of the values.          *)
LEMMA DropHead ==
    ASSUME NEW S, NEW l \in Seq(S), Distinct(l), l # <<>>
    PROVE  /\ Tail(l) \in Seq(S) /\ Len(Tail(l)) = Len(l) - 1
           /\ Distinct(Tail(l))
           /\ Range(Tail(l)) = Range(l) \ {Head(l)}
           /\ Head(l) \in Range(l)
<1>1. Len(l) \in Nat /\ Len(l) # 0 /\ DOMAIN l = 1 .. Len(l)
  BY LenProperties, EmptySeq
<1>2. 1 \in 0 .. Len(l) /\ 1 \in 1 .. Len(l)
  BY <1>1
<1>3. /\ SubSeq(l, 1 + 1, Len(l)) \in Seq(S) /\ Len(SubSeq(l, 1 + 1, Len(l))) = Len(l) - 1
      /\ Distinct(SubSeq(l, 1 + 1, Len(l)))
      /\ Range(SubSeq(l, 1 + 1, Len(l))) = Range(l) \ {l[j] : j \in 1 .. 1}
  <2>1. ASSUME NEW n \in 0 .. Len(l)
        PROVE  /\ SubSeq(l, n + 1, Len(l)) \in Seq(S) /\ Len(SubSeq(l, n + 1, Len(l))) = Len(l) - n
               /\ Distinct(SubSeq(l, n + 1, Len(l)))
               /\ Range(SubSeq(l, n + 1, Len(l))) = Range(l) \ {l[j] : j \in 1 .. n}
    BY <2>1, DropFront
  <2> QED BY <1>2, <2>1, Zenon
<1>4. Head(l) = l[1]
  OBVIOUS
<1>5. Tail(l) = SubSeq(l, 1 + 1, Len(l))
  <2>1. Tail(l) = SubSeq(l, 2, Len(l))
    BY TailIsSubSeq
  <2> QED BY <2>1
<1>6. {l[j] : j \in 1 .. 1} = {l[1]}
  OBVIOUS
<1>7. l[1] \in Range(l)
  BY <1>1, <1>2 DEF Range
<1> QED BY <1>3, <1>4, <1>5, <1>6, <1>7, Zenon

(* Two sequences without repetitions and without a value in common.        *)
LEMMA ConcatDistinct ==
    ASSUME NEW S, NEW s \in Seq(S), NEW t \in Seq(S), Distinct(s), Distinct(t),
           \A v \in Range(s) : v \notin Range(t)
    PROVE  /\ s \o t \in Seq(S) /\ Len(s \o t) = Len(s) + Len(t)
           /\ Distinct(s \o t)
           /\ Range(s \o t) = Range(s) \cup Range(t)
<1> DEFINE l == s \o t
           N == Len(s)
<1>1. N \in Nat /\ Len(t) \in Nat
  BY LenProperties
<1>2. /\ l \in Seq(S) /\ Len(l) = N + Len(t)
      /\ \A i \in 1 .. N + Len(t) : l[i] = IF i <= N THEN s[i] ELSE t[i - N]
  BY ConcatProperties
<1>3. /\ \A i \in 1 .. N : s[i] \in Range(s)
      /\ \A i \in 1 .. Len(t) : t[i] \in Range(t)
  BY LenProperties DEF Range
<1> HIDE DEF l
<1>4. ASSUME NEW a \in 1 .. N + Len(t), NEW b \in 1 .. N + Len(t), l[a] = l[b]
      PROVE  a = b
  <2>1. \A i \in 1 .. N + Len(t) : i <= N => i \in 1 .. N /\ l[i] = s[i]
    BY <1>1, <1>2
  <2>2. \A i \in 1 .. N + Len(t) : ~(i <= N) => i - N \in 1 .. Len(t) /\ l[i] = t[i - N]
    BY <1>1, <1>2
  <2>3. CASE a <= N /\ b <= N
    BY <1>4, <2>1, <2>3 DEF Distinct
  <2>4. CASE a <= N /\ ~(b <= N)
    BY <1>3, <1>4, <2>1, <2>2, <2>4
  <2>5. CASE ~(a <= N) /\ b <= N
    BY <1>3, <1>4, <2>1, <2>2, <2>5
  <2>6. CASE ~(a <= N) /\ ~(b <= N)
    <3>1. a - N = b - N
      BY <1>4, <2>2, <2>6 DEF Distinct
    <3> QED BY <3>1, <1>1
  <2> QED BY <2>3, <2>4, <2>5, <2>6
<1>5. Distinct(l)
  BY <1>2, <1>4 DEF Distinct
<1>6. Range(s \o t) = Range(s) \cup Range(t)
  BY RangeConcatenation
<1> QED BY <1>2, <1>5, <1>6 DEF l

(* A slice of a sequence, element by element.                              *)
LEMMA SliceIsSubSeq ==
    ASSUME NEW S, NEW l \in Seq(S), NEW a \in Nat, NEW b \in Nat, a <= b, b <= Len(l)
    PROVE  [i \in 1 .. b - a |-> l[a + i]] = SubSeq(l, a + 1, b)
<1> DEFINE r == SubSeq(l, a + 1, b)
           f == [i \in 1 .. b - a |-> l[a + i]]
<1>0. Len(l) \in Nat /\ DOMAIN l = 1 .. Len(l)
  BY LenProperties
<1>1. \A i \in 1 .. Len(l) : l[i] \in S
  BY <1>0, ElementOfSeq
<1>2. \A i \in a + 1 .. b : i \in 1 .. Len(l)
  BY <1>0
<1>3. \A i \in a + 1 .. b : l[i] \in S
  BY <1>1, <1>2
<1>4. /\ r \in Seq(S)
      /\ Len(r) = IF a + 1 <= b THEN b - (a + 1) + 1 ELSE 0
      /\ \A i \in 1 .. b - (a + 1) + 1 : r[i] = l[(a + 1) + i - 1]
  BY <1>3, SubSeqProperties
<1> HIDE DEF r
<1>5. Len(r) = b - a
  <2>1. (IF a + 1 <= b THEN b - (a + 1) + 1 ELSE 0) = b - a
    OBVIOUS
  <2> QED BY <1>4, <2>1
<1>6. \A i \in 1 .. b - a : r[i] = l[a + i]
  <2> SUFFICES ASSUME NEW i \in 1 .. b - a PROVE r[i] = l[a + i]
    OBVIOUS
  <2>1. i \in 1 .. b - (a + 1) + 1 /\ (a + 1) + i - 1 = a + i
    OBVIOUS
  <2> QED BY <1>4, <2>1
<1>7. DOMAIN r = 1 .. b - a
  BY <1>4, <1>5, LenProperties
<1>8. r = [i \in 1 .. b - a |-> r[i]]
  BY <1>4, <1>7
<1>9. [i \in 1 .. b - a |-> r[i]] = f
  BY <1>6
<1> QED BY <1>8, <1>9 DEF r

(* A slice whose end is before its start.                                  *)
LEMMA SliceEmpty ==
    ASSUME NEW l, NEW a \in Int, NEW b \in Int, b < a
    PROVE  SubSeq(l, a, b) = <<>>
<1>1. \A i \in a .. b : l[i] \in {}
  OBVIOUS
<1>2. ~(a <= b)
  OBVIOUS
<1>3. SubSeq(l, a, b) \in Seq({}) /\ Len(SubSeq(l, a, b)) = 0
  BY <1>1, <1>2, SubSeqProperties
<1> QED BY <1>3, EmptySeq

(* Sequences with the same domain have the same length.                    *)
LEMMA SameInterval == ASSUME NEW m \in Nat, NEW n \in Nat, 1 .. m = 1 .. n PROVE m = n
<1>1. m <= n
  <2>1. CASE m = 0
    BY <2>1
  <2>2. CASE m # 0
    <3>1. m \in 1 .. m
      BY <2>2
    <3>2. m \in 1 .. n
      BY <3>1
    <3> QED BY <3>2
  <2> QED BY <2>1, <2>2
<1>2. n <= m
  <2>1. CASE n = 0
    BY <2>1
  <2>2. CASE n # 0
    <3>1. n \in 1 .. n
      BY <2>2
    <3>2. n \in 1 .. m
      BY <3>1
    <3> QED BY <3>2
  <2> QED BY <2>1, <2>2
<1> QED BY <1>1, <1>2

(* A slice of a sequence, its length and its elements.                     *)
LEMMA SliceElements ==
    ASSUME NEW S, NEW l \in Seq(S), NEW a \in Nat, NEW b \in Nat, a <= b, b <= Len(l)
    PROVE  /\ SubSeq(l, a + 1, b) \in Seq(S) /\ Len(SubSeq(l, a + 1, b)) = b - a
           /\ \A i \in 1 .. b - a : SubSeq(l, a + 1, b)[i] = l[a + i]
<1> DEFINE f == [i \in 1 .. b - a |-> l[a + i]]
<1>0. Len(l) \in Nat /\ \A i \in 1 .. Len(l) : l[i] \in S
  BY LenProperties, ElementOfSeq
<1>1. f \in [1 .. b - a -> S]
  <2>1. \A i \in 1 .. b - a : a + i \in 1 .. Len(l)
    BY <1>0
  <2> QED BY <1>0, <2>1
<1>2. f = SubSeq(l, a + 1, b)
  BY SliceIsSubSeq
<1>3. b - a \in Nat
  OBVIOUS
<1>4. \A i \in 1 .. b - a : f[i] = l[a + i]
  OBVIOUS
<1> HIDE DEF f
<1>5. f \in Seq(S) /\ Len(f) = b - a
  BY <1>1, <1>3, FunctionIsSeq
<1> QED BY <1>2, <1>4, <1>5

(* Values of two sequences one behind the other.                           *)
LEMMA ConcatElements ==
    ASSUME NEW S, NEW s \in Seq(S), NEW t \in Seq(S)
    PROVE  /\ s \o t \in Seq(S) /\ Len(s \o t) = Len(s) + Len(t)
           /\ Len(s) \in Nat /\ Len(t) \in Nat
           /\ \A i \in 1 .. Len(s) : (s \o t)[i] = s[i]
           /\ \A i \in 1 .. Len(t) : (s \o t)[Len(s) + i] = t[i]
<1>1. Len(s) \in Nat /\ Len(t) \in Nat
  BY LenProperties
<1>2. /\ s \o t \in Seq(S) /\ Len(s \o t) = Len(s) + Len(t)
      /\ \A i \in 1 .. Len(s) + Len(t) : (s \o t)[i] = IF i <= Len(s) THEN s[i] ELSE t[i - Len(s)]
  BY ConcatProperties
<1>3. ASSUME NEW i \in 1 .. Len(s) PROVE (s \o t)[i] = s[i]
  <2>1. i \in 1 .. Len(s) + Len(t) /\ i <= Len(s)
    BY <1>1
  <2> QED BY <1>2, <2>1
<1>4. ASSUME NEW i \in 1 .. Len(t) PROVE (s \o t)[Len(s) + i] = t[i]
  <2>1. /\ Len(s) + i \in 1 .. Len(s) + Len(t) /\ ~(Len(s) + i <= Len(s))
        /\ (Len(s) + i) - Len(s) = i
    BY <1>1
  <2> QED BY <1>2, <2>1
<1> QED BY <1>1, <1>2, <1>3, <1>4

(* The values of a sequence, by position.                                  *)
LEMMA InRange ==
    ASSUME NEW S, NEW l \in Seq(S)
    PROVE  \A v : v \in Range(l) <=> \E i \in 1 .. Len(l) : l[i] = v
<1>1. DOMAIN l = 1 .. Len(l)
  BY LenProperties
<1> QED BY <1>1 DEF Range

(* A list whose values are in T is a list over T.                          *)
LEMMA ValuesMakeSeq ==
    ASSUME NEW S, NEW T, NEW l \in Seq(S), \A v \in Range(l) : v \in T
    PROVE  l \in Seq(T)
<1> DEFINE n == Len(l)
<1>1. n \in Nat /\ l \in [1 .. n -> S]
  BY LenProperties
<1>2. \A i \in 1 .. n : l[i] \in T
  BY InRange
<1> HIDE DEF n
<1>3. l \in [1 .. n -> T]
  BY <1>1, <1>2
<1>4. n \in Nat
  BY <1>1
<1>5. l \in Seq(T)
  BY <1>3, <1>4, FunctionIsSeq
<1> QED BY <1>5
=============================================================================
