------------------------- MODULE CollectionsProofs -------------------------
(***************************************************************************)
(* Proofs about Lists, for every set of clients, keys and time-outs, and   *)
(* about SortedSets, for every set of members and scores, and every bound. *)
(***************************************************************************)
EXTENDS Lists, SortedSets, DataLemmas, FiniteSetTheorems

\* TypeOK, the part about the values.
ListsOK ==
    /\ pushed \in Nat
    /\ lists \in [Keys -> Seq(Values)]
    /\ taken \subseteq Values

\* TypeOK, the part about the clients.
ClientsOK ==
    /\ now \in Nat
    /\ is_blocked \in [Clients -> BOOLEAN]
    /\ is_blpop \in [Clients -> BOOLEAN]
    /\ timeout_at \in [Clients -> Nat]
    /\ blocked_at \in [Clients -> 0 .. now]
    /\ waiting_for_key \in [Clients -> Keys \cup {NULL}]
    /\ turn \in Clients \cup {NoClient}
    /\ passed \subseteq Clients
    /\ \A c \in Clients :
          /\ is_blpop[c] <=> is_blocked[c]
          /\ is_blpop[c] <=> waiting_for_key[c] # NULL

(* The type invariant is that of the lists and that of the clients.        *)
LEMMA TypeOKParts == TypeOK <=> ListsOK /\ ClientsOK /\ front \subseteq Values
  BY DEF TypeOK, ListsOK, ClientsOK

\* InPushOrder, of a list l and the set F of the LPUSHed values.
Ordered(l, F) ==
    \A m, n \in 1 .. Len(l) :
        m < n => IF l[n] \in F THEN l[m] \in F /\ l[n] < l[m]
                 ELSE l[m] \in F \/ l[m] < l[n]

OrderInv == front \subseteq Values /\ \A k \in Keys : Ordered(lists[k], front)

(* Conservation is that of the values and that of their order.             *)
LEMMA ConservationParts ==
    OrderInv /\ EachAtOnePlace => Conservation /\ front \subseteq Values
  BY DEF OrderInv, Ordered, InPushOrder, Conservation

IInv == ListsOK /\ ClientsOK /\ EachAtOnePlace /\ OrderInv /\ WaitsAtValuesForAReason

-----------------------------------------------------------------------------
(* The values: one list is replaced, and what leaves it is taken.          *)

(* Replacing the list at k by l keeps every value in one place: l repeats  *)
(* none, holds only values of the old list and new ones, and those it      *)
(* lacks are taken.                                                        *)
LEMMA ReplaceList ==
    ASSUME ListsOK, EachAtOnePlace,
           NEW k \in Keys, NEW p \in Nat, pushed <= p,
           NEW l \in Seq(1 .. p), Distinct(l),
           \A v \in Range(l) : v \in Range(lists[k]) \/ v > pushed,
           pushed' = p,
           lists' = [lists EXCEPT ![k] = l],
           \A v : v \in taken' <=>
               \/ v \in taken
               \/ /\ v \in 1 .. p /\ v \notin Range(l)
                  /\ v \in Range(lists[k]) \/ v > pushed
    PROVE  ListsOK' /\ EachAtOnePlace'
<1>1. /\ \A j \in Keys : lists[j] \in Seq(1 .. pushed)
      /\ lists'[k] = l
      /\ \A j \in Keys : j # k => lists'[j] = lists[j]
      /\ DOMAIN lists' = Keys
  BY DEF ListsOK, Values
<1>2. \A j \in Keys : lists'[j] \in Seq(1 .. p)
  <2>1. 1 .. pushed \subseteq 1 .. p
    BY DEF ListsOK
  <2> QED BY <1>1, <2>1, SeqMonotonic
<1>3. ListsOK'
  <2>1. lists' = [j \in Keys |-> lists'[j]]
    BY DEF ListsOK
  <2>2. lists' \in [Keys -> Seq(1 .. p)]
    BY <1>2, <2>1
  <2>3. ASSUME NEW v \in taken' PROVE v \in 1 .. p
    <3>1. v \in taken => v \in 1 .. pushed
      BY DEF ListsOK, Values
    <3>2. v \in 1 .. pushed => v \in 1 .. p
      BY DEF ListsOK
    <3> QED BY <3>1, <3>2
  <2> QED BY <2>2, <2>3 DEF ListsOK, Values
<1>4. \A j \in Keys : \A v : v \in Range(lists[j]) <=> \E n \in 1 .. Len(lists[j]) : v = lists[j][n]
  BY <1>1, LenProperties DEF Range
<1>5. \A v : v \in Range(l) <=> \E n \in 1 .. Len(l) : v = l[n]
  BY LenProperties DEF Range
<1>6. ASSUME NEW j \in Keys, j # k, NEW v, v \in Range(lists[j])
      PROVE  v \notin Range(l) /\ v \in 1 .. pushed /\ v \notin Range(lists[k])
  <2>1. v \in 1 .. pushed
    BY <1>1, <1>6, RangeOfSeq
  <2>2. v \notin Range(lists[k])
    <3> SUFFICES ASSUME v \in Range(lists[k]) PROVE FALSE
      OBVIOUS
    <3>1. PICK m \in 1 .. Len(lists[j]) : v = lists[j][m]
      BY <1>4, <1>6
    <3>2. PICK n \in 1 .. Len(lists[k]) : v = lists[k][n]
      BY <1>4
    <3> QED BY <1>6, <3>1, <3>2 DEF EachAtOnePlace
  <2> QED BY <2>1, <2>2 DEF ListsOK
<1>7. ASSUME NEW k1 \in Keys, NEW k2 \in Keys,
             NEW m \in 1 .. Len(lists'[k1]), NEW n \in 1 .. Len(lists'[k2]),
             lists'[k1][m] = lists'[k2][n]
      PROVE  k1 = k2 /\ m = n
  <2>1. CASE k1 = k /\ k2 = k
    BY <1>1, <1>7, <2>1 DEF Distinct
  <2>2. CASE k1 = k /\ k2 # k
    <3>1. l[m] \in Range(l) /\ lists[k2][n] \in Range(lists[k2])
      BY <1>1, <1>4, <1>5, <2>2, Zenon
    <3> QED BY <1>1, <1>6, <1>7, <2>2, <3>1, Zenon
  <2>3. CASE k1 # k /\ k2 = k
    <3>1. lists[k1][m] \in Range(lists[k1]) /\ l[n] \in Range(l)
      BY <1>1, <1>4, <1>5, <2>3, Zenon
    <3> QED BY <1>1, <1>6, <1>7, <2>3, <3>1, Zenon
  <2>4. CASE k1 # k /\ k2 # k
    BY <1>1, <1>7, <2>4 DEF EachAtOnePlace
  <2> QED BY <2>1, <2>2, <2>3, <2>4
<1>8. ASSUME NEW v \in 1 .. p
      PROVE  v \in taken' <=> \A j \in Keys : v \notin Range(lists'[j])
  <2>1. CASE v \in Range(l)
    <3>1. v \notin taken
      <4>1. CASE v \in Range(lists[k])
        <5>1. v \in Values
          BY <1>1, <4>1, RangeOfSeq DEF Values
        <5> QED BY <4>1, <5>1 DEF EachAtOnePlace
      <4>2. CASE v > pushed
        BY <4>2 DEF ListsOK, Values
      <4> QED BY <2>1, <4>1, <4>2
    <3> QED BY <1>1, <2>1, <3>1
  <2>2. CASE v \notin Range(l)
    <3>1. CASE v > pushed
      <4>1. v \in taken'
        BY <2>2, <3>1
      <4>2. \A j \in Keys : j # k => v \notin Range(lists[j])
        BY <3>1, <1>6 DEF ListsOK
      <4> QED BY <1>1, <2>2, <4>1, <4>2
    <3>2. CASE ~(v > pushed)
      <4>1. v \in Values
        BY <3>2 DEF Values, ListsOK
      <4>2. v \in taken <=> \A j \in Keys : v \notin Range(lists[j])
        BY <4>1 DEF EachAtOnePlace
      <4>3. v \in taken' <=> v \in taken \/ v \in Range(lists[k])
        BY <2>2, <3>2
      <4>4. v \in Range(lists[k]) => \A j \in Keys : j # k => v \notin Range(lists[j])
        BY <1>6
      <4> QED BY <1>1, <2>2, <4>2, <4>3, <4>4
    <3> QED BY <3>1, <3>2
  <2> QED BY <2>1, <2>2
<1>9. EachAtOnePlace'
  BY <1>7, <1>8 DEF EachAtOnePlace, Values
<1> QED BY <1>3, <1>9

\* The values of a push of n, in either order.
Fresh(f, n) ==
    /\ f \in [1 .. n -> pushed + 1 .. pushed + n]
    /\ \/ \A j \in 1 .. n : f[j] = pushed + j
       \/ \A j \in 1 .. n : f[j] = pushed + n + 1 - j

\* f appended or prepended to s.
Joined(l, s, f) == l = s \o f \/ l = f \o s

(* n new values, in either order.                                          *)
LEMMA NewValues ==
    ASSUME pushed \in Nat, NEW n \in Nat,
           NEW f, Fresh(f, n)
    PROVE  /\ f \in Seq(1 .. pushed + n) /\ Len(f) = n
           /\ Distinct(f)
           /\ Range(f) = pushed + 1 .. pushed + n
<1> USE DEF Fresh
<1>1. f \in Seq(1 .. pushed + n) /\ Len(f) = n /\ DOMAIN f = 1 .. n
  <2>1. f \in [1 .. n -> 1 .. pushed + n]
    OBVIOUS
  <2> QED BY <2>1, FunctionIsSeq
<1>2. Distinct(f)
  BY <1>1 DEF Distinct
<1>3. ASSUME NEW v \in pushed + 1 .. pushed + n PROVE \E j \in 1 .. n : f[j] = v
  <2>1. CASE \A j \in 1 .. n : f[j] = pushed + j
    <3>1. v - pushed \in 1 .. n /\ pushed + (v - pushed) = v
      OBVIOUS
    <3> QED BY <2>1, <3>1
  <2>2. CASE \A j \in 1 .. n : f[j] = pushed + n + 1 - j
    <3>1. pushed + n + 1 - v \in 1 .. n /\ pushed + n + 1 - (pushed + n + 1 - v) = v
      OBVIOUS
    <3> QED BY <2>2, <3>1
  <2> QED BY <2>1, <2>2
<1>4. Range(f) = pushed + 1 .. pushed + n
  BY <1>1, <1>3 DEF Range
<1> QED BY <1>1, <1>2, <1>4

(* The list at k with n new values at either end.                          *)
LEMMA Pushed ==
    ASSUME ListsOK, EachAtOnePlace, NEW k \in Keys, NEW n \in Nat,
           NEW f, Fresh(f, n),
           NEW l, Joined(l, lists[k], f)
    PROVE  /\ l \in Seq(1 .. pushed + n) /\ Len(l) = Len(lists[k]) + n
           /\ Distinct(l)
           /\ Range(l) = Range(lists[k]) \cup (pushed + 1 .. pushed + n)
<1> DEFINE V == 1 .. pushed + n
           s == lists[k]
<1>1. s \in Seq(1 .. pushed) /\ pushed \in Nat
  BY DEF ListsOK, Values
<1>2. s \in Seq(V)
  <2>1. 1 .. pushed \subseteq V
    BY <1>1
  <2> QED BY <1>1, <2>1, SeqMonotonic
<1>3. Distinct(s)
  BY DEF EachAtOnePlace, Distinct
<1>4. f \in Seq(V) /\ Len(f) = n /\ Distinct(f) /\ Range(f) = pushed + 1 .. pushed + n
  BY <1>1, NewValues
<1>5. \A v \in Range(s) : v \notin pushed + 1 .. pushed + n
  <2>1. Range(s) \subseteq 1 .. pushed
    BY <1>1, RangeOfSeq
  <2> QED BY <1>1, <2>1
<1>6. (\A v \in Range(s) : v \notin Range(f)) /\ (\A v \in Range(f) : v \notin Range(s))
  BY <1>4, <1>5
<1>7. l = s \o f \/ l = f \o s
  BY DEF Joined
<1>8. l \in Seq(V) /\ Len(l) = Len(s) + Len(f) /\ Distinct(l) /\ Range(l) = Range(s) \cup Range(f)
  <2> HIDE DEF V, s
  <2>1. ASSUME NEW a \in Seq(V), NEW b \in Seq(V), Distinct(a), Distinct(b),
               \A v \in Range(a) : v \notin Range(b)
        PROVE  /\ a \o b \in Seq(V) /\ Len(a \o b) = Len(a) + Len(b)
               /\ Distinct(a \o b) /\ Range(a \o b) = Range(a) \cup Range(b)
    BY <2>1, ConcatDistinct
  <2>2. CASE l = s \o f
    BY <1>2, <1>3, <1>4, <1>6, <2>1, <2>2
  <2>3. CASE l = f \o s
    <3>1. /\ l \in Seq(V) /\ Len(l) = Len(f) + Len(s)
          /\ Distinct(l) /\ Range(l) = Range(f) \cup Range(s)
      BY <1>2, <1>3, <1>4, <1>6, <2>1, <2>3
    <3>2. Len(s) \in Nat /\ Len(f) \in Nat
      BY <1>2, <1>4, LenProperties
    <3> QED BY <3>1, <3>2
  <2> QED BY <1>7, <2>2, <2>3
<1> QED BY <1>4, <1>8

(* RPUSH and LPUSH without a waiter to serve: the longer list is stored.   *)
LEMMA PushKeeps ==
    ASSUME ListsOK, EachAtOnePlace, NEW k \in Keys, NEW n \in Nat,
           NEW f, Fresh(f, n),
           NEW l, Joined(l, lists[k], f),
           pushed' = pushed + n, lists' = [lists EXCEPT ![k] = l], taken' = taken
    PROVE  ListsOK' /\ EachAtOnePlace'
<1>1. /\ l \in Seq(1 .. pushed + n) /\ Distinct(l)
      /\ Range(l) = Range(lists[k]) \cup (pushed + 1 .. pushed + n)
  BY Pushed
<1>2. pushed + n \in Nat /\ pushed <= pushed + n /\ pushed \in Nat
  BY DEF ListsOK
<1>3. \A v \in Range(l) : v \in Range(lists[k]) \/ v > pushed
  BY <1>1, <1>2
<1>4. \A v \in 1 .. pushed + n : (v \in Range(lists[k]) \/ v > pushed) => v \in Range(l)
  BY <1>1, <1>2
<1> QED BY <1>1, <1>2, <1>3, <1>4, ReplaceList

(* RPUSH with a waiter: the head of the longer list is handed over.        *)
LEMMA PushAndHandOverKeeps ==
    ASSUME ListsOK, EachAtOnePlace, NEW k \in Keys, NEW n \in Nat \ {0},
           NEW f, Fresh(f, n), NEW l, Joined(l, lists[k], f),
           pushed' = pushed + n, HandOver(k, l)
    PROVE  ListsOK' /\ EachAtOnePlace'
<1>1. /\ l \in Seq(1 .. pushed + n) /\ Distinct(l) /\ Len(l) = Len(lists[k]) + n
      /\ Range(l) = Range(lists[k]) \cup (pushed + 1 .. pushed + n)
  BY Pushed
<1>2. pushed + n \in Nat /\ pushed <= pushed + n /\ pushed \in Nat
  BY DEF ListsOK
<1>3. Len(l) \in Nat \ {0}
  <2>1. Len(lists[k]) \in Nat
    BY LenProperties DEF ListsOK
  <2> QED BY <1>1, <2>1
<1> DEFINE r == Tail(l)
           h == Head(l)
<1>4. /\ r \in Seq(1 .. pushed + n) /\ Distinct(r) /\ Range(r) = Range(l) \ {h}
      /\ h \in Range(l)
  <2>1. l # <<>>
    BY <1>1, <1>3, EmptySeq
  <2> QED BY <1>1, <2>1, DropHead
<1>5. lists' = [lists EXCEPT ![k] = r] /\ taken' = taken \cup {h}
  BY DEF HandOver
<1> HIDE DEF r, h
<1>7. \A v \in Range(r) : v \in Range(lists[k]) \/ v > pushed
  BY <1>1, <1>2, <1>4
<1>8. \A v : v \in taken' <=>
         \/ v \in taken
         \/ /\ v \in 1 .. pushed + n /\ v \notin Range(r)
            /\ v \in Range(lists[k]) \/ v > pushed
  <2>1. \A v \in Range(l) : v \in 1 .. pushed + n
    BY <1>1, RangeOfSeq
  <2>2. \A v \in Range(l) : v \in Range(lists[k]) \/ v > pushed
    BY <1>1, <1>2
  <2>3. \A v \in 1 .. pushed + n : (v \in Range(lists[k]) \/ v > pushed) => v \in Range(l)
    BY <1>1, <1>2
  <2> QED BY <1>4, <1>5, <2>1, <2>2, <2>3, Zenon
<1> QED BY <1>2, <1>4, <1>5, <1>7, <1>8, ReplaceList

(* A pop cuts n values off the front and takes exactly these.              *)
LEMMA PopKeeps ==
    ASSUME ListsOK, EachAtOnePlace, NEW k \in Keys, NEW n \in 0 .. Len(lists[k]),
           pushed' = pushed,
           lists' = [lists EXCEPT ![k] = SubSeq(lists[k], n + 1, Len(lists[k]))],
           taken' = taken \cup {lists[k][j] : j \in 1 .. n}
    PROVE  ListsOK' /\ EachAtOnePlace'
<1> DEFINE s == lists[k]
           r == SubSeq(s, n + 1, Len(s))
           cut == {s[j] : j \in 1 .. n}
<1>1. s \in Seq(1 .. pushed) /\ pushed \in Nat /\ pushed <= pushed
  BY DEF ListsOK, Values
<1>2. Distinct(s)
  BY DEF EachAtOnePlace, Distinct
<1>3. r \in Seq(1 .. pushed) /\ Distinct(r) /\ Range(r) = Range(s) \ cut
  <2>1. ASSUME NEW S, NEW a \in Seq(S), Distinct(a), NEW m \in 0 .. Len(a)
        PROVE  /\ SubSeq(a, m + 1, Len(a)) \in Seq(S) /\ Distinct(SubSeq(a, m + 1, Len(a)))
               /\ Range(SubSeq(a, m + 1, Len(a))) = Range(a) \ {a[j] : j \in 1 .. m}
    BY <2>1, DropFront
  <2> QED BY <1>1, <1>2, <2>1
<1>4. \A v \in cut : v \in Range(s) /\ v \in 1 .. pushed
  <2>1. Len(s) \in Nat /\ DOMAIN s = 1 .. Len(s)
    BY <1>1, LenProperties
  <2>2. \A j \in 1 .. n : j \in 1 .. Len(s)
    BY <2>1
  <2>3. \A v \in cut : v \in Range(s)
    BY <2>1, <2>2 DEF Range
  <2>4. Range(s) \subseteq 1 .. pushed
    BY <1>1, RangeOfSeq
  <2> QED BY <2>3, <2>4
<1>5. \A v \in Range(s) : v \in 1 .. pushed
  BY <1>1, RangeOfSeq
<1>6. lists' = [lists EXCEPT ![k] = r] /\ taken' = taken \cup cut
  OBVIOUS
<1> HIDE DEF r, cut, s
<1>7. \A v \in 1 .. pushed : ~(v > pushed)
  BY <1>1
<1>8. \A v : v \in taken' <=>
         \/ v \in taken
         \/ /\ v \in 1 .. pushed /\ v \notin Range(r)
            /\ v \in Range(s) \/ v > pushed
  BY <1>3, <1>4, <1>6, <1>7, Zenon
<1>9. \A v \in Range(r) : v \in Range(s) \/ v > pushed
  BY <1>3
<1> QED BY <1>1, <1>3, <1>6, <1>8, <1>9, ReplaceList DEF s

(* No step loses a value or puts it in two places.                         *)
LEMMA ValuesStep == ListsOK /\ EachAtOnePlace /\ [Next]_vars => ListsOK' /\ EachAtOnePlace'
<1> SUFFICES ASSUME ListsOK, EachAtOnePlace, [Next]_vars PROVE ListsOK' /\ EachAtOnePlace'
  OBVIOUS
<1> USE ListsAssumption
<1>0. pushed \in Nat /\ \A k \in Keys : lists[k] \in Seq(Values)
  BY DEF ListsOK
<1>1. CASE UNCHANGED <<lists, pushed, taken>>
  BY <1>1 DEF ListsOK, EachAtOnePlace, Values
<1>2. ASSUME NEW c \in Clients, NEW k \in Keys, NEW n \in 1 .. MaxBatch, RPUSH(c, k, n)
      PROVE  ListsOK' /\ EachAtOnePlace'
  <2> DEFINE f == [j \in 1 .. n |-> pushed + j]
             l == lists[k] \o f
  <2>1. n \in Nat /\ n \in Nat \ {0} /\ Fresh(f, n) /\ Joined(l, lists[k], f)
    <3>1. n \in Nat /\ n # 0
      OBVIOUS
    <3>2. Joined(l, lists[k], f)
      BY DEF Joined
    <3>3. Fresh(f, n)
      BY <1>0, <3>1 DEF Fresh
    <3> QED BY <3>1, <3>2, <3>3
  <2>2. pushed' = pushed + n
    BY <1>2 DEF RPUSH
  <2>3. \/ lists' = [lists EXCEPT ![k] = l] /\ taken' = taken
        \/ HandOver(k, l)
    BY <1>2 DEF RPUSH
  <2> HIDE DEF f, l
  <2>4. CASE lists' = [lists EXCEPT ![k] = l] /\ taken' = taken
    BY <2>1, <2>2, <2>4, PushKeeps
  <2>5. CASE HandOver(k, l)
    BY <2>1, <2>2, <2>5, PushAndHandOverKeeps
  <2> QED BY <2>3, <2>4, <2>5
<1>3. ASSUME NEW c \in Clients, NEW k \in Keys, NEW n \in 1 .. MaxBatch, LPUSH(c, k, n)
      PROVE  ListsOK' /\ EachAtOnePlace'
  <2> DEFINE f == [j \in 1 .. n |-> pushed + n + 1 - j]
             l == f \o lists[k]
  <2>1. n \in Nat /\ Fresh(f, n) /\ Joined(l, lists[k], f)
    <3>1. n \in Nat
      OBVIOUS
    <3>2. Joined(l, lists[k], f)
      BY DEF Joined
    <3>3. Fresh(f, n)
      BY <1>0, <3>1 DEF Fresh
    <3> QED BY <3>1, <3>2, <3>3
  <2>2. pushed' = pushed + n /\ lists' = [lists EXCEPT ![k] = l] /\ taken' = taken
    BY <1>3 DEF LPUSH, ListsOK
  <2> HIDE DEF f, l
  <2> QED BY <2>1, <2>2, PushKeeps
<1>4. ASSUME NEW c \in Clients, NEW k \in Keys, NEW count \in 0 .. MaxBatch, LPOP(c, k, count)
      PROVE  ListsOK' /\ EachAtOnePlace'
  <2> DEFINE n == IF count > Len(lists[k]) THEN Len(lists[k]) ELSE count
  <2>1. n \in 0 .. Len(lists[k])
    <3>1. Len(lists[k]) \in Nat
      BY <1>0, LenProperties
    <3> QED BY <3>1
  <2>2. /\ pushed' = pushed
        /\ lists' = [lists EXCEPT ![k] = SubSeq(lists[k], n + 1, Len(lists[k]))]
        /\ taken' = taken \cup {lists[k][j] : j \in 1 .. n}
    BY <1>4 DEF LPOP
  <2> HIDE DEF n
  <2> QED BY <2>1, <2>2, PopKeeps
<1>5. ASSUME NEW c \in Clients, NEW k \in Keys, NEW t \in Timeouts, BLPOP(c, k, t)
      PROVE  ListsOK' /\ EachAtOnePlace'
  <2>1. CASE lists[k] # <<>> /\ HandOver(k, lists[k]) /\ pushed' = pushed
    <3>1. 1 \in 0 .. Len(lists[k])
      BY <1>0, <2>1, LenProperties, EmptySeq
    <3>2. Tail(lists[k]) = SubSeq(lists[k], 1 + 1, Len(lists[k]))
      <4>1. Tail(lists[k]) = SubSeq(lists[k], 2, Len(lists[k]))
        BY <1>0, <2>1, TailIsSubSeq
      <4> QED BY <4>1
    <3>3. {Head(lists[k])} = {lists[k][j] : j \in 1 .. 1}
      <4>1. Head(lists[k]) = lists[k][1]
        BY <1>0, <2>1
      <4> QED BY <4>1
    <3> QED BY <2>1, <3>1, <3>2, <3>3, PopKeeps DEF HandOver
  <2>2. CASE UNCHANGED <<lists, pushed, taken>>
    BY <1>1, <2>2
  <2> QED BY <1>5, <2>1, <2>2 DEF BLPOP
<1>6. ASSUME NEW c \in Clients, Command(c) PROVE ListsOK' /\ EachAtOnePlace'
  <2>1. CASE RPOP(c)
    BY <1>1, <2>1 DEF RPOP
  <2> QED BY <1>2, <1>3, <1>4, <1>5, <1>6, <2>1 DEF Command
<1> QED BY <1>1, <1>6 DEF Next, vars, Tick, Sweep, EndBuffer, Reconnect

(* The rest of an ordered list is ordered.                                 *)
LEMMA DropOrdered ==
    ASSUME NEW S, NEW l \in Seq(S), NEW F, Ordered(l, F), NEW n \in 0 .. Len(l)
    PROVE  Ordered(SubSeq(l, n + 1, Len(l)), F)
<1> DEFINE r == SubSeq(l, n + 1, Len(l))
<1>1. Len(l) \in Nat /\ n \in Nat /\ n <= Len(l) /\ \A j \in 1 .. Len(l) : l[j] \in S
  BY LenProperties, ElementOfSeq
<1>2. /\ Len(r) = IF n + 1 <= Len(l) THEN Len(l) - (n + 1) + 1 ELSE 0
      /\ \A i \in 1 .. Len(l) - (n + 1) + 1 : r[i] = l[(n + 1) + i - 1]
  <2>1. \A i \in n + 1 .. Len(l) : l[i] \in S
    BY <1>1
  <2> QED BY <1>1, <2>1, SubSeqProperties
<1> HIDE DEF r
<1>3. Len(r) = Len(l) - n
  BY <1>1, <1>2
<1>4. ASSUME NEW i \in 1 .. Len(r) PROVE r[i] = l[n + i] /\ n + i \in 1 .. Len(l)
  <2>1. i \in 1 .. Len(l) - (n + 1) + 1 /\ (n + 1) + i - 1 = n + i /\ n + i \in 1 .. Len(l)
    BY <1>1, <1>3
  <2> QED BY <1>2, <2>1
<1>5. ASSUME NEW i \in 1 .. Len(r), NEW j \in 1 .. Len(r), i < j
      PROVE  IF r[j] \in F THEN r[i] \in F /\ r[j] < r[i] ELSE r[i] \in F \/ r[i] < r[j]
  <2>1. n + i < n + j
    BY <1>1, <1>3, <1>5
  <2> QED BY <1>4, <2>1 DEF Ordered
<1>6. Ordered(r, F)
  BY <1>5 DEF Ordered
<1> QED BY <1>6 DEF r

(* RPUSH puts its values, the earliest first, behind the others.           *)
LEMMA AppendOrdered ==
    ASSUME NEW p \in Nat, NEW s \in Seq(1 .. p), NEW F \in SUBSET (1 .. p), Ordered(s, F),
           NEW n \in Nat
    PROVE  Ordered(s \o [j \in 1 .. n |-> p + j], F)
<1> DEFINE f == [j \in 1 .. n |-> p + j]
           l == s \o f
           L == Len(s)
<1>1. f \in Seq(Int) /\ Len(f) = n
  <2>1. f \in [1 .. n -> Int]
    OBVIOUS
  <2> QED BY <2>1, FunctionIsSeq
<1>2. s \in Seq(Int) /\ L \in Nat /\ \A j \in 1 .. L : s[j] \in 1 .. p
  <2>1. 1 .. p \subseteq Int
    OBVIOUS
  <2> QED BY <2>1, SeqMonotonic, LenProperties, ElementOfSeq
<1>3. /\ Len(l) = L + n
      /\ \A i \in 1 .. L + n : l[i] = IF i <= L THEN s[i] ELSE f[i - L]
  BY <1>1, <1>2, ConcatProperties
<1>4. \A i \in 1 .. L : l[i] = s[i]
  BY <1>2, <1>3
<1>5. \A i \in 1 .. L + n : i > L => l[i] = p + (i - L)
  <2> SUFFICES ASSUME NEW i \in 1 .. L + n, i > L PROVE l[i] = p + (i - L)
    OBVIOUS
  <2>1. i - L \in 1 .. n /\ ~(i <= L)
    BY <1>2
  <2>2. f[i - L] = p + (i - L)
    BY <2>1
  <2> HIDE DEF f, l
  <2> QED BY <1>3, <2>1, <2>2
<1> HIDE DEF f, l
<1>6. ASSUME NEW i \in 1 .. Len(l), NEW j \in 1 .. Len(l), i < j
      PROVE  IF l[j] \in F THEN l[i] \in F /\ l[j] < l[i] ELSE l[i] \in F \/ l[i] < l[j]
  <2>1. CASE j <= L
    <3>1. i \in 1 .. L /\ j \in 1 .. L
      BY <1>2, <1>3, <1>6, <2>1
    <3> HIDE DEF L
    <3> QED BY <1>4, <1>6, <3>1 DEF Ordered, L
  <2>2. CASE j > L
    <3>1. l[j] = p + (j - L)
      BY <1>2, <1>3, <1>5, <2>2
    <3>2. l[j] \notin F
      BY <1>2, <2>2, <3>1
    <3>3. CASE i <= L
      <4>0. i \in 1 .. L
        BY <1>2, <1>3, <3>3
      <4>1. l[i] \in 1 .. p
        BY <1>2, <1>4, <4>0, Zenon
      <4> QED BY <1>2, <2>2, <3>1, <3>2, <4>1
    <3>4. CASE i > L
      <4>1. l[i] = p + (i - L)
        BY <1>2, <1>3, <1>5, <3>4
      <4> QED BY <1>2, <1>3, <1>6, <3>1, <3>2, <4>1
    <3> QED BY <1>2, <3>3, <3>4
  <2> QED BY <1>2, <1>3, <2>1, <2>2
<1> QED BY <1>6 DEF Ordered, l, f

(* LPUSH puts its values, the latest first, before the others.             *)
LEMMA PrependOrdered ==
    ASSUME NEW p \in Nat, NEW s \in Seq(1 .. p), NEW F \in SUBSET (1 .. p), Ordered(s, F),
           NEW n \in Nat
    PROVE  Ordered([j \in 1 .. n |-> p + n + 1 - j] \o s, F \cup (p + 1 .. p + n))
<1> DEFINE f == [j \in 1 .. n |-> p + n + 1 - j]
           l == f \o s
           L == Len(s)
           G == F \cup (p + 1 .. p + n)
<1>1. f \in Seq(Int) /\ Len(f) = n
  <2>1. f \in [1 .. n -> Int]
    OBVIOUS
  <2> QED BY <2>1, FunctionIsSeq
<1>2. s \in Seq(Int) /\ L \in Nat /\ \A j \in 1 .. L : s[j] \in 1 .. p
  <2>1. 1 .. p \subseteq Int
    OBVIOUS
  <2> QED BY <2>1, SeqMonotonic, LenProperties, ElementOfSeq
<1>3. /\ Len(l) = n + L
      /\ \A i \in 1 .. n + L : l[i] = IF i <= n THEN f[i] ELSE s[i - n]
  BY <1>1, <1>2, ConcatProperties
<1>4. \A i \in 1 .. n : l[i] = p + n + 1 - i
  BY <1>2, <1>3
<1>5. \A i \in 1 .. n + L : i > n => l[i] = s[i - n] /\ i - n \in 1 .. L
  <2> HIDE DEF f, l
  <2> QED BY <1>2, <1>3
<1>6. \A v \in 1 .. p : v \in G <=> v \in F
  OBVIOUS
<1> HIDE DEF f, l
<1>7. ASSUME NEW i \in 1 .. Len(l), NEW j \in 1 .. Len(l), i < j
      PROVE  IF l[j] \in G THEN l[i] \in G /\ l[j] < l[i] ELSE l[i] \in G \/ l[i] < l[j]
  <2>0. l[i] \in Int /\ l[j] \in Int
    BY <1>2, <1>3, <1>4, <1>5
  <2>1. CASE i <= n
    <3>1. l[i] = p + n + 1 - i /\ l[i] \in G /\ l[i] > p
      BY <1>4, <2>1, <1>2, <1>3
    <3>2. CASE j <= n
      BY <1>4, <1>7, <2>1, <3>1, <3>2, <1>2, <1>3
    <3>3. CASE j > n
      <4>1. l[j] \in 1 .. p
        BY <1>2, <1>3, <1>5, <3>3
      <4> QED BY <3>1, <4>1
    <3> QED BY <1>2, <1>3, <3>2, <3>3
  <2>2. CASE i > n
    <3>1. /\ l[i] = s[i - n] /\ i - n \in 1 .. L
          /\ l[j] = s[j - n] /\ j - n \in 1 .. L /\ i - n < j - n
      BY <1>2, <1>3, <1>5, <1>7, <2>2
    <3>2. s[i - n] \in 1 .. p /\ s[j - n] \in 1 .. p
      BY <1>2, <3>1
    <3>3. IF s[j - n] \in F THEN s[i - n] \in F /\ s[j - n] < s[i - n]
          ELSE s[i - n] \in F \/ s[i - n] < s[j - n]
      BY <3>1 DEF Ordered
    <3> QED BY <1>6, <3>1, <3>2, <3>3
  <2> QED BY <1>2, <1>3, <2>1, <2>2
<1>8. Ordered(l, G)
  BY <1>7 DEF Ordered
<1> QED BY <1>8 DEF l, f

(* New values elsewhere do not concern an ordered list.                    *)
LEMMA OrderedElsewhere ==
    ASSUME NEW p \in Nat, NEW s \in Seq(1 .. p), NEW F, Ordered(s, F), NEW n \in Nat
    PROVE  Ordered(s, F \cup (p + 1 .. p + n))
<1>1. \A j \in 1 .. Len(s) : s[j] \in 1 .. p
  BY ElementOfSeq
<1>2. \A v \in 1 .. p : v \in F \cup (p + 1 .. p + n) <=> v \in F
  OBVIOUS
<1> QED BY <1>1, <1>2 DEF Ordered

(* No step disturbs the order of a list.                                   *)
LEMMA OrderStep == ListsOK /\ OrderInv /\ [Next]_vars => OrderInv'
<1> SUFFICES ASSUME ListsOK, OrderInv, [Next]_vars PROVE OrderInv'
  OBVIOUS
<1> USE ListsAssumption
<1>0. /\ pushed \in Nat /\ front \in SUBSET (1 .. pushed)
      /\ \A k \in Keys : lists[k] \in Seq(1 .. pushed) /\ Ordered(lists[k], front)
      /\ lists \in [Keys -> Seq(1 .. pushed)]
  BY DEF ListsOK, OrderInv, Values
<1>1. CASE UNCHANGED <<lists, pushed, front>>
  BY <1>1 DEF OrderInv, Values
<1>2. ASSUME NEW k \in Keys, NEW l, Ordered(l, front), front' = front,
             lists' = [lists EXCEPT ![k] = l], NEW n \in Nat, pushed' = pushed + n
      PROVE  OrderInv'
  <2>1. front' \subseteq 1 .. pushed + n
    BY <1>0, <1>2
  <2>2. \A j \in Keys : lists'[j] = IF j = k THEN l ELSE lists[j]
    BY <1>0, <1>2
  <2> QED BY <1>0, <1>2, <2>1, <2>2 DEF OrderInv, Values
<1>3. ASSUME NEW k \in Keys, NEW l \in Seq(Int), Ordered(l, front), front' = front,
             l # <<>>, lists' = [lists EXCEPT ![k] = Tail(l)],
             NEW n \in Nat, pushed' = pushed + n
      PROVE  OrderInv'
  <2>1. 1 \in 0 .. Len(l)
    BY <1>3, LenProperties, EmptySeq
  <2>2. Tail(l) = SubSeq(l, 1 + 1, Len(l))
    <3>1. Tail(l) = SubSeq(l, 2, Len(l))
      BY <1>3, TailIsSubSeq
    <3> QED BY <3>1
  <2>3. Ordered(Tail(l), front)
    BY <1>3, <2>1, <2>2, DropOrdered
  <2> QED BY <1>2, <1>3, <2>3
<1>4. ASSUME NEW c \in Clients, NEW k \in Keys, NEW n \in 1 .. MaxBatch, RPUSH(c, k, n)
      PROVE  OrderInv'
  <2> DEFINE f == [j \in 1 .. n |-> pushed + j]
             l == lists[k] \o f
  <2>1. n \in Nat
    OBVIOUS
  <2>2. Ordered(l, front)
    BY <1>0, <2>1, AppendOrdered
  <2>3. l \in Seq(Int) /\ l # <<>>
    <3>1. f \in Seq(Int) /\ Len(f) = n
      <4>1. f \in [1 .. n -> Int]
        BY <1>0
      <4> QED BY <2>1, <4>1, FunctionIsSeq
    <3>2. lists[k] \in Seq(Int) /\ Len(lists[k]) \in Nat
      <4>1. 1 .. pushed \subseteq Int
        BY <1>0
      <4> QED BY <1>0, <4>1, SeqMonotonic, LenProperties
    <3> HIDE DEF f
    <3>3. l \in Seq(Int) /\ Len(l) = Len(lists[k]) + n
      BY <3>1, <3>2, ConcatProperties
    <3>4. Len(l) # 0
      BY <3>2, <3>3
    <3> QED BY <3>3, <3>4, EmptySeq
  <2>4. /\ pushed' = pushed + n /\ front' = front
        /\ \/ lists' = [lists EXCEPT ![k] = l]
           \/ lists' = [lists EXCEPT ![k] = Tail(l)]
    BY <1>4 DEF RPUSH, HandOver
  <2> HIDE DEF l
  <2> QED BY <1>2, <1>3, <2>1, <2>2, <2>3, <2>4
<1>5. ASSUME NEW c \in Clients, NEW k \in Keys, NEW n \in 1 .. MaxBatch, LPUSH(c, k, n)
      PROVE  OrderInv'
  <2> DEFINE l == [j \in 1 .. n |-> pushed + n + 1 - j] \o lists[k]
             G == front \cup (pushed + 1 .. pushed + n)
  <2>1. n \in Nat /\ pushed' = pushed + n /\ front' = G /\ lists' = [lists EXCEPT ![k] = l]
    BY <1>0, <1>5 DEF LPUSH
  <2>2. Ordered(l, G)
    BY <1>0, <2>1, PrependOrdered
  <2>3. \A j \in Keys : Ordered(lists[j], G)
    BY <1>0, <2>1, OrderedElsewhere
  <2>4. G \subseteq 1 .. pushed + n
    BY <1>0, <2>1
  <2> HIDE DEF l, G
  <2>5. \A j \in Keys : lists'[j] = IF j = k THEN l ELSE lists[j]
    BY <1>0, <2>1
  <2> QED BY <2>1, <2>2, <2>3, <2>4, <2>5 DEF OrderInv, Values
<1>6. ASSUME NEW c \in Clients, NEW k \in Keys, NEW count \in 0 .. MaxBatch, LPOP(c, k, count)
      PROVE  OrderInv'
  <2> DEFINE n == IF count > Len(lists[k]) THEN Len(lists[k]) ELSE count
  <2>1. n \in 0 .. Len(lists[k])
    <3>1. Len(lists[k]) \in Nat
      BY <1>0, LenProperties
    <3> QED BY <3>1
  <2>2. /\ pushed' = pushed + 0 /\ front' = front
        /\ lists' = [lists EXCEPT ![k] = SubSeq(lists[k], n + 1, Len(lists[k]))]
    BY <1>0, <1>6 DEF LPOP
  <2> HIDE DEF n
  <2>3. Ordered(SubSeq(lists[k], n + 1, Len(lists[k])), front)
    BY <1>0, <2>1, DropOrdered
  <2> QED BY <1>2, <2>2, <2>3
<1>7. ASSUME NEW c \in Clients, NEW k \in Keys, NEW t \in Timeouts, BLPOP(c, k, t)
      PROVE  OrderInv'
  <2>1. CASE lists[k] # <<>> /\ HandOver(k, lists[k]) /\ UNCHANGED <<pushed, front>>
    <3>1. 1 .. pushed \subseteq Int
      BY <1>0
    <3>2. lists[k] \in Seq(Int)
      BY <1>0, <3>1, SeqMonotonic
    <3>3. pushed' = pushed + 0 /\ front' = front /\ lists' = [lists EXCEPT ![k] = Tail(lists[k])]
      BY <1>0, <2>1 DEF HandOver
    <3> QED BY <1>0, <1>3, <2>1, <3>2, <3>3
  <2>2. CASE UNCHANGED <<lists, pushed, front>>
    BY <1>1, <2>2
  <2> QED BY <1>7, <2>1, <2>2 DEF BLPOP
<1>8. ASSUME NEW c \in Clients, Command(c) PROVE OrderInv'
  <2>1. CASE RPOP(c)
    BY <1>1, <2>1 DEF RPOP
  <2> QED BY <1>4, <1>5, <1>6, <1>7, <1>8, <2>1 DEF Command
<1> QED BY <1>1, <1>8 DEF Next, vars, Tick, Sweep, EndBuffer, Reconnect

-----------------------------------------------------------------------------
(* The clients.                                                            *)

(* Every step keeps the fields of Client and their agreement.              *)
LEMMA ClientsStep == ClientsOK /\ [Next]_vars => ClientsOK'
<1> SUFFICES ASSUME ClientsOK, [Next]_vars PROVE ClientsOK'
  OBVIOUS
<1> USE ListsAssumption
<1>0. \A c, k, l : PassedOver(k, l) \subseteq Clients /\ Waiters(k) \subseteq Clients
  BY DEF PassedOver, Waiters
<1>1. CASE UNCHANGED vars
  BY <1>1 DEF vars, ClientsOK
<1>2. CASE Tick
  BY <1>2 DEF Tick, client, ClientsOK
<1>3. CASE Sweep
  BY <1>3 DEF Sweep, ClientsOK
<1>4. CASE EndBuffer
  BY <1>4 DEF EndBuffer, client, ClientsOK
<1>5. ASSUME NEW c \in Clients, NEW k \in Keys, NEW n \in 1 .. MaxBatch, RPUSH(c, k, n)
      PROVE  ClientsOK'
  <2> DEFINE l == lists[k] \o [j \in 1 .. n |-> pushed + j]
  <2>1. turn' = c /\ now' \in Nat /\ blocked_at \in [Clients -> 0 .. now']
    <3>1. turn' = c /\ now' \in now .. MaxTime
      BY <1>5 DEF RPUSH, Turn
    <3>2. now \in Nat /\ 0 .. now \subseteq 0 .. now'
      BY <3>1 DEF ClientsOK
    <3> QED BY <3>1, <3>2 DEF ClientsOK
  <2>2. CASE UNCHANGED client /\ passed' = passed \cup PassedOver(k, l)
    BY <1>0, <2>1, <2>2 DEF client, ClientsOK
  <2>3. ASSUME NEW w \in Waiters(k), Release(w), passed' = (passed \cup PassedOver(k, l)) \ {w}
        PROVE  ClientsOK'
    BY <1>0, <2>1, <2>3 DEF Waiters, Release, ClientsOK
  <2> QED BY <1>5, <2>2, <2>3 DEF RPUSH, Longest
<1>6. ASSUME NEW c \in Clients, NEW k \in Keys, NEW n \in 1 .. MaxBatch, LPUSH(c, k, n)
      PROVE  ClientsOK'
  BY <1>0, <1>6 DEF LPUSH, Step, Turn, client, ClientsOK
<1>7. ASSUME NEW c \in Clients, NEW k \in Keys, NEW n, LPOP(c, k, n)
      PROVE  ClientsOK'
  BY <1>7 DEF LPOP, Step, Turn, client, ClientsOK
<1>8. ASSUME NEW c \in Clients, NEW k \in Keys, NEW t \in Timeouts, BLPOP(c, k, t)
      PROVE  ClientsOK'
  <2>1. turn' = c /\ now' = now
    BY <1>8 DEF BLPOP, Step, Turn
  <2>2. CASE UNCHANGED <<client, passed>>
    BY <2>1, <2>2 DEF client, ClientsOK
  <2>3. CASE ~(UNCHANGED <<client, passed>>)
    <3>1. /\ timeout_at' = [timeout_at EXCEPT ![c] = IF t = 0 THEN 0 ELSE now + t]
          /\ is_blpop' = [is_blpop EXCEPT ![c] = TRUE]
          /\ is_blocked' = [is_blocked EXCEPT ![c] = TRUE]
          /\ blocked_at' = [blocked_at EXCEPT ![c] = now]
          /\ waiting_for_key' = [waiting_for_key EXCEPT ![c] = k]
          /\ passed' = passed \ {c}
      BY <1>8, <2>3 DEF BLPOP
    <3>2. now + t \in Nat /\ t \in Nat /\ now \in 0 .. now
      BY DEF ClientsOK
    <3>3. timeout_at' \in [Clients -> Nat] /\ blocked_at' \in [Clients -> 0 .. now]
      BY <3>1, <3>2 DEF ClientsOK
    <3> QED BY <2>1, <3>1, <3>3 DEF ClientsOK
  <2> QED BY <2>2, <2>3
<1>9. ASSUME NEW c \in Clients, RPOP(c) PROVE ClientsOK'
  BY <1>9 DEF RPOP, Step, Turn, client, ClientsOK
<1>10. ASSUME NEW c \in Clients, Reconnect(c) PROVE ClientsOK'
  BY <1>10 DEF Reconnect, ClientsOK
<1> QED BY <1>1, <1>2, <1>3, <1>4, <1>5, <1>6, <1>7, <1>8, <1>9, <1>10 DEF Next, Command

(* Among clients that wait there is one the scan keeps, whatever it read.  *)
LEMMA SomebodyPrecedes ==
    ASSUME ClientsOK, NEW k, NEW end \in Nat, NEW read \in [Waiters(k) -> now .. end],
           Waiters(k) # {}
    PROVE  \E e \in Waiters(k) : \A d \in Waiters(k) : Precedes(e, d, read)
<1> DEFINE lack(d) == end - Waited(d, read)
           best == {d \in Waiters(k) : \A e \in Waiters(k) : lack(d) <= lack(e)}
           T == {lack(d) : d \in Waiters(k)}
           U == {read[d] : d \in best}
<1>1. \A d \in Waiters(k) : read[d] \in Nat /\ read[d] <= end /\ blocked_at[d] \in Nat
                            /\ blocked_at[d] <= read[d]
  <2>1. now \in Nat /\ \A d \in Waiters(k) : blocked_at[d] \in 0 .. now /\ read[d] \in now .. end
    BY DEF ClientsOK, Waiters
  <2> QED BY <2>1
<1>2. \A d \in Waiters(k) : Waited(d, read) \in Nat /\ lack(d) \in Nat
  BY <1>1 DEF Waited
<1>3. PICK x \in T : \A y \in T : x <= y
  <2>1. T \subseteq Nat /\ T # {}
    BY <1>2
  <2> QED BY <2>1, LeastNumber
<1>4. best # {}
  BY <1>3
<1>5. PICK u \in U : \A y \in U : u <= y
  <2>1. U \subseteq Nat /\ U # {}
    BY <1>1, <1>4
  <2> QED BY <2>1, LeastNumber
<1>6. PICK e \in best : u = read[e]
  BY <1>5
<1>7. ASSUME NEW d \in Waiters(k) PROVE Precedes(e, d, read)
  <2>1. /\ Waited(d, read) \in Nat /\ Waited(e, read) \in Nat
        /\ Waited(d, read) <= Waited(e, read)
    BY <1>2, <1>6
  <2>2. CASE Waited(d, read) = Waited(e, read)
    <3>1. d \in best
      BY <1>6, <2>2
    <3>2. read[e] <= read[d]
      BY <1>5, <1>6, <3>1
    <3> QED BY <2>2, <3>2 DEF Precedes
  <2>3. CASE Waited(d, read) # Waited(e, read)
    BY <2>1, <2>3 DEF Precedes
  <2> QED BY <2>2, <2>3
<1> QED BY <1>6, <1>7

(* When RPUSH serves nobody, whoever waits has blocked in the millisecond  *)
(* in which its scan began.                                                *)
LEMMA NobodyToServe ==
    ASSUME ClientsOK, NEW k, NEW end \in Nat, NEW read \in [Waiters(k) -> now .. end],
           Longest(k, read) = {}
    PROVE  \A c \in Waiters(k) : blocked_at[c] = now
<1> SUFFICES ASSUME NEW c \in Waiters(k) PROVE blocked_at[c] = now
  OBVIOUS
<1>1. /\ now \in Nat
      /\ \A d \in Waiters(k) : blocked_at[d] \in 0 .. now /\ read[d] \in now .. end
  BY DEF ClientsOK, Waiters
<1>2. PICK e \in Waiters(k) : \A d \in Waiters(k) : Precedes(e, d, read)
  BY SomebodyPrecedes
<1>3. ~(Waited(e, read) > 0)
  BY <1>2 DEF Longest
<1>4. Waited(c, read) <= Waited(e, read)
  BY <1>1, <1>2 DEF Precedes, Waited
<1> QED BY <1>1, <1>3, <1>4 DEF Waited

(* A step that changes no list from empty to not empty and takes no client *)
(* that goes on waiting out of passed.                                     *)
LEMMA NoNewWait ==
    ASSUME ClientsOK, WaitsAtValuesForAReason,
           \A c \in Clients : is_blpop'[c] =>
               \/ is_blpop[c] /\ waiting_for_key'[c] = waiting_for_key[c] /\ (c \in passed => c \in passed')
               \/ lists'[waiting_for_key'[c]] = <<>>,
           \A k \in Keys : lists'[k] # <<>> => lists[k] # <<>>
    PROVE  WaitsAtValuesForAReason'
<1> SUFFICES ASSUME NEW c \in Clients, is_blpop'[c], lists'[waiting_for_key'[c]] # <<>>
             PROVE  c \in passed'
  BY DEF WaitsAtValuesForAReason
<1>1. is_blpop[c] /\ waiting_for_key'[c] = waiting_for_key[c] /\ (c \in passed => c \in passed')
  OBVIOUS
<1>2. waiting_for_key[c] \in Keys
  BY <1>1 DEF ClientsOK
<1> QED BY <1>1, <1>2 DEF WaitsAtValuesForAReason

(* Every step keeps the reason of everyone who waits at a list with values.*)
LEMMA WaitsStep == IInv /\ [Next]_vars => WaitsAtValuesForAReason'
<1> SUFFICES ASSUME IInv, [Next]_vars PROVE WaitsAtValuesForAReason'
  OBVIOUS
<1> USE ListsAssumption
<1>0. /\ ListsOK /\ ClientsOK /\ EachAtOnePlace /\ WaitsAtValuesForAReason
      /\ pushed \in Nat /\ \A k \in Keys : lists[k] \in Seq(Values)
  BY DEF IInv, ListsOK
<1>1. CASE UNCHANGED <<lists, client, passed>>
  BY <1>0, <1>1 DEF client, WaitsAtValuesForAReason
<1>2. ASSUME NEW c \in Clients, NEW k \in Keys, NEW n \in 1 .. MaxBatch, RPUSH(c, k, n)
      PROVE  WaitsAtValuesForAReason'
  <2> DEFINE f == [j \in 1 .. n |-> pushed + j]
             l == lists[k] \o f
  <2>1. l \in Seq(1 .. pushed + n)
    <3>1. n \in Nat /\ Joined(l, lists[k], f)
      BY DEF Joined
    <3>2. Fresh(f, n)
      BY <1>0 DEF Fresh
    <3> HIDE DEF f, l
    <3> QED BY <1>0, <3>1, <3>2, Pushed
  <2>2. PICK end \in now .. MaxTime : \E read \in [Waiters(k) -> now .. end] :
          \/ /\ Longest(k, read) = {} /\ lists' = [lists EXCEPT ![k] = l]
             /\ passed' = passed \cup PassedOver(k, l) /\ UNCHANGED client
          \/ \E w \in Longest(k, read) :
             /\ lists' = [lists EXCEPT ![k] = Tail(l)] /\ Release(w)
             /\ passed' = (passed \cup PassedOver(k, l)) \ {w}
    BY <1>2 DEF RPUSH, HandOver
  <2>5. PICK read \in [Waiters(k) -> now .. end] :
          \/ /\ Longest(k, read) = {} /\ lists' = [lists EXCEPT ![k] = l]
             /\ passed' = passed \cup PassedOver(k, l) /\ UNCHANGED client
          \/ \E w \in Longest(k, read) :
             /\ lists' = [lists EXCEPT ![k] = Tail(l)] /\ Release(w)
             /\ passed' = (passed \cup PassedOver(k, l)) \ {w}
    BY <2>2
  <2>6. end \in Nat
    BY <1>0, <2>2 DEF ClientsOK
  <2> HIDE DEF l
  <2> SUFFICES ASSUME NEW d \in Clients, is_blpop'[d], lists'[waiting_for_key'[d]] # <<>>
               PROVE  d \in passed'
    BY DEF WaitsAtValuesForAReason
  <2>3. CASE /\ Longest(k, read) = {} /\ lists' = [lists EXCEPT ![k] = l]
             /\ passed' = passed \cup PassedOver(k, l) /\ UNCHANGED client
    <3>1. is_blpop[d] /\ waiting_for_key'[d] = waiting_for_key[d] /\ waiting_for_key[d] \in Keys /\ is_blocked[d]
      BY <1>0, <2>3 DEF client, ClientsOK
    <3>2. CASE waiting_for_key[d] = k
      <4>1. d \in Waiters(k)
        BY <3>1, <3>2 DEF Waiters
      <4>2. blocked_at[d] = now
        BY <1>0, <2>3, <2>6, <4>1, NobodyToServe
      <4> QED BY <2>3, <4>1, <4>2 DEF PassedOver
    <3>3. CASE waiting_for_key[d] # k
      BY <1>0, <2>3, <3>1, <3>3 DEF ListsOK, WaitsAtValuesForAReason
    <3> QED BY <3>2, <3>3
  <2>4. ASSUME NEW w \in Longest(k, read),
               lists' = [lists EXCEPT ![k] = Tail(l)], Release(w),
               passed' = (passed \cup PassedOver(k, l)) \ {w}
        PROVE  d \in passed'
    <3>1. d # w /\ is_blpop[d] /\ waiting_for_key'[d] = waiting_for_key[d] /\ waiting_for_key[d] \in Keys /\ is_blocked[d]
      BY <1>0, <2>4 DEF Release, ClientsOK, Longest, Waiters
    <3>2. CASE waiting_for_key[d] = k
      <4>1. d \in Waiters(k)
        BY <3>1, <3>2 DEF Waiters
      <4>2. Tail(l) # <<>>
        BY <1>0, <2>4, <3>1, <3>2 DEF ListsOK
      <4>3. Len(l) > 1
        <5>1. l # <<>>
          BY <2>1, <4>2, EmptySeq
        <5>2. Tail(l) \in Seq(1 .. pushed + n) /\ Len(Tail(l)) = Len(l) - 1 /\ Len(l) \in Nat
          BY <2>1, <5>1, HeadTailProperties, LenProperties
        <5>3. Len(Tail(l)) # 0
          BY <4>2, <5>2, EmptySeq
        <5>4. Len(Tail(l)) \in Nat
          BY <5>2, LenProperties
        <5> QED BY <5>2, <5>3, <5>4
      <4> QED BY <2>4, <3>1, <4>1, <4>3 DEF PassedOver
    <3>3. CASE waiting_for_key[d] # k
      BY <1>0, <2>4, <3>1, <3>3 DEF ListsOK, WaitsAtValuesForAReason
    <3> QED BY <3>2, <3>3
  <2> QED BY <2>3, <2>4, <2>5
<1>3. ASSUME NEW c \in Clients, NEW k \in Keys, NEW n \in 1 .. MaxBatch, LPUSH(c, k, n)
      PROVE  WaitsAtValuesForAReason'
  <2> SUFFICES ASSUME NEW d \in Clients, is_blpop'[d], lists'[waiting_for_key'[d]] # <<>>
               PROVE  d \in passed'
    BY DEF WaitsAtValuesForAReason
  <2>1. /\ is_blpop[d] /\ waiting_for_key'[d] = waiting_for_key[d]
        /\ waiting_for_key[d] \in Keys /\ is_blocked[d]
        /\ passed' = passed \cup Waiters(k)
    BY <1>0, <1>3 DEF LPUSH, client, ClientsOK
  <2>2. \A j \in Keys : j # k => lists'[j] = lists[j]
    BY <1>0, <1>3 DEF LPUSH, ListsOK
  <2> QED BY <1>0, <2>1, <2>2 DEF Waiters, WaitsAtValuesForAReason
<1>4. ASSUME NEW c \in Clients, NEW k \in Keys, NEW count \in 0 .. MaxBatch, LPOP(c, k, count)
      PROVE  WaitsAtValuesForAReason'
  <2> DEFINE n == IF count > Len(lists[k]) THEN Len(lists[k]) ELSE count
             r == SubSeq(lists[k], n + 1, Len(lists[k]))
  <2>1. lists' = [lists EXCEPT ![k] = r] /\ UNCHANGED <<client, passed>>
    BY <1>4 DEF LPOP
  <2>2. lists[k] = <<>> => r = <<>>
    <3> SUFFICES ASSUME lists[k] = <<>> PROVE r = <<>>
      OBVIOUS
    <3>1. Len(lists[k]) = 0 /\ n = 0
      OBVIOUS
    <3>2. SubSeq(<<>>, 1, 0) = <<>>
      BY EmptySeq, SubSeqProperties
    <3> QED BY <3>1, <3>2
  <2> HIDE DEF r
  <2>3. \A j \in Keys : lists'[j] # <<>> => lists[j] # <<>>
    BY <1>0, <2>1, <2>2 DEF ListsOK
  <2> QED BY <1>0, <2>1, <2>3, NoNewWait DEF client
<1>5. ASSUME NEW c \in Clients, NEW k \in Keys, NEW t \in Timeouts, BLPOP(c, k, t)
      PROVE  WaitsAtValuesForAReason'
  <2>1. CASE lists[k] # <<>> /\ HandOver(k, lists[k]) /\ UNCHANGED <<client, passed>>
    <3>1. \A j \in Keys : lists'[j] # <<>> => lists[j] # <<>>
      BY <1>0, <2>1 DEF HandOver, ListsOK
    <3> QED BY <1>0, <2>1, <3>1, NoNewWait DEF client
  <2>2. CASE /\ lists[k] = <<>> /\ UNCHANGED lists
             /\ is_blpop' = [is_blpop EXCEPT ![c] = TRUE]
             /\ waiting_for_key' = [waiting_for_key EXCEPT ![c] = k]
             /\ passed' = passed \ {c}
    <3>1. ASSUME NEW d \in Clients, d # c, is_blpop'[d]
          PROVE  is_blpop[d] /\ waiting_for_key'[d] = waiting_for_key[d] /\ (d \in passed => d \in passed')
      BY <1>0, <2>2, <3>1 DEF ClientsOK
    <3>2. lists'[waiting_for_key'[c]] = <<>>
      BY <1>0, <2>2 DEF ClientsOK
    <3> QED BY <1>0, <2>2, <3>1, <3>2, NoNewWait
  <2> QED BY <1>5, <2>1, <2>2 DEF BLPOP
<1>6. CASE Sweep
  <2>1. ASSUME NEW d \in Clients, is_blpop'[d]
        PROVE  is_blpop[d] /\ waiting_for_key'[d] = waiting_for_key[d] /\ (d \in passed => d \in passed')
    BY <1>0, <1>6, <2>1 DEF Sweep, ClientsOK
  <2>2. UNCHANGED lists
    BY <1>6 DEF Sweep
  <2> QED BY <1>0, <2>1, <2>2, NoNewWait
<1>7. ASSUME NEW c \in Clients, Reconnect(c) PROVE WaitsAtValuesForAReason'
  BY <1>0, <1>7 DEF Reconnect, WaitsAtValuesForAReason
<1>8. ASSUME NEW c \in Clients, Command(c) PROVE WaitsAtValuesForAReason'
  <2>1. CASE RPOP(c)
    BY <1>1, <2>1 DEF RPOP
  <2> QED BY <1>2, <1>3, <1>4, <1>5, <1>8, <2>1 DEF Command
<1>9. CASE Tick \/ EndBuffer \/ UNCHANGED vars
  BY <1>1, <1>9 DEF Tick, EndBuffer, vars, client
<1> QED BY <1>6, <1>7, <1>8, <1>9 DEF Next

-----------------------------------------------------------------------------
(* The empty keyspace satisfies the invariant.                             *)
LEMMA InitIInv == Init => IInv
<1> SUFFICES ASSUME Init PROVE IInv
  OBVIOUS
<1> USE ListsAssumption
<1>1. ListsOK
  <2>1. <<>> \in Seq(Values)
    BY EmptySeq
  <2> QED BY <2>1 DEF Init, ListsOK
<1>2. ClientsOK
  BY DEF Init, ClientsOK
<1>3. \A k \in Keys : lists[k] = <<>>
  BY DEF Init
<1>4. EachAtOnePlace /\ OrderInv
  <2>1. \A k \in Keys : Len(lists[k]) = 0
    BY <1>3
  <2>2. Values = {} /\ front = {}
    BY DEF Init, Values
  <2> QED BY <2>1, <2>2 DEF EachAtOnePlace, OrderInv, Ordered
<1>5. WaitsAtValuesForAReason
  BY DEF Init, WaitsAtValuesForAReason
<1> QED BY <1>1, <1>2, <1>4, <1>5 DEF IInv

(* Every command, and every step of the sweep, keeps the invariant.        *)
LEMMA StepIInv == IInv /\ [Next]_vars => IInv'
  BY ValuesStep, OrderStep, ClientsStep, WaitsStep DEF IInv

(* The inductive invariant holds in every reachable state.                 *)
THEOREM Invariance == Spec => []IInv
  BY InitIInv, StepIInv, PTL DEF Spec

(* Every reachable state is type correct: the three fields of Client that  *)
(* say it waits in BLPOP always agree.                                     *)
THEOREM TypeCorrect == Spec => []TypeOK
<1>1. IInv => TypeOK
  BY TypeOKParts DEF IInv, OrderInv
<1> QED BY <1>1, Invariance, PTL

(* The pushes, pops and hand-overs of list_handler.c lose no value, take   *)
(* none out of a list twice, and keep each list in the order of its        *)
(* pushes; what the sweep shows without popping is not among them.         *)
THEOREM ValuesConserved == Spec => []Conservation
<1>1. IInv => Conservation
  BY ConservationParts DEF IInv
<1> QED BY <1>1, Invariance, PTL

(* A client that handle_blpop blocked waits at a list with values only     *)
(* when a push passed it over for one of the three reasons.                *)
THEOREM NoWakeUpLost == Spec => []WaitsAtValuesForAReason
<1>1. IInv => WaitsAtValuesForAReason
  BY DEF IInv
<1> QED BY <1>1, Invariance, PTL

(* handle_rpush serves among the clients that wait for its key one that    *)
(* blocked no later than the others, but for the time its scan took.       *)
THEOREM ServedInOrder == Spec => NoOvertaking
<1> DEFINE InTime(c, d) ==
             \/ blocked_at[c] <= blocked_at[d]
             \/ blocked_at[c] - blocked_at[d] < now' - now
           Fair(c, d) ==
             (/\ is_blpop[c] /\ is_blpop[d] /\ waiting_for_key[c] = waiting_for_key[d]
              /\ pushed' # pushed /\ ~is_blpop'[c] /\ is_blpop'[d])
                 => InTime(c, d)
<1>1. ASSUME IInv, [Next]_vars PROVE [\A c, d \in Clients : Fair(c, d)]_vars
  <2> SUFFICES ASSUME Next, NEW c \in Clients, NEW d \in Clients,
                      is_blpop[c], is_blpop[d], waiting_for_key[c] = waiting_for_key[d],
                      pushed' # pushed, ~is_blpop'[c], is_blpop'[d]
               PROVE  InTime(c, d)
    BY <1>1 DEF vars
  <2>1. PICK b \in Clients, k \in Keys, n \in 1 .. MaxBatch : RPUSH(b, k, n)
    <3>1. PICK b \in Clients : Command(b)
      BY DEF Next, Tick, Sweep, EndBuffer, Reconnect
    <3>2. ASSUME NEW k, NEW n PROVE ~LPUSH(b, k, n)
      BY DEF LPUSH, client
    <3> QED BY <3>1, <3>2 DEF Command, LPOP, BLPOP, RPOP
  <2>2. ~UNCHANGED client
    BY DEF client
  <2>3. PICK end \in now .. MaxTime : /\ now' = end
          /\ \E read \in [Waiters(k) -> now .. end] : \E w \in Longest(k, read) : Release(w)
    BY <2>1, <2>2 DEF RPUSH
  <2>4. PICK read \in [Waiters(k) -> now .. end] : \E w \in Longest(k, read) : Release(w)
    BY <2>3
  <2>5. PICK w \in Longest(k, read) : Release(w)
    BY <2>4
  <2>6. w \in Waiters(k) /\ \A e \in Waiters(k) : Precedes(w, e, read)
    BY DEF Longest
  <2>7. c = w
    BY <1>1, <2>5, <2>6 DEF Release, IInv, ClientsOK
  <2>8. d \in Waiters(k)
    BY <1>1, <2>6, <2>7 DEF Waiters, IInv, ClientsOK
  <2>9. Precedes(c, d, read)
    BY <2>6, <2>7, <2>8
  <2>10. /\ now \in Nat /\ blocked_at[c] \in 0 .. now /\ blocked_at[d] \in 0 .. now
         /\ read[c] \in now .. now' /\ read[d] \in now .. now' /\ now' \in Nat
    BY <1>1, <2>3, <2>6, <2>7, <2>8, ListsAssumption DEF IInv, ClientsOK
  <2> HIDE DEF Waiters
  <2> QED BY <2>9, <2>10 DEF Precedes, Waited
<1>2. [][\A c, d \in Clients : Fair(c, d)]_vars => NoOvertaking
  BY PTL DEF NoOvertaking
<1> QED BY <1>1, <1>2, Invariance, PTL DEF Spec

-----------------------------------------------------------------------------
(* LRANGE.                                                                 *)

\* The indices handle_lrange works with, for a list of n values.
From(n, i, j) ==
    IF (IF i < 0 THEN -i ELSE i) > n \/ (IF j < 0 THEN -j ELSE j) > n THEN 0
    ELSE IF i < 0 THEN n + i ELSE i
To(n, j) == IF j < 0 THEN n + j ELSE j

(* What LRANGE answers is a slice.                                         *)
LEMMA LrangeSlices ==
    ASSUME NEW S, NEW l \in Seq(S), NEW i \in Int, NEW j \in Int
    PROVE  LET n == Len(l)
               f == From(n, i, j)
               t == To(n, j)
           IN  /\ n \in Nat /\ f \in Int /\ f >= 0 /\ t \in Int
               /\ f >= n \/ f > t => LRANGE(l, i, j) = <<>>
               /\ ~(f >= n) /\ ~(f > t) =>
                     LRANGE(l, i, j) = SubSeq(l, f + 1, IF t < n THEN t + 1 ELSE n)
<1> DEFINE n == Len(l)
           f == From(n, i, j)
           t == To(n, j)
<1>1. n \in Nat
  BY LenProperties
<1>2. f \in Int /\ f >= 0 /\ t \in Int
  BY <1>1 DEF From, To
<1>3. LRANGE(l, i, j) = IF f >= n \/ f > t THEN <<>>
                        ELSE [x \in 1 .. Clip(t, n) - f + 1 |-> l[f + x]]
  <2>1. (IF j < 0 THEN n - (IF j < 0 THEN -j ELSE j) ELSE j) = t
    BY <1>1 DEF To
  <2>2. (IF (IF i < 0 THEN -i ELSE i) > n \/ (IF j < 0 THEN -j ELSE j) > n THEN 0
         ELSE IF i < 0 THEN n - (IF i < 0 THEN -i ELSE i) ELSE i) = f
    BY <1>1 DEF From
  <2> QED BY <2>1, <2>2, Zenon DEF LRANGE
<1> HIDE DEF f, t, n
<1>4. ASSUME ~(f >= n), ~(f > t)
      PROVE  LRANGE(l, i, j) = SubSeq(l, f + 1, IF t < n THEN t + 1 ELSE n)
  <2> DEFINE b == IF t < n THEN t + 1 ELSE n
  <2>1. f \in Nat /\ b \in Nat /\ f <= b /\ b <= n /\ Clip(t, n) - f + 1 = b - f
    BY <1>1, <1>2, <1>4 DEF Clip
  <2>2. LRANGE(l, i, j) = [x \in 1 .. Clip(t, n) - f + 1 |-> l[f + x]]
    BY <1>3, <1>4
  <2> HIDE DEF b
  <2>3. [x \in 1 .. b - f |-> l[f + x]] = SubSeq(l, f + 1, b)
    BY <2>1, SliceIsSubSeq DEF n
  <2> QED BY <2>1, <2>2, <2>3 DEF b
<1>5. f >= n \/ f > t => LRANGE(l, i, j) = <<>>
  BY <1>3
<1> QED BY <1>1, <1>2, <1>4, <1>5 DEF f, t, n

(* handle_lrange answers the values from start to end when both indices    *)
(* are within the size of the list, and otherwise still a slice of it.     *)
THEOREM LrangeAnswers == Spec => []LrangeIsSlice
<1>1. ASSUME ListsOK PROVE LrangeIsSlice
  <2> SUFFICES ASSUME NEW k \in Keys,
                      NEW i \in -(Len(lists[k]) + 1) .. Len(lists[k]) + 1,
                      NEW j \in -(Len(lists[k]) + 1) .. Len(lists[k]) + 1
               PROVE  LET l == lists[k]
                          n == Len(l)
                          at(x) == IF x < 0 THEN n + x ELSE x
                      IN  /\ \E a, b \in 0 .. n : LRANGE(l, i, j) = SubSeq(l, a + 1, b)
                          /\ i \in -n .. n /\ j \in -n .. n =>
                                LRANGE(l, i, j) = SubSeq(l, at(i) + 1, IF at(j) < n THEN at(j) + 1 ELSE n)
    BY Zenon DEF LrangeIsSlice
  <2> DEFINE l == lists[k]
             n == Len(l)
             f == From(n, i, j)
             t == To(n, j)
             e == IF t < n THEN t + 1 ELSE n
             at(x) == IF x < 0 THEN n + x ELSE x
  <2>1. l \in Seq(Values)
    BY <1>1 DEF ListsOK
  <2>2. n \in Nat
    BY <2>1, LenProperties
  <2>3. i \in Int /\ j \in Int
    BY <2>2
  <2>4. /\ f \in Int /\ f >= 0 /\ t \in Int
        /\ f >= n \/ f > t => LRANGE(l, i, j) = <<>>
        /\ ~(f >= n) /\ ~(f > t) => LRANGE(l, i, j) = SubSeq(l, f + 1, e)
    BY <2>1, <2>3, LrangeSlices
  <2>5. i \in -n .. n /\ j \in -n .. n => f = at(i) /\ t = at(j) /\ f <= n
    BY <2>2, <2>3 DEF From, To
  <2> HIDE DEF f, t, n, l, at
  <2>6. CASE f >= n \/ f > t
    <3>1. SubSeq(l, 0 + 1, 0) = <<>>
      BY SliceEmpty
    <3>2. 0 \in 0 .. n
      BY <2>2
    <3>3. ASSUME f <= n PROVE SubSeq(l, f + 1, e) = <<>>
      <4>1. f + 1 \in Int /\ e \in Int /\ e < f + 1
        BY <2>2, <2>4, <2>6, <3>3
      <4> HIDE DEF e
      <4> QED BY <4>1, SliceEmpty
    <3>4. LRANGE(l, i, j) = <<>>
      BY <2>4, <2>6
    <3>5. \E a, b \in 0 .. n : LRANGE(l, i, j) = SubSeq(l, a + 1, b)
      BY <3>1, <3>2, <3>4
    <3>6. i \in -n .. n /\ j \in -n .. n =>
             LRANGE(l, i, j) = SubSeq(l, at(i) + 1, IF at(j) < n THEN at(j) + 1 ELSE n)
      BY <2>5, <3>3, <3>4
    <3> QED BY <3>5, <3>6 DEF n, l, at
  <2>7. CASE ~(f >= n) /\ ~(f > t)
    <3>1. f \in 0 .. n /\ e \in 0 .. n
      BY <2>2, <2>4, <2>7
    <3>2. LRANGE(l, i, j) = SubSeq(l, f + 1, e)
      BY <2>4, <2>7
    <3>3. \E a, b \in 0 .. n : LRANGE(l, i, j) = SubSeq(l, a + 1, b)
      BY <3>1, <3>2
    <3>4. i \in -n .. n /\ j \in -n .. n =>
             LRANGE(l, i, j) = SubSeq(l, at(i) + 1, IF at(j) < n THEN at(j) + 1 ELSE n)
      BY <2>5, <3>2
    <3> QED BY <3>3, <3>4 DEF n, l, at
  <2> QED BY <2>6, <2>7
<1>2. IInv => ListsOK
  BY DEF IInv
<1> QED BY <1>1, <1>2, Invariance, PTL

(***************************************************************************)
(* Sorted sets.                                                            *)
(***************************************************************************)

\* Each node comes before every later one.
Sorted(l) == \A i, j \in 1 .. Len(l) : i < j => Before(l[i], l[j].score, l[j].member)

\* No member has two nodes.
OneEach(l) == \A i, j \in 1 .. Len(l) : l[i].member = l[j].member => i = j

\* The node e is in the list.
InList(e, l) == \E n \in 1 .. Len(l) : l[n] = e

ZSetOK(z) ==
    /\ z \in ZSet /\ z.length = Len(z.head)
    /\ Sorted(z.head) /\ OneEach(z.head)

(* Taking out one element of a sequence renumbers those behind it.         *)
LEMMA RemoveAtShifts ==
    ASSUME NEW S, NEW l \in Seq(S), NEW p \in 1 .. Len(l)
    PROVE  /\ RemoveAt(l, p) \in Seq(S) /\ Len(RemoveAt(l, p)) = Len(l) - 1
           /\ \A i \in 1 .. Len(l) - 1 :
                 RemoveAt(l, p)[i] = IF i < p THEN l[i] ELSE l[i + 1]
<1> DEFINE N == Len(l)
           a == SubSeq(l, 1, p - 1)
           b == SubSeq(l, p + 1, N)
<1>1. N \in Nat /\ p \in 1 .. N /\ \A i \in 1 .. N : l[i] \in S
  BY LenProperties, ElementOfSeq
<1>2. /\ a \in Seq(S) /\ Len(a) = p - 1
      /\ \A i \in 1 .. p - 1 : a[i] = l[i]
  <2>1. \A i \in 1 .. p - 1 : l[i] \in S
    BY <1>1
  <2>2. /\ a \in Seq(S)
        /\ Len(a) = IF 1 <= p - 1 THEN (p - 1) - 1 + 1 ELSE 0
        /\ \A i \in 1 .. (p - 1) - 1 + 1 : a[i] = l[1 + i - 1]
    BY <1>1, <2>1, SubSeqProperties
  <2> HIDE DEF a
  <2> QED BY <1>1, <2>2
<1>3. /\ b \in Seq(S) /\ Len(b) = N - p
      /\ \A i \in 1 .. N - p : b[i] = l[p + i]
  <2>1. \A i \in p + 1 .. N : l[i] \in S
    BY <1>1
  <2>2. /\ b \in Seq(S)
        /\ Len(b) = IF p + 1 <= N THEN N - (p + 1) + 1 ELSE 0
        /\ \A i \in 1 .. N - (p + 1) + 1 : b[i] = l[(p + 1) + i - 1]
    BY <1>1, <2>1, SubSeqProperties
  <2> HIDE DEF b, N
  <2>3. \A i \in 1 .. N - p : i \in 1 .. N - (p + 1) + 1 /\ (p + 1) + i - 1 = p + i
    BY <1>1
  <2>4. Len(b) = N - p
    BY <1>1, <2>2
  <2> QED BY <2>2, <2>3, <2>4
<1> HIDE DEF a, b, N
<1>4. /\ a \o b \in Seq(S) /\ Len(a \o b) = Len(a) + Len(b)
      /\ \A i \in 1 .. Len(a) + Len(b) : (a \o b)[i] = IF i <= Len(a) THEN a[i] ELSE b[i - Len(a)]
  BY <1>2, <1>3, ConcatProperties
<1>5. ASSUME NEW i \in 1 .. N - 1 PROVE (a \o b)[i] = IF i < p THEN l[i] ELSE l[i + 1]
  <2>0. p \in 1 .. N
    BY DEF N
  <2>1. i \in 1 .. Len(a) + Len(b)
    BY <1>1, <1>2, <1>3, <2>0
  <2>2. CASE i < p
    <3>1. i <= Len(a) /\ i \in 1 .. p - 1
      BY <1>1, <1>2, <2>0, <2>2
    <3> QED BY <1>2, <1>4, <2>1, <2>2, <3>1
  <2>3. CASE ~(i < p)
    <3>1. ~(i <= Len(a)) /\ i - Len(a) \in 1 .. N - p /\ p + (i - Len(a)) = i + 1
      BY <1>1, <1>2, <2>0, <2>3
    <3> QED BY <1>3, <1>4, <2>1, <2>3, <3>1
  <2> QED BY <2>2, <2>3
<1>6. RemoveAt(l, p) = a \o b
  BY DEF RemoveAt, a, b, N
<1>7. Len(a \o b) = N - 1
  <2>1. p \in 1 .. N
    BY DEF N
  <2> QED BY <1>1, <1>2, <1>3, <1>4, <2>1
<1> QED BY <1>4, <1>5, <1>6, <1>7 DEF N

(* Putting one element in front of the p-th renumbers from there on.       *)
LEMMA InsertAtShifts ==
    ASSUME NEW S, NEW l \in Seq(S), NEW p \in 1 .. Len(l), NEW e \in S
    PROVE  /\ InsertAt(l, p, e) \in Seq(S) /\ Len(InsertAt(l, p, e)) = Len(l) + 1
           /\ \A i \in 1 .. Len(l) + 1 :
                 InsertAt(l, p, e)[i] = IF i < p THEN l[i] ELSE IF i = p THEN e ELSE l[i - 1]
<1> DEFINE N == Len(l)
           a == SubSeq(l, 1, p - 1)
           b == SubSeq(l, p, N)
           c == a \o <<e>>
<1>1. N \in Nat /\ p \in 1 .. N /\ \A i \in 1 .. N : l[i] \in S
  BY LenProperties, ElementOfSeq
<1>2. /\ a \in Seq(S) /\ Len(a) = p - 1
      /\ \A i \in 1 .. p - 1 : a[i] = l[i]
  <2>1. \A i \in 1 .. p - 1 : l[i] \in S
    BY <1>1
  <2>2. /\ a \in Seq(S)
        /\ Len(a) = IF 1 <= p - 1 THEN (p - 1) - 1 + 1 ELSE 0
        /\ \A i \in 1 .. (p - 1) - 1 + 1 : a[i] = l[1 + i - 1]
    BY <1>1, <2>1, SubSeqProperties
  <2> HIDE DEF a
  <2> QED BY <1>1, <2>2
<1>3. /\ b \in Seq(S) /\ Len(b) = N - p + 1
      /\ \A i \in 1 .. N - p + 1 : b[i] = l[p + i - 1]
  <2>1. \A i \in p .. N : l[i] \in S
    BY <1>1
  <2>2. /\ b \in Seq(S)
        /\ Len(b) = IF p <= N THEN N - p + 1 ELSE 0
        /\ \A i \in 1 .. N - p + 1 : b[i] = l[p + i - 1]
    BY <1>1, <2>1, SubSeqProperties
  <2> HIDE DEF b, N
  <2> QED BY <1>1, <2>2
<1>4. <<e>> \in Seq(S) /\ Len(<<e>>) = 1 /\ <<e>>[1] = e
  OBVIOUS
<1> HIDE DEF a, b, N
<1>5. /\ c \in Seq(S) /\ Len(c) = Len(a) + 1
      /\ \A i \in 1 .. Len(a) + 1 : c[i] = IF i <= Len(a) THEN a[i] ELSE <<e>>[i - Len(a)]
  BY <1>2, <1>4, ConcatProperties
<1> HIDE DEF c
<1>6. /\ c \o b \in Seq(S) /\ Len(c \o b) = Len(c) + Len(b)
      /\ \A i \in 1 .. Len(c) + Len(b) : (c \o b)[i] = IF i <= Len(c) THEN c[i] ELSE b[i - Len(c)]
  BY <1>3, <1>5, ConcatProperties
<1>7. Len(c) = p /\ Len(c \o b) = N + 1
  BY <1>1, <1>2, <1>3, <1>5, <1>6
<1>8. ASSUME NEW i \in 1 .. N + 1
      PROVE  (c \o b)[i] = IF i < p THEN l[i] ELSE IF i = p THEN e ELSE l[i - 1]
  <2>1. i \in 1 .. Len(c) + Len(b)
    BY <1>1, <1>6, <1>7
  <2>2. CASE i < p
    <3>1. i <= Len(c) /\ i <= Len(a) /\ i \in 1 .. p - 1 /\ i \in 1 .. Len(a) + 1
      BY <1>1, <1>2, <1>7, <2>2
    <3> QED BY <1>2, <1>5, <1>6, <2>1, <2>2, <3>1
  <2>3. CASE i = p
    <3>1. i <= Len(c) /\ ~(i <= Len(a)) /\ i - Len(a) = 1 /\ i \in 1 .. Len(a) + 1 /\ ~(i < p)
      BY <1>1, <1>2, <1>7, <2>3
    <3> QED BY <1>4, <1>5, <1>6, <2>1, <2>3, <3>1
  <2>4. CASE i > p
    <3>1. /\ ~(i <= Len(c)) /\ ~(i < p) /\ i # p
          /\ i - Len(c) \in 1 .. N - p + 1 /\ p + (i - Len(c)) - 1 = i - 1
      BY <1>1, <1>7, <2>4
    <3> QED BY <1>3, <1>6, <2>1, <3>1
  <2>5. i < p \/ i = p \/ i > p
    BY <1>1
  <2> QED BY <2>2, <2>3, <2>4, <2>5
<1>9. InsertAt(l, p, e) = c \o b
  BY DEF InsertAt, a, b, c, N
<1> QED BY <1>6, <1>7, <1>8, <1>9 DEF N

(* The position a search over a list stops at.                             *)
LEMMA FirstPosition ==
    ASSUME NEW I, I \subseteq Nat, I # {}
    PROVE  Min(I) \in I /\ \A i \in I : Min(I) <= i
<1>1. \E x \in I : \A y \in I : x <= y
  BY LeastNumber
<1> QED BY <1>1 DEF Min

(* Unlinking a member takes its node out, and leaves the others in order.  *)
LEMMA RemoveOK ==
    ASSUME NEW z, ZSetOK(z), NEW m
    PROVE  /\ ZSetOK(zset_remove(z, m))
           /\ \A e : InList(e, zset_remove(z, m).head) <=> InList(e, z.head) /\ e.member # m
<1> DEFINE l == z.head
           r == zset_remove(z, m)
<1>1. /\ l \in Seq(ZSetEntry) /\ Len(l) \in Nat /\ z.length = Len(l) /\ z.length \in Nat
      /\ Sorted(l) /\ OneEach(l)
  BY LenProperties DEF ZSetOK, ZSet
<1>2. CASE ~Has(z, m)
  <2>1. r = z /\ \A n \in 1 .. Len(l) : l[n].member # m
    BY <1>2 DEF zset_remove, Has
  <2> QED BY <2>1 DEF InList
<1>3. CASE Has(z, m)
  <2> DEFINE I == {i \in 1 .. Len(l) : l[i].member = m}
             p == Min(I)
             h == RemoveAt(l, p)
  <2>1. I \subseteq Nat /\ I # {} /\ \E i \in 1 .. Len(l) : l[i].member = m
    BY <1>3 DEF Has
  <2>2. p \in I
    BY <2>1, FirstPosition
  <2>3. RemoveFirstMatch(l, LAMBDA e : e.member = m) = h
    BY <2>1 DEF RemoveFirstMatch, SelectInSeq
  <2>4. r = [head |-> h, length |-> z.length - 1]
    BY <1>3, <2>3 DEF zset_remove
  <2>5. p \in 1 .. Len(l) /\ l[p].member = m
    BY <2>2
  <2> HIDE DEF p, I
  <2>6. /\ h \in Seq(ZSetEntry) /\ Len(h) = Len(l) - 1
        /\ \A i \in 1 .. Len(l) - 1 : h[i] = IF i < p THEN l[i] ELSE l[i + 1]
    BY <1>1, <2>5, RemoveAtShifts
  <2> HIDE DEF h, l, r
  <2> DEFINE At(i) == IF i < p THEN i ELSE i + 1
  <2>7. \A i \in 1 .. Len(h) : At(i) \in 1 .. Len(l) /\ At(i) # p /\ h[i] = l[At(i)]
    BY <1>1, <2>5, <2>6
  <2>8. \A i, j \in 1 .. Len(h) : i < j => At(i) < At(j)
    BY <1>1, <2>5, <2>6
  <2>9. \A i, j \in 1 .. Len(h) : At(i) = At(j) => i = j
    BY <1>1, <2>5, <2>6
  <2>10. \A k \in 1 .. Len(l) : k # p => \E i \in 1 .. Len(h) : At(i) = k
    <3> SUFFICES ASSUME NEW k \in 1 .. Len(l), k # p
                 PROVE  \E i \in 1 .. Len(h) : At(i) = k
      OBVIOUS
    <3>1. CASE k < p
      <4>1. k \in 1 .. Len(h) /\ At(k) = k
        BY <1>1, <2>5, <2>6, <3>1
      <4> QED BY <4>1
    <3>2. CASE k > p
      <4>1. k - 1 \in 1 .. Len(h) /\ At(k - 1) = k
        BY <1>1, <2>5, <2>6, <3>2
      <4> QED BY <4>1
    <3> QED BY <1>1, <2>5, <3>1, <3>2
  <2> HIDE DEF At
  <2>11. Sorted(h)
    <3> SUFFICES ASSUME NEW i \in 1 .. Len(h), NEW j \in 1 .. Len(h), i < j
                 PROVE  Before(h[i], h[j].score, h[j].member)
      BY DEF Sorted
    <3>1. /\ At(i) \in 1 .. Len(l) /\ h[i] = l[At(i)] /\ At(i) < At(j)
          /\ At(j) \in 1 .. Len(l) /\ h[j] = l[At(j)]
      BY <2>7, <2>8
    <3>2. Sorted(l)
      BY <1>1
    <3> QED BY <3>1, <3>2 DEF Sorted
  <2>12. OneEach(h)
    <3> SUFFICES ASSUME NEW i \in 1 .. Len(h), NEW j \in 1 .. Len(h),
                        h[i].member = h[j].member
                 PROVE  i = j
      BY DEF OneEach
    <3>1. /\ At(i) \in 1 .. Len(l) /\ h[i] = l[At(i)]
          /\ At(j) \in 1 .. Len(l) /\ h[j] = l[At(j)]
      BY <2>7
    <3>2. At(i) = At(j)
      BY <1>1, <3>1 DEF OneEach
    <3> QED BY <2>9, <3>2
  <2>13. ASSUME NEW e PROVE InList(e, h) <=> InList(e, l) /\ e.member # m
    <3>1. ASSUME InList(e, h) PROVE InList(e, l) /\ e.member # m
      <4>1. PICK i \in 1 .. Len(h) : h[i] = e
        BY <3>1 DEF InList
      <4>2. At(i) \in 1 .. Len(l) /\ At(i) # p /\ l[At(i)] = e
        BY <2>7, <4>1
      <4> QED BY <1>1, <2>5, <4>2 DEF InList, OneEach
    <3>2. ASSUME InList(e, l), e.member # m PROVE InList(e, h)
      <4>1. PICK k \in 1 .. Len(l) : l[k] = e
        BY <3>2 DEF InList
      <4>2. k # p
        BY <2>5, <3>2, <4>1
      <4> QED BY <2>7, <2>10, <4>1, <4>2 DEF InList
    <3> QED BY <3>1, <3>2
  <2>14. Len(l) - 1 \in Nat
    BY <1>1, <2>5
  <2>15. r.head = h /\ r.length = Len(h) /\ r \in ZSet
    BY <1>1, <2>4, <2>6, <2>14 DEF ZSet
  <2> QED BY <2>11, <2>12, <2>13, <2>15 DEF ZSetOK, l, r
<1> QED BY <1>2, <1>3

(* The order of the nodes is the order of the scores, then of the members. *)
LEMMA OrderOK ==
    ASSUME NEW e \in ZSetEntry, NEW f \in ZSetEntry, NEW g \in ZSetEntry
    PROVE  /\ ~Before(e, e.score, e.member)
           /\ Before(e, f.score, f.member) /\ Before(f, g.score, g.member)
                 => Before(e, g.score, g.member)
           /\ ~Before(e, f.score, f.member) /\ e.member # f.member
                 => Before(f, e.score, e.member)
<1>1. /\ e.score \in Int /\ f.score \in Int /\ g.score \in Int
      /\ e.member \in Nat /\ f.member \in Nat /\ g.member \in Nat
  BY SortedSetsAssumption DEF ZSetEntry
<1> QED BY <1>1 DEF Before

(* A node of a member that has none goes where the order wants it.         *)
LEMMA AddOK ==
    ASSUME NEW z, ZSetOK(z), NEW s \in Scores, NEW m \in Members,
           \A e : InList(e, z.head) => e.member # m
    PROVE  /\ ZSetOK(zset_add(z, s, m))
           /\ \A e : InList(e, zset_add(z, s, m).head)
                       <=> InList(e, z.head) \/ e = [member |-> m, score |-> s]
<1> DEFINE l == z.head
           N == Len(l)
           node == [member |-> m, score |-> s]
           I == {i \in 1 .. N : ~Before(l[i], s, m)}
           r == zset_add(z, s, m)
           h == r.head
<1>1. /\ l \in Seq(ZSetEntry) /\ N \in Nat /\ z.length = N
      /\ Sorted(l) /\ OneEach(l)
      /\ \A i \in 1 .. N : l[i] \in ZSetEntry
  BY LenProperties, ElementOfSeq DEF ZSetOK, ZSet
<1>2. node \in ZSetEntry /\ node.member = m /\ node.score = s
  BY DEF ZSetEntry
<1>3. \A i \in 1 .. N : l[i].member # m
  BY DEF InList
<1>4. \E p \in 1 .. N + 1 :
         /\ h \in Seq(ZSetEntry) /\ Len(h) = N + 1
         /\ \A i \in 1 .. N + 1 : h[i] = IF i < p THEN l[i] ELSE IF i = p THEN node ELSE l[i - 1]
         /\ \A i \in 1 .. N : i < p => Before(l[i], s, m)
         /\ p <= N => ~Before(l[p], s, m)
  <2>1. CASE I = {}
    <3>1. SelectInSeq(l, LAMBDA e : ~Before(e, s, m)) = 0
      BY <2>1 DEF SelectInSeq
    <3>2. h = Append(l, node)
      BY <3>1 DEF zset_add
    <3>3. /\ h \in Seq(ZSetEntry) /\ Len(h) = N + 1
          /\ \A i \in 1 .. N : h[i] = l[i]
          /\ h[N + 1] = node
      BY <1>1, <1>2, <3>2, AppendProperties
    <3> HIDE DEF h, node
    <3>4. \A i \in 1 .. N + 1 :
             h[i] = IF i < N + 1 THEN l[i] ELSE IF i = N + 1 THEN node ELSE l[i - 1]
      BY <1>1, <3>3
    <3>5. \A i \in 1 .. N : Before(l[i], s, m)
      BY <2>1
    <3>6. N + 1 \in 1 .. N + 1 /\ ~(N + 1 <= N)
      BY <1>1
    <3> QED BY <3>3, <3>4, <3>5, <3>6
  <2>2. CASE I # {}
    <3> DEFINE p == Min(I)
    <3>1. p \in I /\ \A i \in I : p <= i
      <4>1. I \subseteq Nat
        OBVIOUS
      <4> QED BY <2>2, <4>1, FirstPosition
    <3>2. SelectInSeq(l, LAMBDA e : ~Before(e, s, m)) = p
      BY <2>2 DEF SelectInSeq
    <3>3. p \in 1 .. N /\ ~Before(l[p], s, m) /\ p # 0
      BY <3>1
    <3>4. h = InsertAt(l, p, node)
      BY <3>2, <3>3 DEF zset_add
    <3>5. \A i \in 1 .. N : i < p => Before(l[i], s, m)
      BY <1>1, <3>1
    <3> HIDE DEF p, h, node, I
    <3>6. /\ h \in Seq(ZSetEntry) /\ Len(h) = N + 1
          /\ \A i \in 1 .. N + 1 : h[i] = IF i < p THEN l[i] ELSE IF i = p THEN node ELSE l[i - 1]
      <4>0. N = Len(l)
        OBVIOUS
      <4> HIDE DEF l, N
      <4>1. p \in 1 .. Len(l) /\ node \in ZSetEntry /\ l \in Seq(ZSetEntry)
        BY <1>1, <1>2, <3>3, <4>0
      <4>2. /\ InsertAt(l, p, node) \in Seq(ZSetEntry) /\ Len(InsertAt(l, p, node)) = Len(l) + 1
            /\ \A i \in 1 .. Len(l) + 1 :
                  InsertAt(l, p, node)[i] = IF i < p THEN l[i] ELSE IF i = p THEN node ELSE l[i - 1]
        BY ONLY <4>1, InsertAtShifts
      <4> QED BY <3>4, <4>0, <4>2
    <3>7. p \in 1 .. N + 1
      BY <1>1, <3>3
    <3> QED BY <3>3, <3>5, <3>6, <3>7
  <2> QED BY <2>1, <2>2
<1>5. r.length = N + 1
  BY <1>1 DEF zset_add
<1>6. r \in ZSet /\ r.length = Len(h)
  <2>1. r = [head |-> h, length |-> r.length]
    BY DEF zset_add
  <2> QED BY <1>1, <1>4, <1>5, <2>1 DEF ZSet
<1>7. PICK p \in 1 .. N + 1 :
         /\ h \in Seq(ZSetEntry) /\ Len(h) = N + 1
         /\ \A i \in 1 .. N + 1 : h[i] = IF i < p THEN l[i] ELSE IF i = p THEN node ELSE l[i - 1]
         /\ \A i \in 1 .. N : i < p => Before(l[i], s, m)
         /\ p <= N => ~Before(l[p], s, m)
  BY <1>4
<1> HIDE DEF h, node, l, N, r
<1> DEFINE At(i) == IF i < p THEN i ELSE i - 1
<1>8. /\ h[p] = node
      /\ \A i \in 1 .. N + 1 : i # p => At(i) \in 1 .. N /\ h[i] = l[At(i)]
  BY <1>1, <1>7
<1>9. \A k \in 1 .. N : k >= p => Before(node, l[k].score, l[k].member)
  <2> SUFFICES ASSUME NEW k \in 1 .. N, k >= p
               PROVE  Before(node, l[k].score, l[k].member)
    OBVIOUS
  <2>1. p \in 1 .. N /\ p <= N /\ (p < k \/ p = k)
    BY <1>1, <1>7
  <2>2. Before(node, l[p].score, l[p].member)
    <3>1. ~Before(l[p], node.score, node.member) /\ l[p].member # node.member
      BY <1>2, <1>3, <1>7, <2>1 DEF N, l, node
    <3> QED BY <1>1, <1>2, <2>1, <3>1, OrderOK
  <2>3. CASE p = k
    BY <2>2, <2>3
  <2>4. CASE p < k
    <3>1. Before(l[p], l[k].score, l[k].member)
      BY <1>1, <2>1, <2>4 DEF Sorted, N
    <3> QED BY <1>1, <1>2, <2>1, <2>2, <3>1, OrderOK
  <2> QED BY <2>1, <2>3, <2>4
<1>10. Sorted(h)
  <2> SUFFICES ASSUME NEW i \in 1 .. N + 1, NEW j \in 1 .. N + 1, i < j
               PROVE  Before(h[i], h[j].score, h[j].member)
    BY <1>7 DEF Sorted
  <2>1. CASE i # p /\ j # p
    <3>1. At(i) < At(j)
      BY <1>1, <1>7, <2>1
    <3> HIDE DEF At
    <3> QED BY <1>1, <1>8, <2>1, <3>1 DEF Sorted, N
  <2>2. CASE j = p
    <3>1. i \in 1 .. N /\ i < p /\ h[i] = l[i]
      BY <1>1, <1>7, <2>2
    <3> QED BY <1>2, <1>7, <1>8, <2>2, <3>1
  <2>3. CASE i = p
    <3>1. j # p /\ At(j) \in 1 .. N /\ At(j) >= p /\ h[j] = l[At(j)]
      BY <1>1, <1>7, <1>8, <2>3
    <3> HIDE DEF At
    <3> QED BY <1>8, <1>9, <2>3, <3>1
  <2> QED BY <2>1, <2>2, <2>3
<1>11. OneEach(h)
  <2> SUFFICES ASSUME NEW i \in 1 .. N + 1, NEW j \in 1 .. N + 1, h[i].member = h[j].member
               PROVE  i = j
    BY <1>7 DEF OneEach
  <2>0. \A k \in 1 .. N : l[k].member # node.member
    BY <1>2, <1>3 DEF N, l, node
  <2>1. CASE i # p /\ j # p
    <3>1. At(i) = At(j)
      <4> HIDE DEF At
      <4>1. /\ At(i) \in 1 .. N /\ At(j) \in 1 .. N
            /\ l[At(i)].member = l[At(j)].member
        BY <1>8, <2>1
      <4> QED BY <1>1, <4>1 DEF OneEach, N
    <3> QED BY <1>1, <1>7, <2>1, <3>1
  <2>2. CASE i = p /\ j # p
    BY <1>8, <2>0, <2>2
  <2>3. CASE i # p /\ j = p
    BY <1>8, <2>0, <2>3
  <2>4. CASE i = p /\ j = p
    BY <2>4
  <2> QED BY <2>1, <2>2, <2>3, <2>4
<1>12. ASSUME NEW e PROVE InList(e, h) <=> InList(e, l) \/ e = node
  <2>1. ASSUME InList(e, h) PROVE InList(e, l) \/ e = node
    BY <1>7, <1>8, <2>1 DEF InList, N
  <2>2. ASSUME e = node PROVE InList(e, h)
    BY <1>7, <1>8, <2>2 DEF InList
  <2>3. ASSUME InList(e, l) PROVE InList(e, h)
    <3>1. PICK k \in 1 .. N : l[k] = e
      BY <2>3 DEF InList, N
    <3>2. CASE k < p
      <4>1. k \in 1 .. N + 1 /\ h[k] = l[k]
        BY <1>1, <1>7, <3>2
      <4> QED BY <1>7, <3>1, <4>1 DEF InList
    <3>3. CASE ~(k < p)
      <4>1. k + 1 \in 1 .. N + 1 /\ h[k + 1] = l[k]
        <5>1. k + 1 \in 1 .. N + 1 /\ ~(k + 1 < p) /\ k + 1 # p /\ (k + 1) - 1 = k
          BY <1>1, <1>7, <3>3
        <5> QED BY <1>7, <5>1
      <4> QED BY <1>7, <3>1, <4>1 DEF InList
    <3> QED BY <3>2, <3>3
  <2> QED BY <2>1, <2>2, <2>3
<1> QED BY <1>6, <1>10, <1>11, <1>12 DEF ZSetOK, h, l, r, node

\* f[n] is the set after the first n pairs.
Adding(f, z, pairs, N) ==
    f = [n \in 0 .. N |-> IF n = 0 THEN z
                          ELSE zset_add(zset_remove(f[n - 1], pairs[n][2]), pairs[n][1], pairs[n][2])]

(* The sets AddPairs builds pair by pair exist, for any number of pairs.   *)
LEMMA AddingExist == ASSUME NEW z, NEW pairs, NEW N \in Nat PROVE \E f : Adding(f, z, pairs, N)
<1> DEFINE T == {m \in Nat : \E f : Adding(f, z, pairs, m)}
           NextSet(x, n) == zset_add(zset_remove(x, pairs[n][2]), pairs[n][1], pairs[n][2])
<1>1. 0 \in T
  <2> DEFINE f == [n \in 0 .. 0 |-> z]
  <2>1. Adding(f, z, pairs, 0)
    BY DEF Adding
  <2> HIDE DEF f
  <2> QED BY <2>1
<1>2. ASSUME NEW m \in Nat, m \in T PROVE m + 1 \in T
  <2>1. PICK f : Adding(f, z, pairs, m)
    BY <1>2
  <2>2. f = [n \in 0 .. m |-> IF n = 0 THEN z ELSE NextSet(f[n - 1], n)]
    BY <2>1 DEF Adding
  <2> DEFINE g == [n \in 0 .. m + 1 |-> IF n = m + 1 THEN NextSet(f[m], n) ELSE f[n]]
  <2> HIDE DEF NextSet
  <2>3. ASSUME NEW n \in 0 .. m + 1
        PROVE  g[n] = IF n = 0 THEN z ELSE NextSet(g[n - 1], n)
    <3>1. CASE n = 0
      <4>1. 0 \in 0 .. m + 1 /\ 0 \in 0 .. m /\ 0 # m + 1
        OBVIOUS
      <4>2. f[0] = z
        BY <2>2, <4>1
      <4> QED BY <3>1, <4>1, <4>2
    <3>2. CASE n = m + 1
      <4>1. n - 1 = m /\ m \in 0 .. m + 1 /\ m # m + 1 /\ n # 0
        BY <3>2
      <4>2. g[n - 1] = f[m]
        BY <4>1
      <4> QED BY <3>2, <4>1, <4>2
    <3>3. CASE n # 0 /\ n # m + 1
      <4>1. n \in 0 .. m /\ n - 1 \in 0 .. m + 1 /\ n - 1 # m + 1
        BY <3>3
      <4>2. g[n - 1] = f[n - 1] /\ g[n] = f[n]
        BY <3>3, <4>1
      <4>3. f[n] = NextSet(f[n - 1], n)
        BY <2>2, <3>3, <4>1
      <4> QED BY <3>3, <4>2, <4>3
    <3> QED BY <3>1, <3>2, <3>3
  <2>4. g = [n \in 0 .. m + 1 |-> g[n]]
    OBVIOUS
  <2> HIDE DEF g
  <2>5. g = [n \in 0 .. m + 1 |-> IF n = 0 THEN z ELSE NextSet(g[n - 1], n)]
    BY <2>3, <2>4
  <2>6. Adding(g, z, pairs, m + 1)
    BY <2>5 DEF Adding, NextSet
  <2> QED BY <2>6
<1> HIDE DEF T
<1>3. Nat \subseteq T
  BY <1>1, <1>2, NumberInduction
<1> QED BY <1>3 DEF T

\* f[0] is the set of before, and pair n of the command leads from f[n - 1] to f[n].
AddTurns(f, z, pairs, N) ==
    /\ f[0] = z
    /\ \A n \in 1 .. N :
          f[n] = zset_add(zset_remove(f[n - 1], pairs[n][2]), pairs[n][1], pairs[n][2])

(* What AddPairs computes, pair by pair.                                   *)
LEMMA AddPairsSteps ==
    ASSUME NEW z, NEW pairs, Len(pairs) \in Nat
    PROVE  \E f : AddPairs(z, pairs) = f[Len(pairs)] /\ AddTurns(f, z, pairs, Len(pairs))
<1> DEFINE N == Len(pairs)
           f == CHOOSE g : Adding(g, z, pairs, N)
<1>1. AddPairs(z, pairs) = f[N]
  BY DEF AddPairs, Adding
<1>2. Adding(f, z, pairs, N)
  BY AddingExist
<1> HIDE DEF f
<1>3. f = [n \in 0 .. N |-> IF n = 0 THEN z
                          ELSE zset_add(zset_remove(f[n - 1], pairs[n][2]), pairs[n][1], pairs[n][2])]
  BY <1>2 DEF Adding
<1>4. f[0] = z
  BY <1>3
<1>5. ASSUME NEW n \in 1 .. N
      PROVE  f[n] = zset_add(zset_remove(f[n - 1], pairs[n][2]), pairs[n][1], pairs[n][2])
  <2>1. n \in 0 .. N /\ n # 0
    OBVIOUS
  <2> QED BY <1>3, <2>1
<1> QED BY <1>1, <1>4, <1>5 DEF AddTurns

\* f[n] is the set after the first n members.
Removing(f, z, ms, N) ==
    f = [n \in 0 .. N |-> IF n = 0 THEN z
                          ELSE zset_remove(f[n - 1], ms[n])]

(* The sets RemoveMembers builds member by member exist.                   *)
LEMMA RemovingExist == ASSUME NEW z, NEW ms, NEW N \in Nat PROVE \E f : Removing(f, z, ms, N)
<1> DEFINE T == {m \in Nat : \E f : Removing(f, z, ms, m)}
           NextSet(x, n) == zset_remove(x, ms[n])
<1>1. 0 \in T
  <2> DEFINE f == [n \in 0 .. 0 |-> z]
  <2>1. Removing(f, z, ms, 0)
    BY DEF Removing
  <2> HIDE DEF f
  <2> QED BY <2>1
<1>2. ASSUME NEW m \in Nat, m \in T PROVE m + 1 \in T
  <2>1. PICK f : Removing(f, z, ms, m)
    BY <1>2
  <2>2. f = [n \in 0 .. m |-> IF n = 0 THEN z ELSE NextSet(f[n - 1], n)]
    BY <2>1 DEF Removing
  <2> DEFINE g == [n \in 0 .. m + 1 |-> IF n = m + 1 THEN NextSet(f[m], n) ELSE f[n]]
  <2> HIDE DEF NextSet
  <2>3. ASSUME NEW n \in 0 .. m + 1
        PROVE  g[n] = IF n = 0 THEN z ELSE NextSet(g[n - 1], n)
    <3>1. CASE n = 0
      <4>1. 0 \in 0 .. m + 1 /\ 0 \in 0 .. m /\ 0 # m + 1
        OBVIOUS
      <4>2. f[0] = z
        BY <2>2, <4>1
      <4> QED BY <3>1, <4>1, <4>2
    <3>2. CASE n = m + 1
      <4>1. n - 1 = m /\ m \in 0 .. m + 1 /\ m # m + 1 /\ n # 0
        BY <3>2
      <4>2. g[n - 1] = f[m]
        BY <4>1
      <4> QED BY <3>2, <4>1, <4>2
    <3>3. CASE n # 0 /\ n # m + 1
      <4>1. n \in 0 .. m /\ n - 1 \in 0 .. m + 1 /\ n - 1 # m + 1
        BY <3>3
      <4>2. g[n - 1] = f[n - 1] /\ g[n] = f[n]
        BY <3>3, <4>1
      <4>3. f[n] = NextSet(f[n - 1], n)
        BY <2>2, <3>3, <4>1
      <4> QED BY <3>3, <4>2, <4>3
    <3> QED BY <3>1, <3>2, <3>3
  <2>4. g = [n \in 0 .. m + 1 |-> g[n]]
    OBVIOUS
  <2> HIDE DEF g
  <2>5. g = [n \in 0 .. m + 1 |-> IF n = 0 THEN z ELSE NextSet(g[n - 1], n)]
    BY <2>3, <2>4
  <2>6. Removing(g, z, ms, m + 1)
    BY <2>5 DEF Removing, NextSet
  <2> QED BY <2>6
<1> HIDE DEF T
<1>3. Nat \subseteq T
  BY <1>1, <1>2, NumberInduction
<1> QED BY <1>3 DEF T

\* f[0] is the set of before, and member n of the command leads from f[n - 1] to f[n].
RemoveTurns(f, z, ms, N) ==
    /\ f[0] = z
    /\ \A n \in 1 .. N : f[n] = zset_remove(f[n - 1], ms[n])

(* What RemoveMembers computes, member by member.                          *)
LEMMA RemoveMembersSteps ==
    ASSUME NEW z, NEW ms, Len(ms) \in Nat
    PROVE  \E f : RemoveMembers(z, ms) = f[Len(ms)] /\ RemoveTurns(f, z, ms, Len(ms))
<1> DEFINE N == Len(ms)
           f == CHOOSE g : Removing(g, z, ms, N)
<1>1. RemoveMembers(z, ms) = f[N]
  BY DEF RemoveMembers, Removing
<1>2. Removing(f, z, ms, N)
  BY RemovingExist
<1> HIDE DEF f
<1>3. f = [n \in 0 .. N |-> IF n = 0 THEN z
                          ELSE zset_remove(f[n - 1], ms[n])]
  BY <1>2 DEF Removing
<1>4. f[0] = z
  BY <1>3
<1>5. ASSUME NEW n \in 1 .. N
      PROVE  f[n] = zset_remove(f[n - 1], ms[n])
  <2>1. n \in 0 .. N /\ n # 0
    OBVIOUS
  <2> QED BY <1>3, <2>1
<1> QED BY <1>1, <1>4, <1>5 DEF RemoveTurns

(* A set of positions that is not empty has a last one.                    *)
LEMMA LastPosition ==
    ASSUME NEW K \in Nat, NEW I, I \subseteq 1 .. K, I # {}
    PROVE  \E i \in I : \A j \in I : j <= i
<1> DEFINE D == {K - i : i \in I}
<1>1. D \subseteq Nat /\ D # {}
  <2>1. \A i \in I : K - i \in Nat
    OBVIOUS
  <2> QED BY <2>1
<1>2. PICK d \in D : \A y \in D : d <= y
  BY <1>1, LeastNumber
<1>3. PICK i \in I : d = K - i
  BY <1>2
<1>4. ASSUME NEW j \in I PROVE j <= i
  <2>1. K - i <= K - j /\ i \in Nat /\ j \in Nat
    BY <1>2, <1>3
  <2> QED BY <2>1
<1> QED BY <1>4

(* What is in the list is a node.                                          *)
LEMMA ListedNode ==
    ASSUME NEW z, ZSetOK(z), NEW e, InList(e, z.head)
    PROVE  e \in ZSetEntry
<1>1. z.head \in Seq(ZSetEntry)
  BY DEF ZSetOK, ZSet
<1> QED BY <1>1, ElementOfSeq DEF InList

\* After n pairs the list holds e: the last of them for its member says so, or
\* none is for its member and it was there before.
Latest(z, pairs, n, e) ==
    \/ \E i \in 1 .. n : /\ pairs[i][1] = e.score /\ pairs[i][2] = e.member
                        /\ \A j \in i + 1 .. n : pairs[j][2] # e.member
    \/ InList(e, z.head) /\ \A j \in 1 .. n : pairs[j][2] # e.member

(* One more pair replaces the score of its member, and no other.           *)
LEMMA LatestStep ==
    ASSUME NEW z, NEW pairs, NEW n \in Nat, NEW e
    PROVE  Latest(z, pairs, n + 1, e) <=>
              \/ pairs[n + 1][1] = e.score /\ pairs[n + 1][2] = e.member
              \/ Latest(z, pairs, n, e) /\ pairs[n + 1][2] # e.member
<1> DEFINE here == pairs[n + 1][1] = e.score /\ pairs[n + 1][2] = e.member
           P(i) == pairs[i][1] = e.score /\ pairs[i][2] = e.member
           Q(j) == pairs[j][2] # e.member
           X == InList(e, z.head)
<1>1. /\ Latest(z, pairs, n + 1, e) <=> \/ \E i \in 1 .. n + 1 : P(i) /\ \A j \in i + 1 .. n + 1 : Q(j)
                                        \/ X /\ \A j \in 1 .. n + 1 : Q(j)
      /\ Latest(z, pairs, n, e) <=> \/ \E i \in 1 .. n : P(i) /\ \A j \in i + 1 .. n : Q(j)
                                    \/ X /\ \A j \in 1 .. n : Q(j)
  BY DEF Latest
<1>2. P(n + 1) => ~Q(n + 1)
  OBVIOUS
<1> HIDE DEF P, Q, X
<1>3. \A i \in 1 .. n : (\A j \in i + 1 .. n + 1 : Q(j)) <=> (\A j \in i + 1 .. n : Q(j)) /\ Q(n + 1)
  <2> SUFFICES ASSUME NEW i \in 1 .. n
               PROVE  (\A j \in i + 1 .. n + 1 : Q(j)) <=> (\A j \in i + 1 .. n : Q(j)) /\ Q(n + 1)
    OBVIOUS
  <2>1. i + 1 .. n + 1 = (i + 1 .. n) \cup {n + 1}
    OBVIOUS
  <2> QED BY <2>1
<1>4. (\A j \in 1 .. n + 1 : Q(j)) <=> (\A j \in 1 .. n : Q(j)) /\ Q(n + 1)
  <2>1. 1 .. n + 1 = (1 .. n) \cup {n + 1}
    OBVIOUS
  <2> QED BY <2>1
<1>5. (\E i \in 1 .. n + 1 : P(i) /\ \A j \in i + 1 .. n + 1 : Q(j))
         <=> \/ P(n + 1)
             \/ \E i \in 1 .. n : P(i) /\ \A j \in i + 1 .. n + 1 : Q(j)
  <2>1. 1 .. n + 1 = (1 .. n) \cup {n + 1}
    OBVIOUS
  <2>2. (n + 1) + 1 .. n + 1 = {}
    OBVIOUS
  <2> QED BY <2>1, <2>2
<1>6. Latest(z, pairs, n + 1, e) <=> P(n + 1) \/ (Latest(z, pairs, n, e) /\ Q(n + 1))
  BY <1>1, <1>3, <1>4, <1>5
<1> QED BY <1>6 DEF P, Q

(* The pairs of a command leave a list in order, with the last score of    *)
(* each of its members.                                                    *)
LEMMA AddPairsOK ==
    ASSUME NEW z, ZSetOK(z), NEW N \in Nat, NEW pairs \in [1 .. N -> Scores \X Members]
    PROVE  /\ ZSetOK(AddPairs(z, pairs))
           /\ \A e \in ZSetEntry : InList(e, AddPairs(z, pairs).head) <=> Latest(z, pairs, N, e)
<1>1. Len(pairs) = N
  BY FunctionIsSeq
<1>2. PICK f : AddPairs(z, pairs) = f[N] /\ AddTurns(f, z, pairs, N)
  BY <1>1, AddPairsSteps
<1> DEFINE T == {n \in Nat : n <= N =>
                    /\ ZSetOK(f[n])
                    /\ \A e \in ZSetEntry : InList(e, f[n].head) <=> Latest(z, pairs, n, e)}
<1>3. 0 \in T
  <2>1. \A e : Latest(z, pairs, 0, e) <=> InList(e, z.head)
    BY DEF Latest
  <2> QED BY <1>2, <2>1 DEF AddTurns
<1>4. ASSUME NEW n \in Nat, n \in T PROVE n + 1 \in T
  <2> SUFFICES ASSUME n + 1 <= N
               PROVE  /\ ZSetOK(f[n + 1])
                      /\ \A e \in ZSetEntry :
                            InList(e, f[n + 1].head) <=> Latest(z, pairs, n + 1, e)
    OBVIOUS
  <2> DEFINE s == pairs[n + 1][1]
             m == pairs[n + 1][2]
             r == zset_remove(f[n], m)
  <2>1. n + 1 \in 1 .. N /\ (n + 1) - 1 = n /\ n <= N
    OBVIOUS
  <2>2. s \in Scores /\ m \in Members
    BY <2>1
  <2>3. /\ ZSetOK(f[n])
        /\ \A e \in ZSetEntry : InList(e, f[n].head) <=> Latest(z, pairs, n, e)
    BY <1>4, <2>1
  <2>4. f[n + 1] = zset_add(r, s, m)
    BY <1>2, <2>1 DEF AddTurns
  <2> HIDE DEF T, s, m, r
  <2>5. /\ ZSetOK(r)
        /\ \A e : InList(e, r.head) <=> InList(e, f[n].head) /\ e.member # m
    BY <2>3, RemoveOK DEF r
  <2>6. /\ ZSetOK(f[n + 1])
        /\ \A e : InList(e, f[n + 1].head) <=> InList(e, r.head) \/ e = [member |-> m, score |-> s]
    BY <2>2, <2>4, <2>5, AddOK
  <2>7. ASSUME NEW e \in ZSetEntry
        PROVE  InList(e, f[n + 1].head) <=> Latest(z, pairs, n + 1, e)
    <3>1. e = [member |-> m, score |-> s] <=> s = e.score /\ m = e.member
      BY DEF ZSetEntry
    <3>2. Latest(z, pairs, n + 1, e) <=>
             \/ s = e.score /\ m = e.member
             \/ Latest(z, pairs, n, e) /\ m # e.member
      BY LatestStep DEF s, m
    <3> QED BY <2>3, <2>5, <2>6, <3>1, <3>2
  <2> QED BY <2>6, <2>7
<1> HIDE DEF T
<1>5. Nat \subseteq T
  BY <1>3, <1>4, NumberInduction
<1> QED BY <1>2, <1>5 DEF T

\* None of the first n members is that of the node e.
Kept(z, ms, n, e) == InList(e, z.head) /\ \A i \in 1 .. n : ms[i] # e.member

(* The members of a command leave a list in order without their nodes.     *)
LEMMA RemoveMembersOK ==
    ASSUME NEW z, ZSetOK(z), NEW N \in Nat, NEW ms \in [1 .. N -> Members]
    PROVE  /\ ZSetOK(RemoveMembers(z, ms))
           /\ \A e : InList(e, RemoveMembers(z, ms).head) <=> Kept(z, ms, N, e)
<1>1. Len(ms) = N
  BY FunctionIsSeq
<1>2. PICK f : RemoveMembers(z, ms) = f[N] /\ RemoveTurns(f, z, ms, N)
  BY <1>1, RemoveMembersSteps
<1> DEFINE T == {n \in Nat : n <= N =>
                    ZSetOK(f[n]) /\ \A e : InList(e, f[n].head) <=> Kept(z, ms, n, e)}
<1>3. 0 \in T
  BY <1>2 DEF Kept, RemoveTurns
<1>4. ASSUME NEW n \in Nat, n \in T PROVE n + 1 \in T
  <2> SUFFICES ASSUME n + 1 <= N
               PROVE  ZSetOK(f[n + 1]) /\ \A e : InList(e, f[n + 1].head) <=> Kept(z, ms, n + 1, e)
    OBVIOUS
  <2>1. n + 1 \in 1 .. N /\ (n + 1) - 1 = n /\ n <= N
    OBVIOUS
  <2>2. ZSetOK(f[n]) /\ \A e : InList(e, f[n].head) <=> Kept(z, ms, n, e)
    BY <1>4, <2>1
  <2>3. f[n + 1] = zset_remove(f[n], ms[n + 1])
    BY <1>2, <2>1 DEF RemoveTurns
  <2>4. /\ ZSetOK(f[n + 1])
        /\ \A e : InList(e, f[n + 1].head) <=> InList(e, f[n].head) /\ e.member # ms[n + 1]
    BY <2>2, <2>3, RemoveOK
  <2>5. \A e : Kept(z, ms, n + 1, e) <=> Kept(z, ms, n, e) /\ e.member # ms[n + 1]
    <3>1. 1 .. n + 1 = (1 .. n) \cup {n + 1}
      OBVIOUS
    <3> QED BY <3>1 DEF Kept
  <2> QED BY <2>2, <2>4, <2>5
<1> HIDE DEF T
<1>5. Nat \subseteq T
  BY <1>3, <1>4, NumberInduction
<1> QED BY <1>2, <1>5 DEF T

-----------------------------------------------------------------------------
(* The inductive invariant: the list is in order, without doubles, and     *)
(* holds the history's scores.                                             *)

ScoresOK == score \in [Members -> Scores \cup {Nil}]

HoldsScores(z) ==
    ZSetOK(z) /\ \A e \in ZSetEntry : InList(e, z.head) <=> score[e.member] = e.score

ZSetInv ==
    /\ ScoresOK
    /\ zset = Nil => Given = {}
    /\ zset # Nil => HoldsScores(zset)

(* A set that exists is not the missing one.                               *)
LEMMA SetIsNotNil == ASSUME NEW z, ZSetOK(z) PROVE z # Nil
  BY SortedSetsAssumption DEF ZSetOK

(* The set a command works on.                                             *)
LEMMA OpenedOK == ASSUME ZSetInv PROVE HoldsScores(Opened)
<1>1. CASE zset # Nil
  BY <1>1 DEF ZSetInv, Opened
<1>2. CASE zset = Nil
  <2>1. Opened = [head |-> <<>>, length |-> 0]
    BY <1>2 DEF Opened
  <2>2. <<>> \in Seq(ZSetEntry) /\ Len(<<>>) = 0
    BY EmptySeq
  <2>3. Opened.head = <<>> /\ Opened.length = 0 /\ Opened \in ZSet
    BY <2>1, <2>2 DEF ZSet
  <2>4. ZSetOK(Opened) /\ \A e : ~InList(e, Opened.head)
    BY <2>2, <2>3 DEF ZSetOK, Sorted, OneEach, InList
  <2>5. \A e \in ZSetEntry : score[e.member] # e.score
    <3>1. \A m \in Members : score[m] = Nil
      BY <1>2 DEF ZSetInv, Given
    <3> QED BY <3>1, SortedSetsAssumption DEF ZSetEntry
  <2> QED BY <2>4, <2>5 DEF HoldsScores
<1> QED BY <1>1, <1>2

(* The history and the list take the same pair of a command for the last   *)
(* one of a member.                                                        *)
LEMMA LastScoreOK ==
    ASSUME ScoresOK, NEW z, HoldsScores(z),
           NEW N \in Nat, NEW pairs \in [1 .. N -> Scores \X Members]
    PROVE  /\ \A m \in Members : LastScore(pairs, m) \in Scores \cup {Nil}
           /\ \A e \in ZSetEntry : Latest(z, pairs, N, e) <=> LastScore(pairs, e.member) = e.score
<1>1. Len(pairs) = N
  BY FunctionIsSeq
<1> DEFINE I(m) == {n \in 1 .. N : pairs[n][2] = m}
           L(m) == CHOOSE n \in I(m) : \A j \in I(m) : j <= n
<1>2. \A m : LastScore(pairs, m) = IF I(m) = {} THEN score[m] ELSE pairs[L(m)][1]
  BY <1>1 DEF LastScore
<1>3. ASSUME NEW m, I(m) # {}
      PROVE  L(m) \in I(m) /\ \A j \in I(m) : j <= L(m)
  <2>1. I(m) \subseteq 1 .. N
    OBVIOUS
  <2>2. \E i \in I(m) : \A j \in I(m) : j <= i
    BY <1>3, <2>1, LastPosition
  <2> QED BY <2>2
<1>4. \A m, n : n \in I(m) <=> n \in 1 .. N /\ pairs[n][2] = m
  OBVIOUS
<1> HIDE DEF I, L
<1>5. ASSUME NEW m \in Members PROVE LastScore(pairs, m) \in Scores \cup {Nil}
  <2>1. CASE I(m) = {}
    BY <1>2, <2>1 DEF ScoresOK
  <2>2. CASE I(m) # {}
    <3>1. L(m) \in 1 .. N
      BY <1>3, <1>4, <2>2
    <3>2. pairs[L(m)] \in Scores \X Members
      BY <3>1
    <3> QED BY <1>2, <2>2, <3>2
  <2> QED BY <2>1, <2>2
<1>6. ASSUME NEW e \in ZSetEntry
      PROVE  Latest(z, pairs, N, e) <=> LastScore(pairs, e.member) = e.score
  <2> DEFINE m == e.member
  <2>1. CASE I(m) = {}
    <3>1. \A j \in 1 .. N : pairs[j][2] # m
      BY <1>4, <2>1
    <3>2. Latest(z, pairs, N, e) <=> InList(e, z.head)
      BY <3>1 DEF Latest
    <3> QED BY <1>2, <2>1, <3>2 DEF HoldsScores
  <2>2. CASE I(m) # {}
    <3> DEFINE k == L(m)
    <3>1. k \in 1 .. N /\ pairs[k][2] = m
      BY <1>3, <1>4, <2>2
    <3>2. \A j \in 1 .. N : pairs[j][2] = m => j <= k
      BY <1>3, <1>4, <2>2
    <3> HIDE DEF k
    <3>3. \A j \in k + 1 .. N : pairs[j][2] # m
      <4> SUFFICES ASSUME NEW j \in k + 1 .. N, pairs[j][2] = m PROVE FALSE
        OBVIOUS
      <4>1. j \in 1 .. N /\ ~(j <= k)
        BY <3>1
      <4> QED BY <3>2, <4>1
    <3>4. \A i \in 1 .. N : pairs[i][2] = m /\ (\A j \in i + 1 .. N : pairs[j][2] # m) => i = k
      <4> SUFFICES ASSUME NEW i \in 1 .. N, pairs[i][2] = m, i # k,
                          \A j \in i + 1 .. N : pairs[j][2] # m
                   PROVE  FALSE
        OBVIOUS
      <4>1. i <= k
        BY <3>2
      <4>2. k \in i + 1 .. N
        BY <3>1, <4>1
      <4> QED BY <3>1, <4>2
    <3>5. Latest(z, pairs, N, e) <=> pairs[k][1] = e.score
      BY <3>1, <3>3, <3>4 DEF Latest
    <3> QED BY <1>2, <2>2, <3>5 DEF k
  <2> QED BY <2>1, <2>2
<1> QED BY <1>5, <1>6

(* ZADD keeps the invariant.                                               *)
LEMMA AddStep ==
    ASSUME ZSetInv, NEW N \in Nat, NEW pairs \in [1 .. N -> Scores \X Members], ZADD(pairs)
    PROVE  ZSetInv'
<1>1. zset' = AddPairs(Opened, pairs) /\ score' = [m \in Members |-> LastScore(pairs, m)]
  BY DEF ZADD
<1>2. ScoresOK /\ HoldsScores(Opened) /\ ZSetOK(Opened)
  BY OpenedOK DEF ZSetInv, HoldsScores
<1>3. /\ \A m \in Members : LastScore(pairs, m) \in Scores \cup {Nil}
      /\ \A e \in ZSetEntry : Latest(Opened, pairs, N, e) <=> LastScore(pairs, e.member) = e.score
  BY <1>2, LastScoreOK
<1>4. /\ ZSetOK(zset')
      /\ \A e \in ZSetEntry : InList(e, zset'.head) <=> Latest(Opened, pairs, N, e)
  BY <1>1, <1>2, AddPairsOK
<1>5. ScoresOK'
  BY <1>1, <1>3 DEF ScoresOK
<1>6. zset' # Nil
  BY <1>4, SetIsNotNil
<1>7. \A e \in ZSetEntry : InList(e, zset'.head) <=> score'[e.member] = e.score
  <2>1. \A e \in ZSetEntry : score'[e.member] = LastScore(pairs, e.member)
    BY <1>1 DEF ZSetEntry
  <2> QED BY <1>3, <1>4, <2>1
<1> QED BY <1>4, <1>5, <1>6, <1>7 DEF ZSetInv, HoldsScores

(* ZREM keeps the invariant.                                               *)
LEMMA RemoveStep ==
    ASSUME ZSetInv, NEW N \in Nat, NEW ms \in [1 .. N -> Members], ZREM(ms)
    PROVE  ZSetInv'
<1>1. /\ zset # Nil /\ zset' = RemoveMembers(zset, ms)
      /\ score' = [m \in Members |-> IF Contains(ms, m) THEN Nil ELSE score[m]]
  BY DEF ZREM
<1>2. ScoresOK /\ HoldsScores(zset) /\ ZSetOK(zset)
  BY <1>1 DEF ZSetInv, HoldsScores
<1>3. ZSetOK(zset') /\ \A e : InList(e, zset'.head) <=> Kept(zset, ms, N, e)
  BY <1>1, <1>2, RemoveMembersOK
<1>4. \A m : Contains(ms, m) <=> \E i \in 1 .. N : ms[i] = m
  <2>1. Len(ms) = N
    BY FunctionIsSeq
  <2> QED BY <2>1 DEF Contains
<1>5. ScoresOK'
  BY <1>1, <1>2 DEF ScoresOK
<1>6. zset' # Nil
  BY <1>3, SetIsNotNil
<1>7. ASSUME NEW e \in ZSetEntry
      PROVE  InList(e, zset'.head) <=> score'[e.member] = e.score
  <2>1. e.member \in Members /\ e.score # Nil
    BY SortedSetsAssumption DEF ZSetEntry
  <2>2. InList(e, zset.head) <=> score[e.member] = e.score
    BY <1>2 DEF HoldsScores
  <2> QED BY <1>1, <1>3, <1>4, <2>1, <2>2 DEF Kept
<1> QED BY <1>3, <1>5, <1>6, <1>7 DEF ZSetInv, HoldsScores

(* Every command on the set keeps the invariant.                           *)
LEMMA ZSetStep == ASSUME ZSetInv, [ZSetNext]_zsetVars PROVE ZSetInv'
<1>1. ASSUME NEW n \in 1 .. MaxArgs, NEW pairs \in [1 .. n -> Scores \X Members], ZADD(pairs)
      PROVE  ZSetInv'
  <2>1. n \in Nat
    BY SortedSetsAssumption
  <2> QED BY <1>1, <2>1, AddStep
<1>2. ASSUME NEW n \in 1 .. MaxArgs, NEW places \in [1 .. n -> Places \X Members], GEOADD(places)
      PROVE  ZSetInv'
  <2> DEFINE pairs == [i \in 1 .. Len(places) |-> <<geo_encode[places[i][1]], places[i][2]>>]
  <2>1. n \in Nat
    BY SortedSetsAssumption
  <2>2. Len(places) = n
    BY <2>1, FunctionIsSeq
  <2>3. \A i \in 1 .. n : geo_encode[places[i][1]] \in Scores /\ places[i][2] \in Members
    BY SortedSetsAssumption
  <2>4. pairs \in [1 .. n -> Scores \X Members]
    BY <2>2, <2>3
  <2>5. ZADD(pairs)
    BY <1>2 DEF GEOADD
  <2> HIDE DEF pairs
  <2> QED BY <2>1, <2>4, <2>5, AddStep
<1>3. ASSUME NEW n \in 1 .. MaxArgs, NEW ms \in [1 .. n -> Members], ZREM(ms)
      PROVE  ZSetInv'
  <2>1. n \in Nat
    BY SortedSetsAssumption
  <2> QED BY <1>3, <2>1, RemoveStep
<1>4. CASE GEOSEARCH
  <2>1. HoldsScores(Opened) /\ ScoresOK
    BY OpenedOK DEF ZSetInv
  <2>2. zset' = Opened /\ score' = score
    BY <1>4 DEF GEOSEARCH
  <2>3. zset' # Nil
    BY <2>1, <2>2, SetIsNotNil DEF HoldsScores
  <2> QED BY <2>1, <2>2, <2>3 DEF ZSetInv, HoldsScores, ScoresOK
<1>5. CASE UNCHANGED zsetVars
  BY <1>5 DEF zsetVars, ZSetInv, HoldsScores, ScoresOK, Given
<1> QED BY <1>1, <1>2, <1>3, <1>4, <1>5 DEF ZSetNext

(* The key without a set satisfies the invariant.                          *)
LEMMA ZSetStart == ZSetInit => ZSetInv
  BY DEF ZSetInit, ZSetInv, ScoresOK, Given

(* The invariant holds for every set of members, scores and places and     *)
(* every length of a command.                                              *)
LEMMA ZSetInvariant == ZSetSpec => []ZSetInv
  BY ZSetStart, ZSetStep, PTL DEF ZSetSpec

-----------------------------------------------------------------------------
(* What the reading commands answer.                                       *)

(* The members at the first k positions of a list without doubles are k.   *)
LEMMA CountMembers ==
    ASSUME NEW l, NEW k \in Nat, k <= Len(l), Len(l) \in Nat, OneEach(l)
    PROVE  Cardinality({l[i].member : i \in 1 .. k}) = k
<1> DEFINE S == {l[i].member : i \in 1 .. k}
           f == [i \in 1 .. k |-> l[i].member]
<1>1. f \in [1 .. k -> S] /\ \A s \in S : \E i \in 1 .. k : f[i] = s
  OBVIOUS
<1>2. \A i, j \in 1 .. k : f[i] = f[j] => i = j
  BY DEF OneEach
<1> HIDE DEF f, S
<1>3. f \in Bijection(1 .. k, S)
  <2>1. DOMAIN f = 1 .. k
    BY <1>1
  <2> QED BY <1>1, <1>2, <2>1 DEF Bijection, Injection, Surjection, IsInjective
<1>4. ExistsBijection(1 .. k, S)
  BY <1>3 DEF ExistsBijection
<1>5. IsFiniteSet(1 .. k) /\ Cardinality(1 .. k) = k
  BY FS_Interval
<1>6. Cardinality(S) = Cardinality(1 .. k)
  BY <1>4, <1>5, FS_Bijection
<1> QED BY <1>5, <1>6 DEF S

(* The list against the history, position by position.                     *)
LEMMA Positions ==
    ASSUME ZSetInv, zset # Nil
    PROVE  /\ zset \in ZSet /\ zset.length = Len(zset.head) /\ Len(zset.head) \in Nat
           /\ OneEach(zset.head)
           /\ \A i \in 1 .. Len(zset.head) :
                 /\ zset.head[i].member \in Given
                 /\ score[zset.head[i].member] = zset.head[i].score
           /\ \A m \in Given : \E i \in 1 .. Len(zset.head) : zset.head[i].member = m
           /\ \A i, j \in 1 .. Len(zset.head) :
                 i < j <=> Less(zset.head[i].member, zset.head[j].member)
<1> DEFINE l == zset.head
<1>1. /\ zset \in ZSet /\ zset.length = Len(l) /\ Sorted(l) /\ OneEach(l)
      /\ \A e \in ZSetEntry : InList(e, l) <=> score[e.member] = e.score
      /\ ScoresOK
  BY DEF ZSetInv, HoldsScores, ZSetOK
<1>2. l \in Seq(ZSetEntry) /\ Len(l) \in Nat /\ \A i \in 1 .. Len(l) : l[i] \in ZSetEntry
  BY <1>1, LenProperties, ElementOfSeq DEF ZSet
<1> HIDE DEF l
<1>3. ASSUME NEW i \in 1 .. Len(l)
      PROVE  l[i].member \in Given /\ score[l[i].member] = l[i].score
  <2>1. InList(l[i], l) /\ l[i] \in ZSetEntry
    BY <1>2 DEF InList
  <2>2. score[l[i].member] = l[i].score
    BY <1>1, <2>1
  <2>3. l[i].member \in Members /\ l[i].score # Nil
    BY <2>1, SortedSetsAssumption DEF ZSetEntry
  <2> QED BY <2>2, <2>3 DEF Given
<1>4. ASSUME NEW m \in Given PROVE \E i \in 1 .. Len(l) : l[i].member = m
  <2> DEFINE e == [member |-> m, score |-> score[m]]
  <2>1. e \in ZSetEntry
    BY <1>1 DEF Given, ScoresOK, ZSetEntry
  <2>2. InList(e, l)
    BY <1>1, <2>1
  <2> QED BY <2>2 DEF InList
<1>5. ASSUME NEW i \in 1 .. Len(l), NEW j \in 1 .. Len(l)
      PROVE  i < j <=> Less(l[i].member, l[j].member)
  <2>1. \A a, b \in 1 .. Len(l) :
           Less(l[a].member, l[b].member) <=> Before(l[a], l[b].score, l[b].member)
    BY <1>3 DEF Less, Before
  <2>2. i < j => Before(l[i], l[j].score, l[j].member)
    BY <1>1 DEF Sorted
  <2>3. j < i => ~Before(l[i], l[j].score, l[j].member)
    <3> SUFFICES ASSUME j < i, Before(l[i], l[j].score, l[j].member) PROVE FALSE
      OBVIOUS
    <3>1. Before(l[j], l[i].score, l[i].member)
      BY <1>1 DEF Sorted
    <3>2. Before(l[i], l[i].score, l[i].member)
      BY <1>2, <3>1, OrderOK
    <3> QED BY <1>2, <3>2, OrderOK
  <2>4. i = j => ~Before(l[i], l[j].score, l[j].member)
    BY <1>2, OrderOK
  <2>5. i < j \/ j < i \/ i = j
    BY <1>2
  <2> QED BY <2>1, <2>2, <2>3, <2>4, <2>5
<1> QED BY <1>1, <1>2, <1>3, <1>4, <1>5 DEF l

(* ZRANK finds the position of a member.                                   *)
LEMMA RankIsPosition ==
    ASSUME ZSetInv, zset # Nil
    PROVE  /\ \A i \in 1 .. Len(zset.head) : ZRANK(zset.head[i].member) = i - 1
           /\ \A m : m \notin Given => ZRANK(m) = Nil
<1> DEFINE l == zset.head
           N == Len(l)
           I(m) == {i \in 1 .. N : l[i].member = m}
<1>1. /\ zset \in ZSet /\ zset.length = N /\ N \in Nat /\ OneEach(l)
      /\ \A i \in 1 .. N : l[i].member \in Given
  BY Positions
<1>2. SubSeq(l, 1, zset.length) = l
  BY <1>1, SubSeqFull DEF ZSet
<1>4. ASSUME NEW m PROVE ZRANK(m) = LET at == IF I(m) # {} THEN Min(I(m)) ELSE 0
                                    IN  IF at = 0 THEN Nil ELSE at - 1
  BY <1>2 DEF ZRANK, SelectInSeq
<1>5. ASSUME NEW i \in 1 .. N PROVE ZRANK(l[i].member) = i - 1
  <2> DEFINE m == l[i].member
  <2>1. I(m) = {i}
    BY <1>1 DEF OneEach
  <2>2. Min({i}) = i
    <3>1. {i} \subseteq Nat /\ {i} # {}
      OBVIOUS
    <3>2. Min({i}) \in {i}
      BY <3>1, FirstPosition
    <3> QED BY <3>2
  <2> HIDE DEF I, m, l, N
  <2>3. i # 0 /\ I(m) # {} /\ Min(I(m)) = i
    BY <1>1, <2>1, <2>2
  <2>4. ZRANK(m) = i - 1
    BY <1>4, <2>3
  <2> QED BY <2>4 DEF m
<1>6. ASSUME NEW m, m \notin Given PROVE ZRANK(m) = Nil
  <2>1. I(m) = {}
    BY <1>1, <1>6
  <2> QED BY <1>4, <2>1
<1> QED BY <1>5, <1>6

(* The number of members, and of those before a member.                    *)
LEMMA CountsAreRight ==
    ASSUME ZSetInv, zset # Nil
    PROVE  /\ Cardinality(Given) = Len(zset.head)
           /\ \A i \in 1 .. Len(zset.head) : RankOf(zset.head[i].member) = i - 1
<1> DEFINE l == zset.head
           N == Len(l)
<1>1. /\ N \in Nat /\ OneEach(l)
      /\ \A i \in 1 .. N : l[i].member \in Given
      /\ \A m \in Given : \E i \in 1 .. N : l[i].member = m
      /\ \A i, j \in 1 .. N : i < j <=> Less(l[i].member, l[j].member)
  BY Positions
<1> HIDE DEF l, N
<1>2. Given = {l[i].member : i \in 1 .. N}
  BY <1>1
<1>3. Cardinality({l[i].member : i \in 1 .. N}) = N
  BY <1>1, CountMembers DEF N
<1>4. ASSUME NEW p \in 1 .. N PROVE RankOf(l[p].member) = p - 1
  <2> DEFINE m == l[p].member
             B == {n \in Given : Less(n, m)}
             C == {l[i].member : i \in 1 .. p - 1}
  <2>1. ASSUME NEW n \in B PROVE n \in C
    <3>1. PICK i \in 1 .. N : l[i].member = n
      BY <1>1
    <3>2. i < p
      BY <1>1, <3>1
    <3>3. i \in 1 .. p - 1
      BY <1>1, <3>2
    <3> QED BY <3>1, <3>3
  <2>2. ASSUME NEW i \in 1 .. p - 1 PROVE l[i].member \in B
    <3>1. i \in 1 .. N /\ i < p
      BY <1>1
    <3> QED BY <1>1, <3>1
  <2>3. B = C
    BY <2>1, <2>2
  <2>4. Cardinality(C) = p - 1
    <3>1. p - 1 \in Nat /\ p - 1 <= N
      BY <1>1
    <3> QED BY <1>1, <3>1, CountMembers DEF N
  <2> QED BY <2>3, <2>4 DEF RankOf
<1> QED BY <1>2, <1>3, <1>4 DEF l, N

(* The invariant says that the list holds the last scores.                 *)
LEMMA ScoresAreHeld == ZSetInv => HoldsLastScores
<1> SUFFICES ASSUME ZSetInv PROVE HoldsLastScores
  OBVIOUS
<1>1. CASE zset = Nil
  <2>1. Given = {} /\ ZCARD = 0
    BY <1>1 DEF ZSetInv, ZCARD
  <2>2. Cardinality({}) = 0
    BY FS_EmptySet
  <2> QED BY <1>1, <2>1, <2>2 DEF HoldsLastScores
<1>2. CASE zset # Nil
  <2>1. zset \in ZSet /\ ZCARD = Cardinality(Given)
    BY <1>2, Positions, CountsAreRight DEF ZCARD
  <2>2. ASSUME NEW m \in Members PROVE ZSCORE(m) = score[m]
    <3>1. CASE m \notin Given
      <4>1. ZRANK(m) = Nil /\ score[m] = Nil
        BY <1>2, <3>1, RankIsPosition DEF Given
      <4> QED BY <4>1 DEF ZSCORE
    <3>2. CASE m \in Given
      <4>1. PICK i \in 1 .. Len(zset.head) : zset.head[i].member = m
        BY <1>2, <3>2, Positions
      <4>2. ZRANK(m) = i - 1 /\ i \in Nat /\ score[m] = zset.head[i].score
        BY <1>2, <4>1, RankIsPosition, Positions
      <4>3. ZRANK(m) # Nil /\ ZRANK(m) + 1 = i
        BY <4>2, SortedSetsAssumption
      <4> QED BY <4>2, <4>3 DEF ZSCORE
    <3> QED BY <3>1, <3>2
  <2> QED BY <1>2, <2>1, <2>2 DEF HoldsLastScores
<1> QED BY <1>1, <1>2

(* After any commands, of any length, with repeated members, ZSCORE and    *)
(* ZCARD answer what the history of ZADD, GEOADD and ZREM says.            *)
THEOREM LastScoresHeld == ZSetSpec => []HoldsLastScores
  BY ZSetInvariant, ScoresAreHeld, PTL

-----------------------------------------------------------------------------
(* The invariant says that ranks and ranges follow the scores.             *)
LEMMA RanksAreRight == ZSetInv => RanksAndRanges
<1> SUFFICES ASSUME ZSetInv, zset # Nil PROVE RanksAndRanges
  BY DEF RanksAndRanges
<1> DEFINE l == zset.head
           N == Len(l)
           Abs(i) == IF i < 0 THEN i + N ELSE i
<1>1. /\ zset.length = N /\ N \in Nat /\ OneEach(l)
      /\ \A i \in 1 .. N : l[i].member \in Given
      /\ \A m \in Given : \E i \in 1 .. N : l[i].member = m
  BY Positions
<1>2. /\ Cardinality(Given) = N
      /\ \A i \in 1 .. N : RankOf(l[i].member) = i - 1
  BY CountsAreRight
<1>3. \A i \in 1 .. N : ZRANK(l[i].member) = i - 1
  BY RankIsPosition
<1> HIDE DEF l, N
<1>4. \A m \in Given : ZRANK(m) = RankOf(m)
  BY <1>1, <1>2, <1>3
<1>5. ASSUME NEW start \in Int, NEW end \in Int
      PROVE  LET r == ZRANGE(start, end)
                 wanted == {m \in Given : Abs(start) <= RankOf(m) /\ RankOf(m) <= Abs(end)}
             IN  /\ Range(r) = wanted
                 /\ \A i, j \in DOMAIN r : i < j => RankOf(r[i]) < RankOf(r[j])
  <2> DEFINE r == ZRANGE(start, end)
             wanted == {m \in Given : Abs(start) <= RankOf(m) /\ RankOf(m) <= Abs(end)}
             from == FirstIndex(start, N)
             to == LastIndex(end, N)
  <2>1. /\ from = IF Abs(start) < 0 THEN 0 ELSE Abs(start)
        /\ to = IF Abs(end) >= N THEN N - 1 ELSE Abs(end)
        /\ Abs(start) \in Int /\ Abs(end) \in Int
    BY <1>1 DEF FirstIndex, LastIndex
  <2>2. r = IF from > to \/ from >= N THEN <<>>
            ELSE [j \in 1 .. to - from + 1 |-> l[from + j].member]
    BY <1>1 DEF ZRANGE, l
  <2>3. from \in Nat /\ to \in Int
    BY <1>1, <2>1
  <2> HIDE DEF from, to, r, Abs
  <2>4. \A m : m \in wanted <=>
            \E i \in 1 .. N : m = l[i].member /\ from <= i - 1 /\ i - 1 <= to
    <3>1. ASSUME NEW m \in wanted
          PROVE  \E i \in 1 .. N : m = l[i].member /\ from <= i - 1 /\ i - 1 <= to
      <4>1. PICK i \in 1 .. N : l[i].member = m
        BY <1>1
      <4>2. Abs(start) <= i - 1 /\ i - 1 <= Abs(end)
        BY <1>2, <4>1
      <4>3. from <= i - 1 /\ i - 1 <= to
        BY <1>1, <2>1, <4>2
      <4> QED BY <4>1, <4>3
    <3>2. ASSUME NEW i \in 1 .. N, from <= i - 1, i - 1 <= to PROVE l[i].member \in wanted
      <4>1. Abs(start) <= i - 1 /\ i - 1 <= Abs(end)
        BY <1>1, <2>1, <2>3, <3>2
      <4> QED BY <1>1, <1>2, <4>1
    <3> QED BY <3>1, <3>2
  <2> HIDE DEF wanted
  <2>5. CASE from > to \/ from >= N
    <3>1. r = <<>> /\ DOMAIN r = {} /\ Range(r) = {}
      <4>1. r = <<>>
        BY <2>2, <2>5
      <4>2. DOMAIN <<>> = {}
        OBVIOUS
      <4> QED BY <4>1, <4>2 DEF Range
    <3>2. \A i \in 1 .. N : ~(from <= i - 1 /\ i - 1 <= to)
      BY <1>1, <2>3, <2>5
    <3>3. wanted = {}
      BY <2>4, <3>2
    <3> QED BY <3>1, <3>3 DEF r, wanted
  <2>6. CASE ~(from > to \/ from >= N)
    <3>1. r = [j \in 1 .. to - from + 1 |-> l[from + j].member]
      BY <2>2, <2>6
    <3>2. to < N
      BY <1>1, <2>1
    <3>3. \A j \in 1 .. to - from + 1 : from + j \in 1 .. N /\ from <= (from + j) - 1 /\ (from + j) - 1 <= to
      BY <1>1, <2>3, <2>6, <3>2
    <3>4. \A i \in 1 .. N : from <= i - 1 /\ i - 1 <= to =>
             i - from \in 1 .. to - from + 1 /\ from + (i - from) = i
      BY <1>1, <2>3
    <3>5. \A m : m \in Range(r) <=> \E j \in 1 .. to - from + 1 : m = l[from + j].member
      BY <3>1 DEF Range
    <3>6. \A m : m \in Range(r) <=> m \in wanted
      BY <2>4, <3>3, <3>4, <3>5
    <3>7. Range(r) = wanted
      BY <3>6
    <3>8. ASSUME NEW i \in DOMAIN r, NEW j \in DOMAIN r, i < j
          PROVE  RankOf(r[i]) < RankOf(r[j])
      <4>1. i \in 1 .. to - from + 1 /\ j \in 1 .. to - from + 1
        BY <3>1
      <4>2. RankOf(r[i]) = (from + i) - 1 /\ RankOf(r[j]) = (from + j) - 1
        BY <1>2, <3>1, <3>3, <4>1
      <4> QED BY <2>3, <3>8, <4>1, <4>2
    <3> QED BY <3>7, <3>8 DEF r, wanted
  <2> QED BY <2>5, <2>6
<1>6. \A start, end \in -(N + 2) .. N + 2 : start \in Int /\ end \in Int
  BY <1>1
<1> QED BY <1>1, <1>2, <1>4, <1>5, <1>6 DEF RanksAndRanges

(* The list stays in order however scores change in place, so ZRANK counts *)
(* the members before one, and ZRANGE cuts out exactly the ranks it was    *)
(* asked for, at and beyond both ends.                                     *)
THEOREM RanksFollowScores == ZSetSpec => []RanksAndRanges
  BY ZSetInvariant, RanksAreRight, PTL
=============================================================================
