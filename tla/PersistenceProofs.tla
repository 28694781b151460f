------------------------- MODULE PersistenceProofs -------------------------
(***************************************************************************)
(* Proofs about Persistence and the hash table of Keyspace, for every set  *)
(* of keys and buckets, every hash, every set of commands and every RDB    *)
(* file.                                                                   *)
(***************************************************************************)
EXTENDS Persistence, DataLemmas

-----------------------------------------------------------------------------
(* Chains: no key has two entries.                                         *)

Unique(chain) ==
    \A i, j \in DOMAIN chain : chain[i].key = chain[j].key => i = j

ChainOK(chain) == chain \in Chains /\ Unique(chain)

TableOK(t) == t \in [Buckets -> Chains] /\ \A b \in Buckets : Unique(t[b])

\* The entry of k in a chain.
In(chain, k) == {chain[j] : j \in {i \in DOMAIN chain : chain[i].key = k}}

(* In a table without double entries a search finds the entry there is.    *)
LEMMA EntryFound ==
    ASSUME NEW t, TableOK(t), NEW k \in Keys
    PROVE  /\ t[hash[k]] \in Chains /\ Unique(t[hash[k]]) /\ hash[k] \in Buckets
           /\ store_getEntry(t, k) = In(t[hash[k]], k)
           /\ Found(t, k) # {} =>
                 /\ Min(Found(t, k)) \in DOMAIN t[hash[k]]
                 /\ t[hash[k]][Min(Found(t, k))].key = k
                 /\ Found(t, k) = {Min(Found(t, k))}
           /\ Found(t, k) = {} => \A j \in DOMAIN t[hash[k]] : t[hash[k]][j].key # k
<1> DEFINE chain == t[hash[k]]
<1>1. chain \in Chains /\ Unique(chain) /\ hash[k] \in Buckets
  BY KeyspaceAssumption DEF TableOK
<1>2. DOMAIN chain = 1 .. Len(chain) /\ Len(chain) \in Nat
  BY <1>1, LenProperties DEF Chains
<1>3. Found(t, k) = {j \in DOMAIN chain : chain[j].key = k}
  BY DEF Found
<1>4. ASSUME Found(t, k) # {}
      PROVE  /\ Min(Found(t, k)) \in DOMAIN chain
             /\ chain[Min(Found(t, k))].key = k
             /\ Found(t, k) = {Min(Found(t, k))}
  <2>1. Found(t, k) \subseteq Nat
    BY <1>2, <1>3
  <2>2. \E x \in Found(t, k) : \A y \in Found(t, k) : x <= y
    BY <1>4, <2>1, LeastNumber
  <2>3. Min(Found(t, k)) \in Found(t, k)
    BY <2>2, Zenon DEF Min
  <2>4. \A y \in Found(t, k) : y = Min(Found(t, k))
    BY <1>1, <1>3, <2>3 DEF Unique
  <2> QED BY <1>3, <2>3, <2>4
<1>5. store_getEntry(t, k) = In(chain, k)
  <2>1. CASE Found(t, k) = {}
    BY <1>3, <2>1 DEF store_getEntry, In
  <2>2. CASE Found(t, k) # {}
    <3>1. {i \in DOMAIN chain : chain[i].key = k} = {Min(Found(t, k))}
      BY <1>3, <1>4, <2>2
    <3>2. In(chain, k) = {chain[Min(Found(t, k))]}
      BY <3>1 DEF In
    <3> QED BY <2>2, <3>2 DEF store_getEntry
  <2> QED BY <2>1, <2>2
<1> QED BY <1>1, <1>3, <1>4, <1>5

(* A new entry in front of a chain that has none of its key.               *)
LEMMA PutInFront ==
    ASSUME NEW chain \in Chains, Unique(chain), NEW e \in Entries,
           \A j \in DOMAIN chain : chain[j].key # e.key
    PROVE  /\ <<e>> \o chain \in Chains /\ Unique(<<e>> \o chain)
           /\ In(<<e>> \o chain, e.key) = {e}
           /\ \A k \in Keys : k # e.key => In(<<e>> \o chain, k) = In(chain, k)
<1> DEFINE r == <<e>> \o chain
           N == Len(chain)
<1>1. N \in Nat /\ DOMAIN chain = 1 .. N
  BY LenProperties DEF Chains
<1>2. <<e>> \in Seq(Entries) /\ Len(<<e>>) = 1 /\ <<e>>[1] = e
  OBVIOUS
<1>3. /\ r \in Seq(Entries) /\ Len(r) = 1 + N
      /\ \A i \in 1 .. 1 + N : r[i] = IF i <= 1 THEN <<e>>[i] ELSE chain[i - 1]
  BY <1>2, ConcatProperties DEF Chains
<1> HIDE DEF r
<1>4. DOMAIN r = 1 .. N + 1 /\ r[1] = e
  BY <1>1, <1>2, <1>3, LenProperties
<1>5. \A i \in 1 .. N : i + 1 \in 1 .. N + 1 /\ r[i + 1] = chain[i]
  BY <1>1, <1>3
<1>6. \A i \in 1 .. N + 1 : i = 1 \/ (i - 1 \in 1 .. N /\ r[i] = chain[i - 1])
  BY <1>1, <1>3
<1>7. Unique(r)
  <2> SUFFICES ASSUME NEW i \in 1 .. N + 1, NEW j \in 1 .. N + 1, r[i].key = r[j].key
               PROVE  i = j
    BY <1>4 DEF Unique
  <2>1. CASE i = 1 \/ j = 1
    BY <1>1, <1>4, <1>6, <2>1
  <2>2. CASE i # 1 /\ j # 1
    <3>1. i - 1 = j - 1
      BY <1>1, <1>6, <2>2 DEF Unique
    <3> QED BY <3>1
  <2> QED BY <2>1, <2>2
<1>8. ASSUME NEW k, NEW x
      PROVE  x \in In(r, k) <=> x \in In(chain, k) \/ (k = e.key /\ x = e)
  <2>1. x \in In(r, k) <=> \E i \in 1 .. N + 1 : r[i].key = k /\ x = r[i]
    BY <1>4 DEF In
  <2>2. x \in In(chain, k) <=> \E i \in 1 .. N : chain[i].key = k /\ x = chain[i]
    BY <1>1 DEF In
  <2>3. ASSUME NEW i \in 1 .. N + 1, r[i].key = k, x = r[i]
        PROVE  (\E j \in 1 .. N : chain[j].key = k /\ x = chain[j]) \/ (k = e.key /\ x = e)
    BY <1>4, <1>6, <2>3
  <2>4. ASSUME NEW i \in 1 .. N, chain[i].key = k, x = chain[i]
        PROVE  \E j \in 1 .. N + 1 : r[j].key = k /\ x = r[j]
    BY <1>5, <2>4
  <2>5. ASSUME k = e.key, x = e PROVE \E j \in 1 .. N + 1 : r[j].key = k /\ x = r[j]
    <3>1. 1 \in 1 .. N + 1
      BY <1>1
    <3> QED BY <1>4, <2>5, <3>1
  <2> QED BY <2>1, <2>2, <2>3, <2>4, <2>5
<1>9. In(chain, e.key) = {}
  BY DEF In
<1>10. In(r, e.key) = {e}
  BY <1>8, <1>9
<1>11. ASSUME NEW k \in Keys, k # e.key PROVE In(r, k) = In(chain, k)
  <2>1. \A x : x \in In(r, k) <=> x \in In(chain, k)
    BY <1>8, <1>11
  <2> QED BY <2>1
<1> QED BY <1>3, <1>7, <1>10, <1>11 DEF r, Chains

\* Replacing one element of a chain, and one bucket of a table.
Over(chain, i, e) == [chain EXCEPT ![i] = e]
WithBucket(t, b, r) == [t EXCEPT ![b] = r]

(* An entry in the place of one of its key, or of another when its key has *)
(* none: that other key is then gone.                                      *)
LEMMA PutInPlace ==
    ASSUME NEW chain \in Chains, Unique(chain), NEW e \in Entries,
           NEW i \in DOMAIN chain,
           \A j \in DOMAIN chain : chain[j].key = e.key => j = i,
           NEW r, r = Over(chain, i, e)
    PROVE  /\ r \in Chains /\ Unique(r)
           /\ In(r, e.key) = {e}
           /\ \A k \in Keys : k # e.key /\ k # chain[i].key => In(r, k) = In(chain, k)
           /\ chain[i].key # e.key => In(r, chain[i].key) = {}
<1>1. DOMAIN r = DOMAIN chain /\ r[i] = e /\ \A j \in DOMAIN chain : j # i => r[j] = chain[j]
  BY DEF Over
<1>2. r \in Chains
  <2>1. Len(chain) \in Nat /\ DOMAIN chain = 1 .. Len(chain)
    BY LenProperties DEF Chains
  <2>2. \A j \in 1 .. Len(chain) : chain[j] \in Entries
    BY <2>1, ElementOfSeq DEF Chains
  <2>3. r = [j \in 1 .. Len(chain) |-> r[j]]
    BY <1>1, <2>1 DEF Over
  <2>4. r \in [1 .. Len(chain) -> Entries]
    BY <1>1, <2>1, <2>2, <2>3
  <2> QED BY <2>1, <2>4, FunctionIsSeq DEF Chains
<1>3. Unique(r)
  BY <1>1 DEF Unique
<1>4. \A k, x : x \in In(r, k) <=> \E j \in DOMAIN chain : r[j].key = k /\ x = r[j]
  BY <1>1 DEF In
<1>5. \A k, x : x \in In(chain, k) <=> \E j \in DOMAIN chain : chain[j].key = k /\ x = chain[j]
  BY DEF In
<1>6. In(r, e.key) = {e}
  BY <1>1, <1>4
<1>7. ASSUME NEW k \in Keys, k # e.key, k # chain[i].key PROVE In(r, k) = In(chain, k)
  <2>1. \A x : x \in In(r, k) <=> x \in In(chain, k)
    BY <1>1, <1>4, <1>5, <1>7
  <2> QED BY <2>1
<1>8. ASSUME chain[i].key # e.key PROVE In(r, chain[i].key) = {}
  <2>1. \A j \in DOMAIN chain : r[j].key # chain[i].key
    BY <1>1, <1>8 DEF Unique
  <2> QED BY <1>4, <2>1
<1> QED BY <1>2, <1>3, <1>6, <1>7, <1>8

-----------------------------------------------------------------------------
(* Tables: the three ways in which an entry gets into one.                 *)

PutFront(t, u, e) ==
    /\ Found(t, e.key) = {}
    /\ u = WithBucket(t, hash[e.key], <<e>> \o t[hash[e.key]])

PutHead(t, u, e) ==
    /\ Found(t, e.key) = {} /\ t[hash[e.key]] # <<>>
    /\ u = WithBucket(t, hash[e.key], Over(t[hash[e.key]], 1, e))

PutOver(t, u, e) ==
    /\ Found(t, e.key) # {}
    /\ u = WithBucket(t, hash[e.key], Over(t[hash[e.key]], Min(Found(t, e.key)), e))

\* k has the entry it had, or was at the head of the bucket and has none.
KeptOrHead(t, u, k) ==
    \/ store_getEntry(u, k) = store_getEntry(t, k)
    \/ t[hash[k]][1].key = k /\ store_getEntry(u, k) = {}

(* One bucket is replaced by a chain with a new entry e.                   *)
LEMMA OneBucket ==
    ASSUME NEW t, TableOK(t), NEW e \in Entries, NEW r \in Chains, Unique(r),
           In(r, e.key) = {e}, NEW u, u = WithBucket(t, hash[e.key], r)
    PROVE  /\ TableOK(u) /\ store_getEntry(u, e.key) = {e}
           /\ \A k \in Keys : hash[k] # hash[e.key] => store_getEntry(u, k) = store_getEntry(t, k)
           /\ \A k \in Keys : hash[k] = hash[e.key] => store_getEntry(u, k) = In(r, k)
<1> DEFINE b == hash[e.key]
<1>1. b \in Buckets /\ e.key \in Keys
  BY KeyspaceAssumption DEF Entries
<1>2. u \in [Buckets -> Chains] /\ u[b] = r /\ \A a \in Buckets : a # b => u[a] = t[a]
  BY <1>1 DEF TableOK, WithBucket
<1>3. TableOK(u)
  BY <1>2 DEF TableOK
<1>4. \A k \in Keys : hash[k] \in Buckets
  BY KeyspaceAssumption
<1>5. \A k \in Keys : store_getEntry(u, k) = In(u[hash[k]], k) /\ store_getEntry(t, k) = In(t[hash[k]], k)
  BY <1>3, EntryFound
<1> QED BY <1>1, <1>2, <1>3, <1>4, <1>5

(* What a table holds after an entry was put into it.                      *)
LEMMA TablePut ==
    ASSUME NEW t, TableOK(t), NEW e \in Entries, NEW u,
           PutFront(t, u, e) \/ PutHead(t, u, e) \/ PutOver(t, u, e)
    PROVE  /\ TableOK(u) /\ store_getEntry(u, e.key) = {e}
           /\ ~PutHead(t, u, e) =>
                 \A k \in Keys : k # e.key => store_getEntry(u, k) = store_getEntry(t, k)
           /\ \A k \in Keys : k # e.key => KeptOrHead(t, u, k)
<1> DEFINE b == hash[e.key]
           chain == t[b]
<1>1. e.key \in Keys
  BY DEF Entries
<1>2. chain \in Chains /\ Unique(chain) /\ b \in Buckets
  BY <1>1, EntryFound
<1>3. \A k \in Keys : store_getEntry(t, k) = In(t[hash[k]], k)
  BY EntryFound
<1>4. CASE PutFront(t, u, e)
  <2>1. \A j \in DOMAIN chain : chain[j].key # e.key
    BY <1>1, <1>4, EntryFound DEF PutFront
  <2> DEFINE r == <<e>> \o chain
  <2>2. /\ r \in Chains /\ Unique(r) /\ In(r, e.key) = {e}
        /\ \A k \in Keys : k # e.key => In(r, k) = In(chain, k)
    BY <1>2, <2>1, PutInFront
  <2>3. u = WithBucket(t, b, r)
    BY <1>4 DEF PutFront
  <2> HIDE DEF r
  <2>4. /\ TableOK(u) /\ store_getEntry(u, e.key) = {e}
        /\ \A k \in Keys : hash[k] # b => store_getEntry(u, k) = store_getEntry(t, k)
        /\ \A k \in Keys : hash[k] = b => store_getEntry(u, k) = In(r, k)
    BY <2>2, <2>3, OneBucket
  <2>5. \A k \in Keys : k # e.key => store_getEntry(u, k) = store_getEntry(t, k)
    BY <1>3, <2>2, <2>4
  <2> QED BY <2>4, <2>5 DEF KeptOrHead
<1>5. CASE PutOver(t, u, e)
  <2> DEFINE i == Min(Found(t, e.key))
             r == Over(chain, i, e)
  <2>1. i \in DOMAIN chain /\ chain[i].key = e.key /\ \A j \in DOMAIN chain : chain[j].key = e.key => j = i
    BY <1>1, <1>2, <1>5, EntryFound DEF PutOver, Unique
  <2>2. /\ r \in Chains /\ Unique(r) /\ In(r, e.key) = {e}
        /\ \A k \in Keys : k # e.key => In(r, k) = In(chain, k)
    <3> HIDE DEF i
    <3> QED BY <1>2, <2>1, PutInPlace
  <2>3. u = WithBucket(t, b, r)
    BY <1>5 DEF PutOver
  <2> HIDE DEF r
  <2>4. /\ TableOK(u) /\ store_getEntry(u, e.key) = {e}
        /\ \A k \in Keys : hash[k] # b => store_getEntry(u, k) = store_getEntry(t, k)
        /\ \A k \in Keys : hash[k] = b => store_getEntry(u, k) = In(r, k)
    BY <2>2, <2>3, OneBucket
  <2>5. \A k \in Keys : k # e.key => store_getEntry(u, k) = store_getEntry(t, k)
    BY <1>3, <2>2, <2>4
  <2> QED BY <2>4, <2>5 DEF KeptOrHead
<1>6. CASE PutHead(t, u, e)
  <2> DEFINE r == Over(chain, 1, e)
  <2>1. \A j \in DOMAIN chain : chain[j].key # e.key
    BY <1>1, <1>6, EntryFound DEF PutHead
  <2>2. 1 \in DOMAIN chain
    BY <1>2, <1>6, LenProperties, EmptySeq DEF PutHead, Chains
  <2>3. /\ r \in Chains /\ Unique(r) /\ In(r, e.key) = {e}
        /\ \A k \in Keys : k # e.key /\ k # chain[1].key => In(r, k) = In(chain, k)
        /\ In(r, chain[1].key) = {}
    BY <1>2, <2>1, <2>2, PutInPlace
  <2>4. u = WithBucket(t, b, r)
    BY <1>6 DEF PutHead
  <2> HIDE DEF r
  <2>5. /\ TableOK(u) /\ store_getEntry(u, e.key) = {e}
        /\ \A k \in Keys : hash[k] # b => store_getEntry(u, k) = store_getEntry(t, k)
        /\ \A k \in Keys : hash[k] = b => store_getEntry(u, k) = In(r, k)
    BY <2>3, <2>4, OneBucket
  <2>6. ASSUME NEW k \in Keys, k # e.key PROVE KeptOrHead(t, u, k)
    <3>1. CASE hash[k] # b
      BY <2>5, <3>1 DEF KeptOrHead
    <3>2. CASE hash[k] = b /\ k # chain[1].key
      BY <1>3, <2>3, <2>5, <2>6, <3>2 DEF KeptOrHead
    <3>3. CASE hash[k] = b /\ k = chain[1].key
      BY <2>3, <2>5, <3>3 DEF KeptOrHead
    <3> QED BY <3>1, <3>2, <3>3
  <2> QED BY <1>6, <2>5, <2>6
<1> QED BY <1>4, <1>5, <1>6

(* A new entry in front is not one in the place of the head.               *)
LEMMA OneWayIn ==
    ASSUME NEW t, TableOK(t), NEW e \in Entries, NEW u, PutFront(t, u, e) \/ PutOver(t, u, e)
    PROVE  ~PutHead(t, u, e)
<1> DEFINE b == hash[e.key]
           p == t[b]
<1>1. CASE PutOver(t, u, e)
  BY <1>1 DEF PutOver, PutHead
<1>2. ASSUME PutFront(t, u, e), PutHead(t, u, e) PROVE FALSE
  <2>1. e.key \in Keys
    BY DEF Entries
  <2>2. p \in Chains /\ b \in Buckets
    BY <2>1, EntryFound
  <2>3. <<e>> \o p = Over(p, 1, e)
    BY <1>2, <2>2 DEF PutFront, PutHead, WithBucket, TableOK
  <2>4. Len(<<e>> \o p) = 1 + Len(p) /\ Len(p) \in Nat /\ DOMAIN p = 1 .. Len(p) /\ <<e>> \o p \in Seq(Entries)
    BY <2>2, ConcatProperties, LenProperties DEF Chains
  <2>5. DOMAIN Over(p, 1, e) = 1 .. Len(p)
    BY <2>4 DEF Over
  <2>6. 1 .. Len(p) = 1 .. 1 + Len(p)
    BY <2>3, <2>4, <2>5, LenProperties
  <2>7. Len(p) = 1 + Len(p)
    BY <2>4, <2>6, SameInterval
  <2> QED BY <2>4, <2>7
<1> QED BY <1>1, <1>2

(* store_set.                                                              *)
LEMMA StoreSet ==
    ASSUME NEW t, TableOK(t), NEW k \in Keys, NEW type \in Types,
           NEW value \in Seq(Int), NEW x \in Int
    PROVE  LET e == Entry(k, type, value, x)
               u == store_set(t, k, type, value, x)
           IN  e \in Entries /\ e.key = k /\ (PutFront(t, u, e) \/ PutOver(t, u, e))
<1> DEFINE e == Entry(k, type, value, x)
<1>1. e \in Entries /\ e.key = k
  BY DEF Entry, Entries
<1> HIDE DEF e
<1>2. store_set(t, k, type, value, x) =
         WithBucket(t, hash[k], IF Found(t, k) = {} THEN <<e>> \o t[hash[k]]
                                ELSE Over(t[hash[k]], Min(Found(t, k)), e))
  BY DEF store_set, e, WithBucket, Over
<1> QED BY <1>1, <1>2 DEF PutFront, PutOver, e

(* store_set_list, store_set_zset and store_set_stream.                    *)
LEMMA StoreSetObject ==
    ASSUME NEW t, TableOK(t), NEW k \in Keys, NEW type \in Types,
           NEW value \in Seq(Int), Found(t, k) = {}
    PROVE  LET e == Entry(k, type, value, 0)
               u == store_set_object(t, k, type, value)
           IN  e \in Entries /\ e.key = k /\ (PutFront(t, u, e) \/ PutHead(t, u, e))
<1> DEFINE e == Entry(k, type, value, 0)
           u == store_set_object(t, k, type, value)
<1>1. e \in Entries /\ e.key = k
  BY DEF Entry, Entries
<1>2. u = WithBucket(t, hash[k], IF t[hash[k]] = <<>> THEN <<e>> ELSE Over(t[hash[k]], 1, e))
  BY DEF store_set_object, WithBucket, Over
<1> HIDE DEF e, u
<1>3. CASE t[hash[k]] = <<>>
  <2>1. <<e>> \o <<>> = <<e>>
    BY ConcatEmptySeq
  <2>2. u = WithBucket(t, hash[k], <<e>> \o t[hash[k]])
    BY <1>2, <1>3, <2>1
  <2> QED BY <1>1, <2>2 DEF PutFront, e, u
<1>4. CASE t[hash[k]] # <<>>
  BY <1>1, <1>2, <1>4 DEF PutHead, e, u
<1> QED BY <1>3, <1>4

(* The value of an entry is changed in place.                              *)
LEMMA Updated ==
    ASSUME NEW t, TableOK(t), NEW k \in Keys, NEW value \in Seq(Int), Found(t, k) # {}
    PROVE  \E d, e \in Entries :
              /\ store_getEntry(t, k) = {d} /\ e = [d EXCEPT !.value = value]
              /\ e.key = k /\ e.expires_at = d.expires_at
              /\ PutOver(t, Update(t, k, value), e)
<1> DEFINE i == Min(Found(t, k))
           d == t[hash[k]][i]
           e == [d EXCEPT !.value = value]
<1>1. i \in DOMAIN t[hash[k]] /\ d.key = k /\ t[hash[k]] \in Chains
  BY EntryFound
<1>2. d \in Entries
  BY <1>1, ElementOfSeq, LenProperties DEF Chains
<1>3. store_getEntry(t, k) = {d}
  BY DEF store_getEntry
<1>4. Update(t, k, value) = WithBucket(t, hash[k], Over(t[hash[k]], i, e))
  BY DEF Update, WithBucket, Over
<1> HIDE DEF i, d
<1>5. e \in Entries /\ e.key = k /\ e.expires_at = d.expires_at
  BY <1>1, <1>2 DEF Entries
<1>6. PutOver(t, Update(t, k, value), e)
  BY <1>4, <1>5 DEF PutOver, i
<1> QED BY <1>2, <1>3, <1>5, <1>6

-----------------------------------------------------------------------------
(* Commands: what one may do to a table.                                   *)

\* One entry, that of the command's key, is put into the table.  Only a maker
\* takes the head of a bucket, only SET and INCR change a deadline.
Changed(t, u, c) ==
    \E e \in Entries :
        /\ e.key = c.key
        /\ PutFront(t, u, e) \/ PutHead(t, u, e) \/ PutOver(t, u, e)
        /\ PutHead(t, u, e) => c.name \in Makers
        /\ \/ c.name \in {"SET", "INCR"}
           \/ \A d \in store_getEntry(t, c.key) : e.expires_at = d.expires_at

LEMMA ValueType ==
    ASSUME NEW t, TableOK(t), NEW k \in Keys
    PROVE  ValueOf(t, k) \in Seq(Int) /\ (ValueOf(t, k) # <<>> => Found(t, k) # {})
<1>1. CASE Found(t, k) = {}
  BY <1>1, EmptySeq DEF ValueOf
<1>2. CASE Found(t, k) # {}
  <2> DEFINE i == Min(Found(t, k))
  <2>1. i \in DOMAIN t[hash[k]] /\ t[hash[k]] \in Chains
    BY <1>2, EntryFound
  <2>2. t[hash[k]][i] \in Entries
    BY <2>1, ElementOfSeq, LenProperties DEF Chains
  <2>3. t[hash[k]][i].value \in Seq(Int)
    BY <2>2 DEF Entries
  <2> QED BY <1>2, <2>3 DEF ValueOf
<1> QED BY <1>1, <1>2

LEMMA SetChanges ==
    ASSUME NEW t, TableOK(t), NEW c, c.key \in Keys, c.name \in {"SET", "INCR"},
           NEW value \in Seq(Int), NEW x \in Int
    PROVE  Changed(t, store_set(t, c.key, "string", value, x), c)
<1> DEFINE e == Entry(c.key, "string", value, x)
           u == store_set(t, c.key, "string", value, x)
<1>1. "string" \in Types
  BY DEF Types
<1>2. e \in Entries /\ e.key = c.key /\ (PutFront(t, u, e) \/ PutOver(t, u, e))
  BY <1>1, StoreSet
<1>3. ~PutHead(t, u, e)
  BY <1>2, OneWayIn
<1> HIDE DEF e, u
<1>4. Changed(t, u, c)
  BY <1>2, <1>3 DEF Changed
<1> QED BY <1>4 DEF u

LEMMA UpdateChanges ==
    ASSUME NEW t, TableOK(t), NEW c, c.key \in Keys,
           NEW value \in Seq(Int), Found(t, c.key) # {}
    PROVE  Changed(t, Update(t, c.key, value), c)
<1> DEFINE u == Update(t, c.key, value)
<1>1. PICK d \in Entries, e \in Entries :
         /\ store_getEntry(t, c.key) = {d}
         /\ e.key = c.key /\ e.expires_at = d.expires_at
         /\ PutOver(t, u, e)
  BY Updated
<1>2. ~PutHead(t, u, e)
  BY <1>1 DEF PutOver, PutHead
<1> HIDE DEF u
<1>3. Changed(t, u, c)
  BY <1>1, <1>2 DEF Changed
<1> QED BY <1>3 DEF u

LEMMA PutChanges ==
    ASSUME NEW t, TableOK(t), NEW c, c.key \in Keys, c.name \in Makers,
           NEW type \in Types, NEW value \in Seq(Int)
    PROVE  Changed(t, Put(t, c.key, type, value), c)
<1>1. CASE Found(t, c.key) = {}
  <2> DEFINE e == Entry(c.key, type, value, 0)
             u == store_set_object(t, c.key, type, value)
  <2>1. e \in Entries /\ e.key = c.key /\ (PutFront(t, u, e) \/ PutHead(t, u, e))
    BY <1>1, StoreSetObject
  <2>2. store_getEntry(t, c.key) = {}
    BY <1>1 DEF store_getEntry
  <2> HIDE DEF e, u
  <2>3. Changed(t, u, c)
    BY <2>1, <2>2 DEF Changed
  <2> QED BY <1>1, <2>3 DEF u, Put
<1>2. CASE Found(t, c.key) # {}
  BY <1>2, UpdateChanges DEF Put
<1> QED BY <1>1, <1>2

(* The pop, of LPOP, of BLPOP or for a client that waits.                  *)
LEMMA PopChanges ==
    ASSUME NEW t, TableOK(t), NEW c, c.key \in Keys
    PROVE  LPOP(t, c) = t \/ (Found(t, c.key) # {} /\ Changed(t, LPOP(t, c), c))
<1> DEFINE v == ValueOf(t, c.key)
<1>1. v \in Seq(Int) /\ (v # <<>> => Found(t, c.key) # {})
  BY ValueType
<1>2. CASE v = <<>>
  BY <1>2 DEF LPOP
<1>3. CASE v # <<>>
  <2>1. Tail(v) \in Seq(Int)
    BY <1>1, <1>3, HeadTailProperties
  <2>2. LPOP(t, c) = Update(t, c.key, Tail(v))
    BY <1>3 DEF LPOP
  <2> HIDE DEF v
  <2> QED BY <1>1, <1>3, <2>1, <2>2, UpdateChanges
<1> QED BY <1>2, <1>3

(* A member of a sorted set is removed.                                    *)
LEMMA RemoveType ==
    ASSUME NEW v \in Seq(Int), NEW i \in 1 .. Len(v)
    PROVE  RemoveAt(v, i) \in Seq(Int)
<1>1. Len(v) \in Nat
  BY LenProperties
<1>2. SubSeq(v, 1, i - 1) \in Seq(Int)
  <2>1. CASE i = 1
    <3>1. SubSeq(v, 1, i - 1) = <<>>
      BY <2>1, SliceEmpty
    <3> QED BY <3>1, EmptySeq
  <2>2. CASE i # 1
    BY <1>1, <2>2, SubSeqProperties
  <2> QED BY <2>1, <2>2
<1>3. SubSeq(v, i + 1, Len(v)) \in Seq(Int)
  <2>1. CASE i = Len(v)
    <3>1. SubSeq(v, i + 1, Len(v)) = <<>>
      BY <1>1, <2>1, SliceEmpty
    <3> QED BY <3>1, EmptySeq
  <2>2. CASE i # Len(v)
    BY <1>1, <2>2, SubSeqProperties
  <2> QED BY <2>1, <2>2
<1> QED BY <1>2, <1>3, ConcatProperties DEF RemoveAt

LEMMA RemoveChanges ==
    ASSUME NEW t, TableOK(t), NEW c, c.key \in Keys
    PROVE  ZREM(t, c) = t \/ (Found(t, c.key) # {} /\ Changed(t, ZREM(t, c), c))
<1> DEFINE v == ValueOf(t, c.key)
           i == CHOOSE j \in DOMAIN v : v[j] = c.arg
<1>1. v \in Seq(Int) /\ (v # <<>> => Found(t, c.key) # {})
  BY ValueType
<1>2. Len(v) \in Nat /\ DOMAIN v = 1 .. Len(v)
  BY <1>1, LenProperties
<1>3. CASE ~Contains(v, c.arg)
  BY <1>3 DEF ZREM
<1>4. CASE Contains(v, c.arg)
  <2>1. \E j \in DOMAIN v : v[j] = c.arg
    BY <1>2, <1>4 DEF Contains
  <2>2. i \in 1 .. Len(v)
    <3> HIDE DEF v
    <3> QED BY <1>2, <2>1
  <2>3. v # <<>>
    BY <1>1, <1>2, <2>1, EmptySeq
  <2>4. ZREM(t, c) = Update(t, c.key, RemoveAt(v, i))
    BY <1>4 DEF ZREM
  <2> HIDE DEF v, i
  <2>5. RemoveAt(v, i) \in Seq(Int)
    BY <1>1, <2>2, RemoveType
  <2> QED BY <1>1, <2>3, <2>4, <2>5, UpdateChanges
<1> QED BY <1>3, <1>4

(* What a maker leaves in an object is a sequence of numbers.              *)
LEMMA ExtendedType ==
    ASSUME NEW v \in Seq(Int), NEW c, c.arg \in Int, c.name \in Makers, NEW at \in Int
    PROVE  Extended(v, c, at) \in Seq(Int)
<1>1. Append(v, c.arg) \in Seq(Int)
  OBVIOUS
<1>2. <<c.arg>> \o v \in Seq(Int)
  BY ConcatProperties
<1>3. \A last \in Int : generateId(last, c.arg, at) \in Int
  <2>1. SeqSpan \in Int /\ at * SeqSpan \in Int /\ (-2 - c.arg) * SeqSpan \in Int
    BY KeyspaceAssumption
  <2> QED BY <2>1 DEF generateId
<1>4. XADD(v, c.arg, at) \in Seq(Int)
  <2>1. CASE v = <<>>
    <3>1. (IF c.arg >= 0 THEN c.arg ELSE generateId(0, c.arg, at)) \in Int
      BY <1>3
    <3> QED BY <2>1, <3>1 DEF XADD
  <2>2. CASE v # <<>>
    <3>1. Last(v) \in Int
      <4>1. Len(v) \in Nat /\ Len(v) # 0
        BY <2>2, EmptySeq, LenProperties
      <4> QED BY <4>1, ElementOfSeq DEF Last
    <3>2. generateId(Last(v), c.arg, at) \in Int
      BY <1>3, <3>1
    <3>3. Append(v, generateId(Last(v), c.arg, at)) \in Seq(Int)
      BY <3>2
    <3> QED BY <1>1, <2>2, <3>3 DEF XADD
  <2> QED BY <2>1, <2>2
<1> QED BY <1>1, <1>2, <1>4 DEF Makers, Extended

(* The alternatives of Apply are apart.                                    *)
LEMMA ApplyCases ==
    ASSUME NEW t, NEW c, NEW at
    PROVE  /\ c.name = "SET"  => Apply(t, c, at) = SET(t, c, at)
           /\ c.name = "INCR" => Apply(t, c, at) = INCR(t, c)
           /\ c.name \in {"LPOP", "BLPOP"} => Apply(t, c, at) = LPOP(t, c)
           /\ c.name = "ZREM" => Apply(t, c, at) = ZREM(t, c)
           /\ c.name \in Makers =>
                 Apply(t, c, at) =
                    Put(t, c.key, TypeOf(c.name), Extended(ValueOf(t, c.key), c, at))
           /\ c.name \notin {"SET", "INCR", "LPOP", "BLPOP", "ZREM"} \cup Makers =>
                 Apply(t, c, at) = t
<1> DEFINE a == SET(t, c, at)
           b == INCR(t, c)
           d == LPOP(t, c)
           e == ZREM(t, c)
           f == Put(t, c.key, TypeOf(c.name), Extended(ValueOf(t, c.key), c, at))
           n == c.name
           M == Makers
<1>1. Apply(t, c, at) =
         CASE n = "SET" -> a [] n = "INCR" -> b [] n \in {"LPOP", "BLPOP"} -> d
           [] n = "ZREM" -> e [] n \in M -> f [] OTHER -> t
  BY Zenon DEF Apply
<1>2. M = {"RPUSH", "LPUSH", "ZADD", "GEOADD", "GEOSEARCH", "XADD"}
  BY DEF Makers
<1> HIDE DEF a, b, d, e, f, n, M
<1>3. /\ n = "SET"  => Apply(t, c, at) = a
      /\ n = "INCR" => Apply(t, c, at) = b
      /\ n \in {"LPOP", "BLPOP"} => Apply(t, c, at) = d
      /\ n = "ZREM" => Apply(t, c, at) = e
      /\ n \in M => Apply(t, c, at) = f
      /\ n \notin {"SET", "INCR", "LPOP", "BLPOP", "ZREM"} \cup M => Apply(t, c, at) = t
  BY <1>1, <1>2
<1> QED BY <1>3, Zenon DEF a, b, d, e, f, n, M

(* Every command, replayed, passed on or sent by a client.                 *)
LEMMA Applied ==
    ASSUME NEW t, TableOK(t), NEW c \in Records, NEW at \in Int
    PROVE  Apply(t, c, at) = t \/ Changed(t, Apply(t, c, at), c)
<1> DEFINE v == ValueOf(t, c.key)
<1>0. c.key \in Keys /\ c.arg \in Int /\ c.ttl \in Int
  BY DEF Records
<1>1. v \in Seq(Int)
  BY <1>0, ValueType
<1>2. CASE c.name = "SET"
  <2>1. Deadline(c.ttl, at) \in Int /\ <<c.arg>> \in Seq(Int)
    BY <1>0 DEF Deadline
  <2>2. Apply(t, c, at) = store_set(t, c.key, "string", <<c.arg>>, Deadline(c.ttl, at))
    BY <1>2, ApplyCases DEF SET
  <2> QED BY <1>0, <1>2, <2>1, <2>2, SetChanges
<1>3. CASE c.name = "INCR"
  <2>1. Apply(t, c, at) = INCR(t, c)
    BY <1>3, ApplyCases
  <2>2. CASE v = <<>>
    <3>1. INCR(t, c) = store_set(t, c.key, "string", <<1>>, 0)
      BY <2>2 DEF INCR
    <3>2. <<1>> \in Seq(Int) /\ 0 \in Int
      OBVIOUS
    <3> QED BY <1>0, <1>3, <2>1, <3>1, <3>2, SetChanges
  <2>3. CASE v = <<Word>>
    <3>1. <<Word>> # <<>>
      OBVIOUS
    <3>2. INCR(t, c) = t
      BY <2>3, <3>1 DEF INCR
    <3> QED BY <2>1, <3>2
  <2>4. CASE v # <<>> /\ v # <<Word>>
    <3>1. INCR(t, c) = store_set(t, c.key, "string", <<v[1] + 1>>, 0)
      BY <2>4 DEF INCR
    <3>2. v[1] \in Int
      BY <1>1, <2>4, HeadTailProperties
    <3>3. <<v[1] + 1>> \in Seq(Int) /\ 0 \in Int
      BY <3>2
    <3> HIDE DEF v
    <3> QED BY <1>0, <1>3, <2>1, <3>1, <3>3, SetChanges
  <2> QED BY <2>2, <2>3, <2>4
<1>4. CASE c.name \in {"LPOP", "BLPOP"}
  <2>1. Apply(t, c, at) = LPOP(t, c)
    BY <1>4, ApplyCases
  <2> QED BY <1>0, <2>1, PopChanges
<1>5. CASE c.name = "ZREM"
  <2>1. Apply(t, c, at) = ZREM(t, c)
    BY <1>5, ApplyCases
  <2> QED BY <1>0, <2>1, RemoveChanges
<1>6. CASE c.name \in Makers
  <2> DEFINE w == Extended(v, c, at)
  <2>1. w \in Seq(Int)
    BY <1>0, <1>1, <1>6, ExtendedType
  <2>2. TypeOf(c.name) \in Types
    BY <1>6 DEF Makers, TypeOf, Types
  <2>3. Apply(t, c, at) = Put(t, c.key, TypeOf(c.name), w)
    BY <1>6, ApplyCases
  <2> HIDE DEF w
  <2> QED BY <1>0, <1>6, <2>1, <2>2, <2>3, PutChanges
<1>7. CASE c.name \notin {"SET", "INCR", "LPOP", "BLPOP", "ZREM"} \cup Makers
  BY <1>7, ApplyCases
<1> QED BY <1>2, <1>3, <1>4, <1>5, <1>6, <1>7

(* A change keeps the table in order and every other key, except one at    *)
(* the head of the bucket of a key that a maker makes an entry for.        *)
LEMMA ChangedTable ==
    ASSUME NEW t, TableOK(t), NEW c, NEW u, Changed(t, u, c)
    PROVE  /\ TableOK(u)
           /\ \A k \in Keys : k # c.key => KeptOrHead(t, u, k)
           /\ \A k \in Keys : k # c.key /\ (Found(t, c.key) # {} \/ c.name \notin Makers)
                 => store_getEntry(u, k) = store_getEntry(t, k)
           /\ c.name \notin {"SET", "INCR"} =>
                 \A d \in store_getEntry(t, c.key), e \in store_getEntry(u, c.key) : e.expires_at = d.expires_at
<1>1. PICK e \in Entries :
        /\ e.key = c.key
        /\ PutFront(t, u, e) \/ PutHead(t, u, e) \/ PutOver(t, u, e)
        /\ PutHead(t, u, e) => c.name \in Makers
        /\ \/ c.name \in {"SET", "INCR"}
           \/ \A d \in store_getEntry(t, c.key) : e.expires_at = d.expires_at
  BY DEF Changed
<1>2. /\ TableOK(u) /\ store_getEntry(u, e.key) = {e}
      /\ ~PutHead(t, u, e) =>
            \A k \in Keys : k # e.key => store_getEntry(u, k) = store_getEntry(t, k)
      /\ \A k \in Keys : k # e.key => KeptOrHead(t, u, k)
  BY <1>1, TablePut
<1>3. Found(t, c.key) # {} => ~PutHead(t, u, e)
  BY <1>1 DEF PutHead
<1> QED BY <1>1, <1>2, <1>3

-----------------------------------------------------------------------------
(* The RDB file, record by record.                                         *)

LEMMA LoadedRecords ==
    /\ Loaded(Rdb) \in Nat
    /\ \A j \in 1 .. Loaded(Rdb) : /\ j \in DOMAIN Rdb
                                   /\ Rdb[j].key \in Keys /\ Rdb[j].type \in Types
                                   /\ Rdb[j].value \in Seq(Int) /\ Rdb[j].expires_at \in Int
<1> DEFINE bad == {j \in DOMAIN Rdb : Rdb[j].type \notin {"string", "stream"}}
<1>1. Len(Rdb) \in Nat /\ DOMAIN Rdb = 1 .. Len(Rdb)
  BY PersistenceAssumption, LenProperties
<1>2. /\ Loaded(Rdb) \in Nat
      /\ \A j \in 1 .. Loaded(Rdb) : j \in DOMAIN Rdb /\ j \notin bad
  <2>1. CASE bad = {}
    BY <1>1, <2>1 DEF Loaded
  <2>2. CASE bad # {}
    <3>1. bad \subseteq Nat
      BY <1>1
    <3>2. \E x \in bad : \A y \in bad : x <= y
      BY <2>2, <3>1, LeastNumber
    <3>3. Min(bad) \in bad /\ \A y \in bad : Min(bad) <= y
      BY <3>2, Zenon DEF Min
    <3>4. Loaded(Rdb) = Min(bad) - 1
      BY <2>2 DEF Loaded
    <3>5. Min(bad) \in 1 .. Len(Rdb)
      BY <1>1, <3>3
    <3> HIDE DEF bad
    <3> QED BY <1>1, <3>3, <3>4, <3>5
  <2> QED BY <2>1, <2>2
<1>3. {"string", "stream"} \subseteq Types
  BY DEF Types
<1> QED BY <1>2, <1>3, PersistenceAssumption

LEMMA LoadRecordOK ==
    ASSUME NEW t, TableOK(t), NEW j \in 1 .. Loaded(Rdb)
    PROVE  TableOK(LoadRecord(t, Rdb, j))
<1> DEFINE k == Rdb[j].key
           s == store_set(t, k, Rdb[j].type, Rdb[j].value, 0)
           x == ExpiryMs(Rdb, j)
           u == SetHeadExpiry(s, k, x)
           e == Entry(k, Rdb[j].type, Rdb[j].value, 0)
<1>1. /\ k \in Keys /\ Rdb[j].type \in Types /\ Rdb[j].value \in Seq(Int) /\ x \in Int
  BY LoadedRecords DEF ExpiryMs
<1>2. e \in Entries /\ e.key = k /\ (PutFront(t, s, e) \/ PutOver(t, s, e))
  BY <1>1, StoreSet
<1> HIDE DEF e, x, k
<1>3. TableOK(s) /\ store_getEntry(s, k) = {e}
  <2> HIDE DEF s
  <2> QED BY <1>2, TablePut
<1>4. TableOK(u)
  <2> DEFINE chain == s[hash[k]]
             h == [chain[1] EXCEPT !.expires_at = x]
             r == Over(chain, 1, h)
  <2>1. u = WithBucket(s, hash[k], r)
    BY DEF SetHeadExpiry, WithBucket, Over
  <2> HIDE DEF s, u
  <2>2. chain \in Chains /\ Unique(chain) /\ store_getEntry(s, k) = In(chain, k) /\ hash[k] \in Buckets
    BY <1>1, <1>3, EntryFound
  <2>3. 1 \in DOMAIN chain
    <3>1. DOMAIN chain # {}
      BY <1>3, <2>2 DEF In
    <3> QED BY <2>2, <3>1, LenProperties DEF Chains
  <2>4. chain[1] \in Entries
    BY <2>2, <2>3, ElementOfSeq, LenProperties DEF Chains
  <2>5. h \in Entries /\ h.key = chain[1].key
    BY <1>1, <2>4 DEF Entries
  <2>6. r \in Chains /\ Unique(r)
    <3>1. \A i \in DOMAIN chain : chain[i].key = h.key => i = 1
      BY <2>2, <2>3, <2>5 DEF Unique
    <3> HIDE DEF h, chain
    <3> QED BY <2>2, <2>3, <2>5, <3>1, PutInPlace
  <2> HIDE DEF r
  <2> QED BY <1>3, <2>1, <2>2, <2>6 DEF TableOK, WithBucket
<1> HIDE DEF s, u
<1>5. LoadRecord(t, Rdb, j) = s \/ LoadRecord(t, Rdb, j) = u
  BY DEF LoadRecord, s, u, x, k
<1> QED BY <1>3, <1>4, <1>5

\* f holds the table after each of the first n records.
LoadsUpTo(f, t, n) == f = [j \in 0 .. n |-> IF j = 0 THEN t ELSE LoadRecord(f[j - 1], Rdb, j)]

(* The loop over the records is defined for every number of them.          *)
LEMMA LoadExists == ASSUME NEW t, NEW N \in Nat PROVE \E f : LoadsUpTo(f, t, N)
<1> DEFINE T == {m \in Nat : \E f : LoadsUpTo(f, t, m)}
<1>1. 0 \in T
  <2> DEFINE f == [n \in 0 .. 0 |-> t]
  <2>1. LoadsUpTo(f, t, 0)
    BY DEF LoadsUpTo
  <2> HIDE DEF f
  <2> QED BY <2>1
<1>2. ASSUME NEW m \in Nat, m \in T PROVE m + 1 \in T
  <2>1. PICK f : LoadsUpTo(f, t, m)
    BY <1>2
  <2>2. f = [n \in 0 .. m |-> IF n = 0 THEN t ELSE LoadRecord(f[n - 1], Rdb, n)]
    BY <2>1 DEF LoadsUpTo
  <2> DEFINE g == [n \in 0 .. m + 1 |-> IF n = m + 1 THEN LoadRecord(f[m], Rdb, n) ELSE f[n]]
  <2>3. ASSUME NEW n \in 0 .. m + 1
        PROVE  g[n] = IF n = 0 THEN t ELSE LoadRecord(g[n - 1], Rdb, n)
    <3>1. CASE n = 0
      <4>1. 0 \in 0 .. m + 1 /\ 0 \in 0 .. m /\ 0 # m + 1
        OBVIOUS
      <4>2. f[0] = t
        BY <2>2, <4>1
      <4> QED BY <3>1, <4>1, <4>2
    <3>2. CASE n = m + 1
      <4>1. n - 1 = m /\ m \in 0 .. m + 1 /\ m # m + 1 /\ n # 0
        BY <3>2
      <4>2. g[n - 1] = f[m]
        BY <4>1
      <4> QED BY <3>2, <4>1, <4>2
    <3>3. CASE n # 0 /\ n # m + 1
      <4>1. n \in 0 .. m /\ n - 1 \in 0 .. m + 1 /\ n - 1 # m + 1
        BY <3>3
      <4>2. g[n - 1] = f[n - 1] /\ g[n] = f[n]
        BY <3>3, <4>1
      <4>3. f[n] = LoadRecord(f[n - 1], Rdb, n)
        BY <2>2, <3>3, <4>1
      <4> QED BY <3>3, <4>2, <4>3
    <3> QED BY <3>1, <3>2, <3>3
  <2>4. g = [n \in 0 .. m + 1 |-> g[n]]
    OBVIOUS
  <2> HIDE DEF g
  <2>5. LoadsUpTo(g, t, m + 1)
    BY <2>3, <2>4 DEF LoadsUpTo
  <2> QED BY <2>5
<1> HIDE DEF T
<1>3. Nat \subseteq T
  BY <1>1, <1>2, NumberInduction
<1> QED BY <1>3 DEF T

\* The table after each record.
Loading(f, t) ==
    /\ f[0] = t
    /\ \A j \in 1 .. Loaded(Rdb) : f[j] = LoadRecord(f[j - 1], Rdb, j)
    /\ \A j \in 0 .. Loaded(Rdb) : TableOK(f[j])
    /\ load_rdb_into_table(t, Rdb) = f[Loaded(Rdb)]

LEMMA LoadSteps == ASSUME NEW t, TableOK(t) PROVE \E f : Loading(f, t)
<1> DEFINE N == Loaded(Rdb)
           f == CHOOSE h : LoadsUpTo(h, t, N)
<1>1. N \in Nat
  BY LoadedRecords
<1>2. load_rdb_into_table(t, Rdb) = f[N]
  BY DEF load_rdb_into_table, LoadsUpTo
<1>3. LoadsUpTo(f, t, N)
  BY <1>1, LoadExists
<1> HIDE DEF f, N
<1>4. f = [j \in 0 .. N |-> IF j = 0 THEN t ELSE LoadRecord(f[j - 1], Rdb, j)]
  BY <1>3 DEF LoadsUpTo
<1>5. f[0] = t
  <2>1. 0 \in 0 .. N
    BY <1>1
  <2> QED BY <1>4, <2>1
<1>6. ASSUME NEW j \in 1 .. N PROVE f[j] = LoadRecord(f[j - 1], Rdb, j)
  <2>1. j \in 0 .. N /\ j # 0
    BY <1>1
  <2> QED BY <1>4, <2>1
<1> DEFINE T == {n \in Nat : n <= N => TableOK(f[n])}
<1>7. 0 \in T
  BY <1>5
<1>8. ASSUME NEW n \in Nat, n \in T PROVE n + 1 \in T
  <2> SUFFICES ASSUME n + 1 <= N PROVE TableOK(f[n + 1])
    OBVIOUS
  <2>1. n + 1 \in 1 .. N /\ (n + 1) - 1 = n /\ n <= N
    BY <1>1
  <2>2. f[n + 1] = LoadRecord(f[n], Rdb, n + 1)
    BY <1>6, <2>1
  <2>3. TableOK(f[n])
    BY <1>8, <2>1
  <2> QED BY <2>1, <2>2, <2>3, LoadRecordOK DEF N
<1> HIDE DEF T
<1>9. Nat \subseteq T
  BY <1>7, <1>8, NumberInduction
<1>10. \A n \in 0 .. N : TableOK(f[n])
  BY <1>1, <1>9 DEF T
<1>11. Loading(f, t)
  BY <1>2, <1>5, <1>6, <1>10 DEF Loading, N
<1> QED BY <1>11

(* The load leaves a table in order.                                       *)
LEMMA LoadOK ==
    ASSUME NEW t, TableOK(t)
    PROVE  TableOK(load_rdb_into_table(t, Rdb))
<1>1. PICK f : Loading(f, t)
  BY LoadSteps
<1>2. Loaded(Rdb) \in 0 .. Loaded(Rdb)
  BY LoadedRecords
<1> QED BY <1>1, <1>2 DEF Loading

-----------------------------------------------------------------------------
(* The inductive invariant.                                                *)

TablesOK == TableOK(table) /\ TableOK(copy) /\ TableOK(before)

FilesOK ==
    /\ todo \in Seq(Records) /\ aof \in Seq(Records) /\ link \in Seq(Records)
    /\ cmd \in Records \cup {NULL} /\ queue \in Seq(Cmds)

FlagsOK ==
    /\ now \in Nat
    /\ pc \in {"down", "failed", "mkdir", "open_manifest", "write_manifest",
               "replay", "rdb", "started", "up"}
    /\ path \in BOOLEAN /\ dir \in BOOLEAN /\ joined \in BOOLEAN /\ torn \in BOOLEAN
    /\ manifest \in {"none", "empty", "written"}
    /\ waiter = NULL \/ waiter \in [key : Keys, at : Nat]
    /\ exec \in BOOLEAN
    /\ lost \subseteq Buckets /\ doomed \subseteq Buckets
    /\ redone \subseteq Buckets /\ drift \subseteq Buckets
    /\ ops \in Nat /\ crashes \in Nat

\* Without a manifest the directory is the work of a create_dir that is
\* under way or was interrupted.
BootOK ==
    /\ dir /\ manifest # "written" => torn \/ pc \in {"open_manifest", "write_manifest"}
    /\ pc = "failed" => torn

IInv == TablesOK /\ FilesOK /\ FlagsOK /\ BootOK

LEMMA IInvTypeOK == IInv => TypeOK
<1> SUFFICES ASSUME IInv PROVE TypeOK
  OBVIOUS
<1>1. {lost, doomed, redone, drift} \subseteq SUBSET Buckets
  BY DEF IInv, FlagsOK
<1>2. /\ table \in [Buckets -> Chains] /\ copy \in [Buckets -> Chains]
      /\ before \in [Buckets -> Chains]
  BY DEF IInv, TablesOK, TableOK
<1> QED BY <1>1, <1>2 DEF IInv, FilesOK, FlagsOK, TypeOK

LEMMA RecordFacts ==
    /\ \A c \in Cmds : c \in Records
    /\ \A c \in Records : /\ c.key \in Keys /\ hash[c.key] \in Buckets
                          /\ Reread(c) \in Records /\ Reread(c).key = c.key
                          /\ [c EXCEPT !.name = cmd_to_string(@)] \in Records
<1>1. \A c \in Cmds : c \in Records
  BY PersistenceAssumption DEF Records
<1>2. \A n \in RedisCmds \cup {"UNKNOWN"} :
         findRedisCmd(n) \in RedisCmds \cup {"UNKNOWN"} /\ cmd_to_string(n) \in RedisCmds \cup {"UNKNOWN"}
  BY DEF findRedisCmd, cmd_to_string
<1>3. ASSUME NEW c \in Records
      PROVE  /\ c.key \in Keys /\ hash[c.key] \in Buckets
             /\ Reread(c) \in Records /\ Reread(c).key = c.key
             /\ [c EXCEPT !.name = cmd_to_string(@)] \in Records
  BY <1>2, KeyspaceAssumption DEF Records, Reread
<1> QED BY <1>1, <1>3

LEMMA EmptyTableOK == TableOK(EmptyTable)
<1>1. <<>> \in Chains /\ DOMAIN <<>> = {}
  BY EmptySeq, LenProperties DEF Chains
<1> QED BY <1>1 DEF EmptyTable, TableOK, Unique

(* A sequence that is not empty.                                           *)
LEMMA HeadAndTail ==
    ASSUME NEW S, NEW l \in Seq(S), l # <<>>
    PROVE  Head(l) \in S /\ Tail(l) \in Seq(S)
  BY HeadTailProperties

(* A command keeps a table in order.                                       *)
LEMMA ApplyOK ==
    ASSUME NEW t, TableOK(t), NEW c \in Records, NEW at \in Int
    PROVE  TableOK(Apply(t, c, at)) /\ TableOK(LPOP(t, c))
<1>1. c.key \in Keys
  BY RecordFacts
<1> QED BY <1>1, Applied, PopChanges, ChangedTable

\* A command is run, by itself or from the queue.
Runs(c) ==
    /\ handle(c)
    /\ \/ ~exec /\ UNCHANGED multi
       \/ exec' = TRUE /\ queue # <<>> /\ queue' = Tail(queue)
    /\ ops' \in {ops, ops + 1}

\* A step that leaves all but the queue and what a receipt passes on.
Receives ==
    /\ Serving /\ cmd = NULL /\ ~exec
    /\ \/ \E c \in Cmds : Queue(c)
       \/ handle_discard

(* The commands of EXEC are run as those of a client are.                  *)
LEMMA StepCases ==
    ASSUME IInv, Next
    PROVE  \/ Tick \/ create_dir \/ LoadRdb \/ Join \/ Follow \/ Crash \/ NoManifest
           \/ \E yes \in BOOLEAN : rdb_config_handler(yes) \/ Replay(yes) \/ Finish(yes)
           \/ \E c \in Cmds : Runs(c)
           \/ Receives
<1>1. ASSUME NEW c \in Cmds, Execute(c) PROVE Runs(c)
  BY <1>1 DEF Execute, Runs
<1>2. ASSUME handle_exec PROVE \E c \in Cmds : Runs(c)
  <2>1. Head(queue) \in Cmds
    BY <1>2, HeadAndTail DEF IInv, FilesOK, handle_exec
  <2>2. Runs(Head(queue))
    BY <1>2 DEF handle_exec, Runs
  <2> QED BY <2>1, <2>2
<1>3. ASSUME NEW c \in Cmds, Queue(c) PROVE Receives
  BY <1>3 DEF Queue, Receives
<1>4. handle_discard => Receives
  BY DEF handle_discard, Receives
<1> QED BY <1>1, <1>2, <1>3, <1>4 DEF Next

LEMMA TablesStep == IInv /\ [Next]_vars => TablesOK'
<1> SUFFICES ASSUME IInv, [Next]_vars PROVE TablesOK'
  OBVIOUS
<1>0. /\ TableOK(table) /\ TableOK(copy) /\ TableOK(before) /\ now \in Int
      /\ todo \in Seq(Records) /\ link \in Seq(Records)
  BY DEF IInv, TablesOK, FilesOK, FlagsOK
<1>1. CASE UNCHANGED <<table, copy, before>>
  BY <1>0, <1>1 DEF TablesOK
<1>2. CASE LoadRdb
  BY <1>0, <1>2, LoadOK DEF LoadRdb, replica, TablesOK
<1>3. CASE Follow
  <2>1. Reread(Head(link)) \in Records
    BY <1>0, <1>3, HeadAndTail, RecordFacts DEF Follow
  <2>2. TableOK(copy')
    BY <1>0, <1>3, <2>1, ApplyOK DEF Follow
  <2> QED BY <1>0, <1>3, <2>2 DEF Follow, TablesOK
<1>4. CASE End
  BY <1>0, <1>4, EmptyTableOK DEF End, TablesOK
<1>5. ASSUME NEW yes \in BOOLEAN, Replay(yes) PROVE TablesOK'
  <2>1. CASE todo # <<>>
    <3>1. Reread(Head(todo)) \in Records
      BY <1>0, <2>1, HeadAndTail, RecordFacts
    <3>2. TableOK(table')
      BY <1>0, <1>5, <2>1, <3>1, ApplyOK DEF Replay
    <3> QED BY <1>0, <1>5, <3>2 DEF Replay, replica, TablesOK
  <2>2. CASE todo = <<>>
    BY <1>1, <1>5, <2>2 DEF Replay, replica
  <2> QED BY <2>1, <2>2
<1>6. ASSUME NEW c \in Cmds, Runs(c) PROVE TablesOK'
  <2>1. c \in Records
    BY RecordFacts
  <2>2. table' \in {table, Apply(table, c, now), LPOP(Apply(table, c, now), c)}
    BY <1>6 DEF Runs, handle
  <2>3. TableOK(Apply(table, c, now)) /\ TableOK(LPOP(Apply(table, c, now), c))
    BY <1>0, <2>1, ApplyOK
  <2>4. TableOK(table')
    BY <1>0, <2>2, <2>3
  <2> QED BY <1>0, <1>6, <2>4 DEF Runs, handle, TablesOK
<1>7. ASSUME NEW yes \in BOOLEAN, rdb_config_handler(yes) \/ Finish(yes) PROVE TablesOK'
  BY <1>1, <1>7 DEF rdb_config_handler, Finish, replica
<1>8. CASE Tick \/ create_dir \/ Join \/ UNCHANGED vars
  BY <1>1, <1>8 DEF Tick, create_dir, Join, replica, vars
<1>9. CASE Receives
  BY <1>1, <1>9 DEF Receives, Queue, handle_discard, replica
<1> QED BY <1>2, <1>3, <1>4, <1>5, <1>6, <1>7, <1>8, <1>9, StepCases DEF Crash, NoManifest

LEMMA FilesStep == IInv /\ [Next]_vars => FilesOK'
<1> SUFFICES ASSUME IInv, [Next]_vars PROVE FilesOK'
  OBVIOUS
<1>0. /\ todo \in Seq(Records) /\ aof \in Seq(Records) /\ link \in Seq(Records)
      /\ cmd \in Records \cup {NULL} /\ queue \in Seq(Cmds)
  BY DEF IInv, FilesOK
<1>1. CASE UNCHANGED <<todo, aof, link, cmd, queue>>
  BY <1>0, <1>1 DEF FilesOK
<1>2. CASE Follow
  <2>1. Tail(link) \in Seq(Records)
    BY <1>0, <1>2, HeadAndTail DEF Follow
  <2> QED BY <1>0, <1>2, <2>1 DEF Follow, FilesOK, disk, multi
<1>3. CASE End
  <2>1. <<>> \in Seq(Records) /\ <<>> \in Seq(Cmds)
    BY EmptySeq
  <2> QED BY <1>0, <1>3, <2>1 DEF End, FilesOK, disk
<1>4. ASSUME NEW yes \in BOOLEAN, Replay(yes) PROVE FilesOK'
  <2>1. CASE todo # <<>>
    <3>1. Head(todo) \in Records /\ Tail(todo) \in Seq(Records)
      BY <1>0, <2>1, HeadAndTail
    <3>2. Append(aof, Head(todo)) \in Seq(Records)
      BY <1>0, <3>1
    <3>3. todo' = Tail(todo) /\ (aof' = aof \/ aof' = Append(aof, Head(todo)))
      BY <1>4, <2>1 DEF Replay
    <3> QED BY <1>0, <1>4, <3>1, <3>2, <3>3 DEF Replay, replica, multi, FilesOK
  <2>2. CASE todo = <<>>
    BY <1>1, <1>4, <2>2 DEF Replay, replica, multi
  <2> QED BY <2>1, <2>2
<1>5. ASSUME NEW c \in Cmds, Runs(c) PROVE FilesOK'
  <2>1. queue' \in Seq(Cmds)
    BY <1>0, <1>5, HeadAndTail DEF Runs, multi
  <2> QED BY <1>0, <1>5, <2>1, RecordFacts DEF Runs, handle, disk, FilesOK
<1>6. ASSUME NEW yes \in BOOLEAN, Finish(yes) PROVE FilesOK'
  <2>1. cmd \in Records
    BY <1>0, <1>6 DEF Finish
  <2> DEFINE r == [cmd EXCEPT !.name = cmd_to_string(@)]
  <2>2. r \in Records
    BY <2>1, RecordFacts
  <2>3. (aof' = aof \/ aof' = Append(aof, r)) /\ (link' = link \/ link' = Append(link, r))
    BY <1>6 DEF Finish, Appended, Passed
  <2> HIDE DEF r
  <2>4. Append(aof, r) \in Seq(Records) /\ Append(link, r) \in Seq(Records)
    BY <1>0, <2>2
  <2>5. aof' \in Seq(Records) /\ link' \in Seq(Records)
    BY <1>0, <2>3, <2>4
  <2> QED BY <1>0, <1>6, <2>5 DEF Finish, FilesOK
<1>7. ASSUME NEW yes \in BOOLEAN, rdb_config_handler(yes) PROVE FilesOK'
  BY <1>0, <1>7 DEF rdb_config_handler, replica, disk, multi, FilesOK
<1>8. CASE Tick \/ create_dir \/ Join \/ LoadRdb \/ UNCHANGED vars
  BY <1>1, <1>8 DEF Tick, create_dir, Join, LoadRdb, replica, disk, multi, vars
<1>9. ASSUME NEW c \in Cmds, Queue(c) PROVE FilesOK'
  <2> DEFINE r == [c EXCEPT !.name = cmd_to_string(@)]
  <2>1. r \in Records
    BY RecordFacts
  <2>2. link' = link \/ link' = Append(link, r)
    BY <1>9 DEF Queue, Passed
  <2> HIDE DEF r
  <2>3. link \in Seq(Records) /\ Append(link, r) \in Seq(Records)
    BY <1>0, <2>1
  <2>5. link' \in Seq(Records)
    BY <2>2, <2>3
  <2>4. queue' \in Seq(Cmds)
    BY <1>0, <1>9 DEF Queue
  <2> QED BY <1>0, <1>9, <2>4, <2>5 DEF Queue, disk, FilesOK
<1>10. CASE handle_discard
  <2>1. <<>> \in Seq(Cmds)
    BY EmptySeq
  <2> QED BY <1>0, <1>10, <2>1 DEF handle_discard, disk, replica, FilesOK
<1> QED BY <1>2, <1>3, <1>4, <1>5, <1>6, <1>7, <1>8, <1>9, <1>10, StepCases DEF Crash, NoManifest, Receives

LEMMA FlagsStep == IInv /\ [Next]_vars => FlagsOK'
<1> SUFFICES ASSUME IInv, [Next]_vars PROVE FlagsOK'
  OBVIOUS
<1>0. /\ FlagsOK /\ todo \in Seq(Records) /\ aof \in Seq(Records)
      /\ cmd \in Records \cup {NULL}
  BY DEF IInv, FilesOK
<1>1. InFile \subseteq Buckets
  <2>1. Range(aof) \subseteq Records
    BY <1>0, RangeOfSeq
  <2> QED BY <2>1, RecordFacts DEF InFile
<1>2. cmd # NULL => hash[cmd.key] \in Buckets
  BY <1>0, RecordFacts
<1>3. CASE Tick \/ UNCHANGED vars
  BY <1>0, <1>3 DEF Tick, multi, vars, disk, replica, FlagsOK
<1>4. CASE create_dir
  BY <1>0, <1>4 DEF create_dir, multi, replica, FlagsOK
<1>5. CASE LoadRdb
  BY <1>0, <1>5 DEF LoadRdb, multi, disk, replica, FlagsOK
<1>6. CASE Join
  BY <1>0, <1>6 DEF Join, multi, disk, FlagsOK
<1>7. CASE Follow
  BY <1>0, <1>7 DEF Follow, multi, disk, FlagsOK
<1>8. ASSUME End, crashes' \in Nat PROVE FlagsOK'
  <2>1. lost' \subseteq Buckets /\ redone' \subseteq Buckets
    BY <1>0, <1>1, <1>2, <1>8 DEF End, FlagsOK
  <2> QED BY <1>0, <1>8, <2>1 DEF End, disk, FlagsOK
<1>9. CASE Crash \/ NoManifest
  BY <1>0, <1>8, <1>9 DEF Crash, NoManifest, FlagsOK
<1>10. ASSUME NEW yes \in BOOLEAN, rdb_config_handler(yes) PROVE FlagsOK'
  BY <1>0, <1>1, <1>10 DEF rdb_config_handler, multi, disk, replica, FlagsOK
<1>11. ASSUME NEW yes \in BOOLEAN, Replay(yes) PROVE FlagsOK'
  <2>1. CASE todo # <<>>
    <3>1. hash[Reread(Head(todo)).key] \in Buckets
      BY <1>0, <2>1, HeadAndTail, RecordFacts
    <3>2. lost' \subseteq Buckets /\ doomed' \subseteq Buckets
      BY <1>0, <1>11, <2>1, <3>1 DEF Replay, multi, FlagsOK
    <3> QED BY <1>0, <1>11, <2>1, <3>2 DEF Replay, multi, replica, FlagsOK
  <2>2. CASE todo = <<>>
    BY <1>0, <1>11, <2>2 DEF Replay, multi, replica, FlagsOK
  <2> QED BY <2>1, <2>2
<1>12. ASSUME NEW yes \in BOOLEAN, Finish(yes) PROVE FlagsOK'
  BY <1>0, <1>2, <1>12 DEF Finish, FlagsOK
<1>13. ASSUME NEW c \in Cmds, Runs(c) PROVE FlagsOK'
  <2>1. c.key \in Keys /\ hash[c.key] \in Buckets
    BY RecordFacts
  <2>2. lost' \subseteq Buckets /\ drift' \subseteq Buckets
    BY <1>0, <1>13, <2>1 DEF Runs, handle, FlagsOK
  <2>3. waiter' = NULL \/ waiter' \in [key : Keys, at : Nat]
    BY <1>0, <1>13, <2>1 DEF Runs, handle, FlagsOK
  <2>4. exec' \in BOOLEAN
    BY <1>0, <1>13 DEF Runs, multi, FlagsOK
  <2>5. ops' \in Nat
    BY <1>0, <1>13 DEF Runs, FlagsOK
  <2> QED BY <1>0, <1>13, <2>2, <2>3, <2>4, <2>5 DEF Runs, handle, disk, FlagsOK
<1>14. CASE Receives
  <2>1. ops' \in Nat
    BY <1>0, <1>14 DEF Receives, Queue, handle_discard, FlagsOK
  <2>2. drift' \subseteq Buckets
    <3>1. ASSUME NEW c \in Cmds, Queue(c) PROVE drift' \subseteq Buckets
      <4>1. hash[c.key] \in Buckets
        BY RecordFacts
      <4>2. drift' \in {drift, drift \cup {hash[c.key]}}
        BY <3>1 DEF Queue
      <4> QED BY <1>0, <4>1, <4>2 DEF FlagsOK
    <3>2. CASE handle_discard
      BY <1>0, <3>2 DEF handle_discard, replica, FlagsOK
    <3> QED BY <1>14, <3>1, <3>2 DEF Receives
  <2> QED BY <1>0, <1>14, <2>1, <2>2 DEF Receives, Queue, handle_discard, disk, replica, FlagsOK
<1> QED BY <1>3, <1>4, <1>5, <1>6, <1>7, <1>9, <1>10, <1>11, <1>12, <1>13, <1>14, StepCases

LEMMA BootStep == IInv /\ [Next]_vars => BootOK'
<1> SUFFICES ASSUME IInv, [Next]_vars PROVE BootOK'
  OBVIOUS
<1>0. FlagsOK /\ BootOK
  BY DEF IInv
<1>1. CASE UNCHANGED <<dir, manifest, torn>> /\ pc' # "failed" /\ pc \notin {"open_manifest", "write_manifest"}
  BY <1>0, <1>1 DEF BootOK
<1>2. CASE UNCHANGED <<dir, manifest, torn, pc>>
  BY <1>0, <1>2 DEF BootOK
<1>3. CASE create_dir
  BY <1>0, <1>3 DEF create_dir, BootOK
<1>4. CASE End
  BY <1>0, <1>4 DEF End, disk, BootOK, FlagsOK
<1>5. ASSUME NEW yes \in BOOLEAN, rdb_config_handler(yes) PROVE BootOK'
  BY <1>0, <1>5 DEF rdb_config_handler, disk, BootOK
<1>6. ASSUME NEW yes \in BOOLEAN, Replay(yes) PROVE BootOK'
  BY <1>1, <1>6 DEF Replay
<1>7. ASSUME NEW c \in Cmds, Runs(c) PROVE BootOK'
  BY <1>1, <1>7 DEF Runs, handle, Serving, disk
<1>8. CASE LoadRdb
  BY <1>1, <1>8 DEF LoadRdb, disk
<1>9. CASE Tick \/ Join \/ Follow \/ (\E yes \in BOOLEAN : Finish(yes)) \/ UNCHANGED vars
  BY <1>2, <1>9 DEF Tick, Join, Follow, Finish, disk, vars
<1>10. CASE Receives
  BY <1>2, <1>10 DEF Receives, Queue, handle_discard, disk
<1> QED BY <1>3, <1>4, <1>5, <1>6, <1>7, <1>8, <1>9, <1>10, StepCases DEF Crash, NoManifest

LEMMA InitIInv == Init => IInv
<1> SUFFICES ASSUME Init PROVE IInv
  OBVIOUS
<1>1. TablesOK
  BY EmptyTableOK, LoadOK DEF Init, TablesOK
<1>2. FilesOK
  BY EmptySeq DEF Init, FilesOK
<1>3. FlagsOK /\ BootOK
  BY PersistenceAssumption DEF Init, FlagsOK, BootOK
<1> QED BY <1>1, <1>2, <1>3 DEF IInv

(* The inductive invariant holds in every reachable state.                 *)
THEOREM Invariance == Spec => []IInv
<1>1. IInv /\ [Next]_vars => IInv'
  BY TablesStep, FilesStep, FlagsStep, BootStep DEF IInv
<1> QED BY <1>1, InitIInv, PTL DEF Spec

(* Every reachable state is type correct: what the commands, the replay,   *)
(* the RDB file and the replica make of the tables are chains of entries.  *)
THEOREM TypeCorrect == Spec => []TypeOK
  BY Invariance, IInvTypeOK, PTL

(* rdb_config_handler fails for want of a manifest only after a create_dir *)
(* that was interrupted.                                                   *)
THEOREM BootFailuresExplained == Spec => []UnbootableHasCause
<1>1. IInv => UnbootableHasCause
  BY DEF IInv, BootOK, UnbootableHasCause
<1> QED BY <1>1, Invariance, PTL

-----------------------------------------------------------------------------
(* What a command of a client does to the keys.                            *)

(* The table after a command, as one change or two: an RPUSH that wakes a  *)
(* client also pops.                                                       *)
LEMMA RunTable ==
    ASSUME IInv, NEW c \in Cmds, Runs(c)
    PROVE  /\ TableOK(table')
           /\ \A k \in Keys : k # c.key => KeptOrHead(table, table', k)
           /\ \A k \in Keys :
                 k # c.key /\ (Found(table, c.key) # {} \/ c.name \notin Makers)
                    => store_getEntry(table', k) = store_getEntry(table, k)
           /\ c.name \notin {"SET", "INCR"} =>
                 \A d \in store_getEntry(table, c.key), e \in store_getEntry(table', c.key) :
                    e.expires_at = d.expires_at
<1> DEFINE u == Apply(table, c, now)
           w == LPOP(u, c)
<1>0. TableOK(table) /\ now \in Int /\ c \in Records /\ c.key \in Keys
  <2>1. TableOK(table) /\ now \in Int
    BY DEF IInv, TablesOK, FlagsOK
  <2>2. c \in Records /\ c.key \in Keys
    BY RecordFacts
  <2> QED BY <2>1, <2>2
<1>1. /\ TableOK(u)
      /\ \A k \in Keys : k # c.key => KeptOrHead(table, u, k)
      /\ \A k \in Keys :
            k # c.key /\ (Found(table, c.key) # {} \/ c.name \notin Makers)
               => store_getEntry(u, k) = store_getEntry(table, k)
      /\ c.name \notin {"SET", "INCR"} =>
            \A d \in store_getEntry(table, c.key), e \in store_getEntry(u, c.key) :
               e.expires_at = d.expires_at
  <2>1. u = table \/ Changed(table, u, c)
    BY <1>0, Applied
  <2>2. \A d, e \in store_getEntry(table, c.key) : d = e
    BY DEF store_getEntry
  <2> HIDE DEF u
  <2>3. CASE u = table
    BY <1>0, <2>2, <2>3 DEF KeptOrHead
  <2>4. CASE Changed(table, u, c)
    BY <1>0, <2>4, ChangedTable
  <2> QED BY <2>1, <2>3, <2>4
<1>2. /\ TableOK(w)
      /\ \A k \in Keys : k # c.key => store_getEntry(w, k) = store_getEntry(u, k)
      /\ c.name \notin {"SET", "INCR"} =>
            \A d \in store_getEntry(u, c.key), e \in store_getEntry(w, c.key) :
               e.expires_at = d.expires_at
  <2>1. w = u \/ (Found(u, c.key) # {} /\ Changed(u, w, c))
    BY <1>0, <1>1, PopChanges
  <2>2. \A d, e \in store_getEntry(u, c.key) : d = e
    BY DEF store_getEntry
  <2> HIDE DEF u, w
  <2>3. CASE w = u
    BY <1>1, <2>2, <2>3
  <2>4. CASE Found(u, c.key) # {} /\ Changed(u, w, c)
    BY <1>0, <1>1, <2>4, ChangedTable
  <2> QED BY <2>1, <2>3, <2>4
<1>3. table' \in {table, u} \/ (table' = w /\ c.name = "RPUSH")
  BY DEF Runs, handle, Wakes
<1>4. \A d, e \in store_getEntry(table, c.key) : d = e
  BY DEF store_getEntry
<1> HIDE DEF u, w
<1>5. CASE table' = table
  BY <1>0, <1>4, <1>5 DEF KeptOrHead
<1>6. CASE table' = u
  BY <1>1, <1>6
<1>7. CASE table' = w /\ c.name = "RPUSH"
  <2>1. \A k \in Keys : k # c.key => KeptOrHead(table, table', k)
    BY <1>1, <1>2, <1>7 DEF KeptOrHead
  <2>2. \A k \in Keys :
            k # c.key /\ (Found(table, c.key) # {} \/ c.name \notin Makers)
               => store_getEntry(table', k) = store_getEntry(table, k)
    BY <1>1, <1>2, <1>7
  <2>3. ASSUME NEW d \in store_getEntry(table, c.key), NEW e \in store_getEntry(table', c.key)
        PROVE  e.expires_at = d.expires_at
    <3>1. Found(u, c.key) # {}
      <4>1. CASE Found(u, c.key) = {}
        <5>1. store_getEntry(u, c.key) = {} /\ ValueOf(u, c.key) = <<>>
          BY <4>1 DEF store_getEntry, ValueOf
        <5>2. w = u
          BY <5>1 DEF w, LPOP
        <5> QED BY <1>7, <2>3, <5>1, <5>2
      <4> QED BY <4>1
    <3>2. PICK x : x \in store_getEntry(u, c.key)
      BY <3>1 DEF store_getEntry
    <3> QED BY <1>1, <1>2, <1>7, <2>3, <3>2
  <2>4. TableOK(table')
    BY <1>2, <1>7
  <2>5. \A d \in store_getEntry(table, c.key), e \in store_getEntry(table', c.key) :
           e.expires_at = d.expires_at
    BY <2>3
  <2> QED BY <2>1, <2>2, <2>4, <2>5
<1> QED BY <1>3, <1>5, <1>6, <1>7

(* The commands of handle() change their own key; only one that makes a    *)
(* list, a stream or a sorted set takes another away, the head of the      *)
(* bucket.                                                                 *)
THEOREM OtherKeysKept == Spec => OthersKept
<1> DEFINE P(k) ==
        (/\ cmd = NULL /\ cmd' # NULL /\ cmd'.key # k
         /\ store_getEntry(table', k) # store_getEntry(table, k))
            => /\ TypeOf(cmd'.name) # "string"
               /\ store_getEntry(table, cmd'.key) = {}
               /\ table[hash[k]][1].key = k
<1>1. ASSUME IInv, [Next]_vars PROVE [\A k \in Keys : P(k)]_vars
  <2> SUFFICES ASSUME Next, NEW k \in Keys, cmd = NULL, cmd' # NULL, cmd'.key # k,
                      store_getEntry(table', k) # store_getEntry(table, k)
               PROVE  /\ TypeOf(cmd'.name) # "string"
                      /\ store_getEntry(table, cmd'.key) = {}
                      /\ table[hash[k]][1].key = k
    BY <1>1 DEF vars
  <2>1. PICK c \in Cmds : Runs(c)
    <3>1. ~(UNCHANGED cmd) /\ ~End
      BY DEF End
    <3>2. ~Tick /\ ~create_dir /\ ~LoadRdb /\ ~Join /\ ~Follow /\ ~Crash /\ ~NoManifest
      BY <3>1 DEF Tick, create_dir, LoadRdb, Join, Follow, Crash, NoManifest
    <3>3. \A yes \in BOOLEAN : ~rdb_config_handler(yes) /\ ~Replay(yes) /\ ~Finish(yes)
      BY <3>1 DEF rdb_config_handler, Replay, Finish
    <3>4. ~Receives
      BY <3>1 DEF Receives, Queue, handle_discard
    <3> QED BY <1>1, <3>2, <3>3, <3>4, StepCases
  <2>2. cmd' = c
    BY <2>1 DEF Runs, handle
  <2>3. KeptOrHead(table, table', k) /\ Found(table, c.key) = {} /\ c.name \in Makers
    BY <1>1, <2>1, <2>2, RunTable
  <2>4. TypeOf(c.name) # "string"
    BY <2>3 DEF Makers, TypeOf
  <2>5. store_getEntry(table, c.key) = {}
    BY <2>3 DEF store_getEntry
  <2> QED BY <2>2, <2>3, <2>4, <2>5 DEF KeptOrHead
<1>2. [][\A k \in Keys : P(k)]_vars => OthersKept
  BY PTL DEF OthersKept
<1> QED BY <1>1, <1>2, Invariance, PTL DEF Spec

(* The entry a search finds is one of the table's.                         *)
LEMMA EntryType ==
    ASSUME NEW t, TableOK(t), NEW k \in Keys, NEW d \in store_getEntry(t, k)
    PROVE  d \in Entries
<1>1. Found(t, k) # {} /\ d = t[hash[k]][Min(Found(t, k))]
  BY DEF store_getEntry
<1>2. Min(Found(t, k)) \in DOMAIN t[hash[k]] /\ t[hash[k]] \in Chains
  BY <1>1, EntryFound
<1> QED BY <1>1, <1>2, ElementOfSeq, LenProperties DEF Chains

(* store_get hides an entry whose deadline has passed for good: neither    *)
(* the clock nor a command on another key, nor one that is not a SET or    *)
(* INCR, shows it again.                                                   *)
THEOREM ExpiredKeysStayGone == Spec => ExpiredStaysGone
<1> DEFINE P(k) ==
        (/\ Serving /\ Serving'
         /\ store_getEntry(table, k) # {} /\ store_get(table, k, now) = {}
         /\ store_get(table', k, now') # {})
            => cmd' # NULL /\ cmd'.key = k /\ cmd'.name \in {"SET", "INCR"}
<1>1. ASSUME IInv, [Next]_vars PROVE [\A k \in Keys : P(k)]_vars
  <2> SUFFICES ASSUME Next, NEW k \in Keys, Serving, Serving',
                      store_getEntry(table, k) # {}, store_get(table, k, now) = {},
                      store_get(table', k, now') # {}
               PROVE  cmd' # NULL /\ cmd'.key = k /\ cmd'.name \in {"SET", "INCR"}
    BY <1>1 DEF vars
  <2>1. TableOK(table) /\ now \in Int
    BY <1>1 DEF IInv, TablesOK, FlagsOK
  <2>2. PICK d : store_getEntry(table, k) = {d}
    BY DEF store_getEntry
  <2>3. d.expires_at # 0 /\ now >= d.expires_at
    BY <2>2 DEF store_get, Expired
  <2>4. PICK e : e \in store_getEntry(table', k) /\ ~Expired(e, now')
    BY DEF store_get
  <2>5. CASE UNCHANGED <<table, now>>
    BY <2>5, <2>2, <2>3, <2>4 DEF Expired
  <2>6. CASE Tick
    <3>1. e = d /\ now' = now + 1
      BY <2>2, <2>4, <2>6 DEF Tick
    <3>2. d.expires_at \in Int
      BY <2>1, <2>2, EntryType DEF Entries
    <3> QED BY <2>1, <2>3, <2>4, <3>1, <3>2 DEF Expired
  <2>7. ASSUME NEW c \in Cmds, Runs(c)
        PROVE  cmd' # NULL /\ cmd'.key = k /\ cmd'.name \in {"SET", "INCR"}
    <3>1. cmd' = c /\ c # NULL /\ now' = now
      BY <2>7, PersistenceAssumption DEF Runs, handle
    <3>2. c.key = k
      <4>1. CASE c.key # k
        <5>1. KeptOrHead(table, table', k)
          BY <1>1, <2>7, <4>1, RunTable
        <5>2. e = d
          BY <2>2, <2>4, <5>1 DEF KeptOrHead
        <5> QED BY <2>3, <2>4, <3>1, <5>2 DEF Expired
      <4> QED BY <4>1
    <3>3. c.name \in {"SET", "INCR"}
      <4>1. CASE c.name \notin {"SET", "INCR"}
        <5>1. e.expires_at = d.expires_at
          BY <1>1, <2>2, <2>4, <2>7, <3>2, <4>1, RunTable
        <5> QED BY <2>3, <2>4, <3>1, <5>1 DEF Expired
      <4> QED BY <4>1
    <3> QED BY <3>1, <3>2, <3>3
  <2>8. CASE create_dir \/ LoadRdb \/ \E yes \in BOOLEAN : rdb_config_handler(yes) \/ Replay(yes)
    BY <2>8 DEF Serving, create_dir, LoadRdb, rdb_config_handler, Replay
  <2>9. ~Crash /\ ~NoManifest
    BY DEF Crash, NoManifest, End, Serving
  <2>10. CASE Join \/ Follow \/ \E yes \in BOOLEAN : Finish(yes)
    BY <2>5, <2>10 DEF Join, Follow, Finish
  <2>11. CASE Receives
    BY <2>5, <2>11 DEF Receives, Queue, handle_discard
  <2> QED BY <1>1, <2>6, <2>7, <2>8, <2>9, <2>10, <2>11, StepCases
<1>2. [][\A k \in Keys : P(k)]_vars => ExpiredStaysGone
  BY PTL DEF ExpiredStaysGone
<1> QED BY <1>1, <1>2, Invariance, PTL DEF Spec

-----------------------------------------------------------------------------
(* Two chains, or two buckets, that differ in deadlines at most.           *)

\* With a deadline that is no earlier, and none when there was none.
NoEarlier(d, e) ==
    /\ d.expires_at = 0 <=> e.expires_at = 0
    /\ e.expires_at >= d.expires_at

Matches(d, e, D) ==
    /\ d.key = e.key /\ d.type = e.type /\ d.value = e.value
    /\ D => NoEarlier(d, e)

\* D: the deadlines of q are no earlier than those of p.
Alike(p, q, D) ==
    /\ DOMAIN p = DOMAIN q
    /\ \A j \in DOMAIN p : Matches(p[j], q[j], D)

LEMMA AlikeFront ==
    ASSUME NEW p \in Chains, NEW q \in Chains, NEW D \in BOOLEAN, Alike(p, q, D),
           NEW d \in Entries, NEW e \in Entries, Matches(d, e, D)
    PROVE  Alike(<<d>> \o p, <<e>> \o q, D)
<1> DEFINE r == <<d>> \o p
           s == <<e>> \o q
           N == Len(p)
<1>1. N \in Nat /\ DOMAIN p = 1 .. N /\ Len(q) \in Nat /\ DOMAIN q = 1 .. Len(q)
  BY LenProperties DEF Chains
<1>2. Len(q) = N
  <2>1. 1 .. N = 1 .. Len(q)
    BY <1>1 DEF Alike
  <2> QED BY <1>1, <2>1, SameInterval
<1>3. /\ <<d>> \in Seq(Entries) /\ Len(<<d>>) = 1 /\ <<d>>[1] = d
      /\ <<e>> \in Seq(Entries) /\ Len(<<e>>) = 1 /\ <<e>>[1] = e
  OBVIOUS
<1>4. /\ r \in Seq(Entries) /\ Len(r) = 1 + N
      /\ \A i \in 1 .. 1 + N : r[i] = IF i <= 1 THEN <<d>>[i] ELSE p[i - 1]
  BY <1>3, ConcatProperties DEF Chains
<1>5. /\ s \in Seq(Entries) /\ Len(s) = 1 + N
      /\ \A i \in 1 .. 1 + N : s[i] = IF i <= 1 THEN <<e>>[i] ELSE q[i - 1]
  BY <1>2, <1>3, ConcatProperties DEF Chains
<1> HIDE DEF r, s
<1>6. DOMAIN r = 1 .. 1 + N /\ DOMAIN s = 1 .. 1 + N
  BY <1>4, <1>5, LenProperties
<1>7. ASSUME NEW i \in 1 .. 1 + N PROVE Matches(r[i], s[i], D)
  <2>1. CASE i = 1
    <3>1. 1 \in 1 .. 1 + N /\ 1 <= 1
      BY <1>1
    <3>2. r[1] = <<d>>[1] /\ s[1] = <<e>>[1]
      BY <1>4, <1>5, <3>1
    <3> QED BY <1>3, <2>1, <3>2
  <2>2. CASE i # 1
    <3>1. i - 1 \in 1 .. N /\ ~(i <= 1)
      BY <1>1, <2>2
    <3>2. r[i] = p[i - 1] /\ s[i] = q[i - 1]
      BY <1>4, <1>5, <3>1
    <3>3. Matches(p[i - 1], q[i - 1], D)
      BY <1>1, <3>1 DEF Alike
    <3> QED BY <3>2, <3>3
  <2> QED BY <2>1, <2>2
<1>8. Alike(r, s, D)
  BY <1>6, <1>7 DEF Alike
<1> QED BY <1>8 DEF r, s

LEMMA AlikeOver ==
    ASSUME NEW p, NEW q, NEW D, Alike(p, q, D), NEW i \in DOMAIN p,
           NEW d, NEW e, Matches(d, e, D)
    PROVE  Alike(Over(p, i, d), Over(q, i, e), D)
<1>1. DOMAIN p = DOMAIN q /\ \A j \in DOMAIN p : Matches(p[j], q[j], D)
  BY DEF Alike
<1>2. DOMAIN Over(p, i, d) = DOMAIN p /\ DOMAIN Over(q, i, e) = DOMAIN p
  BY <1>1 DEF Over
<1>3. ASSUME NEW j \in DOMAIN p PROVE Matches(Over(p, i, d)[j], Over(q, i, e)[j], D)
  <2>1. CASE i = j
    <3>1. Over(p, i, d)[j] = d /\ Over(q, i, e)[j] = e
      BY <1>1, <2>1 DEF Over
    <3> QED BY <3>1
  <2>2. CASE i # j
    <3>1. Over(p, i, d)[j] = p[j] /\ Over(q, i, e)[j] = q[j]
      BY <1>1, <2>2 DEF Over
    <3> QED BY <1>1, <3>1
  <2> QED BY <2>1, <2>2
<1> QED BY <1>2, <1>3 DEF Alike

\* The command's bucket of two tables, alike.
LEMMA AlikeFound ==
    ASSUME NEW t, TableOK(t), NEW u, TableOK(u), NEW k \in Keys, NEW D,
           Alike(t[hash[k]], u[hash[k]], D)
    PROVE  /\ Found(t, k) = Found(u, k)
           /\ Found(t, k) # {} => Matches(t[hash[k]][Min(Found(t, k))], u[hash[k]][Min(Found(t, k))], D)
           /\ ValueOf(t, k) = ValueOf(u, k)
           /\ t[hash[k]] = <<>> <=> u[hash[k]] = <<>>
<1> DEFINE p == t[hash[k]]
           q == u[hash[k]]
<1>1. DOMAIN p = DOMAIN q /\ \A j \in DOMAIN p : Matches(p[j], q[j], D)
  BY DEF Alike
<1>2. Found(t, k) = Found(u, k)
  BY <1>1 DEF Found, Matches
<1>3. Found(t, k) # {} => Min(Found(t, k)) \in DOMAIN p
  BY EntryFound
<1>4. p \in Chains /\ q \in Chains
  BY EntryFound
<1>5. p = <<>> <=> q = <<>>
  BY <1>1, <1>4, EmptySeq, LenProperties DEF Chains
<1>6. ValueOf(t, k) = ValueOf(u, k)
  BY <1>1, <1>2, <1>3 DEF ValueOf, Matches
<1> QED BY <1>1, <1>2, <1>3, <1>5, <1>6

LEMMA AlikeSet ==
    ASSUME NEW t, TableOK(t), NEW u, TableOK(u), NEW k \in Keys, NEW D \in BOOLEAN,
           Alike(t[hash[k]], u[hash[k]], D), NEW value \in Seq(Int),
           NEW x \in Int, NEW y \in Int, D => (x = 0 <=> y = 0) /\ y >= x
    PROVE  Alike(store_set(t, k, "string", value, x)[hash[k]],
                 store_set(u, k, "string", value, y)[hash[k]], D)
<1> DEFINE d == Entry(k, "string", value, x)
           e == Entry(k, "string", value, y)
           p == t[hash[k]]
           q == u[hash[k]]
           i == Min(Found(t, k))
<1>1. d \in Entries /\ e \in Entries /\ Matches(d, e, D)
  BY DEF Entry, Entries, Types, Matches, NoEarlier
<1>2. store_set(t, k, "string", value, x)[hash[k]] =
         IF Found(t, k) = {} THEN <<d>> \o p ELSE Over(p, i, d)
  BY KeyspaceAssumption DEF store_set, Over, TableOK
<1>3. store_set(u, k, "string", value, y)[hash[k]] =
         IF Found(u, k) = {} THEN <<e>> \o q ELSE Over(q, Min(Found(u, k)), e)
  BY KeyspaceAssumption DEF store_set, Over, TableOK
<1> HIDE DEF d, e
<1>4. Found(t, k) = Found(u, k)
  BY AlikeFound
<1>5. p \in Chains /\ q \in Chains /\ (Found(t, k) # {} => i \in DOMAIN p)
  BY EntryFound
<1>6. Alike(<<d>> \o p, <<e>> \o q, D)
  BY <1>1, <1>5, AlikeFront
<1>7. Found(t, k) # {} => Alike(Over(p, i, d), Over(q, i, e), D)
  BY <1>1, <1>5, AlikeOver
<1> QED BY <1>2, <1>3, <1>4, <1>6, <1>7

LEMMA AlikeUpdate ==
    ASSUME NEW t, TableOK(t), NEW u, TableOK(u), NEW k \in Keys, NEW D \in BOOLEAN,
           Alike(t[hash[k]], u[hash[k]], D), NEW value \in Seq(Int), Found(t, k) # {}
    PROVE  Alike(Update(t, k, value)[hash[k]], Update(u, k, value)[hash[k]], D)
<1> DEFINE p == t[hash[k]]
           q == u[hash[k]]
           i == Min(Found(t, k))
           d == [p[i] EXCEPT !.value = value]
           e == [q[i] EXCEPT !.value = value]
<1>1. Found(t, k) = Found(u, k) /\ Matches(p[i], q[i], D)
  BY AlikeFound
<1>2. i \in DOMAIN p /\ p \in Chains /\ q \in Chains /\ DOMAIN p = DOMAIN q
  BY EntryFound DEF Alike
<1>3. p[i] \in Entries /\ q[i] \in Entries
  BY <1>2, ElementOfSeq, LenProperties DEF Chains
<1>4. Update(t, k, value)[hash[k]] = Over(p, i, d)
  BY KeyspaceAssumption DEF Update, Over, TableOK
<1>5. Update(u, k, value)[hash[k]] = Over(q, i, e)
  BY <1>1, KeyspaceAssumption DEF Update, Over, TableOK
<1> HIDE DEF p, q, i
<1>6. Matches(d, e, D)
  BY <1>1, <1>3 DEF Entries, Matches, NoEarlier
<1> HIDE DEF d, e
<1> QED BY <1>2, <1>4, <1>5, <1>6, AlikeOver DEF p, q

LEMMA AlikePut ==
    ASSUME NEW t, TableOK(t), NEW u, TableOK(u), NEW k \in Keys, NEW D \in BOOLEAN,
           Alike(t[hash[k]], u[hash[k]], D), NEW type \in Types, NEW value \in Seq(Int)
    PROVE  Alike(Put(t, k, type, value)[hash[k]], Put(u, k, type, value)[hash[k]], D)
<1> DEFINE p == t[hash[k]]
           q == u[hash[k]]
           e == Entry(k, type, value, 0)
<1>1. Found(t, k) = Found(u, k) /\ (p = <<>> <=> q = <<>>)
  BY AlikeFound
<1>2. CASE Found(t, k) # {}
  BY <1>1, <1>2, AlikeUpdate DEF Put
<1>3. CASE Found(t, k) = {}
  <2>1. Matches(e, e, D)
    BY DEF Entry, Matches, NoEarlier
  <2>2. Put(t, k, type, value)[hash[k]] = IF p = <<>> THEN <<e>> ELSE Over(p, 1, e)
    BY <1>3, KeyspaceAssumption DEF Put, store_set_object, Over, TableOK
  <2>3. Put(u, k, type, value)[hash[k]] = IF q = <<>> THEN <<e>> ELSE Over(q, 1, e)
    BY <1>1, <1>3, KeyspaceAssumption DEF Put, store_set_object, Over, TableOK
  <2> HIDE DEF e
  <2>4. Alike(<<e>>, <<e>>, D)
    BY <2>1 DEF Alike
  <2>5. p # <<>> => 1 \in DOMAIN p
    BY EntryFound, LenProperties, EmptySeq DEF Chains
  <2>6. p # <<>> => Alike(Over(p, 1, e), Over(q, 1, e), D)
    BY <2>1, <2>5, AlikeOver
  <2> QED BY <1>1, <2>2, <2>3, <2>4, <2>6
<1> QED BY <1>2, <1>3

LEMMA AlikePop ==
    ASSUME NEW t, TableOK(t), NEW u, TableOK(u), NEW c, c.key \in Keys, NEW D \in BOOLEAN,
           Alike(t[hash[c.key]], u[hash[c.key]], D)
    PROVE  Alike(LPOP(t, c)[hash[c.key]], LPOP(u, c)[hash[c.key]], D)
<1> DEFINE v == ValueOf(t, c.key)
<1>1. v = ValueOf(u, c.key)
  BY AlikeFound
<1>2. v \in Seq(Int) /\ (v # <<>> => Found(t, c.key) # {})
  BY ValueType
<1>3. CASE v = <<>>
  BY <1>1, <1>3 DEF LPOP
<1>4. CASE v # <<>>
  <2>1. Tail(v) \in Seq(Int)
    BY <1>2, <1>4, HeadTailProperties
  <2>2. LPOP(t, c) = Update(t, c.key, Tail(v)) /\ LPOP(u, c) = Update(u, c.key, Tail(v))
    BY <1>1, <1>4 DEF LPOP
  <2> HIDE DEF v
  <2> QED BY <1>2, <1>4, <2>1, <2>2, AlikeUpdate
<1> QED BY <1>3, <1>4

LEMMA AlikeRemove ==
    ASSUME NEW t, TableOK(t), NEW u, TableOK(u), NEW c, c.key \in Keys, NEW D \in BOOLEAN,
           Alike(t[hash[c.key]], u[hash[c.key]], D)
    PROVE  Alike(ZREM(t, c)[hash[c.key]], ZREM(u, c)[hash[c.key]], D)
<1> DEFINE v == ValueOf(t, c.key)
           i == CHOOSE j \in DOMAIN v : v[j] = c.arg
<1>1. v = ValueOf(u, c.key)
  BY AlikeFound
<1>2. v \in Seq(Int) /\ (v # <<>> => Found(t, c.key) # {})
  BY ValueType
<1>3. CASE ~Contains(v, c.arg)
  BY <1>1, <1>3 DEF ZREM
<1>4. CASE Contains(v, c.arg)
  <2>1. Len(v) \in Nat /\ DOMAIN v = 1 .. Len(v)
    BY <1>2, LenProperties
  <2>2. \E j \in DOMAIN v : v[j] = c.arg
    BY <2>1, <1>4 DEF Contains
  <2>3. i \in 1 .. Len(v)
    <3> HIDE DEF v
    <3> QED BY <2>1, <2>2
  <2>4. v # <<>>
    BY <1>2, <2>1, <2>2, EmptySeq
  <2>5. ZREM(t, c) = Update(t, c.key, RemoveAt(v, i)) /\ ZREM(u, c) = Update(u, c.key, RemoveAt(v, i))
    BY <1>1, <1>4 DEF ZREM
  <2> HIDE DEF v, i
  <2>6. RemoveAt(v, i) \in Seq(Int)
    BY <1>2, <2>3, RemoveType
  <2> QED BY <1>2, <2>4, <2>5, <2>6, AlikeUpdate
<1> QED BY <1>3, <1>4

(* Only an XADD that leaves its ID to the clock depends on it.             *)
LEMMA ExtendedAnytime ==
    ASSUME NEW v, NEW c, c.arg \in Int, c.name \in Makers, ~Clocked(c), NEW at, NEW later
    PROVE  Extended(v, c, at) = Extended(v, c, later)
<1>1. c.name = "XADD" => \A last : generateId(last, c.arg, at) = generateId(last, c.arg, later)
  BY DEF Clocked, generateId
<1>2. c.name = "XADD" => XADD(v, c.arg, at) = XADD(v, c.arg, later)
  BY <1>1 DEF XADD
<1> QED BY <1>2 DEF Makers, Extended

\* A command leaves the buckets of other keys alone.
LEMMA OtherBuckets ==
    ASSUME NEW t, TableOK(t), NEW c \in Records, NEW at \in Int,
           NEW b \in Buckets, b # hash[c.key]
    PROVE  Apply(t, c, at)[b] = t[b] /\ LPOP(t, c)[b] = t[b]
<1>1. ASSUME NEW u, Changed(t, u, c) PROVE u[b] = t[b]
  <2>1. PICK e \in Entries : e.key = c.key /\ (PutFront(t, u, e) \/ PutHead(t, u, e) \/ PutOver(t, u, e))
    BY <1>1 DEF Changed
  <2>2. PICK r : u = WithBucket(t, hash[c.key], r)
    BY <2>1 DEF PutFront, PutHead, PutOver
  <2> QED BY <2>2 DEF WithBucket, TableOK
<1>2. c.key \in Keys
  BY RecordFacts
<1>3. Apply(t, c, at) = t \/ Changed(t, Apply(t, c, at), c)
  BY Applied
<1>4. LPOP(t, c) = t \/ Changed(t, LPOP(t, c), c)
  BY <1>2, PopChanges
<1> QED BY <1>1, <1>3, <1>4

(* A command does the same to buckets that are alike, unless its ID is the *)
(* clock's; the deadline it sets is no earlier when it is executed later.  *)
LEMMA AlikeApply ==
    ASSUME NEW t, TableOK(t), NEW u, TableOK(u), NEW c \in Records, NEW at \in Int,
           NEW later \in Int, NEW D \in BOOLEAN,
           D => at <= later /\ (c.ttl # -1 => at + c.ttl > 0),
           NEW b \in Buckets, Alike(t[b], u[b], D),
           Clocked(c) => b # hash[c.key]
    PROVE  Alike(Apply(t, c, at)[b], Apply(u, c, later)[b], D)
<1> DEFINE k == c.key
           v == ValueOf(t, c.key)
<1>0. k \in Keys /\ c.arg \in Int /\ c.ttl \in Int
  BY DEF Records
<1>1. CASE b # hash[k]
  <2>1. Apply(t, c, at)[b] = t[b] /\ Apply(u, c, later)[b] = u[b]
    BY <1>1, OtherBuckets
  <2> QED BY <2>1
<1>2. CASE b = hash[k]
  <2>0. Alike(t[hash[k]], u[hash[k]], D)
    BY <1>2
  <2>1. v = ValueOf(u, k)
    BY <1>0, <2>0, AlikeFound
  <2>2. v \in Seq(Int)
    BY <1>0, ValueType
  <2> HIDE DEF v
  <2>4. CASE c.name = "SET"
    <3> DEFINE x == Deadline(c.ttl, at)
               y == Deadline(c.ttl, later)
    <3>1. x \in Int /\ y \in Int /\ <<c.arg>> \in Seq(Int)
      BY <1>0 DEF Deadline
    <3>2. D => (x = 0 <=> y = 0) /\ y >= x
      BY <1>0 DEF Deadline
    <3>3. /\ Apply(t, c, at) = store_set(t, k, "string", <<c.arg>>, x)
          /\ Apply(u, c, later) = store_set(u, k, "string", <<c.arg>>, y)
      <4>1. Apply(t, c, at) = SET(t, c, at) /\ Apply(u, c, later) = SET(u, c, later)
        BY <2>4, ApplyCases
      <4> QED BY <4>1 DEF SET
    <3> HIDE DEF x, y
    <3> QED BY <1>0, <1>2, <2>0, <3>1, <3>2, <3>3, AlikeSet
  <2>5. CASE c.name = "INCR"
    <3>1. Apply(t, c, at) = INCR(t, c) /\ Apply(u, c, later) = INCR(u, c)
      BY <2>5, ApplyCases
    <3>2. CASE v = <<>>
      <4>1. /\ INCR(t, c) = store_set(t, k, "string", <<1>>, 0)
            /\ INCR(u, c) = store_set(u, k, "string", <<1>>, 0)
        BY <2>1, <3>2 DEF INCR, v
      <4>2. <<1>> \in Seq(Int) /\ 0 \in Int /\ 0 >= 0
        OBVIOUS
      <4> QED BY <1>0, <1>2, <2>0, <3>1, <4>1, <4>2, AlikeSet
    <3>3. CASE v = <<Word>>
      <4>1. <<Word>> # <<>>
        OBVIOUS
      <4>2. INCR(t, c) = t /\ INCR(u, c) = u
        BY <2>1, <3>3, <4>1 DEF INCR, v
      <4> QED BY <3>1, <4>2
    <3>4. CASE v # <<>> /\ v # <<Word>>
      <4>1. /\ INCR(t, c) = store_set(t, k, "string", <<v[1] + 1>>, 0)
            /\ INCR(u, c) = store_set(u, k, "string", <<v[1] + 1>>, 0)
        BY <2>1, <3>4 DEF INCR, v
      <4>2. v[1] \in Int
        BY <2>2, <3>4, HeadTailProperties
      <4>3. <<v[1] + 1>> \in Seq(Int) /\ 0 \in Int /\ 0 >= 0
        BY <4>2
      <4> QED BY <1>0, <1>2, <2>0, <3>1, <4>1, <4>3, AlikeSet
    <3> QED BY <3>2, <3>3, <3>4
  <2>6. CASE c.name \in {"LPOP", "BLPOP"}
    <3>1. Apply(t, c, at) = LPOP(t, c) /\ Apply(u, c, later) = LPOP(u, c)
      BY <2>6, ApplyCases
    <3> QED BY <1>0, <1>2, <2>0, <3>1, AlikePop
  <2>7. CASE c.name = "ZREM"
    <3>1. Apply(t, c, at) = ZREM(t, c) /\ Apply(u, c, later) = ZREM(u, c)
      BY <2>7, ApplyCases
    <3> QED BY <1>0, <1>2, <2>0, <3>1, AlikeRemove
  <2>8. CASE c.name \in Makers
    <3> DEFINE w == Extended(v, c, at)
    <3>1. w \in Seq(Int)
      BY <1>0, <2>2, <2>8, ExtendedType
    <3>2. Extended(v, c, later) = w
      BY <1>0, <1>2, <2>8, ExtendedAnytime
    <3>3. /\ Apply(t, c, at) = Put(t, k, TypeOf(c.name), w)
          /\ Apply(u, c, later) = Put(u, k, TypeOf(c.name), Extended(v, c, later))
      BY <2>1, <2>8, ApplyCases DEF v
    <3>4. TypeOf(c.name) \in Types
      BY <2>8 DEF Makers, TypeOf, Types
    <3> HIDE DEF w
    <3> QED BY <1>0, <1>2, <2>0, <3>1, <3>2, <3>3, <3>4, AlikePut
  <2>9. CASE c.name \notin {"SET", "INCR", "LPOP", "BLPOP", "ZREM"} \cup Makers
    <3>1. Apply(t, c, at) = t /\ Apply(u, c, later) = u
      BY <2>9, ApplyCases
    <3> QED BY <3>1
  <2> QED BY <2>4, <2>5, <2>6, <2>7, <2>8, <2>9
<1> QED BY <1>1, <1>2

LEMMA AlikeTrans ==
    ASSUME NEW p, NEW q, NEW r, Alike(p, q, FALSE), Alike(q, r, FALSE)
    PROVE  Alike(p, r, FALSE)
  BY DEF Alike, Matches

LEMMA AlikeSelf == ASSUME NEW p PROVE Alike(p, p, FALSE)
  BY DEF Alike, Matches

(* In buckets that are alike a key has the same value.                     *)
LEMMA AlikeKey ==
    ASSUME NEW t, TableOK(t), NEW u, TableOK(u), NEW k \in Keys, NEW D,
           Alike(t[hash[k]], u[hash[k]], D)
    PROVE  Strip(store_getEntry(t, k)) = Strip(store_getEntry(u, k))
<1> DEFINE i == Min(Found(t, k))
           d == t[hash[k]][i]
           e == u[hash[k]][i]
<1>1. Found(t, k) = Found(u, k) /\ (Found(t, k) # {} => Matches(d, e, D))
  BY AlikeFound
<1>2. CASE Found(t, k) = {}
  BY <1>1, <1>2 DEF store_getEntry
<1>3. CASE Found(t, k) # {}
  <2>1. store_getEntry(t, k) = {d} /\ store_getEntry(u, k) = {e}
    BY <1>1, <1>3 DEF store_getEntry
  <2>2. d \in Entries /\ e \in Entries
    BY <2>1, EntryType
  <2> HIDE DEF d, e
  <2>3. [d EXCEPT !.expires_at = 0] = [e EXCEPT !.expires_at = 0]
    BY <1>1, <1>3, <2>2 DEF Matches, Entries
  <2> QED BY <2>1, <2>3 DEF Strip
<1> QED BY <1>2, <1>3

-----------------------------------------------------------------------------
(* The replica: its table, once it has handled what is on its way, is like *)
(* the master's in every bucket without a cause for drift.                 *)

Named(c) == [c EXCEPT !.name = cmd_to_string(@)]

\* What the replica makes of a command that is passed to it.
Sent(c) == Reread(Named(c))

\* Table t after the command that is answered and still to be passed on; what
\* EXEC runs is not.
Due(t) ==
    IF cmd # NULL /\ ~exec /\ isWriteCmd(cmd.name) THEN Apply(t, Sent(cmd), 0) ELSE t

\* g: the replica's table now and after each command on the link; the clock
\* of the replica only matters for deadlines, and is 0 here.
Tracks(g) ==
    /\ \A i \in 0 .. Len(link) : TableOK(g[i])
    /\ \A b \in Buckets \ drift : Alike(copy[b], g[0][b], FALSE)
    /\ \A i \in 1 .. Len(link) : g[i] = Apply(g[i - 1], Reread(link[i]), 0)
    /\ \A i \in 1 .. Len(link) : Clocked(Reread(link[i])) => hash[link[i].key] \in drift
    /\ \A b \in Buckets \ drift : Alike(Due(g[Len(link)])[b], table[b], FALSE)

DriftInv ==
    /\ joined \/ cmd # NULL => Serving
    /\ cmd # NULL /\ Clocked(cmd) => hash[cmd.key] \in drift
    /\ ~joined => link = <<>> /\ copy = EmptyTable
    /\ joined => \E g : Tracks(g)

(* A command of a write table reaches the replica as it was sent.          *)
LEMMA WritesSurvive ==
    ASSUME NEW c \in Records, isWriteCmd(c.name) PROVE Sent(c) = c
<1>1. c.name \in RedisCmds
  BY DEF isWriteCmd, RedisCmds, CoreCmds, ListCmds, HashAndSetCmds, StreamCmds
<1>2. cmd_to_string(c.name) = c.name
  BY DEF isWriteCmd, cmd_to_string, SortedSetCmds
<1>3. findRedisCmd(c.name) = c.name
  BY <1>1 DEF findRedisCmd
<1> QED BY <1>2, <1>3 DEF Sent, Named, Reread, Records

(* A command that is run, and is to be passed on unless EXEC runs it.      *)
LEMMA TrackedOn ==
    ASSUME NEW t, TableOK(t), IInv, NEW c \in Cmds, Runs(c),
           \A b \in Buckets \ drift : Alike(t[b], table[b], FALSE),
           NEW b \in Buckets \ drift'
    PROVE  Alike(Due(t)'[b], table'[b], FALSE)
<1>0. /\ TableOK(table) /\ now \in Int /\ c \in Records /\ 0 \in Int
      /\ c.key \in Keys /\ cmd' = c /\ c # NULL
  <2>1. TableOK(table) /\ now \in Int
    BY DEF IInv, TablesOK, FlagsOK
  <2>2. c \in Records /\ c.key \in Keys
    BY RecordFacts
  <2> QED BY <2>1, <2>2, PersistenceAssumption DEF Runs, handle
<1>1. Due(t)' = IF ~exec' /\ isWriteCmd(c.name) THEN Apply(t, c, 0) ELSE t
  <2>1. Due(t)' = IF ~exec' /\ isWriteCmd(c.name) THEN Apply(t, Sent(c), 0) ELSE t
    BY <1>0 DEF Due
  <2> QED BY <1>0, <2>1, WritesSurvive
<1>2. b \in Buckets /\ b \notin drift /\ Alike(t[b], table[b], FALSE)
  BY DEF Runs, handle
<1>3. ASSUME b # hash[c.key] PROVE table'[b] = table[b] /\ Due(t)'[b] = t[b]
  <2>1. table' \in {table, Apply(table, c, now), LPOP(Apply(table, c, now), c)}
    BY DEF Runs, handle
  <2>2. TableOK(Apply(table, c, now))
    BY <1>0, ApplyOK
  <2>3. Apply(table, c, now)[b] = table[b] /\ Apply(t, c, 0)[b] = t[b]
    BY <1>0, <1>2, <1>3, OtherBuckets
  <2>4. LPOP(Apply(table, c, now), c)[b] = Apply(table, c, now)[b]
    BY <1>0, <1>2, <1>3, <2>2, OtherBuckets
  <2> QED BY <1>1, <2>1, <2>3, <2>4
<1>4. CASE b # hash[c.key]
  BY <1>2, <1>3, <1>4
<1>5. CASE b = hash[c.key]
  <2>1. ~Traceless(c, table') /\ ~(exec' /\ table' # table)
    BY <1>5 DEF Runs, handle
  <2>2. table' = IF Blocks(c) THEN table ELSE Apply(table, c, now)
    BY <2>1 DEF Runs, handle, Traceless
  <2>3. CASE ~exec' /\ isWriteCmd(c.name)
    <3>1. table' = Apply(table, c, now)
      BY <2>2, <2>3 DEF Blocks, isWriteCmd
    <3>2. Alike(Apply(t, c, 0)[b], Apply(table, c, now)[b], FALSE)
      BY <1>0, <1>2, <2>1, AlikeApply DEF Traceless
    <3> QED BY <1>1, <2>3, <3>1, <3>2
  <2>4. CASE ~isWriteCmd(c.name)
    <3>1. table' = table
      <4>1. CASE c.name \in {"ZADD", "GEOADD", "ZREM", "GEOSEARCH", "BLPOP"}
        BY <2>1, <4>1 DEF Traceless
      <4>2. CASE c.name \notin {"ZADD", "GEOADD", "ZREM", "GEOSEARCH", "BLPOP"}
        <5>1. c.name \notin {"SET", "INCR", "LPOP", "BLPOP", "ZREM"} \cup Makers
          BY <2>4, <4>2 DEF isWriteCmd, Makers
        <5>2. Apply(table, c, now) = table
          BY <5>1, ApplyCases
        <5> QED BY <2>2, <5>2
      <4> QED BY <4>1, <4>2
    <3> QED BY <1>1, <1>2, <2>4, <3>1
  <2>5. CASE exec'
    BY <1>1, <1>2, <2>1, <2>5
  <2> QED BY <2>3, <2>4, <2>5
<1> QED BY <1>4, <1>5

(* Steps that change neither the master's table nor what is to be passed.  *)
LEMMA TracksUnchanged ==
    ASSUME NEW g, Tracks(g), UNCHANGED <<table, copy, link, cmd, drift, exec>>
    PROVE  Tracks(g)'
  BY DEF Tracks, Due

(* A command is passed on, and the master's table has what it does, except *)
(* in buckets with a cause.                                                *)
LEMMA TracksAppend ==
    ASSUME IInv, NEW g, Tracks(g), NEW q \in Records, link' = Append(link, q),
           UNCHANGED <<table, copy>>, cmd' = NULL, drift \subseteq drift',
           Clocked(Reread(q)) => hash[q.key] \in drift',
           \A b \in Buckets \ drift' : Alike(Apply(g[Len(link)], Reread(q), 0)[b], table[b], FALSE)
    PROVE  \E h : Tracks(h)'
<1>1. link \in Seq(Records)
  BY DEF IInv, FilesOK
<1>2. PICK n \in Nat : n = Len(link)
  BY <1>1, LenProperties
<1>3. Len(link') = n + 1 /\ link'[n + 1] = q /\ \A i \in 1 .. n : link'[i] = link[i]
  BY <1>1, <1>2, AppendProperties
<1>4. PICK f : f = Apply(g[n], Reread(q), 0)
  OBVIOUS
<1> DEFINE h == [i \in 0 .. n + 1 |-> IF i = n + 1 THEN f ELSE g[i]]
<1>5. /\ h[n + 1] = f /\ \A i \in 0 .. n : h[i] = g[i]
  OBVIOUS
<1> HIDE DEF h
<1>6. /\ \A i \in 0 .. n : TableOK(g[i])
      /\ \A b \in Buckets \ drift : Alike(copy[b], g[0][b], FALSE)
      /\ \A i \in 1 .. n : g[i] = Apply(g[i - 1], Reread(link[i]), 0)
      /\ \A i \in 1 .. n : Clocked(Reread(link[i])) => hash[link[i].key] \in drift
  BY <1>2 DEF Tracks
<1>7. TableOK(f)
  <2>1. n \in 0 .. n /\ 0 \in Int
    OBVIOUS
  <2>2. TableOK(g[n])
    BY <1>6, <2>1
  <2>3. Reread(q) \in Records
    BY RecordFacts
  <2> QED BY <1>4, <2>1, <2>2, <2>3, ApplyOK
<1>8. \A i \in 0 .. n + 1 : TableOK(h[i])
  <2>1. \A i \in 0 .. n + 1 : i = n + 1 \/ i \in 0 .. n
    OBVIOUS
  <2> QED BY <1>5, <1>6, <1>7, <2>1
<1>9. ASSUME NEW i \in 1 .. n + 1
      PROVE  /\ h[i] = Apply(h[i - 1], Reread(link'[i]), 0)
             /\ Clocked(Reread(link'[i])) => hash[link'[i].key] \in drift'
  <2>1. CASE i = n + 1
    <3>1. i - 1 = n /\ n \in 0 .. n
      BY <2>1
    <3>2. h[i - 1] = g[n]
      BY <1>5, <3>1
    <3> QED BY <1>3, <1>4, <1>5, <2>1, <3>2
  <2>2. CASE i # n + 1
    <3>1. i \in 1 .. n /\ i \in 0 .. n /\ i - 1 \in 0 .. n
      BY <2>2
    <3>2. h[i] = g[i] /\ h[i - 1] = g[i - 1] /\ link'[i] = link[i]
      BY <1>3, <1>5, <3>1
    <3> QED BY <1>6, <3>1, <3>2
  <2> QED BY <2>1, <2>2
<1>10. h[0] = g[0]
  <2>1. 0 \in 0 .. n
    OBVIOUS
  <2> QED BY <1>5, <2>1
<1>11. Due(h[Len(link)])' = f
  BY <1>3, <1>5 DEF Due
<1>12. \A b \in Buckets \ drift' : Alike(copy'[b], h[0][b], FALSE) /\ Alike(f[b], table'[b], FALSE)
  BY <1>2, <1>4, <1>6, <1>10
<1>13. Tracks(h)'
  BY <1>3, <1>8, <1>9, <1>11, <1>12 DEF Tracks
<1> QED BY <1>13

LEMMA DriftJoin == ASSUME IInv, DriftInv, Join PROVE DriftInv'
<1> DEFINE g == [i \in 0 .. 0 |-> EmptyTable]
<1>1. /\ link' = <<>> /\ copy' = EmptyTable /\ cmd' = NULL /\ table' = table /\ joined'
      /\ drift' = {b \in Buckets : table[b] # <<>>} /\ Serving'
  BY DEF DriftInv, Join, Serving
<1>2. Len(<<>>) = 0 /\ g[0] = EmptyTable
  BY EmptySeq
<1> HIDE DEF g
<1>3. \A b \in Buckets : EmptyTable[b] = <<>>
  BY DEF EmptyTable
<1>4. \A t : Due(t)' = t
  BY <1>1 DEF Due
<1>5. Tracks(g)'
  <2>1. \A i \in 0 .. Len(link') : TableOK(g[i])
    BY <1>1, <1>2, EmptyTableOK
  <2>2. \A b \in Buckets \ drift' : Alike(copy'[b], g[0][b], FALSE)
    BY <1>1, <1>2, AlikeSelf
  <2>3. 1 .. Len(link') = {}
    BY <1>1, <1>2
  <2>4. \A b \in Buckets \ drift' : Alike(g[0][b], table'[b], FALSE)
    BY <1>1, <1>2, <1>3, AlikeSelf
  <2>5. Due(g[Len(link)])' = g[0]
    BY <1>1, <1>2 DEF Due
  <2> QED BY <2>1, <2>2, <2>3, <2>4, <2>5 DEF Tracks
<1> QED BY <1>1, <1>5 DEF DriftInv

LEMMA DriftRun == ASSUME IInv, DriftInv, NEW c \in Cmds, Runs(c) PROVE DriftInv'
<1>1. /\ UNCHANGED <<joined, link, copy>> /\ Serving' /\ cmd = NULL /\ cmd' = c
      /\ drift \subseteq drift' /\ (Clocked(c) => hash[c.key] \in drift')
  BY DEF Runs, handle, Serving, Traceless
<1>2. CASE ~joined
  BY <1>1, <1>2 DEF DriftInv
<1>3. CASE joined
  <2>1. PICK g : Tracks(g)
    BY <1>3 DEF DriftInv
  <2>2. PICK t : t = g[Len(link)]
    OBVIOUS
  <2>3. Len(link) \in 0 .. Len(link)
    BY LenProperties DEF IInv, FilesOK
  <2>4. TableOK(t)
    BY <2>1, <2>2, <2>3 DEF Tracks
  <2>5. \A b \in Buckets \ drift : Alike(t[b], table[b], FALSE)
    BY <1>1, <2>1, <2>2 DEF Tracks, Due
  <2>6. \A b \in Buckets \ drift' : Alike(Due(t)'[b], table'[b], FALSE)
    BY <2>4, <2>5, TrackedOn
  <2>7. t = g[Len(link')]
    BY <1>1, <2>2
  <2>8. Due(g[Len(link)])' = Due(t)'
    BY <2>7 DEF Due
  <2>9. Tracks(g)'
    BY <1>1, <2>1, <2>6, <2>8 DEF Tracks
  <2> QED BY <1>1, <1>3, <2>9 DEF DriftInv
<1> QED BY <1>2, <1>3 DEF IInv, FlagsOK

LEMMA DriftFinish == ASSUME IInv, DriftInv, NEW yes \in BOOLEAN, Finish(yes) PROVE DriftInv'
<1>1. /\ UNCHANGED <<joined, copy, table, drift, pc>> /\ Serving' = Serving /\ cmd' = NULL
      /\ link' = (IF exec THEN link ELSE Passed(cmd)) /\ cmd # NULL /\ Serving
  BY DEF DriftInv, Finish, Serving
<1>2. CASE ~joined
  BY <1>1, <1>2 DEF DriftInv, Passed
<1>3. CASE joined
  <2>1. PICK g : Tracks(g)
    BY <1>3 DEF DriftInv
  <2>2. cmd \in Records
    BY <1>1 DEF IInv, FilesOK
  <2>3. CASE exec \/ ~isWriteCmd(cmd.name)
    <3>1. link' = link
      BY <1>1, <2>3 DEF Passed
    <3>2. Due(g[Len(link)])' = g[Len(link)] /\ Due(g[Len(link)]) = g[Len(link)]
      BY <1>1, <2>3, <3>1 DEF Due
    <3>3. Tracks(g)'
      BY <1>1, <2>1, <3>1, <3>2 DEF Tracks
    <3> QED BY <1>1, <1>3, <3>3 DEF DriftInv
  <2>4. CASE ~exec /\ isWriteCmd(cmd.name)
    <3>1. PICK q : q = Named(cmd)
      OBVIOUS
    <3>2. link' = Append(link, q) /\ q \in Records
      BY <1>1, <1>3, <2>2, <2>4, <3>1, RecordFacts DEF Passed, Named
    <3>3. Reread(q) = cmd /\ Reread(q).key = q.key
      BY <2>2, <2>4, <3>1, <3>2, WritesSurvive, RecordFacts DEF Sent
    <3>4. Clocked(Reread(q)) => hash[q.key] \in drift'
      BY <1>1, <3>3 DEF DriftInv
    <3>5. Due(g[Len(link)]) = Apply(g[Len(link)], Reread(q), 0)
      BY <1>1, <2>4, <3>1 DEF Due, Sent
    <3>6. \A b \in Buckets \ drift' : Alike(Apply(g[Len(link)], Reread(q), 0)[b], table[b], FALSE)
      BY <1>1, <2>1, <3>5 DEF Tracks
    <3>7. \E h : Tracks(h)'
      BY <1>1, <2>1, <3>2, <3>4, <3>6, TracksAppend
    <3> QED BY <1>1, <1>3, <3>7 DEF DriftInv
  <2> QED BY <2>3, <2>4
<1> QED BY <1>2, <1>3 DEF IInv, FlagsOK

LEMMA DriftQueue == ASSUME IInv, DriftInv, NEW c \in Cmds, Queue(c) PROVE DriftInv'
<1>1. /\ UNCHANGED <<joined, copy, table, pc, cmd, exec>> /\ Serving' = Serving /\ Serving
      /\ cmd = NULL /\ cmd' = NULL /\ link' = Passed(c)
      /\ drift' = IF link' # link THEN drift \cup {hash[c.key]} ELSE drift
  BY DEF Queue, Serving
<1>2. CASE ~joined
  BY <1>1, <1>2 DEF DriftInv, Passed
<1>3. CASE joined
  <2>1. PICK g : Tracks(g)
    BY <1>3 DEF DriftInv
  <2>2. CASE link' = link
    <3>1. Tracks(g)'
      BY <1>1, <2>1, <2>2, TracksUnchanged
    <3> QED BY <1>1, <1>3, <3>1 DEF DriftInv
  <2>3. CASE link' # link
    <3>1. PICK q : q = Named(c)
      OBVIOUS
    <3>2. /\ q \in Records /\ q.key = c.key /\ Reread(q) \in Records /\ Reread(q).key = c.key
      BY <3>1, RecordFacts DEF Named, Records
    <3>3. link' = Append(link, q)
      BY <1>1, <2>3, <3>1 DEF Passed, Named
    <3>4. link \in Seq(Records) /\ 0 \in Int
      BY DEF IInv, FilesOK
    <3>5. TableOK(g[Len(link)])
      BY <2>1, <3>4, LenProperties DEF Tracks
    <3>6. \A b \in Buckets \ drift : Alike(g[Len(link)][b], table[b], FALSE)
      BY <1>1, <2>1 DEF Tracks, Due
    <3>7. \A b \in Buckets \ drift' : b \in Buckets \ drift /\ b # hash[c.key]
      BY <1>1, <2>3
    <3>8. \A b \in Buckets \ drift' :
             Apply(g[Len(link)], Reread(q), 0)[b] = g[Len(link)][b]
      BY <3>2, <3>4, <3>5, <3>7, OtherBuckets
    <3>9. \A b \in Buckets \ drift' : Alike(Apply(g[Len(link)], Reread(q), 0)[b], table[b], FALSE)
      BY <3>6, <3>7, <3>8
    <3>10. \E h : Tracks(h)'
      BY <1>1, <2>1, <2>3, <3>2, <3>3, <3>9, TracksAppend
    <3> QED BY <1>1, <1>3, <3>10 DEF DriftInv
  <2> QED BY <2>2, <2>3
<1> QED BY <1>2, <1>3 DEF IInv, FlagsOK

LEMMA DriftFollow == ASSUME IInv, DriftInv, Follow PROVE DriftInv'
<1>1. /\ UNCHANGED <<joined, table, drift, pc, cmd, exec>> /\ Serving' = Serving /\ link # <<>>
      /\ link' = Tail(link) /\ copy' = Apply(copy, Reread(Head(link)), now) /\ joined
  BY DEF DriftInv, Follow, Serving, multi, IInv, FlagsOK
<1>2. PICK g : Tracks(g)
  BY <1>1 DEF DriftInv
<1>3. link \in Seq(Records) /\ TableOK(copy) /\ now \in Int
  BY DEF IInv, FilesOK, TablesOK, FlagsOK
<1>4. PICK n \in Nat : n + 1 = Len(link)
  <2>1. Len(link) \in Nat /\ Len(link) # 0
    BY <1>1, <1>3, EmptySeq, LenProperties
  <2>2. Len(link) - 1 \in Nat /\ (Len(link) - 1) + 1 = Len(link)
    BY <2>1
  <2> QED BY <2>2
<1>5. /\ Len(link') = n /\ Head(link) = link[1]
      /\ \A i \in 1 .. n : link'[i] = link[i + 1]
  <2>1. /\ Len(Tail(link)) = Len(link) - 1 /\ Head(link) = link[1]
        /\ \A i \in 1 .. Len(Tail(link)) : Tail(link)[i] = link[i + 1]
    BY <1>1, <1>3, HeadTailProperties
  <2>2. Len(Tail(link)) = n
    BY <1>4, <2>1
  <2> QED BY <1>1, <2>1, <2>2
<1>6. /\ \A i \in 0 .. n + 1 : TableOK(g[i])
      /\ \A b \in Buckets \ drift : Alike(copy[b], g[0][b], FALSE)
      /\ \A i \in 1 .. n + 1 : g[i] = Apply(g[i - 1], Reread(link[i]), 0)
      /\ \A i \in 1 .. n + 1 : Clocked(Reread(link[i])) => hash[link[i].key] \in drift
      /\ \A b \in Buckets \ drift : Alike(Due(g[n + 1])[b], table[b], FALSE)
  BY <1>2, <1>4 DEF Tracks
<1> DEFINE h == [i \in 0 .. n |-> g[i + 1]]
<1>7. \A i \in 0 .. n : h[i] = g[i + 1]
  OBVIOUS
<1> HIDE DEF h
<1>8. \A i \in 0 .. n : TableOK(h[i])
  BY <1>6, <1>7
<1>9. ASSUME NEW i \in 1 .. n
      PROVE  /\ h[i] = Apply(h[i - 1], Reread(link'[i]), 0)
             /\ Clocked(Reread(link'[i])) => hash[link'[i].key] \in drift
  <2>1. i \in 0 .. n /\ i - 1 \in 0 .. n /\ i + 1 \in 1 .. n + 1 /\ (i + 1) - 1 = i /\ (i - 1) + 1 = i
    OBVIOUS
  <2>2. h[i] = g[i + 1] /\ h[i - 1] = g[i] /\ link'[i] = link[i + 1]
    BY <1>5, <1>7, <2>1
  <2>3. g[i + 1] = Apply(g[(i + 1) - 1], Reread(link[i + 1]), 0)
    BY <1>6, <2>1
  <2>4. Clocked(Reread(link[i + 1])) => hash[link[i + 1].key] \in drift
    BY <1>6, <2>1
  <2> QED BY <2>1, <2>2, <2>3, <2>4
<1>10. ASSUME NEW b \in Buckets \ drift PROVE Alike(copy'[b], h[0][b], FALSE)
  <2>1. 0 \in 0 .. n + 1 /\ 0 \in 0 .. n /\ 1 \in 1 .. n + 1 /\ 1 - 1 = 0 /\ 0 + 1 = 1 /\ 0 \in Int
    OBVIOUS
  <2>2. g[1] = Apply(g[1 - 1], Reread(link[1]), 0)
    BY <1>6, <2>1
  <2>3. Reread(link[1]) \in Records /\ Reread(link[1]).key = link[1].key
    BY <1>1, <1>3, <1>5, HeadAndTail, RecordFacts
  <2>4. TableOK(g[0]) /\ Alike(copy[b], g[0][b], FALSE)
    BY <1>6, <2>1
  <2>7. Clocked(Reread(link[1])) => b # hash[Reread(link[1]).key]
    BY <1>6, <2>1, <2>3
  <2>5. Alike(Apply(copy, Reread(link[1]), now)[b], Apply(g[0], Reread(link[1]), 0)[b], FALSE)
    BY <1>3, <2>1, <2>3, <2>4, <2>7, AlikeApply
  <2>6. h[0] = g[1]
    BY <1>7, <2>1
  <2> QED BY <1>1, <1>5, <2>1, <2>2, <2>5, <2>6
<1>11. Due(h[Len(link)])' = Due(g[n + 1])
  <2>1. h[n] = g[n + 1]
    BY <1>7
  <2> QED BY <1>1, <1>5, <2>1 DEF Due
<1>12. Tracks(h)'
  BY <1>1, <1>5, <1>6, <1>8, <1>9, <1>10, <1>11 DEF Tracks
<1> QED BY <1>1, <1>12 DEF DriftInv

LEMMA DriftStep == IInv /\ DriftInv /\ [Next]_vars => DriftInv'
<1> SUFFICES ASSUME IInv, DriftInv, [Next]_vars PROVE DriftInv'
  OBVIOUS
<1>1. ASSUME UNCHANGED <<joined, table, copy, link, cmd, drift, exec, pc>> PROVE DriftInv'
  <2>1. \A g : Tracks(g) => Tracks(g)'
    BY <1>1, TracksUnchanged
  <2> QED BY <1>1, <2>1 DEF DriftInv, Serving
<1>2. ASSUME UNCHANGED <<joined, copy, link, cmd>>, ~Serving PROVE DriftInv'
  BY <1>2 DEF DriftInv
<1>3. CASE End
  BY <1>3 DEF End, DriftInv
<1>4. CASE create_dir \/ LoadRdb
  <2>1. ~Serving /\ UNCHANGED <<joined, copy, link, cmd>>
    BY <1>4 DEF create_dir, LoadRdb, Serving, replica
  <2> QED BY <1>2, <2>1
<1>5. ASSUME NEW yes \in BOOLEAN, rdb_config_handler(yes) \/ Replay(yes) PROVE DriftInv'
  <2>1. ~Serving /\ UNCHANGED <<joined, copy, link, cmd>>
    BY <1>5 DEF rdb_config_handler, Replay, Serving, replica
  <2> QED BY <1>2, <2>1
<1>6. CASE Tick \/ UNCHANGED vars
  BY <1>1, <1>6 DEF Tick, replica, multi, vars
<1>7. CASE handle_discard
  BY <1>1, <1>7 DEF handle_discard, replica
<1> QED BY <1>3, <1>4, <1>5, <1>6, <1>7, StepCases,
           DriftJoin, DriftRun, DriftFinish, DriftFollow, DriftQueue
        DEF Receives, Crash, NoManifest

(* A replica that has handled all that it was passed has its master's      *)
(* values, except in buckets that held data when it joined, where a BLPOP  *)
(* popped, a sorted set was changed or an XADD left its ID to the clock,   *)
(* or that a MULTI queued a write for or its EXEC changed: however         *)
(* commands, passing on and the replica's own steps interleave, and for    *)
(* every hash.                                                             *)
THEOREM ReplicaDriftExplained == Spec => []ReplicaDriftHasCause
<1>1. Init => DriftInv
  BY DEF Init, DriftInv
<1>2. IInv /\ DriftInv => ReplicaDriftHasCause
  <2> SUFFICES ASSUME IInv, DriftInv, joined, link = <<>>, cmd = NULL, NEW k \in Keys, hash[k] \notin drift
               PROVE  Strip(store_getEntry(table, k)) = Strip(store_getEntry(copy, k))
    BY DEF ReplicaDriftHasCause
  <2>1. PICK g : Tracks(g)
    BY DEF DriftInv
  <2>2. Len(link) = 0 /\ hash[k] \in Buckets
    BY EmptySeq, KeyspaceAssumption
  <2>3. Alike(copy[hash[k]], g[0][hash[k]], FALSE) /\ Alike(g[0][hash[k]], table[hash[k]], FALSE)
    BY <2>1, <2>2 DEF Tracks, Due
  <2>4. Alike(copy[hash[k]], table[hash[k]], FALSE)
    BY <2>3, AlikeTrans
  <2>5. TableOK(copy) /\ TableOK(table)
    BY DEF IInv, TablesOK
  <2> QED BY <2>4, <2>5, AlikeKey
<1> QED BY <1>1, <1>2, DriftStep, Invariance, PTL DEF Spec

-----------------------------------------------------------------------------
(* What a start restores.  First the deadlines of chains that are alike.   *)

LEMMA ChainEntry ==
    ASSUME NEW p \in Chains, NEW j \in DOMAIN p
    PROVE  p[j] \in Entries /\ p[j].expires_at \in Int
<1>1. p[j] \in Entries
  BY ElementOfSeq, LenProperties DEF Chains
<1> QED BY <1>1 DEF Entries

LEMMA LaterTrans ==
    ASSUME NEW p \in Chains, NEW q \in Chains, NEW r \in Chains,
           Alike(p, q, TRUE), Alike(q, r, TRUE)
    PROVE  Alike(p, r, TRUE)
<1>1. DOMAIN p = DOMAIN q /\ DOMAIN q = DOMAIN r
  BY DEF Alike
<1>2. ASSUME NEW j \in DOMAIN p PROVE Matches(p[j], r[j], TRUE)
  <2>1. Matches(p[j], q[j], TRUE) /\ Matches(q[j], r[j], TRUE)
    BY <1>1 DEF Alike
  <2>2. p[j].expires_at \in Int /\ q[j].expires_at \in Int /\ r[j].expires_at \in Int
    BY <1>1, ChainEntry
  <2> QED BY <2>1, <2>2 DEF Matches, NoEarlier
<1> QED BY <1>1, <1>2 DEF Alike

LEMMA LaterSelf == ASSUME NEW p \in Chains PROVE Alike(p, p, TRUE)
<1>1. \A j \in DOMAIN p : p[j].expires_at \in Int
  BY ChainEntry
<1> QED BY <1>1 DEF Alike, Matches, NoEarlier

LEMMA LaterKept ==
    ASSUME NEW t, TableOK(t), NEW u, TableOK(u), NEW k \in Keys,
           Alike(t[hash[k]], u[hash[k]], TRUE)
    PROVE  Kept(t, u, k)
<1> DEFINE i == Min(Found(t, k))
           d == t[hash[k]][i]
           e == u[hash[k]][i]
<1>1. Found(t, k) = Found(u, k) /\ (Found(t, k) # {} => Matches(d, e, TRUE))
  BY AlikeFound
<1>2. store_getEntry(t, k) = {} \/ (Found(t, k) # {} /\ store_getEntry(t, k) = {d} /\ store_getEntry(u, k) = {e})
  BY <1>1 DEF store_getEntry
<1>3. Strip(store_getEntry(t, k)) = Strip(store_getEntry(u, k))
  BY AlikeKey
<1> HIDE DEF d, e
<1> QED BY <1>1, <1>2, <1>3 DEF Kept, Matches, NoEarlier

-----------------------------------------------------------------------------
(* The load of the RDB file, bucket by bucket.                             *)

(* A record changes its own bucket, and by what that bucket holds.         *)
LEMMA LoadRecordLocal ==
    ASSUME NEW t, TableOK(t), NEW u, TableOK(u), NEW j \in 1 .. Loaded(Rdb), NEW b \in Buckets
    PROVE  /\ t[b] = u[b] => LoadRecord(t, Rdb, j)[b] = LoadRecord(u, Rdb, j)[b]
           /\ b # hash[Rdb[j].key] => LoadRecord(t, Rdb, j)[b] = t[b]
<1> DEFINE k == Rdb[j].key
           e == Entry(k, Rdb[j].type, Rdb[j].value, 0)
           x == ExpiryMs(Rdb, j)
           new(p) == IF {i \in DOMAIN p : p[i].key = k} = {} THEN <<e>> \o p
                     ELSE Over(p, Min({i \in DOMAIN p : p[i].key = k}), e)
           dated(p) == Over(p, 1, [p[1] EXCEPT !.expires_at = x])
           dates == x > 0 \/ (x = 0 /\ Rdb[j].type = "string")
<1>1. k \in Keys /\ hash[k] \in Buckets
  BY LoadedRecords, KeyspaceAssumption
<1>2. ASSUME NEW v, TableOK(v)
      PROVE  LoadRecord(v, Rdb, j) =
                WithBucket(v, hash[k], IF dates THEN dated(new(v[hash[k]])) ELSE new(v[hash[k]]))
  <2> DEFINE s == store_set(v, k, Rdb[j].type, Rdb[j].value, 0)
  <2>1. s = WithBucket(v, hash[k], new(v[hash[k]]))
    BY DEF store_set, Found, WithBucket, Over
  <2>2. DOMAIN v = Buckets
    BY <1>2 DEF TableOK
  <2>3. LoadRecord(v, Rdb, j) = IF dates THEN SetHeadExpiry(s, k, x) ELSE s
    BY DEF LoadRecord
  <2> HIDE DEF s, new, x
  <2>4. s[hash[k]] = new(v[hash[k]])
    BY <1>1, <2>1, <2>2 DEF WithBucket
  <2>5. SetHeadExpiry(s, k, x) = WithBucket(s, hash[k], dated(s[hash[k]]))
    BY DEF SetHeadExpiry, WithBucket, Over
  <2> HIDE DEF dated
  <2>6. \A p, q : WithBucket(WithBucket(v, hash[k], p), hash[k], q) = WithBucket(v, hash[k], q)
    BY <1>1, <2>2 DEF WithBucket
  <2> QED BY <2>1, <2>3, <2>4, <2>5, <2>6
<1> HIDE DEF new, dated, dates
<1>3. DOMAIN t = Buckets /\ DOMAIN u = Buckets
  BY DEF TableOK
<1>4. CASE b = hash[k]
  BY <1>1, <1>2, <1>3, <1>4 DEF WithBucket
<1>5. CASE b # hash[k]
  BY <1>1, <1>2, <1>3, <1>5 DEF WithBucket
<1> QED BY <1>4, <1>5

(* The load of a bucket depends on that bucket alone, and leaves buckets   *)
(* of no record alone.                                                     *)
LEMMA LoadLocal ==
    ASSUME NEW t, TableOK(t), NEW u, TableOK(u), NEW b \in Buckets
    PROVE  /\ t[b] = u[b] => load_rdb_into_table(t, Rdb)[b] = load_rdb_into_table(u, Rdb)[b]
           /\ b \notin RdbBuckets => load_rdb_into_table(t, Rdb)[b] = t[b]
<1> DEFINE N == Loaded(Rdb)
<1>1. N \in Nat /\ \A j \in 1 .. N : j \in DOMAIN Rdb
  BY LoadedRecords
<1>2. PICK f : Loading(f, t)
  BY LoadSteps
<1>3. PICK g : Loading(g, u)
  BY LoadSteps
<1>4. /\ f[0] = t /\ g[0] = u
      /\ \A j \in 1 .. N : f[j] = LoadRecord(f[j - 1], Rdb, j) /\ g[j] = LoadRecord(g[j - 1], Rdb, j)
      /\ \A j \in 0 .. N : TableOK(f[j]) /\ TableOK(g[j])
      /\ load_rdb_into_table(t, Rdb) = f[N] /\ load_rdb_into_table(u, Rdb) = g[N]
  BY <1>2, <1>3 DEF Loading
<1> DEFINE Same(n) == /\ t[b] = u[b] => f[n][b] = g[n][b]
                      /\ b \notin RdbBuckets => f[n][b] = t[b]
           T == {n \in Nat : n <= N => Same(n)}
<1>5. 0 \in T
  BY <1>4
<1>6. ASSUME NEW n \in Nat, n \in T PROVE n + 1 \in T
  <2> SUFFICES ASSUME n + 1 <= N PROVE Same(n + 1)
    OBVIOUS
  <2>1. n + 1 \in 1 .. N /\ (n + 1) - 1 = n /\ n \in 0 .. N /\ n <= N
    BY <1>1
  <2>2. f[n + 1] = LoadRecord(f[n], Rdb, n + 1) /\ g[n + 1] = LoadRecord(g[n], Rdb, n + 1)
    BY <1>4, <2>1
  <2>3. TableOK(f[n]) /\ TableOK(g[n])
    BY <1>4, <2>1
  <2>4. Same(n)
    BY <1>6, <2>1
  <2>5. b \notin RdbBuckets => b # hash[Rdb[n + 1].key]
    BY <1>1, <2>1 DEF RdbBuckets
  <2>6. /\ f[n][b] = g[n][b] => LoadRecord(f[n], Rdb, n + 1)[b] = LoadRecord(g[n], Rdb, n + 1)[b]
        /\ b # hash[Rdb[n + 1].key] => LoadRecord(f[n], Rdb, n + 1)[b] = f[n][b]
    BY <2>1, <2>3, LoadRecordLocal
  <2> QED BY <2>2, <2>4, <2>5, <2>6
<1> HIDE DEF T
<1>7. Nat \subseteq T
  BY <1>5, <1>6, NumberInduction
<1>8. Same(N)
  BY <1>1, <1>7 DEF T
<1> QED BY <1>4, <1>8

-----------------------------------------------------------------------------
(* The append-only file as a run: the tables its commands lead through.    *)

\* A command the file may hold; its deadline is past the year 1970.
FileRecord(c) ==
    /\ c.ttl # -1 => StartTime + c.ttl > 0
    /\ c.name \notin {"BLPOP", "ZADD", "ZREM", "GEOADD", "GEOSEARCH"}

\* g: a table for each prefix of a; each command executed at some time so far.
Run(g, a, T) ==
    /\ g[0] = EmptyTable
    /\ \A i \in 0 .. Len(a) : TableOK(g[i])
    /\ \A i \in 1 .. Len(a) : \E at \in StartTime .. T : g[i] = Apply(g[i - 1], a[i], at)

LEMMA RereadSame == ASSUME NEW c \in Records PROVE Reread(c) = c
<1>1. "UNKNOWN" \notin RedisCmds => findRedisCmd(c.name) = c.name
  BY DEF findRedisCmd, Records
<1>2. findRedisCmd(c.name) = c.name
  BY <1>1 DEF findRedisCmd, Records
<1> QED BY <1>2 DEF Reread, Records

LEMMA RunLater ==
    ASSUME NEW g, NEW a, NEW T \in Nat, NEW U \in Nat, T <= U, Run(g, a, T)
    PROVE  Run(g, a, U)
<1>1. \A at \in StartTime .. T : at \in StartTime .. U
  BY PersistenceAssumption
<1> QED BY <1>1 DEF Run

LEMMA RunStart == ASSUME NEW T PROVE \E g : Run(g, <<>>, T)
<1> DEFINE g == [i \in 0 .. 0 |-> EmptyTable]
<1>1. Len(<<>>) = 0 /\ g[0] = EmptyTable
  BY EmptySeq
<1> HIDE DEF g
<1>2. Run(g, <<>>, T)
  BY <1>1, EmptyTableOK DEF Run
<1> QED BY <1>2

(* write_to_file adds a step to the run.                                   *)
LEMMA RunAppend ==
    ASSUME NEW a \in Seq(Records), NEW c \in Records, NEW T \in Nat, StartTime <= T,
           NEW g, Run(g, a, T)
    PROVE  \E h : /\ Run(h, Append(a, c), T)
                  /\ \A i \in 0 .. Len(a) : h[i] = g[i]
                  /\ h[Len(Append(a, c))] = Apply(g[Len(a)], c, T)
<1>1. PICK n \in Nat : n = Len(a)
  BY LenProperties
<1>2. PICK s : s = Append(a, c)
  OBVIOUS
<1>3. Len(s) = n + 1 /\ s[n + 1] = c /\ \A i \in 1 .. n : s[i] = a[i]
  BY <1>1, <1>2, AppendProperties
<1>4. PICK f : f = Apply(g[n], c, T)
  OBVIOUS
<1> DEFINE h == [i \in 0 .. n + 1 |-> IF i = n + 1 THEN f ELSE g[i]]
<1>5. h[n + 1] = f /\ \A i \in 0 .. n : h[i] = g[i]
  OBVIOUS
<1> HIDE DEF h
<1>6. /\ g[0] = EmptyTable /\ \A i \in 0 .. n : TableOK(g[i])
      /\ \A i \in 1 .. n : \E at \in StartTime .. T : g[i] = Apply(g[i - 1], a[i], at)
  BY <1>1 DEF Run
<1>7. T \in StartTime .. T /\ T \in Int
  BY PersistenceAssumption
<1>8. TableOK(f)
  <2>1. n \in 0 .. n
    OBVIOUS
  <2>2. TableOK(g[n])
    BY <1>6, <2>1
  <2> QED BY <1>4, <1>7, <2>2, ApplyOK
<1>9. \A i \in 0 .. n + 1 : TableOK(h[i])
  <2>1. \A i \in 0 .. n + 1 : i = n + 1 \/ i \in 0 .. n
    OBVIOUS
  <2> QED BY <1>5, <1>6, <1>8, <2>1
<1>10. ASSUME NEW i \in 1 .. n + 1
       PROVE  \E at \in StartTime .. T : h[i] = Apply(h[i - 1], s[i], at)
  <2>1. CASE i = n + 1
    <3>1. i - 1 = n /\ n \in 0 .. n
      BY <2>1
    <3>2. h[i - 1] = g[n]
      BY <1>5, <3>1
    <3>3. h[i] = Apply(h[i - 1], s[i], T)
      BY <1>3, <1>4, <1>5, <2>1, <3>2
    <3> QED BY <1>7, <3>3
  <2>2. CASE i # n + 1
    <3>1. i \in 1 .. n /\ i \in 0 .. n /\ i - 1 \in 0 .. n
      BY <2>2
    <3>2. h[i] = g[i] /\ h[i - 1] = g[i - 1] /\ s[i] = a[i]
      BY <1>3, <1>5, <3>1
    <3> QED BY <1>6, <3>1, <3>2
  <2> QED BY <2>1, <2>2
<1>11. h[0] = EmptyTable
  <2>1. 0 \in 0 .. n
    OBVIOUS
  <2> QED BY <1>5, <1>6, <2>1
<1>12. Run(h, s, T)
  BY <1>3, <1>9, <1>10, <1>11 DEF Run
<1> QED BY <1>1, <1>2, <1>3, <1>4, <1>5, <1>12

\* No command of the first L is for bucket b.
Untouched(a, L, b) == \A j \in 1 .. L : hash[a[j].key] # b

(* A bucket of no command stays empty.                                     *)
LEMMA RunEmpty ==
    ASSUME NEW a \in Seq(Records), NEW T \in Nat, NEW g, Run(g, a, T), NEW b \in Buckets,
           Untouched(a, Len(a), b)
    PROVE  \A i \in 0 .. Len(a) : g[i][b] = <<>>
<1>1. PICK N \in Nat : N = Len(a)
  BY LenProperties
<1> DEFINE S == {n \in Nat : n <= N => g[n][b] = <<>>}
<1>2. 0 \in S
  BY DEF Run, EmptyTable
<1>3. ASSUME NEW n \in Nat, n \in S PROVE n + 1 \in S
  <2> SUFFICES ASSUME n + 1 <= N PROVE g[n + 1][b] = <<>>
    OBVIOUS
  <2>1. n + 1 \in 1 .. N /\ n \in 0 .. N /\ (n + 1) - 1 = n /\ n <= N
    OBVIOUS
  <2>2. PICK at \in StartTime .. T : g[n + 1] = Apply(g[n], a[n + 1], at)
    BY <1>1, <2>1 DEF Run
  <2>3. TableOK(g[n]) /\ a[n + 1] \in Records /\ at \in Int
    BY <1>1, <2>1, ElementOfSeq, PersistenceAssumption DEF Run
  <2>4. hash[a[n + 1].key] # b
    BY <1>1, <2>1 DEF Untouched
  <2>5. Apply(g[n], a[n + 1], at)[b] = g[n][b]
    BY <2>3, <2>4, OtherBuckets
  <2> QED BY <1>3, <2>1, <2>2, <2>5
<1> HIDE DEF S
<1>4. Nat \subseteq S
  BY <1>2, <1>3, NumberInduction
<1> QED BY <1>1, <1>4 DEF S

-----------------------------------------------------------------------------
(* Files that hold only SETs for a bucket: replayed a second time they     *)
(* lead to the same chain.                                                 *)

LEMMA NoEffect ==
    ASSUME NEW t, NEW c, NEW at,
           c.name \notin {"SET", "INCR", "LPOP", "BLPOP", "ZREM"} \cup Makers
    PROVE  Apply(t, c, at) = t
  BY ApplyCases

HasKey(chain, k) == \E x \in DOMAIN chain : chain[x].key = k

\* The entry a SET makes.
Made(c, at) == Entry(c.key, "string", <<c.arg>>, Deadline(c.ttl, at))

LEMMA SetStep ==
    ASSUME NEW t, TableOK(t), NEW c \in Records, c.name = "SET", NEW at \in Int,
           NEW r, r = Apply(t, c, at)[hash[c.key]]
    PROVE  /\ HasKey(r, c.key)
           /\ \A k \in Keys : HasKey(t[hash[c.key]], k) => HasKey(r, k)
           /\ \A x \in DOMAIN r :
                 \/ r[x] = Made(c, at)
                 \/ r[x].key # c.key /\ \E y \in DOMAIN t[hash[c.key]] : t[hash[c.key]][y] = r[x]
           /\ HasKey(t[hash[c.key]], c.key) =>
                 /\ DOMAIN r = DOMAIN t[hash[c.key]]
                 /\ \A x \in DOMAIN r :
                       r[x] = IF t[hash[c.key]][x].key = c.key THEN Made(c, at) ELSE t[hash[c.key]][x]
<1> DEFINE k == c.key
           p == t[hash[k]]
           u == Apply(t, c, at)
           e == Made(c, at)
<1>1. k \in Keys /\ c.arg \in Int /\ Deadline(c.ttl, at) \in Int /\ <<c.arg>> \in Seq(Int) /\ "string" \in Types
  BY DEF Records, Deadline, Types
<1>2. u = store_set(t, k, "string", <<c.arg>>, Deadline(c.ttl, at))
  BY ApplyCases DEF SET
<1>3. e \in Entries /\ e.key = k /\ (PutFront(t, u, e) \/ PutOver(t, u, e))
  <2>1. PICK x \in Int : x = Deadline(c.ttl, at)
    BY <1>1
  <2>2. u = store_set(t, k, "string", <<c.arg>>, x) /\ e = Entry(k, "string", <<c.arg>>, x)
    BY <1>2, <2>1 DEF Made
  <2> HIDE DEF k, u, e
  <2> QED BY <1>1, <2>2, StoreSet
<1> HIDE DEF e
<1>4. ~PutHead(t, u, e)
  BY <1>3, OneWayIn
<1>5. /\ TableOK(u) /\ store_getEntry(u, k) = {e}
      /\ \A j \in Keys : j # k => store_getEntry(u, j) = store_getEntry(t, j)
  BY <1>3, <1>4, TablePut
<1>6. \A j \in Keys : hash[j] = hash[k] => store_getEntry(u, j) = In(r, j) /\ store_getEntry(t, j) = In(p, j)
  BY <1>5, EntryFound
<1>7. \A j : (HasKey(r, j) <=> In(r, j) # {}) /\ (HasKey(p, j) <=> In(p, j) # {})
  BY DEF HasKey, In
<1>8. HasKey(r, k)
  BY <1>1, <1>5, <1>6, <1>7
<1>9. r \in Chains /\ p \in Chains
  <2>1. r = u[hash[k]]
    OBVIOUS
  <2> QED BY <1>1, <1>5, <2>1, EntryFound
<1>10. CASE PutFront(t, u, e)
  <2>1. hash[k] \in Buckets /\ Found(t, k) = {}
    BY <1>1, <1>3, <1>10, EntryFound DEF PutFront
  <2>2. r = <<e>> \o p
    BY <1>3, <1>10, <2>1 DEF PutFront, WithBucket, TableOK
  <2>3. \A y \in DOMAIN p : p[y].key # k
    BY <1>1, <2>1, EntryFound
  <2>4. Len(p) \in Nat /\ DOMAIN p = 1 .. Len(p) /\ DOMAIN r = 1 .. Len(r)
    BY <1>9, LenProperties DEF Chains
  <2>5. /\ Len(r) = 1 + Len(p)
        /\ \A i \in 1 .. 1 + Len(p) : r[i] = IF i <= 1 THEN <<e>>[i] ELSE p[i - 1]
    <3>1. <<e>> \in Seq(Entries) /\ Len(<<e>>) = 1
      BY <1>3
    <3> QED BY <1>9, <2>2, <3>1, ConcatProperties DEF Chains
  <2>6. r[1] = e /\ \A y \in 1 .. Len(p) : r[y + 1] = p[y] /\ y + 1 \in DOMAIN r
    <3>1. 1 \in 1 .. 1 + Len(p) /\ <<e>>[1] = e /\ 1 <= 1
      BY <2>4
    <3>2. r[1] = e
      BY <2>5, <3>1
    <3>3. \A y \in 1 .. Len(p) : y + 1 \in 1 .. 1 + Len(p) /\ ~(y + 1 <= 1) /\ (y + 1) - 1 = y
      BY <2>4
    <3> QED BY <2>4, <2>5, <3>2, <3>3
  <2>7. ASSUME NEW x \in DOMAIN r
        PROVE  r[x] = e \/ (r[x].key # k /\ \E y \in DOMAIN p : p[y] = r[x])
    <3>1. x = 1 \/ (x - 1 \in 1 .. Len(p) /\ (x - 1) + 1 = x)
      BY <2>4, <2>5
    <3>2. CASE x # 1
      <4>1. PICK y \in 1 .. Len(p) : y + 1 = x
        BY <3>1, <3>2
      <4>2. r[x] = p[y] /\ y \in DOMAIN p
        BY <2>4, <2>6, <4>1
      <4> QED BY <2>3, <4>2
    <3> QED BY <2>6, <3>2
  <2>8. \A j : HasKey(p, j) => HasKey(r, j)
    BY <2>4, <2>6 DEF HasKey
  <2>9. ~HasKey(p, k)
    BY <2>3 DEF HasKey
  <2> QED BY <1>8, <2>7, <2>8, <2>9 DEF e
<1>11. CASE PutOver(t, u, e)
  <2> DEFINE i == Min(Found(t, k))
  <2>1. hash[k] \in Buckets /\ i \in DOMAIN p /\ p[i].key = k /\ Unique(p)
    BY <1>1, <1>3, <1>11, EntryFound DEF PutOver
  <2>2. r = Over(p, i, e)
    BY <1>3, <1>11, <2>1 DEF PutOver, WithBucket, TableOK
  <2> HIDE DEF i
  <2>3. DOMAIN r = DOMAIN p /\ \A x \in DOMAIN p : r[x] = IF x = i THEN e ELSE p[x]
    BY <2>1, <2>2 DEF Over
  <2>4. \A x \in DOMAIN p : p[x].key = k <=> x = i
    BY <2>1 DEF Unique
  <2>5. \A x \in DOMAIN r : r[x] = e \/ (r[x].key # k /\ \E y \in DOMAIN p : p[y] = r[x])
    BY <2>3, <2>4
  <2>6. \A j : HasKey(p, j) => HasKey(r, j)
    BY <1>3, <2>1, <2>3 DEF HasKey
  <2> QED BY <1>8, <2>3, <2>4, <2>5, <2>6 DEF e
<1> QED BY <1>3, <1>10, <1>11

\* Of the first L commands, those for bucket b that change anything are SETs.
SetOnly(a, L, b) ==
    \A j \in 1 .. L : hash[a[j].key] = b => a[j].name = "SET" \/ ~Logged(a[j].name)

(* A key that such a file sets has an entry from then on.                  *)
LEMMA RunKeys ==
    ASSUME NEW a \in Seq(Records), \A j \in 1 .. Len(a) : FileRecord(a[j]),
           NEW T \in Nat, NEW g, Run(g, a, T), NEW b \in Buckets,
           NEW L \in 0 .. Len(a), SetOnly(a, L, b),
           NEW m \in 1 .. L, hash[a[m].key] = b, a[m].name = "SET"
    PROVE  HasKey(g[L][b], a[m].key)
<1>1. PICK N \in Nat : N = Len(a)
  BY LenProperties
<1>2. L \in Nat /\ m \in Nat /\ m <= L /\ L <= N /\ 1 <= m
  BY <1>1
<1> DEFINE S == {n \in Nat : m <= n /\ n <= L => HasKey(g[n][b], a[m].key)}
<1>3. 0 \in S
  BY <1>2
<1>4. ASSUME NEW n \in Nat, n \in S PROVE n + 1 \in S
  <2> SUFFICES ASSUME m <= n + 1, n + 1 <= L PROVE HasKey(g[n + 1][b], a[m].key)
    OBVIOUS
  <2>1. n + 1 \in 1 .. N /\ n + 1 \in 1 .. L /\ n \in 0 .. N /\ (n + 1) - 1 = n /\ n <= L
    BY <1>2
  <2>2. PICK at \in StartTime .. T : g[n + 1] = Apply(g[n], a[n + 1], at)
    BY <1>1, <2>1 DEF Run
  <2>3. TableOK(g[n]) /\ a[n + 1] \in Records /\ at \in Int /\ FileRecord(a[n + 1])
    BY <1>1, <2>1, ElementOfSeq, PersistenceAssumption DEF Run
  <2>4. a[m] \in Records /\ a[m].key \in Keys
    <3>1. m \in 1 .. Len(a)
      BY <1>1, <1>2
    <3>2. a[m] \in Records
      BY <3>1, ElementOfSeq
    <3> QED BY <3>2, RecordFacts
  <2>5. CASE m = n + 1
    <3>1. HasKey(Apply(g[n], a[m], at)[b], a[m].key)
      BY <2>3, <2>4, <2>5, SetStep
    <3> QED BY <2>2, <2>5, <3>1
  <2>6. CASE m # n + 1
    <3>1. HasKey(g[n][b], a[m].key)
      BY <1>2, <1>4, <2>1, <2>6
    <3>2. CASE hash[a[n + 1].key] # b
      <4>1. Apply(g[n], a[n + 1], at)[b] = g[n][b]
        BY <2>3, <3>2, OtherBuckets
      <4> QED BY <2>2, <3>1, <4>1
    <3>3. CASE hash[a[n + 1].key] = b /\ a[n + 1].name = "SET"
      BY <2>2, <2>3, <2>4, <3>1, <3>3, SetStep
    <3>4. CASE hash[a[n + 1].key] = b /\ ~Logged(a[n + 1].name)
      <4>1. Apply(g[n], a[n + 1], at) = g[n]
        BY <2>3, <3>4, NoEffect DEF Logged, Makers, FileRecord
      <4> QED BY <2>2, <3>1, <4>1
    <3> QED BY <2>1, <3>2, <3>3, <3>4 DEF SetOnly
  <2> QED BY <2>5, <2>6
<1> HIDE DEF S
<1>5. Nat \subseteq S
  BY <1>3, <1>4, NumberInduction
<1>6. L \in S
  BY <1>2, <1>5
<1> QED BY <1>2, <1>6 DEF S

\* q is chain p of the whole file after part of it was set once more; r is
\* what the replay has made of that part.
Overlay(r, p, q) ==
    /\ DOMAIN q = DOMAIN p
    /\ \A j \in DOMAIN p : q[j].key = p[j].key
    /\ \A i \in DOMAIN r, j \in DOMAIN q : r[i].key = q[j].key => Matches(r[i], q[j], TRUE)

LEMMA OverlaySet ==
    ASSUME NEW t, TableOK(t), NEW u, TableOK(u), NEW c \in Records, c.name = "SET",
           NEW at \in Int, NEW p, Overlay(t[hash[c.key]], p, u[hash[c.key]]), HasKey(p, c.key)
    PROVE  Overlay(Apply(t, c, at)[hash[c.key]], p, Apply(u, c, at)[hash[c.key]])
<1>1. PICK b : b = hash[c.key]
  OBVIOUS
<1>2. PICK r, q : r = Apply(t, c, at)[b] /\ q = Apply(u, c, at)[b]
  OBVIOUS
<1>3. PICK e : e = Made(c, at)
  OBVIOUS
<1>4. e.key = c.key /\ e.expires_at \in Int
  BY <1>3 DEF Made, Entry, Deadline, Records
<1>5. HasKey(u[b], c.key)
  BY <1>1 DEF Overlay, HasKey
<1>6. DOMAIN q = DOMAIN u[b] /\ \A x \in DOMAIN q : q[x] = IF u[b][x].key = c.key THEN e ELSE u[b][x]
  <2>1. q = Apply(u, c, at)[hash[c.key]]
    BY <1>1, <1>2
  <2>2. HasKey(u[hash[c.key]], c.key) =>
           /\ DOMAIN q = DOMAIN u[hash[c.key]]
           /\ \A x \in DOMAIN q : q[x] = IF u[hash[c.key]][x].key = c.key THEN Made(c, at)
                                        ELSE u[hash[c.key]][x]
    BY ONLY <2>1, SetStep, TableOK(u), c \in Records, c.name = "SET", at \in Int, SMTT(30)
  <2> QED BY <1>1, <1>3, <1>5, <2>2
<1>7. \A x \in DOMAIN r : r[x] = e \/ (r[x].key # c.key /\ \E y \in DOMAIN t[b] : t[b][y] = r[x])
  BY <1>1, <1>2, <1>3, SetStep
<1>8. /\ DOMAIN u[b] = DOMAIN p /\ \A j \in DOMAIN p : u[b][j].key = p[j].key
      /\ \A i \in DOMAIN t[b], j \in DOMAIN u[b] : t[b][i].key = u[b][j].key => Matches(t[b][i], u[b][j], TRUE)
  BY <1>1 DEF Overlay
<1>9. \A j \in DOMAIN p : q[j].key = p[j].key
  BY <1>4, <1>6, <1>8
<1>10. Matches(e, e, TRUE)
  BY <1>4 DEF Matches, NoEarlier
<1>11. ASSUME NEW i \in DOMAIN r, NEW j \in DOMAIN q, r[i].key = q[j].key
       PROVE  Matches(r[i], q[j], TRUE)
  <2>1. CASE r[i].key = c.key
    <3>1. r[i] = e
      BY <1>7, <2>1
    <3>2. q[j] = e
      BY <1>6, <1>11, <2>1
    <3> QED BY <1>10, <3>1, <3>2
  <2>2. CASE r[i].key # c.key
    <3>1. PICK y \in DOMAIN t[b] : t[b][y] = r[i]
      BY <1>4, <1>7, <2>2
    <3>2. q[j] = u[b][j] /\ j \in DOMAIN u[b]
      BY <1>4, <1>6, <1>11, <2>2
    <3> QED BY <1>8, <1>11, <3>1, <3>2
  <2> QED BY <2>1, <2>2
<1>12. Overlay(r, p, q)
  BY <1>6, <1>8, <1>9, <1>11 DEF Overlay
<1> QED BY <1>1, <1>2, <1>12

LEMMA OverlayDone ==
    ASSUME NEW p, NEW q, NEW r, Overlay(r, p, q), Alike(p, r, TRUE)
    PROVE  Alike(r, q, TRUE)
<1>1. DOMAIN r = DOMAIN p /\ DOMAIN q = DOMAIN p
  BY DEF Overlay, Alike
<1>2. \A j \in DOMAIN p : r[j].key = q[j].key
  BY <1>1 DEF Overlay, Alike, Matches
<1> QED BY <1>1, <1>2 DEF Overlay, Alike

-----------------------------------------------------------------------------
(* The invariant.  A start that is cut short, or that does not read the    *)
(* file, must leave the file as good as it was; and the file, which the    *)
(* replay itself extends, must lead to what the server held.               *)

\* The buckets a start has no excuse for.
Rest == {b \in Buckets : b \notin RdbBuckets /\ b \notin lost /\ b \notin redone}

\* What the RDB file makes of an empty table.
Fresh == load_rdb_into_table(EmptyTable, Rdb)

\* Table t after the command that is answered and still to be appended.
Logs(t) == IF cmd # NULL /\ Logged(cmd.name) THEN Apply(t, Named(cmd), now) ELSE t

\* The start has neither replayed nor loaded.
Early == pc \in {"down", "failed", "mkdir", "open_manifest", "write_manifest"}

FileInv ==
    /\ StartTime <= now
    /\ \A j \in 1 .. Len(aof) :
          FileRecord(aof[j]) /\ (Clocked(aof[j]) => hash[aof[j].key] \in lost)
    /\ cmd # NULL => /\ Serving /\ (cmd.ttl # -1 => StartTime + cmd.ttl > 0)
                     /\ Clocked(cmd) => hash[cmd.key] \in lost

DirInv ==
    /\ Early => table = EmptyTable /\ doomed = {}
    /\ pc = "mkdir" => ~dir
    /\ pc \in {"open_manifest", "write_manifest"} => dir /\ manifest # "written"
    /\ ~dir => manifest = "none"
    /\ path => manifest = "written"
    /\ manifest # "written" => aof = <<>>

\* Buckets of the RDB file that no command has used.
RdbInv ==
    \A b \in RdbBuckets \ lost :
        /\ Untouched(aof, Len(aof), b)
        /\ cmd # NULL => hash[cmd.key] # b
        /\ before[b] = Fresh[b]
        /\ table[b] = IF Serving THEN Fresh[b] ELSE <<>>

\* The file leads to what the server held.
Stored(g) ==
    /\ Run(g, aof, now)
    /\ \A b \in Rest : Alike(before[b], g[Len(aof)][b], TRUE)

\* m of the first L commands of file a have been replayed, into table t:
\* those for bucket b are SETs, and repeat what the file said before.
Doubled(a, g, L, m, t, b) ==
    /\ SetOnly(a, m, b)
    /\ SetOnly(a, L, b) => Overlay(t[b], g[L][b], g[Len(a)][b])

\* The first L commands of the file are those the start found, and m of
\* them have been replayed.
Replaying(g, L, m) ==
    /\ L \in 0 .. Len(aof) /\ m \in 0 .. L
    /\ Len(todo) = L - m /\ \A i \in 1 .. Len(todo) : todo[i] = aof[m + i]
    /\ Run(g, aof, now)
    /\ \A b \in Rest : Alike(before[b], g[L][b], TRUE)
    /\ \A b \in Buckets \ lost : Alike(g[m][b], table[b], TRUE)
    /\ \A b \in Buckets : b \notin lost /\ b \notin doomed => Doubled(aof, g, L, m, table, b)

\* What the server holds is what the file leads to.
Holds(g) ==
    /\ Run(g, aof, now)
    /\ \A b \in Rest \ doomed : Alike(table[b], Logs(g[Len(aof)])[b], TRUE)

PhaseInv ==
    /\ Early => \E g : Stored(g)
    /\ pc = "replay" => \E g, L, m : Replaying(g, L, m)
    /\ pc \in {"rdb", "started", "up"} => \E g : Holds(g)
    /\ pc \in {"rdb", "started"} => \A b \in Rest : Alike(before[b], table[b], TRUE)

LossInv == FileInv /\ DirInv /\ RdbInv /\ PhaseInv

(* The command the replay handles next.                                    *)
LEMMA NextReplayed ==
    ASSUME IInv, NEW g, NEW L, NEW m, Replaying(g, L, m), todo # <<>>
    PROVE  /\ L \in Nat /\ m \in Nat /\ m + 1 <= L /\ m + 1 \in 1 .. Len(aof)
           /\ Head(todo) \in Records /\ Head(todo) = aof[m + 1]
           /\ Reread(Head(todo)) = Head(todo)
           /\ Len(Tail(todo)) = L - (m + 1)
           /\ \A i \in 1 .. Len(Tail(todo)) : Tail(todo)[i] = aof[(m + 1) + i]
<1>1. todo \in Seq(Records) /\ aof \in Seq(Records) /\ Len(aof) \in Nat /\ Len(todo) \in Nat
  BY LenProperties DEF IInv, FilesOK
<1>2. /\ L \in 0 .. Len(aof) /\ m \in 0 .. L
      /\ Len(todo) = L - m /\ \A i \in 1 .. Len(todo) : todo[i] = aof[m + i]
  BY DEF Replaying
<1>3. Len(todo) # 0
  BY <1>1, EmptySeq
<1>4. /\ Len(Tail(todo)) = Len(todo) - 1 /\ Head(todo) = todo[1]
      /\ \A i \in 1 .. Len(Tail(todo)) : Tail(todo)[i] = todo[i + 1]
  BY <1>1, HeadTailProperties
<1>5. L \in Nat /\ m \in Nat /\ m + 1 <= L /\ m + 1 \in 1 .. Len(aof) /\ 1 \in 1 .. Len(todo)
  BY <1>1, <1>2, <1>3
<1>6. Head(todo) \in Records
  BY <1>1, HeadAndTail
<1>7. Len(Tail(todo)) = L - (m + 1)
  BY <1>2, <1>4, <1>5
<1>8. ASSUME NEW i \in 1 .. Len(Tail(todo)) PROVE Tail(todo)[i] = aof[(m + 1) + i]
  <2>1. i + 1 \in 1 .. Len(todo) /\ m + (i + 1) = (m + 1) + i
    BY <1>1, <1>4, <1>5
  <2> QED BY <1>2, <1>4, <2>1
<1> QED BY <1>2, <1>4, <1>5, <1>6, <1>7, <1>8, RereadSame

(* The file when a command is appended.                                    *)
LEMMA LongerFile ==
    ASSUME NEW a \in Seq(Records), NEW c \in Records
    PROVE  /\ Len(Append(a, c)) = Len(a) + 1 /\ Append(a, c)[Len(a) + 1] = c
           /\ Len(a) \in Nat
           /\ \A i \in 1 .. Len(a) : Append(a, c)[i] = a[i]
           /\ \A i \in 1 .. Len(a) + 1 : i \in 1 .. Len(a) \/ i = Len(a) + 1
<1>1. Len(a) \in Nat
  BY LenProperties
<1> QED BY <1>1, AppendProperties

\* The commands with an effect that the file keeps by name.
Recorded == {"SET", "INCR", "RPUSH", "LPUSH", "LPOP", "XADD"}

(* What write_to_file appends.                                             *)
LEMMA NamedFacts ==
    ASSUME NEW c \in Records
    PROVE  /\ Named(c) \in Records /\ Named(c).key = c.key /\ Named(c).ttl = c.ttl
           /\ Logged(c.name) => Named(c).name \notin {"BLPOP", "ZADD", "ZREM", "GEOADD", "GEOSEARCH"}
           /\ c.name \in Recorded => Named(c) = c
           /\ Logged(c.name) /\ c.name \notin Recorded =>
                 Named(c).name \notin {"SET", "INCR", "LPOP", "BLPOP", "ZREM"} \cup Makers
           /\ Clocked(Named(c)) => Clocked(c)
<1>1. PICK n : n = cmd_to_string(c.name)
  OBVIOUS
<1>2. Named(c) \in Records
  BY RecordFacts DEF Named
<1>3. /\ Named(c).key = c.key /\ Named(c).ttl = c.ttl /\ Named(c).name = n
      /\ n = c.name => Named(c) = c
  BY <1>1 DEF Named, Records
<1>4. c.name \in Recorded => n = c.name
  BY <1>1 DEF cmd_to_string, SortedSetCmds, Recorded
<1>5. \/ n = c.name /\ c.name \notin {"BLPOP", "ZADD", "ZREM", "GEOADD", "GEOSEARCH"}
      \/ n = "UNKNOWN"
  BY <1>1 DEF cmd_to_string, SortedSetCmds
<1>6. Named(c).name # "UNKNOWN" => Named(c) = c
  BY <1>3, <1>5
<1>7. Logged(c.name) /\ c.name \notin Recorded =>
         Named(c).name \notin {"SET", "INCR", "LPOP", "BLPOP", "ZREM"} \cup Makers
  BY <1>3, <1>5 DEF Recorded, Makers
<1>8. Clocked(Named(c)) => Clocked(c)
  BY <1>6 DEF Clocked
<1> QED BY <1>2, <1>3, <1>4, <1>5, <1>7, <1>8

(* What no step takes back.                                                *)
LEMMA StepsOn ==
    ASSUME IInv, [Next]_vars
    PROVE  (now' = now \/ now' = now + 1) /\ lost \subseteq lost'
  BY StepCases DEF vars, Tick, create_dir, LoadRdb, Join, Follow, Crash, NoManifest, End,
     rdb_config_handler, Replay, Finish, Runs, handle, Receives, Queue, handle_discard

LEMMA LossFile == IInv /\ LossInv /\ [Next]_vars => FileInv'
<1> SUFFICES ASSUME IInv, LossInv, [Next]_vars PROVE FileInv'
  OBVIOUS
<1>0. /\ StartTime \in Nat /\ now \in Nat /\ StartTime <= now /\ FileInv
      /\ aof \in Seq(Records) /\ cmd \in Records \cup {NULL}
  BY PersistenceAssumption DEF LossInv, FileInv, IInv, FlagsOK, FilesOK
<1>1. StartTime <= now'
  <2>1. now' = now \/ now' = now + 1
    BY StepsOn
  <2> QED BY <1>0, <2>1
<1>12. lost \subseteq lost'
  BY StepsOn
<1> DEFINE InOrder ==
        \A j \in 1 .. Len(aof') :
           FileRecord(aof'[j]) /\ (Clocked(aof'[j]) => hash[aof'[j].key] \in lost')
<1>2. ASSUME NEW c \in Records, FileRecord(c), Clocked(c) => hash[c.key] \in lost', aof' = Append(aof, c)
      PROVE  InOrder
  BY <1>0, <1>12, <1>2, LongerFile DEF FileInv
<1>3. ASSUME aof' = aof PROVE InOrder
  BY <1>0, <1>12, <1>3 DEF FileInv
<1>4. CASE UNCHANGED <<aof, cmd, pc>>
  BY <1>0, <1>1, <1>3, <1>4, <1>12 DEF FileInv, Serving
<1>5. CASE create_dir \/ LoadRdb
  <2>1. aof' = aof /\ cmd' = cmd /\ ~Serving
    BY <1>5 DEF create_dir, LoadRdb, disk, Serving
  <2> QED BY <1>0, <1>1, <1>3, <2>1 DEF FileInv
<1>6. CASE End
  <2>1. aof' = aof /\ cmd' = NULL
    BY <1>6 DEF End, disk
  <2> QED BY <1>1, <1>3, <2>1 DEF FileInv
<1>7. ASSUME NEW yes \in BOOLEAN, rdb_config_handler(yes) PROVE FileInv'
  <2>1. aof' = aof /\ cmd' = cmd /\ ~Serving
    BY <1>7 DEF rdb_config_handler, disk, Serving
  <2> QED BY <1>0, <1>1, <1>3, <2>1 DEF FileInv
<1>8. ASSUME NEW yes \in BOOLEAN, Replay(yes) PROVE FileInv'
  <2>1. cmd' = cmd /\ ~Serving /\ pc = "replay"
    BY <1>8 DEF Replay, Serving
  <2>2. cmd' = NULL
    BY <1>0, <2>1 DEF FileInv
  <2>3. aof' = aof \/ (todo # <<>> /\ aof' = Append(aof, Head(todo)))
    BY <1>8 DEF Replay
  <2>4. CASE todo # <<>>
    <3>1. PICK g, L, m : Replaying(g, L, m)
      BY <2>1 DEF LossInv, PhaseInv
    <3>2. Head(todo) \in Records /\ m + 1 \in 1 .. Len(aof) /\ Head(todo) = aof[m + 1]
      BY <2>4, <3>1, NextReplayed
    <3>3. FileRecord(Head(todo)) /\ (Clocked(Head(todo)) => hash[Head(todo).key] \in lost')
      BY <1>0, <1>12, <3>2 DEF FileInv
    <3> QED BY <1>1, <1>2, <1>3, <2>2, <2>3, <3>2, <3>3 DEF FileInv
  <2> QED BY <1>1, <1>3, <2>2, <2>3, <2>4 DEF FileInv
<1>9. ASSUME NEW yes \in BOOLEAN, Finish(yes) PROVE FileInv'
  <2>1. cmd' = NULL /\ cmd \in Records
    BY <1>0, <1>9 DEF Finish
  <2>2. aof' = aof \/ (Logged(cmd.name) /\ aof' = Append(aof, Named(cmd)))
    BY <1>9 DEF Finish, Appended, Named
  <2>3. Logged(cmd.name) => FileRecord(Named(cmd)) /\ Named(cmd) \in Records
    BY <1>0, <1>9, <2>1, NamedFacts DEF FileRecord, FileInv, Finish
  <2>4. Clocked(Named(cmd)) => hash[Named(cmd).key] \in lost'
    BY <1>0, <1>9, <1>12, <2>1, NamedFacts DEF FileInv, Finish
  <2> QED BY <1>1, <1>2, <1>3, <2>1, <2>2, <2>3, <2>4 DEF FileInv
<1>10. ASSUME NEW c \in Cmds, Runs(c) PROVE FileInv'
  <2>1. aof' = aof /\ cmd' = c /\ Serving' /\ (Clocked(c) => hash[c.key] \in lost')
    BY <1>10 DEF Runs, handle, Traceless, disk, Serving
  <2> QED BY <1>1, <1>3, <2>1, PersistenceAssumption DEF FileInv
<1>11. CASE Tick \/ Join \/ Follow \/ UNCHANGED vars
  BY <1>4, <1>11 DEF Tick, Join, Follow, vars, disk
<1>13. CASE Receives
  BY <1>4, <1>13 DEF Receives, Queue, handle_discard, disk
<1> QED BY <1>5, <1>6, <1>7, <1>8, <1>9, <1>10, <1>11, <1>13, StepCases DEF Crash, NoManifest

LEMMA LossDir == IInv /\ LossInv /\ [Next]_vars => DirInv'
<1> SUFFICES ASSUME IInv, LossInv, [Next]_vars PROVE DirInv'
  OBVIOUS
<1>0. DirInv /\ dir \in BOOLEAN /\ path \in BOOLEAN /\ manifest \in {"none", "empty", "written"}
  BY DEF LossInv, IInv, FlagsOK
<1>1. ASSUME UNCHANGED <<dir, manifest, aof, pc, table, doomed, path>> PROVE DirInv'
  BY <1>0, <1>1 DEF DirInv, Early
<1>2. CASE create_dir
  BY <1>0, <1>2 DEF DirInv, Early, create_dir
<1>3. CASE LoadRdb
  BY <1>0, <1>3 DEF DirInv, Early, LoadRdb, disk
<1>4. CASE End
  BY <1>0, <1>4 DEF DirInv, Early, End, disk
<1>5. ASSUME NEW yes \in BOOLEAN, rdb_config_handler(yes) PROVE DirInv'
  BY <1>0, <1>5 DEF DirInv, Early, rdb_config_handler, disk
<1>6. ASSUME NEW yes \in BOOLEAN, Replay(yes) PROVE DirInv'
  <2>1. aof' = aof \/ todo # <<>>
    BY <1>6 DEF Replay
  <2>2. todo # <<>> => aof # <<>>
    <3> SUFFICES ASSUME todo # <<>> PROVE aof # <<>>
      OBVIOUS
    <3>1. PICK g, L, m : Replaying(g, L, m)
      BY <1>6 DEF LossInv, PhaseInv, Replay
    <3>2. m \in Nat /\ m + 1 \in 1 .. Len(aof)
      BY <3>1, NextReplayed
    <3> QED BY <3>2, EmptySeq
  <2>3. /\ UNCHANGED <<dir, manifest, path>> /\ pc = "replay"
        /\ pc' \in {"replay", "rdb"}
    BY <1>6 DEF Replay
  <2> QED BY <1>0, <2>1, <2>2, <2>3 DEF DirInv, Early
<1>7. ASSUME NEW yes \in BOOLEAN, Finish(yes) PROVE DirInv'
  <2>1. /\ UNCHANGED <<dir, manifest, path, pc, table, doomed>>
        /\ aof' = aof \/ path
    BY <1>7 DEF Finish
  <2> QED BY <1>0, <2>1 DEF DirInv, Early
<1>8. ASSUME NEW c \in Cmds, Runs(c) PROVE DirInv'
  <2>1. UNCHANGED <<dir, manifest, path, aof, doomed>> /\ pc' = "up"
    BY <1>8 DEF Runs, handle, disk
  <2> QED BY <1>0, <2>1 DEF DirInv, Early
<1>9. CASE Tick \/ Join \/ Follow \/ UNCHANGED vars
  BY <1>1, <1>9 DEF Tick, Join, Follow, vars, disk
<1>10. CASE Receives
  BY <1>1, <1>10 DEF Receives, Queue, handle_discard, disk
<1> QED BY <1>2, <1>3, <1>4, <1>5, <1>6, <1>7, <1>8, <1>9, <1>10, StepCases DEF Crash, NoManifest

(* A command leaves the buckets of other keys as they were.                *)
LEMMA RunElsewhere ==
    ASSUME IInv, NEW c \in Cmds, Runs(c), NEW b \in Buckets, b # hash[c.key]
    PROVE  table'[b] = table[b]
<1>1. TableOK(table) /\ now \in Int /\ c \in Records
  BY RecordFacts DEF IInv, TablesOK, FlagsOK
<1>2. table' \in {table, Apply(table, c, now), LPOP(Apply(table, c, now), c)}
  BY DEF Runs, handle
<1>3. TableOK(Apply(table, c, now))
  BY <1>1, ApplyOK
<1>4. Apply(table, c, now)[b] = table[b] /\ LPOP(Apply(table, c, now), c)[b] = Apply(table, c, now)[b]
  BY <1>1, <1>3, OtherBuckets
<1> QED BY <1>2, <1>4

LEMMA LossRdb == IInv /\ LossInv /\ [Next]_vars => RdbInv'
<1> SUFFICES ASSUME IInv, LossInv, [Next]_vars, NEW b \in RdbBuckets, b \notin lost'
             PROVE  /\ Untouched(aof', Len(aof'), b)
                    /\ cmd' # NULL => hash[cmd'.key] # b
                    /\ before'[b] = Fresh[b]
                    /\ table'[b] = IF Serving' THEN Fresh[b] ELSE <<>>
  BY DEF RdbInv, Untouched, RdbBuckets, Fresh
<1> DEFINE Goal == /\ Untouched(aof', Len(aof'), b)
                   /\ cmd' # NULL => hash[cmd'.key] # b
                   /\ before'[b] = Fresh[b]
                   /\ table'[b] = IF Serving' THEN Fresh[b] ELSE <<>>
<1>0. /\ TableOK(table) /\ aof \in Seq(Records) /\ todo \in Seq(Records)
      /\ cmd \in Records \cup {NULL} /\ now \in Int
  BY DEF IInv, TablesOK, FilesOK, FlagsOK
<1>1. lost \subseteq lost'
  BY StepsOn
<1>2. /\ Untouched(aof, Len(aof), b)
      /\ cmd # NULL => hash[cmd.key] # b
      /\ before[b] = Fresh[b]
      /\ table[b] = IF Serving THEN Fresh[b] ELSE <<>>
  BY <1>1 DEF LossInv, RdbInv
<1>3. b \in Buckets
  <2>1. PICK j \in DOMAIN Rdb : b = hash[Rdb[j].key]
    BY DEF RdbBuckets
  <2> QED BY <2>1, PersistenceAssumption, KeyspaceAssumption
<1>4. EmptyTable[b] = <<>>
  BY <1>3 DEF EmptyTable
<1>5. ASSUME NEW c \in Records, hash[c.key] # b, aof' = Append(aof, c)
      PROVE  Untouched(aof', Len(aof'), b)
  BY <1>0, <1>2, <1>5, LongerFile DEF Untouched
<1>6. CASE UNCHANGED <<aof, cmd, before, table>> /\ Serving' = Serving
  BY <1>2, <1>6
<1>7. CASE LoadRdb
  <2>1. /\ UNCHANGED <<aof, cmd, before>> /\ ~Serving /\ Serving'
        /\ table' = load_rdb_into_table(table, Rdb)
    BY <1>7 DEF LoadRdb, disk, Serving
  <2>2. table[b] = EmptyTable[b]
    BY <1>2, <1>4, <2>1
  <2>3. load_rdb_into_table(table, Rdb)[b] = load_rdb_into_table(EmptyTable, Rdb)[b]
    BY <1>0, <1>3, <2>2, LoadLocal, EmptyTableOK
  <2> QED BY <1>2, <2>1, <2>3 DEF Fresh
<1>8. CASE End
  <2>1. /\ aof' = aof /\ cmd' = NULL /\ before' = (IF Serving THEN table ELSE before)
        /\ ~Serving' /\ table' = EmptyTable
    BY <1>8 DEF End, disk, Serving
  <2> QED BY <1>2, <1>4, <2>1
<1>9. ASSUME NEW yes \in BOOLEAN, Replay(yes) PROVE Goal
  <2>1. pc = "replay" /\ ~Serving /\ ~Serving' /\ UNCHANGED <<cmd, before>>
    BY <1>9 DEF Replay, Serving
  <2>2. CASE todo # <<>>
    <3>1. PICK g, L, m : Replaying(g, L, m)
      BY <2>1 DEF LossInv, PhaseInv
    <3>2. PICK c : c = Head(todo)
      OBVIOUS
    <3>3. c \in Records /\ m + 1 \in 1 .. Len(aof) /\ c = aof[m + 1] /\ Reread(Head(todo)) = c
      BY <2>2, <3>1, <3>2, NextReplayed
    <3>4. hash[c.key] # b
      BY <1>2, <3>3 DEF Untouched
    <3>5. Apply(table, c, now)[b] = table[b]
      BY <1>0, <1>3, <3>3, <3>4, OtherBuckets
    <3>6. table' = Apply(table, c, now) /\ (aof' = aof \/ aof' = Append(aof, c))
      BY <1>9, <2>2, <3>2, <3>3 DEF Replay
    <3> QED BY <1>2, <1>5, <2>1, <3>3, <3>4, <3>5, <3>6
  <2>3. CASE todo = <<>>
    BY <1>2, <1>9, <2>1, <2>3 DEF Replay
  <2> QED BY <2>2, <2>3
<1>10. ASSUME NEW yes \in BOOLEAN, Finish(yes) PROVE Goal
  <2>1. /\ UNCHANGED <<pc, before, table>> /\ Serving' = Serving /\ cmd' = NULL
        /\ cmd \in Records /\ cmd # NULL
        /\ aof' = aof \/ aof' = Append(aof, Named(cmd))
    BY <1>0, <1>10 DEF Finish, Appended, Named, Serving
  <2>2. Named(cmd) \in Records /\ Named(cmd).key = cmd.key
    BY <2>1, NamedFacts
  <2> QED BY <1>2, <1>5, <2>1, <2>2
<1>11. ASSUME NEW c \in Cmds, Runs(c) PROVE Goal
  <2>1. UNCHANGED <<aof, before>> /\ Serving /\ Serving' /\ cmd' = c
    BY <1>11 DEF Runs, handle, disk, Serving
  <2>2. b # hash[c.key]
    BY <1>11 DEF Runs, handle
  <2>3. table'[b] = table[b]
    BY <1>3, <1>11, <2>2, RunElsewhere
  <2> QED BY <1>2, <2>1, <2>2, <2>3
<1>12. ASSUME NEW yes \in BOOLEAN, rdb_config_handler(yes) PROVE Goal
  <2>1. UNCHANGED <<aof, cmd, before, table>> /\ ~Serving /\ ~Serving'
    BY <1>12 DEF rdb_config_handler, disk, Serving
  <2> QED BY <1>2, <2>1
<1>13. CASE Tick \/ Join \/ Follow \/ create_dir \/ UNCHANGED vars
  BY <1>6, <1>13 DEF Tick, Join, Follow, create_dir, vars, disk, Serving
<1>14. CASE Receives
  BY <1>6, <1>14 DEF Receives, Queue, handle_discard, disk, Serving
<1> QED BY <1>7, <1>8, <1>9, <1>10, <1>11, <1>12, <1>13, <1>14, StepCases DEF Crash, NoManifest

-----------------------------------------------------------------------------
(* The file and the table from step to step.                               *)

(* A run's tables, and the chains in them.                                 *)
LEMMA RunTables ==
    ASSUME NEW a \in Seq(Records), NEW T, NEW g, Run(g, a, T), NEW i \in 0 .. Len(a)
    PROVE  TableOK(g[i]) /\ \A b \in Buckets : g[i][b] \in Chains
<1>1. TableOK(g[i])
  BY DEF Run
<1> QED BY <1>1 DEF TableOK

LEMMA TableChains == ASSUME NEW t, TableOK(t), NEW b \in Buckets PROVE t[b] \in Chains
  BY DEF TableOK

LEMMA RestShrinks ==
    ASSUME lost \subseteq lost', redone \subseteq redone'
    PROVE  Rest' \subseteq Rest
  BY DEF Rest, RdbBuckets

LEMMA PhaseSame ==
    ASSUME PhaseInv, UNCHANGED <<now, pc, table, todo, cmd, aof, before, lost, doomed, redone>>
    PROVE  PhaseInv'
<1>1. Rest' = Rest /\ Early' = Early
  BY DEF Rest, RdbBuckets, Early
<1>2. \A g : Stored(g) => Stored(g)'
  BY <1>1 DEF Stored
<1>3. \A g : Holds(g) => Holds(g)'
  BY <1>1 DEF Holds, Logs
<1>4. ASSUME NEW g, NEW L, NEW m, Replaying(g, L, m) PROVE Replaying(g, L, m)'
  BY <1>1, <1>4 DEF Replaying
<1> QED BY <1>1, <1>2, <1>3, <1>4 DEF PhaseInv

(* Time passes: a command still to be appended gets a later deadline.      *)
LEMMA PhaseTick == ASSUME IInv, LossInv, Tick PROVE PhaseInv'
<1>1. /\ UNCHANGED <<pc, table, todo, cmd, aof, before, lost, doomed, redone>>
      /\ now' = now + 1 /\ now \in Nat /\ now' \in Nat /\ now <= now' /\ aof \in Seq(Records)
      /\ StartTime \in Nat /\ StartTime <= now /\ TableOK(table)
  BY PersistenceAssumption
     DEF Tick, IInv, FlagsOK, FilesOK, TablesOK, disk, LossInv, FileInv
<1>2. Rest' = Rest /\ Early' = Early
  BY <1>1 DEF Rest, RdbBuckets, Early
<1>3. \A g : Run(g, aof, now) => Run(g, aof', now')
  <2> SUFFICES ASSUME NEW g, Run(g, aof, now) PROVE Run(g, aof', now')
    OBVIOUS
  <2>1. Run(g, aof, now')
    BY <1>1, RunLater
  <2> QED BY <1>1, <2>1
<1>4. ASSUME NEW g, Holds(g) PROVE Holds(g)'
  <2>1. Run(g, aof, now) /\ \A b \in Rest \ doomed : Alike(table[b], Logs(g[Len(aof)])[b], TRUE)
    BY <1>4 DEF Holds
  <2>2. PICK t : t = g[Len(aof)]
    OBVIOUS
  <2>3. Len(aof) \in 0 .. Len(aof)
    BY <1>1, LenProperties
  <2>4. TableOK(t)
    BY <1>1, <2>1, <2>2, <2>3, RunTables
  <2>5. ASSUME NEW b \in Rest \ doomed PROVE Alike(table[b], Logs(t)'[b], TRUE)
    <3>1. Alike(table[b], Logs(t)[b], TRUE) /\ b \in Buckets /\ b \notin lost
      BY <2>1, <2>2 DEF Rest
    <3>2. CASE cmd # NULL /\ Logged(cmd.name)
      <4>1. /\ Logs(t) = Apply(t, Named(cmd), now) /\ Logs(t)' = Apply(t, Named(cmd), now')
            /\ cmd \in Records
        BY <1>1, <3>2 DEF Logs, IInv, FilesOK
      <4>2. Named(cmd) \in Records /\ Named(cmd).ttl = cmd.ttl
        BY <4>1, NamedFacts
      <4>3. Named(cmd).ttl # -1 => now + Named(cmd).ttl > 0
        <5>1. cmd.ttl # -1 => StartTime + cmd.ttl > 0
          BY <3>2 DEF LossInv, FileInv
        <5>2. cmd.ttl \in Int
          BY <4>1 DEF Records
        <5> QED BY <1>1, <4>2, <5>1, <5>2
      <4>4. t[b] \in Chains
        BY <2>4, <3>1, TableChains
      <4>5. Alike(t[b], t[b], TRUE)
        BY <4>4, LaterSelf
      <4>6. Alike(Apply(t, Named(cmd), now)[b], Apply(t, Named(cmd), now')[b], TRUE)
        <5>1. now \in Int /\ now' \in Int /\ TRUE \in BOOLEAN
          BY <1>1
        <5>2. Clocked(Named(cmd)) => b # hash[Named(cmd).key]
          BY <3>1, <3>2, <4>1, NamedFacts DEF LossInv, FileInv
        <5> QED BY <1>1, <2>4, <3>1, <4>2, <4>3, <4>5, <5>1, <5>2, AlikeApply
      <4>7. TableOK(Apply(t, Named(cmd), now)) /\ TableOK(Apply(t, Named(cmd), now'))
        BY <1>1, <2>4, <4>2, ApplyOK
      <4>8. /\ table[b] \in Chains /\ Apply(t, Named(cmd), now)[b] \in Chains
            /\ Apply(t, Named(cmd), now')[b] \in Chains
        BY <1>1, <3>1, <4>7, TableChains
      <4> QED BY <3>1, <4>1, <4>6, <4>8, LaterTrans
    <3>3. CASE ~(cmd # NULL /\ Logged(cmd.name))
      BY <1>1, <3>1, <3>3 DEF Logs
    <3> QED BY <3>2, <3>3
  <2>6. Logs(g[Len(aof)])' = Logs(t)'
    BY <1>1, <2>2 DEF Logs
  <2> QED BY <1>1, <1>2, <1>3, <2>1, <2>5, <2>6 DEF Holds
<1>5. \A g : Stored(g) => Stored(g)'
  BY <1>1, <1>2, <1>3 DEF Stored
<1>6. ASSUME NEW g, NEW L, NEW m, Replaying(g, L, m) PROVE Replaying(g, L, m)'
  BY <1>1, <1>2, <1>3, <1>6 DEF Replaying
<1> QED BY <1>1, <1>2, <1>4, <1>5, <1>6 DEF PhaseInv, LossInv

LEMMA PhaseCreate == ASSUME IInv, LossInv, create_dir PROVE PhaseInv'
<1>1. /\ UNCHANGED <<now, table, todo, cmd, aof, before, lost, doomed, redone>> /\ Early
      /\ pc' \in {"open_manifest", "write_manifest", "rdb"}
      /\ pc' = "rdb" => pc = "write_manifest"
  BY DEF create_dir, Early
<1>2. PICK g : Stored(g)
  BY <1>1 DEF LossInv, PhaseInv
<1>3. Rest' = Rest
  BY <1>1 DEF Rest, RdbBuckets
<1>4. Stored(g)'
  BY <1>1, <1>2, <1>3 DEF Stored
<1>5. CASE pc' # "rdb"
  BY <1>1, <1>4, <1>5 DEF PhaseInv
<1>6. CASE pc' = "rdb"
  <2>1. aof = <<>> /\ table = EmptyTable /\ cmd = NULL
    BY <1>1, <1>6 DEF LossInv, DirInv, FileInv, Serving
  <2>2. Len(aof) = 0 /\ g[0] = EmptyTable
    BY <1>2, <2>1, EmptySeq DEF Stored, Run
  <2>3. \A b \in Rest : Alike(before[b], table[b], TRUE)
    BY <1>2, <2>1, <2>2 DEF Stored
  <2>4. ASSUME NEW b \in Rest PROVE Alike(table[b], Logs(g[Len(aof)])'[b], TRUE)
    <3>1. b \in Buckets /\ TableOK(table)
      BY DEF Rest, IInv, TablesOK
    <3>2. Logs(g[Len(aof)])' = table
      BY <1>1, <2>1, <2>2 DEF Logs
    <3> QED BY <3>1, <3>2, LaterSelf, TableChains
  <2>5. Holds(g)'
    BY <1>1, <1>2, <1>3, <2>4 DEF Holds, Stored
  <2> QED BY <1>1, <1>3, <1>6, <2>3, <2>5 DEF PhaseInv, Early
<1> QED BY <1>5, <1>6

LEMMA NotInFile ==
    ASSUME aof \in Seq(Records), NEW b, b \notin InFile
    PROVE  Untouched(aof, Len(aof), b)
<1>1. \A j \in 1 .. Len(aof) : aof[j] \in Range(aof)
  BY LenProperties DEF Range
<1> QED BY <1>1 DEF InFile, Untouched

(* The start reads the file, or goes on without it.                        *)
LEMMA PhaseConfig ==
    ASSUME IInv, LossInv, NEW yes \in BOOLEAN, rdb_config_handler(yes) PROVE PhaseInv'
<1>1. /\ UNCHANGED <<now, table, cmd, aof, before, doomed, redone>> /\ Early
      /\ now \in Nat /\ aof \in Seq(Records) /\ Len(aof) \in Nat /\ table = EmptyTable /\ cmd = NULL
      /\ doomed = {} /\ TableOK(table)
  BY LenProperties
     DEF rdb_config_handler, Early, disk, IInv, FlagsOK, FilesOK, TablesOK, LossInv, DirInv, FileInv, Serving
<1>2. PICK g : Stored(g)
  BY <1>1 DEF LossInv, PhaseInv
<1>3. Run(g, aof, now) /\ \A b \in Rest : Alike(before[b], g[Len(aof)][b], TRUE)
  BY <1>2 DEF Stored
<1>4. CASE pc' \in {"mkdir", "failed"} /\ lost' = lost
  <2>1. Rest' = Rest
    BY <1>1, <1>4 DEF Rest, RdbBuckets
  <2>2. Stored(g)'
    BY <1>1, <1>3, <2>1 DEF Stored
  <2> QED BY <1>4, <2>2 DEF PhaseInv
<1>5. CASE pc' = "replay" /\ todo' = aof /\ lost' = lost
  <2>1. Rest' = Rest
    BY <1>1, <1>5 DEF Rest, RdbBuckets
  <2>2. PICK N \in Nat : N = Len(aof)
    BY <1>1
  <2>3. /\ N \in 0 .. Len(aof') /\ 0 \in 0 .. N
        /\ Len(todo') = N - 0 /\ \A i \in 1 .. Len(todo') : todo'[i] = aof'[0 + i]
    BY <1>1, <1>5, <2>2
  <2>4. ASSUME NEW b \in Buckets PROVE Alike(g[0][b], table[b], TRUE)
    <3>1. g[0] = table
      BY <1>1, <1>3 DEF Run
    <3> QED BY <1>1, <3>1, LaterSelf, TableChains
  <2>5. ASSUME NEW b \in Buckets PROVE Doubled(aof, g, N, 0, table, b)
    <3>1. table[b] = <<>> /\ DOMAIN table[b] = {}
      BY <1>1 DEF EmptyTable
    <3>2. Overlay(table[b], g[N][b], g[Len(aof)][b])
      BY <2>2, <3>1 DEF Overlay
    <3>3. SetOnly(aof, 0, b)
      BY DEF SetOnly
    <3> QED BY <3>2, <3>3 DEF Doubled
  <2>6. Replaying(g, N, 0)'
    BY <1>1, <1>3, <2>1, <2>2, <2>3, <2>4, <2>5 DEF Replaying
  <2> QED BY <1>5, <2>6 DEF PhaseInv, Early
<1>6. CASE pc' = "rdb" /\ lost' = lost \cup InFile
  <2>1. Rest' \subseteq Rest /\ \A b \in Rest' : b \notin InFile /\ b \in Buckets
    BY <1>1, <1>6 DEF Rest, RdbBuckets
  <2>2. ASSUME NEW b \in Rest' PROVE g[Len(aof)][b] = table[b]
    <3>1. b \in Buckets /\ Untouched(aof, Len(aof), b)
      BY <1>1, <2>1, NotInFile
    <3>2. Len(aof) \in 0 .. Len(aof)
      BY <1>1
    <3>3. g[Len(aof)][b] = <<>>
      BY <1>1, <1>3, <3>1, <3>2, RunEmpty
    <3> QED BY <1>1, <3>1, <3>3 DEF EmptyTable
  <2>3. \A b \in Rest' : Alike(before[b], table[b], TRUE)
    BY <1>3, <2>1, <2>2
  <2>4. \A b \in Rest' : Alike(table[b], g[Len(aof)][b], TRUE)
    BY <1>1, <2>1, <2>2, LaterSelf, TableChains
  <2>5. Logs(g[Len(aof)])' = g[Len(aof)]
    BY <1>1 DEF Logs
  <2>6. Holds(g)'
    BY <1>1, <1>3, <2>4, <2>5 DEF Holds
  <2> QED BY <1>1, <1>6, <2>3, <2>6 DEF PhaseInv, Early
<1>7. \/ pc' \in {"mkdir", "failed"} /\ lost' = lost
      \/ pc' = "replay" /\ todo' = aof /\ lost' = lost
      \/ pc' = "rdb" /\ lost' = lost \cup InFile
  BY DEF rdb_config_handler
<1> QED BY <1>4, <1>5, <1>6, <1>7

(* The RDB file is loaded: into other buckets.                             *)
LEMMA PhaseLoad == ASSUME IInv, LossInv, LoadRdb PROVE PhaseInv'
<1>1. /\ UNCHANGED <<now, cmd, aof, before, lost, doomed, redone>>
      /\ pc = "rdb" /\ pc' = "started" /\ table' = load_rdb_into_table(table, Rdb) /\ TableOK(table)
  BY DEF LoadRdb, disk, IInv, TablesOK
<1>2. Rest' = Rest
  BY <1>1 DEF Rest, RdbBuckets
<1>3. ASSUME NEW b \in Rest PROVE table'[b] = table[b]
  <2>1. b \in Buckets /\ b \notin RdbBuckets
    BY DEF Rest
  <2> QED BY <1>1, <2>1, LoadLocal
<1>4. PICK g : Holds(g)
  BY <1>1 DEF LossInv, PhaseInv
<1>5. Logs(g[Len(aof)])' = Logs(g[Len(aof)])
  BY <1>1 DEF Logs
<1>6. Holds(g)'
  BY <1>1, <1>2, <1>3, <1>4, <1>5 DEF Holds
<1>7. \A b \in Rest' : Alike(before'[b], table'[b], TRUE)
  BY <1>1, <1>2, <1>3 DEF LossInv, PhaseInv
<1> QED BY <1>1, <1>6, <1>7 DEF PhaseInv, Early

(* The process ends: the file is what the next start will find.            *)
LEMMA PhaseEnd == ASSUME IInv, LossInv, End PROVE PhaseInv'
<1>1. /\ UNCHANGED <<now, aof>> /\ pc' = "down"
      /\ before' = (IF Serving THEN table ELSE before)
      /\ lost' = (IF cmd = NULL THEN lost ELSE lost \cup {hash[cmd.key]})
      /\ redone' = redone \cup doomed \cup (IF pc = "replay" THEN InFile ELSE {})
      /\ now \in Nat /\ aof \in Seq(Records) /\ Len(aof) \in Nat
      /\ TableOK(table) /\ TableOK(before)
  BY LenProperties DEF End, disk, IInv, FlagsOK, FilesOK, TablesOK
<1>2. Rest' \subseteq Rest /\ \A b \in Rest' : b \notin doomed /\ b \in Buckets
  BY <1>1, RestShrinks DEF Rest
<1>3. Len(aof) \in 0 .. Len(aof)
  BY <1>1
<1>4. SUFFICES \E g : Run(g, aof, now) /\ \A b \in Rest' : Alike(before'[b], g[Len(aof)][b], TRUE)
  BY <1>1 DEF PhaseInv, Stored
<1>5. CASE Early
  <2>1. PICK g : Stored(g)
    BY <1>5 DEF LossInv, PhaseInv
  <2>2. before' = before
    BY <1>1, <1>5 DEF Early, Serving
  <2> QED BY <1>2, <2>1, <2>2 DEF Stored
<1>6. CASE pc = "replay"
  <2>1. PICK g, L, m : Replaying(g, L, m)
    BY <1>6 DEF LossInv, PhaseInv
  <2>2. /\ Run(g, aof, now) /\ L \in 0 .. Len(aof) /\ \A b \in Rest : Alike(before[b], g[L][b], TRUE)
        /\ before' = before
    BY <1>1, <1>6, <2>1 DEF Replaying, Serving
  <2>3. ASSUME NEW b \in Rest' PROVE g[Len(aof)][b] = g[L][b]
    <3>1. b \notin InFile /\ b \in Buckets
      BY <1>1, <1>6 DEF Rest
    <3>2. Untouched(aof, Len(aof), b)
      BY <1>1, <3>1, NotInFile
    <3> QED BY <1>1, <1>3, <2>2, <3>1, <3>2, RunEmpty
  <2> QED BY <1>2, <2>2, <2>3
<1>7. CASE pc = "rdb"
  <2>1. PICK g : Holds(g)
    BY <1>7 DEF LossInv, PhaseInv
  <2>2. cmd = NULL /\ before' = before
    BY <1>1, <1>7 DEF LossInv, FileInv, Serving
  <2>3. Logs(g[Len(aof)]) = g[Len(aof)]
    BY <2>2 DEF Logs
  <2>4. Run(g, aof, now) /\ \A b \in Rest \ doomed : Alike(table[b], g[Len(aof)][b], TRUE)
    BY <2>1, <2>3 DEF Holds
  <2>5. ASSUME NEW b \in Rest' PROVE Alike(before[b], g[Len(aof)][b], TRUE)
    <3>1. Alike(before[b], table[b], TRUE) /\ Alike(table[b], g[Len(aof)][b], TRUE)
      BY <1>2, <1>7, <2>4 DEF LossInv, PhaseInv
    <3>2. before[b] \in Chains /\ table[b] \in Chains /\ g[Len(aof)][b] \in Chains
      BY <1>1, <1>2, <1>3, <2>4, RunTables, TableChains
    <3> QED BY <3>1, <3>2, LaterTrans
  <2> QED BY <2>2, <2>4, <2>5
<1>8. CASE Serving
  <2>1. PICK g : Holds(g)
    BY <1>8 DEF LossInv, PhaseInv, Serving
  <2>2. Run(g, aof, now)
    BY <2>1 DEF Holds
  <2>3. ASSUME NEW b \in Rest' PROVE Logs(g[Len(aof)])[b] = g[Len(aof)][b]
    <3>1. CASE cmd # NULL
      <4>1. cmd \in Records /\ b # hash[cmd.key] /\ b \in Buckets
        BY <1>1, <3>1 DEF IInv, FilesOK, Rest
      <4>2. Named(cmd) \in Records /\ Named(cmd).key = cmd.key
        BY <4>1, NamedFacts
      <4>3. TableOK(g[Len(aof)])
        BY <1>1, <1>3, <2>2, RunTables
      <4>4. Apply(g[Len(aof)], Named(cmd), now)[b] = g[Len(aof)][b]
        BY <1>1, <4>1, <4>2, <4>3, OtherBuckets
      <4> QED BY <4>4 DEF Logs
    <3>2. CASE cmd = NULL
      BY <3>2 DEF Logs
    <3> QED BY <3>1, <3>2
  <2>4. \A b \in Rest' : Alike(table[b], g[Len(aof)][b], TRUE)
    BY <1>2, <2>1, <2>3 DEF Holds
  <2> QED BY <1>1, <1>8, <2>2, <2>4
<1> QED BY <1>5, <1>6, <1>7, <1>8 DEF IInv, FlagsOK, Early, Serving

(* A command: without a trace, or done again by what will be appended.     *)
LEMMA PhaseRun == ASSUME IInv, LossInv, NEW c \in Cmds, Runs(c) PROVE PhaseInv'
<1>1. /\ UNCHANGED <<now, aof, before, doomed, redone>> /\ pc' = "up" /\ cmd = NULL /\ cmd' = c
      /\ Serving /\ lost \subseteq lost' /\ c \in Records /\ c # NULL
      /\ now \in Nat /\ now \in Int /\ aof \in Seq(Records) /\ Len(aof) \in 0 .. Len(aof)
      /\ TableOK(table) /\ hash[c.key] \in Buckets
  <2>1. /\ UNCHANGED <<now, aof, before, doomed, redone>> /\ pc' = "up" /\ cmd = NULL /\ cmd' = c
        /\ Serving /\ lost \subseteq lost'
    BY DEF Runs, handle, disk
  <2>2. c \in Records /\ hash[c.key] \in Buckets /\ c # NULL
    BY RecordFacts, PersistenceAssumption
  <2>3. now \in Nat /\ now \in Int /\ aof \in Seq(Records) /\ TableOK(table)
    BY DEF IInv, FlagsOK, FilesOK, TablesOK
  <2> QED BY <2>1, <2>2, <2>3, LenProperties
<1>2. Rest' \subseteq Rest /\ \A b \in Rest : b \in Buckets
  BY <1>1, RestShrinks DEF Rest
<1>3. PICK g : Holds(g)
  BY <1>1 DEF LossInv, PhaseInv, Serving
<1>4. PICK t : t = g[Len(aof)]
  OBVIOUS
<1>5. Run(g, aof, now) /\ TableOK(t) /\ \A b \in Rest \ doomed : Alike(table[b], t[b], TRUE)
  <2>1. Logs(t) = t
    BY <1>1 DEF Logs
  <2> QED BY <1>1, <1>3, <1>4, <2>1, RunTables DEF Holds
<1>6. PICK d : d = Named(c)
  OBVIOUS
<1>7. /\ d \in Records /\ d.key = c.key
      /\ c.name \in Recorded => d = c
      /\ Logged(c.name) /\ c.name \notin Recorded =>
            d.name \notin {"SET", "INCR", "LPOP", "BLPOP", "ZREM"} \cup Makers
  BY <1>1, <1>6, NamedFacts
<1>8. Logs(t)' = IF Logged(c.name) THEN Apply(t, d, now) ELSE t
  BY <1>1, <1>6 DEF Logs
<1>9. ASSUME NEW b \in Rest', b \notin doomed PROVE Alike(table'[b], Logs(t)'[b], TRUE)
  <2>1. b \in Buckets /\ b \notin lost' /\ Alike(table[b], t[b], TRUE)
    BY <1>2, <1>5, <1>9 DEF Rest
  <2>2. CASE b # hash[c.key]
    <3>1. table'[b] = table[b]
      BY <2>1, <2>2, RunElsewhere
    <3>2. Apply(t, d, now)[b] = t[b]
      BY <1>1, <1>5, <1>7, <2>1, <2>2, OtherBuckets
    <3> QED BY <1>8, <2>1, <3>1, <3>2
  <2>3. CASE b = hash[c.key]
    <3>1. ~Traceless(c, table')
      BY <2>1, <2>3 DEF Runs, handle
    <3>2. table' = IF Blocks(c) THEN table ELSE Apply(table, c, now)
      BY <3>1 DEF Runs, handle, Traceless
    <3>3. CASE c.name \in Recorded
      <4>1. table' = Apply(table, c, now) /\ Logs(t)' = Apply(t, c, now)
        BY <1>7, <1>8, <3>2, <3>3 DEF Blocks, Logged, Recorded
      <4>2. c.ttl # -1 => now + c.ttl > 0
        <5>1. c.ttl # -1 => StartTime + c.ttl > 0
          BY PersistenceAssumption
        <5>2. c.ttl \in Int /\ StartTime \in Nat /\ StartTime <= now
          BY <1>1, PersistenceAssumption DEF Records, LossInv, FileInv
        <5> QED BY <1>1, <5>1, <5>2
      <4>3. Alike(Apply(table, c, now)[b], Apply(t, c, now)[b], TRUE)
        <5>1. now <= now /\ TRUE \in BOOLEAN /\ ~Clocked(c)
          BY <1>1, <3>1 DEF Traceless
        <5> QED BY <1>1, <1>5, <2>1, <4>2, <5>1, AlikeApply
      <4> QED BY <4>1, <4>3
    <3>4. CASE c.name \notin Recorded
      <4>1. table' = table
        <5>1. CASE c.name \in {"ZADD", "GEOADD", "ZREM", "GEOSEARCH", "BLPOP"}
          BY <3>1, <5>1 DEF Traceless
        <5>2. CASE c.name \notin {"ZADD", "GEOADD", "ZREM", "GEOSEARCH", "BLPOP"}
          <6>1. Apply(table, c, now) = table
            BY <3>4, <5>2, NoEffect DEF Recorded, Makers
          <6> QED BY <3>2, <6>1
        <5> QED BY <5>1, <5>2
      <4>2. Logged(c.name) => Apply(t, d, now) = t
        BY <1>7, <3>4, NoEffect
      <4> QED BY <1>8, <2>1, <4>1, <4>2
    <3> QED BY <3>3, <3>4
  <2> QED BY <2>2, <2>3
<1>10. Logs(g[Len(aof)])' = Logs(t)'
  BY <1>1, <1>4 DEF Logs
<1>11. Holds(g)'
  BY <1>1, <1>5, <1>9, <1>10 DEF Holds
<1> QED BY <1>1, <1>11 DEF PhaseInv, Early

(* write_to_file: the file has caught up, or the bucket is given up.       *)
LEMMA PhaseFinish == ASSUME IInv, LossInv, NEW yes \in BOOLEAN, Finish(yes) PROVE PhaseInv'
<1>1. /\ UNCHANGED <<now, pc, table, before, doomed, redone>> /\ cmd' = NULL /\ cmd # NULL
      /\ cmd \in Records /\ Serving /\ lost \subseteq lost'
      /\ now \in Nat /\ now \in Int /\ aof \in Seq(Records) /\ Len(aof) \in 0 .. Len(aof)
      /\ StartTime <= now
  <2>1. /\ UNCHANGED <<now, pc, table, before, doomed, redone>> /\ cmd' = NULL /\ cmd # NULL
        /\ lost \subseteq lost'
    BY DEF Finish
  <2>2. cmd \in Records /\ Serving /\ StartTime <= now
    BY <2>1 DEF IInv, FilesOK, LossInv, FileInv
  <2>3. now \in Nat /\ now \in Int /\ aof \in Seq(Records)
    BY DEF IInv, FlagsOK, FilesOK
  <2> QED BY <2>1, <2>2, <2>3, LenProperties
<1>2. Rest' \subseteq Rest /\ \A b \in Rest : b \in Buckets
  BY <1>1, RestShrinks DEF Rest
<1>3. PICK g : Holds(g)
  BY <1>1 DEF LossInv, PhaseInv, Serving
<1>4. PICK t : t = g[Len(aof)]
  OBVIOUS
<1>5. Run(g, aof, now) /\ TableOK(t) /\ \A b \in Rest \ doomed : Alike(table[b], Logs(t)[b], TRUE)
  BY <1>1, <1>3, <1>4, RunTables DEF Holds
<1>6. Named(cmd) \in Records /\ Named(cmd).key = cmd.key
  BY <1>1, NamedFacts
<1>7. SUFFICES \E h : Run(h, aof', now) /\ \A b \in Rest' \ doomed : Alike(table[b], h[Len(aof')][b], TRUE)
  <2>1. ASSUME NEW h, Run(h, aof', now), \A b \in Rest' \ doomed : Alike(table[b], h[Len(aof')][b], TRUE)
        PROVE  PhaseInv'
    <3>1. Logs(h[Len(aof)])' = h[Len(aof')]
      BY <1>1 DEF Logs
    <3>2. Holds(h)'
      BY <1>1, <2>1, <3>1 DEF Holds
    <3> QED BY <1>1, <1>2, <3>2 DEF PhaseInv, LossInv, Early, Serving
  <2> QED BY <1>7, <2>1
<1>8. CASE Logged(cmd.name) /\ aof' = Append(aof, Named(cmd))
  <2>1. PICK h : Run(h, Append(aof, Named(cmd)), now)
                 /\ h[Len(Append(aof, Named(cmd)))] = Apply(g[Len(aof)], Named(cmd), now)
    BY <1>1, <1>5, <1>6, RunAppend
  <2>2. Logs(t) = h[Len(aof')]
    BY <1>1, <1>4, <1>8, <2>1 DEF Logs
  <2> QED BY <1>2, <1>5, <1>8, <2>1, <2>2
<1>9. CASE Logged(cmd.name) /\ aof' = aof /\ lost' = lost \cup {hash[cmd.key]}
  <2>1. ASSUME NEW b \in Rest' PROVE Logs(t)[b] = t[b]
    <3>1. b \in Buckets /\ b # hash[cmd.key]
      BY <1>9 DEF Rest
    <3>2. Apply(t, Named(cmd), now)[b] = t[b]
      BY <1>1, <1>5, <1>6, <3>1, OtherBuckets
    <3> QED BY <3>2 DEF Logs
  <2> QED BY <1>2, <1>4, <1>5, <1>9, <2>1
<1>10. CASE ~Logged(cmd.name) /\ aof' = aof
  <2>1. Logs(t) = t
    BY <1>10 DEF Logs
  <2> QED BY <1>2, <1>4, <1>5, <1>10, <2>1
<1>11. \/ Logged(cmd.name) /\ aof' = Append(aof, Named(cmd))
       \/ Logged(cmd.name) /\ aof' = aof /\ lost' = lost \cup {hash[cmd.key]}
       \/ ~Logged(cmd.name) /\ aof' = aof
  BY DEF Finish, Appended, Named
<1> QED BY <1>8, <1>9, <1>10, <1>11

(* One more command of the file is replayed.                               *)
LEMMA DoubledOn ==
    ASSUME NEW a, NEW s, NEW g, NEW h, NEW t, NEW u, NEW b, NEW L \in Nat, NEW m \in Nat, m + 1 <= L,
           \A j \in 1 .. L : s[j] = a[j], h[L] = g[L],
           hash[a[m + 1].key] = b => a[m + 1].name = "SET" \/ ~Logged(a[m + 1].name),
           Doubled(a, g, L, m, t, b),
           SetOnly(a, L, b) /\ Overlay(t[b], g[L][b], g[Len(a)][b])
               => Overlay(u[b], g[L][b], h[Len(s)][b])
    PROVE  Doubled(s, h, L, m + 1, u, b)
<1>1. SetOnly(s, m + 1, b)
  <2> SUFFICES ASSUME NEW j \in 1 .. m + 1, hash[s[j].key] = b
               PROVE  s[j].name = "SET" \/ ~Logged(s[j].name)
    BY DEF SetOnly
  <2>1. j \in 1 .. L /\ (j \in 1 .. m \/ j = m + 1)
    OBVIOUS
  <2>2. s[j] = a[j]
    BY <2>1
  <2> QED BY <2>1, <2>2 DEF Doubled, SetOnly
<1>2. SetOnly(s, L, b) => SetOnly(a, L, b)
  BY DEF SetOnly
<1> QED BY <1>1, <1>2 DEF Doubled

LEMMA PhaseReplayed ==
    ASSUME IInv, LossInv, NEW yes \in BOOLEAN, Replay(yes), todo # <<>>
    PROVE  PhaseInv'
<1>1. /\ UNCHANGED <<now, pc, before, redone>> /\ pc = "replay" /\ todo' = Tail(todo)
      /\ now \in Nat /\ now \in Int /\ aof \in Seq(Records) /\ Len(aof) \in Nat
      /\ StartTime \in Nat /\ StartTime <= now /\ TableOK(table)
      /\ lost \subseteq lost' /\ doomed \subseteq doomed'
  <2>1. /\ UNCHANGED <<now, pc, before, redone>> /\ pc = "replay" /\ todo' = Tail(todo)
        /\ lost \subseteq lost' /\ doomed \subseteq doomed'
    BY DEF Replay
  <2>2. now \in Nat /\ now \in Int /\ aof \in Seq(Records) /\ TableOK(table)
    BY DEF IInv, FlagsOK, FilesOK, TablesOK
  <2>3. StartTime \in Nat /\ StartTime <= now
    BY PersistenceAssumption DEF LossInv, FileInv
  <2> QED BY <2>1, <2>2, <2>3, LenProperties
<1>2. PICK g, L, m : Replaying(g, L, m)
  BY <1>1 DEF LossInv, PhaseInv
<1>3. PICK c : c = Head(todo)
  OBVIOUS
<1>4. /\ L \in Nat /\ m \in Nat /\ m + 1 <= L /\ m + 1 \in 1 .. Len(aof)
      /\ c \in Records /\ c = aof[m + 1] /\ Reread(Head(todo)) = c
      /\ Len(Tail(todo)) = L - (m + 1)
      /\ \A i \in 1 .. Len(Tail(todo)) : Tail(todo)[i] = aof[(m + 1) + i]
  <2>1. /\ L \in Nat /\ m \in Nat /\ m + 1 <= L /\ m + 1 \in 1 .. Len(aof)
        /\ Head(todo) \in Records /\ Head(todo) = aof[m + 1]
        /\ Reread(Head(todo)) = Head(todo)
        /\ Len(Tail(todo)) = L - (m + 1)
        /\ \A i \in 1 .. Len(Tail(todo)) : Tail(todo)[i] = aof[(m + 1) + i]
    BY <1>2, NextReplayed
  <2> QED BY <1>3, <2>1
<1>5. PICK N \in Nat : N = Len(aof)
  BY <1>1
<1>6. /\ L <= N /\ Run(g, aof, now)
      /\ \A b \in Rest : Alike(before[b], g[L][b], TRUE)
      /\ \A b \in Buckets \ lost : Alike(g[m][b], table[b], TRUE)
      /\ \A b \in Buckets : b \notin lost /\ b \notin doomed => Doubled(aof, g, L, m, table, b)
  <2>1. /\ L \in 0 .. Len(aof) /\ Run(g, aof, now)
        /\ \A b \in Rest : Alike(before[b], g[L][b], TRUE)
        /\ \A b \in Buckets \ lost : Alike(g[m][b], table[b], TRUE)
        /\ \A b \in Buckets : b \notin lost /\ b \notin doomed => Doubled(aof, g, L, m, table, b)
    BY <1>2 DEF Replaying
  <2>2. L <= N
    BY <1>4, <1>5, <2>1
  <2> QED BY <2>1, <2>2
<1>7. FileRecord(c) /\ (Clocked(c) => hash[c.key] \in lost)
  BY <1>4 DEF LossInv, FileInv
<1>8. \A i \in 0 .. N : TableOK(g[i])
  BY <1>1, <1>5, <1>6, RunTables
<1>9. m \in 0 .. N /\ m + 1 \in 0 .. N /\ L \in 0 .. N /\ N \in 0 .. N /\ m + 1 \in 1 .. L
  BY <1>4, <1>5, <1>6
<1>10. /\ table' = Apply(table, c, now)
       /\ \/ /\ Logged(c.name) /\ aof' = Append(aof, c) /\ lost' = lost
             /\ doomed' = IF c.name = "SET" THEN doomed ELSE doomed \cup {hash[c.key]}
          \/ /\ Logged(c.name) /\ aof' = aof /\ doomed' = doomed /\ lost' = lost \cup {hash[c.key]}
          \/ ~Logged(c.name) /\ aof' = aof /\ doomed' = doomed /\ lost' = lost
  BY <1>3, <1>4 DEF Replay
<1>11. ASSUME NEW b \in Buckets \ lost' PROVE Alike(g[m + 1][b], table'[b], TRUE)
  <2>1. (m + 1) - 1 = m
    BY <1>4
  <2>2. PICK at \in StartTime .. now : g[m + 1] = Apply(g[m], c, at)
    BY <1>4, <1>6, <2>1 DEF Run
  <2>3. at \in Int /\ at <= now /\ StartTime <= at
    BY <1>1
  <2>4. c.ttl # -1 => at + c.ttl > 0
    <3>1. c.ttl \in Int
      BY <1>4 DEF Records
    <3> QED BY <1>1, <1>7, <2>3, <3>1 DEF FileRecord
  <2>5. Alike(g[m][b], table[b], TRUE) /\ TableOK(g[m]) /\ TRUE \in BOOLEAN
    BY <1>1, <1>6, <1>8, <1>9
  <2>6. Alike(Apply(g[m], c, at)[b], Apply(table, c, now)[b], TRUE)
    <3>1. Clocked(c) => b # hash[c.key]
      BY <1>1, <1>7
    <3> QED BY <1>1, <1>4, <2>3, <2>4, <2>5, <3>1, AlikeApply
  <2> QED BY <1>10, <2>2, <2>6
<1>12. SUFFICES \E h : /\ Run(h, aof', now) /\ N <= Len(aof') /\ Len(aof') \in Nat
                       /\ \A i \in 0 .. N : h[i] = g[i]
                       /\ \A j \in 1 .. N : aof'[j] = aof[j]
                       /\ \A b \in Buckets : b \notin lost' /\ b \notin doomed'
                                              => Doubled(aof', h, L, m + 1, table', b)
  <2>1. PICK h : /\ Run(h, aof', now) /\ N <= Len(aof') /\ Len(aof') \in Nat
                 /\ \A i \in 0 .. N : h[i] = g[i]
                 /\ \A j \in 1 .. N : aof'[j] = aof[j]
                 /\ \A b \in Buckets : b \notin lost' /\ b \notin doomed'
                                        => Doubled(aof', h, L, m + 1, table', b)
    BY <1>12
  <2>2. h[L] = g[L] /\ h[m + 1] = g[m + 1]
    BY <1>9, <2>1
  <2>3. L \in 0 .. Len(aof') /\ m + 1 \in 0 .. L
    BY <1>4, <1>6, <2>1
  <2>4. Rest' \subseteq Rest
    BY <1>1, RestShrinks
  <2>5. ASSUME NEW i \in 1 .. Len(todo') PROVE todo'[i] = aof'[(m + 1) + i]
    <3>1. i \in 1 .. Len(Tail(todo)) /\ (m + 1) + i \in 1 .. N
      BY <1>1, <1>4, <1>6
    <3> QED BY <1>1, <1>4, <2>1, <3>1
  <2>6. Replaying(h, L, m + 1)'
    <3>1. \A b \in Rest' : Alike(before'[b], h[L][b], TRUE)
      BY <1>1, <1>6, <2>2, <2>4
    <3>2. \A b \in Buckets \ lost' : Alike(h[m + 1][b], table'[b], TRUE)
      BY <1>11, <2>2
    <3>3. Len(todo') = L - (m + 1)
      BY <1>1, <1>4
    <3> QED BY <1>1, <2>1, <2>3, <2>5, <3>1, <3>2, <3>3 DEF Replaying
  <2> QED BY <1>1, <2>6 DEF PhaseInv, Early
<1>13. \A j \in 1 .. L : j \in 1 .. N
  BY <1>6, <1>4
<1>14. ASSUME NEW b \in Buckets, b # hash[c.key]
       PROVE  table'[b] = table[b] /\ Apply(g[N], c, now)[b] = g[N][b]
  BY <1>1, <1>4, <1>8, <1>9, <1>10, <1>14, OtherBuckets
<1>15. CASE aof' = aof
  <2>1. ASSUME NEW b \in Buckets, b \notin lost', b \notin doomed'
        PROVE  Doubled(aof', g, L, m + 1, table', b)
    <3>1. Doubled(aof, g, L, m, table, b)
      BY <1>1, <1>6, <2>1
    <3>2. hash[c.key] = b => ~Logged(c.name)
      BY <1>10, <1>15, <2>1, <1>1, <1>4, LongerFile
    <3>3. table'[b] = table[b]
      <4>1. CASE b # hash[c.key]
        BY <1>14, <4>1
      <4>2. CASE b = hash[c.key]
        <5>1. Apply(table, c, now) = table
          BY <1>7, <3>2, <4>2, NoEffect DEF Logged, Makers, FileRecord
        <5> QED BY <1>10, <5>1
      <4> QED BY <4>1, <4>2
    <3> QED BY <1>4, <1>15, <3>1, <3>2, <3>3, DoubledOn
  <2>2. N <= Len(aof') /\ Len(aof') \in Nat
    BY <1>5, <1>15
  <2> QED BY <1>6, <1>15, <2>1, <2>2
<1>16. CASE /\ Logged(c.name) /\ aof' = Append(aof, c) /\ lost' = lost
            /\ doomed' = IF c.name = "SET" THEN doomed ELSE doomed \cup {hash[c.key]}
  <2>1. PICK h : /\ Run(h, aof', now) /\ \A i \in 0 .. N : h[i] = g[i]
                 /\ h[Len(aof')] = Apply(g[N], c, now)
    BY <1>1, <1>4, <1>5, <1>6, <1>16, RunAppend
  <2>2. /\ Len(aof') = N + 1 /\ N <= Len(aof') /\ Len(aof') \in Nat
        /\ \A j \in 1 .. N : aof'[j] = aof[j]
    BY <1>1, <1>4, <1>5, <1>16, LongerFile
  <2>3. ASSUME NEW b \in Buckets, b \notin lost', b \notin doomed'
        PROVE  Doubled(aof', h, L, m + 1, table', b)
    <3>1. Doubled(aof, g, L, m, table, b)
      BY <1>1, <1>6, <2>3
    <3>2. hash[c.key] = b => c.name = "SET"
      BY <1>16, <2>3
    <3>3. ASSUME SetOnly(aof, L, b), Overlay(table[b], g[L][b], g[N][b])
          PROVE  Overlay(table'[b], g[L][b], h[Len(aof')][b])
      <4>1. CASE b # hash[c.key]
        BY <1>14, <2>1, <3>3, <4>1
      <4>2. CASE b = hash[c.key]
        <5>1. HasKey(g[L][b], c.key)
          <6>1. \A j \in 1 .. Len(aof) : FileRecord(aof[j])
            BY DEF LossInv, FileInv
          <6>2. L \in 0 .. Len(aof)
            BY <1>5, <1>9
          <6>3. hash[aof[m + 1].key] = b /\ aof[m + 1].name = "SET"
            BY <1>4, <3>2, <4>2
          <6>4. HasKey(g[L][b], aof[m + 1].key)
            BY <1>1, <1>6, <1>9, <3>3, <6>1, <6>2, <6>3, RunKeys
          <6> QED BY <1>4, <6>4
        <5>2. TableOK(g[N])
          BY <1>8, <1>9
        <5>3. Overlay(Apply(table, c, now)[b], g[L][b], Apply(g[N], c, now)[b])
          BY <1>1, <1>4, <3>2, <3>3, <4>2, <5>1, <5>2, OverlaySet
        <5> QED BY <1>10, <2>1, <5>3
      <4> QED BY <4>1, <4>2
    <3>4. \A j \in 1 .. L : aof'[j] = aof[j]
      BY <1>13, <2>2
    <3>5. h[L] = g[L]
      BY <1>9, <2>1
    <3> QED BY <1>4, <1>5, <3>1, <3>2, <3>3, <3>4, <3>5, DoubledOn
  <2> QED BY <2>1, <2>2, <2>3
<1> QED BY <1>10, <1>15, <1>16

(* The replay ends.                                                        *)
LEMMA PhaseReplayDone ==
    ASSUME IInv, LossInv, NEW yes \in BOOLEAN, Replay(yes), todo = <<>>
    PROVE  PhaseInv'
<1>1. /\ UNCHANGED <<now, cmd, table, aof, before, lost, doomed, redone>>
      /\ pc = "replay" /\ pc' = "rdb" /\ cmd = NULL
      /\ aof \in Seq(Records) /\ Len(aof) \in Nat /\ TableOK(table) /\ TableOK(before)
  <2>1. /\ UNCHANGED <<now, cmd, table, aof, before, lost, doomed, redone>>
        /\ pc = "replay" /\ pc' = "rdb"
    BY DEF Replay
  <2>2. cmd = NULL
    BY <2>1 DEF LossInv, FileInv, Serving
  <2>3. aof \in Seq(Records) /\ TableOK(table) /\ TableOK(before)
    BY DEF IInv, FilesOK, TablesOK
  <2> QED BY <2>1, <2>2, <2>3, LenProperties
<1>2. PICK g, L, m : Replaying(g, L, m)
  BY <1>1 DEF LossInv, PhaseInv
<1>3. /\ L = m /\ L \in 0 .. Len(aof) /\ Run(g, aof, now)
      /\ \A b \in Rest : Alike(before[b], g[L][b], TRUE)
      /\ \A b \in Buckets \ lost : Alike(g[L][b], table[b], TRUE)
      /\ \A b \in Buckets : b \notin lost /\ b \notin doomed => Doubled(aof, g, L, L, table, b)
  <2>1. /\ L \in 0 .. Len(aof) /\ m \in 0 .. L /\ Len(todo) = L - m /\ Len(todo) = 0
    BY <1>2, EmptySeq DEF Replaying
  <2>2. L = m
    BY <1>1, <2>1
  <2> QED BY <1>2, <2>1, <2>2 DEF Replaying
<1>4. Rest' = Rest /\ \A b \in Rest : b \in Buckets /\ b \notin lost
  BY <1>1 DEF Rest, RdbBuckets
<1>5. ASSUME NEW b \in Rest PROVE Alike(before[b], table[b], TRUE)
  <2>1. Alike(before[b], g[L][b], TRUE) /\ Alike(g[L][b], table[b], TRUE)
    BY <1>3, <1>4
  <2>2. before[b] \in Chains /\ g[L][b] \in Chains /\ table[b] \in Chains
    BY <1>1, <1>3, <1>4, RunTables, TableChains
  <2> QED BY <2>1, <2>2, LaterTrans
<1>6. ASSUME NEW b \in Rest \ doomed PROVE Alike(table[b], g[Len(aof)][b], TRUE)
  <2>1. Overlay(table[b], g[L][b], g[Len(aof)][b])
    BY <1>3, <1>4, <1>6 DEF Doubled
  <2>2. Alike(g[L][b], table[b], TRUE)
    BY <1>3, <1>4
  <2> QED BY <2>1, <2>2, OverlayDone
<1>7. Logs(g[Len(aof)])' = g[Len(aof)]
  BY <1>1 DEF Logs
<1>8. Holds(g)'
  BY <1>1, <1>3, <1>4, <1>6, <1>7 DEF Holds
<1> QED BY <1>1, <1>4, <1>5, <1>8 DEF PhaseInv, Early

LEMMA LossInit == Init => LossInv
<1> SUFFICES ASSUME Init PROVE LossInv
  OBVIOUS
<1>1. /\ now = StartTime /\ pc = "down" /\ table = EmptyTable /\ aof = <<>> /\ cmd = NULL /\ before = Fresh
      /\ Len(aof) = 0 /\ StartTime \in Nat /\ doomed = {} /\ ~dir /\ manifest = "none" /\ ~path
  BY EmptySeq, PersistenceAssumption DEF Init, Fresh
<1>2. FileInv
  BY <1>1 DEF FileInv
<1>3. DirInv
  BY <1>1 DEF DirInv, Early
<1>4. RdbInv
  <2> SUFFICES ASSUME NEW b \in RdbBuckets PROVE Untouched(aof, Len(aof), b) /\ table[b] = <<>>
    BY <1>1 DEF RdbInv, Serving
  <2>1. b \in Buckets
    BY PersistenceAssumption, KeyspaceAssumption DEF RdbBuckets
  <2> QED BY <1>1, <2>1 DEF Untouched, EmptyTable
<1>5. PhaseInv
  <2>1. PICK g : Run(g, aof, now)
    BY <1>1, RunStart
  <2>2. g[Len(aof)] = EmptyTable
    BY <1>1, <2>1 DEF Run
  <2>3. ASSUME NEW b \in Rest PROVE Alike(before[b], g[Len(aof)][b], TRUE)
    <3>1. b \in Buckets /\ b \notin RdbBuckets
      BY DEF Rest
    <3>2. load_rdb_into_table(EmptyTable, Rdb)[b] = EmptyTable[b]
      BY <3>1, EmptyTableOK, LoadLocal
    <3>3. before[b] = EmptyTable[b]
      BY <1>1, <3>2 DEF Fresh
    <3> QED BY <2>2, <3>1, <3>3, EmptyTableOK, LaterSelf, TableChains
  <2>4. Stored(g)
    BY <2>1, <2>3 DEF Stored
  <2> QED BY <1>1, <2>4 DEF PhaseInv
<1> QED BY <1>2, <1>3, <1>4, <1>5 DEF LossInv

LEMMA LossStep == IInv /\ LossInv /\ [Next]_vars => LossInv'
<1> SUFFICES ASSUME IInv, LossInv, [Next]_vars PROVE PhaseInv'
  BY LossFile, LossDir, LossRdb DEF LossInv
<1>1. CASE Join \/ Follow \/ Receives \/ UNCHANGED vars
  BY <1>1, PhaseSame DEF Join, Follow, Receives, Queue, handle_discard, vars, disk, LossInv
<1>2. ASSUME NEW yes \in BOOLEAN, Replay(yes) PROVE PhaseInv'
  BY <1>2, PhaseReplayed, PhaseReplayDone
<1> QED BY <1>1, <1>2, PhaseTick, PhaseCreate, PhaseConfig, PhaseLoad, PhaseEnd, PhaseRun, PhaseFinish, StepCases
        DEF Crash, NoManifest

(* A start brings back every key, with a deadline no earlier, unless its   *)
(* bucket has one of the causes LossHasCause names: for every sequence of  *)
(* commands on strings, lists, sorted sets and streams, sent alone or in a *)
(* MULTI, ends of the process at any point of the loop and of the start    *)
(* (the replay, which appends to the file it reads, included), outcomes of *)
(* the test for "YES", hash and RDB file.                                  *)
THEOREM LossExplained == Spec => []LossHasCause
<1>1. IInv /\ LossInv => LossHasCause
  <2> SUFFICES ASSUME IInv, LossInv, pc = "started", NEW k \in Keys, hash[k] \notin lost \cup redone
               PROVE  Kept(before, table, k)
    BY DEF LossHasCause
  <2>1. TableOK(before) /\ TableOK(table) /\ hash[k] \in Buckets
    BY KeyspaceAssumption DEF IInv, TablesOK
  <2>2. before[hash[k]] \in Chains
    BY <2>1, TableChains
  <2>3. Alike(before[hash[k]], table[hash[k]], TRUE)
    <3>1. CASE hash[k] \in RdbBuckets
      <4>1. before[hash[k]] = table[hash[k]]
        BY <3>1 DEF LossInv, RdbInv, Serving
      <4> QED BY <2>2, <4>1, LaterSelf
    <3>2. CASE hash[k] \notin RdbBuckets
      <4>1. hash[k] \in Rest
        BY <2>1, <3>2 DEF Rest
      <4> QED BY <4>1 DEF LossInv, PhaseInv
    <3> QED BY <3>1, <3>2
  <2> QED BY <2>1, <2>3, LaterKept
<1> QED BY <1>1, LossInit, LossStep, Invariance, PTL DEF Spec
=============================================================================
