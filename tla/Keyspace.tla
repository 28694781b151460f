------------------------------ MODULE Keyspace ------------------------------
(***************************************************************************)
(* The hash table of utils.c as operators on a value t: a function from    *)
(* buckets to the chain of entries, its head first.  The value of an entry *)
(* is a sequence of integers: one element for a string, the elements of a  *)
(* list, the members of a sorted set or the IDs of a stream.  A string     *)
(* that is not a number is Word.  An ID ms-seq is the number               *)
(* ms * SeqSpan + seq.  A member of a sorted set stands without its score, *)
(* and a command has one value.                                            *)
(*                                                                         *)
(* store_set_list and its two siblings leave the next pointer of an entry  *)
(* they allocate unset; memory that was never used is zero, which is the   *)
(* outcome modelled.  Any other ends the process in the next search of the *)
(* bucket, and the modules that use this one let the process end anywhere. *)
(***************************************************************************)
EXTENDS Integers, Sequences, FiniteSetsExt, SequencesExt

CONSTANTS
    Keys, Buckets,
    hash,          \* bucket of each key
    SeqSpan        \* bound: sequence numbers of stream IDs

ASSUME KeyspaceAssumption == hash \in [Keys -> Buckets] /\ SeqSpan \in Nat \ {0}

Word == -1

Types == {"string", "list", "zset", "stream"}

EmptyTable == [b \in Buckets |-> <<>>]

\* The places of the chain at which a search for the key stops.
Found(t, k) == {j \in DOMAIN t[hash[k]] : t[hash[k]][j].key = k}

\* The entry of the key, expired or not, as a set of at most one.
store_getEntry(t, k) ==
    IF Found(t, k) = {} THEN {} ELSE {t[hash[k]][Min(Found(t, k))]}

\* Mutant: the comparison is the wrong way round.
ExpiredBefore(e, now) == e.expires_at # 0 /\ now < e.expires_at

Expired(e, now) == e.expires_at # 0 /\ now >= e.expires_at

\* What GET shows: an expired entry is hidden, not removed.
store_get(t, k, now) == {e \in store_getEntry(t, k) : ~Expired(e, now)}

Entry(k, type, value, expires_at) ==
    [key |-> k, type |-> type, value |-> value, expires_at |-> expires_at]

\* Mutant: the head of the chain is taken without a search.
store_set_head(t, k, type, value, expires_at) ==
    LET chain == t[hash[k]]
        e == Entry(k, type, value, expires_at)
    IN  [t EXCEPT ![hash[k]] = IF chain = <<>> THEN <<e>> ELSE [chain EXCEPT ![1] = e]]

\* Replace the entry in its place, or put a new one in front.
store_set(t, k, type, value, expires_at) ==
    LET chain == t[hash[k]]
        e == Entry(k, type, value, expires_at)
    IN  [t EXCEPT ![hash[k]] =
            IF Found(t, k) = {} THEN <<e>> \o chain
            ELSE [chain EXCEPT ![Min(Found(t, k))] = e]]

\* store_set_list, store_set_zset, store_set_stream, called when the key has
\* no entry: the head of the bucket becomes the new entry, whose key it was.
store_set_object(t, k, type, value) ==
    LET chain == t[hash[k]]
        e == Entry(k, type, value, 0)
    IN  [t EXCEPT ![hash[k]] = IF chain = <<>> THEN <<e>> ELSE [chain EXCEPT ![1] = e]]

\* The value of an object is changed in place.
Update(t, k, value) ==
    [t EXCEPT ![hash[k]][Min(Found(t, k))].value = value]

\* The value of the key, empty when it has none.
ValueOf(t, k) ==
    IF Found(t, k) = {} THEN <<>> ELSE t[hash[k]][Min(Found(t, k))].value

\* Add to an object, made if the key has none.
Put(t, k, type, value) ==
    IF Found(t, k) = {} THEN store_set_object(t, k, type, value) ELSE Update(t, k, value)

-----------------------------------------------------------------------------
(* What the handlers do to the table.  A command is a record with its name,*)
(* key, argument and time to live in ms, -1 meaning none.                  *)

Deadline(ttl, now) == IF ttl = -1 THEN 0 ELSE now + ttl

SET(t, c, now) == store_set(t, c.key, "string", <<c.arg>>, Deadline(c.ttl, now))

\* An expired entry still counts, and its deadline goes.
INCR(t, c) ==
    CASE ValueOf(t, c.key) = <<>>     -> store_set(t, c.key, "string", <<1>>, 0)
      [] ValueOf(t, c.key) = <<Word>> -> t
      [] OTHER -> store_set(t, c.key, "string", <<ValueOf(t, c.key)[1] + 1>>, 0)

\* Also the pop of a BLPOP, at once or through an RPUSH.
LPOP(t, c) ==
    IF ValueOf(t, c.key) = <<>> THEN t ELSE Update(t, c.key, Tail(ValueOf(t, c.key)))

ZREM(t, c) ==
    LET v == ValueOf(t, c.key)
        i == CHOOSE j \in DOMAIN v : v[j] = c.arg
    IN  IF Contains(v, c.arg) THEN Update(t, c.key, RemoveAt(v, i)) ELSE t

\* The ID of an XADD in a stream whose last ID is given.  The argument is
\* Word for "*" and -2 - ms for "ms-*".
generateId(last, arg, now) ==
    IF arg = Word
    THEN IF now > last \div SeqSpan THEN now * SeqSpan ELSE last + 1
    ELSE LET ms == -2 - arg
         IN  IF ms = last \div SeqSpan THEN last + 1
             ELSE IF ms = 0 THEN 1 ELSE ms * SeqSpan

\* The first entry's ID is not validated, a generated one never is.
XADD(v, arg, now) ==
    IF v = <<>> THEN <<IF arg >= 0 THEN arg ELSE generateId(0, arg, now)>>
    ELSE IF arg < 0 THEN Append(v, generateId(Last(v), arg, now))
    ELSE IF arg > Last(v) THEN Append(v, arg) ELSE v

\* The commands that make an object when the key has none; GEOSEARCH makes
\* an empty sorted set.
Makers == {"RPUSH", "LPUSH", "ZADD", "GEOADD", "GEOSEARCH", "XADD"}

\* What a maker leaves in an object of value v.
Extended(v, c, now) ==
    CASE c.name = "RPUSH" -> Append(v, c.arg)
      [] c.name = "LPUSH" -> <<c.arg>> \o v
      [] c.name \in {"ZADD", "GEOADD"} -> IF Contains(v, c.arg) THEN v ELSE Append(v, c.arg)
      [] c.name = "GEOSEARCH" -> v
      [] c.name = "XADD" -> XADD(v, c.arg, now)

\* The type a handler takes the value for, without a look at the entry's.
TypeOf(name) ==
    CASE name \in {"SET", "INCR"} -> "string"
      [] name \in {"RPUSH", "LPUSH", "LPOP", "BLPOP"} -> "list"
      [] name \in {"ZADD", "ZREM", "GEOADD", "GEOSEARCH"} -> "zset"
      [] name = "XADD" -> "stream"

\* DEL, DECR, APPEND, RPOP, HSET, HDEL and reads change nothing.
Apply(t, c, now) ==
    CASE c.name = "SET"  -> SET(t, c, now)
      [] c.name = "INCR" -> INCR(t, c)
      [] c.name \in {"LPOP", "BLPOP"} -> LPOP(t, c)
      [] c.name = "ZREM" -> ZREM(t, c)
      [] c.name \in Makers ->
            Put(t, c.key, TypeOf(c.name), Extended(ValueOf(t, c.key), c, now))
      [] OTHER -> t

-----------------------------------------------------------------------------
(* load_rdb_into_table: a record of the file has a key, a type, a value    *)
(* and an expiry, -1 when it has none.  A type other than string and       *)
(* stream ends the load.  The expiry is written to the head of the bucket: *)
(* the key's own entry only if store_set put it there.                     *)

SetHeadExpiry(t, k, expires_at) == [t EXCEPT ![hash[k]][1].expires_at = expires_at]

\* expiry_ms starts as 0 and is -1 after each key.
ExpiryMs(rdb, j) == IF j = 1 /\ rdb[j].expires_at = -1 THEN 0 ELSE rdb[j].expires_at

LoadRecord(t, rdb, j) ==
    LET s == store_set(t, rdb[j].key, rdb[j].type, rdb[j].value, 0)
        x == ExpiryMs(rdb, j)
    IN  IF x > 0 \/ (x = 0 /\ rdb[j].type = "string")
        THEN SetHeadExpiry(s, rdb[j].key, x) ELSE s

\* Mutant: records of any type are stored.
LoadedAll(rdb) == Len(rdb)

\* The records before the first of an unsupported type.
Loaded(rdb) ==
    LET bad == {j \in DOMAIN rdb : rdb[j].type \notin {"string", "stream"}}
    IN  IF bad = {} THEN Len(rdb) ELSE Min(bad) - 1

load_rdb_into_table(t, rdb) ==
    LET after[j \in 0 .. Loaded(rdb)] ==
            IF j = 0 THEN t ELSE LoadRecord(after[j - 1], rdb, j)
    IN  after[Loaded(rdb)]
=============================================================================
