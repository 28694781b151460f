---------------------------- MODULE Transactions ----------------------------
(***************************************************************************)
(* MULTI, EXEC, DISCARD, WATCH and UNWATCH (transaction_handler.c), the    *)
(* queuing of commands and notify_watchers (handler.c), and what is left   *)
(* behind when a client disconnects (main.c).                              *)
(*                                                                         *)
(* A watch is a pointer to the Client object in the list of the bucket the *)
(* key hashes to; keys that share a bucket share the list.  Lists only     *)
(* grow: a deleted registration becomes NULL.  Clients are the objects:    *)
(* freeing one leaves its registrations, and a later connection may get    *)
(* the same address.                                                       *)
(*                                                                         *)
(* A WRITE is any command after which handle() calls notify_watchers (SET, *)
(* INCR, LPUSH, XADD, ZADD, ...).  Two commands change keys without it:    *)
(* BLPOP pops at once from a list with values, and GEOSEARCH of a missing  *)
(* key stores an empty set.  A command that makes a list, a stream or a    *)
(* sorted set also takes over the entry that heads its bucket; Keyspace    *)
(* has the chains, here it is any key of the bucket.  Expiry changes keys  *)
(* too, with no command at all.  A value is the number of changes.  Reads  *)
(* are left out.  WATCH of several keys is that many WATCHes in a row.     *)
(***************************************************************************)
EXTENDS Integers, Sequences, FiniteSets, Functions

CONSTANTS
    Clients,    \* addresses of Client objects
    Keys, Buckets,
    hash,       \* hash[k] is the bucket of key k
    MaxQueue,   \* bound: commands queued in one MULTI
    MaxWatch,   \* bound: registrations of one bucket since the start
    MaxChanges, \* bound: changes of one key
    NULL

ASSUME TransactionsAssumption ==
    /\ hash \in [Keys -> Buckets]
    /\ MaxQueue \in Nat /\ MaxWatch \in Nat /\ MaxChanges \in Nat
    /\ NULL \notin Clients

VARIABLES
    up,          \* FALSE once free() has aborted the server
    live,        \* the objects that belong to a connected client
    is_queued, is_dirty,  \* of Client
    queue,       \* requests[0 .. queuedCommands-1]
    watch_keys,  \* of Client
    watchers,    \* clientList of each bucket
    value,       \* number of changes of each key
    witnessed,   \* history: the value each watched key had when it was watched
    unannounced  \* history: changes of it since then that nobody was told of

vars == <<up, live, is_queued, is_dirty, queue, watch_keys, watchers, value,
          witnessed, unannounced>>

NotWatched == -1

Requests == [name : {"WRITE", "BLPOP", "GEOSEARCH"}, key : Keys]

Init ==
    /\ up = TRUE
    /\ live = {}
    /\ is_queued = [c \in Clients |-> FALSE]
    /\ is_dirty = [c \in Clients |-> FALSE]
    /\ queue = [c \in Clients |-> <<>>]
    /\ watch_keys = [c \in Clients |-> <<>>]
    /\ watchers = [b \in Buckets |-> <<>>]
    /\ value = [k \in Keys |-> 0]
    /\ witnessed = [c \in Clients |-> [k \in Keys |-> NotWatched]]
    /\ unannounced = [c \in Clients |-> [k \in Keys |-> 0]]

\* The histories of a client whose watches are over.
EndWatch(c) ==
    /\ witnessed' = [witnessed EXCEPT ![c] = [k \in Keys |-> NotWatched]]
    /\ unannounced' = [unannounced EXCEPT ![c] = [k \in Keys |-> 0]]

\* The fields of the object as calloc() makes them on accept().
Zeroed(c) ==
    /\ is_queued' = [is_queued EXCEPT ![c] = FALSE]
    /\ is_dirty' = [is_dirty EXCEPT ![c] = FALSE]
    /\ queue' = [queue EXCEPT ![c] = <<>>]
    /\ watch_keys' = [watch_keys EXCEPT ![c] = <<>>]
    /\ EndWatch(c)

Connect(c) ==
    /\ up /\ c \notin live
    /\ live' = live \cup {c}
    /\ Zeroed(c)
    /\ UNCHANGED <<up, watchers, value>>

\* free() of the object, whose fields mean nothing from here on; watchers
\* still points to it.
Disconnect(c) ==
    /\ up /\ c \in live
    /\ live' = live \ {c}
    /\ Zeroed(c)
    /\ UNCHANGED <<up, watchers, value>>

-----------------------------------------------------------------------------
\* Mutant: only the latest registration of the bucket is notified.
notify_last(ks) ==
    {c \in Clients : \E k \in ks : LET l == watchers[hash[k]]
                                   IN  l # <<>> /\ l[Len(l)] = c}

\* The objects notify_watchers marks when the keys ks are written.
notify_watchers(ks) ==
    {c \in Clients : \E k \in ks : c \in Range(watchers[hash[k]])}

\* Does handle() call notify_watchers after the command?
Notifies(req) == req.name = "WRITE"

\* The sets of keys that one execution of the command may change: none, its
\* own key, or also the one whose entry it takes over.
Changes(req) ==
    {{}, {req.key}} \cup
    IF req.name = "BLPOP" THEN {}
    ELSE {{req.key, j} : j \in {j \in Keys : hash[j] = hash[req.key]}}

\* The requests reqs are executed and change the keys given for each.
Execute(reqs, changed) ==
    LET all == UNION {changed[i] : i \in DOMAIN reqs}
        loud == {i \in DOMAIN reqs : Notifies(reqs[i])}
        told == UNION {changed[i] : i \in loud}
    IN  /\ \A i \in DOMAIN reqs : changed[i] \in Changes(reqs[i])
        /\ \A k \in all : value[k] < MaxChanges
        /\ value' = [k \in Keys |-> IF k \in all THEN value[k] + 1 ELSE value[k]]
        /\ is_dirty' = [c \in Clients |->
              is_dirty[c] \/ c \in notify_watchers({reqs[i].key : i \in loud})]
        /\ unannounced' = [c \in Clients |-> [k \in Keys |->
              IF k \in all \ told /\ witnessed[c][k] # NotWatched
              THEN unannounced[c][k] + 1 ELSE unannounced[c][k]]]

Command(c, req) ==
    /\ up /\ c \in live
    /\ ~is_queued[c]
    /\ \E ks \in SUBSET Keys : Execute(<<req>>, <<ks>>)
    /\ UNCHANGED <<up, live, is_queued, queue, watch_keys, watchers, witnessed>>

\* The deadline of a key passes: store_get answers NULL from now on.
Expire(k) ==
    /\ up
    /\ value[k] < MaxChanges
    /\ value' = [value EXCEPT ![k] = @ + 1]
    /\ unannounced' = [c \in Clients |->
          IF witnessed[c][k] # NotWatched
          THEN [unannounced[c] EXCEPT ![k] = @ + 1] ELSE unannounced[c]]
    /\ UNCHANGED <<up, live, is_queued, is_dirty, queue, watch_keys, watchers, witnessed>>

Queue(c, req) ==
    /\ up /\ c \in live
    /\ is_queued[c]
    /\ Len(queue[c]) < MaxQueue
    /\ queue' = [queue EXCEPT ![c] = Append(@, req)]
    /\ UNCHANGED <<up, live, is_queued, is_dirty, watch_keys, watchers, value,
                   witnessed, unannounced>>

MULTI(c) ==
    /\ up /\ c \in live
    /\ ~is_queued[c]
    /\ is_queued' = [is_queued EXCEPT ![c] = TRUE]
    /\ queue' = [queue EXCEPT ![c] = <<>>]
    /\ UNCHANGED <<up, live, is_dirty, watch_keys, watchers, value, witnessed,
                   unannounced>>

-----------------------------------------------------------------------------
(* delete_watched_keys frees watch_keys[i] once per registration it finds, *)
(* so two registrations of the client in one bucket free a string twice    *)
(* and the C library aborts the process.                                   *)

Registrations(c, k) ==
    {n \in 1 .. Len(watchers[hash[k]]) : watchers[hash[k]][n] = c}

DoubleFree(c) ==
    \E k \in Range(watch_keys[c]) :
        \E m, n \in Registrations(c, k) : m # n

\* The registrations of c in the buckets of its keys become NULL.
RemoveRegistrations(c) ==
    /\ watchers' = [b \in Buckets |->
          IF \E k \in Range(watch_keys[c]) : hash[k] = b
          THEN [n \in 1 .. Len(watchers[b]) |->
                   IF watchers[b][n] = c THEN NULL ELSE watchers[b][n]]
          ELSE watchers[b]]
    /\ watch_keys' = [watch_keys EXCEPT ![c] = <<>>]
    /\ is_dirty' = [is_dirty EXCEPT ![c] = FALSE]

delete_watched_keys(c) ==
    \/ /\ ~DoubleFree(c)
       /\ RemoveRegistrations(c)
       /\ EndWatch(c)
       /\ UNCHANGED up
    \/ /\ DoubleFree(c)
       /\ up' = FALSE
       /\ UNCHANGED <<watchers, watch_keys, is_dirty, witnessed, unannounced>>

\* Mutant: queuedCommands keeps its count.
ResetFlagOnly(c) ==
    /\ is_queued' = [is_queued EXCEPT ![c] = FALSE]
    /\ UNCHANGED queue

\* The end of a MULTI: is_queued and queuedCommands become 0.
ResetQueue(c) ==
    /\ is_queued' = [is_queued EXCEPT ![c] = FALSE]
    /\ queue' = [queue EXCEPT ![c] = <<>>]

Aborts(c) == is_dirty[c]

\* A dirty client's EXEC drops the queue and the watches.
ExecAborts(c) ==
    /\ up /\ c \in live
    /\ is_queued[c] /\ Aborts(c)
    /\ ResetQueue(c)
    /\ delete_watched_keys(c)
    /\ UNCHANGED <<live, value>>

\* Otherwise the queued commands run, one after another; the watches stay
\* registered, and is_dirty changes only by what the commands notify.
ExecRuns(c) ==
    /\ up /\ c \in live
    /\ is_queued[c] /\ ~Aborts(c)
    /\ ResetQueue(c)
    /\ \E changed \in [DOMAIN queue[c] -> SUBSET Keys] : Execute(queue[c], changed)
    /\ UNCHANGED <<up, live, watch_keys, watchers, witnessed>>

DISCARD(c) ==
    /\ up /\ c \in live
    /\ is_queued[c]
    /\ ResetQueue(c)
    /\ delete_watched_keys(c)
    /\ UNCHANGED <<live, value>>

\* UNWATCH is not queued: inside MULTI it takes effect at once.
UNWATCH(c) ==
    /\ up /\ c \in live
    /\ delete_watched_keys(c)
    /\ UNCHANGED <<live, is_queued, queue, value>>

Register(c, k) ==
    watchers' = [watchers EXCEPT ![hash[k]] = Append(@, c)]

WATCH(c, k) ==
    /\ up /\ c \in live
    /\ ~is_queued[c]
    /\ Len(watchers[hash[k]]) < MaxWatch
    /\ watch_keys' = [watch_keys EXCEPT ![c] = Append(@, k)]
    /\ Register(c, k)
    /\ witnessed' = [witnessed EXCEPT ![c][k] = IF @ = NotWatched THEN value[k] ELSE @]
    /\ UNCHANGED <<up, live, is_queued, is_dirty, queue, value, unannounced>>

-----------------------------------------------------------------------------
Next ==
    \/ \E k \in Keys : Expire(k)
    \/ \E c \in Clients :
        \/ Connect(c) \/ Disconnect(c)
        \/ MULTI(c) \/ ExecAborts(c) \/ ExecRuns(c) \/ DISCARD(c) \/ UNWATCH(c)
        \/ \E req \in Requests : Command(c, req) \/ Queue(c, req)
        \/ \E k \in Keys : WATCH(c, k)

Spec == Init /\ [][Next]_vars

-----------------------------------------------------------------------------
(* Fields of Client, queues and lists have their types, and a client that  *)
(* is not inside MULTI has no commands queued.                             *)
TypeOK ==
    /\ up \in BOOLEAN
    /\ live \subseteq Clients
    /\ is_queued \in [Clients -> BOOLEAN]
    /\ is_dirty \in [Clients -> BOOLEAN]
    /\ queue \in [Clients -> Seq(Requests)]
    /\ watch_keys \in [Clients -> Seq(Keys)]
    /\ watchers \in [Buckets -> Seq(Clients \cup {NULL})]
    /\ value \in [Keys -> Nat]
    /\ witnessed \in [Clients -> [Keys -> Nat \cup {NotWatched}]]
    /\ unannounced \in [Clients -> [Keys -> Nat]]
    /\ \A c \in Clients : ~is_queued[c] => queue[c] = <<>>

(* Optimistic locking, as far as it goes: while a client's is_dirty is     *)
(* clear, a key it has watched has changed since that WATCH only in ways   *)
(* notify_watchers is not called for: values popped at once by a BLPOP     *)
(* (list_handler.c:371-373), an entry taken over or an empty set stored by *)
(* a GEOSEARCH, the passing of its deadline.  An EXEC that runs has missed *)
(* these, and no other change, of any client or of the transaction of the  *)
(* client itself.                                                          *)
NoMissedConflict ==
    \A c \in live : ~is_dirty[c] =>
        \A k \in Keys : witnessed[c][k] # NotWatched =>
            value[k] = witnessed[c][k] + unannounced[c][k]
=============================================================================
