------------------------- MODULE TransactionsProofs -------------------------
(***************************************************************************)
(* Proofs about Transactions, for every set of clients and keys and every  *)
(* hash function.                                                          *)
(***************************************************************************)
EXTENDS Transactions, SequenceTheorems, TLAPS

\* A key watched is recorded in the client and the client in the key's bucket.
Registered ==
    \A c \in live : \A k \in Keys : witnessed[c][k] # NotWatched =>
        c \in Range(watchers[hash[k]])

\* Nothing is counted of a key that is not watched.
Counting ==
    \A c \in Clients, k \in Keys : witnessed[c][k] = NotWatched => unannounced[c][k] = 0

IInv == TypeOK /\ Registered /\ Counting /\ NoMissedConflict

-----------------------------------------------------------------------------
(* Appending adds one element to the range of a sequence.                  *)
LEMMA AppendRange ==
    ASSUME NEW S, NEW s \in Seq(S), NEW x \in S
    PROVE  Range(Append(s, x)) = Range(s) \cup {x}
<1>1. /\ Len(Append(s, x)) = Len(s) + 1
      /\ Append(s, x)[Len(s) + 1] = x
      /\ \A n \in 1 .. Len(s) : Append(s, x)[n] = s[n]
      /\ Len(s) \in Nat
      /\ DOMAIN s = 1 .. Len(s) /\ DOMAIN Append(s, x) = 1 .. Len(s) + 1
  OBVIOUS
<1>2. 1 .. Len(s) + 1 = (1 .. Len(s)) \cup {Len(s) + 1}
  BY <1>1
<1> QED BY <1>1, <1>2 DEF Range

(* A function on 1 .. Len(s) is a sequence of that length.                 *)
LEMMA SameLength ==
    ASSUME NEW S, NEW T, NEW s \in Seq(S), NEW f \in [1 .. Len(s) -> T]
    PROVE  f \in Seq(T) /\ Len(f) = Len(s)
  BY SeqDef, LenProperties

(* Setting is_queued and the queue of one client keeps them well typed,    *)
(* and the queue empty outside MULTI.                                      *)
QueueOK ==
    /\ queue \in [Clients -> Seq(Requests)]
    /\ is_queued \in [Clients -> BOOLEAN]
    /\ \A d \in Clients : ~is_queued[d] => queue[d] = <<>>

LEMMA SetQueue ==
    ASSUME QueueOK, NEW c \in Clients, NEW b \in BOOLEAN, NEW q \in Seq(Requests),
           b \/ q = <<>>,
           is_queued' = [is_queued EXCEPT ![c] = b],
           queue' = [queue EXCEPT ![c] = q]
    PROVE  QueueOK'
<1>1. queue' \in [Clients -> Seq(Requests)]
  BY DEF QueueOK
<1>2. is_queued' \in [Clients -> BOOLEAN]
  BY DEF QueueOK
<1>3. /\ is_queued'[c] = b /\ queue'[c] = q
      /\ \A d \in Clients : d # c => is_queued'[d] = is_queued[d] /\ queue'[d] = queue[d]
  BY DEF QueueOK
<1>4. \A d \in Clients : ~is_queued'[d] => queue'[d] = <<>>
  BY <1>3, Zenon DEF QueueOK
<1> QED BY <1>1, <1>2, <1>4 DEF QueueOK

(* The end of a MULTI.                                                     *)
LEMMA ResetQueueOK ==
    ASSUME QueueOK, NEW c \in Clients, ResetQueue(c)
    PROVE  QueueOK'
<1>1. <<>> \in Seq(Requests) /\ FALSE \in BOOLEAN
  OBVIOUS
<1> QED BY <1>1, SetQueue DEF ResetQueue

-----------------------------------------------------------------------------
(* The server starts with no client and no registration.                   *)
LEMMA InitIInv == Init => IInv
  BY DEF Init, IInv, TypeOK, Registered, Counting, NoMissedConflict

(* Connecting zeroes the object, disconnecting only forgets it.            *)
LEMMA ConnectIInv ==
    ASSUME IInv, NEW c \in Clients, Connect(c) \/ Disconnect(c)
    PROVE  IInv'
<1>1. /\ live' \subseteq live \cup {c} /\ Zeroed(c)
      /\ UNCHANGED <<up, watchers, value>>
  BY DEF Connect, Disconnect
<1>2. TypeOK'
  BY <1>1 DEF IInv, TypeOK, Zeroed, EndWatch
<1>3. /\ \A k \in Keys : witnessed'[c][k] = NotWatched /\ unannounced'[c][k] = 0
      /\ \A d \in Clients : d # c => /\ witnessed'[d] = witnessed[d]
                                    /\ unannounced'[d] = unannounced[d]
                                    /\ is_dirty'[d] = is_dirty[d]
  BY <1>1 DEF Zeroed, EndWatch, IInv, TypeOK
<1>4. \A d \in live' : d \in Clients /\ (d # c => d \in live)
  BY <1>1 DEF IInv, TypeOK
<1>5. Registered'
  BY <1>1, <1>3, <1>4 DEF IInv, Registered
<1>6. NoMissedConflict'
  BY <1>1, <1>3, <1>4 DEF IInv, NoMissedConflict
<1>7. Counting'
  BY <1>3 DEF IInv, Counting
<1> QED BY <1>2, <1>5, <1>6, <1>7 DEF IInv

(* Executing commands marks every client registered in the bucket of a key *)
(* that was announced, so a client that stays clean watches none of those, *)
(* and the others it watches are counted.                                  *)
LEMMA ExecuteKeeps ==
    ASSUME IInv, NEW reqs \in Seq(Requests), NEW changed, Execute(reqs, changed),
           UNCHANGED <<live, watchers, witnessed>>
    PROVE  /\ value' \in [Keys -> Nat]
           /\ is_dirty' \in [Clients -> BOOLEAN]
           /\ unannounced' \in [Clients -> [Keys -> Nat]]
           /\ Registered'
           /\ Counting'
           /\ NoMissedConflict'
<1> DEFINE all == UNION {changed[i] : i \in DOMAIN reqs}
           loud == {i \in DOMAIN reqs : Notifies(reqs[i])}
           told == UNION {changed[i] : i \in loud}
           heard == notify_watchers({reqs[i].key : i \in loud})
<1>1. /\ \A i \in DOMAIN reqs : changed[i] \in Changes(reqs[i])
      /\ value' = [k \in Keys |-> IF k \in all THEN value[k] + 1 ELSE value[k]]
      /\ is_dirty' = [c \in Clients |-> is_dirty[c] \/ c \in heard]
      /\ unannounced' = [c \in Clients |-> [k \in Keys |->
            IF k \in all \ told /\ witnessed[c][k] # NotWatched
            THEN unannounced[c][k] + 1 ELSE unannounced[c][k]]]
  BY DEF Execute
<1>2. ASSUME NEW k \in told, NEW d \in Clients, d \notin heard, k \in Keys
      PROVE  d \notin Range(watchers[hash[k]])
  <2>1. PICK i \in loud : k \in changed[i]
    OBVIOUS
  <2>2. reqs[i] \in Requests
    BY <2>1
  <2>3. changed[i] \in Changes(reqs[i])
    BY <1>1, <2>1
  <2>4. hash[k] = hash[reqs[i].key]
    BY <2>1, <2>2, <2>3 DEF Changes
  <2> QED BY <1>2, <2>1, <2>4 DEF notify_watchers
<1> HIDE DEF all, told, heard
<1>3. /\ value' \in [Keys -> Nat] /\ is_dirty' \in [Clients -> BOOLEAN]
  BY <1>1 DEF IInv, TypeOK
<1>4. unannounced' \in [Clients -> [Keys -> Nat]]
  <2>1. \A d \in Clients, k \in Keys : unannounced[d][k] \in Nat /\ unannounced[d][k] + 1 \in Nat
    BY DEF IInv, TypeOK
  <2> QED BY <1>1, <2>1
<1>5. Registered'
  BY DEF IInv, Registered, TypeOK
<1>6. NoMissedConflict'
  <2> SUFFICES ASSUME NEW d \in live', ~is_dirty'[d], NEW k \in Keys,
                      witnessed'[d][k] # NotWatched
               PROVE  value'[k] = witnessed'[d][k] + unannounced'[d][k]
    BY DEF NoMissedConflict
  <2>1. d \in Clients /\ d \in live
    BY DEF IInv, TypeOK
  <2>2. ~is_dirty[d] /\ d \notin heard
    BY <1>1, <2>1
  <2>3. d \in Range(watchers[hash[k]]) /\ value[k] = witnessed[d][k] + unannounced[d][k]
    BY <2>1, <2>2 DEF IInv, Registered, NoMissedConflict
  <2>4. k \notin told
    BY <1>2, <2>1, <2>2, <2>3
  <2>5. /\ value'[k] = IF k \in all THEN value[k] + 1 ELSE value[k]
        /\ unannounced'[d][k] = IF k \in all THEN unannounced[d][k] + 1 ELSE unannounced[d][k]
    BY <1>1, <2>1, <2>4
  <2>6. /\ witnessed[d][k] \in Nat /\ unannounced[d][k] \in Nat /\ value[k] \in Nat
        /\ witnessed'[d][k] = witnessed[d][k]
    BY <2>1 DEF IInv, TypeOK
  <2>7. CASE k \in all
    BY <2>3, <2>5, <2>6, <2>7
  <2>8. CASE k \notin all
    BY <2>3, <2>5, <2>6, <2>8
  <2> QED BY <2>7, <2>8
<1>7. Counting'
  BY <1>1 DEF IInv, Counting
<1> QED BY <1>3, <1>4, <1>5, <1>6, <1>7

(* A command outside MULTI.                                                *)
LEMMA CommandIInv ==
    ASSUME IInv, NEW c \in Clients, NEW req \in Requests, Command(c, req)
    PROVE  IInv'
<1>1. PICK ks \in SUBSET Keys : Execute(<<req>>, <<ks>>)
  BY DEF Command
<1>2. UNCHANGED <<up, live, is_queued, queue, watch_keys, watchers, witnessed>>
  BY DEF Command
<1>3. <<req>> \in Seq(Requests)
  OBVIOUS
<1>4. /\ value' \in [Keys -> Nat] /\ is_dirty' \in [Clients -> BOOLEAN]
      /\ unannounced' \in [Clients -> [Keys -> Nat]]
      /\ Registered' /\ Counting' /\ NoMissedConflict'
  BY <1>1, <1>2, <1>3, ExecuteKeeps
<1> QED BY <1>2, <1>4 DEF IInv, TypeOK

(* The deadline of a key: nobody is told, and it is counted.               *)
LEMMA ExpireIInv ==
    ASSUME IInv, NEW k \in Keys, Expire(k)
    PROVE  IInv'
<1>1. /\ value' = [value EXCEPT ![k] = @ + 1]
      /\ unannounced' = [c \in Clients |->
            IF witnessed[c][k] # NotWatched
            THEN [unannounced[c] EXCEPT ![k] = @ + 1] ELSE unannounced[c]]
      /\ UNCHANGED <<up, live, is_queued, is_dirty, queue, watch_keys, watchers, witnessed>>
  BY DEF Expire
<1>2. value' \in [Keys -> Nat]
  BY <1>1 DEF IInv, TypeOK
<1>3. ASSUME NEW d \in Clients PROVE unannounced'[d] \in [Keys -> Nat]
  <2>1. unannounced[d] \in [Keys -> Nat]
    BY DEF IInv, TypeOK
  <2> QED BY <1>1, <2>1
<1>4. TypeOK'
  <2>1. unannounced' = [d \in Clients |-> unannounced'[d]]
    BY <1>1
  <2>2. unannounced' \in [Clients -> [Keys -> Nat]]
    BY <1>3, <2>1
  <2> QED BY <1>1, <1>2, <2>2 DEF IInv, TypeOK
<1>5. Registered'
  BY <1>1 DEF IInv, Registered
<1>6. NoMissedConflict'
  <2> SUFFICES ASSUME NEW d \in live, ~is_dirty[d], NEW j \in Keys, witnessed[d][j] # NotWatched
               PROVE  value'[j] = witnessed[d][j] + unannounced'[d][j]
    BY <1>1 DEF NoMissedConflict
  <2>1. /\ d \in Clients /\ witnessed[d][j] \in Nat /\ unannounced[d] \in [Keys -> Nat]
        /\ value[j] \in Nat /\ value[j] = witnessed[d][j] + unannounced[d][j]
        /\ value \in [Keys -> Nat]
    BY DEF IInv, TypeOK, NoMissedConflict
  <2>2. CASE j = k
    BY <1>1, <2>1, <2>2
  <2>3. CASE j # k
    BY <1>1, <2>1, <2>3
  <2> QED BY <2>2, <2>3
<1>7. Counting'
  <2> SUFFICES ASSUME NEW d \in Clients, NEW j \in Keys, witnessed[d][j] = NotWatched
               PROVE  unannounced'[d][j] = 0
    BY <1>1 DEF Counting
  <2>1. unannounced[d][j] = 0 /\ unannounced[d] \in [Keys -> Nat]
    BY DEF IInv, TypeOK, Counting
  <2>2. CASE j = k
    BY <1>1, <2>1, <2>2
  <2>3. CASE j # k
    BY <1>1, <2>1, <2>3
  <2> QED BY <2>2, <2>3
<1> QED BY <1>4, <1>5, <1>6, <1>7 DEF IInv

(* EXEC of a clean client.                                                 *)
LEMMA ExecRunsIInv ==
    ASSUME IInv, NEW c \in Clients, ExecRuns(c)
    PROVE  IInv'
<1>1. PICK changed \in [DOMAIN queue[c] -> SUBSET Keys] : Execute(queue[c], changed)
  BY DEF ExecRuns
<1>2. ResetQueue(c) /\ UNCHANGED <<up, live, watch_keys, watchers, witnessed>>
  BY DEF ExecRuns
<1>3. queue[c] \in Seq(Requests)
  BY DEF IInv, TypeOK
<1>4. /\ value' \in [Keys -> Nat] /\ is_dirty' \in [Clients -> BOOLEAN]
      /\ unannounced' \in [Clients -> [Keys -> Nat]]
      /\ Registered' /\ Counting' /\ NoMissedConflict'
  BY <1>1, <1>2, <1>3, ExecuteKeeps
<1>5. QueueOK'
  BY <1>2, ResetQueueOK DEF QueueOK, IInv, TypeOK
<1>6. TypeOK'
  BY <1>2, <1>4, <1>5 DEF QueueOK, IInv, TypeOK
<1> QED BY <1>4, <1>6 DEF IInv

(* MULTI and the queuing of a command touch no watch.                      *)
LEMMA QueueIInv ==
    ASSUME IInv, NEW c \in Clients, NEW req \in Requests, MULTI(c) \/ Queue(c, req)
    PROVE  IInv'
<1>1. UNCHANGED <<up, live, is_dirty, watch_keys, watchers, value, witnessed, unannounced>>
  BY DEF MULTI, Queue
<1>2. QueueOK
  BY DEF QueueOK, IInv, TypeOK
<1>3. ASSUME MULTI(c) PROVE QueueOK'
  <2>1. <<>> \in Seq(Requests) /\ TRUE \in BOOLEAN
    OBVIOUS
  <2> QED BY <1>2, <1>3, <2>1, SetQueue DEF MULTI
<1>4. ASSUME Queue(c, req) PROVE QueueOK'
  <2>1. is_queued' = [is_queued EXCEPT ![c] = TRUE]
    BY <1>2, <1>4 DEF Queue, QueueOK
  <2>2. Append(queue[c], req) \in Seq(Requests) /\ TRUE \in BOOLEAN
    BY <1>2 DEF QueueOK
  <2>3. queue' = [queue EXCEPT ![c] = Append(queue[c], req)]
    BY <1>4 DEF Queue
  <2> QED BY <1>2, <2>1, <2>2, <2>3, SetQueue
<1>5. QueueOK'
  BY <1>3, <1>4
<1>6. TypeOK'
  BY <1>1, <1>5 DEF QueueOK, IInv, TypeOK
<1> QED BY <1>1, <1>6 DEF IInv, Registered, Counting, NoMissedConflict

(* Deleting the watches of a client: the registrations of the others stay, *)
(* and clearing is_dirty is right because nothing is watched any more.     *)
LEMMA DeleteKeeps ==
    ASSUME IInv, NEW c \in Clients, delete_watched_keys(c), UNCHANGED <<live, value>>
    PROVE  /\ up' \in BOOLEAN
           /\ is_dirty' \in [Clients -> BOOLEAN]
           /\ watch_keys' \in [Clients -> Seq(Keys)]
           /\ watchers' \in [Buckets -> Seq(Clients \cup {NULL})]
           /\ witnessed' \in [Clients -> [Keys -> Nat \cup {NotWatched}]]
           /\ unannounced' \in [Clients -> [Keys -> Nat]]
           /\ Registered'
           /\ Counting'
           /\ NoMissedConflict'
<1> USE TransactionsAssumption DEF IInv, TypeOK
<1>1. CASE DoubleFree(c)
  <2>1. UNCHANGED <<watchers, watch_keys, is_dirty, witnessed, unannounced>> /\ up' = FALSE
    BY <1>1 DEF delete_watched_keys
  <2> QED BY <2>1 DEF Registered, Counting, NoMissedConflict
<1>2. CASE ~DoubleFree(c)
  <2>1. RemoveRegistrations(c) /\ EndWatch(c) /\ up' = up
    BY <1>2 DEF delete_watched_keys
  <2>2. /\ is_dirty' \in [Clients -> BOOLEAN] /\ watch_keys' \in [Clients -> Seq(Keys)]
        /\ \A d \in Clients : d # c => is_dirty'[d] = is_dirty[d]
    BY <2>1 DEF RemoveRegistrations
  <2>3. /\ witnessed' \in [Clients -> [Keys -> Nat \cup {NotWatched}]]
        /\ \A k \in Keys : witnessed'[c][k] = NotWatched /\ unannounced'[c][k] = 0
        /\ unannounced' \in [Clients -> [Keys -> Nat]]
        /\ \A d \in Clients : d # c => /\ witnessed'[d] = witnessed[d]
                                      /\ unannounced'[d] = unannounced[d]
    BY <2>1 DEF EndWatch
  <2>4. ASSUME NEW b \in Buckets
        PROVE  /\ watchers'[b] \in Seq(Clients \cup {NULL})
               /\ Len(watchers'[b]) = Len(watchers[b])
               /\ \A n \in 1 .. Len(watchers[b]) :
                      watchers[b][n] # c => watchers'[b][n] = watchers[b][n]
    <3> DEFINE f == [n \in 1 .. Len(watchers[b]) |->
                        IF watchers[b][n] = c THEN NULL ELSE watchers[b][n]]
    <3>1. f \in [1 .. Len(watchers[b]) -> Clients \cup {NULL}]
      OBVIOUS
    <3>2. f \in Seq(Clients \cup {NULL}) /\ Len(f) = Len(watchers[b])
      BY <3>1, SameLength
    <3>3. watchers'[b] = f \/ watchers'[b] = watchers[b]
      BY <2>1 DEF RemoveRegistrations
    <3> QED BY <3>2, <3>3
  <2>5. watchers' \in [Buckets -> Seq(Clients \cup {NULL})]
    <3>1. DOMAIN watchers' = Buckets /\ watchers' = [b \in Buckets |-> watchers'[b]]
      BY <2>1 DEF RemoveRegistrations
    <3> QED BY <2>4, <3>1
  <2>6. Registered'
    <3> SUFFICES ASSUME NEW d \in live', NEW k \in Keys, witnessed'[d][k] # NotWatched
                 PROVE  d \in Range(watchers'[hash[k]])
      BY DEF Registered
    <3>1. d \in Clients /\ d # c /\ d \in live
      BY <2>3
    <3>2. d \in Range(watchers[hash[k]])
      BY <2>3, <3>1 DEF Registered
    <3>3. PICK n \in 1 .. Len(watchers[hash[k]]) : watchers[hash[k]][n] = d
      BY <3>2 DEF Range
    <3>4. hash[k] \in Buckets
      OBVIOUS
    <3>5. /\ watchers'[hash[k]] \in Seq(Clients \cup {NULL})
          /\ Len(watchers'[hash[k]]) = Len(watchers[hash[k]])
          /\ watchers'[hash[k]][n] = d
      BY <2>4, <3>1, <3>3, <3>4
    <3>6. n \in DOMAIN watchers'[hash[k]]
      BY <3>3, <3>5
    <3> QED BY <3>5, <3>6 DEF Range
  <2>7. NoMissedConflict'
    <3> SUFFICES ASSUME NEW d \in live', ~is_dirty'[d], NEW k \in Keys,
                        witnessed'[d][k] # NotWatched
                 PROVE  value'[k] = witnessed'[d][k] + unannounced'[d][k]
      BY DEF NoMissedConflict
    <3>1. CASE d = c
      BY <2>3, <3>1
    <3>2. CASE d # c
      <4>1. d \in live /\ d \in Clients /\ value' = value
        OBVIOUS
      <4>2. ~is_dirty[d] /\ witnessed'[d] = witnessed[d] /\ unannounced'[d] = unannounced[d]
        BY <2>2, <2>3, <3>2, <4>1
      <4> QED BY <4>1, <4>2 DEF NoMissedConflict
    <3> QED BY <3>1, <3>2
  <2>8. Counting'
    <3> SUFFICES ASSUME NEW d \in Clients, NEW k \in Keys, witnessed'[d][k] = NotWatched
                 PROVE  unannounced'[d][k] = 0
      BY DEF Counting
    <3>1. CASE d = c
      BY <2>3, <3>1
    <3>2. CASE d # c
      BY <2>3, <3>2 DEF Counting
    <3> QED BY <3>1, <3>2
  <2> QED BY <2>1, <2>2, <2>3, <2>5, <2>6, <2>7, <2>8
<1> QED BY <1>1, <1>2

(* EXEC of a dirty client, DISCARD and UNWATCH.                            *)
LEMMA DropIInv ==
    ASSUME IInv, NEW c \in Clients, ExecAborts(c) \/ DISCARD(c) \/ UNWATCH(c)
    PROVE  IInv'
<1>1. /\ delete_watched_keys(c) /\ UNCHANGED <<live, value>>
      /\ ResetQueue(c) \/ UNCHANGED <<is_queued, queue>>
  BY DEF ExecAborts, DISCARD, UNWATCH
<1>2. QueueOK'
  BY <1>1, ResetQueueOK DEF QueueOK, IInv, TypeOK
<1>3. /\ up' \in BOOLEAN
      /\ is_dirty' \in [Clients -> BOOLEAN]
      /\ watch_keys' \in [Clients -> Seq(Keys)]
      /\ watchers' \in [Buckets -> Seq(Clients \cup {NULL})]
      /\ witnessed' \in [Clients -> [Keys -> Nat \cup {NotWatched}]]
      /\ unannounced' \in [Clients -> [Keys -> Nat]]
      /\ Registered' /\ Counting' /\ NoMissedConflict'
  BY <1>1, DeleteKeeps
<1>4. TypeOK'
  BY <1>1, <1>2, <1>3 DEF QueueOK, IInv, TypeOK
<1> QED BY <1>3, <1>4 DEF IInv

(* WATCH registers the client before any write can be missed.              *)
LEMMA WatchIInv ==
    ASSUME IInv, NEW c \in Clients, NEW k \in Keys, WATCH(c, k)
    PROVE  IInv'
<1> USE TransactionsAssumption DEF IInv, TypeOK
<1>1. /\ watch_keys' = [watch_keys EXCEPT ![c] = Append(@, k)]
      /\ watchers' = [watchers EXCEPT ![hash[k]] = Append(@, c)]
      /\ witnessed' = [witnessed EXCEPT ![c][k] = IF @ = NotWatched THEN value[k] ELSE @]
      /\ UNCHANGED <<up, live, is_queued, is_dirty, queue, value, unannounced>>
  BY DEF WATCH, Register
<1>2. TypeOK'
  <2>1. watch_keys' \in [Clients -> Seq(Keys)]
    BY <1>1
  <2>2. watchers' \in [Buckets -> Seq(Clients \cup {NULL})]
    BY <1>1
  <2>3. witnessed' = [witnessed EXCEPT ![c] = [witnessed[c] EXCEPT ![k] =
            IF witnessed[c][k] = NotWatched THEN value[k] ELSE witnessed[c][k]]]
    BY <1>1
  <2>4. [witnessed[c] EXCEPT ![k] =
            IF witnessed[c][k] = NotWatched THEN value[k] ELSE witnessed[c][k]]
        \in [Keys -> Nat \cup {NotWatched}]
    OBVIOUS
  <2>5. witnessed' \in [Clients -> [Keys -> Nat \cup {NotWatched}]]
    BY <2>3, <2>4
  <2> QED BY <1>1, <2>1, <2>2, <2>5
<1>3. hash[k] \in Buckets /\ watchers[hash[k]] \in Seq(Clients \cup {NULL})
  OBVIOUS
<1>4. Range(watchers'[hash[k]]) = Range(watchers[hash[k]]) \cup {c}
  <2>1. watchers'[hash[k]] = Append(watchers[hash[k]], c)
    BY <1>1, <1>3
  <2>2. c \in Clients \cup {NULL}
    OBVIOUS
  <2>3. Range(Append(watchers[hash[k]], c)) = Range(watchers[hash[k]]) \cup {c}
    BY ONLY <1>3, <2>2, AppendRange
  <2> QED BY ONLY <2>1, <2>3
<1>5. \A b \in Buckets : Range(watchers[b]) \subseteq Range(watchers'[b])
  BY <1>1, <1>4
<1>6. \A d \in Clients, j \in Keys :
        \/ witnessed'[d][j] = witnessed[d][j]
        \/ d = c /\ j = k /\ witnessed'[d][j] = value[k]
  BY <1>1
<1>7. Registered'
  <2> SUFFICES ASSUME NEW d \in live', NEW j \in Keys, witnessed'[d][j] # NotWatched
               PROVE  d \in Range(watchers'[hash[j]])
    BY DEF Registered
  <2>1. d \in live /\ d \in Clients /\ hash[j] \in Buckets
    BY <1>1
  <2>2. CASE d = c /\ j = k
    BY <2>2, <1>4
  <2>3. CASE ~(d = c /\ j = k)
    BY <2>1, <2>3, <1>5, <1>6 DEF Registered
  <2> QED BY <2>2, <2>3
<1>8. NoMissedConflict'
  <2> SUFFICES ASSUME NEW d \in live, ~is_dirty[d], NEW j \in Keys, witnessed'[d][j] # NotWatched
               PROVE  value[j] = witnessed'[d][j] + unannounced[d][j]
    BY <1>1 DEF NoMissedConflict
  <2>1. CASE witnessed[d][j] # NotWatched
    <3>1. witnessed'[d][j] = witnessed[d][j]
      BY <1>1, <2>1
    <3> QED BY <2>1, <3>1 DEF NoMissedConflict
  <2>2. CASE witnessed[d][j] = NotWatched
    <3>1. d \in Clients /\ unannounced[d][j] = 0 /\ value[j] \in Nat
      BY <2>2 DEF Counting
    <3>2. witnessed'[d][j] = value[j]
      BY <1>6, <2>2, <3>1
    <3> QED BY <3>1, <3>2
  <2> QED BY <2>1, <2>2
<1>9. Counting'
  BY <1>1, <1>6 DEF Counting
<1> QED BY <1>2, <1>7, <1>8, <1>9

(* The invariant is inductive.                                             *)
LEMMA NextIInv == IInv /\ [Next]_vars => IInv'
<1>1. ASSUME IInv, NEW c \in Clients, MULTI(c) PROVE IInv'
  <2>1. UNCHANGED <<up, live, is_dirty, watch_keys, watchers, value, witnessed, unannounced>>
    BY <1>1 DEF MULTI
  <2>2. TypeOK'
    BY <1>1, <2>1 DEF MULTI, IInv, TypeOK
  <2> QED BY <1>1, <2>1, <2>2 DEF IInv, Registered, Counting, NoMissedConflict
<1>2. IInv /\ UNCHANGED vars => IInv'
  BY DEF IInv, vars, TypeOK, Registered, Counting, NoMissedConflict
<1> QED BY <1>1, <1>2, ConnectIInv, CommandIInv, ExpireIInv, ExecRunsIInv, QueueIInv, DropIInv,
           WatchIInv DEF Next

(* The inductive invariant holds in every reachable state.                 *)
LEMMA SpecIInv == Spec => []IInv
  BY InitIInv, NextIInv, PTL DEF Spec

(* Type correctness; a client outside MULTI never keeps queued commands.   *)
THEOREM TypeCorrect == Spec => []TypeOK
<1>1. IInv => TypeOK
  BY DEF IInv
<1> QED BY <1>1, SpecIInv, PTL

(* An EXEC that runs finds every watched key as WATCH saw it but for the   *)
(* changes notify_watchers is not called for: a pop by BLPOP, a GEOSEARCH  *)
(* of a missing key, expiry.  It holds whatever the hash function, the     *)
(* reuse of Client objects and the registrations left behind.              *)
THEOREM WatchIsSound == Spec => []NoMissedConflict
<1>1. IInv => NoMissedConflict
  BY DEF IInv
<1> QED BY <1>1, SpecIInv, PTL
=============================================================================
