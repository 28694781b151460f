------------------------------- MODULE Lists -------------------------------
(***************************************************************************)
(* The list commands (list_handler.c) and the blocking pop: what RPUSH,    *)
(* LPUSH, LPOP and BLPOP do to the lists and to the clients that wait, and *)
(* the sweep of main.c that ends the waits whose time is up.               *)
(*                                                                         *)
(* The server is single-threaded: one client at a time has its receive     *)
(* buffer processed, all the commands of the buffer in a row.  A client    *)
(* that BLPOP blocks still has the rest of its buffer executed; only the   *)
(* next recv() is held back.  The sweep runs between buffers.              *)
(*                                                                         *)
(* List values are abstracted to the order in which they were pushed: each *)
(* pushed value has its own number.  A client is named independently of    *)
(* its slot, so the order in which RPUSH scans the waiting clients is a    *)
(* free choice.  The keys hash to different buckets.                       *)
(***************************************************************************)
EXTENDS Integers, Sequences, FiniteSets, Functions

CONSTANTS
    Clients,      \* connected clients
    Keys,         \* list keys
    Timeouts,     \* BLPOP timeouts in ms, 0 meaning for ever
    MaxTime,      \* bound: the clock
    MaxPush,      \* bound: values pushed
    MaxBatch,     \* bound: values of one push, count of one pop
    NULL, NoClient

ASSUME ListsAssumption ==
    /\ Timeouts \subseteq Nat
    /\ MaxTime \in Nat /\ MaxPush \in Nat /\ MaxBatch \in Nat
    /\ NULL \notin Keys
    /\ NoClient \notin Clients

VARIABLES
    now,              \* get_current_time_ms()
    lists,            \* values of the list at each key
    is_blocked, is_blpop, timeout_at, blocked_at, waiting_for_key,  \* of Client
    turn,             \* whose buffer is being processed, or NoClient
    pushed,           \* history: values pushed so far
    front,            \* history: those that an LPUSH pushed
    taken,            \* history: values a reply has taken out of a list
    passed            \* history: waiting clients that a push could not serve

client == <<is_blocked, is_blpop, timeout_at, blocked_at, waiting_for_key>>
vars == <<now, lists, is_blocked, is_blpop, timeout_at, blocked_at,
          waiting_for_key, turn, pushed, front, taken, passed>>

Values == 1 .. pushed

Init ==
    /\ now = 1
    /\ lists = [k \in Keys |-> <<>>]
    /\ is_blocked = [c \in Clients |-> FALSE]
    /\ is_blpop = [c \in Clients |-> FALSE]
    /\ timeout_at = [c \in Clients |-> 0]
    /\ blocked_at = [c \in Clients |-> 0]
    /\ waiting_for_key = [c \in Clients |-> NULL]
    /\ turn = NoClient
    /\ pushed = 0
    /\ front = {}
    /\ taken = {}
    /\ passed = {}

-----------------------------------------------------------------------------
Tick ==
    /\ now < MaxTime
    /\ now' = now + 1
    /\ UNCHANGED <<lists, client, turn, pushed, front, taken, passed>>

\* c executes a command: the first of a buffer, which is received only when
\* the client is not blocked, or one more of the buffer under way.
Turn(c) ==
    /\ turn = c \/ (turn = NoClient /\ ~is_blocked[c])
    /\ turn' = c

\* A command that reads the clock at most once: its time passes in Tick.
Step(c) == Turn(c) /\ UNCHANGED now

EndBuffer ==
    /\ turn # NoClient
    /\ turn' = NoClient
    /\ UNCHANGED <<now, lists, client, pushed, front, taken, passed>>

-----------------------------------------------------------------------------
(* RPUSH: append, then hand the head to the client that has waited longest.*)
(* The scan of the clients reads the clock anew for each one that waits:   *)
(* read[c] is what it was for c, in the order of the slots.                *)

Waiters(k) ==
    {c \in Clients : is_blpop[c] /\ is_blocked[c] /\ waiting_for_key[c] = k}

Waited(c, read) == read[c] - blocked_at[c]

\* The strict comparison keeps c when d, in a later slot, has waited as long.
Precedes(c, d, read) ==
    \/ Waited(d, read) < Waited(c, read)
    \/ Waited(d, read) = Waited(c, read) /\ read[c] <= read[d]

\* Mutant: a client is served from its second millisecond of waiting on.
LongestLate(k, read) ==
    {c \in Waiters(k) : Waited(c, read) > 1 /\ \A d \in Waiters(k) : Precedes(c, d, read)}

\* Mutant: the comparison picks the client that has waited least.
Shortest(k, read) ==
    {c \in Waiters(k) :
        /\ Waited(c, read) > 0
        /\ \A d \in Waiters(k) : Waited(d, read) > 0 => Precedes(d, c, read)}

Longest(k, read) ==
    {c \in Waiters(k) : Waited(c, read) > 0 /\ \A d \in Waiters(k) : Precedes(c, d, read)}

\* Mutant: the key of a served client is not reset.
ReleaseKeepsKey(c) ==
    /\ is_blocked' = [is_blocked EXCEPT ![c] = FALSE]
    /\ is_blpop' = [is_blpop EXCEPT ![c] = FALSE]
    /\ UNCHANGED <<timeout_at, blocked_at, waiting_for_key>>

Release(c) ==
    /\ is_blocked' = [is_blocked EXCEPT ![c] = FALSE]
    /\ is_blpop' = [is_blpop EXCEPT ![c] = FALSE]
    /\ waiting_for_key' = [waiting_for_key EXCEPT ![c] = NULL]
    /\ UNCHANGED <<timeout_at, blocked_at>>

\* Mutant: the value handed over stays in the list.
HandOverOnly(k, l) ==
    /\ lists' = [lists EXCEPT ![k] = l]
    /\ taken' = taken \cup {Head(l)}

\* The head of l is sent and the list at k shifted left over it.
HandOver(k, l) ==
    /\ lists' = [lists EXCEPT ![k] = Tail(l)]
    /\ taken' = taken \cup {Head(l)}

\* The head of a list l at k goes to one client.  Left waiting for a reason:
\* those blocked in this very millisecond, everybody when there is more.
PassedOver(k, l) ==
    {c \in Waiters(k) : blocked_at[c] = now \/ Len(l) > 1}

RPUSH(c, k, n) ==
    LET l == lists[k] \o [j \in 1 .. n |-> pushed + j]
    IN  \E end \in now .. MaxTime : \E read \in [Waiters(k) -> now .. end] :
        /\ Turn(c)
        /\ now' = end
        /\ pushed + n <= MaxPush
        /\ pushed' = pushed + n
        /\ UNCHANGED front
        /\ IF Longest(k, read) = {}
           THEN /\ lists' = [lists EXCEPT ![k] = l]
                /\ passed' = passed \cup PassedOver(k, l)
                /\ UNCHANGED <<client, taken>>
           ELSE \E w \in Longest(k, read) :
                /\ HandOver(k, l) /\ Release(w)
                /\ passed' = (passed \cup PassedOver(k, l)) \ {w}

\* LPUSH prepends, last argument first, and serves nobody.
LPUSH(c, k, n) ==
    /\ Step(c)
    /\ pushed + n <= MaxPush
    /\ pushed' = pushed + n
    /\ front' = front \cup (pushed + 1 .. pushed + n)
    /\ lists' = [lists EXCEPT ![k] = [j \in 1 .. n |-> pushed + n + 1 - j] \o @]
    /\ passed' = passed \cup Waiters(k)
    /\ UNCHANGED <<client, taken>>

\* LPOP key [count]; a count of 0 and an empty list change nothing.
LPOP(c, k, count) ==
    LET l == lists[k]
        n == IF count > Len(l) THEN Len(l) ELSE count
    IN  /\ Step(c)
        /\ lists' = [lists EXCEPT ![k] = SubSeq(l, n + 1, Len(l))]
        /\ taken' = taken \cup {l[j] : j \in 1 .. n}
        /\ UNCHANGED <<client, pushed, front, passed>>

-----------------------------------------------------------------------------
(* LRANGE only answers.                                                    *)

\* Mutant: a clipped range leaves the last value out.
ClipShort(end, size) == IF end >= size THEN size - 2 ELSE end

\* The last index of a range that is more than one value.
Clip(end, size) == IF end >= size THEN size - 1 ELSE end

\* The values handle_lrange answers for the indices start and end.  An index
\* out of the list on either side, the end too, makes the range start at 0.
LRANGE(l, start, end) ==
    LET size == Len(l)
        abs(i) == IF i < 0 THEN -i ELSE i
        from == IF abs(start) > size \/ abs(end) > size THEN 0
                ELSE IF start < 0 THEN size - abs(start) ELSE start
        to == IF end < 0 THEN size - abs(end) ELSE end
    IN  IF from >= size \/ from > to THEN <<>>
        ELSE [i \in 1 .. Clip(to, size) - from + 1 |-> l[from + i]]

\* RPOP is dispatched to nothing; LRANGE, LLEN and malformed commands only reply.
RPOP(c) ==
    /\ Step(c)
    /\ UNCHANGED <<lists, client, pushed, front, taken, passed>>

-----------------------------------------------------------------------------
BLPOP(c, k, t) ==
    /\ Step(c)
    /\ UNCHANGED <<pushed, front>>
    /\ \/ /\ lists[k] # <<>>
          /\ HandOver(k, lists[k])
          /\ UNCHANGED <<client, passed>>
       \/ /\ lists[k] = <<>>
          /\ now + t <= MaxTime
          /\ timeout_at' = [timeout_at EXCEPT ![c] = IF t = 0 THEN 0 ELSE now + t]
          /\ is_blpop' = [is_blpop EXCEPT ![c] = TRUE]
          /\ is_blocked' = [is_blocked EXCEPT ![c] = TRUE]
          /\ blocked_at' = [blocked_at EXCEPT ![c] = now]
          /\ waiting_for_key' = [waiting_for_key EXCEPT ![c] = k]
          /\ passed' = passed \ {c}
          /\ UNCHANGED <<lists, taken>>

\* Mutant: the time-out test is strict in the wrong way and never true.
NeverExpired(c) ==
    is_blpop[c] /\ timeout_at[c] # 0 /\ timeout_at[c] > MaxTime

\* handle_endblpop's test.
Expired(c) ==
    is_blpop[c] /\ timeout_at[c] # 0 /\ now >= timeout_at[c]

\* handle_endblpop for every client: reply with the head of the list if there
\* is one (which stays in the list), otherwise with nil, and end the wait.
Sweep ==
    LET E == {c \in Clients : Expired(c)}
    IN  /\ turn = NoClient
        /\ E # {}
        /\ passed' = passed \ E
        /\ is_blocked' = [c \in Clients |-> is_blocked[c] /\ c \notin E]
        /\ is_blpop' = [c \in Clients |-> is_blpop[c] /\ c \notin E]
        /\ waiting_for_key' = [c \in Clients |-> IF c \in E THEN NULL ELSE waiting_for_key[c]]
        /\ UNCHANGED <<now, lists, timeout_at, blocked_at, turn, pushed, front, taken>>

\* The peer of an unblocked client goes away; a new client takes its name.
Reconnect(c) ==
    /\ turn = NoClient
    /\ ~is_blocked[c]
    /\ timeout_at' = [timeout_at EXCEPT ![c] = 0]
    /\ blocked_at' = [blocked_at EXCEPT ![c] = 0]
    /\ UNCHANGED <<now, lists, is_blocked, is_blpop, waiting_for_key, turn,
                   pushed, front, taken, passed>>

-----------------------------------------------------------------------------
Command(c) ==
    \/ \E k \in Keys :
         \/ \E n \in 1 .. MaxBatch : RPUSH(c, k, n) \/ LPUSH(c, k, n)
         \/ \E n \in 0 .. MaxBatch : LPOP(c, k, n)
         \/ \E t \in Timeouts : BLPOP(c, k, t)
    \/ RPOP(c)

Next ==
    \/ Tick \/ Sweep \/ EndBuffer
    \/ \E c \in Clients : Command(c) \/ Reconnect(c)

Spec == Init /\ [][Next]_vars

(***************************************************************************)
(* The clock advances, a buffer of 4095 bytes is worked off, and the sweep *)
(* runs between rounds that serve every client at most once (EventLoop),   *)
(* so other clients' buffers cannot keep it away for ever.                 *)
(***************************************************************************)
FairSpec == Spec /\ WF_vars(Tick) /\ WF_vars(EndBuffer) /\ SF_vars(Sweep)

-----------------------------------------------------------------------------
(* The fields of Client, the lists and the histories have their types, and *)
(* the three fields that say a client waits agree: RPUSH and the sweep use *)
(* waiting_for_key without testing that they do.                           *)
TypeOK ==
    /\ now \in Nat
    /\ lists \in [Keys -> Seq(Values)]
    /\ is_blocked \in [Clients -> BOOLEAN]
    /\ is_blpop \in [Clients -> BOOLEAN]
    /\ timeout_at \in [Clients -> Nat]
    /\ blocked_at \in [Clients -> 0 .. now]
    /\ waiting_for_key \in [Clients -> Keys \cup {NULL}]
    /\ turn \in Clients \cup {NoClient}
    /\ pushed \in Nat
    /\ front \subseteq Values
    /\ taken \subseteq Values
    /\ passed \subseteq Clients
    /\ \A c \in Clients :
          /\ is_blpop[c] <=> is_blocked[c]
          /\ is_blpop[c] <=> waiting_for_key[c] # NULL

\* Every value ever pushed is at one position of one list, or was taken out.
EachAtOnePlace ==
    /\ \A k1, k2 \in Keys : \A m \in 1 .. Len(lists[k1]), n \in 1 .. Len(lists[k2]) :
          lists[k1][m] = lists[k2][n] => k1 = k2 /\ m = n
    /\ \A v \in Values :
          v \in taken <=> \A k \in Keys : v \notin Range(lists[k])

\* LPUSHed values head a list, the latest first, before the RPUSHed ones, the
\* earliest first.
InPushOrder(l) ==
    \A m, n \in 1 .. Len(l) :
        m < n => IF l[n] \in front THEN l[m] \in front /\ l[n] < l[m]
                 ELSE l[m] \in front \/ l[m] < l[n]

(* The pops and hand-overs lose no value, take none out twice and disturb  *)
(* no order: every value ever pushed is at one position of one list or was *)
(* taken out of it, and each list holds its values in the order in which   *)
(* LPUSH and RPUSH put them there.  The reply of the sweep to a BLPOP      *)
(* whose time is up (list_handler.c:397-406) takes nothing out: it shows   *)
(* the head of the list, which a later pop answers a second time.          *)
Conservation ==
    /\ EachAtOnePlace
    /\ \A k \in Keys : InPushOrder(lists[k])

(* No wake-up is lost: a client waits at a list that has values only if a  *)
(* push passed it over for one of three reasons.  It was an LPUSH, which   *)
(* serves nobody; or an RPUSH in the millisecond in which the client       *)
(* blocked; or an RPUSH that left more values than the one it hands out.   *)
WaitsAtValuesForAReason ==
    \A c \in Clients :
        is_blpop[c] /\ lists[waiting_for_key[c]] # <<>> => c \in passed

(* An RPUSH passes over a client in favour of one that blocked on the same *)
(* key later only when its own scan took longer than the difference: the   *)
(* waiting times it compares are measured at different instants.  A scan   *)
(* within one tick of the clock serves the client that blocked first.      *)
NoOvertaking ==
    [][\A c, d \in Clients :
          (/\ is_blpop[c] /\ is_blpop[d] /\ waiting_for_key[c] = waiting_for_key[d]
           /\ pushed' # pushed /\ ~is_blpop'[c] /\ is_blpop'[d])
              => \/ blocked_at[c] <= blocked_at[d]
                 \/ blocked_at[c] - blocked_at[d] < now' - now]_vars

(* A BLPOP with a time-out is answered, by a push or by the sweep, unless  *)
(* a later BLPOP of the same buffer replaced the wait by one without end.  *)
TimedWaitEnds ==
    \A c \in Clients :
        (is_blpop[c] /\ timeout_at[c] # 0) ~> (~is_blocked[c] \/ timeout_at[c] = 0)

(* LRANGE against the positions it names: with both indices within the    *)
(* list's size, negative ones counting from the end, it answers exactly    *)
(* the values from start to end; beyond it, still a slice of the list.     *)
LrangeIsSlice ==
    \A k \in Keys :
        LET l == lists[k]
            n == Len(l)
            at(i) == IF i < 0 THEN n + i ELSE i
        IN  \A i, j \in -(n + 1) .. n + 1 :
              /\ \E a, b \in 0 .. n : LRANGE(l, i, j) = SubSeq(l, a + 1, b)
              /\ i \in -n .. n /\ j \in -n .. n =>
                    LRANGE(l, i, j) = SubSeq(l, at(i) + 1, IF at(j) < n THEN at(j) + 1 ELSE n)
=============================================================================
