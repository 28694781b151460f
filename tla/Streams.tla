------------------------------ MODULE Streams ------------------------------
(***************************************************************************)
(* Streams (handler.c, utils.c): XADD with its three forms of ID, XREAD    *)
(* with and without BLOCK, the delivery to blocked readers when an entry   *)
(* arrives, XRANGE, and the sweep of main.c that ends an XREAD whose time  *)
(* is up.                                                                  *)
(*                                                                         *)
(* An entry is its ID, <<ms, seq>>; fields are left out.  An XADD may come *)
(* from any client, so it has no client here.  A reader consumes one key   *)
(* the way XREAD is meant to be used: it resumes from the last ID it got,  *)
(* and waits for the reply to one XREAD before it sends the next.          *)
(***************************************************************************)
EXTENDS Integers, Sequences, Functions

CONSTANTS
    Readers,      \* clients that read
    Keys,         \* stream keys
    ExplicitIds,  \* IDs that an XADD may give in full
    PartialMs,    \* ms parts that an XADD may give as "ms-*"
    Timeouts,     \* BLOCK arguments in ms, 0 meaning for ever
    MaxTime,      \* bound: the clock
    MaxLen,       \* bound: entries of a stream
    NULL,
    Dollar,       \* the literal "$" kept as min_id
    Minus, Plus   \* the bounds "-" and "+" of XRANGE

ASSUME StreamsAssumption ==
    /\ ExplicitIds \subseteq Nat \X Nat
    /\ PartialMs \subseteq Nat
    /\ Timeouts \subseteq Nat
    /\ MaxTime \in Nat /\ MaxLen \in Nat
    /\ NULL \notin Keys
    /\ NULL \notin Nat \X Nat /\ Dollar \notin Nat \X Nat /\ Dollar # NULL

VARIABLES
    now,        \* get_current_time_ms()
    stream,     \* the entries at each key, <<>> while there is no stream
    last,       \* <<last_ms, last_seq>> of each stream
    is_blocked, timeout_at, waiting_for_key, min_id,  \* of Client
    key,        \* the key a reader consumes, NULL before its first XREAD
    from,       \* history: entries a reader had skipped at its first XREAD
    seen        \* history: the entries a reader has been sent

client == <<is_blocked, timeout_at, waiting_for_key, min_id>>
reader == <<key, from, seen>>
vars == <<now, stream, last, is_blocked, timeout_at, waiting_for_key, min_id,
          key, from, seen>>

Ids == Nat \X Nat
Unknown == -1   \* a reader that started from "$" on a missing stream
LastOf(s) == s[Len(s)]

\* The entries of s at the positions in I: the walk of streamEntry_toString
\* and streamEntry_XREAD_toString from the head of the stream.
Picked(s, I) ==
    LET walk[n \in 0 .. Len(s)] ==
            IF n = 0 THEN <<>>
            ELSE IF n \in I THEN Append(walk[n - 1], s[n]) ELSE walk[n - 1]
    IN  walk[Len(s)]

Bounds == ExplicitIds \cup (PartialMs \X {0, 1})   \* IDs an XRANGE may give

Init ==
    /\ now = 1
    /\ stream = [k \in Keys |-> <<>>]
    /\ last = [k \in Keys |-> <<0, 0>>]
    /\ is_blocked = [r \in Readers |-> FALSE]
    /\ timeout_at = [r \in Readers |-> 0]
    /\ waiting_for_key = [r \in Readers |-> NULL]
    /\ min_id = [r \in Readers |-> NULL]
    /\ key = [r \in Readers |-> NULL]
    /\ from = [r \in Readers |-> 0]
    /\ seen = [r \in Readers |-> <<>>]

Tick ==
    /\ now < MaxTime
    /\ now' = now + 1
    /\ UNCHANGED <<stream, last, client, reader>>

-----------------------------------------------------------------------------
(* IDs.                                                                    *)

\* Mutant: an ID equal to the top item is let through.
isBiggerOrEqual(src, check) ==
    \/ check[1] > src[1]
    \/ check[1] = src[1] /\ check[2] >= src[2]

\* check is bigger than src
isBigger(src, check) ==
    \/ check[1] > src[1]
    \/ check[1] = src[1] /\ check[2] > src[2]

\* Only a stream that has entries validates an explicit ID.
validate_stream_id(k, id) ==
    stream[k] # <<>> => id # <<0, 0>> /\ isBigger(LastOf(stream[k]), id)

\* Mutant: the sequence number counts down.
generateIdDown(k) ==
    IF stream[k] = <<>> \/ now > last[k][1] THEN <<now, 0>>
    ELSE <<last[k][1], last[k][2] - 1>>

\* The ID for "*" (the clock is past 0 when the server runs).
generateId(k) ==
    IF stream[k] = <<>> \/ now > last[k][1] THEN <<now, 0>>
    ELSE <<last[k][1], last[k][2] + 1>>

\* The ID for "ms-*"; the ms given is compared with last_ms for equality only.
generatePartialId(k, ms) ==
    IF ms = last[k][1] THEN <<ms, last[k][2] + 1>>
    ELSE <<ms, IF ms = 0 THEN 1 ELSE 0>>

-----------------------------------------------------------------------------
(* XADD: append, then offer the stream to every reader blocked on the key. *)

\* Mutant: the lower bound is inclusive.
add_to_string_inclusive(start, end, x) ==
    ~isBigger(x, start) /\ ~isBigger(end, x)

\* The range XREAD returns: after start, up to end.
add_to_string(start, end, x) ==
    isBigger(start, x) /\ ~isBigger(end, x)

\* streamEntry_XREAD_toString(start, "+", ...) over the entries s.
XreadEntries(start, s) ==
    Picked(s, {n \in 1 .. Len(s) : add_to_string(start, LastOf(s), s[n])})

Offered(k) ==
    {r \in Readers : is_blocked[r] /\ waiting_for_key[r] = k /\ min_id[r] # NULL}

\* The lower bounds try_deliver_stream_data parses from min_id: the ID, or an
\* uninitialised value when min_id is the literal "$".
LowerBounds(k, s) ==
    {low \in [Offered(k) -> {<<0, 0>>} \cup {s[n] : n \in 1 .. Len(s)}
                              \cup ({min_id[r] : r \in Offered(k)} \ {Dollar})] :
        \A r \in Offered(k) : min_id[r] # Dollar => low[r] = min_id[r]}

\* handle_set_stream once the ID is known; try_deliver_stream_data releases
\* the readers that get something.
AppendEntry(k, id) ==
    LET s == Append(stream[k], id)
    IN  /\ Len(s) <= MaxLen
        /\ stream' = [stream EXCEPT ![k] = s]
        /\ last' = [last EXCEPT ![k] = id]
        /\ \E low \in LowerBounds(k, s) :
             LET got(r) == XreadEntries(low[r], s)
                 woken == {r \in Offered(k) : got(r) # <<>>}
             IN  /\ seen' = [r \in Readers |-> IF r \in woken THEN seen[r] \o got(r) ELSE seen[r]]
                 /\ is_blocked' = [r \in Readers |-> is_blocked[r] /\ r \notin woken]
                 /\ waiting_for_key' = [r \in Readers |->
                        IF r \in woken THEN NULL ELSE waiting_for_key[r]]
                 /\ min_id' = [r \in Readers |-> IF r \in woken THEN NULL ELSE min_id[r]]
        /\ UNCHANGED <<now, timeout_at, key, from>>

\* An XADD that is refused changes nothing.
XADD(k) ==
    \/ AppendEntry(k, generateId(k))
    \/ \E ms \in PartialMs : AppendEntry(k, generatePartialId(k, ms))
    \/ \E id \in ExplicitIds : validate_stream_id(k, id) /\ AppendEntry(k, id)

-----------------------------------------------------------------------------
(* XREAD, by a reader that resumes from the last ID it was sent.           *)

Cursor(r) == IF seen[r] = <<>> THEN <<0, 0>> ELSE LastOf(seen[r])

\* r, which has no XREAD outstanding, reads k from its cursor.
Resume(r, k) ==
    /\ ~is_blocked[r]
    /\ key[r] \in {NULL, k}
    /\ from[r] = 0 \/ seen[r] # <<>>
    /\ key' = [key EXCEPT ![r] = k]
    /\ UNCHANGED <<now, stream, last, from>>

\* Without BLOCK: a missing stream and no newer entries give the same reply.
XREAD(r, k) ==
    /\ Resume(r, k)
    /\ seen' = [seen EXCEPT ![r] = IF stream[k] = <<>> THEN @
                                   ELSE @ \o XreadEntries(Cursor(r), stream[k])]
    /\ UNCHANGED client

Block(r, k, t, id) ==
    /\ now + t <= MaxTime
    /\ timeout_at' = [timeout_at EXCEPT ![r] = IF t = 0 THEN 0 ELSE now + t]
    /\ min_id' = [min_id EXCEPT ![r] = id]
    /\ is_blocked' = [is_blocked EXCEPT ![r] = TRUE]
    /\ waiting_for_key' = [waiting_for_key EXCEPT ![r] = k]

\* With BLOCK and an ID: it blocks, whatever the stream already holds.
XREAD_BLOCK(r, k, t) ==
    /\ Resume(r, k)
    /\ Block(r, k, t, Cursor(r))
    /\ UNCHANGED seen

\* With BLOCK and "$", for a reader that has read nothing: handle_block_dollar.
XREAD_DOLLAR(r, k, t) ==
    /\ ~is_blocked[r]
    /\ key[r] \in {NULL, k} /\ seen[r] = <<>>
    /\ Block(r, k, t, IF stream[k] = <<>> THEN Dollar ELSE LastOf(stream[k]))
    /\ key' = [key EXCEPT ![r] = k]
    /\ from' = [from EXCEPT ![r] = IF stream[k] = <<>> THEN Unknown ELSE Len(stream[k])]
    /\ UNCHANGED <<now, stream, last, seen>>

\* Mutant: the sweep ends only waits that were to last for ever.
ExpiredForever(r) ==
    is_blocked[r] /\ timeout_at[r] = 0 /\ now >= timeout_at[r]

Expired(r) ==
    is_blocked[r] /\ timeout_at[r] # 0 /\ now >= timeout_at[r]

\* The sweep answers nil and clears is_blocked; the key and min_id stay set.
Sweep ==
    /\ \E r \in Readers : Expired(r)
    /\ is_blocked' = [r \in Readers |-> is_blocked[r] /\ ~Expired(r)]
    /\ UNCHANGED <<now, stream, last, timeout_at, waiting_for_key, min_id, reader>>

-----------------------------------------------------------------------------
(* XRANGE only answers.                                                    *)

\* Mutant: the upper bound is exclusive.
in_range_exclusive(start, end, x) ==
    x[1] >= start[1] /\ x[2] >= start[2] /\ x[1] <= end[1] /\ x[2] < end[2]

\* add_to_string for XRANGE: each part of the ID is compared by itself.
in_range(start, end, x) ==
    x[1] >= start[1] /\ x[2] >= start[2] /\ x[1] <= end[1] /\ x[2] <= end[2]

\* The entries streamEntry_toString writes for a stream s that has some.
XRANGE(start, end, s) ==
    LET first == IF start = Minus THEN s[1] ELSE start
        final == IF end = Plus THEN LastOf(s) ELSE end
    IN  Picked(s, {n \in 1 .. Len(s) : in_range(first, final, s[n])})

-----------------------------------------------------------------------------
Next ==
    \/ Tick \/ Sweep
    \/ \E k \in Keys : XADD(k)
    \/ \E r \in Readers, k \in Keys :
         \/ XREAD(r, k)
         \/ \E t \in Timeouts : XREAD_BLOCK(r, k, t) \/ XREAD_DOLLAR(r, k, t)

Spec == Init /\ [][Next]_vars

(***************************************************************************)
(* The clock advances, and the sweep runs before every round of the loop.  *)
(***************************************************************************)
FairSpec == Spec /\ WF_vars(Tick) /\ WF_vars(Sweep)

-----------------------------------------------------------------------------
(* Types; the cached last_ms and last_seq are those of the last entry.     *)
TypeOK ==
    /\ now \in Nat
    /\ stream \in [Keys -> Seq(Ids)]
    /\ last \in [Keys -> Ids]
    /\ is_blocked \in [Readers -> BOOLEAN]
    /\ timeout_at \in [Readers -> Nat]
    /\ waiting_for_key \in [Readers -> Keys \cup {NULL}]
    /\ min_id \in [Readers -> Ids \cup {NULL, Dollar}]
    /\ key \in [Readers -> Keys \cup {NULL}]
    /\ from \in [Readers -> Int]
    /\ seen \in [Readers -> Seq(Ids)]
    /\ \A k \in Keys : stream[k] # <<>> => last[k] = LastOf(stream[k])

\* The order of IDs, for the properties.
Precedes(a, b) == a[1] < b[1] \/ (a[1] = b[1] /\ a[2] < b[2])
InOrder(s) ==
    \A n \in 1 .. Len(s) : Precedes(IF n = 1 THEN <<0, 0>> ELSE s[n - 1], s[n])

(* The IDs of a stream are strictly increasing, except where an "ms-*"     *)
(* gave an ms older than the top item's: the sequence number starts over   *)
(* and nothing compares the ID that comes out.  Neither "*", with a clock  *)
(* behind the top item, nor a full ID is ever added out of order.          *)
OnlyPartialIdsGoBack ==
    \A k \in Keys : \A n \in 2 .. Len(stream[k]) :
        LET a == stream[k][n - 1]  b == stream[k][n]
        IN  Precedes(a, b) \/ (b[1] < a[1] /\ b[1] \in PartialMs /\ b[2] \in {0, 1})

(* A reader that resumes from the last ID it got is sent every entry after *)
(* its starting point, once and in order, whatever mixture of polling,     *)
(* blocking and timing out it goes through, as long as the stream is in    *)
(* order.  (An entry 0-0, which only the first XADD of a key may add since *)
(* nothing validates its ID, is after no starting point.)                  *)
ReaderMissesNothing ==
    \A r \in Readers :
        key[r] # NULL /\ from[r] # Unknown /\ InOrder(stream[key[r]]) =>
            /\ from[r] + Len(seen[r]) <= Len(stream[key[r]])
            /\ seen[r] = SubSeq(stream[key[r]], from[r] + 1, from[r] + Len(seen[r]))

(* XRANGE against the order of IDs: an answer has only entries from start  *)
(* to end, and all of them when the two bounds share their ms.  (It may    *)
(* leave entries out of a range over several ms, since the parts of an ID  *)
(* are compared one by one.)                                               *)
XrangeSound ==
    \A k \in Keys : stream[k] # <<>> =>
        \A start \in Bounds \cup {Minus}, end \in Bounds \cup {Plus} :
            LET s == stream[k]
                lo == IF start = Minus THEN s[1] ELSE start
                hi == IF end = Plus THEN LastOf(s) ELSE end
                within == Picked(s, {n \in 1 .. Len(s) :
                                        ~Precedes(s[n], lo) /\ ~Precedes(hi, s[n])})
                got == XRANGE(start, end, s)
            IN  /\ Range(got) \subseteq Range(within)
                /\ lo[1] = hi[1] => got = within

(* An XREAD BLOCK with a time-out is answered, by an entry or by the sweep.*)
BlockedReadEnds ==
    \A r \in Readers : (is_blocked[r] /\ timeout_at[r] # 0) ~> ~is_blocked[r]
=============================================================================
