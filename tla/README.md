# A verification project for the Redis clone in C

TLA+ models of the server in `src/` (a single-threaded Redis clone: event loop,
keyspace, lists, streams, sorted sets, pub/sub, authentication, transactions,
append-only and RDB files, replication), TLC runs that check them on small
instances, and TLAPS proofs of what matters most. `PROJECT.json` maps every
definition to the lines it models and lists the runs, the mutants, the findings,
the hazards and the theorems.

## Inventory

The server is one process and one thread. `main.c` polls a table of descriptors
with a time-out of 100 ms; between `poll()` and the serving of descriptors it
*sweeps* the clients whose blocking command has timed out. A served client has
everything in its receive buffer executed, one command after the other, by
`handle()` in `handler.c`. So handlers are atomic, and the hard part is state
that one command leaves for a later one: flags of a `Client` set by one handler
and cleared by another client's handler or by the sweep, pointers to `Client`
objects kept in other structures, and single server-wide fields shared by all.

| Component | State | Operations | Interaction | What makes it correct |
|---|---|---|---|---|
| Event loop (`main.c`) | `watch_list`, `clients`, `active_fds`, the cursor | accept, refuse, receive, remove, sweep | calls `handle()`; all others read `clients` | the two arrays agree; a round serves each reported connection once; hang-ups are noticed |
| Lists (`list_handler.c`) | a list per key; `is_blocked`, `is_blpop`, `blocked_at`, `timeout_at`, `waiting_for_key` | RPUSH, LPUSH, LPOP, LRANGE, LLEN, BLPOP, end of BLPOP | RPUSH answers another client; the sweep ends waits | no value lost or popped twice; no wake-up lost; longest wait first, but for the time of the scan; waits end |
| Streams (`handler.c`, `utils.c`) | entries, `last_ms`, `last_seq`; `min_id`, `waiting_for_key` | XADD, XREAD with and without BLOCK, XRANGE | XADD answers blocked readers; the sweep ends waits | IDs increase; a resuming reader misses and repeats nothing; a range holds what it names |
| Transactions (`transaction_handler.c`, `handler.c`) | `requests`, `watch_keys`, `is_dirty`; `watchers` by bucket | MULTI, EXEC, DISCARD, WATCH, UNWATCH, queuing, `notify_watchers` | the writing commands notify, except BLPOP and GEOSEARCH; closing a client leaves pointers | no conflict is missed but by these and by expiry |
| Replication (`utility_handler.c`, `main.c`) | offsets of master and replicas; `wait_client_fd`, `captured_master_offset`, `wantedReplicas`; during the start, what is left of the RDB | PING, REPLCONF, PSYNC, `drain_rdb`, propagation, GETACK, ACK, WAIT | the sweep answers WAIT; several processes, two FIFOs between each pair | writes arrive once and in order; offsets account for all bytes; only a waiting client is answered; a handshake does not wait for ever |
| Sorted sets, geo (`set_handler.c`) | a sorted linked list and its length | ZADD, ZREM, ZRANK, ZRANGE, ZSCORE, ZCARD, GEO* | a key of the keyspace | order and length agree with the scores given |
| Pub/Sub (`channels_handler.c`) | `channel_subed`, `channel_count`, `is_subscribed` | SUBSCRIBE, PUBLISH, UNSUBSCRIBE | PUBLISH walks all clients; a subscribed client is refused most commands | each subscriber gets a message once |
| Keyspace (`utils.c`) | hash table with chains, lazy expiry | `store_set`, `store_get`, `store_set_list`, `store_set_stream`, `store_set_zset`, SET, GET, INCR | used by all data types | a table of chains behaves as a map: a command changes its own key only |
| AOF (`main.c`, `handler.c`) | directory, manifest, append-only file | `create_dir`, `write_to_file`, replay | replay calls `handle()`, which appends | a restart restores what was acknowledged |
| RDB (`rdb_handler.c`) | file read once at start | load, CONFIG GET | fills the keyspace after the replay | what the replay restored is not lost |
| Auth (`auth_handler.c`) | `is_auth`; `default_has_nopass`, `default_password` of the server | AUTH, ACL SETUSER, WHOAMI, GETUSER | flags of `Client`; the gate of subscribed clients | after a SETUSER of any user, exactly those that sent a SETUSER or the right password are known |
| Parser, command tables (`parser.c`, `utils.c`) | none kept between calls | `parse`, `findRedisCmd`, `cmd_to_string`, `isWriteCmd` | the loop over a buffer; file and replicas get the command re-encoded | a command is executed once, whole, and survives the round trip |

Hard behaviours: removal from the table in the middle of the walk over it;
blocked clients answered by other clients' commands or by the sweep; a time-out
racing a push; several clients in WAIT sharing one set of fields;
acknowledgements that arrive late; replicas that leave and come back; pointers
to freed `Client` objects; keys that share a bucket; the end of the process
between a reply, its append and its propagation, and between the steps of a
start; a stream of commands cut anywhere by `recv()`; replicas that follow each
other and all wait. `hazards` in
`PROJECT.json` lists them line by line, with the properties that watch them.

## Modules

| Module | Models | Correspondence |
|---|---|---|
| `EventLoop` | the table and the serving loop | one action per iteration of the `for` loop (`Skip`, `Accept`, `Refuse`, `AcceptFails`, `SkipBlocked`, `RecvData`, `RecvEof`, `EndRound`) and `Poll`; `watch_list` (`fd`, `revents`) and `clients` are separate functions over the slots so that they could disagree; commands are reduced to whom they block and release; peers connect, send and hang up at any time |
| `Rounds` | abstract specification of the loop | sets only: each round serves each picked connection once, connections are turned away only when no place is left; `EventLoop!ImplementsRounds` instantiates it |
| `Lists` | `list_handler.c`, the BLPOP part of the sweep | one action per command; `turn` is the client whose buffer is being executed, because a blocked client still has the rest of its buffer executed; values are numbered in the order of pushing and `front` holds those that LPUSH pushed; an RPUSH chooses the time its scan takes and what the clock showed for each client; LRANGE is an operator; `passed` holds the clients that a push left waiting for a known reason |
| `Streams` | XADD, XREAD, XRANGE, `try_deliver_stream_data`, the XREAD part of the sweep | IDs are pairs; XADD appends and delivers in one action; readers resume from the last ID they got; the uninitialised bound of `$` on a missing stream is a free choice; XRANGE is an operator over every pair of bounds |
| `Transactions` | `transaction_handler.c`, `notify_watchers`, queuing | clients are `Client` objects that are freed and reused; `watchers` holds a list per bucket; a double free ends the process. A command changes its key, and another of its bucket when it takes over the entry; BLPOP, GEOSEARCH and expiry change keys and notify nobody, which `unannounced` counts |
| `Replication` | one master, its clients and replicas, after PSYNC | a FIFO of commands to and one of acknowledgements from each replica; WAIT's fields are single, as in the code; `Sweep` contains the XREAD test, since it also answers clients in WAIT. The end of a replica's process (`Leave`) and the master's reading it (`Disconnected`) are two actions: in between the master sends to a replica that has ended, which resets the connection, and the next send may end the master by SIGPIPE (`Broken`). Commands are whole here; cuts are in `Handshake` |
| `Handshake` | servers that follow each other: the start of a replica, the answers of its master, the stream parsed piece by piece | each server has a program counter that follows `replicaofHandler` and `do_slave_handshake` from one `recv()` to the next; a connection is a list of tokens, a command its head and its rest, and `recv()` takes any number of tokens; `Whole`, `Parts` and `Stray` are `parse()` and the loop that skips to the next `*`: what of a buffer is executed, dropped, and taken for a request though it is an argument. `conn` says whether a connection is reset; a send on one that is ends the sender (`SendBreaks`, `AnswerBreaks`, `pass_data_toReplica`), and `killed` remembers whom |
| `Commands` | the tables of `utils.c`: which names are parsed, written to the file, passed on, and how they are spelled | operators; the disagreements between the tables are kept |
| `Keyspace` | `utils.c`: one chain per bucket, the entry functions, lazy expiry, `load_rdb_into_table` | a table is a function from buckets to sequences of entries; every command that changes the table is an operator from table to table: SET, INCR, RPUSH, LPUSH, LPOP, BLPOP, ZADD, ZREM, GEOADD, GEOSEARCH (which makes an empty set) and XADD with its IDs. A value is a sequence of numbers |
| `Persistence` | one server with `--appendonly yes`, its files, its end at any point, and a replica | uses `Commands` and `Keyspace`; answering a command and writing it are two actions, the start is one action per file operation; one client may be in MULTI: `Queue` passes a write on when it is received, `handle_exec` runs the queue through `handle` one command at a time, `handle_discard` drops it; an XADD with `*` takes its ID from the clock wherever it is run; the unterminated string of `to_upper()` is a free choice at every test |
| `SortedSets` | `set_handler.c` for one key | the ZSet struct with its list and its separate length; ZADD and ZREM are functions that recurse over their arguments, one turn of the loop in the handler each; reading commands are operators; a history keeps the last score of each member |
| `PubSub`, `Auth` | `channels_handler.c`, `auth_handler.c` | the array of slots with its count; `strcmp` of a NULL slot ends the process. The server's single user with its password; SHA-256 is taken to be injective |
| `Sessions` | composition of the two | `handle()` refuses AUTH and ACL to subscribed clients, and a new connection gets a zeroed `Client` |
| `EventLoopProofs`, `StreamsProofs`, `TransactionsProofs`, `PersistenceProofs`, `SessionsProofs` | theorems about the module in their name | see below |
| `CollectionsProofs` | theorems about `Lists` and `SortedSets` | the two have no state in common; the module that extends both tells their specifications apart by name (`Spec`, `ZSetSpec`) |
| `ReplicationProofs` | theorems about `Replication` and `Handshake` | likewise (`Spec`, `HandshakeSpec`) |
| `DataLemmas` | lemmas about numbers and sequences that the proofs share | induction over a set of numbers, sequences without repetition, slices, concatenations |
| `MC*` | instances for TLC | model values, symmetry, bounds |

In several modules a definition is preceded by one marked *Mutant*: the same
definition with a plausible slip. Mutants are not part of the specification;
replacing the definition by its mutant makes TLC report the property that
`PROJECT.json` pairs it with, which shows that the property depends on that code.

Variables marked *history* are not in the code; they only record what properties
speak of (values pushed, entries a reader was sent, writes applied).

## Runs

| Run | Instance | What it shows |
|---|---|---|
| `event_loop` | 3 connections, a table of 3 slots (listener and 2), 1 unread chunk each, fair loop | the arrays agree, rounds are exact, and the loop implements `Rounds`; a hang-up is noticed unless the client stays blocked, and every connection is accepted or refused. With one connection more than places, accepting, refusing and every position of a removal occur |
| `lists` | 2 clients, 2 keys, 2 values, clock to 4, fair sweep | values are conserved; a client waits at a list with values only because it blocked in the millisecond of the RPUSH, because an LPUSH wakes nobody, or because an RPUSH of several values wakes one client; an RPUSH passes over a client for one that blocked later only when its scan, which reads the clock for each client, took longer than the difference (the clock to 4 lets that happen); a timed BLPOP ends; LRANGE of every reachable list is the slice that its clipped indices name. A client that blocks goes on with its buffer, so two clients give a waiter that pushes, two waiters and a third push |
| `streams` | 2 readers, 1 key, 3 entries, IDs `0-0`, `1-1` and `3-2`, `2-*`, `*`, clock to 2 | only an `ms-*` ID can go back; readers of a stream in order miss and repeat nothing; XRANGE returns nothing out of range and all of a range within one ms; a timed XREAD BLOCK ends. `2-*` may come before or after both the explicit IDs and the clock |
| `transactions` | 2 objects, 2 keys of one bucket, 3 registrations, 2 changes per key | the only changes a client that is not dirty has missed are those without a notification. The keys share the bucket and objects are reused, the two cases that could go wrong; two changes let an announced one follow an unannounced one. That other buckets do not matter is part of the theorem |
| `sorted_sets` | 4 members, 3 scores, commands with up to 2 members | list, length, ranks and ranges agree with a reference map. Two arguments are enough for a member to repeat in one command, three scores and four members for every relative position of a removal and an insertion |
| `sessions` | 2 clients, 4 channels, arrays of 3 slots, 2 passwords | counts are right, a PUBLISH that returns reached every subscriber once, the array filled to its end included, and, once a SETUSER of any user was accepted, WHOAMI knows exactly the clients that sent a SETUSER (a refused one too) or the password then in force |
| `sessions_up` (violation) | as above | UNSUBSCRIBE of a channel that is not the client's last makes the next PUBLISH end the server |
| `replication` | 2 clients, 1 replica that may end, be noticed later and join again, 2 writes, 2 WAITs, fair | writes arrive once, offsets are accounted for and in order, only a waiting client is answered, a timed WAIT ends although another one replaces it, unless SIGPIPE ends the master. Replicas do not interact with each other except through the count of WAIT, and wanted counts of 1 and 2 cover satisfied, satisfiable and never satisfied |
| `replication_count` (violation) | 1 client, 1 replica, 4 writes | WAIT counts a replica that lacks a write, because GETACK bytes are in its offset |
| `handshake` | 3 servers; a chain, a cycle of two with a third behind it, a pair beside a server that is its own master, and a cycle of three; 2 commands, 1 process that is stopped, buffers of 8 tokens, fair | a replica handles what it is passed once and in order, except commands cut in two, and never acknowledges more than it was passed; a server that has connected reaches its loop, or is stopped, or is ended by SIGPIPE when it sends to a master that has ended, or waits in a ring. Eight tokens hold the whole answer to PSYNC and both commands behind it, so a command may be whole, cut or absent in the buffer that holds the RDB |
| `persistence` | 5 keys in 2 buckets (a counter, a list and a stream share one, a sorted set and a string of the RDB file the other), 8 commands (SET, INCR, RPUSH, BLPOP, XADD with `0-*` and with `*`, ZADD, GEOSEARCH), of which 3 are received, alone or in a MULTI, 2 crashes, clock from 1 to 2, sequence numbers below 10, 1 replica in the first life | after any crash, also of a start, data is lost, a start fails and a replica differs only for the causes below; a command changes another key only as the head of its bucket; an expired key comes back only by a SET or an INCR of it. Two crashes are the least for a replay of what a replay appended; three commands for a MULTI of a command on each of two keys of a bucket and one alone. LPUSH, LPOP, ZREM and GEOADD are in the model and the theorems; the instance leaves them out, since each differs from one that is in it in the value it leaves, or in whether it changes anything |
| `persistence_restart` (violation) | as above | with every command appended, the second start still does not restore an INCR |

Several properties of `persistence` say that something goes wrong *only* for a
listed cause. The causes are what the code has to offer; history variables
collect them per bucket.

* `LossHasCause`: the append was skipped, since `to_upper()` compared unequal, or
  the process ended before it; the key is a sorted set, whose commands the file
  names `UNKNOWN` (GEOSEARCH is not written at all); a BLPOP popped, at once or
  by a later RPUSH; an XADD took its ID from the clock, and takes another one
  when it is replayed; the RDB file has a key in the bucket and is loaded
  on top; a start did not read the file; an earlier start appended what it
  replayed. The deadline of a key is measured from the replay, so it may be
  later and never earlier.
* `UnbootableHasCause`: a start was cut short between `mkdir()` and the line of
  the manifest. No other crash has this effect.
* `ReplicaDriftHasCause`: the bucket held data when the replica joined (PSYNC
  sends an empty RDB); a pop of BLPOP or a sorted-set command changed it, which is
  not passed on; an XADD took its ID from the clock, and the replica takes it
  from its own; or a MULTI is in play: what it queues is passed on at once,
  whether EXEC, DISCARD or nothing follows, and what EXEC runs is not passed on.

The bounds are the constants marked *bound*: the clock, lengths, and numbers of
writes, pushes, handshakes, crashes. They stand in guards, so a bounded behaviour
may stop; runs with a bounded clock or counter do not check for deadlock, and
neither does `sessions`, where the server may end. The event loop and sorted sets
have no such bound on their steps, and there deadlock is checked.

**Fairness.** The loop never ends by itself and `poll()` returns within 100 ms,
so `Loop`, the sweeps and the ends of buffers are weakly fair. Sweeps run
between rounds, and a round is finite (`Rounds`), so `Lists!Sweep`, which other
clients' buffers disable for a while, is strongly fair. `accept()` may fail,
but not for ever (strong fairness of `Accept \/ Refuse`). The clock advances.
TCP delivers, so replicas read and masters read acknowledgements; in `Handshake`
a process that can receive or answer does one of the two, which is weaker than
fairness of each. No client is assumed to send anything, nobody to start or to
stop a server.

## Proofs

All theorems hold for every value of the constants that satisfies the named
assumptions: finitely many connections, positive table size, distinct special
values (`EventLoop`); any hash function (`Transactions`, `Keyspace`); positive
command lengths (`Replication`); any graph of servers and buffers of at least
one token (`Handshake`); members ordered like numbers, any encoding of places
(`SortedSets`); arrays of at least one slot (`PubSub`); bounds
that are numbers, and special values that are not keys, IDs or clients. Two
assumptions of `Persistence` restrict what clients do: a key is used for values
of one type (a key that the RDB file loads for strings only, since an XADD to a
stream loaded from it ends the process), and a (possibly negative) time to live does not reach back before
1970, where a deadline of 0 would mean none; `StartTime` is the clock at the
first start. TLC evaluates the assumptions on every run.

Induction. The library's theorems take a predicate, which the provers here
cannot instantiate; `DataLemmas!NumberInduction` takes a *set* of numbers
instead, and follows from the well-foundedness of `<`. With it, recursive
functions are shown to exist and to have what properties need of them: the load
of the RDB file, the bytes of a link, the walk over a stream, the pairs of a
ZADD, the commands of a buffer. Folds and `RECURSIVE` operators stay out of
reach; no model uses them where a theorem is stated.

* **EventLoopProofs.** `IInv` is `TypeOK`, `TableCoherent`, and three parts that
  make them inductive: `BacklogOK` (a connection in the accept queue is not in
  the table, and is there once; without it an accept could duplicate a slot),
  `RoundOK` (`RoundExact` and `RecvNeverBlocks` slot by slot: every slot from the
  cursor on with POLLIN holds a reported, unvisited, readable connection, and
  every such connection has a slot) and `CountOK` (slots count the open
  connections, needed for "turned away only when full"). One step per action;
  the removal is the hard one, since the last slot may be the removed one, ahead
  of the cursor, or not reported. From `IInv`: `TypeCorrect`,
  `TableAlwaysCoherent`, `SlotsCountConnections`, `RoundsAreExact`, and
  `LoopImplementsRounds`, the refinement of `Rounds`.
* **CollectionsProofs, lists.** `IInv` is `TypeOK`, `Conservation` and
  `WaitsAtValuesForAReason`; together they are inductive. `ReplaceList` is the
  core of `ValuesConserved`: every command replaces one list by a part of it, or
  by it and new values at one end, and the values that leave go to one client;
  `AppendOrdered`, `PrependOrdered` and `DropOrdered` are its part about the
  order. The value that the sweep shows without taking it out is not in it.
  `NoWakeUpLost` needs that `blocked_at` is not in the future and that
  `is_blocked`, `is_blpop` and `waiting_for_key` agree (`ClientsOK`). `ServedInOrder` is an
  action property: the client that an RPUSH answers blocked no later than any
  other client at the key, or later by less than the scan took. `LrangeAnswers` is about the operator alone.
* **CollectionsProofs, sorted sets.** `ZSetInv` says that the list is in the
  order of `Before`, has no member twice and is as long as `length` says
  (`ZSetOK`), and that the nodes are exactly the members with the last score of
  each (`HoldsScores`). The order is what makes it inductive: `zset_remove` stops
  at the first node of a member, which is the only one because no member is
  there twice (`RemoveOK`), and `zset_add` stops at the first node that does not
  come before the new one, so all nodes in front of it do and none behind it
  does. One command is many turns of a loop, with members that may repeat;
  `AddPairsOK` and `RemoveMembersOK` carry the order through the turns and say
  which pair is the last of its member. `LastScoresHeld` follows by a bijection
  between positions and members. For `RanksFollowScores`, the positions in front
  of a member are in bijection with the members that are smaller, so its position
  less one is its rank, and a range of positions is a range of ranks.
* **StreamsProofs.** `ReaderOK` makes `ReaderMissesNothing` inductive: as long as
  the stream is in order, what a reader has seen is a contiguous part of the
  stream, and the `min_id` of a blocked reader is the ID at its position (0-0
  before the first), so the walk that XADD starts hands over exactly the new
  entry. `OrderOfIds` comes from the cases of `generateId` and
  `validate_stream_id` and from `last_ms`, `last_seq` being those of the last
  entry. `RangesAnswered` is about the walk of XRANGE.
* **TransactionsProofs.** `WatchIsSound`: a client that is not dirty finds each
  watched key changed at most in the ways that notify nobody. The strengthening `Registered` says that each watched
  key of a live client is registered in its bucket; then `notify_watchers`
  reaches every client it must, whatever else is in the list.
* **ReplicationProofs, replication.** Two invariants that do not need each other. `ClientInv`
  gives `WaiterAlwaysWaits`. `ReplicaInv` says of each connected replica that
  acknowledgements on their way are ordered and bounded by its own offset, that
  a write is on the link at most once, and that applied and sent writes are
  exactly those since its PSYNC; a replica that is not connected has nothing on
  its way, without which a second PSYNC would start with stale commands. They
  give `AcksAlwaysInOrder` and `WritesAlwaysReach`. On top of both, `OffsetInv`
  adds up the bytes: a replica's offset and the bytes on its link are those of
  the writes since it joined and of at most one GETACK per WAIT
  (`OffsetsAlwaysAccounted`).
* **ReplicationProofs, handshake.** `HandshakeInv` says three things of each
  server, whatever the graph. *Its stream* (`StreamOK`): on the way to it
  commands are behind everything else and in order, each rest directly behind
  its head unless a cut took the head (`Framed`); what is on its way was passed,
  comes after all that was handled, is not given up unless its head was, and is
  not yet counted by the offset (`Ahead`); what was handled is in order and is
  what was passed less what was cut and what is on its way (`Handled`). *Its
  requests* (`RequestsOK`): PSYNC is its last one, and nothing but short replies
  comes before the answer to it. *The RDB* (`RdbOK`): a server that waits for the
  answer to PSYNC has all of it ahead, or its master has ended; a server in
  `drain_rdb` has at least as many tokens of the RDB ahead as it lacks, in front
  of any command, or its master has ended and no command will come. Without the last two
  a command could be taken for the RDB, and be neither handled nor cut: this is
  where the invariant would fail if `drain_rdb` received more than the RDB
  lacks. `WholeOK` and `WholeCount` say what the loop over a buffer executes,
  and `StreamConsume` that a `recv()` of any length keeps `StreamOK`; every
  action of a server is then one of few changes to its stream (`StreamDrop`,
  `StreamReplies`, `StreamPass`, `CutStream`). The theorems are `HandshakeTyped`
  and `CutsAreAllThatIsLost`.
* **SessionsProofs.** `SlotsOK` says that the slots in use hold no channel twice,
  only channels of their client, and all of them unless UNSUBSCRIBE has left a
  hole; `CountOK` that `channel_count` is the number of channels. Where there is
  a hole PUBLISH ends the process, so `DeliveredOnce` is about those that return.
  `AuthOK` ties the flags to the history of passwords and of what each client sent.
* **PersistenceProofs.** `IInv` (types, chains without a key twice, when a
  directory may lack a manifest) gives `TypeCorrect` and
  `BootFailuresExplained`. What a command may do to a table is proved once
  (`Applied`: it puts an entry in front, over the head, or in place of the
  key's), for all commands of `Apply` and for the pop that an RPUSH with a waiter
  adds, and gives the action properties `OtherKeysKept` and
  `ExpiredKeysStayGone`. `StepCases` reduces every step that runs a command, alone
  or by EXEC, to one description (`Runs`), so that each of the proofs below has
  one case for it.
  - `ReplicaDriftExplained`: chains are *alike* when they differ in deadlines at
    most, and a command does the same to chains that are alike, unless it takes an
    ID from the clock (`AlikeApply`). `DriftInv` says that the replica's table, once it has handled what is on the
    link and the command that is answered and not yet passed on, is like the
    master's in every bucket without a cause.
  - `LossExplained`: a *run* of the file is a table for each prefix, each command
    executed at some time since the first start. `LossInv` says, per phase:
    before a start reads the file, its run leads to what the server last held;
    while the start replays the first `L` commands and appends them again, the
    table is like the run of what is replayed, and for a bucket of SETs only the
    longer file leads to the same chain, with the keys already replayed renewed
    (`Overlay`); afterwards the run leads to the table, but for the command still
    to be appended and the buckets the replay has doubled. Deadlines are carried
    along: each later execution of a command sets one that is no earlier. RDB
    buckets hold what the RDB file makes of an empty bucket (`LoadLocal`: the
    load works bucket by bucket). That the invariant speaks of a run that exists
    is why TLC checks `LossHasCause` and not `LossInv`.

Every invariant, action property and refinement that a passing run checks is
also stated by a theorem. Only model-checked: the liveness properties (hang-ups
noticed, waits and handshakes that end), since fairness and `ENABLED` are out of
the prover's reach, and the three violations, which are about one behaviour each.

## What the violations show

Three statements in comments or the README are not what the code does;
`findings` quotes each. They are: the replica counted with GETACK bytes,
UNSUBSCRIBE of a channel that is not the last, and the replay that appends. More
disagreements are in the models, as steps or as exceptions that a property
names:

* an expired BLPOP on a list with values answers with the head and leaves it in
  the list (`Lists!Sweep`);
* an `ms-*` ID below the top item is accepted (`OnlyPartialIdsGoBack`), and the
  first ID of a stream may be 0-0;
* XRANGE compares ms and seq separately, so it leaves out entries of a range
  over several ms (`XrangeSound` promises completeness within one ms only);
* LRANGE with an end beyond the list starts at 0 (`Lists!LRANGE`);
* `delete_watched_keys` frees a string twice when two watched keys share a
  bucket or one is watched twice (`Transactions!DoubleFree`);
* the missing braces in the WAIT part of the sweep (`main.c:526`) clear
  `is_waiting` of every client;
* writes are passed on to replicas when queued and not when executed;
* a new list, stream or sorted set takes the place of the entry that heads its
  bucket, whatever its key (`OthersKept`);
* of a GETACK cut in two the argument `*` is counted as a command
  (`OnlyCutsAreLost`).

## Not modelled

* The text of RESP, replies, and the fixed buffers they are formatted in. A cut
  inside a length line makes `parse()` read behind the buffer; cuts in
  `Handshake` are between the head of a command and its rest.
* The binary format of the RDB file: `Persistence` starts from its records.
* The `next` pointer that `store_set_list` and its siblings leave uninitialised
  in a new entry of an empty bucket: what follows such an entry is whatever the
  memory held, mostly zero, and the model has zero.
* Writes behind the arrays of fixed size (`watch_keys`, `clientList`,
  `requests`, the keys of XREAD): the instances stay below their sizes.
* XREAD of several keys: it answers at once and changes nothing, or ends the
  process.
* Replies built from state that is modelled: INFO, CONFIG GET, KEYS, TYPE, LLEN,
  ACL GETUSER.
* Geo arithmetic (floating point); a place is encoded by a constant function.
* Functions that nothing calls: `handle_handshake`, `read_rdb_file`,
  `validate_set`, the `Channels` tables.
* Use of a freed object's memory by something other than another `Client`.
* Commands on a key of another type, which reinterpret memory, and XADD to a
  stream that was loaded from the RDB file, which has no tail and ends the
  process.
* SIGPIPE at a reply to a client that has gone (a peer that hangs up with answers
  still to come ends the server at the second one): in `EventLoop` replies have no
  effect, and the end of the process is the end of the behaviour. Where it
  decides what a property says, between master and replica, it is in `Handshake`
  and `Replication`.
* Several clients in MULTI at once in `Persistence` (`Transactions` has them);
  commands with several values (`Lists` and `SortedSets` have them).

## Further work

`Lists` and `Transactions` share the wait fields of `Client` with `Streams` and
`Replication`; a composition would show that only the XREAD test of the sweep
crosses between them. The hazards in `PROJECT.json` that have a note instead of
a property are the other candidates; of most of them the repository promises
nothing that could be checked, and the rest need a model of memory written
behind an array.
