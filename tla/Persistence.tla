---------------------------- MODULE Persistence ----------------------------
(***************************************************************************)
(* One server started with --appendonly yes: its commands, the append-only *)
(* file, the start that reads it back (main.c, handler.c), the RDB file    *)
(* loaded on top, a replica that is passed the writes, and the end of the  *)
(* process at any point.                                                   *)
(*                                                                         *)
(* A client in MULTI has its commands queued, and passed on at once: the   *)
(* loop passes on what it received, not what ran.  EXEC runs the queue     *)
(* through handle(), which appends each to the file and passes none on.    *)
(* One client at a time is in MULTI, and one waits in a BLPOP.             *)
(*                                                                         *)
(* A command is answered first; write_to_file() and then                   *)
(* pass_data_toReplica() follow.  The file is opened, written and closed   *)
(* for each command.  to_upper() returns a string without a terminator, so *)
(* the test for "YES" that precedes every use of the file has either       *)
(* outcome.  The replay runs handle(), which appends what it replays.      *)
(***************************************************************************)
EXTENDS Commands, Keyspace

CONSTANTS
    Cmds,          \* the commands clients send
    Rdb,           \* records of the RDB file
    StartTime,     \* the clock at the first start
    MaxTime,       \* bound: the clock
    MaxOps,        \* bound: commands of clients
    MaxCrashes,    \* bound: ends of the process
    MaxFollowed,   \* bound: lives of the process in which a replica may join
    NULL

\* Clients use a key for values of one type.  A time to live may be negative;
\* the clock, which counts from 1970, is past all of those.  Of the keys the
\* RDB file loads clients use strings only: the streams it loads have no
\* tail, and an XADD to one ends the process.
ASSUME PersistenceAssumption ==
    /\ Cmds \subseteq [name : RedisCmds, key : Keys, arg : Int, ttl : Int]
    /\ NULL \notin Cmds
    /\ StartTime \in Nat /\ \A c \in Cmds : c.ttl # -1 => StartTime + c.ttl > 0
    /\ \A c, d \in Cmds : c.key = d.key => TypeOf(c.name) = TypeOf(d.name)
    /\ \A c \in Cmds, j \in DOMAIN Rdb :
          c.key = Rdb[j].key /\ Rdb[j].type \in {"string", "stream"}
             => TypeOf(c.name) = "string" /\ Rdb[j].type = "string"
    /\ Rdb \in Seq(Range(Rdb))
    /\ \A j \in DOMAIN Rdb : Rdb[j].key \in Keys /\ Rdb[j].value \in Seq(Int) /\ Rdb[j].expires_at \in Int

VARIABLES
    now,              \* get_current_time_ms()
    pc,               \* how far the start is; "up" in the loop
    table,            \* the keyspace
    path,             \* aofFilePath and manifestFilePath are set
    todo,             \* what is left of the buffer being replayed
    cmd,              \* command answered, not yet written to the file, or NULL
    waiter,           \* the BLPOP that waits: key and time, or NULL
    queue,            \* commands queued by the client in MULTI
    exec,             \* EXEC is running the queue
    dir, manifest, aof,      \* on disk
    joined, link, copy,      \* a replica: commands on their way, its table
    before,           \* history: the table when the server last stopped serving
    lost,             \* history: buckets a start need not restore
    doomed,           \* history: buckets with commands the file now has twice
    redone,           \* history: the doomed ones of earlier starts
    drift,            \* history: buckets the replica need not agree on
    torn,             \* history: create_dir was once interrupted
    ops, crashes

disk == <<dir, manifest, aof>>
multi == <<queue, exec>>
replica == <<joined, link, copy, drift>>
vars == <<now, pc, table, path, todo, cmd, waiter, queue, exec, dir, manifest,
          aof, joined, link, copy, before, lost, doomed, redone, drift, torn, ops, crashes>>

Init ==
    /\ now = StartTime /\ pc = "down" /\ table = EmptyTable /\ path = FALSE
    /\ todo = <<>> /\ cmd = NULL /\ waiter = NULL
    /\ queue = <<>> /\ exec = FALSE
    /\ dir = FALSE /\ manifest = "none" /\ aof = <<>>
    /\ joined = FALSE /\ link = <<>> /\ copy = EmptyTable
    /\ before = load_rdb_into_table(EmptyTable, Rdb)
    /\ lost = {} /\ doomed = {} /\ redone = {} /\ drift = {} /\ torn = FALSE
    /\ ops = 0 /\ crashes = 0

Serving == pc \in {"started", "up"}

RdbBuckets == {hash[Rdb[j].key] : j \in DOMAIN Rdb}

\* Buckets of the commands that the file holds.
InFile == {hash[c.key] : c \in Range(aof)}

Tick ==
    /\ now < MaxTime
    /\ now' = now + 1
    /\ UNCHANGED <<pc, table, path, todo, cmd, waiter, multi, disk, replica, before,
                   lost, doomed, redone, torn, ops, crashes>>

-----------------------------------------------------------------------------
(* The start: rdb_config_handler, create_dir, load_rdb_into_table.         *)

\* yes: what the comparison of to_upper's string with "YES" gives.
rdb_config_handler(yes) ==
    /\ pc \in {"down", "failed"}
    /\ \/ /\ yes /\ ~dir
          /\ pc' = "mkdir"
          /\ UNCHANGED <<path, todo, lost>>
       \/ /\ yes /\ dir /\ manifest = "written"
          /\ path' = TRUE
          /\ todo' = aof
          /\ pc' = "replay"
          /\ UNCHANGED lost
       \/ \* fgets() of a file that is not there, or a name never read
          /\ yes /\ dir /\ manifest # "written"
          /\ pc' = "failed"
          /\ UNCHANGED <<path, todo, lost>>
       \/ /\ ~yes
          /\ pc' = "rdb"
          /\ lost' = lost \cup InFile
          /\ UNCHANGED <<path, todo>>
    /\ UNCHANGED <<now, table, cmd, waiter, multi, disk, replica, before, doomed,
                   redone, torn, ops, crashes>>

\* Mutant: the manifest is left to the first write.
create_dir_no_manifest ==
    /\ \/ /\ pc = "mkdir" /\ pc' = "open_manifest"
          /\ dir' = TRUE /\ UNCHANGED <<manifest, path>>
       \/ /\ pc = "open_manifest" /\ pc' = "rdb"
          /\ path' = TRUE /\ UNCHANGED <<dir, manifest>>
    /\ UNCHANGED <<now, table, todo, cmd, waiter, multi, aof, replica, before, lost,
                   doomed, redone, torn, ops, crashes>>

\* The directory, then the manifest, first empty, then with its line.
create_dir ==
    /\ \/ /\ pc = "mkdir" /\ pc' = "open_manifest"
          /\ dir' = TRUE /\ UNCHANGED <<manifest, path>>
       \/ /\ pc = "open_manifest" /\ pc' = "write_manifest"
          /\ manifest' = "empty" /\ UNCHANGED <<dir, path>>
       \/ /\ pc = "write_manifest" /\ pc' = "rdb"
          /\ manifest' = "written" /\ path' = TRUE /\ UNCHANGED dir
    /\ UNCHANGED <<now, table, todo, cmd, waiter, multi, aof, replica, before, lost,
                   doomed, redone, torn, ops, crashes>>

\* What parse() makes of a command of the file.
Reread(c) == [c EXCEPT !.name = findRedisCmd(@)]

\* One command of the file is handled, and so appended again.
Replay(yes) ==
    LET c == Reread(Head(todo))
    IN  /\ pc = "replay"
        /\ \/ /\ todo # <<>>
              /\ todo' = Tail(todo)
              /\ table' = Apply(table, c, now)
              /\ \/ /\ Logged(c.name) /\ yes
                    /\ aof' = Append(aof, Head(todo))
                    /\ doomed' = IF c.name = "SET" THEN doomed ELSE doomed \cup {hash[c.key]}
                    /\ UNCHANGED lost
                 \/ /\ Logged(c.name) /\ ~yes
                    /\ lost' = lost \cup {hash[c.key]}
                    /\ UNCHANGED <<aof, doomed>>
                 \/ /\ ~Logged(c.name)
                    /\ UNCHANGED <<aof, doomed, lost>>
              /\ UNCHANGED pc
           \/ /\ todo = <<>>
              /\ pc' = "rdb"
              /\ UNCHANGED <<todo, table, aof, doomed, lost>>
        /\ UNCHANGED <<now, path, cmd, waiter, multi, dir, manifest, replica, before,
                       redone, torn, ops, crashes>>

\* The RDB file is loaded over what the replay left, and the loop begins.
LoadRdb ==
    /\ pc = "rdb"
    /\ table' = load_rdb_into_table(table, Rdb)
    /\ pc' = "started"
    /\ UNCHANGED <<now, path, todo, cmd, waiter, multi, disk, replica, before, lost,
                   doomed, redone, torn, ops, crashes>>

-----------------------------------------------------------------------------
(* Commands.                                                               *)

\* The RPUSH finds a client that has waited for its key at least 1 ms.
Wakes(c) == c.name = "RPUSH" /\ waiter # NULL /\ waiter.key = c.key /\ now > waiter.at

Blocks(c) == c.name = "BLPOP" /\ ValueOf(table, c.key) = <<>>

\* The ID is the clock's, at each place where the command is run.
Clocked(c) == c.name = "XADD" /\ c.arg = Word

\* Done without a trace in the file or on the link, or with another result
\* there: t is the table after the command.
Traceless(c, t) ==
    \/ Wakes(c) \/ Clocked(c)
    \/ c.name \in {"ZADD", "GEOADD"}
    \/ c.name \in {"ZREM", "GEOSEARCH", "BLPOP"} /\ t # table

\* handle(): the table and the reply.  The file holds the commands of sorted
\* sets as UNKNOWN, the pop of a BLPOP and GEOSEARCH not at all; none of
\* them is passed on, nor what EXEC runs.  The RDB file undoes all.
handle(c) ==
    LET t == IF Wakes(c) THEN LPOP(Apply(table, c, now), c)
             ELSE IF Blocks(c) THEN table ELSE Apply(table, c, now)
        b == hash[c.key]
    IN  /\ Serving
        /\ cmd = NULL
        /\ Blocks(c) => waiter = NULL
        /\ table' = t
        /\ cmd' = c
        /\ waiter' = IF Wakes(c) THEN NULL
                     ELSE IF Blocks(c) THEN [key |-> c.key, at |-> now] ELSE waiter
        /\ lost' = IF Traceless(c, t) \/ b \in RdbBuckets THEN lost \cup {b} ELSE lost
        /\ drift' = IF Traceless(c, t) \/ (exec' /\ t # table) THEN drift \cup {b} ELSE drift
        /\ pc' = "up"
        /\ UNCHANGED <<now, path, todo, disk, joined, link, copy, before,
                       doomed, redone, torn, crashes>>

Execute(c) ==
    /\ ~exec
    /\ ops < MaxOps
    /\ ops' = ops + 1
    /\ UNCHANGED multi
    /\ handle(c)

\* pass_data_toReplica.
Passed(c) ==
    IF joined /\ isWriteCmd(c.name) THEN Append(link, [c EXCEPT !.name = cmd_to_string(@)])
    ELSE link

\* Mutant: the file is opened for writing instead of appending.
AppendedOver(c) == <<[c EXCEPT !.name = cmd_to_string(@)]>>

\* The file after write_to_file.
Appended(c) == Append(aof, [c EXCEPT !.name = cmd_to_string(@)])

\* write_to_file and pass_data_toReplica of the command just answered.
Finish(yes) ==
    /\ cmd # NULL
    /\ \/ /\ Logged(cmd.name) /\ yes /\ path
          /\ aof' = Appended(cmd)
          /\ UNCHANGED lost
       \/ /\ Logged(cmd.name) /\ ~yes
          /\ lost' = lost \cup {hash[cmd.key]}
          /\ UNCHANGED aof
       \/ /\ ~Logged(cmd.name)
          /\ UNCHANGED <<aof, lost>>
    /\ link' = IF exec THEN link ELSE Passed(cmd)
    /\ cmd' = NULL
    /\ exec' = (exec /\ queue # <<>>)
    /\ UNCHANGED <<now, pc, table, path, todo, waiter, queue, dir, manifest, joined, copy,
                   before, doomed, redone, drift, torn, ops, crashes>>

\* handle() of a command of the client in MULTI; the loop passes it on.
Queue(c) ==
    /\ Serving /\ cmd = NULL /\ ~exec
    /\ ops < MaxOps
    /\ queue' = Append(queue, c)
    /\ link' = Passed(c)
    /\ drift' = IF link' # link THEN drift \cup {hash[c.key]} ELSE drift
    /\ ops' = ops + 1
    /\ UNCHANGED <<now, pc, table, path, todo, cmd, waiter, exec, disk, joined, copy,
                   before, lost, doomed, redone, torn, crashes>>

\* The first or the next command of the queue.
handle_exec ==
    /\ queue # <<>>
    /\ exec' = TRUE
    /\ queue' = Tail(queue)
    /\ handle(Head(queue))
    /\ UNCHANGED ops

\* Also the EXEC of a dirty client and the end of its connection.
handle_discard ==
    /\ Serving /\ cmd = NULL /\ ~exec /\ queue # <<>>
    /\ queue' = <<>>
    /\ UNCHANGED <<now, pc, table, path, todo, cmd, waiter, exec, disk, replica,
                   before, lost, doomed, redone, torn, ops, crashes>>

\* A replica joins: PSYNC answers with an empty RDB, whatever the table holds.
Join ==
    /\ Serving /\ cmd = NULL /\ ~exec /\ ~joined
    /\ crashes < MaxFollowed
    /\ joined' = TRUE
    /\ drift' = {b \in Buckets : table[b] # <<>>}
    /\ UNCHANGED <<now, pc, table, path, todo, cmd, waiter, multi, disk, link, copy,
                   before, lost, doomed, redone, torn, ops, crashes>>

\* The replica handles a command of its master.
Follow ==
    /\ link # <<>>
    /\ copy' = Apply(copy, Reread(Head(link)), now)
    /\ link' = Tail(link)
    /\ UNCHANGED <<now, pc, table, path, todo, cmd, waiter, multi, disk, joined, before,
                   lost, doomed, redone, drift, torn, ops, crashes>>

-----------------------------------------------------------------------------
\* The process ends.  Its replica gets no more from it.
End ==
    /\ pc' = "down"
    /\ table' = EmptyTable /\ path' = FALSE /\ todo' = <<>>
    /\ cmd' = NULL /\ waiter' = NULL /\ queue' = <<>> /\ exec' = FALSE
    /\ joined' = FALSE /\ link' = <<>> /\ copy' = EmptyTable /\ drift' = {}
    /\ before' = IF Serving THEN table ELSE before
    /\ lost' = IF cmd = NULL THEN lost ELSE lost \cup {hash[cmd.key]}
    /\ redone' = redone \cup doomed \cup (IF pc = "replay" THEN InFile ELSE {})
    /\ doomed' = {}
    /\ torn' = (torn \/ pc \in {"open_manifest", "write_manifest"})
    /\ UNCHANGED <<now, disk, ops>>

\* At any point of the start and of the loop.
Crash ==
    /\ pc \notin {"down", "failed"}
    /\ crashes < MaxCrashes
    /\ crashes' = crashes + 1
    /\ End

\* write_to_file before a start found or made the manifest: fgets(NULL).
NoManifest ==
    /\ cmd # NULL /\ Logged(cmd.name) /\ ~path
    /\ UNCHANGED crashes
    /\ End

Next ==
    \/ Tick \/ create_dir \/ LoadRdb \/ Join \/ Follow \/ Crash \/ NoManifest
    \/ \E yes \in BOOLEAN : rdb_config_handler(yes) \/ Replay(yes) \/ Finish(yes)
    \/ \E c \in Cmds : Execute(c) \/ Queue(c)
    \/ handle_exec \/ handle_discard

Spec == Init /\ [][Next]_vars

-----------------------------------------------------------------------------
Records == [name : RedisCmds \cup {"UNKNOWN"}, key : Keys, arg : Int, ttl : Int]

Entries == [key : Keys, type : Types, value : Seq(Int), expires_at : Int]

Chains == Seq(Entries)

(* The tables hold chains of entries of the four types, the file holds     *)
(* commands, and the start goes through its steps.                         *)
TypeOK ==
    /\ now \in Nat
    /\ pc \in {"down", "failed", "mkdir", "open_manifest", "write_manifest",
               "replay", "rdb", "started", "up"}
    /\ table \in [Buckets -> Chains] /\ copy \in [Buckets -> Chains]
    /\ before \in [Buckets -> Chains]
    /\ path \in BOOLEAN /\ dir \in BOOLEAN /\ joined \in BOOLEAN /\ torn \in BOOLEAN
    /\ todo \in Seq(Records) /\ aof \in Seq(Records) /\ link \in Seq(Records)
    /\ cmd \in Records \cup {NULL} /\ queue \in Seq(Cmds) /\ exec \in BOOLEAN
    /\ manifest \in {"none", "empty", "written"}
    /\ waiter = NULL \/ waiter \in [key : Keys, at : Nat]
    /\ {lost, doomed, redone, drift} \subseteq SUBSET Buckets
    /\ ops \in Nat /\ crashes \in Nat

Strip(E) == {[e EXCEPT !.expires_at = 0] : e \in E}

\* The key has in t the value it has in s, and expires no earlier.
Kept(s, t, k) ==
    /\ Strip(store_getEntry(s, k)) = Strip(store_getEntry(t, k))
    /\ \A d \in store_getEntry(s, k), e \in store_getEntry(t, k) :
          IF d.expires_at = 0 THEN e.expires_at = 0 ELSE e.expires_at >= d.expires_at

(* A start brings back what every key held when the process ended, with a  *)
(* deadline no earlier, unless there is a cause for its bucket: a command  *)
(* whose append was skipped or still to come, a pop of BLPOP, a sorted     *)
(* set, an XADD that left its ID to the clock, a change of a bucket the    *)
(* RDB file is loaded into, a start that did not read the file, or         *)
(* commands an earlier start appended a second time.                       *)
LossHasCause ==
    pc = "started" =>
        \A k \in Keys : hash[k] \in lost \cup redone \/ Kept(before, table, k)

(* "AOF persistence: writing commands to append-only file, replaying on    *)
(* startup" (README): a start brings back what the keys held when every    *)
(* command was appended and none went without a trace.                     *)
RestartRestores ==
    pc = "started" => \A k \in Keys : hash[k] \in lost \/ Kept(before, table, k)

(* A start fails for want of a manifest only after one that was cut short  *)
(* between mkdir() and the end of create_dir; nothing else, a crash in any *)
(* other place included, leaves a directory that cannot be started from.   *)
UnbootableHasCause == pc = "failed" => torn

(* A replica that has handled all it was passed agrees with its master on  *)
(* every key, unless its bucket held data when the replica joined, or was  *)
(* used by a pop of BLPOP, a sorted-set command, an XADD that left its ID  *)
(* to the clock, or a MULTI: a write it queued, whether EXEC, DISCARD or   *)
(* nothing followed, or a change its EXEC made.                            *)
ReplicaDriftHasCause ==
    joined /\ link = <<>> /\ cmd = NULL =>
        \A k \in Keys : hash[k] \in drift
                         \/ Strip(store_getEntry(table, k)) = Strip(store_getEntry(copy, k))

(* A command changes no entry but its key's; the one exception is the head *)
(* of the bucket, which a command that makes a list, a stream or a sorted  *)
(* set takes.                                                              *)
OthersKept ==
    [][\A k \in Keys :
          (/\ cmd = NULL /\ cmd' # NULL /\ cmd'.key # k
           /\ store_getEntry(table', k) # store_getEntry(table, k))
              => /\ TypeOf(cmd'.name) # "string"
                 /\ store_getEntry(table, cmd'.key) = {}
                 /\ table[hash[k]][1].key = k]_vars

(* A key whose deadline has passed is not shown again by the passing of    *)
(* time or by commands on other keys: only by a SET or an INCR of it.      *)
ExpiredStaysGone ==
    [][\A k \in Keys :
          (/\ Serving /\ Serving'
           /\ store_getEntry(table, k) # {} /\ store_get(table, k, now) = {}
           /\ store_get(table', k, now') # {})
              => cmd' # NULL /\ cmd'.key = k /\ cmd'.name \in {"SET", "INCR"}]_vars
=============================================================================
