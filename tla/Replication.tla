---------------------------- MODULE Replication ----------------------------
(***************************************************************************)
(* A master, its replicas and the clients that write and WAIT              *)
(* (utility_handler.c; PSYNC and REPLCONF in handler.c; propagation, the   *)
(* handshake and the WAIT part of the event loop in main.c).               *)
(*                                                                         *)
(* Writes are numbered in the order the master receives them.  A write     *)
(* command is WriteLen bytes long and is passed on as it came, GETACK is   *)
(* GetAckLen bytes.  Each connection is a FIFO.  A replica is a process of *)
(* its own.  A client sends a command only after the answer to the one     *)
(* before; nobody here uses XREAD or BLPOP.  The sweep is the part of an   *)
(* iteration of the event loop between poll() and the serving of the       *)
(* descriptors.                                                            *)
(*                                                                         *)
(* The process of a replica may end at any time; until the loop reads the  *)
(* end of its connection the master goes on sending to it.  What is sent   *)
(* to a process that has ended is answered with a reset, and so is its end *)
(* when it leaves commands unread; a send() after the reset has arrived    *)
(* raises SIGPIPE, which nothing ignores, and the master ends.  The module *)
(* ends with it.                                                           *)
(***************************************************************************)
EXTENDS Integers, Sequences, FiniteSets, Functions

CONSTANTS
    Clients, Replicas,
    WriteLen, GetAckLen,
    Wanted,      \* bound: the numbers of replicas WAIT asks for
    Timeouts,    \* bound: the timeouts of WAIT, in ms; 0 is none
    MaxTime,     \* bound: the clock
    MaxWrites,   \* bound: writes received
    MaxWaits,    \* bound: WAITs that block
    MaxJoins,    \* bound: handshakes of one replica
    NoClient

ASSUME ReplicationAssumption ==
    /\ WriteLen \in Nat \ {0} /\ GetAckLen \in Nat \ {0}
    /\ Wanted \subseteq Nat /\ Timeouts \subseteq Nat
    /\ MaxTime \in Nat /\ MaxWrites \in Nat /\ MaxWaits \in Nat /\ MaxJoins \in Nat
    /\ NoClient \notin Clients

VARIABLES
    now,
    writes,      \* number of write commands received
    executed,    \* the writes the master's data reflects
    queued,      \* of Client: the writes in its MULTI
    is_queued,
    master_repl_offset, captured_master_offset, wantedReplicas, wait_client_fd,
    is_blocked, is_waiting, timeout_at,   \* of Client
    waits,       \* history: number of WAITs that blocked
    is_replica, repl_offset,    \* of the Client of a replica
    joins,       \* history: handshakes of the replica
    joined,      \* history: writes received before its PSYNC
    link,        \* commands on their way to the replica
    acks,        \* offsets on their way back
    slave_repl_offset, applied, \* of the replica; applied is its data
    ended,       \* its process has ended, and the master has not noticed
    reset,       \* its connection is reset
    alive        \* the master runs

clientVars == <<queued, is_queued, is_blocked, is_waiting, timeout_at>>
waitVars == <<captured_master_offset, wantedReplicas, wait_client_fd, waits>>
peerVars == <<slave_repl_offset, applied>>
linkVars == <<is_replica, repl_offset, joins, joined, link, acks>>
masterVars == <<writes, executed, master_repl_offset>>
endVars == <<ended, reset, alive>>
vars == <<now, clientVars, waitVars, peerVars, linkVars, masterVars, endVars>>

GETACK == 0     \* writes are numbered from 1

Init ==
    /\ now = 0
    /\ writes = 0 /\ executed = {}
    /\ queued = [c \in Clients |-> {}]
    /\ is_queued = [c \in Clients |-> FALSE]
    /\ master_repl_offset = 0
    /\ captured_master_offset = 0 /\ wantedReplicas = 0
    /\ wait_client_fd = NoClient /\ waits = 0
    /\ is_blocked = [c \in Clients |-> FALSE]
    /\ is_waiting = [c \in Clients |-> FALSE]
    /\ timeout_at = [c \in Clients |-> 0]
    /\ is_replica = [r \in Replicas |-> FALSE]
    /\ repl_offset = [r \in Replicas |-> 0]
    /\ joins = [r \in Replicas |-> 0]
    /\ joined = [r \in Replicas |-> 0]
    /\ link = [r \in Replicas |-> <<>>]
    /\ acks = [r \in Replicas |-> <<>>]
    /\ slave_repl_offset = [r \in Replicas |-> 0]
    /\ applied = [r \in Replicas |-> {}]
    /\ ended = [r \in Replicas |-> FALSE]
    /\ reset = [r \in Replicas |-> FALSE]
    /\ alive = TRUE

Tick ==
    /\ alive
    /\ now < MaxTime
    /\ now' = now + 1
    /\ UNCHANGED <<clientVars, waitVars, peerVars, linkVars, masterVars, endVars>>

-----------------------------------------------------------------------------
(* Writes.                                                                 *)

\* The replicas that have ended and are still sent to.
Dead == {r \in Replicas : is_replica[r] /\ ended[r]}

\* Mutant: a replica with an unanswered command is skipped.
SendToIdleReplicas(m) ==
    /\ link' = [r \in Replicas |->
                   IF is_replica[r] /\ link[r] = <<>> THEN Append(link[r], m) ELSE link[r]]
    /\ reset' = [r \in Replicas |-> reset[r] \/ r \in Dead]

\* send() of one command to every replica.
SendToReplicas(m) ==
    /\ link' = [r \in Replicas |-> IF is_replica[r] THEN Append(link[r], m) ELSE link[r]]
    /\ reset' = [r \in Replicas |-> reset[r] \/ r \in Dead]

\* pass_data_toReplica and the offset of the master, after handle().  Whether
\* handle() executed the command or queued it makes no difference.
Propagate ==
    /\ writes < MaxWrites
    /\ writes' = writes + 1
    /\ master_repl_offset' = master_repl_offset + WriteLen
    /\ SendToReplicas(writes')
    /\ UNCHANGED <<is_replica, repl_offset, joins, joined, acks, ended, alive>>

Write(c) ==
    /\ alive /\ ~is_blocked[c] /\ ~is_queued[c]
    /\ Propagate
    /\ executed' = executed \cup {writes'}
    /\ UNCHANGED <<now, clientVars, waitVars, peerVars>>

QueueWrite(c) ==
    /\ alive /\ ~is_blocked[c] /\ is_queued[c]
    /\ Propagate
    /\ queued' = [queued EXCEPT ![c] = @ \cup {writes'}]
    /\ UNCHANGED <<now, executed, is_queued, is_blocked, is_waiting, timeout_at,
                   waitVars, peerVars>>

MULTI(c) ==
    /\ alive /\ ~is_blocked[c] /\ ~is_queued[c]
    /\ is_queued' = [is_queued EXCEPT ![c] = TRUE]
    /\ UNCHANGED <<now, queued, is_blocked, is_waiting, timeout_at,
                   waitVars, peerVars, linkVars, masterVars, endVars>>

\* EXEC is no write command: what it runs is not passed on again.  DISCARD, or
\* EXEC of a dirty client, runs nothing.
EndMulti(c, runs) ==
    /\ alive /\ ~is_blocked[c] /\ is_queued[c]
    /\ executed' = executed \cup (IF runs THEN queued[c] ELSE {})
    /\ queued' = [queued EXCEPT ![c] = {}]
    /\ is_queued' = [is_queued EXCEPT ![c] = FALSE]
    /\ UNCHANGED <<now, writes, master_repl_offset, is_blocked, is_waiting, timeout_at,
                   waitVars, peerVars, linkVars, endVars>>

-----------------------------------------------------------------------------
(* Replicas.                                                               *)

\* The PSYNC that ends the handshake.  The RDB sent is empty, and the offset
\* sent with FULLRESYNC is not used by the replica.
PSYNC(r) ==
    /\ alive /\ ~is_replica[r]
    /\ joins[r] < MaxJoins
    /\ is_replica' = [is_replica EXCEPT ![r] = TRUE]
    /\ repl_offset' = [repl_offset EXCEPT ![r] = 0]
    /\ joins' = [joins EXCEPT ![r] = @ + 1]
    /\ joined' = [joined EXCEPT ![r] = writes]
    /\ slave_repl_offset' = [slave_repl_offset EXCEPT ![r] = 0]
    /\ applied' = [applied EXCEPT ![r] = {}]
    /\ UNCHANGED <<now, clientVars, waitVars, link, acks, masterVars, endVars>>

\* The process of a replica ends, also in the middle of its work.
Leave(r) ==
    /\ alive /\ is_replica[r] /\ ~ended[r]
    /\ ended' = [ended EXCEPT ![r] = TRUE]
    /\ reset' = [reset EXCEPT ![r] = link[r] # <<>>]
    /\ UNCHANGED <<now, clientVars, waitVars, peerVars, linkVars, masterVars, alive>>

\* The loop has read what the replica sent, reads the end of the connection and
\* frees the slot.
Disconnected(r) ==
    /\ alive /\ r \in Dead /\ acks[r] = <<>>
    /\ is_replica' = [is_replica EXCEPT ![r] = FALSE]
    /\ link' = [link EXCEPT ![r] = <<>>]
    /\ ended' = [ended EXCEPT ![r] = FALSE]
    /\ reset' = [reset EXCEPT ![r] = FALSE]
    /\ UNCHANGED <<now, clientVars, waitVars, peerVars, repl_offset, joins, joined, acks,
                   masterVars, alive>>

\* The length of the commands s in bytes.
Bytes(s) ==
    LET upTo[n \in 0 .. Len(s)] ==
            IF n = 0 THEN 0
            ELSE upTo[n - 1] + (IF s[n] = GETACK THEN GetAckLen ELSE WriteLen)
    IN  upTo[Len(s)]

\* Mutant: everything received is counted, also what is not yet handled.
AckReceived(r) == slave_repl_offset[r] + Bytes(link[r])

\* replconf_handle_getack: the offset before the GETACK is counted.
AckedOffset(r) == slave_repl_offset[r]

\* The replica reads the next command of the master.
ReplicaHandle(r) ==
    /\ alive /\ ~ended[r] /\ link[r] # <<>>
    /\ link' = [link EXCEPT ![r] = Tail(@)]
    /\ \/ /\ Head(link[r]) # GETACK
          /\ applied' = [applied EXCEPT ![r] = @ \cup {Head(link[r])}]
          /\ slave_repl_offset' = [slave_repl_offset EXCEPT ![r] = @ + WriteLen]
          /\ UNCHANGED acks
       \/ /\ Head(link[r]) = GETACK
          /\ acks' = [acks EXCEPT ![r] = Append(@, AckedOffset(r))]
          /\ slave_repl_offset' = [slave_repl_offset EXCEPT ![r] = @ + GetAckLen]
          /\ UNCHANGED applied
    /\ UNCHANGED <<now, clientVars, waitVars, is_replica, repl_offset, joins, joined,
                   masterVars, endVars>>

replconf_handle_ack(r) ==
    /\ alive /\ acks[r] # <<>>
    /\ repl_offset' = [repl_offset EXCEPT ![r] = Head(acks[r])]
    /\ acks' = [acks EXCEPT ![r] = Tail(@)]
    /\ UNCHANGED <<now, clientVars, waitVars, peerVars, is_replica, joins, joined, link,
                   masterVars, endVars>>

-----------------------------------------------------------------------------
(* WAIT.                                                                   *)

\* The replicas counted for a captured offset.
CaughtUp(captured) == {r \in Replicas : is_replica[r] /\ repl_offset[r] >= captured}

\* Mutant: no timeout is stored as -1, the way poll() takes it.
NegativeDeadline(ms) == IF ms = 0 THEN -1 ELSE now + ms

Deadline(ms) == IF ms = 0 THEN 0 ELSE now + ms

\* The offset and the number wanted are stored before it is known whether
\* the client has to wait, and replace those of a client that waits.
WAIT(c, wanted, ms) ==
    /\ alive /\ ~is_blocked[c] /\ ~is_queued[c]
    /\ captured_master_offset' = master_repl_offset
    /\ wantedReplicas' = wanted
    /\ \/ /\ Cardinality(CaughtUp(master_repl_offset)) >= wanted
          /\ UNCHANGED <<clientVars, wait_client_fd, waits, linkVars, reset>>
       \/ /\ Cardinality(CaughtUp(master_repl_offset)) < wanted
          /\ waits < MaxWaits
          /\ ms = 0 \/ now + ms <= MaxTime
          /\ waits' = waits + 1
          /\ wait_client_fd' = c
          /\ SendToReplicas(GETACK)
          /\ is_waiting' = [is_waiting EXCEPT ![c] = TRUE]
          /\ is_blocked' = [is_blocked EXCEPT ![c] = TRUE]
          /\ timeout_at' = [timeout_at EXCEPT ![c] = Deadline(ms)]
          /\ UNCHANGED <<queued, is_queued, is_replica, repl_offset, joins, joined, acks>>
    /\ UNCHANGED <<now, peerVars, masterVars, ended, alive>>

\* The send of a write, or of the GETACK of a WAIT that has to wait, to a replica
\* that has ended raises SIGPIPE.
Broken(c) ==
    /\ alive /\ ~is_blocked[c]
    /\ \/ writes < MaxWrites
       \/ /\ ~is_queued[c] /\ waits < MaxWaits
          /\ \E wanted \in Wanted : Cardinality(CaughtUp(master_repl_offset)) < wanted
    /\ \E r \in Dead : reset[r]
    /\ alive' = FALSE
    /\ UNCHANGED <<now, clientVars, waitVars, peerVars, linkVars, masterVars, ended, reset>>

TimedOut(c) == timeout_at[c] # 0 /\ now >= timeout_at[c]

\* The clients the XREAD part of the sweep answers with a null array.
XreadTimeouts == {c \in Clients : is_blocked[c] /\ TimedOut(c) /\ ~is_waiting[c]}

\* Mutant: the waiting client's timeout is not looked at.
WaitEndsByCount ==
    /\ wait_client_fd # NoClient
    /\ Cardinality(CaughtUp(captured_master_offset)) >= wantedReplicas

\* The WAIT of wait_client_fd is answered.
WaitEnds ==
    /\ wait_client_fd # NoClient
    /\ \/ Cardinality(CaughtUp(captured_master_offset)) >= wantedReplicas
       \/ TimedOut(wait_client_fd)

\* Mutant: wait_client_fd is not reset.
KeepWaiter == UNCHANGED wait_client_fd

ClearWaiter == wait_client_fd' = NoClient

\* is_waiting is cleared for every client, is_blocked for the one answered.
Sweep ==
    /\ alive /\ (XreadTimeouts # {} \/ WaitEnds)
    /\ is_blocked' = [c \in Clients |->
           is_blocked[c] /\ c \notin XreadTimeouts /\ ~(WaitEnds /\ c = wait_client_fd)]
    /\ is_waiting' = [c \in Clients |-> is_waiting[c] /\ ~WaitEnds]
    /\ IF WaitEnds THEN ClearWaiter ELSE UNCHANGED wait_client_fd
    /\ UNCHANGED <<now, queued, is_queued, timeout_at, captured_master_offset, wantedReplicas,
                   waits, peerVars, linkVars, masterVars, endVars>>

-----------------------------------------------------------------------------
Next ==
    \/ Tick \/ Sweep
    \/ \E c \in Clients :
          \/ Write(c) \/ QueueWrite(c) \/ MULTI(c) \/ Broken(c)
          \/ \E runs \in BOOLEAN : EndMulti(c, runs)
          \/ \E wanted \in Wanted, ms \in Timeouts : WAIT(c, wanted, ms)
    \/ \E r \in Replicas :
          \/ PSYNC(r) \/ Leave(r) \/ Disconnected(r)
          \/ ReplicaHandle(r) \/ replconf_handle_ack(r)

Spec == Init /\ [][Next]_vars

\* Time passes, both event loops keep running and sockets deliver.
Fairness ==
    /\ WF_vars(Tick) /\ WF_vars(Sweep)
    /\ \A r \in Replicas : WF_vars(ReplicaHandle(r)) /\ WF_vars(replconf_handle_ack(r))

FairSpec == Spec /\ Fairness
-----------------------------------------------------------------------------
SentWrites(r) == Range(link[r]) \ {GETACK}

(* The offsets, the fields of Client and the data of the replicas have     *)
(* their types.                                                            *)
TypeOK ==
    /\ now \in Nat /\ writes \in Nat /\ waits \in Nat
    /\ executed \subseteq Nat
    /\ queued \in [Clients -> SUBSET Nat]
    /\ is_queued \in [Clients -> BOOLEAN]
    /\ master_repl_offset \in Nat /\ captured_master_offset \in Nat
    /\ wantedReplicas \in Nat
    /\ wait_client_fd \in Clients \cup {NoClient}
    /\ is_blocked \in [Clients -> BOOLEAN]
    /\ is_waiting \in [Clients -> BOOLEAN]
    /\ timeout_at \in [Clients -> Nat]
    /\ is_replica \in [Replicas -> BOOLEAN]
    /\ repl_offset \in [Replicas -> Nat]
    /\ joins \in [Replicas -> Nat]
    /\ joined \in [Replicas -> Nat]
    /\ link \in [Replicas -> Seq(Nat)]
    /\ acks \in [Replicas -> Seq(Nat)]
    /\ slave_repl_offset \in [Replicas -> Nat]
    /\ applied \in [Replicas -> SUBSET Nat]
    /\ ended \in [Replicas -> BOOLEAN] /\ reset \in [Replicas -> BOOLEAN]
    /\ alive \in BOOLEAN

(* What the master knows of a replica only grows and never exceeds what    *)
(* the replica has read: the recorded offset, the acknowledgements on      *)
(* their way and the replica's own offset are in order, also while a       *)
(* replica that has ended keeps its slot and what it sent is read.         *)
AcksInOrder ==
    \A r \in Replicas : is_replica[r] =>
        /\ repl_offset[r] <= slave_repl_offset[r]
        /\ \A n \in DOMAIN acks[r] : acks[r][n] \in repl_offset[r] .. slave_repl_offset[r]
        /\ \A m, n \in DOMAIN acks[r] : m <= n => acks[r][m] <= acks[r][n]

(* A replica's offset and the bytes on their way to it account for every   *)
(* byte of the writes since its PSYNC, and beyond them only for GETACKs,   *)
(* at most one per WAIT that blocked, also when it has ended unnoticed.    *)
OffsetsAccounted ==
    \A r \in Replicas : is_replica[r] =>
        \E n \in 0 .. waits :
            slave_repl_offset[r] + Bytes(link[r])
                = master_repl_offset - joined[r] * WriteLen + n * GetAckLen

(* No write is lost or passed on twice: a replica has applied, or will     *)
(* receive if its process goes on, exactly the writes the master received  *)
(* since the PSYNC.                                                        *)
WritesReachReplicas ==
    \A r \in Replicas : is_replica[r] =>
        /\ applied[r] \cup SentWrites(r) = joined[r] + 1 .. writes
        /\ applied[r] \cap SentWrites(r) = {}

(* The client that the sweep would answer is blocked in WAIT, so that no   *)
(* WAIT is answered twice, nor a client that has gone on to something else.*)
WaiterWaits ==
    wait_client_fd # NoClient => is_blocked[wait_client_fd] /\ is_waiting[wait_client_fd]

(* A WAIT with a timeout ends, also when replicas end and when other WAITs *)
(* replace it in wait_client_fd, unless one without a timeout does: that   *)
(* one keeps the sweep from clearing is_waiting of the client it replaced. *)
(* Only SIGPIPE, after a replica has ended, may end the master before.     *)
TimedWaitEnds ==
    \A c \in Clients :
        (is_blocked[c] /\ timeout_at[c] # 0)
            ~> \/ ~is_blocked[c]
               \/ wait_client_fd # NoClient /\ timeout_at[wait_client_fd] = 0
               \/ ~alive /\ Dead # {}

(* The replicas WAIT counts, "currently connected replicas that are caught *)
(* up to date with master server", have applied every write passed on to   *)
(* them.                                                                   *)
CountedAreCaughtUp ==
    \A r \in CaughtUp(master_repl_offset) : SentWrites(r) = {}
=============================================================================
