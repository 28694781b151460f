----------------------------- MODULE Handshake -----------------------------
(***************************************************************************)
(* Servers that are replicas of each other: the handshake a replica goes   *)
(* through before its own loop runs (replicaofHandler, do_slave_handshake  *)
(* in main.c), the master's answers, and the stream of commands that       *)
(* follows, received in pieces and parsed piece by piece (parser.c).       *)
(*                                                                         *)
(* A server listens before it connects, and answers only in its loop; its  *)
(* recv() calls have no time-out.  Connections are lists of tokens, and a  *)
(* recv() takes any number of those that have arrived, at most a buffer.   *)
(* A command is two tokens, its head and its rest.  The rest of a GETACK   *)
(* holds the argument "*", which alone looks like the start of a request.  *)
(* No cut is within a token: a length line cut in two makes parse() step   *)
(* over the end of the buffer.                                             *)
(*                                                                         *)
(* Nothing ignores SIGPIPE.  What is sent to a process that has ended is   *)
(* answered with a reset, and so is its end when it leaves data unread; a  *)
(* send() after the reset has arrived ends the sender.  Whether it has     *)
(* arrived is the network's choice.                                        *)
(***************************************************************************)
EXTENDS Integers, Sequences, FiniteSets, SequencesExt, FiniteSetsExt

CONSTANTS
    Servers,
    Graphs,        \* the functions that say whose replica each server is
    BufSize,       \* tokens a recv() takes at most (4095 bytes)
    MaxCmds,       \* bound: commands a master passes on
    MaxStops,      \* bound: processes that end
    NULL

ASSUME HandshakeAssumption ==
    /\ BufSize \in Nat \ {0}
    /\ MaxCmds \in Nat /\ MaxStops \in Nat
    /\ NULL \notin Servers
    /\ Graphs \subseteq [Servers -> Servers \cup {NULL}]

VARIABLES
    master_of,     \* --replicaof of each server, or NULL
    pc,            \* how far the start of each server is
    up,            \* requests each server has sent to its master
    down,          \* tokens on their way from its master
    psync_seen,    \* the master has seen its PSYNC (is_replica of its client)
    conn,          \* "open"; "reset" by an end that has closed; "dropped" by the master
    linked,        \* the master's socket is in its watch_list
    remaining,     \* tokens of the RDB drain_rdb has still to receive
    handled,       \* commands of the master it has executed
    offset,        \* slave_repl_offset, in tokens
    passed,        \* history: commands passed to it
    cut,           \* history: commands a recv() of it cut in two
    killed,        \* history: servers that SIGPIPE ended
    cmds, stops

history == <<handled, offset, passed, cut, cmds>>
ends == <<killed, stops>>
handshakeVars == <<master_of, pc, up, down, psync_seen, conn, linked, remaining, handled,
          offset, passed, cut, killed, cmds, stops>>

HandshakeInit ==
    /\ master_of \in Graphs
    /\ pc = [s \in Servers |-> "off"]
    /\ up = [s \in Servers |-> <<>>]
    /\ down = [s \in Servers |-> <<>>]
    /\ psync_seen = [s \in Servers |-> FALSE]
    /\ conn = [s \in Servers |-> "open"]
    /\ linked = [s \in Servers |-> FALSE]
    /\ remaining = [s \in Servers |-> 0]
    /\ handled = [s \in Servers |-> <<>>]
    /\ offset = [s \in Servers |-> 0]
    /\ passed = [s \in Servers |-> <<>>]
    /\ cut = [s \in Servers |-> {}]
    /\ killed = {}
    /\ cmds = 0
    /\ stops = 0

Token(kind, n) == [kind |-> kind, n |-> n]

Reply(name) == Token(name, 0)

Ended(s) == pc[s] = "gone"

ReplicasOf(m) ==
    {s \in Servers : master_of[s] = m /\ psync_seen[s] /\ conn[s] # "dropped"}

-----------------------------------------------------------------------------
(* The end of a process.                                                   *)

Goto(s, label) == pc' = [pc EXCEPT ![s] = label]

\* The connections on which s leaves something unread.
Unread(s) ==
    {r \in Servers : \/ master_of[r] = s /\ up[r] # <<>>
                     \/ r = s /\ down[r] # <<>>}

\* The kernel closes the sockets of s.
Ends(s) ==
    /\ Goto(s, "gone")
    /\ conn' = [r \in Servers |->
          IF r \in Unread(s) /\ conn[r] = "open" THEN "reset" ELSE conn[r]]

\* What arrives at r when its master ends: all that was sent, or, when the end
\* came between the sends of the answer to PSYNC, that without the RDB.
Arrives(r, partly) ==
    LET d == down[r]
    IN  IF partly /\ d # <<>> /\ Last(d) = Reply("RDB")
        THEN SubSeq(d, 1, Min({i \in DOMAIN d : d[i] = Reply("RDB")}) - 1) ELSE d

\* A process is stopped.
Stop(s, partly) ==
    /\ pc[s] \notin {"off", "gone"}
    /\ stops < MaxStops
    /\ stops' = stops + 1
    /\ Ends(s)
    /\ down' = [r \in Servers |-> IF master_of[r] = s THEN Arrives(r, partly) ELSE down[r]]
    /\ UNCHANGED <<master_of, up, psync_seen, linked, remaining, history, killed>>

\* A send() of s raises SIGPIPE.  Nothing s had received remains.
Sigpipe(s) ==
    /\ Ends(s)
    /\ killed' = killed \cup {s}
    /\ UNCHANGED <<master_of, up, down, psync_seen, linked, remaining, history, stops>>

-----------------------------------------------------------------------------
(* The master's side.                                                      *)

RdbSize == 2       \* tokens of the RDB

\* FULLRESYNC, the header of the RDB and its bytes.
Resync == <<Reply("FULLRESYNC"), Reply("HEADER"), Reply("RDB"), Reply("RDB")>>

\* handle() of a request of the handshake.
Answer(m, s) ==
    /\ pc[m] = "loop" /\ master_of[s] = m /\ up[s] # <<>>
    /\ up' = [up EXCEPT ![s] = Tail(@)]
    /\ \/ /\ Head(up[s]) = "PING"
          /\ down' = [down EXCEPT ![s] = Append(@, Reply("PONG"))]
          /\ UNCHANGED psync_seen
       \/ /\ Head(up[s]) = "REPLCONF"
          /\ down' = [down EXCEPT ![s] = Append(@, Reply("OK"))]
          /\ UNCHANGED psync_seen
       \/ /\ Head(up[s]) = "PSYNC"
          /\ down' = [down EXCEPT ![s] = @ \o Resync]
          /\ psync_seen' = [psync_seen EXCEPT ![s] = TRUE]
    /\ conn' = [conn EXCEPT ![s] = IF Ended(s) THEN "reset" ELSE @]
    /\ UNCHANGED <<master_of, pc, linked, remaining, history, ends>>

\* The answer ends the master: PSYNC is answered by three sends.
AnswerBreaks(m, s) ==
    /\ pc[m] = "loop" /\ master_of[s] = m /\ up[s] # <<>>
    /\ Ended(s) /\ (conn[s] = "reset" \/ Head(up[s]) = "PSYNC")
    /\ Sigpipe(m)

\* A client's write, or the GETACK of a WAIT, goes to every replica in turn,
\* unless the send to one that has ended raises SIGPIPE.
pass_data_toReplica(m, kind, sent) ==
    LET n == cmds + 1
        R == ReplicasOf(m)
    IN  /\ pc[m] = "loop" /\ R # {} /\ sent \subseteq R
        /\ n <= MaxCmds
        /\ cmds' = n
        /\ down' = [s \in Servers |->
              IF s \in sent THEN down[s] \o <<Token("head", n), Token(kind, n)>> ELSE down[s]]
        /\ passed' = [s \in Servers |->
              IF s \in sent THEN Append(passed[s], n) ELSE passed[s]]
        /\ \/ /\ sent = R
              /\ conn' = [s \in Servers |->
                    IF s \in sent /\ Ended(s) THEN "reset" ELSE conn[s]]
              /\ UNCHANGED <<pc, killed>>
           \/ /\ \E s \in R \ sent : Ended(s) /\ conn[s] = "reset"
              /\ Ends(m)
              /\ killed' = killed \cup {m}
        /\ UNCHANGED <<master_of, up, psync_seen, linked, remaining, handled,
                       offset, cut, stops>>

\* The loop reads the end of a replica and frees its slot.
Drop(m, s) ==
    /\ pc[m] = "loop" /\ s \in ReplicasOf(m)
    /\ Ended(s) /\ up[s] = <<>>
    /\ conn' = [conn EXCEPT ![s] = "dropped"]
    /\ UNCHANGED <<master_of, pc, up, down, psync_seen, linked, remaining, history, ends>>

-----------------------------------------------------------------------------
(* The replica's side.                                                     *)

\* replicaofHandler: listen, connect, send PING.  The first recv() on a
\* socket that is not connected fails at once, and so does the handshake.
replicaofHandler(s) ==
    LET m == master_of[s]
        listening == m # NULL /\ (m = s \/ pc[m] \notin {"off", "gone"})
    IN  /\ pc[s] = "off"
        /\ pc' = [pc EXCEPT ![s] = IF listening THEN "ping" ELSE "loop"]
        /\ up' = [up EXCEPT ![s] = IF listening THEN <<"PING">> ELSE <<>>]
        /\ UNCHANGED <<master_of, down, psync_seen, conn, linked, remaining, history, ends>>

\* The peer has closed and everything it sent is read: recv() returns 0, or -1.
Closed(s) == Ended(master_of[s]) /\ down[s] = <<>>

\* A recv() of s may return n tokens; none only when the peer has closed.
Receivable(s, n) ==
    /\ master_of[s] # NULL
    /\ IF n = 0 THEN Closed(s) ELSE n <= Len(down[s]) /\ n <= BufSize

Received(s, n) ==
    /\ Receivable(s, n)
    /\ down' = [down EXCEPT ![s] = SubSeq(@, n + 1, Len(@))]

Buffer(s, n) == SubSeq(down[s], 1, n)

Send(s, request) ==
    /\ up' = [up EXCEPT ![s] = Append(@, request)]
    /\ conn' = [conn EXCEPT ![s] = IF Ended(master_of[s]) THEN "reset" ELSE @]

\* recv_and_validate, and the first half of handle_replconf; on any other
\* reply the server goes on without a master.
RecvPong(s, n) ==
    /\ pc[s] = "ping"
    /\ Received(s, n)
    /\ \/ Buffer(s, n) = <<Reply("PONG")>> /\ Send(s, "REPLCONF") /\ Goto(s, "replconf1")
       \/ Buffer(s, n) # <<Reply("PONG")>> /\ Goto(s, "loop") /\ UNCHANGED <<up, conn>>
    /\ UNCHANGED <<master_of, psync_seen, linked, remaining, history, ends>>

\* The reply to listening-port is not looked at, nor whether there was one.
RecvReplconf1(s, n) ==
    /\ pc[s] = "replconf1"
    /\ Received(s, n)
    /\ Send(s, "REPLCONF") /\ Goto(s, "replconf2")
    /\ UNCHANGED <<master_of, psync_seen, linked, remaining, history, ends>>

RecvReplconf2(s, n) ==
    /\ pc[s] = "replconf2"
    /\ Received(s, n)
    /\ \/ Buffer(s, n) = <<Reply("OK")>> /\ Send(s, "PSYNC") /\ Goto(s, "psync")
       \/ Buffer(s, n) # <<Reply("OK")>> /\ Goto(s, "loop") /\ UNCHANGED <<up, conn>>
    /\ UNCHANGED <<master_of, psync_seen, linked, remaining, history, ends>>

-----------------------------------------------------------------------------
(* The loop over a buffer: skip to the next '*', parse, handle.            *)

IsHead(t) == t.kind = "head"

\* Commands whose head and rest are both in the buffer, in order.
Whole(buf) ==
    LET upto[i \in 0 .. Len(buf)] ==
          IF i = 0 THEN <<>>
          ELSE IF IsHead(buf[i]) /\ i < Len(buf) THEN Append(upto[i - 1], buf[i].n)
          ELSE upto[i - 1]
    IN  upto[Len(buf)]

\* Commands of which the buffer holds one part: the rest of one whose head
\* came before, and the head of one whose rest has not come.
Parts(buf) ==
    {buf[i].n : i \in {j \in DOMAIN buf :
        \/ j = 1 /\ buf[j].kind \in {"write", "getack"}
        \/ j = Len(buf) /\ IsHead(buf[j])}}

\* The "*" of a GETACK whose head came before is handled as an unknown command
\* without arguments; it counts for the offset.
Stray(buf) == IF buf # <<>> /\ buf[1].kind = "getack" THEN 1 ELSE 0

Handle(s, buf) ==
    /\ handled' = [handled EXCEPT ![s] = @ \o Whole(buf)]
    /\ offset' = [offset EXCEPT ![s] = @ + 2 * Len(Whole(buf)) + Stray(buf)]
    /\ cut' = [cut EXCEPT ![s] = @ \cup Parts(buf)]
    /\ UNCHANGED <<passed, cmds>>

HeaderAt(buf) == {j \in DOMAIN buf : buf[j] = Reply("HEADER")}

\* Mutant: the rest of the buffer is taken for the RDB.
AfterRdbNothing(buf) == <<>>

\* What follows the RDB in the buffer; nothing when the RDB is not all there.
AfterRdb(buf) ==
    IF HeaderAt(buf) = {} THEN <<>>
    ELSE SubSeq(buf, Min(HeaderAt(buf)) + RdbSize + 1, Len(buf))

\* Mutant: a whole buffer is received whatever the RDB still lacks.
RemainingMore(buf) ==
    IF HeaderAt(buf) = {} THEN 0 ELSE RdbSize + 1 - (Len(buf) - Min(HeaderAt(buf)))

\* The tokens of the RDB that have not arrived, less than none when commands
\* follow it; without a header in the buffer none are expected, and the loop
\* later skips them.
Remaining(buf) ==
    IF HeaderAt(buf) = {} THEN 0 ELSE RdbSize - (Len(buf) - Min(HeaderAt(buf)))

\* The reply to PSYNC, not validated; the master's socket is watched from here
\* on, and commands behind the RDB are handled.
RecvPsync(s, n) ==
    LET buf == Buffer(s, n)
    IN  /\ pc[s] = "psync"
        /\ Received(s, n)
        /\ remaining' = [remaining EXCEPT ![s] = IF Remaining(buf) > 0 THEN Remaining(buf) ELSE 0]
        /\ Goto(s, IF Remaining(buf) > 0 THEN "drain" ELSE "loop")
        /\ linked' = [linked EXCEPT ![s] = TRUE]
        /\ Handle(s, AfterRdb(buf))
        /\ UNCHANGED <<master_of, up, psync_seen, conn, ends>>

\* Mutant: the end of the connection does not end the loop.
DrainOn(s, n) ==
    /\ pc[s] = "drain"
    /\ n <= remaining[s]
    /\ Received(s, n)
    /\ remaining' = [remaining EXCEPT ![s] = @ - n]
    /\ Goto(s, IF remaining'[s] > 0 THEN "drain" ELSE "loop")
    /\ UNCHANGED <<master_of, up, psync_seen, conn, linked, history, ends>>

\* drain_rdb receives what the RDB lacks and no more; the end of the connection
\* ends it.
Drain(s, n) ==
    /\ pc[s] = "drain"
    /\ n <= remaining[s]
    /\ Received(s, n)
    /\ remaining' = [remaining EXCEPT ![s] = IF n = 0 THEN 0 ELSE @ - n]
    /\ Goto(s, IF remaining'[s] > 0 THEN "drain" ELSE "loop")
    /\ UNCHANGED <<master_of, up, psync_seen, conn, linked, history, ends>>

\* The loop receives from the master; its end removes it from the table.
Loop(s, n) ==
    /\ pc[s] = "loop" /\ linked[s]
    /\ Received(s, n)
    /\ Handle(s, Buffer(s, n))
    /\ linked' = [linked EXCEPT ![s] = n # 0]
    /\ UNCHANGED <<master_of, pc, up, psync_seen, conn, remaining, ends>>

\* Handling buf sends that many replies to the master at most; SET and XADD
\* send none.
ReplyCount(buf) == Len(Whole(buf)) + Stray(buf)

\* A second reply to a master that has ended; earlier ones are in the offset.
RepliesBreak(s, buf) == ReplyCount(buf) > (IF offset[s] > 0 THEN 0 ELSE 1)

\* What a replica sends to a master that has ended ends the replica too.
SendBreaks(s, n) ==
    /\ Receivable(s, n) /\ Ended(master_of[s])
    /\ \/ pc[s] = "replconf1" /\ conn[s] = "reset"
       \/ pc[s] = "psync" /\ RepliesBreak(s, AfterRdb(Buffer(s, n)))
       \/ pc[s] = "loop" /\ linked[s] /\ RepliesBreak(s, Buffer(s, n))
    /\ Sigpipe(s)

Receive(s) ==
    \E n \in 0 .. BufSize :
        \/ RecvPong(s, n) \/ RecvReplconf1(s, n) \/ RecvReplconf2(s, n)
        \/ RecvPsync(s, n) \/ Drain(s, n) \/ Loop(s, n)

HandshakeNext ==
    \E s \in Servers :
        \/ replicaofHandler(s) \/ Receive(s)
        \/ \E n \in 0 .. BufSize : SendBreaks(s, n)
        \/ \E partly \in BOOLEAN : Stop(s, partly)
        \/ \E r \in Servers : Answer(s, r) \/ AnswerBreaks(s, r) \/ Drop(s, r)
        \/ \E kind \in {"write", "getack"}, sent \in SUBSET ReplicasOf(s) :
              pass_data_toReplica(s, kind, sent)

HandshakeSpec == HandshakeInit /\ [][HandshakeNext]_handshakeVars

(***************************************************************************)
(* A recv() returns when there is something to receive, and a server in    *)
(* its loop answers what arrives: a process that can go on does.  Nobody   *)
(* has to start a server, write or stop.                                   *)
(***************************************************************************)
FairHandshake ==
    /\ HandshakeSpec
    /\ \A s \in Servers : WF_handshakeVars(Receive(s) \/ \E r \in Servers : Answer(s, r))

-----------------------------------------------------------------------------
(* The connections carry the handshake's messages and parts of commands;   *)
(* what drain_rdb lacks is never negative.                                 *)
HandshakeTypeOK ==
    /\ master_of \in [Servers -> Servers \cup {NULL}]
    /\ pc \in [Servers -> {"off", "ping", "replconf1", "replconf2", "psync",
                            "drain", "loop", "gone"}]
    /\ up \in [Servers -> Seq({"PING", "REPLCONF", "PSYNC"})]
    /\ down \in [Servers -> Seq([kind : {"PONG", "OK", "FULLRESYNC", "HEADER", "RDB",
                                          "head", "write", "getack"}, n : Nat])]
    /\ psync_seen \in [Servers -> BOOLEAN]
    /\ conn \in [Servers -> {"open", "reset", "dropped"}] /\ killed \subseteq Servers
    /\ linked \in [Servers -> BOOLEAN]
    /\ remaining \in [Servers -> 0 .. 2]
    /\ handled \in [Servers -> Seq(1 .. MaxCmds)] /\ offset \in [Servers -> Nat]
    /\ passed \in [Servers -> Seq(1 .. MaxCmds)]
    /\ cut \in [Servers -> SUBSET (1 .. MaxCmds)]
    /\ cmds \in 0 .. MaxCmds /\ stops \in Nat

\* Commands of which a part is still on its way to s.
Arriving(s) == {t.n : t \in {u \in Range(down[s]) : u.kind \in {"head", "write", "getack"}}}

(* Of the commands passed to it, which are numbered in the order they were *)
(* executed in, a replica handles each once and in order, however the      *)
(* stream and the RDB before it are cut into recv() calls: the only ones   *)
(* it misses are those cut between two calls, which are dropped. The       *)
(* offset it acknowledges never exceeds what was passed to it, though the  *)
(* "*" of a cut GETACK counts as a command.                                *)
OnlyCutsAreLost ==
    \A s \in Servers :
        /\ \A i, j \in DOMAIN handled[s] : i < j => handled[s][i] < handled[s][j]
        /\ Range(handled[s]) = Range(passed[s]) \ (cut[s] \cup Arriving(s))
        /\ offset[s] <= 2 * Len(passed[s])

(* A server that has connected to its master does not wait for ever in the *)
(* handshake, although its master may end at any step of it.  It gets to   *)
(* its loop; or it is stopped itself; or its master has ended and a send() *)
(* to it, the second REPLCONF or a reply, raised SIGPIPE and ended it too; *)
(* or it waits with others in a set of servers that all wait for the PONG  *)
(* of one of them.                                                         *)
HandshakeEnds ==
    \A s \in Servers :
        pc[s] = "ping" ~>
            \/ pc[s] = "loop"
            \/ Ended(s) /\ (s \in killed => \E m \in Servers : m = master_of[s] /\ Ended(m))
            \/ \E C \in SUBSET Servers :
                  s \in C /\ \A x \in C : pc[x] = "ping" /\ master_of[x] \in C
=============================================================================
