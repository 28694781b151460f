----------------------------- MODULE EventLoop -----------------------------
(***************************************************************************)
(* The single-threaded server loop of main.c: the connection table, one    *)
(* poll() round, and the swap-with-last removal that happens in the middle *)
(* of the round that is walking over the table.                            *)
(*                                                                         *)
(* Two parallel arrays hold the table: watch_list[s] (here its two fields, *)
(* fd and revents) and clients[s].  Slot 0 is the listening socket.  A     *)
(* connection and the Client object made for it have the same name here;   *)
(* what the code reaches through watch_list[i].fd and what it reaches      *)
(* through clients[i] are kept apart, so that the arrays may disagree.     *)
(*                                                                         *)
(* Commands are abstracted to their effect on the loop: a handler consumes *)
(* input, may park its own client (BLPOP, XREAD BLOCK, WAIT) and may       *)
(* release others (RPUSH, XADD, ...).  Replies have no effect: a second    *)
(* reply to a peer that has gone raises SIGPIPE and ends the process; what *)
(* must happen eventually must happen only while the process runs.         *)
(***************************************************************************)
EXTENDS Integers, Sequences, FiniteSets

CONSTANTS
    Conns,        \* connections a peer may make (descriptors accept returns)
    MAX_CLIENTS,  \* size of watch_list and of clients (100 in the code)
    BACKLOG,      \* accept-queue bound given to listen() (5 in the code)
    MaxChunks,    \* bound: unread chunks a connection may hold
    Listener,     \* server_fd
    NoFd,         \* the -1 of an unused watch_list slot
    NULL          \* the NULL of an unused clients slot

ASSUME ConnsAssumption == IsFiniteSet(Conns)

ASSUME SizeAssumption ==
    /\ MAX_CLIENTS \in Nat \ {0}
    /\ BACKLOG \in Nat
    /\ MaxChunks \in Nat

ASSUME DistinctAssumption ==
    /\ Listener \notin Conns
    /\ NoFd \notin Conns
    /\ NULL \notin Conns
    /\ Listener # NoFd

VARIABLES
    fd,          \* watch_list[s].fd
    revents,     \* watch_list[s].revents
    clients,     \* clients[s]
    active_fds,  \* slots in use, the listener's included
    i,           \* cursor of the serving loop
    pc,          \* "poll": at poll(); "serve": in the serving loop
    backlog,     \* connections waiting in the kernel's accept queue
    open,        \* connections the server has accepted and not closed
    unread,      \* chunks of input a connection holds
    fin,         \* connections whose peer has hung up
    parked,      \* clients with is_blocked that are neither replica nor subscribed
    reported,    \* history: connections the last poll() reported
    visited      \* history: connections this round has reached

table == <<fd, revents, clients, active_fds>>
peers == <<backlog, open, unread, fin>>
round == <<reported, visited>>
vars  == <<fd, revents, clients, active_fds, i, pc, backlog, open, unread,
           fin, parked, reported, visited>>

Slots == 0 .. MAX_CLIENTS - 1
POLLIN == 1

-----------------------------------------------------------------------------
(* The table when the loop is entered, by a master or by a replica whose   *)
(* handshake has put the master's connection in slot 1.                    *)

EmptyTable ==
    /\ fd = [s \in Slots |-> IF s = 0 THEN Listener ELSE NoFd]
    /\ clients = [s \in Slots |-> NULL]
    /\ active_fds = 1
    /\ open = {}

add_master_to_watchlist(m) ==
    /\ MAX_CLIENTS > 1
    /\ fd = [s \in Slots |-> IF s = 0 THEN Listener ELSE IF s = 1 THEN m ELSE NoFd]
    /\ clients = [s \in Slots |-> IF s = 1 THEN m ELSE NULL]
    /\ active_fds = 2
    /\ open = {m}

Init ==
    /\ EmptyTable \/ \E m \in Conns : add_master_to_watchlist(m)
    /\ revents = [s \in Slots |-> 0]
    /\ i = 0
    /\ pc = "poll"
    /\ backlog = <<>>
    /\ unread = [c \in Conns |-> 0]
    /\ fin = {}
    /\ parked = {}
    /\ reported = {}
    /\ visited = {}

-----------------------------------------------------------------------------
(* The peers.                                                              *)

Queued(c) == \E n \in 1 .. Len(backlog) : backlog[n] = c

Connect(c) ==
    /\ c \notin open
    /\ ~Queued(c)
    /\ Len(backlog) < BACKLOG
    /\ backlog' = Append(backlog, c)
    /\ unread' = [unread EXCEPT ![c] = 0]
    /\ fin' = fin \ {c}
    /\ UNCHANGED <<table, i, pc, open, parked, round>>

PeerSend(c) ==
    /\ c \in open \/ Queued(c)
    /\ c \notin fin
    /\ unread[c] < MaxChunks
    /\ unread' = [unread EXCEPT ![c] = @ + 1]
    /\ UNCHANGED <<table, i, pc, backlog, open, fin, parked, round>>

\* An orderly close keeps the input already sent, a reset discards it.
Hangup(c) ==
    /\ c \in open \/ Queued(c)
    /\ c \notin fin
    /\ fin' = fin \cup {c}
    /\ \/ unread' = unread
       \/ unread' = [unread EXCEPT ![c] = 0]
    /\ UNCHANGED <<table, i, pc, backlog, open, parked, round>>

-----------------------------------------------------------------------------
(* poll(), followed by the sweep that ends the waits that have timed out.  *)

Readable(f) ==
    IF f = Listener THEN backlog # <<>>
    ELSE f \in Conns /\ (unread[f] > 0 \/ f \in fin)

Poll ==
    /\ pc = "poll"
    /\ revents' = [s \in Slots |->
                     IF s < active_fds THEN IF Readable(fd[s]) THEN POLLIN ELSE 0
                     ELSE revents[s]]
    /\ \E released \in SUBSET parked : parked' = parked \ released
    /\ reported' = {c \in open : Readable(c)}
    /\ visited' = {}
    /\ i' = 0
    /\ pc' = IF \E s \in 0 .. active_fds - 1 : Readable(fd[s]) THEN "serve" ELSE "poll"
    /\ UNCHANGED <<fd, clients, active_fds, peers>>

-----------------------------------------------------------------------------
(* The serving loop: one iteration per action.                             *)

Serving == pc = "serve" /\ i < active_fds

Skip ==
    /\ Serving
    /\ revents[i] # POLLIN
    /\ i' = i + 1
    /\ UNCHANGED <<table, pc, peers, parked, round>>

\* The state the two arrays get for connection c at the end of the table.
AppendSlot(c) ==
    /\ fd' = [fd EXCEPT ![active_fds] = c]
    /\ revents' = [revents EXCEPT ![active_fds] = 0]
    /\ clients' = [clients EXCEPT ![active_fds] = c]
    /\ active_fds' = active_fds + 1

\* Mutant: the bound check admits one connection too many.
HasRoomOffByOne == active_fds <= MAX_CLIENTS

HasRoom == active_fds < MAX_CLIENTS

AtListener == Serving /\ i = 0 /\ revents[i] = POLLIN

Accept ==
    /\ AtListener
    /\ backlog # <<>>
    /\ HasRoom
    /\ AppendSlot(Head(backlog))
    /\ backlog' = Tail(backlog)
    /\ open' = open \cup {Head(backlog)}
    /\ parked' = parked \ {Head(backlog)}
    /\ i' = i + 1
    /\ UNCHANGED <<pc, unread, fin, round>>

\* Mutant: a full table leaves the connection in the accept queue.
RefuseLater ==
    /\ AtListener
    /\ ~HasRoom
    /\ i' = i + 1
    /\ UNCHANGED <<table, pc, peers, parked, round>>

Refuse ==
    /\ AtListener
    /\ backlog # <<>>
    /\ ~HasRoom
    /\ backlog' = Tail(backlog)
    /\ i' = i + 1
    /\ UNCHANGED <<table, pc, open, unread, fin, parked, round>>

AcceptFails ==
    /\ AtListener
    /\ i' = i + 1
    /\ UNCHANGED <<table, pc, peers, parked, round>>

AtClient == Serving /\ i > 0 /\ revents[i] = POLLIN

SkipBlocked ==
    /\ AtClient
    /\ clients[i] \in parked
    /\ visited' = visited \cup {fd[i]}
    /\ i' = i + 1
    /\ UNCHANGED <<table, pc, peers, parked, reported>>

\* recv() is reached; it would block if the descriptor had no input.
AtRecv == AtClient /\ clients[i] \notin parked

\* What the commands of one buffer do to who is parked.
HandleParks(c) ==
    \E released \in SUBSET parked, own \in {{}, {c}} :
        parked' = (parked \ released) \cup own

RecvData ==
    /\ AtRecv
    /\ fd[i] \in Conns
    /\ \E n \in 1 .. unread[fd[i]] : unread' = [unread EXCEPT ![fd[i]] = @ - n]
    /\ HandleParks(clients[i])
    /\ visited' = visited \cup {fd[i]}
    /\ i' = i + 1
    /\ UNCHANGED <<table, pc, backlog, open, fin, reported>>

\* Mutant: the hole is filled in watch_list but not in clients.
RemoveSlotOneArray ==
    LET last == active_fds - 1
    IN  /\ fd' = [fd EXCEPT ![i] = fd[last], ![last] = NoFd]
        /\ revents' = [revents EXCEPT ![i] = revents[last], ![last] = 0]
        /\ clients' = [clients EXCEPT ![last] = NULL]
        /\ active_fds' = active_fds - 1

\* The last slot moves into the hole and its old place is cleared.
RemoveSlot ==
    LET last == active_fds - 1
    IN  /\ fd' = [fd EXCEPT ![i] = fd[last], ![last] = NoFd]
        /\ revents' = [revents EXCEPT ![i] = revents[last], ![last] = 0]
        /\ clients' = [clients EXCEPT ![i] = clients[last], ![last] = NULL]
        /\ active_fds' = active_fds - 1

\* Mutant: the i-- after a removal is forgotten.
CursorSkips == i + 1

\* i-- and the loop's own i++ leave the cursor on the slot that was refilled.
CursorAfterRemove == i

\* Mutant: only an error of recv(), not its 0, closes the connection.
RecvEofIgnored ==
    /\ AtRecv
    /\ fd[i] \in fin
    /\ unread[fd[i]] = 0
    /\ visited' = visited \cup {fd[i]}
    /\ i' = i + 1
    /\ UNCHANGED <<table, pc, peers, parked, reported>>

RecvEof ==
    /\ AtRecv
    /\ fd[i] \in fin
    /\ unread[fd[i]] = 0
    /\ open' = open \ {fd[i]}
    /\ parked' = parked \ {clients[i]}
    /\ RemoveSlot
    /\ visited' = visited \cup {fd[i]}
    /\ i' = CursorAfterRemove
    /\ UNCHANGED <<pc, backlog, unread, fin, reported>>

EndRound ==
    /\ pc = "serve"
    /\ i >= active_fds
    /\ pc' = "poll"
    /\ UNCHANGED <<table, i, peers, parked, round>>

-----------------------------------------------------------------------------
Loop ==
    \/ Poll \/ Skip \/ Accept \/ Refuse \/ AcceptFails
    \/ SkipBlocked \/ RecvData \/ RecvEof \/ EndRound

Peer == \E c \in Conns : Connect(c) \/ PeerSend(c) \/ Hangup(c)

Next == Loop \/ Peer

Spec == Init /\ [][Next]_vars

(***************************************************************************)
(* The loop never stops by itself: poll() returns within 100 ms.  accept() *)
(* may fail, but not for ever.                                             *)
(***************************************************************************)
FairSpec == Spec /\ WF_vars(Loop) /\ SF_vars(Accept \/ Refuse)

-----------------------------------------------------------------------------
(* The variables hold values of the C types, the cursor stays in the array.*)
TypeOK ==
    /\ fd \in [Slots -> Conns \cup {Listener, NoFd}]
    /\ revents \in [Slots -> {0, POLLIN}]
    /\ clients \in [Slots -> Conns \cup {NULL}]
    /\ active_fds \in 1 .. MAX_CLIENTS
    /\ i \in 0 .. MAX_CLIENTS
    /\ pc \in {"poll", "serve"}
    /\ backlog \in Seq(Conns)
    /\ open \subseteq Conns
    /\ unread \in [Conns -> Nat]
    /\ fin \subseteq Conns
    /\ parked \subseteq Conns
    /\ reported \subseteq Conns
    /\ visited \subseteq Conns

\* The slots that hold a client.
Used == 1 .. active_fds - 1

(* watch_list and clients describe the same connections at the same slots, *)
(* each exactly once, with nothing left behind in the unused slots: the    *)
(* loop receives from watch_list[i].fd but acts on clients[i].             *)
TableCoherent ==
    /\ fd[0] = Listener
    /\ \A s \in Used : fd[s] \in open /\ clients[s] = fd[s]
    /\ \A s, t \in Used : fd[s] = fd[t] => s = t
    /\ \A c \in open : \E s \in Used : fd[s] = c
    /\ \A s \in Slots \ (Used \cup {0}) : fd[s] = NoFd /\ clients[s] = NULL
    /\ parked \subseteq open

(* When the round is at slot i, the connections it still has to reach are  *)
(* exactly those poll() reported and it has not reached, whatever was      *)
(* accepted or removed meanwhile: none is skipped, none served twice.      *)
RoundExact ==
    pc = "serve" =>
        {fd[s] : s \in {t \in Used : t >= i /\ revents[t] = POLLIN}}
            = reported \ visited

(* The recv() of the loop never blocks the server: the descriptor it reads *)
(* has input or a hang-up waiting.                                         *)
RecvNeverBlocks ==
    AtRecv => Readable(fd[i])

\* The abstract rounds, seen through the table and the cursor.
QueuedConns == {c \in Conns : Queued(c)}
StillToServe == IF pc = "serve" THEN reported \ visited ELSE {}
FreeSlots == MAX_CLIENTS - active_fds
R == INSTANCE Rounds WITH Capacity <- MAX_CLIENTS - 1, places <- FreeSlots,
                          todo <- StillToServe, served <- visited,
                          waiting <- QueuedConns

(* The table, the cursor and the swap removal implement the rounds of      *)
(* module Rounds: each reported connection is served exactly once a round, *)
(* a connection closes only while it is served, and one is turned away     *)
(* only when all the MAX_CLIENTS - 1 slots for clients are in use.         *)
ImplementsRounds == R!RoundsSpec

(* A peer that has hung up is closed, unless its client is parked: a       *)
(* blocked client's descriptor is polled but never read. (Or, outside this *)
(* model, a second reply to it ends the process by SIGPIPE.)               *)
HangupNoticed ==
    \A c \in Conns : (c \in open /\ c \in fin) ~> (c \notin open \/ c \in parked)

(* A connection in the accept queue leaves it: accepted, or refused when   *)
(* the table is full.                                                      *)
ConnectAnswered ==
    \A c \in Conns : Queued(c) ~> ~Queued(c)
=============================================================================
