-------------------------- MODULE EventLoopProofs --------------------------
(***************************************************************************)
(* Proofs about EventLoop, for every set of connections and every table    *)
(* size.                                                                   *)
(***************************************************************************)
EXTENDS EventLoop, FiniteSetTheorems, SequenceTheorems, TLAPS

\* A connection waits in the accept queue once, and is not open meanwhile.
BacklogOK ==
    /\ \A n \in 1 .. Len(backlog) : backlog[n] \notin open
    /\ \A m, n \in 1 .. Len(backlog) : backlog[m] = backlog[n] => m = n

\* Slot s is one the serving loop will stop at.
Ahead(s) == s \in Used /\ s >= i /\ revents[s] = POLLIN

\* RoundExact and RecvNeverBlocks, slot by slot.
RoundOK ==
    pc = "serve" =>
        /\ \A s \in Slots : Ahead(s) => /\ fd[s] \in reported \ visited
                                        /\ Readable(fd[s])
        /\ \A c \in reported \ visited : \E s \in Slots : Ahead(s) /\ fd[s] = c

\* The slots in use count the open connections.
CountOK == IsFiniteSet(open) /\ Cardinality(open) = active_fds - 1

IInv == TypeOK /\ TableCoherent /\ BacklogOK /\ RoundOK /\ CountOK

-----------------------------------------------------------------------------
(* Taking the head off the accept queue renumbers the rest by one.         *)
LEMMA TailShifts ==
    ASSUME NEW S, NEW q \in Seq(S), q # <<>>
    PROVE  /\ Head(q) = q[1] /\ Head(q) \in S /\ 1 \in 1 .. Len(q)
           /\ Tail(q) \in Seq(S)
           /\ \A n \in 1 .. Len(Tail(q)) : /\ n + 1 \in 2 .. Len(q)
                                           /\ Tail(q)[n] = q[n + 1]
<1>1. /\ Tail(q) \in Seq(S)
      /\ Len(Tail(q)) = Len(q) - 1
      /\ \A n \in 1 .. Len(Tail(q)) : Tail(q)[n] = q[n + 1]
      /\ Head(q) \in S
  BY HeadTailProperties
<1>2. Len(q) \in Nat /\ Len(q) # 0
  OBVIOUS
<1>3. Head(q) = q[1]
  OBVIOUS
<1> QED BY <1>1, <1>2, <1>3

(* The initial states, of a master and of a replica, satisfy the invariant.*)
LEMMA InitIInv == Init => IInv
<1> SUFFICES ASSUME Init PROVE IInv
  OBVIOUS
<1> USE SizeAssumption, DistinctAssumption DEF Slots, Used
<1>1. CASE EmptyTable
  <2>1. TypeOK
    BY <1>1 DEF Init, EmptyTable, TypeOK, POLLIN
  <2>2. TableCoherent
    BY <1>1 DEF Init, EmptyTable, TableCoherent
  <2>3. BacklogOK /\ RoundOK
    BY DEF Init, BacklogOK, RoundOK
  <2>4. CountOK
    BY <1>1, FS_EmptySet DEF EmptyTable, CountOK
  <2> QED BY <2>1, <2>2, <2>3, <2>4 DEF IInv
<1>2. CASE \E m \in Conns : add_master_to_watchlist(m)
  <2> PICK m \in Conns : add_master_to_watchlist(m)
    BY <1>2
  <2>1. TypeOK
    BY DEF Init, add_master_to_watchlist, TypeOK, POLLIN
  <2>2. TableCoherent
    BY DEF Init, add_master_to_watchlist, TableCoherent
  <2>3. BacklogOK /\ RoundOK
    BY DEF Init, BacklogOK, RoundOK
  <2>4. CountOK
    <3>1. IsFiniteSet({m}) /\ Cardinality({m}) = 1
      BY FS_Singleton
    <3> QED BY <3>1 DEF add_master_to_watchlist, CountOK
  <2> QED BY <2>1, <2>2, <2>3, <2>4 DEF IInv
<1> QED BY <1>1, <1>2 DEF Init

(* What the peers do (connecting, sending, hanging up) keeps it.           *)
LEMMA PeerIInv == IInv /\ Peer => IInv'
<1> SUFFICES ASSUME IInv, NEW c \in Conns,
                    Connect(c) \/ PeerSend(c) \/ Hangup(c)
             PROVE  IInv'
  BY DEF Peer
<1> USE DEF IInv, table, peers, round
<1>1. CASE Connect(c)
  <2>1. TypeOK'
    BY <1>1 DEF Connect, TypeOK
  <2>2. TableCoherent' /\ CountOK'
    BY <1>1 DEF Connect, TableCoherent, Used, CountOK
  <2>3. BacklogOK'
    <3>1. Len(backlog') = Len(backlog) + 1 /\ backlog'[Len(backlog) + 1] = c
      BY <1>1 DEF Connect, TypeOK
    <3>2. \A n \in 1 .. Len(backlog) : backlog'[n] = backlog[n]
      BY <1>1 DEF Connect, TypeOK
    <3>3. Len(backlog) \in Nat /\ open' = open /\ c \notin open
      BY <1>1 DEF Connect, TypeOK
    <3>4. \A n \in 1 .. Len(backlog) : backlog[n] # c /\ backlog[n] \notin open
      BY <1>1 DEF Connect, Queued, BacklogOK
    <3>5. \A n \in 1 .. Len(backlog') : n \in 1 .. Len(backlog) \/ n = Len(backlog) + 1
      BY ONLY <3>1, <3>3
    <3>6. \A m, n \in 1 .. Len(backlog) : backlog[m] = backlog[n] => m = n
      BY DEF BacklogOK
    <3> QED BY ONLY <3>1, <3>2, <3>3, <3>4, <3>5, <3>6 DEF BacklogOK
  <2>4. RoundOK'
    <3>1. \A d \in open : Readable(d)' <=> Readable(d)
      BY <1>1, DistinctAssumption DEF Connect, TypeOK, Readable
    <3> QED
      BY <1>1, <3>1 DEF Connect, TypeOK, RoundOK, Ahead, Used, TableCoherent, Slots
  <2> QED BY <2>1, <2>2, <2>3, <2>4
<1>2. CASE PeerSend(c)
  <2>1. TypeOK'
    BY <1>2 DEF PeerSend, TypeOK
  <2>2. TableCoherent' /\ CountOK' /\ BacklogOK'
    BY <1>2 DEF PeerSend, TableCoherent, Used, CountOK, BacklogOK
  <2>3. \A d \in Conns : Readable(d) => Readable(d)'
    BY <1>2, DistinctAssumption DEF PeerSend, TypeOK, Readable
  <2>4. RoundOK'
    BY <1>2, <2>3 DEF PeerSend, TypeOK, RoundOK, Ahead, Used, TableCoherent, Slots
  <2> QED BY <2>1, <2>2, <2>4
<1>3. CASE Hangup(c)
  <2>1. TypeOK'
    BY <1>3 DEF Hangup, TypeOK
  <2>2. TableCoherent' /\ CountOK' /\ BacklogOK'
    BY <1>3 DEF Hangup, TableCoherent, Used, CountOK, BacklogOK
  <2>3. \A d \in Conns : Readable(d) => Readable(d)'
    BY <1>3, DistinctAssumption DEF Hangup, TypeOK, Readable
  <2>4. RoundOK'
    BY <1>3, <2>3 DEF Hangup, TypeOK, RoundOK, Ahead, Used, TableCoherent, Slots
  <2> QED BY <2>1, <2>2, <2>4
<1> QED BY <1>1, <1>2, <1>3

(* poll() reports exactly the readable slots, so a round starts exact.     *)
LEMMA PollIInv == IInv /\ Poll => IInv'
<1> SUFFICES ASSUME IInv, Poll PROVE IInv'
  OBVIOUS
<1> USE SizeAssumption DEF IInv, peers
<1>1. TypeOK'
  BY SizeAssumption DEF Poll, TypeOK, POLLIN, Slots
<1>2. TableCoherent' /\ CountOK' /\ BacklogOK'
  BY DEF Poll, TableCoherent, Used, CountOK, BacklogOK
<1>3. RoundOK'
  <2>1. \A f : Readable(f)' <=> Readable(f)
    BY DEF Poll, Readable
  <2>2. \A s \in Used : s \in Slots /\ fd[s] \in open /\ s < active_fds
    BY DEF TypeOK, TableCoherent, Used, Slots
  <2>3. \A s \in Used : revents'[s] = POLLIN <=> Readable(fd[s])
    BY <2>2 DEF Poll, POLLIN
  <2>4. \A s \in Slots : Ahead(s)' <=> s \in Used /\ Readable(fd[s])
    <3>1. Used' = Used /\ i' = 0
      BY DEF Poll, Used
    <3>2. \A s \in Used : s >= 0
      BY DEF Used
    <3> QED BY <2>3, <3>1, <3>2 DEF Ahead
  <2>5. \A s \in Slots : Ahead(s)' => fd'[s] \in (reported \ visited)' /\ Readable(fd[s])'
    BY <2>1, <2>2, <2>4 DEF Poll
  <2>6. \A c \in (reported \ visited)' : \E s \in Slots : Ahead(s)' /\ fd'[s] = c
    BY <2>2, <2>4 DEF Poll, TableCoherent
  <2> QED BY <2>1, <2>5, <2>6 DEF RoundOK, Poll
<1> QED BY <1>1, <1>2, <1>3

(* Passing over a slot that was not reported.                              *)
LEMMA SkipIInv == IInv /\ Skip => IInv'
<1> SUFFICES ASSUME IInv, Skip PROVE IInv'
  OBVIOUS
<1> USE SizeAssumption DEF IInv, peers, table, round, Skip, Serving
<1>1. TypeOK'
  BY DEF TypeOK
<1>2. TableCoherent' /\ CountOK' /\ BacklogOK'
  BY DEF TableCoherent, Used, CountOK, BacklogOK
<1>3. RoundOK'
  <2>1. \A s \in Slots : Ahead(s)' <=> Ahead(s)
    BY DEF Ahead, Used, TypeOK, Slots
  <2>2. \A f : Readable(f)' <=> Readable(f)
    BY DEF Readable
  <2> QED BY <2>1, <2>2 DEF RoundOK
<1> QED BY <1>1, <1>2, <1>3

(* The listener's slot is never one of a client.                           *)
LEMMA ListenerIInv == IInv /\ (Refuse \/ AcceptFails) => IInv'
<1> SUFFICES ASSUME IInv, Refuse \/ AcceptFails PROVE IInv'
  OBVIOUS
<1> USE SizeAssumption DEF IInv, peers, table, round, Refuse, AcceptFails, AtListener, Serving
<1>0. /\ backlog' = backlog \/ (backlog # <<>> /\ backlog' = Tail(backlog))
      /\ i = 0 /\ i' = 1 /\ pc' = pc
      /\ UNCHANGED <<fd, revents, clients, active_fds, open, unread, fin, parked, reported, visited>>
  BY DEF TypeOK
<1>a. backlog # <<>> =>
        /\ Tail(backlog) \in Seq(Conns)
        /\ \A n \in 1 .. Len(Tail(backlog)) : /\ n + 1 \in 2 .. Len(backlog)
                                              /\ Tail(backlog)[n] = backlog[n + 1]
  BY TailShifts DEF TypeOK
<1>1. TypeOK'
  <2>1. backlog' \in Seq(Conns)
    BY <1>0, <1>a DEF TypeOK
  <2> QED BY <1>0, <2>1 DEF TypeOK
<1>2. TableCoherent' /\ CountOK'
  BY <1>0 DEF TableCoherent, Used, CountOK
<1>3. BacklogOK'
  <2>1. CASE backlog' = backlog
    BY <1>0, <2>1 DEF BacklogOK
  <2>2. CASE backlog # <<>> /\ backlog' = Tail(backlog)
    <3>1. \A n \in 1 .. Len(backlog') : /\ n \in Int
                                        /\ n + 1 \in 1 .. Len(backlog)
                                        /\ backlog'[n] = backlog[n + 1]
      BY <1>a, <2>2
    <3>2. \A n \in 1 .. Len(backlog') : backlog'[n] \notin open'
      BY <1>0, <3>1 DEF BacklogOK
    <3>3. ASSUME NEW m \in 1 .. Len(backlog'), NEW n \in 1 .. Len(backlog'),
                 backlog'[m] = backlog'[n]
          PROVE  m = n
      <4>1. m + 1 = n + 1
        BY <3>1, <3>3 DEF BacklogOK
      <4> QED BY <4>1, <3>1
    <3> QED BY <3>2, <3>3 DEF BacklogOK
  <2> QED BY <1>0, <2>1, <2>2
<1>4. RoundOK'
  <2>1. \A s \in Slots : Ahead(s)' <=> Ahead(s)
    BY <1>0 DEF Ahead, Used, TypeOK, Slots
  <2>2. \A c \in Conns : Readable(c)' <=> Readable(c)
    BY <1>0, DistinctAssumption DEF Readable
  <2>3. \A s \in Slots : Ahead(s) => fd[s] \in Conns
    BY DEF Ahead, TableCoherent, TypeOK
  <2> QED BY <1>0, <2>1, <2>2, <2>3 DEF RoundOK
<1> QED BY <1>1, <1>2, <1>3, <1>4

(* accept() puts the new connection behind the last slot with revents 0,   *)
(* so the round that is under way does not stop at it.                     *)
LEMMA AcceptIInv == IInv /\ Accept => IInv'
<1> SUFFICES ASSUME IInv, Accept PROVE IInv'
  OBVIOUS
<1> DEFINE h == Head(backlog)
<1> USE SizeAssumption, DistinctAssumption DEF IInv, Slots
<1>0. /\ pc = "serve" /\ pc' = pc /\ i = 0 /\ i' = 1
      /\ backlog # <<>> /\ backlog' = Tail(backlog)
      /\ open' = open \cup {h} /\ parked' = parked \ {h}
      /\ active_fds \in 1 .. MAX_CLIENTS - 1 /\ active_fds' = active_fds + 1
      /\ UNCHANGED <<unread, fin, reported, visited>>
  BY DEF Accept, AtListener, Serving, AppendSlot, HasRoom, round, TypeOK
<1>1. /\ fd' = [fd EXCEPT ![active_fds] = h]
      /\ revents' = [revents EXCEPT ![active_fds] = 0]
      /\ clients' = [clients EXCEPT ![active_fds] = h]
  BY DEF Accept, AppendSlot
<1> HIDE DEF h
<1>2. /\ h = backlog[1] /\ h \in Conns /\ 1 \in 1 .. Len(backlog)
      /\ backlog' \in Seq(Conns)
      /\ \A n \in 1 .. Len(backlog') : /\ n + 1 \in 2 .. Len(backlog)
                                       /\ backlog'[n] = backlog[n + 1]
  BY <1>0, TailShifts DEF TypeOK, h
<1>3. h \notin open
  BY <1>2 DEF BacklogOK
<1>4. TypeOK'
  BY <1>0, <1>1, <1>2 DEF TypeOK, POLLIN
<1>5. /\ \A s \in Slots : s # active_fds => /\ fd'[s] = fd[s]
                                            /\ revents'[s] = revents[s]
                                            /\ clients'[s] = clients[s]
      /\ fd'[active_fds] = h /\ clients'[active_fds] = h /\ revents'[active_fds] = 0
  BY <1>0, <1>1 DEF TypeOK
<1>6. Used' = Used \cup {active_fds} /\ active_fds \notin Used
  BY <1>0 DEF Used
<1>7. TableCoherent'
  <2>1. fd'[0] = Listener
    BY <1>0, <1>5 DEF TableCoherent
  <2>2. \A s \in Used' : fd'[s] \in open' /\ clients'[s] = fd'[s]
    BY <1>0, <1>5, <1>6 DEF TableCoherent, Used
  <2>3. \A s, t \in Used' : fd'[s] = fd'[t] => s = t
    BY <1>0, <1>3, <1>5, <1>6 DEF TableCoherent, Used
  <2>4. \A c \in open' : \E s \in Used' : fd'[s] = c
    BY <1>0, <1>5, <1>6 DEF TableCoherent, Used
  <2>5. \A s \in Slots \ (Used' \cup {0}) : fd'[s] = NoFd /\ clients'[s] = NULL
    BY <1>0, <1>5, <1>6 DEF TableCoherent
  <2>6. parked' \subseteq open'
    BY <1>0 DEF TableCoherent
  <2> QED BY <2>1, <2>2, <2>3, <2>4, <2>5, <2>6 DEF TableCoherent
<1>8. BacklogOK'
  <2>1. \A n \in 1 .. Len(backlog') : backlog'[n] # h
    BY <1>2 DEF BacklogOK
  <2>2. \A n \in 1 .. Len(backlog') : backlog'[n] \notin open'
    BY <1>0, <1>2, <2>1 DEF BacklogOK
  <2>3. ASSUME NEW m \in 1 .. Len(backlog'), NEW n \in 1 .. Len(backlog'),
               backlog'[m] = backlog'[n]
        PROVE  m = n
    <3>1. m + 1 = n + 1
      BY <1>2, <2>3 DEF BacklogOK
    <3> QED BY <3>1
  <2> QED BY <2>2, <2>3 DEF BacklogOK
<1>9. RoundOK'
  <2>1. \A s \in Slots : Ahead(s)' <=> Ahead(s)
    BY <1>0, <1>5, <1>6 DEF Ahead, Used, POLLIN
  <2>2. \A c \in Conns : Readable(c)' <=> Readable(c)
    BY <1>0 DEF Readable
  <2>3. \A s \in Slots : Ahead(s) => fd[s] \in Conns /\ fd'[s] = fd[s]
    BY <1>5, <1>6 DEF Ahead, TableCoherent, TypeOK
  <2> QED BY <1>0, <2>1, <2>2, <2>3 DEF RoundOK
<1>10. CountOK'
  <2>1. /\ IsFiniteSet(open \cup {h})
        /\ Cardinality(open \cup {h}) = Cardinality(open) + 1
    BY <1>3, FS_AddElement DEF CountOK
  <2> QED BY <1>0, <2>1 DEF CountOK
<1> QED BY <1>4, <1>7, <1>8, <1>9, <1>10

(* Serving the connection at the cursor, or passing over it because its    *)
(* client is parked, takes exactly that connection off the round.          *)
LEMMA ServeIInv == IInv /\ (SkipBlocked \/ RecvData) => IInv'
<1> SUFFICES ASSUME IInv, SkipBlocked \/ RecvData PROVE IInv'
  OBVIOUS
<1> USE SizeAssumption, DistinctAssumption DEF IInv, Slots
<1>0. /\ pc = "serve" /\ pc' = pc /\ i \in Used /\ revents[i] = POLLIN /\ i' = i + 1
      /\ visited' = visited \cup {fd[i]}
      /\ UNCHANGED <<fd, revents, clients, active_fds, backlog, open, fin, reported>>
  BY DEF SkipBlocked, RecvData, AtRecv, AtClient, Serving, table, peers, Used, TypeOK
<1>1. fd[i] \in open /\ fd[i] \in Conns /\ clients[i] = fd[i]
  BY <1>0 DEF TableCoherent, TypeOK
<1>2. parked' \subseteq open
  BY <1>1 DEF SkipBlocked, RecvData, HandleParks, TableCoherent
<1>3. /\ unread' \in [Conns -> Nat]
      /\ \A c \in Conns : c # fd[i] => unread'[c] = unread[c]
  BY <1>1 DEF SkipBlocked, RecvData, peers, TypeOK
<1>4. TypeOK'
  BY <1>0, <1>1, <1>2, <1>3 DEF TypeOK, Used
<1>5. TableCoherent' /\ CountOK' /\ BacklogOK'
  BY <1>0, <1>2 DEF TableCoherent, Used, CountOK, BacklogOK
<1>6. \A s \in Slots : Ahead(s)' <=> Ahead(s) /\ s # i
  BY <1>0 DEF Ahead, Used, TypeOK
<1>7. \A c \in Conns : c # fd[i] => (Readable(c)' <=> Readable(c))
  BY <1>0, <1>3 DEF Readable
<1>8. RoundOK'
  <2>1. ASSUME NEW s \in Slots, Ahead(s)'
        PROVE  fd'[s] \in (reported \ visited)' /\ Readable(fd[s])'
    <3>1. Ahead(s) /\ s # i /\ s \in Used
      BY <1>6, <2>1 DEF Ahead
    <3>2. fd[s] # fd[i] /\ fd[s] \in Conns
      BY <1>0, <3>1 DEF TableCoherent, TypeOK
    <3>3. fd[s] \in reported \ visited /\ Readable(fd[s])
      BY <1>0, <3>1 DEF RoundOK
    <3> QED BY <1>0, <1>7, <3>2, <3>3
  <2>2. ASSUME NEW c \in (reported \ visited)'
        PROVE  \E s \in Slots : Ahead(s)' /\ fd'[s] = c
    <3>1. c \in reported \ visited /\ c # fd[i]
      BY <1>0
    <3>2. PICK s \in Slots : Ahead(s) /\ fd[s] = c
      BY <1>0, <3>1 DEF RoundOK
    <3>3. Ahead(s)' /\ fd'[s] = c
      BY <1>0, <1>6, <3>1, <3>2
    <3> QED BY <3>3
  <2> QED BY <1>0, <2>1, <2>2 DEF RoundOK
<1> QED BY <1>4, <1>5, <1>8

(* Removing the connection at the cursor moves the last slot into its      *)
(* place.  The cursor stays, so the connection that moved is still ahead.  *)
LEMMA RecvEofIInv == IInv /\ RecvEof => IInv'
<1> SUFFICES ASSUME IInv, RecvEof PROVE IInv'
  OBVIOUS
<1> DEFINE last == active_fds - 1
           gone == fd[i]
<1> USE SizeAssumption, DistinctAssumption DEF IInv, Slots
<1>0. /\ pc = "serve" /\ pc' = pc /\ i' = i /\ i \in Used
      /\ revents[i] = POLLIN
      /\ active_fds' = last /\ last \in Used
      /\ visited' = visited \cup {gone} /\ open' = open \ {gone}
      /\ parked' = parked \ {clients[i]}
      /\ UNCHANGED <<backlog, unread, fin, reported>>
  BY DEF RecvEof, RemoveSlot, CursorAfterRemove, AtRecv, AtClient, Serving, Used, TypeOK
<1>1. /\ fd' = [fd EXCEPT ![i] = fd[last], ![last] = NoFd]
      /\ revents' = [revents EXCEPT ![i] = revents[last], ![last] = 0]
      /\ clients' = [clients EXCEPT ![i] = clients[last], ![last] = NULL]
  BY DEF RecvEof, RemoveSlot
<1>2. Used \subseteq Slots /\ 0 \in Slots /\ 0 \notin Used /\ Used' = Used \ {last}
  BY <1>0 DEF Used, TypeOK
<1>3. clients[i] = gone /\ gone \in open /\ gone \in Conns
  BY <1>0 DEF TableCoherent, TypeOK
<1> HIDE DEF last, gone
<1>4. /\ fd'[last] = NoFd /\ revents'[last] = 0 /\ clients'[last] = NULL
      /\ i # last => /\ fd'[i] = fd[last]
                     /\ revents'[i] = revents[last]
                     /\ clients'[i] = clients[last]
      /\ \A s \in Slots : s # i /\ s # last => /\ fd'[s] = fd[s]
                                                /\ revents'[s] = revents[s]
                                                /\ clients'[s] = clients[s]
  BY <1>0, <1>1, <1>2 DEF TypeOK
<1>5. TypeOK'
  <2>1. /\ fd' \in [Slots -> Conns \cup {Listener, NoFd}]
        /\ revents' \in [Slots -> {0, POLLIN}]
        /\ clients' \in [Slots -> Conns \cup {NULL}]
    BY <1>0, <1>1, <1>2 DEF TypeOK
  <2>2. active_fds' \in 1 .. MAX_CLIENTS
    BY <1>0 DEF TypeOK, Used, last
  <2> QED BY <1>0, <1>3, <2>1, <2>2 DEF TypeOK
<1>6. TableCoherent'
  <2>1. fd'[0] = Listener
    BY <1>0, <1>2, <1>4 DEF TableCoherent
  <2>2. \A s \in Used' : fd'[s] \in open' /\ clients'[s] = fd'[s]
    BY <1>0, <1>2, <1>4 DEF TableCoherent, gone
  <2>3. \A s, t \in Used' : fd'[s] = fd'[t] => s = t
    BY <1>0, <1>2, <1>4 DEF TableCoherent
  <2>4. \A c \in open' : \E s \in Used' : fd'[s] = c
    <3> SUFFICES ASSUME NEW c \in open' PROVE \E s \in Used' : fd'[s] = c
      OBVIOUS
    <3>1. PICK s \in Used : fd[s] = c
      BY <1>0 DEF TableCoherent
    <3>2. s # i
      BY <1>0, <3>1 DEF gone
    <3>3. CASE s = last
      BY <1>0, <1>2, <1>4, <3>1, <3>2, <3>3
    <3>4. CASE s # last
      BY <1>0, <1>2, <1>4, <3>1, <3>2, <3>4
    <3> QED BY <3>3, <3>4
  <2>5. \A s \in Slots \ (Used' \cup {0}) : fd'[s] = NoFd /\ clients'[s] = NULL
    BY <1>0, <1>2, <1>4 DEF TableCoherent
  <2>6. parked' \subseteq open'
    BY <1>0, <1>3 DEF TableCoherent
  <2> QED BY <2>1, <2>2, <2>3, <2>4, <2>5, <2>6 DEF TableCoherent
<1>7. BacklogOK'
  BY <1>0 DEF BacklogOK
<1>8. RoundOK'
  <2>0. \A c : Readable(c)' <=> Readable(c)
    BY <1>0 DEF Readable
  <2>1. ASSUME NEW s \in Slots, Ahead(s)'
        PROVE  fd'[s] \in (reported \ visited)' /\ Readable(fd[s])'
    <3>1. s \in Used /\ s # last /\ s >= i /\ revents'[s] = POLLIN
      BY <1>0, <1>2, <2>1 DEF Ahead
    <3>2. PICK t \in Used : /\ t # i /\ fd'[s] = fd[t] /\ revents[t] = POLLIN
                            /\ t >= i
      <4>1. CASE s = i
        <5>1. last >= i
          BY <1>0 DEF last, Used, TypeOK
        <5> QED BY <1>0, <1>2, <1>4, <3>1, <4>1, <5>1
      <4>2. CASE s # i
        BY <1>0, <1>2, <1>4, <3>1, <4>2
      <4> QED BY <4>1, <4>2
    <3>3. Ahead(t) /\ t \in Slots
      BY <1>2, <3>2 DEF Ahead
    <3>4. fd[t] \in reported \ visited /\ Readable(fd[t])
      BY <1>0, <3>3 DEF RoundOK
    <3>5. fd[t] # gone
      BY <1>0, <3>2 DEF TableCoherent, gone
    <3>6. Readable(fd[s])' <=> Readable(fd[t])
      BY <2>0, <3>2
    <3> QED BY <1>0, <3>2, <3>4, <3>5, <3>6
  <2>2. ASSUME NEW c \in (reported \ visited)'
        PROVE  \E s \in Slots : Ahead(s)' /\ fd'[s] = c
    <3>1. c \in reported \ visited /\ c # gone
      BY <1>0
    <3>2. PICK t \in Slots : Ahead(t) /\ fd[t] = c
      BY <1>0, <3>1 DEF RoundOK
    <3>3. t \in Used /\ t # i /\ t >= i /\ revents[t] = POLLIN
      BY <3>1, <3>2 DEF Ahead, gone
    <3>4. CASE t = last
      <4>1. Ahead(i)' /\ fd'[i] = c
        BY <1>0, <1>2, <1>4, <3>2, <3>3, <3>4 DEF Ahead
      <4> QED BY <1>0, <1>2, <4>1
    <3>5. CASE t # last
      <4>1. Ahead(t)' /\ fd'[t] = c
        BY <1>0, <1>2, <1>4, <3>2, <3>3, <3>5 DEF Ahead
      <4> QED BY <4>1
    <3> QED BY <3>4, <3>5
  <2> QED BY <1>0, <2>1, <2>2 DEF RoundOK
<1>9. CountOK'
  <2>1. /\ IsFiniteSet(open \ {gone})
        /\ Cardinality(open \ {gone}) = Cardinality(open) - 1
    BY <1>3, FS_RemoveElement DEF CountOK
  <2> QED BY <1>0, <2>1 DEF CountOK, last
<1> QED BY <1>5, <1>6, <1>7, <1>8, <1>9

(* Leaving the serving loop changes only the program counter.              *)
LEMMA EndRoundIInv == IInv /\ EndRound => IInv'
  BY DEF IInv, EndRound, table, peers, round, TypeOK, TableCoherent, Used,
         BacklogOK, RoundOK, CountOK

(* The invariant is inductive.                                             *)
LEMMA NextIInv == IInv /\ [Next]_vars => IInv'
<1>1. IInv /\ Loop => IInv'
  BY PollIInv, SkipIInv, ListenerIInv, AcceptIInv, ServeIInv, RecvEofIInv,
     EndRoundIInv DEF Loop
<1>2. IInv /\ UNCHANGED vars => IInv'
  BY DEF IInv, vars, TypeOK, TableCoherent, Used, BacklogOK, RoundOK, Ahead,
         Readable, Queued, CountOK
<1> QED BY <1>1, <1>2, PeerIInv DEF Next

-----------------------------------------------------------------------------
(* The slot-by-slot invariant gives the properties the runs check.         *)
LEMMA IInvImplies == IInv => RoundExact /\ RecvNeverBlocks
<1> SUFFICES ASSUME IInv PROVE RoundExact /\ RecvNeverBlocks
  OBVIOUS
<1> USE SizeAssumption DEF IInv
<1>1. \A s \in Used : s \in Slots /\ s \in Int
  BY DEF Used, Slots, TypeOK
<1>2. RoundExact
  BY <1>1 DEF RoundExact, RoundOK, Ahead
<1>3. RecvNeverBlocks
  <2> SUFFICES ASSUME AtRecv PROVE Readable(fd[i])
    BY DEF RecvNeverBlocks
  <2>1. pc = "serve" /\ i \in Used /\ revents[i] = POLLIN /\ i >= i
    BY DEF AtRecv, AtClient, Serving, Used, TypeOK
  <2>2. Ahead(i) /\ i \in Slots
    BY <1>1, <2>1 DEF Ahead
  <2> QED BY <2>1, <2>2 DEF RoundOK
<1> QED BY <1>2, <1>3

(* The inductive invariant holds in every reachable state.                 *)
LEMMA SpecIInv == Spec => []IInv
  BY InitIInv, NextIInv, PTL DEF Spec

(* Type correctness: in particular active_fds and the cursor never leave   *)
(* the arrays of MAX_CLIENTS entries.                                      *)
THEOREM TypeCorrect == Spec => []TypeOK
<1>1. IInv => TypeOK
  BY DEF IInv
<1> QED BY <1>1, SpecIInv, PTL

(* watch_list and clients always agree, although removal rewrites both in  *)
(* the middle of a round.                                                  *)
THEOREM TableAlwaysCoherent == Spec => []TableCoherent
<1>1. IInv => TableCoherent
  BY DEF IInv
<1> QED BY <1>1, SpecIInv, PTL

(* No connection is lost from the table or counted twice: the slots in use *)
(* are one per open connection, plus the listener's.                       *)
THEOREM SlotsCountConnections == Spec => [](Cardinality(open) = active_fds - 1)
<1>1. IInv => Cardinality(open) = active_fds - 1
  BY DEF IInv, CountOK
<1> QED BY <1>1, SpecIInv, PTL

(* In every round each reported connection is reached once and no recv()   *)
(* can block the server.                                                   *)
THEOREM RoundsAreExact == Spec => [](RoundExact /\ RecvNeverBlocks)
  BY IInvImplies, SpecIInv, PTL

-----------------------------------------------------------------------------
(* The initial states of the loop are initial states of the rounds.        *)
LEMMA InitRounds == Init => R!RoundsInit
<1> SUFFICES ASSUME Init PROVE R!RoundsInit
  OBVIOUS
<1>1. \/ open = {} /\ FreeSlots = MAX_CLIENTS - 1
      \/ \E m \in Conns : open = {m} /\ FreeSlots = (MAX_CLIENTS - 1) - 1
  BY SizeAssumption DEF Init, EmptyTable, add_master_to_watchlist, FreeSlots
<1>2. StillToServe = {} /\ visited = {}
  BY DEF Init, StillToServe
<1>3. QueuedConns = {}
  BY DEF Init, QueuedConns, Queued
<1> QED BY <1>1, <1>2, <1>3 DEF R!RoundsInit

(* Every step of the loop or of a peer is a step of the rounds.            *)
LEMMA StepRounds == IInv /\ [Next]_vars => [R!RoundsNext]_(R!rvars)
<1> SUFFICES ASSUME IInv, [Next]_vars PROVE R!RoundsNext \/ UNCHANGED R!rvars
  OBVIOUS
<1> USE SizeAssumption DEF IInv
<1>a. ASSUME UNCHANGED <<backlog>> PROVE QueuedConns' = QueuedConns
  BY <1>a DEF QueuedConns, Queued
<1>b. ASSUME UNCHANGED <<open, active_fds, backlog, pc, reported, visited>>
      PROVE  UNCHANGED R!rvars
  BY <1>a, <1>b DEF R!rvars, StillToServe, FreeSlots
<1>c. ASSUME backlog # <<>>, backlog' = Tail(backlog)
      PROVE  Head(backlog) \in QueuedConns /\ QueuedConns' = QueuedConns \ {Head(backlog)}
  <2> DEFINE h == Head(backlog)
  <2>1. /\ h = backlog[1] /\ h \in Conns /\ 1 \in 1 .. Len(backlog)
        /\ \A n \in 1 .. Len(backlog') : /\ n + 1 \in 2 .. Len(backlog)
                                         /\ backlog'[n] = backlog[n + 1]
    BY <1>c, TailShifts DEF TypeOK
  <2>2. \A n \in 2 .. Len(backlog) : n - 1 \in 1 .. Len(backlog') /\ backlog'[n - 1] = backlog[n]
    <3>1. Len(backlog) \in Nat /\ Len(backlog') = Len(backlog) - 1
      <4>1. backlog \in Seq(Conns)
        BY DEF TypeOK
      <4>2. Len(Tail(backlog)) = Len(backlog) - 1
        BY <1>c, <4>1, HeadTailProperties
      <4> QED BY <1>c, <4>1, <4>2
    <3>2. \A n \in 2 .. Len(backlog) : n - 1 \in 1 .. Len(backlog') /\ (n - 1) + 1 = n
      BY <3>1
    <3> QED BY <2>1, <3>2
  <2> HIDE DEF h
  <2>3. \A n \in 2 .. Len(backlog) : backlog[n] # h
    BY <2>1 DEF BacklogOK
  <2>4. \A c \in Conns : Queued(c)' <=> Queued(c) /\ c # h
    <3> SUFFICES ASSUME NEW c \in Conns PROVE Queued(c)' <=> Queued(c) /\ c # h
      OBVIOUS
    <3>1. ASSUME Queued(c)' PROVE Queued(c) /\ c # h
      BY <3>1, <2>1, <2>3 DEF Queued
    <3>2. ASSUME Queued(c), c # h PROVE Queued(c)'
      <4>1. PICK n \in 1 .. Len(backlog) : backlog[n] = c
        BY <3>2 DEF Queued
      <4>2. n \in 2 .. Len(backlog)
        BY <4>1, <3>2, <2>1
      <4> QED BY <4>1, <4>2, <2>2 DEF Queued
    <3> QED BY <3>1, <3>2
  <2>5. Queued(h)
    BY <2>1 DEF Queued
  <2>6. h \in QueuedConns /\ QueuedConns' = QueuedConns \ {h}
    BY <2>1, <2>4, <2>5 DEF QueuedConns
  <2> QED BY <2>6 DEF h
<1>1. CASE UNCHANGED vars
  BY <1>1, <1>b DEF vars
<1>2. CASE Peer
  <2> PICK c \in Conns : Connect(c) \/ PeerSend(c) \/ Hangup(c)
    BY <1>2 DEF Peer
  <2>1. CASE Connect(c)
    <3>1. /\ backlog' = Append(backlog, c) /\ ~Queued(c) /\ c \notin open
          /\ UNCHANGED <<open, active_fds, pc, reported, visited>>
      BY <2>1 DEF Connect, table, round
    <3>2. Len(backlog') = Len(backlog) + 1 /\ Len(backlog) \in Nat
      BY <3>1 DEF TypeOK
    <3>3. /\ backlog'[Len(backlog) + 1] = c
          /\ \A n \in 1 .. Len(backlog) : backlog'[n] = backlog[n]
      BY <3>1 DEF TypeOK
    <3>4. \A d \in Conns : Queued(d)' <=> Queued(d) \/ d = c
      BY <3>2, <3>3 DEF Queued
    <3>5. QueuedConns' = QueuedConns \cup {c} /\ c \notin QueuedConns
      BY <3>1, <3>4 DEF QueuedConns
    <3>6. R!Arrive(c)
      BY <3>1, <3>5 DEF R!Arrive, StillToServe, FreeSlots
    <3> QED BY <3>6 DEF R!RoundsNext
  <2>2. CASE PeerSend(c) \/ Hangup(c)
    BY <2>2, <1>b DEF PeerSend, Hangup, table, round
  <2> QED BY <2>1, <2>2
<1>3. CASE Poll
  <2>1. R!StartRound
    <3>1. StillToServe = {} /\ StillToServe' \in SUBSET open /\ visited' = {}
      BY <1>3 DEF Poll, StillToServe
    <3> QED BY <1>3, <1>a, <3>1 DEF Poll, peers, FreeSlots, R!StartRound
  <2> QED BY <2>1 DEF R!RoundsNext
<1>4. CASE Skip \/ AcceptFails
  BY <1>4, <1>b DEF Skip, AcceptFails, table, peers, round
<1>5. CASE Accept
  <2> DEFINE h == Head(backlog)
  <2>1. h \in QueuedConns /\ QueuedConns' = QueuedConns \ {h}
    BY <1>5, <1>c DEF Accept
  <2>2. /\ open' = open \cup {h} /\ active_fds < MAX_CLIENTS
        /\ active_fds' = active_fds + 1
        /\ UNCHANGED <<pc, reported, visited>>
    BY <1>5 DEF Accept, AppendSlot, HasRoom, round
  <2>3. FreeSlots > 0 /\ FreeSlots' = FreeSlots - 1
    BY <2>2 DEF FreeSlots, TypeOK
  <2>4. h \in Conns /\ R!Admit(h)
    <3>1. h \in Conns /\ StillToServe' = StillToServe
      BY <2>1, <2>2 DEF StillToServe, QueuedConns
    <3> HIDE DEF h
    <3> QED BY <2>1, <2>2, <2>3, <3>1 DEF R!Admit
  <2> QED BY <2>4 DEF R!RoundsNext
<1>6. CASE Refuse
  <2> DEFINE h == Head(backlog)
  <2>1. h \in QueuedConns /\ QueuedConns' = QueuedConns \ {h}
    BY <1>6, <1>c DEF Refuse
  <2>2. /\ ~(active_fds < MAX_CLIENTS)
        /\ UNCHANGED <<open, active_fds, pc, reported, visited>>
    BY <1>6 DEF Refuse, HasRoom, table, round
  <2>3. FreeSlots = 0 /\ FreeSlots' = FreeSlots
    BY <2>2 DEF FreeSlots, TypeOK
  <2>4. h \in Conns /\ R!TurnAway(h)
    <3>1. h \in Conns /\ StillToServe' = StillToServe
      BY <2>1, <2>2 DEF StillToServe, QueuedConns
    <3> HIDE DEF h
    <3> QED BY <2>1, <2>2, <2>3, <3>1 DEF R!TurnAway
  <2> QED BY <2>4 DEF R!RoundsNext
<1>7. CASE SkipBlocked \/ RecvData \/ RecvEof
  <2>1. /\ pc = "serve" /\ pc' = pc /\ reported' = reported /\ backlog' = backlog
        /\ visited' = visited \cup {fd[i]}
        /\ \/ UNCHANGED <<open, active_fds>>
           \/ open' = open \ {fd[i]} /\ active_fds' = active_fds - 1
        /\ i \in Used /\ revents[i] = POLLIN /\ i >= i
    BY <1>7 DEF SkipBlocked, RecvData, RecvEof, AtRecv, AtClient, Serving, RemoveSlot,
                table, peers, Used, TypeOK
  <2>2. Ahead(i) /\ i \in Slots
    BY <2>1 DEF Ahead, Used, Slots, TypeOK
  <2>3. fd[i] \in reported \ visited /\ fd[i] \in Conns
    BY <2>1, <2>2 DEF RoundOK, TypeOK
  <2>4. \/ UNCHANGED <<open, FreeSlots>>
        \/ open' = open \ {fd[i]} /\ FreeSlots' = FreeSlots + 1
    BY <2>1 DEF FreeSlots, TypeOK
  <2>5. R!Serve(fd[i])
    BY <2>1, <2>3, <2>4, <1>a DEF R!Serve, StillToServe
  <2> QED BY <2>3, <2>5 DEF R!RoundsNext
<1>8. CASE EndRound
  <2>1. pc = "serve" /\ i >= active_fds /\ pc' = "poll"
        /\ UNCHANGED <<open, active_fds, backlog, reported, visited>>
    BY <1>8 DEF EndRound, table, peers, round
  <2>2. \A s \in Slots : ~Ahead(s)
    BY <2>1 DEF Ahead, Used, TypeOK, Slots
  <2>3. reported \ visited = {}
    BY <2>1, <2>2 DEF RoundOK
  <2> QED BY <1>a, <2>1, <2>3 DEF R!rvars, StillToServe, FreeSlots
<1> QED BY <1>1, <1>2, <1>3, <1>4, <1>5, <1>6, <1>7, <1>8 DEF Next, Loop

(* The loop implements the rounds: every connection poll() reports is      *)
(* served exactly once before the next poll(), whatever is accepted and    *)
(* removed meanwhile, and a peer is turned away only from a full table.    *)
THEOREM LoopImplementsRounds == Spec => ImplementsRounds
<1>1. IInv /\ [Next]_vars => [R!RoundsNext]_(R!rvars)
  BY StepRounds
<1> QED BY InitRounds, <1>1, SpecIInv, PTL DEF Spec, ImplementsRounds, R!RoundsSpec
=============================================================================
