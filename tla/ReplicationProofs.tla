------------------------- MODULE ReplicationProofs -------------------------
(***************************************************************************)
(* Proofs about Replication, for every number of clients and replicas and  *)
(* every length of the commands, and about Handshake, for every set of     *)
(* servers, every graph of who is whose replica and every size of buffer.  *)
(***************************************************************************)
EXTENDS Replication, Handshake, DataLemmas, FiniteSetTheorems

\* The part of TypeOK about clients and the master.
ClientType ==
    /\ now \in Nat /\ writes \in Nat /\ waits \in Nat
    /\ executed \subseteq Nat
    /\ queued \in [Clients -> SUBSET Nat]
    /\ is_queued \in [Clients -> BOOLEAN]
    /\ master_repl_offset \in Nat /\ captured_master_offset \in Nat
    /\ wantedReplicas \in Nat
    /\ wait_client_fd \in Clients \cup {NoClient}
    /\ is_blocked \in [Clients -> BOOLEAN]
    /\ is_waiting \in [Clients -> BOOLEAN]
    /\ timeout_at \in [Clients -> Nat]

\* The part of TypeOK about replicas.
ReplicaType ==
    /\ writes \in Nat
    /\ is_replica \in [Replicas -> BOOLEAN]
    /\ repl_offset \in [Replicas -> Nat]
    /\ joins \in [Replicas -> Nat]
    /\ joined \in [Replicas -> Nat]
    /\ link \in [Replicas -> Seq(Nat)]
    /\ acks \in [Replicas -> Seq(Nat)]
    /\ slave_repl_offset \in [Replicas -> Nat]
    /\ applied \in [Replicas -> SUBSET Nat]

\* The part of TypeOK about the ends of processes.
EndType ==
    /\ ended \in [Replicas -> BOOLEAN] /\ reset \in [Replicas -> BOOLEAN]
    /\ alive \in BOOLEAN

ClientInv == ClientType /\ WaiterWaits

\* AcksInOrder for one replica.
AcksOf(r) ==
    /\ repl_offset[r] <= slave_repl_offset[r]
    /\ \A n \in DOMAIN acks[r] : acks[r][n] \in repl_offset[r] .. slave_repl_offset[r]
    /\ \A m, n \in DOMAIN acks[r] : m <= n => acks[r][m] <= acks[r][n]

\* A write is on its way at most once, and WritesReachReplicas for one replica.
WritesOf(r) ==
    /\ \A m, n \in DOMAIN link[r] : m # n /\ link[r][m] = link[r][n] => link[r][m] = GETACK
    /\ applied[r] \cup SentWrites(r) = joined[r] + 1 .. writes
    /\ applied[r] \cap SentWrites(r) = {}

\* Nothing is on its way from or to a replica that is not connected.
PeerInv(r) ==
    /\ joined[r] <= writes
    /\ ~is_replica[r] => link[r] = <<>> /\ acks[r] = <<>>
    /\ is_replica[r] => AcksOf(r) /\ WritesOf(r)

ReplicaInv == ReplicaType /\ \A r \in Replicas : PeerInv(r)

-----------------------------------------------------------------------------
(* The range of a sequence after Append.                                   *)
LEMMA AppendFacts ==
    ASSUME NEW S, NEW s \in Seq(S), NEW x \in S
    PROVE  /\ Append(s, x) \in Seq(S)
           /\ DOMAIN s = 1 .. Len(s) /\ Len(s) \in Nat
           /\ DOMAIN Append(s, x) = 1 .. Len(s) + 1
           /\ \A n \in 1 .. Len(s) : Append(s, x)[n] = s[n]
           /\ Append(s, x)[Len(s) + 1] = x
           /\ Range(Append(s, x)) = Range(s) \cup {x}
<1>1. /\ Append(s, x) \in Seq(S)
      /\ DOMAIN s = 1 .. Len(s) /\ Len(s) \in Nat
      /\ DOMAIN Append(s, x) = 1 .. Len(s) + 1
      /\ \A n \in 1 .. Len(s) : Append(s, x)[n] = s[n]
      /\ Append(s, x)[Len(s) + 1] = x
  OBVIOUS
<1>2. 1 .. Len(s) + 1 = (1 .. Len(s)) \cup {Len(s) + 1}
  BY <1>1
<1> QED BY <1>1, <1>2 DEF Range

(* What Head and Tail leave of a sequence.                                 *)
LEMMA TailFacts ==
    ASSUME NEW S, NEW s \in Seq(S), s # <<>>
    PROVE  /\ Head(s) \in S /\ Head(s) = s[1] /\ Tail(s) \in Seq(S)
           /\ DOMAIN s = 1 .. Len(s) /\ Len(s) \in Nat /\ 1 \in DOMAIN s
           /\ DOMAIN Tail(s) = 1 .. Len(s) - 1
           /\ \A n \in 1 .. Len(s) - 1 : Tail(s)[n] = s[n + 1]
           /\ Range(s) = Range(Tail(s)) \cup {Head(s)}
<1>1. /\ Head(s) \in S /\ Head(s) = s[1] /\ Tail(s) \in Seq(S)
      /\ DOMAIN s = 1 .. Len(s) /\ Len(s) \in Nat /\ 1 \in DOMAIN s
      /\ DOMAIN Tail(s) = 1 .. Len(s) - 1
      /\ \A n \in 1 .. Len(s) - 1 : Tail(s)[n] = s[n + 1]
  BY EmptySeq, HeadTailProperties
<1>2. Range(s) \subseteq Range(Tail(s)) \cup {Head(s)}
  <2> SUFFICES ASSUME NEW n \in DOMAIN s
               PROVE  s[n] \in Range(Tail(s)) \cup {Head(s)}
    BY DEF Range
  <2>1. CASE n = 1
    BY <2>1, <1>1
  <2>2. CASE n # 1
    <3>1. n - 1 \in DOMAIN Tail(s) /\ Tail(s)[n - 1] = s[n]
      BY <2>2, <1>1
    <3> QED BY <3>1 DEF Range
  <2> QED BY <2>1, <2>2
<1>3. Range(Tail(s)) \cup {Head(s)} \subseteq Range(s)
  <2>1. \A n \in DOMAIN Tail(s) : n + 1 \in DOMAIN s /\ Tail(s)[n] = s[n + 1]
    BY <1>1
  <2> QED BY <1>1, <2>1 DEF Range
<1> QED BY <1>1, <1>2, <1>3

-----------------------------------------------------------------------------
(* No client waits and no replica is connected at the start.               *)
LEMMA InitInv == Init => ClientInv /\ ReplicaInv /\ EndType
  BY ReplicationAssumption DEF Init, ClientInv, ClientType, WaiterWaits, ReplicaInv,
     ReplicaType, PeerInv, EndType

(* The marks of what has ended keep their types.                           *)
LEMMA EndStep ==
    ASSUME EndType, [Next]_vars
    PROVE  EndType'
<1>1. CASE UNCHANGED endVars
  BY <1>1 DEF EndType, endVars
<1>2. ASSUME NEW m, SendToReplicas(m), UNCHANGED <<ended, alive>> PROVE EndType'
  <2>1. reset' \in [Replicas -> BOOLEAN]
    BY <1>2 DEF SendToReplicas, EndType
  <2> QED BY <1>2, <2>1 DEF EndType
<1>3. ASSUME NEW c \in Clients, Write(c) \/ QueueWrite(c) PROVE EndType'
  BY <1>2, <1>3 DEF Write, QueueWrite, Propagate
<1>4. ASSUME NEW c \in Clients, NEW wanted \in Wanted, NEW ms \in Timeouts, WAIT(c, wanted, ms)
      PROVE  EndType'
  <2>1. UNCHANGED <<ended, alive>> /\ (reset' = reset \/ SendToReplicas(GETACK))
    BY <1>4 DEF WAIT
  <2> QED BY <1>1, <1>2, <2>1 DEF endVars
<1>5. ASSUME NEW c \in Clients, Broken(c) PROVE EndType'
  BY <1>5 DEF Broken, EndType
<1>6. ASSUME NEW x \in Replicas, Leave(x) PROVE EndType'
  BY <1>6 DEF Leave, EndType
<1>7. ASSUME NEW x \in Replicas, Disconnected(x) PROVE EndType'
  BY <1>7 DEF Disconnected, EndType
<1>8. CASE \/ Tick \/ Sweep \/ \E c \in Clients : MULTI(c) \/ \E runs \in BOOLEAN : EndMulti(c, runs)
           \/ \E x \in Replicas : PSYNC(x) \/ ReplicaHandle(x) \/ replconf_handle_ack(x)
  <2>1. UNCHANGED endVars
    BY <1>8 DEF Tick, Sweep, MULTI, EndMulti, PSYNC, ReplicaHandle, replconf_handle_ack
  <2> QED BY <1>1, <2>1
<1>9. CASE UNCHANGED vars
  BY <1>1, <1>9 DEF vars
<1> QED BY <1>3, <1>4, <1>5, <1>6, <1>7, <1>8, <1>9 DEF Next

(* The clients' part is kept by every step.                                *)
LEMMA ClientStep ==
    ASSUME ClientInv, Next
    PROVE  ClientInv'
<1> USE ReplicationAssumption DEF ClientInv, ClientType, WaiterWaits
<1>1. CASE Tick
  BY <1>1 DEF Tick, clientVars, waitVars, masterVars
<1>2. CASE Sweep
  <2>1. /\ UNCHANGED <<now, queued, is_queued, timeout_at, captured_master_offset,
                       wantedReplicas, waits, masterVars>>
        /\ is_blocked' \in [Clients -> BOOLEAN] /\ is_waiting' \in [Clients -> BOOLEAN]
    BY <1>2 DEF Sweep
  <2>2. CASE WaitEnds
    BY <1>2, <2>1, <2>2 DEF Sweep, ClearWaiter, masterVars
  <2>3. CASE ~WaitEnds
    <3>1. /\ wait_client_fd' = wait_client_fd
          /\ \A c \in Clients : /\ is_waiting'[c] = is_waiting[c]
                                /\ is_blocked[c] /\ is_waiting[c] => is_blocked'[c]
      BY <1>2, <2>3 DEF Sweep, XreadTimeouts
    <3> QED BY <2>1, <3>1 DEF masterVars
  <2> QED BY <2>2, <2>3
<1>3. ASSUME NEW c \in Clients, Write(c) PROVE ClientInv'
  BY <1>3 DEF Write, Propagate, clientVars, waitVars
<1>4. ASSUME NEW c \in Clients, QueueWrite(c) PROVE ClientInv'
  BY <1>4 DEF QueueWrite, Propagate, waitVars
<1>5. ASSUME NEW c \in Clients, MULTI(c) PROVE ClientInv'
  BY <1>5 DEF MULTI, waitVars, masterVars
<1>6. ASSUME NEW c \in Clients, NEW runs \in BOOLEAN, EndMulti(c, runs) PROVE ClientInv'
  BY <1>6 DEF EndMulti, waitVars
<1>7. ASSUME NEW c \in Clients, NEW wanted \in Wanted, NEW ms \in Timeouts, WAIT(c, wanted, ms)
      PROVE  ClientInv'
  <2>1. /\ captured_master_offset' \in Nat /\ wantedReplicas' \in Nat
        /\ UNCHANGED <<now, masterVars>>
    BY <1>7 DEF WAIT
  <2>2. CASE UNCHANGED <<clientVars, wait_client_fd, waits, linkVars>>
    BY <2>1, <2>2 DEF clientVars, masterVars
  <2>3. CASE /\ waits' = waits + 1
             /\ wait_client_fd' = c
             /\ is_waiting' = [is_waiting EXCEPT ![c] = TRUE]
             /\ is_blocked' = [is_blocked EXCEPT ![c] = TRUE]
             /\ timeout_at' = [timeout_at EXCEPT ![c] = IF ms = 0 THEN 0 ELSE now + ms]
             /\ UNCHANGED <<queued, is_queued>>
    <3>1. is_waiting' \in [Clients -> BOOLEAN] /\ is_blocked' \in [Clients -> BOOLEAN]
      BY <2>3
    <3>2. timeout_at' \in [Clients -> Nat]
      BY <2>3
    <3>3. is_waiting'[c] /\ is_blocked'[c]
      BY <2>3
    <3> QED BY <2>1, <2>3, <3>1, <3>2, <3>3 DEF masterVars
  <2> QED BY <1>7, <2>2, <2>3 DEF WAIT, Deadline
<1>8. ASSUME NEW r \in Replicas,
             \/ PSYNC(r) \/ Leave(r) \/ Disconnected(r)
             \/ ReplicaHandle(r) \/ replconf_handle_ack(r)
      PROVE  ClientInv'
  BY <1>8 DEF PSYNC, Leave, Disconnected, ReplicaHandle, replconf_handle_ack, clientVars,
              waitVars, masterVars
<1>9. ASSUME NEW c \in Clients, Broken(c) PROVE ClientInv'
  BY <1>9 DEF Broken, clientVars, waitVars, masterVars
<1> QED BY <1>1, <1>2, <1>3, <1>4, <1>5, <1>6, <1>7, <1>8, <1>9 DEF Next

-----------------------------------------------------------------------------
(* A command sent to every connected replica: a GETACK, or the next write. *)
LEMMA SendStep ==
    ASSUME ReplicaInv, NEW m \in Nat, SendToReplicas(m),
           UNCHANGED <<is_replica, repl_offset, joins, joined, acks, slave_repl_offset, applied>>,
           \/ m = GETACK /\ writes' = writes
           \/ m = writes + 1 /\ writes' = writes + 1
    PROVE  ReplicaInv'
<1> USE DEF ReplicaInv, ReplicaType
<1>1. ReplicaType'
  <2>1. link' \in [Replicas -> Seq(Nat)]
    BY DEF SendToReplicas
  <2> QED BY <2>1
<1>2. ASSUME NEW r \in Replicas PROVE PeerInv(r)'
  <2>1. joined'[r] <= writes'
    BY DEF PeerInv
  <2>2. CASE ~is_replica[r]
    BY <2>1, <2>2 DEF PeerInv, SendToReplicas
  <2>3. CASE is_replica[r]
    <3>1. link'[r] = Append(link[r], m) /\ link[r] \in Seq(Nat)
      BY <2>3 DEF SendToReplicas
    <3>2. AcksOf(r) /\ WritesOf(r) /\ joined[r] <= writes
      BY <2>3 DEF PeerInv
    <3>3. AcksOf(r)'
      BY <3>2 DEF AcksOf
    <3>4. /\ DOMAIN link[r] = 1 .. Len(link[r]) /\ Len(link[r]) \in Nat
          /\ DOMAIN link'[r] = 1 .. Len(link[r]) + 1
          /\ \A n \in 1 .. Len(link[r]) : link'[r][n] = link[r][n]
          /\ link'[r][Len(link[r]) + 1] = m
          /\ Range(link'[r]) = Range(link[r]) \cup {m}
      BY ONLY <3>1, m \in Nat, AppendFacts
    <3>5. \A n \in DOMAIN link[r] : link[r][n] = GETACK \/ link[r][n] <= writes
      <4>1. \A n \in DOMAIN link[r] : link[r][n] \in Range(link[r])
        BY DEF Range
      <4> QED BY <3>2, <4>1 DEF WritesOf, SentWrites
    <3>6. ASSUME NEW i \in DOMAIN link'[r], NEW j \in DOMAIN link'[r],
                 i # j, link'[r][i] = link'[r][j]
          PROVE  link'[r][i] = GETACK
      <4>1. CASE i \in DOMAIN link[r] /\ j \in DOMAIN link[r]
        BY <3>2, <3>4, <3>6, <4>1 DEF WritesOf
      <4>2. CASE i = Len(link[r]) + 1 \/ j = Len(link[r]) + 1
        <5>1. link'[r][Len(link[r]) + 1] = m
          BY <3>4
        <5>2. CASE m = GETACK
          BY <3>6, <4>2, <5>1, <5>2
        <5>3. CASE m = writes + 1
          <6>1. ASSUME NEW n \in 1 .. Len(link[r]) PROVE link'[r][n] # m
            <7>1. link[r][n] = GETACK \/ link[r][n] <= writes
              BY <3>4, <3>5
            <7>2. link'[r][n] = link[r][n] /\ link[r][n] \in Nat /\ writes \in Nat
              <8>1. link'[r][n] = link[r][n]
                BY ONLY <3>4, n \in 1 .. Len(link[r])
              <8>2. link[r][n] \in Nat
                BY ONLY <3>1, n \in 1 .. Len(link[r]), ElementOfSeq
              <8> QED BY <8>1, <8>2
            <7> QED BY ONLY <5>3, <7>1, <7>2 DEF GETACK
          <6>2. \A n \in DOMAIN link'[r] : n # Len(link[r]) + 1 => n \in 1 .. Len(link[r])
            BY <3>4
          <6> QED BY <3>6, <4>2, <5>1, <6>1, <6>2
        <5> QED BY <5>2, <5>3
      <4>3. \/ i \in DOMAIN link[r] /\ j \in DOMAIN link[r]
            \/ i = Len(link[r]) + 1 \/ j = Len(link[r]) + 1
        <5> DEFINE k == Len(link[r])
        <5>1. DOMAIN link[r] = 1 .. k /\ k \in Nat /\ i \in 1 .. k + 1 /\ j \in 1 .. k + 1
          BY <3>4
        <5> HIDE DEF k
        <5>2. (i \in 1 .. k \/ i = k + 1) /\ (j \in 1 .. k \/ j = k + 1)
          BY ONLY <5>1
        <5> QED BY <5>1, <5>2 DEF k
      <4> QED BY <4>1, <4>2, <4>3
    <3>7. CASE m = GETACK /\ writes' = writes
      <4>1. SentWrites(r)' = SentWrites(r)
        BY <3>4, <3>7 DEF SentWrites
      <4>2. WritesOf(r)'
        BY <3>2, <3>6, <3>7, <4>1 DEF WritesOf
      <4> QED BY <2>1, <2>3, <3>3, <4>2 DEF PeerInv
    <3>8. CASE m = writes + 1 /\ writes' = writes + 1
      <4>1. SentWrites(r)' = SentWrites(r) \cup {m}
        BY <3>4, <3>8 DEF SentWrites, GETACK
      <4>2. m \notin applied[r]
        BY <3>2, <3>8 DEF WritesOf
      <4>3. joined[r] + 1 .. writes + 1 = (joined[r] + 1 .. writes) \cup {writes + 1}
        BY <3>2
      <4>4. /\ applied'[r] \cup SentWrites(r)' = joined'[r] + 1 .. writes'
            /\ applied'[r] \cap SentWrites(r)' = {}
        BY <3>2, <3>8, <4>1, <4>2, <4>3 DEF WritesOf
      <4>5. WritesOf(r)'
        BY <3>6, <4>4 DEF WritesOf
      <4> QED BY <2>1, <2>3, <3>3, <4>5 DEF PeerInv
    <3> QED BY <3>7, <3>8
  <2> QED BY <2>2, <2>3
<1> QED BY <1>1, <1>2

(* A step that concerns another replica.                                   *)
LEMMA OtherPeer ==
    ASSUME NEW d \in Replicas, PeerInv(d), writes' = writes,
           is_replica'[d] = is_replica[d], repl_offset'[d] = repl_offset[d],
           joined'[d] = joined[d], link'[d] = link[d], acks'[d] = acks[d],
           slave_repl_offset'[d] = slave_repl_offset[d], applied'[d] = applied[d]
    PROVE  PeerInv(d)'
<1>1. SentWrites(d)' = SentWrites(d)
  BY DEF SentWrites
<1>2. AcksOf(d)' <=> AcksOf(d)
  BY DEF AcksOf
<1>3. WritesOf(d)' <=> WritesOf(d)
  BY <1>1 DEF WritesOf
<1> QED BY <1>2, <1>3 DEF PeerInv

(* A handshake starts with empty connections and empty data.               *)
LEMMA JoinStep ==
    ASSUME ReplicaInv, NEW r \in Replicas, PSYNC(r) \/ Disconnected(r)
    PROVE  ReplicaInv'
<1> USE DEF ReplicaInv, ReplicaType
<1>1. ReplicaType' /\ writes' = writes
  <2>1. CASE PSYNC(r)
    BY <2>1 DEF PSYNC, masterVars
  <2>2. CASE Disconnected(r)
    BY <2>2 DEF Disconnected, peerVars, masterVars
  <2> QED BY <2>1, <2>2
<1>2. ASSUME NEW d \in Replicas, d # r PROVE PeerInv(d)'
  <2>1. /\ is_replica'[d] = is_replica[d] /\ repl_offset'[d] = repl_offset[d]
        /\ joined'[d] = joined[d] /\ link'[d] = link[d] /\ acks'[d] = acks[d]
        /\ slave_repl_offset'[d] = slave_repl_offset[d] /\ applied'[d] = applied[d]
    BY <1>2 DEF PSYNC, Disconnected, peerVars
  <2> QED BY <1>1, <2>1, OtherPeer
<1>3. CASE PSYNC(r)
  <2>1. /\ is_replica'[r] /\ repl_offset'[r] = 0 /\ slave_repl_offset'[r] = 0
        /\ joined'[r] = writes /\ applied'[r] = {} /\ link'[r] = <<>> /\ acks'[r] = <<>>
    BY <1>3 DEF PSYNC, PeerInv
  <2>2. AcksOf(r)'
    BY <2>1 DEF AcksOf
  <2>3. WritesOf(r)'
    BY <1>1, <2>1 DEF WritesOf, SentWrites, Range
  <2> QED BY <1>1, <1>2, <2>1, <2>2, <2>3 DEF PeerInv
<1>4. CASE Disconnected(r)
  <2>1. ~is_replica'[r] /\ link'[r] = <<>> /\ acks'[r] = <<>> /\ joined'[r] = joined[r]
    BY <1>4 DEF Disconnected
  <2> QED BY <1>1, <1>2, <2>1 DEF PeerInv
<1> QED BY <1>3, <1>4

(* The replica reads a write or a GETACK.                                  *)
LEMMA HandleStep ==
    ASSUME ReplicaInv, NEW r \in Replicas, ReplicaHandle(r)
    PROVE  ReplicaInv'
<1> USE ReplicationAssumption DEF ReplicaInv, ReplicaType
<1> DEFINE s == link[r]
<1>1. /\ s \in Seq(Nat) /\ s # <<>> /\ link' = [link EXCEPT ![r] = Tail(s)]
      /\ UNCHANGED <<is_replica, repl_offset, joins, joined, writes>>
  BY DEF ReplicaHandle, masterVars
<1>2. /\ Head(s) \in Nat /\ Head(s) = s[1] /\ Tail(s) \in Seq(Nat)
      /\ DOMAIN s = 1 .. Len(s) /\ Len(s) \in Nat /\ 1 \in DOMAIN s
      /\ DOMAIN Tail(s) = 1 .. Len(s) - 1
      /\ \A n \in 1 .. Len(s) - 1 : Tail(s)[n] = s[n + 1]
      /\ Range(s) = Range(Tail(s)) \cup {Head(s)}
  BY ONLY <1>1, TailFacts
<1>3. is_replica[r] /\ AcksOf(r) /\ WritesOf(r) /\ joined[r] <= writes
  BY <1>1 DEF PeerInv
<1>4. /\ link' \in [Replicas -> Seq(Nat)] /\ link'[r] = Tail(s)
      /\ \A d \in Replicas : d # r => link'[d] = link[d]
  BY <1>1, <1>2
<1>5. \A m, n \in DOMAIN Tail(s) :
          m # n /\ Tail(s)[m] = Tail(s)[n] => Tail(s)[m] = GETACK
  <2> SUFFICES ASSUME NEW m \in DOMAIN Tail(s), NEW n \in DOMAIN Tail(s),
                      m # n, Tail(s)[m] = Tail(s)[n]
               PROVE  Tail(s)[m] = GETACK
    OBVIOUS
  <2>1. /\ m + 1 \in DOMAIN s /\ n + 1 \in DOMAIN s /\ m + 1 # n + 1
        /\ Tail(s)[m] = s[m + 1] /\ Tail(s)[n] = s[n + 1]
    <3>1. m \in 1 .. Len(s) - 1 /\ n \in 1 .. Len(s) - 1
      BY <1>2
    <3> HIDE DEF s
    <3> QED BY ONLY <1>2, <3>1, m # n
  <2> QED BY <1>3, <2>1 DEF WritesOf
<1>6. CASE Head(s) # GETACK
  <2>1. /\ applied' = [applied EXCEPT ![r] = @ \cup {Head(s)}]
        /\ slave_repl_offset' = [slave_repl_offset EXCEPT ![r] = @ + WriteLen]
        /\ acks' = acks
    BY <1>6 DEF ReplicaHandle
  <2>2. ReplicaType'
    <3>1. applied' \in [Replicas -> SUBSET Nat]
      BY <1>2, <2>1
    <3>2. slave_repl_offset' \in [Replicas -> Nat]
      BY <2>1
    <3> HIDE DEF s
    <3> QED BY <1>1, <1>4, <2>1, <3>1, <3>2
  <2>3. /\ slave_repl_offset'[r] >= slave_repl_offset[r] /\ slave_repl_offset'[r] \in Nat
        /\ applied'[r] = applied[r] \cup {Head(s)}
        /\ \A d \in Replicas : d # r => /\ slave_repl_offset'[d] = slave_repl_offset[d]
                                       /\ applied'[d] = applied[d]
    BY <2>1
  <2>4. AcksOf(r)'
    <3>1. acks[r] \in Seq(Nat) /\ repl_offset[r] \in Nat /\ slave_repl_offset[r] \in Nat
      OBVIOUS
    <3> QED BY <1>1, <1>3, <2>1, <2>3, <3>1 DEF AcksOf
  <2>5. Head(s) \notin Range(Tail(s))
    <3> SUFFICES ASSUME NEW n \in DOMAIN Tail(s), Tail(s)[n] = Head(s) PROVE FALSE
      BY DEF Range
    <3>1. n + 1 \in DOMAIN s /\ n + 1 # 1 /\ s[n + 1] = s[1]
      <4> HIDE DEF s
      <4>1. n \in 1 .. Len(s) - 1
        BY <1>2
      <4> QED BY ONLY <1>2, <4>1, Tail(s)[n] = Head(s)
    <3> QED BY <1>2, <1>3, <1>6, <3>1 DEF WritesOf
  <2>6. /\ SentWrites(r) = SentWrites(r)' \cup {Head(s)}
        /\ Head(s) \notin SentWrites(r)'
    BY <1>2, <1>4, <1>6, <2>5 DEF SentWrites
  <2>7. WritesOf(r)'
    <3>1. /\ applied'[r] \cup SentWrites(r)' = joined'[r] + 1 .. writes'
          /\ applied'[r] \cap SentWrites(r)' = {}
      BY <1>1, <1>3, <2>3, <2>6 DEF WritesOf
    <3> QED BY <1>4, <1>5, <3>1 DEF WritesOf
  <2>8. PeerInv(r)'
    BY <1>1, <1>3, <2>4, <2>7 DEF PeerInv
  <2>9. ASSUME NEW d \in Replicas, d # r PROVE PeerInv(d)'
    BY <1>1, <1>4, <2>1, <2>3, <2>9, OtherPeer
  <2> QED BY <2>2, <2>8, <2>9
<1>7. CASE Head(s) = GETACK
  <2>1. /\ applied' = applied
        /\ slave_repl_offset' = [slave_repl_offset EXCEPT ![r] = @ + GetAckLen]
        /\ acks' = [acks EXCEPT ![r] = Append(acks[r], slave_repl_offset[r])]
    BY <1>7 DEF ReplicaHandle, AckedOffset
  <2>2. acks[r] \in Seq(Nat) /\ repl_offset[r] \in Nat /\ slave_repl_offset[r] \in Nat
    OBVIOUS
  <2>3. ReplicaType'
    <3>1. acks' \in [Replicas -> Seq(Nat)]
      BY <2>1, <2>2
    <3>2. slave_repl_offset' \in [Replicas -> Nat]
      BY <2>1
    <3> HIDE DEF s
    <3> QED BY <1>1, <1>4, <2>1, <3>1, <3>2
  <2>4. /\ slave_repl_offset'[r] >= slave_repl_offset[r] /\ slave_repl_offset'[r] \in Nat
        /\ acks'[r] = Append(acks[r], slave_repl_offset[r])
        /\ \A d \in Replicas : d # r => /\ slave_repl_offset'[d] = slave_repl_offset[d]
                                       /\ acks'[d] = acks[d]
    BY <2>1, <2>2
  <2>5. /\ DOMAIN acks[r] = 1 .. Len(acks[r]) /\ Len(acks[r]) \in Nat
        /\ DOMAIN acks'[r] = 1 .. Len(acks[r]) + 1
        /\ \A n \in 1 .. Len(acks[r]) : acks'[r][n] = acks[r][n]
        /\ acks'[r][Len(acks[r]) + 1] = slave_repl_offset[r]
    BY ONLY <2>2, <2>4, AppendFacts
  <2>6. AcksOf(r)'
    <3>1. \A n \in DOMAIN acks'[r] :
              acks'[r][n] \in repl_offset[r] .. slave_repl_offset[r]
      <4>1. \A n \in DOMAIN acks'[r] : n \in DOMAIN acks[r] \/ n = Len(acks[r]) + 1
        BY <2>5
      <4>2. slave_repl_offset[r] \in repl_offset[r] .. slave_repl_offset[r]
        BY <1>3, <2>2 DEF AcksOf
      <4>3. \A n \in DOMAIN acks[r] : acks[r][n] \in repl_offset[r] .. slave_repl_offset[r]
        BY <1>3 DEF AcksOf
      <4> QED BY ONLY <2>5, <4>1, <4>2, <4>3
    <3>2. ASSUME NEW m \in DOMAIN acks'[r], NEW n \in DOMAIN acks'[r], m <= n
          PROVE  acks'[r][m] <= acks'[r][n]
      <4>1. CASE n = Len(acks[r]) + 1
        BY <2>2, <2>5, <3>1, <4>1
      <4>2. CASE n # Len(acks[r]) + 1
        <5>1. m \in DOMAIN acks[r] /\ n \in DOMAIN acks[r]
          BY <2>5, <3>2, <4>2
        <5> QED BY <1>3, <2>5, <3>2, <5>1 DEF AcksOf
      <4> QED BY <4>1, <4>2
    <3>3. \A n \in DOMAIN acks'[r] :
              acks'[r][n] \in repl_offset'[r] .. slave_repl_offset'[r]
      <4>1. repl_offset'[r] = repl_offset[r]
        BY <1>1
      <4>2. repl_offset[r] .. slave_repl_offset[r]
                \subseteq repl_offset'[r] .. slave_repl_offset'[r]
        BY <2>2, <2>4, <4>1
      <4> QED BY ONLY <3>1, <4>2
    <3>4. repl_offset'[r] <= slave_repl_offset'[r]
      BY <1>1, <1>3, <2>2, <2>4 DEF AcksOf
    <3> QED BY ONLY <3>2, <3>3, <3>4 DEF AcksOf
  <2>7. SentWrites(r)' = SentWrites(r)
    BY <1>2, <1>4, <1>7 DEF SentWrites
  <2>8. WritesOf(r)'
    BY <1>1, <1>3, <1>4, <1>5, <2>1, <2>7 DEF WritesOf
  <2>9. PeerInv(r)'
    BY <1>1, <1>3, <2>6, <2>8 DEF PeerInv
  <2>10. ASSUME NEW d \in Replicas, d # r PROVE PeerInv(d)'
    BY <1>1, <1>4, <2>1, <2>4, <2>10, OtherPeer
  <2> QED BY <2>3, <2>9, <2>10
<1> QED BY <1>6, <1>7

(* The master reads an acknowledgement: the oldest, hence the smallest.    *)
LEMMA AckStep ==
    ASSUME ReplicaInv, NEW r \in Replicas, replconf_handle_ack(r)
    PROVE  ReplicaInv'
<1> USE DEF ReplicaInv, ReplicaType
<1> DEFINE s == acks[r]
<1>1. /\ s \in Seq(Nat) /\ s # <<>>
      /\ acks' = [acks EXCEPT ![r] = Tail(s)]
      /\ repl_offset' = [repl_offset EXCEPT ![r] = Head(s)]
      /\ UNCHANGED <<is_replica, joins, joined, link, writes, slave_repl_offset, applied>>
  BY DEF replconf_handle_ack, masterVars, peerVars
<1>2. /\ Head(s) \in Nat /\ Head(s) = s[1] /\ Tail(s) \in Seq(Nat)
      /\ DOMAIN s = 1 .. Len(s) /\ Len(s) \in Nat /\ 1 \in DOMAIN s
      /\ DOMAIN Tail(s) = 1 .. Len(s) - 1
      /\ \A n \in 1 .. Len(s) - 1 : Tail(s)[n] = s[n + 1]
  BY ONLY <1>1, TailFacts
<1>3. is_replica[r] /\ AcksOf(r) /\ WritesOf(r) /\ joined[r] <= writes
  BY <1>1 DEF PeerInv
<1>4. /\ acks'[r] = Tail(s) /\ repl_offset'[r] = s[1]
      /\ \A d \in Replicas : d # r => acks'[d] = acks[d] /\ repl_offset'[d] = repl_offset[d]
  BY <1>1, <1>2
<1>5. ReplicaType'
  BY <1>1, <1>2
<1>6. \A n \in DOMAIN Tail(s) :
          n + 1 \in DOMAIN s /\ 1 <= n + 1 /\ Tail(s)[n] = s[n + 1]
  <2> HIDE DEF s
  <2> QED BY ONLY <1>2
<1>7. AcksOf(r)'
  <2>1. \A n \in DOMAIN s : s[n] \in repl_offset[r] .. slave_repl_offset[r]
    BY <1>3 DEF AcksOf
  <2>2. \A m, n \in DOMAIN s : m <= n => s[m] <= s[n]
    BY <1>3 DEF AcksOf
  <2>3. repl_offset[r] \in Nat /\ slave_repl_offset[r] \in Nat
    OBVIOUS
  <2>4. \A n \in DOMAIN s : s[n] \in Nat /\ s[n] \in s[1] .. slave_repl_offset[r]
    <3> SUFFICES ASSUME NEW n \in DOMAIN s
                 PROVE  s[n] \in Nat /\ s[n] \in s[1] .. slave_repl_offset[r]
      OBVIOUS
    <3>1. 1 \in DOMAIN s /\ 1 <= n
      BY <1>2
    <3>2. s[1] <= s[n]
      BY <2>2, <3>1
    <3>3. /\ s[1] \in repl_offset[r] .. slave_repl_offset[r]
          /\ s[n] \in repl_offset[r] .. slave_repl_offset[r]
      BY <2>1, <3>1
    <3> HIDE DEF s
    <3> QED BY ONLY <2>3, <3>2, <3>3
  <2>5. repl_offset'[r] <= slave_repl_offset'[r]
    <3>1. slave_repl_offset'[r] = slave_repl_offset[r] /\ s[1] \in s[1] .. slave_repl_offset[r]
      BY <1>1, <1>2, <2>4
    <3>2. s[1] \in Nat
      BY <1>2
    <3> QED BY ONLY <1>4, <2>3, <3>1, <3>2
  <2>6. \A n \in DOMAIN acks'[r] :
            acks'[r][n] \in repl_offset'[r] .. slave_repl_offset'[r]
    <3>1. slave_repl_offset'[r] = slave_repl_offset[r]
      BY <1>1
    <3> QED BY ONLY <1>4, <1>6, <2>4, <3>1
  <2>7. \A m, n \in DOMAIN acks'[r] : m <= n => acks'[r][m] <= acks'[r][n]
    <3>1. \A n \in DOMAIN Tail(s) : n \in Int
      BY <1>2
    <3> QED BY ONLY <1>4, <1>6, <2>2, <3>1
  <2> QED BY ONLY <2>5, <2>6, <2>7 DEF AcksOf
<1>8. WritesOf(r)'
  BY <1>1, <1>3 DEF WritesOf, SentWrites
<1>9. PeerInv(r)'
  BY <1>1, <1>3, <1>7, <1>8 DEF PeerInv
<1>10. ASSUME NEW d \in Replicas, d # r PROVE PeerInv(d)'
  BY <1>1, <1>4, <1>10, OtherPeer
<1> QED BY <1>5, <1>9, <1>10

(* The replicas' part is kept when nothing of it changes.                  *)
LEMMA ReplicaStutter ==
    ASSUME ReplicaInv, UNCHANGED <<linkVars, peerVars, writes>>
    PROVE  ReplicaInv'
<1>1. ReplicaType'
  BY DEF ReplicaInv, ReplicaType, linkVars, peerVars
<1>2. ASSUME NEW d \in Replicas PROVE PeerInv(d)'
  BY OtherPeer DEF ReplicaInv, linkVars, peerVars
<1> QED BY <1>1, <1>2 DEF ReplicaInv

(* The replicas' part is kept by every step.                               *)
LEMMA ReplicaStep ==
    ASSUME ReplicaInv, Next
    PROVE  ReplicaInv'
<1>1. CASE Tick \/ Sweep
  <2>1. UNCHANGED <<linkVars, peerVars, writes>>
    BY <1>1 DEF Tick, Sweep, masterVars
  <2> QED BY <2>1, ReplicaStutter
<1>2. ASSUME NEW c \in Clients, Write(c) \/ QueueWrite(c) PROVE ReplicaInv'
  <2>1. /\ writes + 1 \in Nat /\ writes' = writes + 1 /\ SendToReplicas(writes + 1)
        /\ UNCHANGED <<is_replica, repl_offset, joins, joined, acks, slave_repl_offset, applied>>
    BY <1>2 DEF Write, QueueWrite, Propagate, SendToReplicas, peerVars, ReplicaInv, ReplicaType
  <2> QED BY <2>1, SendStep
<1>3. ASSUME NEW c \in Clients, MULTI(c) \/ \E runs \in BOOLEAN : EndMulti(c, runs)
      PROVE  ReplicaInv'
  <2>1. UNCHANGED <<linkVars, peerVars, writes>>
    BY <1>3 DEF MULTI, EndMulti, masterVars
  <2> QED BY <2>1, ReplicaStutter
<1>5. CASE (\E c \in Clients : Broken(c)) \/ \E r \in Replicas : Leave(r)
  <2>1. UNCHANGED <<linkVars, peerVars, writes>>
    BY <1>5 DEF Broken, Leave, masterVars
  <2> QED BY <2>1, ReplicaStutter
<1>4. ASSUME NEW c \in Clients, NEW wanted \in Wanted, NEW ms \in Timeouts, WAIT(c, wanted, ms)
      PROVE  ReplicaInv'
  <2>1. UNCHANGED <<peerVars, writes>>
    BY <1>4 DEF WAIT, masterVars
  <2>2. CASE UNCHANGED linkVars
    BY <2>1, <2>2, ReplicaStutter
  <2>3. CASE /\ SendToReplicas(GETACK)
             /\ UNCHANGED <<is_replica, repl_offset, joins, joined, acks>>
    <3>1. GETACK \in Nat
      BY DEF GETACK
    <3> QED BY <2>1, <2>3, <3>1, SendStep DEF peerVars
  <2> QED BY <1>4, <2>2, <2>3 DEF WAIT
<1> QED BY <1>1, <1>2, <1>3, <1>4, <1>5, JoinStep, HandleStep, AckStep DEF Next

-----------------------------------------------------------------------------
(* Bytes adds the lengths of the commands up from the first.               *)

Size(m) == IF m = GETACK THEN GetAckLen ELSE WriteLen

\* f[n] is the length of the first n commands of s.
SumsUpTo(f, s, N) == f = [n \in 0 .. N |-> IF n = 0 THEN 0 ELSE f[n - 1] + Size(s[n])]

(* A message of the stream has a size.                                     *)
LEMMA SizeNat == \A m : Size(m) \in Nat
  BY ReplicationAssumption DEF Size

(* The sums of the sizes of the first n messages exist, for every n.       *)
LEMMA SumsExist == ASSUME NEW s, NEW N \in Nat PROVE \E f : SumsUpTo(f, s, N)
<1> DEFINE T == {m \in Nat : \E f : SumsUpTo(f, s, m)}
<1>1. 0 \in T
  <2> DEFINE f == [n \in 0 .. 0 |-> 0]
  <2>1. SumsUpTo(f, s, 0)
    BY DEF SumsUpTo
  <2> HIDE DEF f
  <2> QED BY <2>1
<1>2. ASSUME NEW m \in Nat, m \in T PROVE m + 1 \in T
  <2>1. PICK f : SumsUpTo(f, s, m)
    BY <1>2
  <2>2. f = [n \in 0 .. m |-> IF n = 0 THEN 0 ELSE f[n - 1] + Size(s[n])]
    BY <2>1 DEF SumsUpTo
  <2> DEFINE g == [n \in 0 .. m + 1 |-> IF n = m + 1 THEN f[m] + Size(s[n]) ELSE f[n]]
  <2>3. ASSUME NEW n \in 0 .. m + 1
        PROVE  g[n] = IF n = 0 THEN 0 ELSE g[n - 1] + Size(s[n])
    <3>1. CASE n = 0
      <4>1. 0 \in 0 .. m + 1 /\ 0 \in 0 .. m /\ 0 # m + 1
        OBVIOUS
      <4>2. f[0] = 0
        BY <2>2, <4>1
      <4> QED BY <3>1, <4>1, <4>2
    <3>2. CASE n = m + 1
      <4>1. n - 1 = m /\ m \in 0 .. m + 1 /\ m # m + 1 /\ n # 0
        BY <3>2
      <4>2. g[n - 1] = f[m]
        BY <4>1
      <4> QED BY <3>2, <4>1, <4>2
    <3>3. CASE n # 0 /\ n # m + 1
      <4>1. n \in 0 .. m /\ n - 1 \in 0 .. m + 1 /\ n - 1 # m + 1
        BY <3>3
      <4>2. g[n - 1] = f[n - 1] /\ g[n] = f[n]
        BY <3>3, <4>1
      <4>3. f[n] = f[n - 1] + Size(s[n])
        BY <2>2, <3>3, <4>1
      <4> QED BY <3>3, <4>2, <4>3
    <3> QED BY <3>1, <3>2, <3>3
  <2>4. g = [n \in 0 .. m + 1 |-> g[n]]
    OBVIOUS
  <2> HIDE DEF g
  <2>5. SumsUpTo(g, s, m + 1)
    BY <2>3, <2>4 DEF SumsUpTo
  <2> QED BY <2>5
<1> HIDE DEF T
<1>3. Nat \subseteq T
  BY <1>1, <1>2, NumberInduction
<1> QED BY <1>3 DEF T

(* The sums, command by command.                                           *)
LEMMA BytesSums ==
    ASSUME NEW s \in Seq(Nat)
    PROVE  \E f : /\ Bytes(s) = f[Len(s)]
                  /\ f[0] = 0
                  /\ \A n \in 1 .. Len(s) : f[n] = f[n - 1] + Size(s[n])
                  /\ \A n \in 0 .. Len(s) : f[n] \in Nat
<1> DEFINE f == CHOOSE g : SumsUpTo(g, s, Len(s))
<1>1. Len(s) \in Nat
  BY LenProperties
<1>2. Bytes(s) = f[Len(s)]
  BY DEF Bytes, SumsUpTo, Size
<1>3. SumsUpTo(f, s, Len(s))
  BY <1>1, SumsExist
<1> HIDE DEF f
<1>4. f = [n \in 0 .. Len(s) |-> IF n = 0 THEN 0 ELSE f[n - 1] + Size(s[n])]
  BY <1>3 DEF SumsUpTo
<1>5. f[0] = 0
  BY <1>1, <1>4
<1>6. ASSUME NEW n \in 1 .. Len(s) PROVE f[n] = f[n - 1] + Size(s[n])
  <2>1. n \in 0 .. Len(s) /\ n # 0
    OBVIOUS
  <2> QED BY <1>4, <2>1
<1> DEFINE T == {n \in Nat : n <= Len(s) => f[n] \in Nat}
<1>7. 0 \in T
  BY <1>5
<1>8. ASSUME NEW n \in Nat, n \in T PROVE n + 1 \in T
  <2> SUFFICES ASSUME n + 1 <= Len(s) PROVE f[n + 1] \in Nat
    OBVIOUS
  <2>1. n + 1 \in 1 .. Len(s) /\ (n + 1) - 1 = n /\ n <= Len(s)
    BY <1>1
  <2>2. f[n] \in Nat
    BY <1>8, <2>1
  <2> QED BY <1>6, <2>1, <2>2, SizeNat
<1> HIDE DEF T
<1>9. Nat \subseteq T
  BY <1>7, <1>8, NumberInduction
<1>10. \A n \in 0 .. Len(s) : f[n] \in Nat
  BY <1>1, <1>9 DEF T
<1> QED BY <1>2, <1>5, <1>6, <1>10

(* An empty stream has no bytes.                                           *)
LEMMA BytesEmpty == Bytes(<<>>) = 0
<1>1. <<>> \in Seq(Nat) /\ Len(<<>>) = 0
  BY EmptySeq
<1> QED BY <1>1, BytesSums

\* A command sent adds its length.
LEMMA BytesAppend ==
    ASSUME NEW s \in Seq(Nat), NEW m \in Nat
    PROVE  Bytes(Append(s, m)) = Bytes(s) + Size(m) /\ Bytes(s) \in Nat
<1> DEFINE t == Append(s, m)
<1>0. Len(s) \in Nat
  BY LenProperties
<1>1. /\ t \in Seq(Nat) /\ Len(t) = Len(s) + 1
      /\ \A n \in 1 .. Len(s) : t[n] = s[n] /\ t[Len(s) + 1] = m
  BY AppendProperties
<1>2. t[Len(s) + 1] = m
  BY AppendProperties
<1> HIDE DEF t
<1>3. PICK f : /\ Bytes(s) = f[Len(s)] /\ f[0] = 0
               /\ \A n \in 1 .. Len(s) : f[n] = f[n - 1] + Size(s[n])
               /\ \A n \in 0 .. Len(s) : f[n] \in Nat
  BY BytesSums
<1>4. PICK g : /\ Bytes(t) = g[Len(t)] /\ g[0] = 0
               /\ \A n \in 1 .. Len(t) : g[n] = g[n - 1] + Size(t[n])
               /\ \A n \in 0 .. Len(t) : g[n] \in Nat
  BY <1>1, BytesSums
<1> DEFINE T == {n \in Nat : n <= Len(s) => g[n] = f[n]}
<1>5. 0 \in T
  BY <1>3, <1>4
<1>6. ASSUME NEW n \in Nat, n \in T PROVE n + 1 \in T
  <2> SUFFICES ASSUME n + 1 <= Len(s) PROVE g[n + 1] = f[n + 1]
    OBVIOUS
  <2>1. n + 1 \in 1 .. Len(s) /\ (n + 1) - 1 = n /\ n <= Len(s) /\ n + 1 \in 1 .. Len(t)
    BY <1>0, <1>1
  <2>2. g[n] = f[n]
    BY <1>6, <2>1
  <2>3. g[n + 1] = g[(n + 1) - 1] + Size(t[n + 1]) /\ f[n + 1] = f[(n + 1) - 1] + Size(s[n + 1])
    BY <1>3, <1>4, <2>1
  <2>4. t[n + 1] = s[n + 1]
    BY <1>1, <2>1
  <2> QED BY <2>1, <2>2, <2>3, <2>4
<1> HIDE DEF T
<1>7. Nat \subseteq T
  BY <1>5, <1>6, NumberInduction
<1>8. g[Len(s)] = f[Len(s)]
  BY <1>0, <1>7 DEF T
<1>9. Len(s) + 1 \in 1 .. Len(t) /\ (Len(s) + 1) - 1 = Len(s)
  BY <1>0, <1>1
<1>10. g[Len(t)] = g[Len(s)] + Size(m)
  BY <1>1, <1>2, <1>4, <1>9
<1>11. f[Len(s)] \in Nat
  BY <1>0, <1>3
<1> QED BY <1>3, <1>4, <1>8, <1>10, <1>11 DEF t

\* The length of what is left after the first command.
LEMMA BytesTail ==
    ASSUME NEW s \in Seq(Nat), s # <<>>
    PROVE  Bytes(s) = Size(Head(s)) + Bytes(Tail(s)) /\ Bytes(Tail(s)) \in Nat
<1> DEFINE t == Tail(s)
<1>1. /\ Len(s) \in Nat /\ 1 \in 1 .. Len(s) /\ Head(s) = s[1]
      /\ t \in Seq(Nat) /\ Len(t) = Len(s) - 1
      /\ \A n \in 1 .. Len(s) - 1 : t[n] = s[n + 1]
  BY TailFacts, LenProperties, HeadTailProperties
<1> HIDE DEF t
<1>3. PICK f : /\ Bytes(s) = f[Len(s)] /\ f[0] = 0
               /\ \A n \in 1 .. Len(s) : f[n] = f[n - 1] + Size(s[n])
               /\ \A n \in 0 .. Len(s) : f[n] \in Nat
  BY BytesSums
<1>4. PICK g : /\ Bytes(t) = g[Len(t)] /\ g[0] = 0
               /\ \A n \in 1 .. Len(t) : g[n] = g[n - 1] + Size(t[n])
               /\ \A n \in 0 .. Len(t) : g[n] \in Nat
  BY <1>1, BytesSums
<1> DEFINE T == {n \in Nat : n <= Len(t) => f[n + 1] = Size(s[1]) + g[n]}
<1>5. 0 \in T
  <2>1. f[1] = f[1 - 1] + Size(s[1]) /\ 1 - 1 = 0
    BY <1>1, <1>3
  <2> QED BY <1>3, <1>4, <2>1, SizeNat
<1>6. ASSUME NEW n \in Nat, n \in T PROVE n + 1 \in T
  <2> SUFFICES ASSUME n + 1 <= Len(t) PROVE f[(n + 1) + 1] = Size(s[1]) + g[n + 1]
    OBVIOUS
  <2>1. /\ n + 1 \in 1 .. Len(t) /\ (n + 1) - 1 = n /\ n <= Len(t) /\ n \in 0 .. Len(t)
        /\ (n + 1) + 1 \in 1 .. Len(s) /\ ((n + 1) + 1) - 1 = n + 1 /\ n + 1 \in 1 .. Len(s) - 1
    BY <1>1
  <2>2. f[n + 1] = Size(s[1]) + g[n]
    BY <1>6, <2>1
  <2>3. g[n + 1] = g[n] + Size(t[n + 1]) /\ f[(n + 1) + 1] = f[n + 1] + Size(s[(n + 1) + 1])
    BY <1>3, <1>4, <2>1
  <2>4. t[n + 1] = s[(n + 1) + 1]
    BY <1>1, <2>1
  <2>5. g[n] \in Nat
    BY <1>4, <2>1
  <2> QED BY <2>2, <2>3, <2>4, <2>5, SizeNat
<1> HIDE DEF T
<1>7. Nat \subseteq T
  BY <1>5, <1>6, NumberInduction
<1>8. Len(t) \in Nat /\ Len(t) + 1 = Len(s) /\ Len(t) \in 0 .. Len(t)
  BY <1>1
<1>9. f[Len(t) + 1] = Size(s[1]) + g[Len(t)]
  BY <1>7, <1>8 DEF T
<1>10. g[Len(t)] \in Nat
  BY <1>4, <1>8
<1> QED BY <1>1, <1>3, <1>4, <1>8, <1>9, <1>10 DEF t

-----------------------------------------------------------------------------
(* The accounts of the offsets: the master's counts the writes alone, and  *)
(* with them it is what a replica's differs from by GETACKs only.          *)

AccountOf(r, n) ==
    slave_repl_offset[r] + Bytes(link[r])
        = master_repl_offset - joined[r] * WriteLen + n * GetAckLen

OffsetInv ==
    /\ master_repl_offset = writes * WriteLen
    /\ \A r \in Replicas : is_replica[r] => \E n \in 0 .. waits : AccountOf(r, n)

\* A replica that the step does not concern, also when a WAIT is added.
LEMMA OtherAccount ==
    ASSUME ClientInv, NEW d \in Replicas, NEW n \in 0 .. waits, AccountOf(d, n),
           master_repl_offset' = master_repl_offset, waits' \in Nat, waits' >= waits,
           joined'[d] = joined[d], link'[d] = link[d],
           slave_repl_offset'[d] = slave_repl_offset[d]
    PROVE  \E k \in 0 .. waits' : AccountOf(d, k)'
<1>1. AccountOf(d, n)'
  BY DEF AccountOf
<1>2. n \in 0 .. waits'
  BY DEF ClientInv, ClientType
<1> QED BY <1>1, <1>2

\* The accounts do not change when nothing is sent or handled.
LEMMA SameAccounts ==
    ASSUME ClientInv, OffsetInv, master_repl_offset' = master_repl_offset, writes' = writes,
           UNCHANGED <<waits, is_replica, joined, link, slave_repl_offset>>
    PROVE  OffsetInv'
<1>1. ASSUME NEW r \in Replicas, is_replica'[r]
      PROVE  \E n \in 0 .. waits' : AccountOf(r, n)'
  <2>1. PICK n \in 0 .. waits : AccountOf(r, n)
    BY <1>1 DEF OffsetInv
  <2>2. AccountOf(r, n)'
    BY <2>1 DEF AccountOf
  <2> QED BY <2>2
<1> QED BY <1>1 DEF OffsetInv

\* A write is counted by the master and sent to the replica.
LEMMA WriteAccounts ==
    ASSUME ClientInv, ReplicaInv, OffsetInv, Propagate, UNCHANGED <<waits, slave_repl_offset>>
    PROVE  OffsetInv'
<1>0. /\ writes \in Nat /\ WriteLen \in Nat /\ GetAckLen \in Nat /\ master_repl_offset \in Nat
      /\ waits \in Nat
  BY ReplicationAssumption DEF ClientInv, ClientType
<1>1. /\ writes' = writes + 1 /\ master_repl_offset' = master_repl_offset + WriteLen
      /\ SendToReplicas(writes + 1) /\ UNCHANGED <<is_replica, joined>>
  BY DEF Propagate, SendToReplicas
<1>2. master_repl_offset' = writes' * WriteLen
  <2>1. (writes + 1) * WriteLen = writes * WriteLen + WriteLen
    BY <1>0
  <2> QED BY <1>1, <2>1 DEF OffsetInv
<1>3. ASSUME NEW r \in Replicas, is_replica'[r]
      PROVE  \E n \in 0 .. waits' : AccountOf(r, n)'
  <2>1. PICK n \in 0 .. waits : AccountOf(r, n)
    BY <1>1, <1>3 DEF OffsetInv
  <2>2. /\ link[r] \in Seq(Nat) /\ joined[r] \in Nat /\ slave_repl_offset[r] \in Nat
        /\ link'[r] = Append(link[r], writes + 1)
    BY <1>1, <1>3 DEF ReplicaInv, ReplicaType, SendToReplicas
  <2>3. Bytes(link'[r]) = Bytes(link[r]) + WriteLen /\ Bytes(link[r]) \in Nat
    <3>1. Size(writes + 1) = WriteLen
      BY <1>0 DEF Size, GETACK
    <3> QED BY <1>0, <2>2, <3>1, BytesAppend
  <2>4. joined[r] * WriteLen \in Nat /\ n * GetAckLen \in Nat /\ n \in Nat
    <3>1. n \in Nat /\ joined[r] \in Nat /\ WriteLen \in Nat /\ GetAckLen \in Nat
      BY <1>0, <2>2
    <3> QED BY ONLY <3>1, SMTT(30)
  <2>5. slave_repl_offset[r] + (Bytes(link[r]) + WriteLen)
            = (master_repl_offset + WriteLen) - joined[r] * WriteLen + n * GetAckLen
    <3>1. PICK j \in Nat : j = joined[r] * WriteLen
      BY <2>4
    <3>2. PICK g \in Nat : g = n * GetAckLen
      BY <2>4
    <3>3. slave_repl_offset[r] + Bytes(link[r]) = master_repl_offset - j + g
      BY <2>1, <3>1, <3>2, Zenon DEF AccountOf
    <3>4. slave_repl_offset[r] + (Bytes(link[r]) + WriteLen) = (master_repl_offset + WriteLen) - j + g
      <4>1. PICK b \in Nat : b = Bytes(link[r])
        BY <2>3
      <4>2. slave_repl_offset[r] + b = master_repl_offset - j + g /\ slave_repl_offset[r] \in Nat
        BY <2>2, <3>3, <4>1
      <4> QED BY ONLY <1>0, <4>1, <4>2, j \in Nat, g \in Nat
    <3> QED BY <3>1, <3>2, <3>4, Zenon
  <2>6. AccountOf(r, n)'
    BY <1>1, <2>3, <2>5, Zenon DEF AccountOf
  <2> QED BY <2>6
<1> QED BY <1>2, <1>3 DEF OffsetInv

\* A WAIT that blocks sends one GETACK to each replica.
LEMMA WaitAccounts ==
    ASSUME ClientInv, ReplicaInv, OffsetInv, SendToReplicas(GETACK), waits' = waits + 1,
           UNCHANGED <<writes, master_repl_offset, is_replica, joined, slave_repl_offset>>
    PROVE  OffsetInv'
<1>0. /\ WriteLen \in Nat /\ GetAckLen \in Nat /\ master_repl_offset \in Nat /\ waits \in Nat
  BY ReplicationAssumption DEF ClientInv, ClientType
<1>1. ASSUME NEW r \in Replicas, is_replica'[r]
      PROVE  \E n \in 0 .. waits' : AccountOf(r, n)'
  <2>1. PICK n \in 0 .. waits : AccountOf(r, n)
    BY <1>1 DEF OffsetInv
  <2>2. /\ link[r] \in Seq(Nat) /\ joined[r] \in Nat /\ slave_repl_offset[r] \in Nat
        /\ link'[r] = Append(link[r], GETACK)
    BY <1>1 DEF ReplicaInv, ReplicaType, SendToReplicas
  <2>3. Bytes(link'[r]) = Bytes(link[r]) + GetAckLen /\ Bytes(link[r]) \in Nat
    <3>1. Size(GETACK) = GetAckLen /\ GETACK \in Nat
      BY DEF Size, GETACK
    <3> QED BY <2>2, <3>1, BytesAppend
  <2>4. /\ joined[r] * WriteLen \in Nat /\ n * GetAckLen \in Nat /\ n \in Nat
        /\ (n + 1) * GetAckLen = n * GetAckLen + GetAckLen /\ n + 1 \in 0 .. waits'
    <3>1. n \in Nat /\ n + 1 \in 0 .. waits'
      BY <1>0
    <3>2. joined[r] * WriteLen \in Nat
      BY <1>0, <2>2
    <3>3. n * GetAckLen \in Nat
      BY <1>0, <3>1
    <3>4. (n + 1) * GetAckLen = n * GetAckLen + GetAckLen
      BY <1>0, <3>1
    <3> QED BY <3>1, <3>2, <3>3, <3>4
  <2>5. slave_repl_offset[r] + (Bytes(link[r]) + GetAckLen)
            = master_repl_offset - joined[r] * WriteLen + (n * GetAckLen + GetAckLen)
    <3>1. PICK j \in Nat : j = joined[r] * WriteLen
      BY <2>4
    <3>2. PICK g \in Nat : g = n * GetAckLen
      BY <2>4
    <3>3. slave_repl_offset[r] + Bytes(link[r]) = master_repl_offset - j + g
      BY <2>1, <3>1, <3>2, Zenon DEF AccountOf
    <3>4. slave_repl_offset[r] + (Bytes(link[r]) + GetAckLen) = master_repl_offset - j + (g + GetAckLen)
      <4>1. PICK b \in Nat : b = Bytes(link[r])
        BY <2>3
      <4>2. slave_repl_offset[r] + b = master_repl_offset - j + g /\ slave_repl_offset[r] \in Nat
        BY <2>2, <3>3, <4>1
      <4> QED BY ONLY <1>0, <4>1, <4>2, j \in Nat, g \in Nat
    <3> QED BY <3>1, <3>2, <3>4, Zenon
  <2>6. AccountOf(r, n + 1)'
    BY <2>3, <2>4, <2>5, Zenon DEF AccountOf
  <2> QED BY <2>4, <2>6
<1> QED BY <1>1 DEF OffsetInv

\* A replica joins with nothing on its way and an offset of 0, or leaves.
LEMMA JoinAccounts ==
    ASSUME ClientInv, ReplicaInv, OffsetInv, NEW r \in Replicas, PSYNC(r) \/ Disconnected(r)
    PROVE  OffsetInv'
<1>0. /\ writes \in Nat /\ WriteLen \in Nat /\ GetAckLen \in Nat /\ master_repl_offset \in Nat
      /\ waits \in Nat
  BY ReplicationAssumption DEF ClientInv, ClientType
<1>1. writes' = writes /\ master_repl_offset' = master_repl_offset /\ waits' = waits
  BY DEF PSYNC, Disconnected, waitVars, masterVars
<1>2. ASSUME NEW d \in Replicas, d # r, is_replica'[d]
      PROVE  \E n \in 0 .. waits' : AccountOf(d, n)'
  <2>1. /\ is_replica'[d] = is_replica[d] /\ joined'[d] = joined[d] /\ link'[d] = link[d]
        /\ slave_repl_offset'[d] = slave_repl_offset[d]
    BY <1>2 DEF PSYNC, Disconnected, peerVars, ReplicaInv, ReplicaType
  <2>2. PICK n \in 0 .. waits : AccountOf(d, n)
    BY <1>2, <2>1 DEF OffsetInv
  <2> QED BY <1>0, <1>1, <2>1, <2>2, OtherAccount
<1>3. ASSUME is_replica'[r]
      PROVE  \E n \in 0 .. waits' : AccountOf(r, n)'
  <2>1. PSYNC(r)
    BY <1>3 DEF Disconnected, ReplicaInv, ReplicaType
  <2>2. joined'[r] = writes /\ slave_repl_offset'[r] = 0 /\ link'[r] = <<>>
    BY <2>1 DEF PSYNC, ReplicaInv, ReplicaType, PeerInv
  <2>3. 0 * GetAckLen = 0 /\ 0 \in 0 .. waits' /\ master_repl_offset - writes * WriteLen = 0
    BY <1>0, <1>1 DEF OffsetInv
  <2>4. AccountOf(r, 0)'
    BY <1>0, <1>1, <2>2, <2>3, BytesEmpty DEF AccountOf
  <2> QED BY <2>3, <2>4
<1>4. ASSUME NEW d \in Replicas, is_replica'[d]
      PROVE  \E n \in 0 .. waits' : AccountOf(d, n)'
  BY <1>2, <1>3, <1>4
<1> QED BY <1>1, <1>4 DEF OffsetInv

\* A command handled moves from the connection into the replica's offset.
LEMMA HandleAccounts ==
    ASSUME ClientInv, ReplicaInv, OffsetInv, NEW r \in Replicas, ReplicaHandle(r)
    PROVE  OffsetInv'
<1>0. /\ WriteLen \in Nat /\ GetAckLen \in Nat /\ waits \in Nat /\ master_repl_offset \in Nat
      /\ link \in [Replicas -> Seq(Nat)] /\ slave_repl_offset \in [Replicas -> Nat]
  BY ReplicationAssumption DEF ClientInv, ClientType, ReplicaInv, ReplicaType
<1>1. /\ writes' = writes /\ master_repl_offset' = master_repl_offset /\ waits' = waits
      /\ UNCHANGED <<is_replica, joined>>
      /\ link[r] # <<>> /\ link' = [link EXCEPT ![r] = Tail(link[r])]
  BY DEF ReplicaHandle, waitVars, masterVars
<1>2. slave_repl_offset' = [slave_repl_offset EXCEPT ![r] = @ + Size(Head(link[r]))]
  BY DEF ReplicaHandle, Size
<1>3. ASSUME NEW d \in Replicas, is_replica'[d]
      PROVE  \E n \in 0 .. waits' : AccountOf(d, n)'
  <2>1. PICK n \in 0 .. waits : AccountOf(d, n)
    BY <1>1, <1>3 DEF OffsetInv
  <2>2. CASE d # r
    <3>1. /\ joined'[d] = joined[d] /\ link'[d] = link[d]
          /\ slave_repl_offset'[d] = slave_repl_offset[d]
      BY <1>0, <1>1, <1>2, <2>2
    <3> QED BY <1>0, <1>1, <2>1, <3>1, OtherAccount
  <2>3. CASE d = r
    <3>1. /\ link'[r] = Tail(link[r])
          /\ slave_repl_offset'[r] = slave_repl_offset[r] + Size(Head(link[r]))
          /\ slave_repl_offset[r] \in Nat /\ Size(Head(link[r])) \in Nat
      BY <1>0, <1>1, <1>2, SizeNat
    <3>2. /\ Bytes(link[r]) = Size(Head(link[r])) + Bytes(Tail(link[r]))
          /\ Bytes(Tail(link[r])) \in Nat
      BY <1>0, <1>1, BytesTail
    <3>3. slave_repl_offset'[r] + Bytes(link'[r]) = slave_repl_offset[r] + Bytes(link[r])
      BY <3>1, <3>2
    <3>4. AccountOf(d, n)'
      BY <1>1, <2>1, <2>3, <3>3 DEF AccountOf
    <3> QED BY <1>1, <3>4
  <2> QED BY <2>2, <2>3
<1> QED BY <1>1, <1>3 DEF OffsetInv

(* The accounts are kept by every step.                                    *)
LEMMA OffsetStep ==
    ASSUME ClientInv, ReplicaInv, OffsetInv, Next
    PROVE  OffsetInv'
<1>1. CASE Tick \/ Sweep
  <2>1. UNCHANGED <<writes, master_repl_offset, waits, is_replica, joined, link, slave_repl_offset>>
    BY <1>1 DEF Tick, Sweep, masterVars, waitVars, linkVars, peerVars
  <2> QED BY <2>1, SameAccounts
<1>2. ASSUME NEW c \in Clients, Write(c) \/ QueueWrite(c) PROVE OffsetInv'
  <2>1. Propagate /\ UNCHANGED <<waits, slave_repl_offset>>
    BY <1>2 DEF Write, QueueWrite, waitVars, peerVars
  <2> QED BY <2>1, WriteAccounts
<1>3. ASSUME NEW c \in Clients, MULTI(c) \/ \E runs \in BOOLEAN : EndMulti(c, runs)
      PROVE  OffsetInv'
  <2>1. UNCHANGED <<writes, master_repl_offset, waits, is_replica, joined, link, slave_repl_offset>>
    BY <1>3 DEF MULTI, EndMulti, masterVars, waitVars, linkVars, peerVars
  <2> QED BY <2>1, SameAccounts
<1>4. ASSUME NEW c \in Clients, NEW wanted \in Wanted, NEW ms \in Timeouts, WAIT(c, wanted, ms)
      PROVE  OffsetInv'
  <2>1. UNCHANGED <<writes, master_repl_offset, slave_repl_offset>>
    BY <1>4 DEF WAIT, masterVars, peerVars
  <2>2. CASE UNCHANGED <<waits, linkVars>>
    BY <2>1, <2>2, SameAccounts DEF linkVars
  <2>3. CASE /\ SendToReplicas(GETACK) /\ waits' = waits + 1
             /\ UNCHANGED <<is_replica, joined>>
    BY <2>1, <2>3, WaitAccounts
  <2> QED BY <1>4, <2>2, <2>3 DEF WAIT
<1>5. ASSUME NEW r \in Replicas, replconf_handle_ack(r) PROVE OffsetInv'
  <2>1. UNCHANGED <<writes, master_repl_offset, waits, is_replica, joined, link, slave_repl_offset>>
    BY <1>5 DEF replconf_handle_ack, masterVars, waitVars, peerVars
  <2> QED BY <2>1, SameAccounts
<1>6. CASE (\E c \in Clients : Broken(c)) \/ \E r \in Replicas : Leave(r)
  <2>1. UNCHANGED <<writes, master_repl_offset, waits, is_replica, joined, link, slave_repl_offset>>
    BY <1>6 DEF Broken, Leave, masterVars, waitVars, linkVars, peerVars
  <2> QED BY <2>1, SameAccounts
<1> QED BY <1>1, <1>2, <1>3, <1>4, <1>5, <1>6, JoinAccounts, HandleAccounts DEF Next

-----------------------------------------------------------------------------
(* The inductive invariant holds in every reachable state.                 *)
LEMMA SpecInv == Spec => [](ClientInv /\ ReplicaInv /\ OffsetInv /\ EndType)
<1>1. Init => OffsetInv
  BY ReplicationAssumption DEF Init, OffsetInv
<1>2. ClientInv /\ ReplicaInv /\ OffsetInv /\ EndType /\ [Next]_vars
         => (ClientInv /\ ReplicaInv /\ OffsetInv /\ EndType)'
  <2>1. ClientInv /\ UNCHANGED vars => ClientInv'
    BY DEF ClientInv, ClientType, WaiterWaits, vars, clientVars, waitVars, masterVars
  <2>2. ReplicaInv /\ UNCHANGED vars => ReplicaInv'
    BY ReplicaStutter DEF vars, masterVars
  <2>3. ClientInv /\ OffsetInv /\ UNCHANGED vars => OffsetInv'
    BY SameAccounts DEF vars, masterVars, waitVars, linkVars, peerVars
  <2> QED BY <2>1, <2>2, <2>3, ClientStep, ReplicaStep, OffsetStep, EndStep
<1> QED BY <1>1, <1>2, InitInv, PTL DEF Spec

(* Type correctness of the master, its clients and its replicas.           *)
THEOREM TypeCorrect == Spec => []TypeOK
<1>1. ClientInv /\ ReplicaInv /\ EndType => TypeOK
  BY DEF ClientInv, ReplicaInv, ClientType, ReplicaType, EndType, TypeOK
<1> QED BY <1>1, SpecInv, PTL

(* WAIT answers only a client that is blocked in WAIT, however many        *)
(* clients use WAIT at the same time.                                      *)
THEOREM WaiterAlwaysWaits == Spec => []WaiterWaits
<1>1. ClientInv => WaiterWaits
  BY DEF ClientInv
<1> QED BY <1>1, SpecInv, PTL

(* The master's view of a replica grows and never exceeds the replica's    *)
(* own offset.                                                             *)
THEOREM AcksAlwaysInOrder == Spec => []AcksInOrder
<1>1. ReplicaInv => AcksInOrder
  BY DEF ReplicaInv, PeerInv, AcksOf, AcksInOrder
<1> QED BY <1>1, SpecInv, PTL

(* A connected replica gets every write received since its PSYNC once.     *)
THEOREM WritesAlwaysReach == Spec => []WritesReachReplicas
<1>1. ReplicaInv => WritesReachReplicas
  BY DEF ReplicaInv, PeerInv, WritesOf, WritesReachReplicas
<1> QED BY <1>1, SpecInv, PTL

(* Every byte of a replica's offset is one of a write since its PSYNC or   *)
(* of a GETACK, of which a WAIT that blocks sends one.                     *)
THEOREM OffsetsAlwaysAccounted == Spec => []OffsetsAccounted
<1>1. OffsetInv => OffsetsAccounted
  BY DEF OffsetInv, AccountOf, OffsetsAccounted
<1> QED BY <1>1, SpecInv, PTL

(***************************************************************************)
(* The handshake and the stream of commands behind it.                     *)
(***************************************************************************)
Early == {"off", "ping", "replconf1", "replconf2"}

\* Parts of commands; a rest is what follows a head.
Cmd(t) == t.kind \in {"head", "write", "getack"}
Rest(t) == t.kind \in {"write", "getack"}

Tokens == [kind : {"PONG", "OK", "FULLRESYNC", "HEADER", "RDB", "head", "write", "getack"},
           n : Nat]

NoCmd(d) == \A i \in 1 .. Len(d) : ~Cmd(d[i])

Increasing(l) == \A i, j \in 1 .. Len(l) : i < j => l[i] < l[j]

\* A part of command v is on its way.
Pending(d, v) == \E i \in 1 .. Len(d) : Cmd(d[i]) /\ d[i].n = v

\* Commands are behind everything else, in order, each rest behind its head.
Framed(d) ==
    /\ \A i, j \in 1 .. Len(d) : i <= j /\ Cmd(d[i]) => Cmd(d[j])
    /\ \A i \in 1 .. Len(d) :
          IsHead(d[i]) => i < Len(d) /\ Rest(d[i + 1]) /\ d[i + 1].n = d[i].n
    /\ \A i \in 2 .. Len(d) : Rest(d[i]) => IsHead(d[i - 1])
    /\ \A i, j \in 1 .. Len(d) :
          i < j /\ Cmd(d[i]) => \/ d[i].n < d[j].n
                                \/ d[i].n = d[j].n /\ IsHead(d[i]) /\ j = i + 1

\* The tokens d on their way to a server against its history (passed, handled,
\* cut, offset): what is still to come was passed, is behind all that was
\* handled, was not given up, unless its head was, and is not in the offset.
Ahead(d, p, h, c, o) ==
    \A i \in 1 .. Len(d) : Cmd(d[i]) =>
        /\ d[i].n \in Range(p)
        /\ \A v \in Range(h) : v < d[i].n
        /\ d[i].n \in c => i = 1 /\ Rest(d[i])
        /\ o + (Len(d) - i + 1) <= 2 * Len(p)

Handled(d, p, h, c) ==
    \A v : v \in Range(h) <=> v \in Range(p) /\ v \notin c /\ ~Pending(d, v)

StreamType(d, p, h, c, o, N) ==
    /\ d \in Seq(Tokens) /\ p \in Seq(Nat) /\ h \in Seq(Nat) /\ o \in Nat /\ N \in Nat
    /\ Range(p) \subseteq 1 .. N /\ c \subseteq Range(p)

StreamOK(d, p, h, c, o, N) ==
    /\ StreamType(d, p, h, c, o, N)
    /\ Framed(d) /\ Ahead(d, p, h, c, o)
    /\ Increasing(h) /\ Handled(d, p, h, c)
    /\ o <= 2 * Len(p)

\* A server at l with requests u sends PSYNC last, and no command is passed and
\* PSYNC not answered before (seen is psync_seen).
RequestsOK(l, u, seen, d) ==
    /\ \A i \in 1 .. Len(u) : u[i] = "PSYNC" => i = Len(u) /\ l \notin Early
    /\ seen => u = <<>> /\ l \notin Early
    /\ ~seen => \A i \in 1 .. Len(d) : d[i].kind \in {"PONG", "OK"}

\* The answer to PSYNC behind x other replies, with the commands behind the RDB.
ResyncAt(d, x) ==
    /\ x + 4 <= Len(d)
    /\ \A i \in 1 .. x + 1 : d[i].kind \in {"PONG", "OK", "FULLRESYNC"}
    /\ d[x + 2] = Reply("HEADER") /\ d[x + 3] = Reply("RDB") /\ d[x + 4] = Reply("RDB")

\* The same when the master has ended before it sent the RDB.
ResyncCut(d) ==
    /\ NoCmd(d)
    /\ \A i \in 1 .. Len(d) : d[i] = Reply("HEADER") => i = Len(d)

\* The rem tokens drain_rdb lacks are there, in front of the commands, unless
\* the master has ended before it sent them.
DrainStream(d, rem, gone) ==
    (rem <= Len(d) /\ \A i \in 1 .. rem : ~Cmd(d[i])) \/ (gone /\ NoCmd(d))

\* What a server finds of the RDB when its handshake has come so far.
RdbOK(l, seen, d, rem, gone) ==
    /\ l = "psync" /\ seen => (\E x \in 0 .. Len(d) : ResyncAt(d, x)) \/ (gone /\ ResyncCut(d))
    /\ l = "drain" => DrainStream(d, rem, gone)
    /\ rem \in 0 .. RdbSize

MasterGone(s) == master_of[s] \in Servers /\ pc[master_of[s]] = "gone"

ServerOK(s) ==
    /\ StreamOK(down[s], passed[s], handled[s], cut[s], offset[s], cmds)
    /\ RequestsOK(pc[s], up[s], psync_seen[s], down[s])
    /\ RdbOK(pc[s], psync_seen[s], down[s], remaining[s], MasterGone(s))
    /\ psync_seen[s] => master_of[s] \in Servers

Labels == {"off", "ping", "replconf1", "replconf2", "psync", "drain", "loop", "gone"}

Requests == {"PING", "REPLCONF", "PSYNC"}

HandshakeType ==
    /\ master_of \in [Servers -> Servers \cup {NULL}]
    /\ pc \in [Servers -> Labels]
    /\ up \in [Servers -> Seq(Requests)]
    /\ down \in [Servers -> Seq(Tokens)]
    /\ psync_seen \in [Servers -> BOOLEAN] /\ linked \in [Servers -> BOOLEAN]
    /\ remaining \in [Servers -> 0 .. RdbSize]
    /\ handled \in [Servers -> Seq(Nat)] /\ passed \in [Servers -> Seq(Nat)]
    /\ offset \in [Servers -> Nat] /\ cut \in [Servers -> SUBSET Nat]
    /\ cmds \in 0 .. MaxCmds /\ stops \in Nat

HandshakeInv == HandshakeType /\ \A s \in Servers : ServerOK(s)

-----------------------------------------------------------------------------
(* The commands of a buffer.                                               *)

\* f[i] is what the loop has handled after i tokens.
Handles(f, buf, N) ==
    f = [i \in 0 .. N |->
           IF i = 0 THEN <<>>
           ELSE IF IsHead(buf[i]) /\ i < Len(buf) THEN Append(f[i - 1], buf[i].n)
           ELSE f[i - 1]]

(* The sets Whole builds token by token exist, for a buffer of any length. *)
LEMMA HandlesExist == ASSUME NEW buf, NEW N \in Nat PROVE \E f : Handles(f, buf, N)
<1> DEFINE T == {m \in Nat : \E f : Handles(f, buf, m)}
           Step(x, n) == IF IsHead(buf[n]) /\ n < Len(buf) THEN Append(x, buf[n].n) ELSE x
<1>1. 0 \in T
  <2> DEFINE f == [n \in 0 .. 0 |-> <<>>]
  <2>1. Handles(f, buf, 0)
    BY DEF Handles
  <2> HIDE DEF f
  <2> QED BY <2>1
<1>2. ASSUME NEW m \in Nat, m \in T PROVE m + 1 \in T
  <2>1. PICK f : Handles(f, buf, m)
    BY <1>2
  <2>2. f = [n \in 0 .. m |-> IF n = 0 THEN <<>> ELSE Step(f[n - 1], n)]
    BY <2>1 DEF Handles
  <2> DEFINE g == [n \in 0 .. m + 1 |-> IF n = m + 1 THEN Step(f[m], n) ELSE f[n]]
  <2> HIDE DEF Step
  <2>3. ASSUME NEW n \in 0 .. m + 1
        PROVE  g[n] = IF n = 0 THEN <<>> ELSE Step(g[n - 1], n)
    <3>1. CASE n = 0
      <4>1. 0 \in 0 .. m + 1 /\ 0 \in 0 .. m /\ 0 # m + 1
        OBVIOUS
      <4>2. f[0] = <<>>
        BY <2>2, <4>1
      <4> QED BY <3>1, <4>1, <4>2
    <3>2. CASE n = m + 1
      <4>1. n - 1 = m /\ m \in 0 .. m + 1 /\ m # m + 1 /\ n # 0
        BY <3>2
      <4>2. g[n - 1] = f[m]
        BY <4>1
      <4> QED BY <3>2, <4>1, <4>2
    <3>3. CASE n # 0 /\ n # m + 1
      <4>1. n \in 0 .. m /\ n - 1 \in 0 .. m + 1 /\ n - 1 # m + 1
        BY <3>3
      <4>2. g[n - 1] = f[n - 1] /\ g[n] = f[n]
        BY <3>3, <4>1
      <4>3. f[n] = Step(f[n - 1], n)
        BY <2>2, <3>3, <4>1
      <4> QED BY <3>3, <4>2, <4>3
    <3> QED BY <3>1, <3>2, <3>3
  <2>4. g = [n \in 0 .. m + 1 |-> g[n]]
    OBVIOUS
  <2> HIDE DEF g
  <2>5. g = [n \in 0 .. m + 1 |-> IF n = 0 THEN <<>> ELSE Step(g[n - 1], n)]
    BY <2>3, <2>4
  <2>6. Handles(g, buf, m + 1)
    BY <2>5 DEF Handles, Step
  <2> QED BY <2>6
<1> HIDE DEF T
<1>3. Nat \subseteq T
  BY <1>1, <1>2, NumberInduction
<1> QED BY <1>3 DEF T

HandleTurns(f, buf, N) ==
    /\ f[0] = <<>>
    /\ \A i \in 1 .. N :
          f[i] = IF IsHead(buf[i]) /\ i < Len(buf) THEN Append(f[i - 1], buf[i].n) ELSE f[i - 1]

(* What Whole computes, token by token.                                    *)
LEMMA WholeSteps ==
    ASSUME NEW buf, Len(buf) \in Nat
    PROVE  \E f : Whole(buf) = f[Len(buf)] /\ HandleTurns(f, buf, Len(buf))
<1> DEFINE N == Len(buf)
           f == CHOOSE g : Handles(g, buf, N)
<1>1. Whole(buf) = f[N]
  BY DEF Whole, Handles
<1>2. Handles(f, buf, N)
  BY HandlesExist
<1> HIDE DEF f
<1>3. f = [i \in 0 .. N |->
             IF i = 0 THEN <<>>
             ELSE IF IsHead(buf[i]) /\ i < Len(buf) THEN Append(f[i - 1], buf[i].n)
             ELSE f[i - 1]]
  BY <1>2 DEF Handles
<1>4. f[0] = <<>>
  BY <1>3
<1>5. ASSUME NEW i \in 1 .. N
      PROVE  f[i] = IF IsHead(buf[i]) /\ i < Len(buf) THEN Append(f[i - 1], buf[i].n) ELSE f[i - 1]
  <2>1. i \in 0 .. N /\ i # 0
    OBVIOUS
  <2> QED BY <1>3, <2>1
<1> QED BY <1>1, <1>4, <1>5 DEF HandleTurns

\* A piece of a stream in which the commands are in order.
Piece(buf) ==
    /\ buf \in Seq(Tokens)
    /\ \A i \in 1 .. Len(buf) : IsHead(buf[i]) /\ i < Len(buf) => ~IsHead(buf[i + 1])
    /\ \A i, j \in 1 .. Len(buf) :
          i < j /\ IsHead(buf[i]) /\ IsHead(buf[j]) => buf[i].n < buf[j].n

(* The commands handled are those whose head is not the last token, in     *)
(* order.                                                                  *)
LEMMA WholeOK ==
    ASSUME NEW buf, Piece(buf)
    PROVE  /\ Whole(buf) \in Seq(Nat) /\ Increasing(Whole(buf))
           /\ \A v : v \in Range(Whole(buf)) <=>
                 \E i \in 1 .. Len(buf) : i < Len(buf) /\ IsHead(buf[i]) /\ buf[i].n = v
<1> DEFINE N == Len(buf)
           Upto(v, k) == \E i \in 1 .. k : i < N /\ IsHead(buf[i]) /\ buf[i].n = v
<1>1. N \in Nat /\ \A i \in 1 .. N : buf[i].n \in Nat
  <2>1. buf \in Seq(Tokens)
    BY DEF Piece
  <2>2. N \in Nat /\ \A i \in 1 .. N : buf[i] \in Tokens
    BY <2>1, LenProperties, ElementOfSeq
  <2>3. \A t \in Tokens : t.n \in Nat
    BY DEF Tokens
  <2> QED BY <2>2, <2>3
<1>2. PICK f : Whole(buf) = f[N] /\ HandleTurns(f, buf, N)
  BY <1>1, WholeSteps
<1> DEFINE T == {k \in Nat : k <= N =>
                    /\ f[k] \in Seq(Nat) /\ Increasing(f[k])
                    /\ \A v : v \in Range(f[k]) <=> Upto(v, k)}
<1>3. 0 \in T
  <2>1. f[0] = <<>>
    BY <1>2 DEF HandleTurns
  <2>2. <<>> \in Seq(Nat) /\ Len(<<>>) = 0
    BY EmptySeq
  <2>3. Increasing(f[0])
    BY <2>1, <2>2 DEF Increasing
  <2>4. \A v : v \notin Range(f[0])
    <3>1. \A v : v \in Range(<<>>) <=> \E i \in 1 .. Len(<<>>) : <<>>[i] = v
      BY <2>2, InRange
    <3>2. 1 .. Len(<<>>) = {}
      BY <2>2
    <3> QED BY <2>1, <3>1, <3>2
  <2>5. \A v : ~Upto(v, 0)
    <3>1. 1 .. 0 = {}
      OBVIOUS
    <3> QED BY <3>1
  <2> HIDE DEF Upto
  <2> QED BY <2>1, <2>2, <2>3, <2>4, <2>5
<1>4. ASSUME NEW k \in Nat, k \in T PROVE k + 1 \in T
  <2> SUFFICES ASSUME k + 1 <= N
               PROVE  /\ f[k + 1] \in Seq(Nat) /\ Increasing(f[k + 1])
                      /\ \A v : v \in Range(f[k + 1]) <=> Upto(v, k + 1)
    OBVIOUS
  <2>1. k + 1 \in 1 .. N /\ (k + 1) - 1 = k /\ k <= N
    BY <1>1
  <2>2. /\ f[k] \in Seq(Nat) /\ Increasing(f[k])
        /\ \A v : v \in Range(f[k]) <=> Upto(v, k)
    BY <1>4, <2>1
  <2>3. f[k + 1] = IF IsHead(buf[k + 1]) /\ k + 1 < N THEN Append(f[k], buf[k + 1].n) ELSE f[k]
    BY <1>2, <2>1 DEF HandleTurns
  <2> HIDE DEF T, N
  <2>4. \A v : Upto(v, k + 1) <=> Upto(v, k) \/ (k + 1 < N /\ IsHead(buf[k + 1]) /\ buf[k + 1].n = v)
    <3>1. 1 .. k + 1 = (1 .. k) \cup {k + 1}
      OBVIOUS
    <3> QED BY <3>1
  <2>5. CASE ~(IsHead(buf[k + 1]) /\ k + 1 < N)
    <3>1. f[k + 1] = f[k]
      BY <2>3, <2>5
    <3>2. \A v : Upto(v, k + 1) <=> Upto(v, k)
      BY <2>4, <2>5
    <3> HIDE DEF Upto
    <3> QED BY <2>2, <3>1, <3>2
  <2>6. CASE IsHead(buf[k + 1]) /\ k + 1 < N
    <3> DEFINE x == buf[k + 1].n
               g == f[k]
               h == Append(g, x)
    <3>1. f[k + 1] = h /\ x \in Nat
      BY <1>1, <2>1, <2>3, <2>6
    <3>2. /\ h \in Seq(Nat) /\ Len(h) = Len(g) + 1 /\ Len(g) \in Nat
          /\ \A i \in 1 .. Len(g) : h[i] = g[i]
          /\ h[Len(g) + 1] = x
      BY <2>2, <3>1, AppendProperties, LenProperties
    <3>3. \A v : v \in Range(h) <=> v \in Range(g) \/ v = x
      <4>1. /\ \A v : v \in Range(h) <=> \E i \in 1 .. Len(h) : h[i] = v
            /\ \A v : v \in Range(g) <=> \E i \in 1 .. Len(g) : g[i] = v
        BY <2>2, <3>2, InRange
      <4>2. 1 .. Len(h) = (1 .. Len(g)) \cup {Len(g) + 1}
        BY <3>2
      <4> HIDE DEF g, h, x
      <4> QED BY <3>2, <4>1, <4>2
    <3>4. \A v \in Range(g) : v < x
      <4> SUFFICES ASSUME NEW v \in Range(g) PROVE v < x
        OBVIOUS
      <4>1. PICK i \in 1 .. k : i < N /\ IsHead(buf[i]) /\ buf[i].n = v
        BY <2>2
      <4>2. i \in 1 .. N /\ i < k + 1
        BY <1>1, <2>1
      <4> QED BY <2>1, <2>6, <4>1, <4>2 DEF Piece, N
    <3>5. Increasing(h)
      <4> SUFFICES ASSUME NEW i \in 1 .. Len(h), NEW j \in 1 .. Len(h), i < j
                   PROVE  h[i] < h[j]
        BY DEF Increasing
      <4>1. i \in 1 .. Len(g) /\ h[i] = g[i]
        <5> HIDE DEF g, h
        <5> QED BY <3>2
      <4>2. CASE j \in 1 .. Len(g)
        <5>1. h[j] = g[j]
          BY <3>2, <4>2
        <5> QED BY <2>2, <4>1, <4>2, <5>1 DEF Increasing
      <4>3. CASE j = Len(g) + 1
        <5>1. g[i] \in Range(g)
          BY <2>2, <4>1, InRange
        <5> QED BY <3>2, <3>4, <4>1, <4>3, <5>1
      <4>4. j \in 1 .. Len(g) \/ j = Len(g) + 1
        <5> HIDE DEF g, h
        <5> QED BY <3>2
      <4> QED BY <4>2, <4>3, <4>4
    <3>6. \A v : v \in Range(h) <=> Upto(v, k + 1)
      <4> HIDE DEF h, g, Upto
      <4>1. \A v : v \in Range(g) <=> Upto(v, k)
        BY <2>2 DEF g
      <4> QED BY <2>4, <2>6, <3>3, <4>1
    <3> HIDE DEF h, g, x, Upto
    <3> QED BY <3>1, <3>2, <3>5, <3>6
  <2> QED BY <2>5, <2>6
<1> HIDE DEF T
<1>5. Nat \subseteq T
  BY <1>3, <1>4, NumberInduction
<1>6. N \in T
  BY <1>1, <1>5
<1> QED BY <1>1, <1>2, <1>6 DEF T

\* No part of a command before position i of buf.
Before(buf, i) == \A j \in 1 .. i - 1 : ~Cmd(buf[j])

(* What the offset grows by is no more than the tokens of commands in the  *)
(* buffer.                                                                 *)
LEMMA WholeCount ==
    ASSUME NEW buf, Piece(buf), NEW i \in 1 .. Len(buf) + 1, Before(buf, i)
    PROVE  /\ Len(Whole(buf)) \in Nat /\ Stray(buf) \in 0 .. 1
           /\ 2 * Len(Whole(buf)) + Stray(buf) <= Len(buf) - i + 1
<1> DEFINE N == Len(buf)
           a == i - 1 + Stray(buf)
<1>0. buf \in Seq(Tokens)
  BY DEF Piece
<1>1. N \in Nat /\ Stray(buf) \in 0 .. 1 /\ i \in Nat /\ i <= N + 1 /\ i >= 1
  BY <1>0, LenProperties DEF Stray
<1>2. a \in Nat /\ a <= N /\ \A j \in 1 .. a : ~IsHead(buf[j])
  <2>1. CASE Stray(buf) = 0
    <3>1. a = i - 1
      BY <2>1, <1>1
    <3> QED BY <1>1, <3>1 DEF Before, Cmd, IsHead
  <2>2. CASE Stray(buf) # 0
    <3>1. buf # <<>> /\ buf[1].kind = "getack"
      BY <2>2 DEF Stray
    <3>2. N >= 1
      BY <1>0, <1>1, <3>1, EmptySeq
    <3>3. i = 1
      <4> SUFFICES ASSUME i # 1 PROVE FALSE
        OBVIOUS
      <4>1. 1 \in 1 .. i - 1
        BY <1>1
      <4> QED BY <3>1, <4>1 DEF Before, Cmd
    <3>4. a = 1
      BY <1>1, <2>2, <3>3
    <3>5. 1 .. a = {1}
      BY <3>4
    <3> QED BY <3>1, <3>2, <3>4, <3>5 DEF IsHead
  <2> QED BY <2>1, <2>2
<1>3. PICK f : Whole(buf) = f[N] /\ HandleTurns(f, buf, N)
  BY <1>1, WholeSteps
<1> HIDE DEF a
<1> DEFINE Is(k) == k >= 1 /\ IsHead(buf[k]) /\ k < N
           T == {k \in Nat : k <= N =>
                    /\ Len(f[k]) \in Nat /\ f[k] \in Seq(Nat)
                    /\ k <= a => Len(f[k]) = 0
                    /\ k >= a => 2 * Len(f[k]) <= k - a + 1
                    /\ k >= a /\ ~Is(k) => 2 * Len(f[k]) <= k - a}
<1>4. 0 \in T
  <2>1. f[0] = <<>>
    BY <1>3 DEF HandleTurns
  <2>2. <<>> \in Seq(Nat) /\ Len(<<>>) = 0
    BY EmptySeq
  <2>3. Len(f[0]) = 0 /\ f[0] \in Seq(Nat)
    BY <2>1, <2>2
  <2> HIDE DEF Is
  <2> QED BY <1>2, <2>3
<1>5. ASSUME NEW k \in Nat, k \in T PROVE k + 1 \in T
  <2> HIDE DEF Is
  <2> SUFFICES ASSUME k + 1 <= N
               PROVE  /\ Len(f[k + 1]) \in Nat /\ f[k + 1] \in Seq(Nat)
                      /\ k + 1 <= a => Len(f[k + 1]) = 0
                      /\ k + 1 >= a => 2 * Len(f[k + 1]) <= (k + 1) - a + 1
                      /\ k + 1 >= a /\ ~Is(k + 1) => 2 * Len(f[k + 1]) <= (k + 1) - a
    OBVIOUS
  <2>1. k + 1 \in 1 .. N /\ (k + 1) - 1 = k /\ k <= N
    BY <1>1
  <2>2. /\ Len(f[k]) \in Nat /\ f[k] \in Seq(Nat)
        /\ k <= a => Len(f[k]) = 0
        /\ k >= a => 2 * Len(f[k]) <= k - a + 1
        /\ k >= a /\ ~Is(k) => 2 * Len(f[k]) <= k - a
    BY <1>5, <2>1
  <2>3. f[k + 1] = IF IsHead(buf[k + 1]) /\ k + 1 < N THEN Append(f[k], buf[k + 1].n) ELSE f[k]
    BY <1>3, <2>1 DEF HandleTurns
  <2>4. CASE ~Is(k + 1)
    <3>1. f[k + 1] = f[k]
      BY <2>1, <2>3, <2>4 DEF Is
    <3> HIDE DEF T, N
    <3> QED BY <1>2, <2>2, <2>4, <3>1
  <2>5. CASE Is(k + 1)
    <3>1. IsHead(buf[k + 1]) /\ k + 1 < N
      BY <2>5 DEF Is
    <3>2. buf[k + 1].n \in Nat
      <4>1. buf[k + 1] \in Tokens
        BY <1>0, <2>1, ElementOfSeq
      <4> QED BY <4>1 DEF Tokens
    <3>3. f[k + 1] \in Seq(Nat) /\ Len(f[k + 1]) = Len(f[k]) + 1
      BY <2>2, <2>3, <3>1, <3>2, AppendProperties
    <3>4. k >= a
      <4> SUFFICES ASSUME k < a PROVE FALSE
        BY <1>2
      <4>1. k + 1 \in 1 .. a
        BY <1>2
      <4> QED BY <1>2, <3>1, <4>1
    <3>5. ~Is(k)
      <4> SUFFICES ASSUME Is(k) PROVE FALSE
        OBVIOUS
      <4>1. k \in 1 .. N /\ IsHead(buf[k]) /\ k < N
        BY <2>1 DEF Is
      <4> QED BY <3>1, <4>1 DEF Piece
    <3> HIDE DEF T, N
    <3> QED BY <1>2, <2>2, <2>5, <3>3, <3>4, <3>5
  <2> QED BY <2>4, <2>5
<1> HIDE DEF T
<1>6. Nat \subseteq T
  BY <1>4, <1>5, NumberInduction
<1>7. N \in T
  BY <1>1, <1>6
<1>8. ~Is(N)
  BY <1>1
<1>9. Len(f[N]) \in Nat /\ 2 * Len(f[N]) <= N - a
  <2> HIDE DEF Is
  <2>1. N <= N /\ N >= a
    BY <1>1, <1>2
  <2> QED BY <1>7, <1>8, <2>1 DEF T
<1>10. N - a = N - i + 1 - Stray(buf)
  BY <1>1 DEF a
<1> QED BY <1>1, <1>3, <1>9, <1>10

(* The parts that are given up, by position.                               *)
LEMMA PartsAre ==
    ASSUME NEW buf \in Seq(Tokens)
    PROVE  \A v : v \in Parts(buf) <=>
              /\ Len(buf) >= 1
              /\ \/ Rest(buf[1]) /\ buf[1].n = v
                 \/ IsHead(buf[Len(buf)]) /\ buf[Len(buf)].n = v
<1>1. Len(buf) \in Nat /\ DOMAIN buf = 1 .. Len(buf)
  BY LenProperties
<1>2. \A v : v \in Parts(buf) <=>
         \E j \in 1 .. Len(buf) :
            ((j = 1 /\ Rest(buf[j])) \/ (j = Len(buf) /\ IsHead(buf[j]))) /\ buf[j].n = v
  BY <1>1 DEF Parts, Rest
<1>3. Len(buf) >= 1 => 1 \in 1 .. Len(buf) /\ Len(buf) \in 1 .. Len(buf)
  BY <1>1
<1>4. \A j \in 1 .. Len(buf) : Len(buf) >= 1
  BY <1>1
<1> QED BY <1>2, <1>3, <1>4

(* Lists in order, one behind the other.                                   *)
LEMMA ConcatIncreasing ==
    ASSUME NEW g \in Seq(Nat), NEW h \in Seq(Nat), Increasing(g), Increasing(h),
           \A v \in Range(g) : \A w \in Range(h) : v < w
    PROVE  /\ g \o h \in Seq(Nat) /\ Increasing(g \o h)
           /\ \A v : v \in Range(g \o h) <=> v \in Range(g) \/ v \in Range(h)
<1> DEFINE l == g \o h
<1>1. /\ l \in Seq(Nat) /\ Len(l) = Len(g) + Len(h) /\ Len(g) \in Nat /\ Len(h) \in Nat
      /\ \A i \in 1 .. Len(g) : l[i] = g[i]
      /\ \A i \in 1 .. Len(h) : l[Len(g) + i] = h[i]
  BY ConcatElements
<1> HIDE DEF l
<1>2. ASSUME NEW i \in 1 .. Len(l)
      PROVE  i \in 1 .. Len(g) \/ (i - Len(g) \in 1 .. Len(h) /\ l[i] = h[i - Len(g)])
  <2>1. i <= Len(g) \/ i - Len(g) \in 1 .. Len(h)
    BY <1>1
  <2>2. CASE i - Len(g) \in 1 .. Len(h)
    <3>1. Len(g) + (i - Len(g)) = i
      BY <1>1
    <3> QED BY <1>1, <2>2, <3>1
  <2> QED BY <1>1, <2>1, <2>2
<1>3. /\ \A i \in 1 .. Len(g) : g[i] \in Range(g)
      /\ \A i \in 1 .. Len(h) : h[i] \in Range(h)
  BY InRange
<1>4. ASSUME NEW i \in 1 .. Len(l), NEW j \in 1 .. Len(l), i < j
      PROVE  l[i] < l[j]
  <2>1. CASE i \in 1 .. Len(g) /\ j \in 1 .. Len(g)
    BY <1>1, <1>4, <2>1 DEF Increasing
  <2>2. CASE i \in 1 .. Len(g) /\ j - Len(g) \in 1 .. Len(h) /\ l[j] = h[j - Len(g)]
    BY <1>1, <1>3, <2>2
  <2>3. CASE /\ i - Len(g) \in 1 .. Len(h) /\ l[i] = h[i - Len(g)]
             /\ j - Len(g) \in 1 .. Len(h) /\ l[j] = h[j - Len(g)]
    <3>1. i - Len(g) < j - Len(g)
      BY <1>1, <1>4
    <3> QED BY <2>3, <3>1 DEF Increasing
  <2>4. ~(i - Len(g) \in 1 .. Len(h) /\ j \in 1 .. Len(g))
    BY <1>1, <1>4
  <2> QED BY <1>2, <2>1, <2>2, <2>3, <2>4
<1>5. ASSUME NEW v PROVE v \in Range(l) <=> v \in Range(g) \/ v \in Range(h)
  <2>1. /\ v \in Range(l) <=> \E i \in 1 .. Len(l) : l[i] = v
        /\ v \in Range(g) <=> \E i \in 1 .. Len(g) : g[i] = v
        /\ v \in Range(h) <=> \E i \in 1 .. Len(h) : h[i] = v
    <3>1. v \in Range(l) <=> \E i \in 1 .. Len(l) : l[i] = v
      BY <1>1, InRange
    <3>2. v \in Range(g) <=> \E i \in 1 .. Len(g) : g[i] = v
      BY InRange
    <3>3. v \in Range(h) <=> \E i \in 1 .. Len(h) : h[i] = v
      BY InRange
    <3> QED BY <3>1, <3>2, <3>3
  <2>2. ASSUME NEW i \in 1 .. Len(g) PROVE i \in 1 .. Len(l)
    BY <1>1
  <2>3. ASSUME NEW i \in 1 .. Len(h) PROVE Len(g) + i \in 1 .. Len(l)
    BY <1>1
  <2>4. v \in Range(l) => v \in Range(g) \/ v \in Range(h)
    BY <1>1, <1>2, <2>1
  <2> QED BY <1>1, <2>1, <2>2, <2>3, <2>4
<1> QED BY <1>1, <1>4, <1>5 DEF l, Increasing

-----------------------------------------------------------------------------
(* What each step does to the stream on its way to a server.               *)

(* The kinds of tokens.                                                    *)
LEMMA Kinds ==
    /\ \A t : Cmd(t) <=> IsHead(t) \/ Rest(t)
    /\ \A t : ~(IsHead(t) /\ Rest(t))
  BY DEF Cmd, IsHead, Rest

(* The commands of a stream are not taken for each other.                  *)
LEMMA FramedOrder ==
    ASSUME NEW d \in Seq(Tokens), Framed(d),
           NEW i \in 1 .. Len(d), NEW j \in 1 .. Len(d), i < j, Cmd(d[i])
    PROVE  /\ d[i].n \in Nat /\ d[j].n \in Nat
           /\ d[i].n <= d[j].n
           /\ d[i].n = d[j].n => IsHead(d[i]) /\ j = i + 1 /\ Rest(d[j])
<1>1. d[i] \in Tokens /\ d[j] \in Tokens
  BY ElementOfSeq
<1>2. d[i].n \in Nat /\ d[j].n \in Nat
  BY <1>1 DEF Tokens
<1>3. \/ d[i].n < d[j].n
      \/ d[i].n = d[j].n /\ IsHead(d[i]) /\ j = i + 1
  BY DEF Framed
<1>4. IsHead(d[i]) => Rest(d[i + 1])
  BY DEF Framed
<1> QED BY <1>2, <1>3, <1>4

(* A piece of a stream: its whole commands are the heads before its end.   *)
LEMMA PieceOf ==
    ASSUME NEW d \in Seq(Tokens), Framed(d), NEW b \in Nat, NEW n \in Nat, b <= n, n <= Len(d)
    PROVE  Piece(SubSeq(d, b + 1, n))
<1> DEFINE buf == SubSeq(d, b + 1, n)
<1>1. /\ buf \in Seq(Tokens) /\ Len(buf) = n - b
      /\ \A i \in 1 .. n - b : buf[i] = d[b + i]
  BY SliceElements
<1>2. Len(d) \in Nat
  BY LenProperties
<1>3. \A i \in 1 .. n - b : b + i \in 1 .. Len(d)
  BY <1>2
<1> HIDE DEF buf
<1>4. ASSUME NEW i \in 1 .. Len(buf), IsHead(buf[i]), i < Len(buf) PROVE ~IsHead(buf[i + 1])
  <2>1. i \in 1 .. n - b /\ i + 1 \in 1 .. n - b /\ b + (i + 1) = (b + i) + 1
    BY <1>1, <1>4
  <2>2. buf[i] = d[b + i] /\ buf[i + 1] = d[(b + i) + 1]
    BY <1>1, <2>1
  <2>3. Rest(d[(b + i) + 1])
    BY <1>3, <1>4, <2>1, <2>2 DEF Framed
  <2> QED BY <2>2, <2>3, Kinds
<1>5. ASSUME NEW i \in 1 .. Len(buf), NEW j \in 1 .. Len(buf), i < j, IsHead(buf[i]), IsHead(buf[j])
      PROVE  buf[i].n < buf[j].n
  <2>1. /\ i \in 1 .. n - b /\ j \in 1 .. n - b /\ b + i < b + j
        /\ b + i \in 1 .. Len(d) /\ b + j \in 1 .. Len(d)
    BY <1>1, <1>3, <1>5
  <2>2. buf[i] = d[b + i] /\ buf[j] = d[b + j]
    BY <1>1, <2>1
  <2>3. Cmd(d[b + i]) /\ ~Rest(d[b + j])
    BY <1>5, <2>2, Kinds
  <2>4. /\ d[b + i].n \in Nat /\ d[b + j].n \in Nat /\ d[b + i].n <= d[b + j].n
        /\ d[b + i].n # d[b + j].n
    BY <2>1, <2>3, FramedOrder
  <2>5. d[b + i].n < d[b + j].n
    BY <2>4
  <2> QED BY <2>2, <2>5
<1> QED BY <1>1, <1>4, <1>5 DEF Piece, buf

(* What is left of a stream is a stream.                                   *)
LEMMA FramedRest ==
    ASSUME NEW d \in Seq(Tokens), Framed(d), NEW n \in Nat, n <= Len(d)
    PROVE  Framed(SubSeq(d, n + 1, Len(d)))
<1> DEFINE r == SubSeq(d, n + 1, Len(d))
           L == Len(d)
<1>1. L \in Nat
  BY LenProperties
<1>2. Len(r) = L - n /\ \A i \in 1 .. L - n : r[i] = d[n + i]
  BY <1>1, SliceElements
<1>3. \A i \in 1 .. L - n : n + i \in 1 .. L
  BY <1>1
<1> HIDE DEF r, L
<1>4. ASSUME NEW i \in 1 .. Len(r), NEW j \in 1 .. Len(r), i <= j, Cmd(r[i]) PROVE Cmd(r[j])
  <2>1. /\ n + i \in 1 .. L /\ n + j \in 1 .. L /\ n + i <= n + j
        /\ r[i] = d[n + i] /\ r[j] = d[n + j]
    BY <1>2, <1>3, <1>4
  <2> QED BY <1>4, <2>1 DEF Framed, L
<1>5. ASSUME NEW i \in 1 .. Len(r), IsHead(r[i])
      PROVE  i < Len(r) /\ Rest(r[i + 1]) /\ r[i + 1].n = r[i].n
  <2>1. n + i \in 1 .. L /\ r[i] = d[n + i]
    BY <1>2, <1>3
  <2>2. n + i < L /\ Rest(d[(n + i) + 1]) /\ d[(n + i) + 1].n = d[n + i].n
    BY <1>5, <2>1 DEF Framed, L
  <2>3. i < Len(r) /\ i + 1 \in 1 .. L - n /\ n + (i + 1) = (n + i) + 1
    BY <1>1, <1>2, <2>2
  <2>4. r[i + 1] = d[(n + i) + 1]
    BY <1>2, <2>3
  <2> QED BY <2>1, <2>2, <2>3, <2>4
<1>6. ASSUME NEW i \in 2 .. Len(r), Rest(r[i]) PROVE IsHead(r[i - 1])
  <2>1. /\ i \in 1 .. L - n /\ i - 1 \in 1 .. L - n
        /\ n + i \in 2 .. L /\ n + (i - 1) = (n + i) - 1
    BY <1>1, <1>2
  <2>2. r[i] = d[n + i] /\ r[i - 1] = d[(n + i) - 1]
    BY <1>2, <2>1
  <2> QED BY <1>6, <2>1, <2>2 DEF Framed, L
<1>7. ASSUME NEW i \in 1 .. Len(r), NEW j \in 1 .. Len(r), i < j, Cmd(r[i])
      PROVE  \/ r[i].n < r[j].n
             \/ r[i].n = r[j].n /\ IsHead(r[i]) /\ j = i + 1
  <2>1. /\ n + i \in 1 .. L /\ n + j \in 1 .. L /\ n + i < n + j
        /\ r[i] = d[n + i] /\ r[j] = d[n + j]
    BY <1>2, <1>3, <1>7
  <2>2. \/ d[n + i].n < d[n + j].n
        \/ d[n + i].n = d[n + j].n /\ IsHead(d[n + i]) /\ n + j = (n + i) + 1
    BY <1>7, <2>1 DEF Framed, L
  <2>3. n + j = (n + i) + 1 => j = i + 1
    BY <1>1, <1>2
  <2> QED BY <2>1, <2>2, <2>3
<1> QED BY <1>4, <1>5, <1>6, <1>7 DEF Framed, r, L

\* The first b tokens of d are no part of a command.
Clear(d, b) == \A i \in 1 .. b : ~Cmd(d[i])

(* The commands handled when n tokens are received and the first b of them *)
(* skipped, in terms of the stream.                                        *)
LEMMA ConsumeWhole ==
    ASSUME NEW d \in Seq(Tokens), Framed(d), NEW b \in Nat, NEW n \in Nat, b <= n,
           n <= Len(d), Clear(d, b)
    PROVE  /\ Whole(SubSeq(d, b + 1, n)) \in Seq(Nat)
           /\ Increasing(Whole(SubSeq(d, b + 1, n)))
           /\ \A v : v \in Range(Whole(SubSeq(d, b + 1, n))) <=>
                 \E k \in 1 .. Len(d) : k < n /\ IsHead(d[k]) /\ d[k].n = v
<1> DEFINE buf == SubSeq(d, b + 1, n)
<1>1. /\ buf \in Seq(Tokens) /\ Len(buf) = n - b
      /\ \A i \in 1 .. n - b : buf[i] = d[b + i]
  BY SliceElements
<1>2. Len(d) \in Nat /\ Piece(buf)
  BY LenProperties, PieceOf
<1> HIDE DEF buf
<1>3. /\ Whole(buf) \in Seq(Nat) /\ Increasing(Whole(buf))
      /\ \A v : v \in Range(Whole(buf)) <=>
            \E i \in 1 .. Len(buf) : i < Len(buf) /\ IsHead(buf[i]) /\ buf[i].n = v
  BY <1>2, WholeOK
<1>4. ASSUME NEW i \in 1 .. Len(buf), i < Len(buf)
      PROVE  b + i \in 1 .. Len(d) /\ b + i < n /\ buf[i] = d[b + i]
  BY <1>1, <1>2, <1>4
<1>5. ASSUME NEW k \in 1 .. Len(d), k < n, IsHead(d[k])
      PROVE  k - b \in 1 .. Len(buf) /\ k - b < Len(buf) /\ buf[k - b] = d[k]
  <2>1. ~(k <= b)
    <3> SUFFICES ASSUME k \in 1 .. b PROVE FALSE
      OBVIOUS
    <3> QED BY <1>5, Kinds DEF Clear
  <2>2. k - b \in 1 .. n - b /\ k - b < n - b /\ b + (k - b) = k
    BY <1>2, <1>5, <2>1
  <2> QED BY <1>1, <2>2
<1>6. ASSUME NEW v
      PROVE  v \in Range(Whole(buf)) <=>
                \E k \in 1 .. Len(d) : k < n /\ IsHead(d[k]) /\ d[k].n = v
  <2>1. ASSUME v \in Range(Whole(buf))
        PROVE  \E k \in 1 .. Len(d) : k < n /\ IsHead(d[k]) /\ d[k].n = v
    <3>1. PICK i \in 1 .. Len(buf) : i < Len(buf) /\ IsHead(buf[i]) /\ buf[i].n = v
      BY <1>3, <2>1
    <3>2. b + i \in 1 .. Len(d) /\ b + i < n /\ buf[i] = d[b + i]
      BY <1>4, <3>1
    <3> QED BY <3>1, <3>2
  <2>2. ASSUME NEW k \in 1 .. Len(d), k < n, IsHead(d[k]), d[k].n = v
        PROVE  v \in Range(Whole(buf))
    <3>1. k - b \in 1 .. Len(buf) /\ k - b < Len(buf) /\ buf[k - b] = d[k]
      BY <1>5, <2>2
    <3> QED BY <1>3, <2>2, <3>1
  <2> QED BY <2>1, <2>2
<1> QED BY <1>3, <1>6 DEF buf

(* The commands given up.                                                  *)
LEMMA ConsumeParts ==
    ASSUME NEW d \in Seq(Tokens), Framed(d), NEW b \in Nat, NEW n \in Nat, b <= n,
           n <= Len(d), Clear(d, b)
    PROVE  \A v : v \in Parts(SubSeq(d, b + 1, n)) <=>
              /\ n >= 1
              /\ \/ b = 0 /\ Rest(d[1]) /\ d[1].n = v
                 \/ IsHead(d[n]) /\ d[n].n = v
<1> DEFINE buf == SubSeq(d, b + 1, n)
<1>1. /\ buf \in Seq(Tokens) /\ Len(buf) = n - b
      /\ \A i \in 1 .. n - b : buf[i] = d[b + i]
  BY SliceElements
<1>2. Len(d) \in Nat
  BY LenProperties
<1> HIDE DEF buf
<1>3. \A v : v \in Parts(buf) <=>
         /\ Len(buf) >= 1
         /\ \/ Rest(buf[1]) /\ buf[1].n = v
            \/ IsHead(buf[Len(buf)]) /\ buf[Len(buf)].n = v
  BY <1>1, PartsAre
<1>4. CASE n = b
  <2>1. ~(Len(buf) >= 1)
    BY <1>1, <1>4
  <2>2. n >= 1 => b # 0 /\ ~IsHead(d[n])
    <3>1. n >= 1 => n \in 1 .. b
      BY <1>4
    <3> QED BY <1>4, <3>1, Kinds DEF Clear
  <2> HIDE <1>4
  <2> QED BY <1>3, <2>1, <2>2 DEF buf
<1>5. CASE n # b
  <2>1. /\ n >= 1 /\ Len(buf) >= 1 /\ 1 \in 1 .. n - b /\ n - b \in 1 .. n - b
        /\ b + (n - b) = n /\ Len(buf) = n - b
    BY <1>1, <1>5
  <2>2. buf[1] = d[b + 1] /\ buf[Len(buf)] = d[n]
    BY <1>1, <2>1
  <2>3. Rest(d[b + 1]) => b = 0
    <3> SUFFICES ASSUME Rest(d[b + 1]), b # 0 PROVE FALSE
      OBVIOUS
    <3>1. b + 1 \in 2 .. Len(d) /\ (b + 1) - 1 = b /\ b \in 1 .. b
      BY <1>2, <1>5
    <3>2. IsHead(d[b])
      BY <3>1 DEF Framed
    <3> QED BY <3>1, <3>2, Kinds DEF Clear
  <2>4. b = 0 => d[b + 1] = d[1]
    OBVIOUS
  <2> QED BY <1>3, <2>1, <2>2, <2>3, <2>4 DEF buf
<1> QED BY <1>4, <1>5

(* The offset.                                                             *)
LEMMA ConsumeOffset ==
    ASSUME NEW d \in Seq(Tokens), Framed(d), NEW b \in Nat, NEW n \in Nat, b <= n,
           n <= Len(d), Clear(d, b), NEW buf, buf = SubSeq(d, b + 1, n)
    PROVE  /\ Len(Whole(buf)) \in Nat /\ Stray(buf) \in Nat
           /\ \/ 2 * Len(Whole(buf)) + Stray(buf) = 0
              \/ \E i \in 1 .. Len(d) :
                    i <= n /\ Cmd(d[i]) /\ 2 * Len(Whole(buf)) + Stray(buf) <= n - i + 1
<1> DEFINE C == {i \in 1 .. n : Cmd(d[i])}
<1>1. /\ buf \in Seq(Tokens) /\ Len(buf) = n - b
      /\ \A i \in 1 .. n - b : buf[i] = d[b + i]
  BY SliceElements
<1>2. Len(d) \in Nat /\ Piece(buf)
  BY LenProperties, PieceOf
<1>4. CASE C = {}
  <2>1. n - b + 1 \in 1 .. Len(buf) + 1
    BY <1>1
  <2>2. Before(buf, n - b + 1)
    <3> SUFFICES ASSUME NEW j \in 1 .. (n - b + 1) - 1, Cmd(buf[j]) PROVE FALSE
      BY DEF Before
    <3>1. j \in 1 .. n - b /\ b + j \in 1 .. n
      OBVIOUS
    <3> QED BY <1>1, <1>4, <3>1
  <2>3. /\ Len(Whole(buf)) \in Nat /\ Stray(buf) \in 0 .. 1
        /\ 2 * Len(Whole(buf)) + Stray(buf) <= Len(buf) - (n - b + 1) + 1
    BY <1>2, <2>1, <2>2, WholeCount
  <2>4. Len(buf) - (n - b + 1) + 1 = 0
    BY <1>1
  <2>5. 2 * Len(Whole(buf)) + Stray(buf) = 0
    BY <2>3, <2>4
  <2> QED BY <2>3, <2>5
<1>5. CASE C # {}
  <2>1. PICK i \in C : \A j \in C : i <= j
    <3>1. C \subseteq Nat
      OBVIOUS
    <3> HIDE DEF C
    <3> QED BY <1>5, <3>1, LeastNumber
  <2>2. ~(i <= b)
    <3> SUFFICES ASSUME i \in 1 .. b PROVE FALSE
      BY <2>1
    <3> QED BY <2>1 DEF Clear
  <2>3. i - b \in 1 .. Len(buf) + 1
    BY <1>1, <2>1, <2>2
  <2>4. Before(buf, i - b)
    <3> SUFFICES ASSUME NEW j \in 1 .. (i - b) - 1, Cmd(buf[j]) PROVE FALSE
      BY DEF Before
    <3>1. j \in 1 .. n - b /\ b + j \in 1 .. n /\ b + j < i
      BY <2>1
    <3>2. b + j \in C
      BY <1>1, <3>1
    <3> QED BY <2>1, <3>1, <3>2
  <2>5. /\ Len(Whole(buf)) \in Nat /\ Stray(buf) \in 0 .. 1
        /\ 2 * Len(Whole(buf)) + Stray(buf) <= Len(buf) - (i - b) + 1
    BY <1>2, <2>3, <2>4, WholeCount
  <2>6. i \in 1 .. Len(d) /\ i <= n /\ Cmd(d[i])
    BY <1>2, <2>1
  <2>7. Len(buf) - (i - b) + 1 = n - i + 1
    BY <1>1, <1>2, <2>6
  <2>8. Stray(buf) \in Nat
    BY <2>5
  <2> QED BY <2>5, <2>6, <2>7, <2>8
<1> QED BY <1>4, <1>5

(* A recv() of n tokens of which the first b, no part of a command, are    *)
(* skipped and the others handled, keeps the stream and the history in     *)
(* step.                                                                   *)
LEMMA StreamConsume ==
    ASSUME NEW d, NEW p, NEW h, NEW c, NEW o, NEW N, StreamOK(d, p, h, c, o, N),
           NEW b \in Nat, NEW n \in Nat, b <= n, n <= Len(d), Clear(d, b),
           NEW buf, buf = SubSeq(d, b + 1, n)
    PROVE  StreamOK(SubSeq(d, n + 1, Len(d)), p, h \o Whole(buf), c \cup Parts(buf),
                    o + 2 * Len(Whole(buf)) + Stray(buf), N)
<1> DEFINE r == SubSeq(d, n + 1, Len(d))
           L == Len(d)
           W == Whole(buf)
           P == Parts(buf)
           h1 == h \o W
           x == 2 * Len(W) + Stray(buf)
           o1 == o + 2 * Len(W) + Stray(buf)
<1>1. /\ d \in Seq(Tokens) /\ p \in Seq(Nat) /\ h \in Seq(Nat) /\ o \in Nat /\ N \in Nat
      /\ Range(p) \subseteq 1 .. N /\ c \subseteq Range(p)
      /\ Framed(d) /\ Ahead(d, p, h, c, o) /\ Increasing(h) /\ Handled(d, p, h, c)
      /\ o <= 2 * Len(p)
  BY DEF StreamOK, StreamType
<1>2. L \in Nat /\ Len(p) \in Nat
  BY <1>1, LenProperties
<1>3. r \in Seq(Tokens) /\ Len(r) = L - n /\ \A i \in 1 .. L - n : r[i] = d[n + i]
  BY <1>1, <1>2, SliceElements
<1>4. Framed(r)
  BY <1>1, FramedRest
<1>5. /\ W \in Seq(Nat) /\ Increasing(W)
      /\ \A v : v \in Range(W) <=> \E k \in 1 .. L : k < n /\ IsHead(d[k]) /\ d[k].n = v
  BY <1>1, ConsumeWhole
<1>6. \A v : v \in P <=>
         /\ n >= 1
         /\ \/ b = 0 /\ Rest(d[1]) /\ d[1].n = v
            \/ IsHead(d[n]) /\ d[n].n = v
  BY <1>1, ConsumeParts
<1>7. /\ Len(W) \in Nat /\ Stray(buf) \in Nat
      /\ \/ 2 * Len(W) + Stray(buf) = 0
         \/ \E i \in 1 .. L : i <= n /\ Cmd(d[i]) /\ 2 * Len(W) + Stray(buf) <= n - i + 1
  BY <1>1, ConsumeOffset
<1>8. \A i \in 1 .. L : Cmd(d[i]) =>
         /\ d[i].n \in Range(p)
         /\ \A v \in Range(h) : v < d[i].n
         /\ d[i].n \in c => i = 1 /\ Rest(d[i])
         /\ o + (L - i + 1) <= 2 * Len(p)
  BY <1>1 DEF Ahead
<1>9. \A i, j \in 1 .. L : i < j /\ Cmd(d[i]) =>
         /\ d[i].n \in Nat /\ d[j].n \in Nat
         /\ d[i].n <= d[j].n
         /\ d[i].n = d[j].n => IsHead(d[i]) /\ j = i + 1 /\ Rest(d[j])
  BY <1>1, FramedOrder
<1>10. \A v : v \in Range(h) <=> v \in Range(p) /\ v \notin c /\ ~Pending(d, v)
  BY <1>1 DEF Handled
<1>11. n >= 1 => 1 \in 1 .. L /\ n \in 1 .. L
  BY <1>2
<1>12. \A v : Pending(r, v) <=> \E k \in 1 .. L : n < k /\ Cmd(d[k]) /\ d[k].n = v
  <2> SUFFICES ASSUME NEW v
               PROVE  Pending(r, v) <=> \E k \in 1 .. L : n < k /\ Cmd(d[k]) /\ d[k].n = v
    OBVIOUS
  <2> HIDE DEF r, L
  <2>1. ASSUME NEW i \in 1 .. Len(r) PROVE n + i \in 1 .. L /\ n < n + i /\ r[i] = d[n + i]
    BY <1>2, <1>3
  <2>2. ASSUME NEW k \in 1 .. L, n < k PROVE k - n \in 1 .. Len(r) /\ r[k - n] = d[k]
    <3>1. k - n \in 1 .. L - n /\ n + (k - n) = k
      BY <1>2, <2>2
    <3> QED BY <1>3, <3>1
  <2> QED BY <2>1, <2>2 DEF Pending
<1>13. \A v : Pending(d, v) <=> \E k \in 1 .. L : Cmd(d[k]) /\ d[k].n = v
  BY DEF Pending
<1> HIDE DEF W, P, r, L
<1>20. /\ h1 \in Seq(Nat) /\ Increasing(h1)
       /\ \A v : v \in Range(h1) <=> v \in Range(h) \/ v \in Range(W)
  <2>1. \A v \in Range(h) : \A w \in Range(W) : v < w
    <3> SUFFICES ASSUME NEW v \in Range(h), NEW w \in Range(W) PROVE v < w
      OBVIOUS
    <3>1. PICK k \in 1 .. L : k < n /\ IsHead(d[k]) /\ d[k].n = w
      BY <1>5
    <3>2. Cmd(d[k])
      BY <3>1, Kinds
    <3> QED BY <1>8, <3>1, <3>2
  <2> QED BY <1>1, <1>5, <2>1, ConcatIncreasing
<1>21. c \cup P \subseteq Range(p)
  <2> SUFFICES ASSUME NEW v \in P PROVE v \in Range(p)
    BY <1>1
  <2>1. n >= 1 /\ ((Rest(d[1]) /\ d[1].n = v) \/ (IsHead(d[n]) /\ d[n].n = v))
    BY <1>6
  <2>2. CASE Rest(d[1]) /\ d[1].n = v
    BY <1>8, <1>11, <2>1, <2>2, Kinds
  <2>3. CASE IsHead(d[n]) /\ d[n].n = v
    BY <1>8, <1>11, <2>1, <2>3, Kinds
  <2> QED BY <2>1, <2>2, <2>3
<1>22. o1 \in Nat /\ o1 <= 2 * Len(p) /\ (o1 # o => \E i \in 1 .. L : i <= n /\ o1 + (L - n) <= 2 * Len(p))
  <2>0. x \in Nat /\ o1 = o + x /\ o \in Nat
    <3>1. Len(W) \in Nat /\ Stray(buf) \in Nat /\ o \in Nat
      BY <1>1, <1>7
    <3> QED BY <3>1
  <2>1. CASE x = 0
    <3>1. o1 = o
      <4> HIDE DEF x, o1
      <4> QED BY <2>0, <2>1
    <3> QED BY <1>1, <3>1
  <2>2. CASE x # 0
    <3>1. PICK i \in 1 .. L : i <= n /\ Cmd(d[i]) /\ x <= n - i + 1
      BY <1>7, <2>2
    <3>2. o + (L - i + 1) <= 2 * Len(p)
      BY <1>8, <3>1
    <3>3. n <= L
      BY DEF L
    <3>4. o1 \in Nat /\ o1 <= 2 * Len(p) /\ o1 + (L - n) <= 2 * Len(p)
      <4> HIDE DEF x, o1
      <4> QED BY <1>2, <2>0, <3>1, <3>2, <3>3
    <3> QED BY <3>1, <3>4
  <2> QED BY <2>1, <2>2
<1> HIDE DEF h1, o1
<1>23. Ahead(r, p, h1, c \cup P, o1)
  <2> SUFFICES ASSUME NEW i \in 1 .. Len(r), Cmd(r[i])
               PROVE  /\ r[i].n \in Range(p)
                      /\ \A v \in Range(h1) : v < r[i].n
                      /\ r[i].n \in c \cup P => i = 1 /\ Rest(r[i])
                      /\ o1 + (Len(r) - i + 1) <= 2 * Len(p)
    BY DEF Ahead
  <2> DEFINE j == n + i
  <2>1. j \in 1 .. L /\ n < j /\ r[i] = d[j] /\ i \in 1 .. L - n /\ (j = 1 => i = 1) /\ (j = n + 1 => i = 1)
    BY <1>2, <1>3
  <2>2. Cmd(d[j])
    BY <2>1
  <2> HIDE DEF j
  <2>3. d[j].n \in Range(p) /\ d[j].n \in Nat
    <3>1. d[j].n \in Range(p)
      BY <1>8, <2>1, <2>2
    <3>2. Range(p) \subseteq 1 .. N /\ 1 .. N \subseteq Nat
      BY <1>1
    <3> QED BY <3>1, <3>2
  <2>4. ASSUME NEW v \in Range(W) PROVE v < d[j].n
    <3>1. PICK k \in 1 .. L : k < n /\ IsHead(d[k]) /\ d[k].n = v
      BY <1>5
    <3>2. k < j /\ j # k + 1 /\ Cmd(d[k])
      BY <2>1, <3>1, Kinds
    <3>3. d[k].n \in Nat /\ d[k].n <= d[j].n /\ d[k].n # d[j].n
      BY <1>9, <2>1, <3>2
    <3> QED BY <2>3, <3>1, <3>3
  <2>5. \A v \in Range(h1) : v < d[j].n
    BY <1>8, <1>20, <2>1, <2>2, <2>4
  <2>6. ASSUME d[j].n \in c PROVE i = 1 /\ Rest(d[j])
    BY <1>8, <2>1, <2>2, <2>6
  <2>7. ASSUME d[j].n \in P PROVE i = 1 /\ Rest(d[j])
    <3>0. n >= 1
      BY <1>6, <2>7
    <3>1. CASE b = 0 /\ Rest(d[1]) /\ d[1].n = d[j].n
      <4>1. 1 < j /\ 1 \in 1 .. L
        BY <1>11, <2>1, <3>0
      <4>2. IsHead(d[1])
        BY <1>9, <2>1, <3>1, <4>1, Kinds
      <4> QED BY <3>1, <4>2, Kinds
    <3>2. CASE IsHead(d[n]) /\ d[n].n = d[j].n
      <4>1. j = n + 1 /\ Rest(d[j])
        BY <1>9, <1>11, <2>1, <3>0, <3>2, Kinds
      <4> QED BY <2>1, <4>1
    <3> QED BY <1>6, <2>7, <3>1, <3>2
  <2>8. o1 + (Len(r) - i + 1) <= 2 * Len(p)
    <3>1. o + (L - j + 1) <= 2 * Len(p)
      BY <1>8, <2>1, <2>2
    <3>2. Len(r) - i + 1 = L - j + 1
      BY <1>2, <1>3 DEF j
    <3>3. CASE o1 = o
      BY <3>1, <3>2, <3>3
    <3>4. CASE o1 # o
      <4>1. o1 + (L - n) <= 2 * Len(p)
        BY <1>22, <3>4
      <4>2. L - j + 1 <= L - n /\ L - j + 1 \in Int /\ L - n \in Int
        <5>1. L \in Nat /\ j \in Int /\ n < j
          BY <1>2, <2>1
        <5> QED BY ONLY <5>1, n \in Nat
      <4>3. o1 \in Nat /\ 2 * Len(p) \in Nat
        BY <1>2, <1>22
      <4>4. o1 + (L - j + 1) <= 2 * Len(p)
        BY <4>1, <4>2, <4>3
      <4> QED BY <3>2, <4>4
    <3> QED BY <3>3, <3>4
  <2> QED BY <2>1, <2>3, <2>5, <2>6, <2>7, <2>8
<1>24. Handled(r, p, h1, c \cup P)
  <2> SUFFICES ASSUME NEW v
               PROVE  v \in Range(h1) <=> v \in Range(p) /\ v \notin c \cup P /\ ~Pending(r, v)
    BY DEF Handled
  <2>1. ASSUME v \in Range(h) PROVE v \in Range(p) /\ v \notin c \cup P /\ ~Pending(r, v)
    <3>1. v \in Range(p) /\ v \notin c /\ ~Pending(d, v)
      BY <1>10, <2>1
    <3>2. v \notin P
      BY <1>6, <1>11, <1>13, <3>1, Kinds
    <3>3. ~Pending(r, v)
      BY <1>12, <1>13, <3>1
    <3> QED BY <3>1, <3>2, <3>3
  <2>2. ASSUME v \in Range(W) PROVE v \in Range(p) /\ v \notin c \cup P /\ ~Pending(r, v)
    <3>1. PICK k \in 1 .. L : k < n /\ IsHead(d[k]) /\ d[k].n = v
      BY <1>5, <2>2
    <3>2. Cmd(d[k]) /\ ~Rest(d[k])
      BY <3>1, Kinds
    <3>3. v \in Range(p) /\ v \notin c
      BY <1>8, <3>1, <3>2
    <3>4. v \notin P
      <4>1. n >= 1 /\ 1 \in 1 .. L /\ n \in 1 .. L
        BY <1>11, <3>1
      <4>2. ~(Rest(d[1]) /\ d[1].n = v)
        <5> SUFFICES ASSUME Rest(d[1]), d[1].n = v PROVE FALSE
          OBVIOUS
        <5>1. 1 < k
          BY <3>2
        <5>2. Cmd(d[1]) /\ ~IsHead(d[1])
          BY Kinds
        <5> QED BY <1>9, <3>1, <4>1, <5>1, <5>2
      <4>3. ~(IsHead(d[n]) /\ d[n].n = v)
        <5> SUFFICES ASSUME IsHead(d[n]), d[n].n = v PROVE FALSE
          OBVIOUS
        <5>1. Rest(d[n])
          BY <1>9, <3>1, <3>2, <4>1
        <5> QED BY <5>1, Kinds
      <4> QED BY <1>6, <4>2, <4>3
    <3>5. ~Pending(r, v)
      <4> SUFFICES ASSUME NEW j \in 1 .. L, n < j, Cmd(d[j]), d[j].n = v PROVE FALSE
        BY <1>12
      <4>1. k < j /\ j # k + 1
        BY <3>1
      <4> QED BY <1>9, <3>1, <3>2, <4>1
    <3> QED BY <3>3, <3>4, <3>5
  <2>3. ASSUME v \in Range(p), v \notin c \cup P, ~Pending(r, v)
        PROVE  v \in Range(h) \/ v \in Range(W)
    <3> SUFFICES ASSUME Pending(d, v) PROVE v \in Range(W)
      BY <1>10, <2>3
    <3>1. PICK k \in 1 .. L : Cmd(d[k]) /\ d[k].n = v
      BY <1>13
    <3>2. k <= n /\ n >= 1
      <4>1. ~(n < k)
        BY <1>12, <2>3, <3>1
      <4> QED BY <4>1
    <3>3. CASE IsHead(d[k])
      <4>1. k # n
        BY <1>6, <2>3, <3>1, <3>2, <3>3
      <4>2. k < n
        BY <3>2, <4>1
      <4> QED BY <1>5, <3>1, <3>3, <4>2
    <3>4. CASE Rest(d[k])
      <4>1. k # 1
        <5> SUFFICES ASSUME k = 1 PROVE FALSE
          OBVIOUS
        <5>1. b = 0
          <6> SUFFICES ASSUME b # 0 PROVE FALSE
            OBVIOUS
          <6>1. 1 \in 1 .. b
            OBVIOUS
          <6> QED BY <3>1, <6>1 DEF Clear
        <5> QED BY <1>6, <2>3, <3>1, <3>2, <3>4, <5>1
      <4>2. k \in 2 .. L /\ k - 1 \in 1 .. L /\ k - 1 < n /\ (k - 1) + 1 = k
        BY <1>2, <3>2, <4>1
      <4>3. IsHead(d[k - 1])
        BY <1>1, <3>4, <4>2 DEF Framed, L
      <4>4. d[(k - 1) + 1].n = d[k - 1].n
        BY <1>1, <4>2, <4>3 DEF Framed, L
      <4> QED BY <1>5, <3>1, <4>2, <4>3, <4>4
    <3> QED BY <3>1, <3>3, <3>4, Kinds
  <2> QED BY <1>20, <2>1, <2>2, <2>3
<1>25. StreamType(r, p, h1, c \cup P, o1, N)
  BY <1>1, <1>3, <1>20, <1>21, <1>22 DEF StreamType
<1>26. StreamOK(r, p, h1, c \cup P, o1, N)
  BY <1>4, <1>20, <1>22, <1>23, <1>24, <1>25 DEF StreamOK
<1> QED BY <1>26 DEF r, h1, W, P, o1

(* A buffer without tokens changes nothing.                                *)
LEMMA EmptyBuffer == Whole(<<>>) = <<>> /\ Parts(<<>>) = {} /\ Stray(<<>>) = 0
<1>1. <<>> \in Seq(Tokens) /\ Len(<<>>) = 0
  BY EmptySeq
<1>2. PICK f : Whole(<<>>) = f[Len(<<>>)] /\ HandleTurns(f, <<>>, Len(<<>>))
  BY <1>1, WholeSteps
<1>3. Whole(<<>>) = <<>>
  BY <1>1, <1>2 DEF HandleTurns
<1>4. ~(Len(<<>>) >= 1)
  BY <1>1
<1>5. Parts(<<>>) = {}
  BY <1>1, <1>4, PartsAre
<1> QED BY <1>3, <1>5 DEF Stray

(* Tokens that are no part of a command are received.                      *)
LEMMA StreamDrop ==
    ASSUME NEW d, NEW p, NEW h, NEW c, NEW o, NEW N, StreamOK(d, p, h, c, o, N),
           NEW n \in Nat, n <= Len(d), Clear(d, n)
    PROVE  StreamOK(SubSeq(d, n + 1, Len(d)), p, h, c, o, N)
<1> DEFINE buf == SubSeq(d, n + 1, n)
<1>1. buf = <<>>
  BY SliceEmpty
<1>2. StreamOK(SubSeq(d, n + 1, Len(d)), p, h \o Whole(buf), c \cup Parts(buf),
               o + 2 * Len(Whole(buf)) + Stray(buf), N)
  <2>1. n <= n /\ buf = SubSeq(d, n + 1, n)
    OBVIOUS
  <2> HIDE DEF buf
  <2> QED BY <2>1, StreamConsume
<1>3. h \in Seq(Nat) /\ o \in Nat /\ Len(<<>>) = 0
  BY EmptySeq DEF StreamOK, StreamType
<1>4. h \o <<>> = h /\ c \cup {} = c /\ o + 2 * Len(<<>>) + 0 = o
  BY <1>3, ConcatEmptySeq
<1> HIDE DEF buf
<1> QED BY <1>1, <1>2, <1>4, EmptyBuffer

(* While no command is on its way, replies may come and go.                *)
LEMMA StreamReplies ==
    ASSUME NEW d, NEW p, NEW h, NEW c, NEW o, NEW N, StreamOK(d, p, h, c, o, N), NoCmd(d),
           NEW e \in Seq(Tokens), NoCmd(e)
    PROVE  StreamOK(e, p, h, c, o, N)
<1>1. \A i \in 1 .. Len(e) : ~Cmd(e[i]) /\ ~IsHead(e[i]) /\ ~Rest(e[i])
  BY Kinds DEF NoCmd
<1>2. Len(e) \in Nat
  BY LenProperties
<1>3. \A i \in 2 .. Len(e) : i \in 1 .. Len(e)
  BY <1>2
<1>4. Framed(e)
  BY <1>1, <1>3 DEF Framed
<1>5. Ahead(e, p, h, c, o)
  BY <1>1 DEF Ahead
<1>6. \A v : ~Pending(d, v) /\ ~Pending(e, v)
  BY DEF Pending, NoCmd
<1>7. Handled(e, p, h, c)
  BY <1>6 DEF Handled, StreamOK
<1>8. StreamType(e, p, h, c, o, N)
  BY DEF StreamOK, StreamType
<1> QED BY <1>4, <1>5, <1>7, <1>8 DEF StreamOK

(* Commands passed to other replicas are nothing to this one.              *)
LEMMA StreamKeep ==
    ASSUME NEW d, NEW p, NEW h, NEW c, NEW o, NEW N, StreamOK(d, p, h, c, o, N)
    PROVE  StreamOK(d, p, h, c, o, N + 1)
<1>1. N \in Nat /\ Range(p) \subseteq 1 .. N
  BY DEF StreamOK, StreamType
<1>2. N + 1 \in Nat /\ Range(p) \subseteq 1 .. N + 1
  BY <1>1
<1>3. StreamType(d, p, h, c, o, N + 1)
  BY <1>2 DEF StreamOK, StreamType
<1> QED BY <1>3 DEF StreamOK

(* A command is passed on: its two tokens go behind all others.            *)
LEMMA StreamPass ==
    ASSUME NEW d, NEW p, NEW h, NEW c, NEW o, NEW N, StreamOK(d, p, h, c, o, N),
           NEW kind \in {"write", "getack"}
    PROVE  StreamOK(d \o <<Token("head", N + 1), Token(kind, N + 1)>>, Append(p, N + 1), h, c, o, N + 1)
<1> DEFINE t == Token("head", N + 1)
           u == Token(kind, N + 1)
           e == d \o <<t, u>>
           q == Append(p, N + 1)
           L == Len(d)
<1>1. /\ d \in Seq(Tokens) /\ p \in Seq(Nat) /\ h \in Seq(Nat) /\ o \in Nat /\ N \in Nat
      /\ Range(p) \subseteq 1 .. N /\ c \subseteq Range(p)
      /\ Framed(d) /\ Ahead(d, p, h, c, o) /\ Increasing(h) /\ Handled(d, p, h, c)
      /\ o <= 2 * Len(p)
  BY DEF StreamOK, StreamType
<1>2. /\ t \in Tokens /\ t.n = N + 1 /\ IsHead(t) /\ Cmd(t) /\ ~Rest(t)
      /\ u \in Tokens /\ u.n = N + 1 /\ ~IsHead(u) /\ Cmd(u) /\ Rest(u)
  BY <1>1 DEF Token, Tokens, IsHead, Cmd, Rest
<1> HIDE DEF t, u
<1>3. <<t, u>> \in Seq(Tokens) /\ Len(<<t, u>>) = 2 /\ <<t, u>>[1] = t /\ <<t, u>>[2] = u
  BY <1>2
<1>4. /\ e \in Seq(Tokens) /\ Len(e) = L + 2 /\ L \in Nat
      /\ \A i \in 1 .. L : e[i] = d[i]
      /\ \A i \in 1 .. 2 : e[L + i] = <<t, u>>[i]
  BY <1>1, <1>3, ConcatElements
<1>5. e[L + 1] = t /\ e[L + 2] = u
  BY <1>3, <1>4
<1>6. q \in Seq(Nat) /\ Len(q) = Len(p) + 1 /\ Len(p) \in Nat
  BY <1>1, AppendProperties, LenProperties
<1>7. \A v : v \in Range(q) <=> v \in Range(p) \/ v = N + 1
  <2>1. /\ \A i \in 1 .. Len(p) : q[i] = p[i]
        /\ q[Len(p) + 1] = N + 1
    BY <1>1, AppendProperties, LenProperties
  <2>2. /\ \A v : v \in Range(q) <=> \E i \in 1 .. Len(q) : q[i] = v
        /\ \A v : v \in Range(p) <=> \E i \in 1 .. Len(p) : p[i] = v
    BY <1>1, <1>6, InRange
  <2>3. 1 .. Len(q) = (1 .. Len(p)) \cup {Len(p) + 1}
    BY <1>6
  <2> HIDE DEF q
  <2> QED BY <2>1, <2>2, <2>3
<1> HIDE DEF e, q, L
<1>8. 1 .. Len(e) = (1 .. L) \cup {L + 1, L + 2}
  BY <1>4
<1>9. \A i \in 1 .. L : Cmd(d[i]) =>
         /\ d[i].n \in 1 .. N
         /\ d[i].n \in Range(p)
         /\ \A v \in Range(h) : v < d[i].n
         /\ d[i].n \in c => i = 1 /\ Rest(d[i])
         /\ o + (L - i + 1) <= 2 * Len(p)
  BY <1>1 DEF Ahead, L
<1>10. \A v \in Range(h) : v \in 1 .. N
  BY <1>1 DEF Handled
<1>11. Framed(e)
  <2>1. ASSUME NEW i \in 1 .. Len(e), NEW j \in 1 .. Len(e), i <= j, Cmd(e[i]) PROVE Cmd(e[j])
    <3>1. CASE j \in 1 .. L
      <4>1. i \in 1 .. L /\ e[i] = d[i] /\ e[j] = d[j]
        BY <1>4, <2>1, <3>1
      <4> QED BY <1>1, <2>1, <3>1, <4>1 DEF Framed, L
    <3>2. CASE j = L + 1 \/ j = L + 2
      BY <1>2, <1>5, <3>2
    <3> QED BY <1>8, <3>1, <3>2
  <2>2. ASSUME NEW i \in 1 .. Len(e), IsHead(e[i])
        PROVE  i < Len(e) /\ Rest(e[i + 1]) /\ e[i + 1].n = e[i].n
    <3>1. CASE i \in 1 .. L
      <4>1. IsHead(d[i]) /\ e[i] = d[i]
        BY <1>4, <2>2, <3>1
      <4>2. i < L /\ Rest(d[i + 1]) /\ d[i + 1].n = d[i].n
        BY <1>1, <3>1, <4>1 DEF Framed, L
      <4>3. i + 1 \in 1 .. L /\ i < Len(e)
        BY <1>4, <4>2
      <4> QED BY <1>4, <4>1, <4>2, <4>3
    <3>2. CASE i = L + 1
      <4>1. i + 1 = L + 2 /\ i < Len(e)
        BY <1>4, <3>2
      <4> QED BY <1>2, <1>5, <3>2, <4>1
    <3>3. i # L + 2
      BY <1>2, <1>5, <2>2
    <3> QED BY <1>8, <3>1, <3>2, <3>3
  <2>3. ASSUME NEW i \in 2 .. Len(e), Rest(e[i]) PROVE IsHead(e[i - 1])
    <3>1. CASE i \in 1 .. L
      <4>1. i \in 2 .. L /\ i - 1 \in 1 .. L
        BY <1>4, <3>1
      <4> QED BY <1>1, <1>4, <2>3, <3>1, <4>1 DEF Framed, L
    <3>2. i # L + 1
      BY <1>2, <1>5, <2>3
    <3>3. CASE i = L + 2
      <4>1. i - 1 = L + 1
        BY <1>4, <3>3
      <4> QED BY <1>2, <1>5, <4>1
    <3>4. i \in 1 .. Len(e)
      BY <1>4
    <3> QED BY <1>8, <3>1, <3>2, <3>3, <3>4
  <2>4. ASSUME NEW i \in 1 .. Len(e), NEW j \in 1 .. Len(e), i < j, Cmd(e[i])
        PROVE  \/ e[i].n < e[j].n
               \/ e[i].n = e[j].n /\ IsHead(e[i]) /\ j = i + 1
    <3>1. CASE j \in 1 .. L
      <4>1. i \in 1 .. L /\ e[i] = d[i] /\ e[j] = d[j]
        BY <1>4, <2>4, <3>1
      <4> QED BY <1>1, <2>4, <3>1, <4>1 DEF Framed, L
    <3>2. CASE i \in 1 .. L /\ (j = L + 1 \/ j = L + 2)
      <4>1. e[i] = d[i] /\ Cmd(d[i]) /\ e[j].n = N + 1
        BY <1>2, <1>4, <1>5, <2>4, <3>2
      <4>2. d[i].n \in 1 .. N
        BY <1>9, <3>2, <4>1
      <4> QED BY <1>1, <4>1, <4>2
    <3>3. CASE i = L + 1 /\ j = L + 2
      <4>1. j = i + 1
        BY <1>4, <3>3
      <4> QED BY <1>2, <1>5, <3>3, <4>1
    <3>4. \/ j \in 1 .. L
          \/ i \in 1 .. L /\ (j = L + 1 \/ j = L + 2)
          \/ i = L + 1 /\ j = L + 2
      BY <1>4, <2>4
    <3> QED BY <3>1, <3>2, <3>3, <3>4
  <2> QED BY <2>1, <2>2, <2>3, <2>4 DEF Framed
<1>12. Ahead(e, q, h, c, o)
  <2> SUFFICES ASSUME NEW i \in 1 .. Len(e), Cmd(e[i])
               PROVE  /\ e[i].n \in Range(q)
                      /\ \A v \in Range(h) : v < e[i].n
                      /\ e[i].n \in c => i = 1 /\ Rest(e[i])
                      /\ o + (Len(e) - i + 1) <= 2 * Len(q)
    BY DEF Ahead
  <2>1. CASE i \in 1 .. L
    <3>1. e[i] = d[i] /\ Cmd(d[i])
      BY <1>4, <2>1
    <3>2. /\ d[i].n \in Range(p)
          /\ \A v \in Range(h) : v < d[i].n
          /\ d[i].n \in c => i = 1 /\ Rest(d[i])
          /\ o + (L - i + 1) <= 2 * Len(p)
      BY <1>9, <2>1, <3>1
    <3>3. o + (Len(e) - i + 1) <= 2 * Len(q)
      BY <1>1, <1>4, <1>6, <2>1, <3>2
    <3> QED BY <1>7, <3>1, <3>2, <3>3
  <2>2. CASE i = L + 1 \/ i = L + 2
    <3>1. e[i].n = N + 1
      BY <1>2, <1>5, <2>2
    <3>2. N + 1 \notin c
      BY <1>1
    <3>3. \A v \in Range(h) : v < N + 1
      BY <1>1, <1>10
    <3>4. o + (Len(e) - i + 1) <= 2 * Len(q)
      BY <1>1, <1>4, <1>6, <2>2
    <3> QED BY <1>7, <3>1, <3>2, <3>3, <3>4
  <2> QED BY <1>8, <2>1, <2>2
<1>13. Handled(e, q, h, c)
  <2> SUFFICES ASSUME NEW v PROVE v \in Range(h) <=> v \in Range(q) /\ v \notin c /\ ~Pending(e, v)
    BY DEF Handled
  <2>1. Pending(e, v) <=> Pending(d, v) \/ v = N + 1
    <3>1. Pending(e, v) <=> (\E i \in 1 .. L : Cmd(d[i]) /\ d[i].n = v) \/ v = N + 1
      BY <1>2, <1>4, <1>5, <1>8 DEF Pending
    <3> QED BY <3>1 DEF Pending, L
  <2>2. v \in Range(h) <=> v \in Range(p) /\ v \notin c /\ ~Pending(d, v)
    BY <1>1 DEF Handled
  <2>3. N + 1 \notin Range(p)
    BY <1>1
  <2> QED BY <1>7, <2>1, <2>2, <2>3
<1>14. StreamType(e, q, h, c, o, N + 1)
  <2>1. N + 1 \in Nat /\ Range(q) \subseteq 1 .. N + 1 /\ c \subseteq Range(q)
    <3>1. N + 1 \in Nat /\ N + 1 \in 1 .. N + 1 /\ 1 .. N \subseteq 1 .. N + 1
      BY <1>1
    <3>2. c \subseteq Range(q)
      BY <1>1, <1>7
    <3>3. Range(q) \subseteq 1 .. N + 1
      BY <1>1, <1>7, <3>1
    <3> QED BY <3>1, <3>2, <3>3
  <2> QED BY <1>1, <1>4, <1>6, <2>1 DEF StreamType
<1>15. o <= 2 * Len(q)
  BY <1>1, <1>6
<1>16. StreamOK(e, q, h, c, o, N + 1)
  BY <1>1, <1>11, <1>12, <1>13, <1>14, <1>15 DEF StreamOK
<1> QED BY <1>16 DEF e, q, t, u

-----------------------------------------------------------------------------
(* The answer to PSYNC, however it is cut into recv() calls.               *)

\* What a server that has sent PSYNC may find on its way: replies to earlier
\* requests, the whole answer, or what a master that has ended has sent of it.
PsyncStream(d, gone) ==
    \/ \A i \in 1 .. Len(d) : d[i].kind \in {"PONG", "OK"}
    \/ \E x \in 0 .. Len(d) : ResyncAt(d, x)
    \/ gone /\ ResyncCut(d)

Lacks(buf) == IF Remaining(buf) > 0 THEN Remaining(buf) ELSE 0

(* The answers of the handshake are neither commands nor a part of the     *)
(* RDB.                                                                    *)
LEMMA Replies == \A t : t.kind \in {"PONG", "OK", "FULLRESYNC"} => ~Cmd(t) /\ t # Reply("HEADER") /\ t # Reply("RDB")
  BY DEF Cmd, Reply, Token

(* The header and the body of the RDB differ, and are no commands.         *)
LEMMA RdbTokens == ~Cmd(Reply("HEADER")) /\ ~Cmd(Reply("RDB")) /\ Reply("HEADER") # Reply("RDB")
  BY DEF Cmd, Reply, Token

(* The least of a set of positions.                                        *)
LEMMA MinIs ==
    ASSUME NEW T, T \subseteq Nat, NEW x \in T, \A y \in T : x <= y
    PROVE  Min(T) = x
<1>1. Min(T) \in T /\ \A y \in T : Min(T) <= y
  BY DEF Min
<1>2. Min(T) \in Nat /\ x \in Nat /\ Min(T) <= x /\ x <= Min(T)
  BY <1>1
<1> QED BY <1>2

(* A buffer without the header of the RDB.                                 *)
LEMMA NoHeader ==
    ASSUME NEW d \in Seq(Tokens), NEW n \in Nat, n <= Len(d), NEW buf, buf = SubSeq(d, 1, n),
           \A i \in 1 .. n : d[i] # Reply("HEADER")
    PROVE  AfterRdb(buf) = <<>> /\ Lacks(buf) = 0
<1>1. buf \in Seq(Tokens) /\ Len(buf) = n /\ \A i \in 1 .. n : buf[i] = d[i]
  <2>1. /\ SubSeq(d, 0 + 1, n) \in Seq(Tokens) /\ Len(SubSeq(d, 0 + 1, n)) = n - 0
        /\ \A i \in 1 .. n - 0 : SubSeq(d, 0 + 1, n)[i] = d[0 + i]
    BY SliceElements
  <2> QED BY <2>1
<1>2. DOMAIN buf = 1 .. n
  BY <1>1, LenProperties
<1>3. HeaderAt(buf) = {}
  BY <1>1, <1>2 DEF HeaderAt
<1>4. Remaining(buf) = 0
  BY <1>3 DEF Remaining
<1> QED BY <1>3, <1>4 DEF AfterRdb, Lacks

(* A buffer with the header at position k.                                 *)
LEMMA HeaderFound ==
    ASSUME NEW d \in Seq(Tokens), NEW n \in Nat, n <= Len(d), NEW buf, buf = SubSeq(d, 1, n),
           NEW k \in 1 .. n, d[k] = Reply("HEADER"), \A i \in 1 .. k - 1 : d[i] # Reply("HEADER")
    PROVE  /\ Lacks(buf) = IF k + 2 - n > 0 THEN k + 2 - n ELSE 0
           /\ k + 2 >= n => AfterRdb(buf) = <<>>
           /\ k + 2 <= n => AfterRdb(buf) = SubSeq(d, (k + 2) + 1, n)
<1>1. buf \in Seq(Tokens) /\ Len(buf) = n /\ \A i \in 1 .. n : buf[i] = d[i]
  <2>1. /\ SubSeq(d, 0 + 1, n) \in Seq(Tokens) /\ Len(SubSeq(d, 0 + 1, n)) = n - 0
        /\ \A i \in 1 .. n - 0 : SubSeq(d, 0 + 1, n)[i] = d[0 + i]
    BY SliceElements
  <2> QED BY <2>1
<1>2. DOMAIN buf = 1 .. n
  BY <1>1, LenProperties
<1>3. k \in HeaderAt(buf) /\ HeaderAt(buf) \subseteq Nat
  BY <1>1, <1>2 DEF HeaderAt
<1>4. ASSUME NEW y \in HeaderAt(buf) PROVE k <= y
  <2>1. y \in 1 .. n /\ d[y] = Reply("HEADER")
    BY <1>1, <1>2 DEF HeaderAt
  <2>2. ~(y \in 1 .. k - 1)
    BY <2>1
  <2> QED BY <2>1, <2>2
<1>5. Min(HeaderAt(buf)) = k /\ HeaderAt(buf) # {}
  BY <1>3, <1>4, MinIs
<1>6. Remaining(buf) = k + 2 - n
  BY <1>1, <1>5 DEF Remaining, RdbSize
<1>7. AfterRdb(buf) = SubSeq(buf, (k + 2) + 1, n)
  BY <1>1, <1>5 DEF AfterRdb, RdbSize
<1>8. ASSUME k + 2 >= n PROVE SubSeq(buf, (k + 2) + 1, n) = <<>>
  BY <1>8, SliceEmpty
<1>9. ASSUME k + 2 <= n PROVE SubSeq(buf, (k + 2) + 1, n) = SubSeq(d, (k + 2) + 1, n)
  <2>1. k + 2 \in Nat /\ k + 2 <= n /\ n <= Len(buf)
    BY <1>1, <1>9
  <2>2. /\ [i \in 1 .. n - (k + 2) |-> buf[(k + 2) + i]] = SubSeq(buf, (k + 2) + 1, n)
        /\ [i \in 1 .. n - (k + 2) |-> d[(k + 2) + i]] = SubSeq(d, (k + 2) + 1, n)
    BY <1>1, <2>1, SliceIsSubSeq
  <2>3. \A i \in 1 .. n - (k + 2) : buf[(k + 2) + i] = d[(k + 2) + i]
    <3>1. \A i \in 1 .. n - (k + 2) : (k + 2) + i \in 1 .. n
      OBVIOUS
    <3> QED BY <1>1, <3>1
  <2> QED BY <2>2, <2>3
<1> QED BY <1>6, <1>7, <1>8, <1>9 DEF Lacks

(* The reply to PSYNC skips what is no command, and expects no more of the *)
(* RDB than is there.                                                      *)
LEMMA PsyncBuffer ==
    ASSUME NEW d \in Seq(Tokens), NEW n \in Nat, n <= Len(d), NEW buf, buf = SubSeq(d, 1, n),
           NEW gone, PsyncStream(d, gone)
    PROVE  /\ \E b \in Nat : b <= n /\ Clear(d, b) /\ AfterRdb(buf) = SubSeq(d, b + 1, n)
           /\ Lacks(buf) \in 0 .. RdbSize
           /\ Lacks(buf) > 0 =>
                 DrainStream(SubSeq(d, n + 1, Len(d)), Lacks(buf), gone)
<1> DEFINE r == SubSeq(d, n + 1, Len(d))
<1>1. Len(d) \in Nat
  BY LenProperties
<1>2. Len(r) = Len(d) - n /\ \A i \in 1 .. Len(d) - n : r[i] = d[n + i]
  BY <1>1, SliceElements
<1>3. SubSeq(d, n + 1, n) = <<>> /\ n <= n
  BY SliceEmpty
<1>4. ASSUME Clear(d, n), \A i \in 1 .. n : d[i] # Reply("HEADER") PROVE
           /\ \E b \in Nat : b <= n /\ Clear(d, b) /\ AfterRdb(buf) = SubSeq(d, b + 1, n)
           /\ Lacks(buf) = 0
  <2>1. AfterRdb(buf) = <<>> /\ Lacks(buf) = 0
    BY <1>4, NoHeader
  <2> QED BY <1>3, <1>4, <2>1
<1> HIDE DEF r
<1>5. CASE \A i \in 1 .. Len(d) : d[i].kind \in {"PONG", "OK"}
  <2>1. Clear(d, n) /\ \A i \in 1 .. n : d[i] # Reply("HEADER")
    <3>1. \A i \in 1 .. n : i \in 1 .. Len(d)
      BY <1>1
    <3>2. \A i \in 1 .. n : ~Cmd(d[i]) /\ d[i] # Reply("HEADER")
      BY <1>5, <3>1, Replies
    <3> QED BY <3>2 DEF Clear
  <2> QED BY <1>4, <2>1 DEF RdbSize
<1>6. ASSUME NEW x \in 0 .. Len(d), ResyncAt(d, x)
      PROVE  /\ \E b \in Nat : b <= n /\ Clear(d, b) /\ AfterRdb(buf) = SubSeq(d, b + 1, n)
             /\ Lacks(buf) \in 0 .. RdbSize
             /\ Lacks(buf) > 0 => DrainStream(r, Lacks(buf), gone)
  <2>1. /\ x + 4 <= Len(d)
        /\ \A i \in 1 .. x + 1 : ~Cmd(d[i]) /\ d[i] # Reply("HEADER")
        /\ d[x + 2] = Reply("HEADER") /\ ~Cmd(d[x + 2]) /\ ~Cmd(d[x + 3]) /\ ~Cmd(d[x + 4])
    BY <1>6, Replies, RdbTokens DEF ResyncAt
  <2>2. \A i \in 1 .. x + 4 : i \in 1 .. x + 1 \/ i = x + 2 \/ i = x + 3 \/ i = x + 4
    OBVIOUS
  <2>3. Clear(d, x + 4)
    BY <2>1, <2>2 DEF Clear
  <2>4. CASE n < x + 2
    <3>1. Clear(d, n) /\ \A i \in 1 .. n : d[i] # Reply("HEADER")
      BY <2>1, <2>4 DEF Clear
    <3> QED BY <1>4, <3>1 DEF RdbSize
  <2>5. CASE n >= x + 2
    <3>1. /\ x + 2 \in 1 .. n /\ (x + 2) - 1 = x + 1 /\ (x + 2) + 2 = x + 4
      BY <2>5
    <3>2. /\ Lacks(buf) = IF (x + 2) + 2 - n > 0 THEN (x + 2) + 2 - n ELSE 0
          /\ (x + 2) + 2 >= n => AfterRdb(buf) = <<>>
          /\ (x + 2) + 2 <= n => AfterRdb(buf) = SubSeq(d, ((x + 2) + 2) + 1, n)
      BY <2>1, <3>1, HeaderFound
    <3>3. /\ Lacks(buf) = IF (x + 4) - n > 0 THEN (x + 4) - n ELSE 0
          /\ x + 4 >= n => AfterRdb(buf) = <<>>
          /\ x + 4 <= n => AfterRdb(buf) = SubSeq(d, (x + 4) + 1, n)
      BY <3>1, <3>2
    <3>4. Lacks(buf) \in 0 .. RdbSize
      BY <2>5, <3>3 DEF RdbSize
    <3>5. CASE n >= x + 4
      <4>1. Lacks(buf) = 0 /\ x + 4 \in Nat /\ x + 4 <= n
        BY <3>3, <3>5
      <4> QED BY <2>3, <3>3, <3>4, <4>1
    <3>6. CASE n < x + 4
      <4>1. Lacks(buf) = (x + 4) - n /\ AfterRdb(buf) = <<>>
        BY <3>3, <3>6
      <4>2. Clear(d, n)
        BY <2>3, <3>6 DEF Clear
      <4>3. Lacks(buf) <= Len(r)
        BY <1>1, <1>2, <2>1, <4>1
      <4>4. ASSUME NEW i \in 1 .. Lacks(buf) PROVE ~Cmd(r[i])
        <5>1. n + i \in 1 .. x + 4 /\ i \in 1 .. Len(d) - n
          BY <1>1, <2>1, <4>1
        <5> QED BY <1>2, <2>3, <5>1 DEF Clear
      <4> QED BY <1>3, <3>4, <4>1, <4>2, <4>3, <4>4 DEF DrainStream
    <3> QED BY <3>5, <3>6
  <2> QED BY <2>4, <2>5
<1>7. CASE gone /\ ResyncCut(d)
  <2>1. /\ NoCmd(d)
        /\ \A i \in 1 .. Len(d) : d[i] = Reply("HEADER") => i = Len(d)
    BY <1>7 DEF ResyncCut
  <2>2. Clear(d, n)
    BY <1>1, <2>1 DEF NoCmd, Clear
  <2>3. CASE \A i \in 1 .. n : d[i] # Reply("HEADER")
    BY <1>4, <2>2, <2>3 DEF RdbSize
  <2>4. CASE ~ \A i \in 1 .. n : d[i] # Reply("HEADER")
    <3>1. PICK k \in 1 .. n : d[k] = Reply("HEADER")
      BY <2>4
    <3>2. k = Len(d) /\ n = k
      BY <1>1, <2>1, <3>1
    <3>3. \A i \in 1 .. k - 1 : d[i] # Reply("HEADER")
      BY <1>1, <2>1, <3>2
    <3>4. /\ Lacks(buf) = IF k + 2 - n > 0 THEN k + 2 - n ELSE 0
          /\ k + 2 >= n => AfterRdb(buf) = <<>>
      BY <3>1, <3>3, HeaderFound
    <3>5. Lacks(buf) = 2 /\ AfterRdb(buf) = <<>>
      BY <3>2, <3>4
    <3>6. NoCmd(r)
      <4>1. 1 .. Len(r) = {}
        BY <1>1, <1>2, <3>2
      <4> QED BY <4>1 DEF NoCmd
    <3>7. DrainStream(r, 2, gone)
      BY <1>7, <3>6 DEF DrainStream
    <3>8. \E b \in Nat : b <= n /\ Clear(d, b) /\ AfterRdb(buf) = SubSeq(d, b + 1, n)
      BY <1>3, <2>2, <3>5
    <3> QED BY <3>5, <3>7, <3>8 DEF RdbSize, r
  <2> QED BY <2>3, <2>4
<1> QED BY <1>5, <1>6, <1>7 DEF PsyncStream, r

(* When its master ends, a server may find less, and never more.           *)
LEMMA RdbGone ==
    ASSUME NEW l, NEW seen, NEW d, NEW rem, NEW g, NEW g1,
           RdbOK(l, seen, d, rem, g), g => g1
    PROVE  RdbOK(l, seen, d, rem, g1)
  BY DEF RdbOK, DrainStream

(* Where the RDB begins.                                                   *)
LEMMA FirstRdb ==
    ASSUME NEW d \in Seq(Tokens), d # <<>>, Last(d) = Reply("RDB")
    PROVE  \E m \in 1 .. Len(d) :
              /\ d[m] = Reply("RDB") /\ \A y \in 1 .. Len(d) : d[y] = Reply("RDB") => m <= y
              /\ Min({i \in DOMAIN d : d[i] = Reply("RDB")}) = m
              /\ d[Len(d)] = Reply("RDB") /\ Len(d) \in 1 .. Len(d)
<1> DEFINE R == {i \in DOMAIN d : d[i] = Reply("RDB")}
           L == Len(d)
<1>1. L \in Nat /\ L >= 1 /\ DOMAIN d = 1 .. L
  BY LenProperties, EmptySeq
<1>2. d[L] = Reply("RDB") /\ L \in R /\ R \subseteq Nat
  BY <1>1 DEF Last
<1>4. PICK m \in R : \A y \in R : m <= y
  <2> HIDE DEF R
  <2> QED BY <1>2, LeastNumber
<1>5. Min(R) = m
  <2> HIDE DEF R
  <2> QED BY <1>2, <1>4, MinIs
<1>6. m \in 1 .. L /\ d[m] = Reply("RDB")
  BY <1>1
<1>7. \A y \in 1 .. L : d[y] = Reply("RDB") => m <= y
  BY <1>1, <1>4
<1>8. L \in 1 .. L
  BY <1>1
<1> QED BY <1>2, <1>5, <1>6, <1>7, <1>8

(* The end of a master between the sends of its answer to PSYNC: what is   *)
(* sent is e, all that is before the RDB.                                  *)
LEMMA CutStream ==
    ASSUME NEW d \in Seq(Tokens), Framed(d), NEW m \in 1 .. Len(d), d[m] = Reply("RDB"),
           d[Len(d)] = Reply("RDB"), Len(d) \in Nat,
           \A y \in 1 .. Len(d) : d[y] = Reply("RDB") => m <= y,
           NEW e \in Seq(Tokens), Len(e) = m - 1, \A i \in 1 .. m - 1 : e[i] = d[i]
    PROVE  /\ NoCmd(d) /\ NoCmd(e)
           /\ (\E x \in 0 .. Len(d) : ResyncAt(d, x)) \/ ResyncCut(d) => ResyncCut(e)
<1> DEFINE L == Len(d)
<1>3. NoCmd(d)
  <2> SUFFICES ASSUME NEW i \in 1 .. L, Cmd(d[i]) PROVE FALSE
    BY DEF NoCmd
  <2>1. L \in 1 .. L /\ i <= L
    OBVIOUS
  <2>2. Cmd(d[L])
    BY <2>1 DEF Framed
  <2> QED BY <2>2, RdbTokens
<1>9. \A i \in 1 .. Len(e) : i \in 1 .. L /\ e[i] = d[i] /\ i < L
  OBVIOUS
<1>10. NoCmd(e)
  BY <1>3, <1>9 DEF NoCmd
<1>11. ASSUME NEW x \in 0 .. L, ResyncAt(d, x) PROVE ResyncCut(e)
  <2>1. /\ x + 4 <= L
        /\ \A i \in 1 .. x + 1 : d[i] # Reply("HEADER") /\ d[i] # Reply("RDB")
        /\ d[x + 2] = Reply("HEADER") /\ d[x + 3] = Reply("RDB")
    BY <1>11, Replies DEF ResyncAt
  <2>2. x + 3 \in 1 .. L
    BY <2>1
  <2>3. m <= x + 3
    BY <2>1, <2>2
  <2>4. ~(m \in 1 .. x + 1) /\ m # x + 2
    BY <2>1, RdbTokens
  <2>5. m = x + 3
    BY <2>3, <2>4
  <2>6. ASSUME NEW i \in 1 .. Len(e), e[i] = Reply("HEADER") PROVE i = Len(e)
    <3>1. Len(e) = x + 2 /\ d[i] = Reply("HEADER")
      BY <1>9, <2>5, <2>6
    <3>2. ~(i \in 1 .. x + 1)
      BY <2>1, <3>1
    <3> QED BY <3>1, <3>2
  <2> QED BY <1>10, <2>6 DEF ResyncCut
<1>12. ASSUME ResyncCut(d) PROVE ResyncCut(e)
  <2>1. ASSUME NEW i \in 1 .. Len(e), e[i] = Reply("HEADER") PROVE FALSE
    <3>1. i \in 1 .. L /\ d[i] = Reply("HEADER") /\ i < L
      BY <1>9, <2>1
    <3>2. i = L
      BY <1>12, <3>1 DEF ResyncCut
    <3> QED BY <3>1, <3>2
  <2> QED BY <1>10, <2>1 DEF ResyncCut
<1> QED BY <1>3, <1>10, <1>11, <1>12

-----------------------------------------------------------------------------
(* One step of the system.                                                 *)

(* A server whose part of the state stays as it is.                        *)
LEMMA ServerKept ==
    ASSUME NEW s \in Servers, ServerOK(s),
           down'[s] = down[s], passed'[s] = passed[s], handled'[s] = handled[s],
           cut'[s] = cut[s], offset'[s] = offset[s], cmds' = cmds,
           pc'[s] = pc[s], up'[s] = up[s], psync_seen'[s] = psync_seen[s],
           remaining'[s] = remaining[s], master_of'[s] = master_of[s], MasterGone(s) => MasterGone(s)'
    PROVE  ServerOK(s)'
<1>1. RdbOK(pc[s], psync_seen[s], down[s], remaining[s], MasterGone(s))
  BY DEF ServerOK
<1>2. RdbOK(pc[s], psync_seen[s], down[s], remaining[s], MasterGone(s)')
  BY <1>1, RdbGone
<1>3. /\ StreamOK(down[s], passed[s], handled[s], cut[s], offset[s], cmds)
      /\ RequestsOK(pc[s], up[s], psync_seen[s], down[s])
      /\ psync_seen[s] => master_of[s] \in Servers
  BY DEF ServerOK
<1> QED BY <1>2, <1>3 DEF ServerOK

(* The end of a process is for good.                                       *)
LEMMA GoneStays ==
    ASSUME HandshakeType, NEW s \in Servers, NEW label, pc[s] = "gone" => label = "gone",
           pc' = [pc EXCEPT ![s] = label], master_of' = master_of
    PROVE  \A x \in Servers : MasterGone(x) => MasterGone(x)'
<1>1. pc \in [Servers -> Labels]
  BY DEF HandshakeType
<1>2. \A m \in Servers : pc[m] = "gone" => pc'[m] = "gone"
  BY <1>1
<1> QED BY <1>2 DEF MasterGone

(* A recv() of a server from its master.                                   *)
LEMMA ReceivedIs ==
    ASSUME HandshakeType, NEW s \in Servers, NEW n \in 0 .. BufSize, Received(s, n)
    PROVE  /\ n \in Nat /\ n <= Len(down[s]) /\ down[s] \in Seq(Tokens) /\ Len(down[s]) \in Nat
           /\ down' = [down EXCEPT ![s] = SubSeq(down[s], n + 1, Len(down[s]))]
           /\ master_of[s] \in Servers
           /\ n = 0 => MasterGone(s) /\ down[s] = <<>>
<1>1. down[s] \in Seq(Tokens) /\ master_of[s] \in Servers
  BY DEF HandshakeType, Received, Receivable
<1>2. Len(down[s]) \in Nat /\ n \in Nat
  BY <1>1, LenProperties, HandshakeAssumption
<1>3. down' = [down EXCEPT ![s] = SubSeq(down[s], n + 1, Len(down[s]))]
  BY DEF Received
<1>4. n = 0 => MasterGone(s) /\ down[s] = <<>>
  BY <1>1 DEF Received, Receivable, Closed, Ended, MasterGone
<1>5. n <= Len(down[s])
  BY <1>2 DEF Received, Receivable
<1> QED BY <1>1, <1>2, <1>3, <1>4, <1>5

(* Giving a server the value it has changes nothing.                       *)
LEMMA ExceptSame ==
    ASSUME NEW T, NEW f \in [Servers -> T], NEW s \in Servers
    PROVE  [f EXCEPT ![s] = f[s]] = f
  OBVIOUS

(* Giving a server a value changes none of the others.                     *)
LEMMA ExceptOne ==
    ASSUME NEW T, NEW f \in [Servers -> T], NEW s \in Servers, NEW v
    PROVE  /\ [f EXCEPT ![s] = v][s] = v
           /\ \A x \in Servers : x # s => [f EXCEPT ![s] = v][x] = f[x]
           /\ v \in T => [f EXCEPT ![s] = v] \in [Servers -> T]
  OBVIOUS

\* A step gives the variables of server s these values and leaves those of the
\* others alone.
Becomes(s, l, u, d, seen, lk, rem, h, o, c) ==
    /\ pc' = [pc EXCEPT ![s] = l] /\ up' = [up EXCEPT ![s] = u]
    /\ down' = [down EXCEPT ![s] = d] /\ psync_seen' = [psync_seen EXCEPT ![s] = seen]
    /\ linked' = [linked EXCEPT ![s] = lk] /\ remaining' = [remaining EXCEPT ![s] = rem]
    /\ handled' = [handled EXCEPT ![s] = h] /\ offset' = [offset EXCEPT ![s] = o]
    /\ cut' = [cut EXCEPT ![s] = c]
    /\ master_of' = master_of /\ passed' = passed /\ cmds' = cmds /\ stops' = stops

\* These values keep the invariant of server s.
Fits(s, l, u, d, seen, lk, rem, h, o, c) ==
    /\ l \in Labels /\ (pc[s] = "gone" => l = "gone") /\ u \in Seq(Requests)
    /\ seen \in BOOLEAN /\ lk \in BOOLEAN
    /\ StreamOK(d, passed[s], h, c, o, cmds) /\ RequestsOK(l, u, seen, d)
    /\ RdbOK(l, seen, d, rem, MasterGone(s)) /\ (seen => master_of[s] \in Servers)

(* A step of one server, or of its master for it, keeps the invariant when *)
(* it keeps that server's part of it.                                      *)
LEMMA OneServer ==
    ASSUME HandshakeInv, NEW s \in Servers, NEW l, NEW u, NEW d, NEW seen, NEW lk, NEW rem,
           NEW h, NEW o, NEW c, Becomes(s, l, u, d, seen, lk, rem, h, o, c),
           Fits(s, l, u, d, seen, lk, rem, h, o, c)
    PROVE  HandshakeInv'
<1> USE DEF Becomes, Fits
<1>1. /\ master_of \in [Servers -> Servers \cup {NULL}]
      /\ pc \in [Servers -> Labels]
      /\ up \in [Servers -> Seq(Requests)]
      /\ down \in [Servers -> Seq(Tokens)]
      /\ psync_seen \in [Servers -> BOOLEAN] /\ linked \in [Servers -> BOOLEAN]
      /\ remaining \in [Servers -> 0 .. RdbSize]
      /\ handled \in [Servers -> Seq(Nat)] /\ passed \in [Servers -> Seq(Nat)]
      /\ offset \in [Servers -> Nat] /\ cut \in [Servers -> SUBSET Nat]
      /\ cmds \in 0 .. MaxCmds /\ stops \in Nat
  BY DEF HandshakeInv, HandshakeType
<1>2. /\ d \in Seq(Tokens) /\ h \in Seq(Nat) /\ o \in Nat /\ rem \in 0 .. RdbSize
      /\ c \in SUBSET Nat
  <2>1. /\ d \in Seq(Tokens) /\ h \in Seq(Nat) /\ o \in Nat
        /\ Range(passed[s]) \subseteq 1 .. cmds /\ c \subseteq Range(passed[s])
    BY DEF StreamOK, StreamType
  <2>2. rem \in 0 .. RdbSize
    BY DEF RdbOK
  <2>3. 1 .. cmds \subseteq Nat
    BY <1>1
  <2> QED BY <2>1, <2>2, <2>3
<1>3. HandshakeType'
  <2>1. /\ pc' \in [Servers -> Labels] /\ up' \in [Servers -> Seq(Requests)]
        /\ down' \in [Servers -> Seq(Tokens)]
        /\ psync_seen' \in [Servers -> BOOLEAN] /\ linked' \in [Servers -> BOOLEAN]
    BY <1>1, <1>2, ExceptOne
  <2>2. /\ remaining' \in [Servers -> 0 .. RdbSize]
        /\ handled' \in [Servers -> Seq(Nat)]
        /\ offset' \in [Servers -> Nat] /\ cut' \in [Servers -> SUBSET Nat]
    BY <1>1, <1>2, ExceptOne
  <2> QED BY <1>1, <2>1, <2>2 DEF HandshakeType
<1>4. \A x \in Servers : MasterGone(x) => MasterGone(x)'
  BY GoneStays DEF HandshakeInv
<1>5. ASSUME NEW x \in Servers PROVE ServerOK(x)'
  <2>1. CASE x = s
    <3>1. /\ pc'[s] = l /\ up'[s] = u /\ down'[s] = d /\ psync_seen'[s] = seen
          /\ remaining'[s] = rem /\ handled'[s] = h /\ offset'[s] = o /\ cut'[s] = c
      BY <1>1, ExceptOne
    <3>2. RdbOK(l, seen, d, rem, MasterGone(s)')
      BY <1>4, RdbGone
    <3> QED BY <2>1, <3>1, <3>2 DEF ServerOK
  <2>2. CASE x # s
    <3>1. /\ pc'[x] = pc[x] /\ up'[x] = up[x] /\ down'[x] = down[x]
          /\ psync_seen'[x] = psync_seen[x] /\ remaining'[x] = remaining[x]
          /\ handled'[x] = handled[x] /\ offset'[x] = offset[x] /\ cut'[x] = cut[x]
          /\ passed'[x] = passed[x] /\ master_of'[x] = master_of[x]
      BY <1>1, <2>2, ExceptOne
    <3>2. ServerOK(x)
      BY DEF HandshakeInv
    <3> QED BY <1>4, <3>1, <3>2, ServerKept
  <2> QED BY <2>1, <2>2
<1> QED BY <1>3, <1>5 DEF HandshakeInv

(* The parts of the invariant, for one server.                             *)
LEMMA AtServer ==
    ASSUME HandshakeInv, NEW s \in Servers
    PROVE  /\ StreamOK(down[s], passed[s], handled[s], cut[s], offset[s], cmds)
           /\ RequestsOK(pc[s], up[s], psync_seen[s], down[s])
           /\ RdbOK(pc[s], psync_seen[s], down[s], remaining[s], MasterGone(s))
           /\ psync_seen[s] => master_of[s] \in Servers
           /\ pc[s] \in Labels /\ up[s] \in Seq(Requests) /\ down[s] \in Seq(Tokens)
           /\ psync_seen[s] \in BOOLEAN /\ linked[s] \in BOOLEAN
           /\ remaining[s] \in 0 .. RdbSize /\ Framed(down[s])
           /\ master_of[s] \in Servers \cup {NULL}
<1>1. ServerOK(s) /\ HandshakeType
  BY DEF HandshakeInv
<1>2. /\ pc[s] \in Labels /\ up[s] \in Seq(Requests) /\ down[s] \in Seq(Tokens)
      /\ psync_seen[s] \in BOOLEAN /\ linked[s] \in BOOLEAN
      /\ remaining[s] \in 0 .. RdbSize
      /\ master_of[s] \in Servers \cup {NULL}
  BY <1>1 DEF HandshakeType
<1>3. Framed(down[s])
  BY <1>1 DEF ServerOK, StreamOK
<1> QED BY <1>1, <1>2, <1>3 DEF ServerOK

(* What a step leaves alone, as a change of one server.                    *)
LEMMA Untouched ==
    ASSUME HandshakeInv, NEW s \in Servers
    PROVE  /\ [pc EXCEPT ![s] = pc[s]] = pc /\ [up EXCEPT ![s] = up[s]] = up
           /\ [down EXCEPT ![s] = down[s]] = down
           /\ [psync_seen EXCEPT ![s] = psync_seen[s]] = psync_seen
           /\ [linked EXCEPT ![s] = linked[s]] = linked
           /\ [remaining EXCEPT ![s] = remaining[s]] = remaining
           /\ [handled EXCEPT ![s] = handled[s]] = handled
           /\ [offset EXCEPT ![s] = offset[s]] = offset
           /\ [cut EXCEPT ![s] = cut[s]] = cut
<1>1. HandshakeType
  BY DEF HandshakeInv
<1>2. /\ pc \in [Servers -> Labels] /\ up \in [Servers -> Seq(Requests)]
      /\ down \in [Servers -> Seq(Tokens)]
      /\ psync_seen \in [Servers -> BOOLEAN] /\ linked \in [Servers -> BOOLEAN]
      /\ remaining \in [Servers -> 0 .. RdbSize]
      /\ handled \in [Servers -> Seq(Nat)]
      /\ offset \in [Servers -> Nat] /\ cut \in [Servers -> SUBSET Nat]
  BY <1>1 DEF HandshakeType
<1> QED BY <1>2, ExceptSame

(* A server starts.                                                        *)
LEMMA StartStep ==
    ASSUME HandshakeInv, NEW s \in Servers, replicaofHandler(s)
    PROVE  HandshakeInv'
<1>1. PICK l \in {"ping", "loop"}, u \in {<<"PING">>, <<>>} :
         pc' = [pc EXCEPT ![s] = l] /\ up' = [up EXCEPT ![s] = u]
  BY DEF replicaofHandler
<1>2. /\ pc[s] = "off" /\ master_of' = master_of /\ down' = down /\ psync_seen' = psync_seen
      /\ linked' = linked /\ remaining' = remaining /\ handled' = handled /\ offset' = offset
      /\ passed' = passed /\ cut' = cut /\ cmds' = cmds /\ stops' = stops
  BY DEF replicaofHandler, history, ends
<1>3. l \in Labels /\ pc[s] # "gone" /\ l # "psync" /\ l # "drain"
  BY <1>2 DEF Labels
<1>4. u \in Seq(Requests) /\ \A i \in 1 .. Len(u) : u[i] # "PSYNC"
  <2>1. CASE u = <<>>
    BY <2>1, EmptySeq
  <2>2. CASE u = <<"PING">>
    <3>1. Len(u) = 1 /\ u[1] = "PING" /\ u \in Seq(Requests)
      BY <2>2 DEF Requests
    <3> QED BY <3>1
  <2> QED BY <2>1, <2>2
<1>5. ~psync_seen[s] /\ RequestsOK(l, u, psync_seen[s], down[s])
  BY <1>2, <1>4, AtServer DEF RequestsOK, Early
<1>6. RdbOK(l, psync_seen[s], down[s], remaining[s], MasterGone(s))
  BY <1>3, AtServer DEF RdbOK
<1>7. /\ down' = [down EXCEPT ![s] = down[s]] /\ psync_seen' = [psync_seen EXCEPT ![s] = psync_seen[s]]
      /\ linked' = [linked EXCEPT ![s] = linked[s]]
      /\ remaining' = [remaining EXCEPT ![s] = remaining[s]]
      /\ handled' = [handled EXCEPT ![s] = handled[s]]
      /\ offset' = [offset EXCEPT ![s] = offset[s]] /\ cut' = [cut EXCEPT ![s] = cut[s]]
  BY <1>2, Untouched
<1>8. Becomes(s, l, u, down[s], psync_seen[s], linked[s], remaining[s], handled[s],
              offset[s], cut[s])
  BY <1>1, <1>2, <1>7 DEF Becomes
<1>9. Fits(s, l, u, down[s], psync_seen[s], linked[s], remaining[s], handled[s],
           offset[s], cut[s])
  BY <1>3, <1>4, <1>5, <1>6, AtServer DEF Fits
<1> QED BY <1>8, <1>9, OneServer

(* What is left of the replies to the first requests.                      *)
LEMMA EarlyLeft ==
    ASSUME NEW d \in Seq(Tokens), \A i \in 1 .. Len(d) : d[i].kind \in {"PONG", "OK"},
           NEW n \in Nat, n <= Len(d)
    PROVE  /\ NoCmd(d) /\ Clear(d, n)
           /\ \A i \in 1 .. Len(SubSeq(d, n + 1, Len(d))) :
                 SubSeq(d, n + 1, Len(d))[i].kind \in {"PONG", "OK"}
<1>1. Len(d) \in Nat
  BY LenProperties
<1>2. NoCmd(d) /\ Clear(d, n)
  BY <1>1, Replies DEF NoCmd, Clear
<1> DEFINE r == SubSeq(d, n + 1, Len(d))
<1>3. Len(r) = Len(d) - n /\ \A i \in 1 .. Len(d) - n : r[i] = d[n + i]
  BY <1>1, SliceElements
<1>4. \A i \in 1 .. Len(d) - n : n + i \in 1 .. Len(d)
  BY <1>1
<1> HIDE DEF r
<1>5. \A i \in 1 .. Len(r) : r[i].kind \in {"PONG", "OK"}
  BY <1>3, <1>4
<1> QED BY <1>2, <1>5 DEF r

(* The requests of a server that sends another one: only PSYNC is last.    *)
LEMMA SendRequest ==
    ASSUME NEW u \in Seq(Requests), \A i \in 1 .. Len(u) : u[i] # "PSYNC",
           NEW q \in {"REPLCONF", "PSYNC"}
    PROVE  /\ Append(u, q) \in Seq(Requests)
           /\ \A i \in 1 .. Len(Append(u, q)) :
                 Append(u, q)[i] = "PSYNC" => i = Len(Append(u, q)) /\ q = "PSYNC"
<1> DEFINE a == Append(u, q)
<1>1. q \in Requests
  BY DEF Requests
<1>2. /\ a \in Seq(Requests) /\ Len(a) = Len(u) + 1 /\ Len(u) \in Nat
      /\ \A i \in 1 .. Len(u) : a[i] = u[i]
      /\ a[Len(u) + 1] = q
  BY <1>1, AppendProperties, LenProperties
<1> HIDE DEF a
<1>3. \A i \in 1 .. Len(a) : i \in 1 .. Len(u) \/ i = Len(u) + 1
  BY <1>2
<1>4. \A i \in 1 .. Len(a) : a[i] = "PSYNC" => i = Len(a) /\ q = "PSYNC"
  BY <1>2, <1>3
<1> QED BY <1>2, <1>4 DEF a

(* The first replies.                                                      *)
LEMMA EarlyStep ==
    ASSUME HandshakeInv, NEW s \in Servers, NEW n \in 0 .. BufSize,
           RecvPong(s, n) \/ RecvReplconf1(s, n) \/ RecvReplconf2(s, n)
    PROVE  HandshakeInv'
<1>1. /\ pc[s] \in {"ping", "replconf1", "replconf2"} /\ Received(s, n)
      /\ master_of' = master_of /\ psync_seen' = psync_seen
      /\ linked' = linked /\ remaining' = remaining /\ handled' = handled /\ offset' = offset
      /\ passed' = passed /\ cut' = cut /\ cmds' = cmds /\ stops' = stops
  BY DEF RecvPong, RecvReplconf1, RecvReplconf2, history, ends
<1> DEFINE d == down[s]
           r == SubSeq(d, n + 1, Len(d))
<1>2. /\ n \in Nat /\ n <= Len(d) /\ d \in Seq(Tokens) /\ Len(d) \in Nat
      /\ down' = [down EXCEPT ![s] = r]
  BY <1>1, ReceivedIs DEF HandshakeInv
<1>3. /\ ~psync_seen[s]
      /\ \A i \in 1 .. Len(up[s]) : up[s][i] # "PSYNC"
      /\ \A i \in 1 .. Len(d) : d[i].kind \in {"PONG", "OK"}
  BY <1>1, AtServer DEF RequestsOK, Early
<1>4. Clear(d, n) /\ \A i \in 1 .. Len(r) : r[i].kind \in {"PONG", "OK"}
  BY <1>2, <1>3, EarlyLeft
<1>5. StreamOK(r, passed[s], handled[s], cut[s], offset[s], cmds)
  BY <1>2, <1>4, AtServer, StreamDrop
<1> HIDE DEF r, d
<1>6. PICK l \in {"replconf1", "replconf2", "psync", "loop"}, u \in Seq(Requests) :
         /\ pc' = [pc EXCEPT ![s] = l] /\ up' = [up EXCEPT ![s] = u]
         /\ \A i \in 1 .. Len(u) : u[i] = "PSYNC" => i = Len(u) /\ l \notin Early
  <2>1. CASE up' = up /\ pc' = [pc EXCEPT ![s] = "loop"]
    <3>1. up' = [up EXCEPT ![s] = up[s]] /\ up[s] \in Seq(Requests)
      BY <2>1, AtServer, Untouched
    <3> QED BY <1>3, <2>1, <3>1
  <2>2. ASSUME NEW q \in {"REPLCONF", "PSYNC"}, NEW l \in {"replconf1", "replconf2", "psync"},
               q = "PSYNC" => l = "psync", up' = [up EXCEPT ![s] = Append(up[s], q)],
               pc' = [pc EXCEPT ![s] = l]
        PROVE  \E k \in {"replconf1", "replconf2", "psync", "loop"}, u \in Seq(Requests) :
                  /\ pc' = [pc EXCEPT ![s] = k] /\ up' = [up EXCEPT ![s] = u]
                  /\ \A i \in 1 .. Len(u) : u[i] = "PSYNC" => i = Len(u) /\ k \notin Early
    <3>1. /\ Append(up[s], q) \in Seq(Requests)
          /\ \A i \in 1 .. Len(Append(up[s], q)) :
                Append(up[s], q)[i] = "PSYNC" => i = Len(Append(up[s], q)) /\ q = "PSYNC"
      BY <1>3, AtServer, SendRequest
    <3>2. "psync" \notin Early
      BY DEF Early
    <3> QED BY <2>2, <3>1, <3>2
  <2>3. \/ up' = up /\ pc' = [pc EXCEPT ![s] = "loop"]
        \/ \E q \in {"REPLCONF", "PSYNC"}, l \in {"replconf1", "replconf2", "psync"} :
              /\ q = "PSYNC" => l = "psync"
              /\ up' = [up EXCEPT ![s] = Append(up[s], q)]
              /\ pc' = [pc EXCEPT ![s] = l]
    BY DEF RecvPong, RecvReplconf1, RecvReplconf2, Send, Goto
  <2> QED BY <2>1, <2>2, <2>3
<1>7. l \in Labels /\ pc[s] # "gone" /\ l # "drain"
  BY <1>1, <1>6 DEF Labels
<1>8. RequestsOK(l, u, psync_seen[s], r)
  BY <1>3, <1>4, <1>6 DEF RequestsOK
<1>9. RdbOK(l, psync_seen[s], r, remaining[s], MasterGone(s))
  BY <1>3, <1>7, AtServer DEF RdbOK
<1>10. /\ psync_seen' = [psync_seen EXCEPT ![s] = psync_seen[s]]
       /\ linked' = [linked EXCEPT ![s] = linked[s]]
       /\ remaining' = [remaining EXCEPT ![s] = remaining[s]]
       /\ handled' = [handled EXCEPT ![s] = handled[s]]
       /\ offset' = [offset EXCEPT ![s] = offset[s]] /\ cut' = [cut EXCEPT ![s] = cut[s]]
  BY <1>1, Untouched
<1>11. /\ psync_seen[s] \in BOOLEAN /\ linked[s] \in BOOLEAN
       /\ psync_seen[s] => master_of[s] \in Servers
  BY AtServer
<1>12. Becomes(s, l, u, r, psync_seen[s], linked[s], remaining[s], handled[s], offset[s], cut[s])
  BY <1>1, <1>2, <1>6, <1>10 DEF Becomes
<1>13. Fits(s, l, u, r, psync_seen[s], linked[s], remaining[s], handled[s], offset[s], cut[s])
  BY <1>5, <1>6, <1>7, <1>8, <1>9, <1>11 DEF Fits
<1> QED BY <1>12, <1>13, OneServer

(* Requests are all the same to a server that has sent its last one.       *)
LEMMA RequestsLeft ==
    ASSUME NEW l, NEW k, NEW u, NEW seen \in BOOLEAN, NEW d \in Seq(Tokens), NEW n \in Nat, n <= Len(d),
           RequestsOK(l, u, seen, d), k \notin Early
    PROVE  RequestsOK(k, u, seen, SubSeq(d, n + 1, Len(d)))
<1>1. CASE seen
  BY <1>1 DEF RequestsOK
<1>2. CASE ~seen
  <2>1. \A i \in 1 .. Len(d) : d[i].kind \in {"PONG", "OK"}
    BY <1>2 DEF RequestsOK
  <2>2. \A i \in 1 .. Len(SubSeq(d, n + 1, Len(d))) :
           SubSeq(d, n + 1, Len(d))[i].kind \in {"PONG", "OK"}
    BY <2>1, EarlyLeft
  <2> QED BY <1>2, <2>2 DEF RequestsOK
<1> QED BY <1>1, <1>2

(* The reply to PSYNC.                                                     *)
LEMMA PsyncStep ==
    ASSUME HandshakeInv, NEW s \in Servers, NEW n \in 0 .. BufSize, RecvPsync(s, n)
    PROVE  HandshakeInv'
<1> DEFINE d == down[s]
           r == SubSeq(d, n + 1, Len(d))
           buf == Buffer(s, n)
           a == AfterRdb(buf)
           k == Lacks(buf)
           l == IF Remaining(buf) > 0 THEN "drain" ELSE "loop"
           h == handled[s] \o Whole(a)
           o == offset[s] + 2 * Len(Whole(a)) + Stray(a)
           c == cut[s] \cup Parts(a)
<1>1. /\ pc[s] = "psync" /\ Received(s, n)
      /\ pc' = [pc EXCEPT ![s] = l] /\ remaining' = [remaining EXCEPT ![s] = k]
      /\ linked' = [linked EXCEPT ![s] = TRUE]
      /\ handled' = [handled EXCEPT ![s] = h] /\ offset' = [offset EXCEPT ![s] = o]
      /\ cut' = [cut EXCEPT ![s] = c]
      /\ passed' = passed /\ cmds' = cmds
      /\ master_of' = master_of /\ up' = up /\ psync_seen' = psync_seen /\ stops' = stops
  BY DEF RecvPsync, Handle, Goto, Lacks, ends
<1>2. /\ n \in Nat /\ n <= Len(d) /\ d \in Seq(Tokens) /\ Len(d) \in Nat
      /\ down' = [down EXCEPT ![s] = r]
  BY <1>1, ReceivedIs DEF HandshakeInv
<1>3. buf = SubSeq(d, 1, n)
  BY DEF Buffer
<1>4. k > 0 <=> l = "drain"
  BY DEF Lacks
<1>5. l \in {"drain", "loop"}
  OBVIOUS
<1>6. PsyncStream(d, MasterGone(s))
  BY <1>1, AtServer DEF PsyncStream, RdbOK, RequestsOK
<1> HIDE DEF d, l, buf, k
<1>7. /\ \E b \in Nat : b <= n /\ Clear(d, b) /\ a = SubSeq(d, b + 1, n)
      /\ k \in 0 .. RdbSize
      /\ k > 0 => DrainStream(r, k, MasterGone(s))
  BY <1>2, <1>3, <1>6, PsyncBuffer DEF k
<1> HIDE DEF a
<1>8. StreamOK(r, passed[s], h, c, o, cmds)
  <2>1. PICK b \in Nat : b <= n /\ Clear(d, b) /\ a = SubSeq(d, b + 1, n)
    BY <1>7
  <2>2. StreamOK(d, passed[s], handled[s], cut[s], offset[s], cmds)
    BY AtServer DEF d
  <2> QED BY <1>2, <2>1, <2>2, StreamConsume
<1> HIDE DEF h, o, c, r
<1>9. l \in Labels /\ l \notin Early /\ l # "psync" /\ pc[s] # "gone"
  BY <1>1, <1>5 DEF Labels, Early
<1>10. RequestsOK(l, up[s], psync_seen[s], r)
  <2>1. RequestsOK(pc[s], up[s], psync_seen[s], d) /\ psync_seen[s] \in BOOLEAN
    BY AtServer DEF d
  <2> QED BY <1>2, <1>9, <2>1, RequestsLeft DEF r
<1>11. RdbOK(l, psync_seen[s], r, k, MasterGone(s))
  BY <1>4, <1>7, <1>9 DEF RdbOK
<1>12. up' = [up EXCEPT ![s] = up[s]] /\ psync_seen' = [psync_seen EXCEPT ![s] = psync_seen[s]]
  BY <1>1, Untouched
<1>13. Becomes(s, l, up[s], r, psync_seen[s], TRUE, k, h, o, c)
  BY <1>1, <1>2, <1>12 DEF Becomes
<1>14. Fits(s, l, up[s], r, psync_seen[s], TRUE, k, h, o, c)
  BY <1>8, <1>9, <1>10, <1>11, AtServer DEF Fits
<1> QED BY <1>13, <1>14, OneServer

(* What is left when drain_rdb has received n tokens.                      *)
LEMMA DrainLeft ==
    ASSUME NEW d \in Seq(Tokens), NEW n \in Nat, n <= Len(d), NEW rem \in Nat, n <= rem,
           NEW gone, DrainStream(d, rem, gone)
    PROVE  Clear(d, n) /\ DrainStream(SubSeq(d, n + 1, Len(d)), rem - n, gone)
<1> DEFINE r == SubSeq(d, n + 1, Len(d))
<1>1. Len(d) \in Nat
  BY LenProperties
<1>2. Len(r) = Len(d) - n /\ \A i \in 1 .. Len(d) - n : r[i] = d[n + i]
  BY <1>1, SliceElements
<1> HIDE DEF r
<1>3. CASE rem <= Len(d) /\ \A i \in 1 .. rem : ~Cmd(d[i])
  <2>1. Clear(d, n)
    BY <1>3 DEF Clear
  <2>2. rem - n <= Len(r)
    BY <1>1, <1>2, <1>3
  <2>3. ASSUME NEW i \in 1 .. rem - n PROVE ~Cmd(r[i])
    <3>1. n + i \in 1 .. rem /\ i \in 1 .. Len(d) - n
      BY <1>1, <1>3
    <3> QED BY <1>2, <1>3, <3>1
  <2> QED BY <2>1, <2>2, <2>3 DEF DrainStream, r
<1>4. CASE gone /\ NoCmd(d)
  <2>1. Clear(d, n)
    BY <1>1, <1>4 DEF Clear, NoCmd
  <2>2. ASSUME NEW i \in 1 .. Len(r) PROVE ~Cmd(r[i])
    <3>1. n + i \in 1 .. Len(d) /\ i \in 1 .. Len(d) - n
      BY <1>1, <1>2
    <3> QED BY <1>2, <1>4, <3>1 DEF NoCmd
  <2> QED BY <1>4, <2>1, <2>2 DEF DrainStream, NoCmd, r
<1> QED BY <1>3, <1>4 DEF DrainStream

(* drain_rdb.                                                              *)
LEMMA DrainStep ==
    ASSUME HandshakeInv, NEW s \in Servers, NEW n \in 0 .. BufSize, Drain(s, n)
    PROVE  HandshakeInv'
<1> DEFINE d == down[s]
           r == SubSeq(d, n + 1, Len(d))
           k == IF n = 0 THEN 0 ELSE remaining[s] - n
           l == IF k > 0 THEN "drain" ELSE "loop"
<1>1. /\ pc[s] = "drain" /\ n <= remaining[s] /\ Received(s, n)
      /\ remaining' = [remaining EXCEPT ![s] = k]
      /\ pc' = [pc EXCEPT ![s] = IF remaining'[s] > 0 THEN "drain" ELSE "loop"]
      /\ master_of' = master_of /\ up' = up /\ psync_seen' = psync_seen /\ linked' = linked
      /\ handled' = handled /\ offset' = offset /\ passed' = passed /\ cut' = cut
      /\ cmds' = cmds /\ stops' = stops
  BY DEF Drain, Goto, history, ends
<1>2. /\ n \in Nat /\ n <= Len(d) /\ d \in Seq(Tokens) /\ Len(d) \in Nat
      /\ down' = [down EXCEPT ![s] = r]
  BY <1>1, ReceivedIs DEF HandshakeInv
<1>3. remaining[s] \in Nat /\ remaining[s] <= RdbSize
  BY AtServer DEF RdbSize
<1>4. k \in 0 .. RdbSize /\ (k > 0 => k = remaining[s] - n)
  BY <1>1, <1>2, <1>3 DEF RdbSize
<1>5. pc' = [pc EXCEPT ![s] = l]
  <2>1. remaining'[s] = k
    BY <1>1, ExceptOne DEF HandshakeInv, HandshakeType
  <2> QED BY <1>1, <2>1
<1>6. l \in {"drain", "loop"} /\ (l = "drain" => k > 0)
  OBVIOUS
<1>7. DrainStream(d, remaining[s], MasterGone(s))
  BY <1>1, AtServer DEF RdbOK
<1> HIDE DEF d, k, l
<1>8. Clear(d, n) /\ DrainStream(r, remaining[s] - n, MasterGone(s))
  BY <1>1, <1>2, <1>3, <1>7, DrainLeft
<1>9. StreamOK(r, passed[s], handled[s], cut[s], offset[s], cmds)
  <2>1. StreamOK(d, passed[s], handled[s], cut[s], offset[s], cmds)
    BY AtServer DEF d
  <2> QED BY <1>2, <1>8, <2>1, StreamDrop
<1> HIDE DEF r
<1>10. l \in Labels /\ l \notin Early /\ l # "psync" /\ pc[s] # "gone"
  BY <1>1, <1>6 DEF Labels, Early
<1>11. RequestsOK(l, up[s], psync_seen[s], r)
  <2>1. RequestsOK(pc[s], up[s], psync_seen[s], d) /\ psync_seen[s] \in BOOLEAN
    BY AtServer DEF d
  <2> QED BY <1>2, <1>10, <2>1, RequestsLeft DEF r
<1>12. RdbOK(l, psync_seen[s], r, k, MasterGone(s))
  BY <1>4, <1>6, <1>8, <1>10 DEF RdbOK
<1>13. /\ up' = [up EXCEPT ![s] = up[s]] /\ psync_seen' = [psync_seen EXCEPT ![s] = psync_seen[s]]
       /\ linked' = [linked EXCEPT ![s] = linked[s]]
       /\ handled' = [handled EXCEPT ![s] = handled[s]]
       /\ offset' = [offset EXCEPT ![s] = offset[s]] /\ cut' = [cut EXCEPT ![s] = cut[s]]
  BY <1>1, Untouched
<1>14. Becomes(s, l, up[s], r, psync_seen[s], linked[s], k, handled[s], offset[s], cut[s])
  BY <1>1, <1>2, <1>5, <1>13 DEF Becomes
<1>15. Fits(s, l, up[s], r, psync_seen[s], linked[s], k, handled[s], offset[s], cut[s])
  BY <1>9, <1>10, <1>11, <1>12, AtServer DEF Fits
<1> QED BY <1>14, <1>15, OneServer

(* The loop.                                                               *)
LEMMA LoopStep ==
    ASSUME HandshakeInv, NEW s \in Servers, NEW n \in 0 .. BufSize, Loop(s, n)
    PROVE  HandshakeInv'
<1> DEFINE d == down[s]
           r == SubSeq(d, n + 1, Len(d))
           a == Buffer(s, n)
           lk == n # 0
           h == handled[s] \o Whole(a)
           o == offset[s] + 2 * Len(Whole(a)) + Stray(a)
           c == cut[s] \cup Parts(a)
<1>1. /\ pc[s] = "loop" /\ Received(s, n)
      /\ linked' = [linked EXCEPT ![s] = lk]
      /\ handled' = [handled EXCEPT ![s] = h] /\ offset' = [offset EXCEPT ![s] = o]
      /\ cut' = [cut EXCEPT ![s] = c]
      /\ passed' = passed /\ cmds' = cmds /\ remaining' = remaining /\ pc' = pc
      /\ master_of' = master_of /\ up' = up /\ psync_seen' = psync_seen /\ stops' = stops
  BY DEF Loop, Handle, ends
<1>2. /\ n \in Nat /\ n <= Len(d) /\ d \in Seq(Tokens) /\ Len(d) \in Nat
      /\ down' = [down EXCEPT ![s] = r]
  BY <1>1, ReceivedIs DEF HandshakeInv
<1>3. a = SubSeq(d, 0 + 1, n)
  BY DEF Buffer
<1>4. Clear(d, 0) /\ 0 <= n /\ 0 \in Nat
  BY <1>2 DEF Clear
<1>5. lk \in BOOLEAN
  OBVIOUS
<1>6. StreamOK(d, passed[s], handled[s], cut[s], offset[s], cmds)
  BY AtServer
<1> HIDE DEF d, a, lk
<1>7. StreamOK(r, passed[s], h, c, o, cmds)
  BY <1>2, <1>3, <1>4, <1>6, StreamConsume
<1> HIDE DEF h, o, c, r
<1>8. pc[s] \in Labels /\ pc[s] \notin Early
  BY <1>1 DEF Labels, Early
<1>9. RequestsOK(pc[s], up[s], psync_seen[s], r)
  <2>1. RequestsOK(pc[s], up[s], psync_seen[s], d) /\ psync_seen[s] \in BOOLEAN
    BY AtServer DEF d
  <2> QED BY <1>2, <1>8, <2>1, RequestsLeft DEF r
<1>10. RdbOK(pc[s], psync_seen[s], r, remaining[s], MasterGone(s))
  BY <1>1, AtServer DEF RdbOK
<1>11. /\ up' = [up EXCEPT ![s] = up[s]] /\ psync_seen' = [psync_seen EXCEPT ![s] = psync_seen[s]]
       /\ pc' = [pc EXCEPT ![s] = pc[s]]
       /\ remaining' = [remaining EXCEPT ![s] = remaining[s]]
  BY <1>1, Untouched
<1>12. Becomes(s, pc[s], up[s], r, psync_seen[s], lk, remaining[s], h, o, c)
  BY <1>1, <1>2, <1>11 DEF Becomes
<1>13. Fits(s, pc[s], up[s], r, psync_seen[s], lk, remaining[s], h, o, c)
  BY <1>5, <1>7, <1>8, <1>9, <1>10, AtServer DEF Fits
<1> QED BY <1>12, <1>13, OneServer

\* e begins with d.
Extends(e, d) == Len(d) <= Len(e) /\ \A i \in 1 .. Len(d) : e[i] = d[i]

(* What is sent on behind the RDB changes nothing for drain_rdb.           *)
LEMMA DrainMore ==
    ASSUME NEW d \in Seq(Tokens), NEW e \in Seq(Tokens), Extends(e, d), NEW rem \in Nat, NEW gone,
           DrainStream(d, rem, gone), gone => NoCmd(e)
    PROVE  DrainStream(e, rem, gone)
<1>1. Len(d) \in Nat /\ Len(e) \in Nat
  BY LenProperties
<1>2. CASE rem <= Len(d) /\ \A i \in 1 .. rem : ~Cmd(d[i])
  <2>1. rem <= Len(e) /\ \A i \in 1 .. rem : i \in 1 .. Len(d)
    BY <1>1, <1>2 DEF Extends
  <2> QED BY <1>2, <2>1 DEF DrainStream, Extends
<1> QED BY <1>2 DEF DrainStream

(* A reply behind other replies.                                           *)
LEMMA AnswerReply ==
    ASSUME NEW d \in Seq(Tokens), \A i \in 1 .. Len(d) : d[i].kind \in {"PONG", "OK"},
           NEW t \in {Reply("PONG"), Reply("OK")}
    PROVE  /\ Append(d, t) \in Seq(Tokens) /\ Extends(Append(d, t), d)
           /\ \A i \in 1 .. Len(Append(d, t)) : Append(d, t)[i].kind \in {"PONG", "OK"}
<1> DEFINE e == Append(d, t)
<1>1. t \in Tokens /\ t.kind \in {"PONG", "OK"}
  BY DEF Tokens, Reply, Token
<1>2. /\ e \in Seq(Tokens) /\ Len(e) = Len(d) + 1 /\ Len(d) \in Nat
      /\ \A i \in 1 .. Len(d) : e[i] = d[i]
      /\ e[Len(d) + 1] = t
  BY <1>1, AppendProperties, LenProperties
<1> HIDE DEF e
<1>3. \A i \in 1 .. Len(e) : i \in 1 .. Len(d) \/ i = Len(d) + 1
  BY <1>2
<1>4. \A i \in 1 .. Len(e) : e[i].kind \in {"PONG", "OK"}
  BY <1>1, <1>2, <1>3
<1>5. Extends(e, d)
  BY <1>2 DEF Extends
<1> QED BY <1>2, <1>4, <1>5 DEF e

(* The answer to PSYNC behind other replies.                               *)
LEMMA AnswerResync ==
    ASSUME NEW d \in Seq(Tokens), \A i \in 1 .. Len(d) : d[i].kind \in {"PONG", "OK"}
    PROVE  /\ d \o Resync \in Seq(Tokens) /\ Extends(d \o Resync, d)
           /\ NoCmd(d \o Resync)
           /\ Len(d) \in 0 .. Len(d \o Resync) /\ ResyncAt(d \o Resync, Len(d))
<1> DEFINE e == d \o Resync
           L == Len(d)
<1>1. /\ Reply("FULLRESYNC") \in Tokens /\ Reply("HEADER") \in Tokens /\ Reply("RDB") \in Tokens
      /\ Reply("FULLRESYNC").kind = "FULLRESYNC"
  BY DEF Tokens, Reply, Token
<1>2. /\ Resync \in Seq(Tokens) /\ Len(Resync) = 4
      /\ Resync[1] = Reply("FULLRESYNC") /\ Resync[2] = Reply("HEADER")
      /\ Resync[3] = Reply("RDB") /\ Resync[4] = Reply("RDB")
  BY <1>1 DEF Resync
<1>3. /\ e \in Seq(Tokens) /\ Len(e) = L + 4 /\ L \in Nat
      /\ \A i \in 1 .. L : e[i] = d[i]
      /\ \A i \in 1 .. 4 : e[L + i] = Resync[i]
  <2>1. /\ e \in Seq(Tokens) /\ Len(e) = Len(d) + Len(Resync) /\ Len(d) \in Nat
        /\ \A i \in 1 .. Len(d) : e[i] = d[i]
        /\ \A i \in 1 .. Len(Resync) : e[Len(d) + i] = Resync[i]
    <3>1. Resync \in Seq(Tokens)
      BY <1>2
    <3> QED BY ONLY <3>1, d \in Seq(Tokens), ConcatElements
  <2> HIDE DEF e
  <2> QED BY <1>2, <2>1
<1>4. /\ e[L + 1] = Reply("FULLRESYNC") /\ e[L + 2] = Reply("HEADER")
      /\ e[L + 3] = Reply("RDB") /\ e[L + 4] = Reply("RDB")
  BY <1>2, <1>3
<1>5. \A i \in 1 .. L : d[i].kind \in {"PONG", "OK", "FULLRESYNC"}
  OBVIOUS
<1> HIDE DEF e, L
<1>6. \A i \in 1 .. L + 1 : e[i].kind \in {"PONG", "OK", "FULLRESYNC"}
  <2>1. \A i \in 1 .. L + 1 : i \in 1 .. L \/ i = L + 1
    BY <1>3
  <2> QED BY <1>1, <1>3, <1>4, <1>5, <2>1
<1>7. L + 4 <= Len(e) /\ L \in 0 .. Len(e)
  BY <1>3
<1>8. ResyncAt(e, L)
  BY <1>4, <1>6, <1>7 DEF ResyncAt
<1>9. NoCmd(e)
  <2>1. \A i \in 1 .. Len(e) : i \in 1 .. L + 1 \/ i = L + 2 \/ i = L + 3 \/ i = L + 4
    BY <1>3
  <2> QED BY <1>4, <1>6, <2>1, Replies, RdbTokens DEF NoCmd
<1>10. Extends(e, d)
  BY <1>3 DEF Extends, L
<1> QED BY <1>3, <1>7, <1>8, <1>9, <1>10 DEF e, L

(* A master's answer.                                                      *)
LEMMA AnswerStep ==
    ASSUME HandshakeInv, NEW m \in Servers, NEW s \in Servers, Answer(m, s)
    PROVE  HandshakeInv'
<1> DEFINE d == down[s]
           u == Tail(up[s])
<1>1. /\ master_of[s] = m /\ up[s] # <<>> /\ up' = [up EXCEPT ![s] = u]
      /\ master_of' = master_of /\ pc' = pc /\ linked' = linked /\ remaining' = remaining
      /\ handled' = handled /\ offset' = offset /\ passed' = passed /\ cut' = cut
      /\ cmds' = cmds /\ stops' = stops
  BY DEF Answer, history, ends
<1>2. /\ up[s] \in Seq(Requests) /\ d \in Seq(Tokens) /\ psync_seen[s] \in BOOLEAN
      /\ RequestsOK(pc[s], up[s], psync_seen[s], d)
      /\ RdbOK(pc[s], psync_seen[s], d, remaining[s], MasterGone(s))
      /\ StreamOK(d, passed[s], handled[s], cut[s], offset[s], cmds)
      /\ pc[s] \in Labels /\ linked[s] \in BOOLEAN
  BY AtServer
<1>3. /\ ~psync_seen[s]
      /\ \A i \in 1 .. Len(d) : d[i].kind \in {"PONG", "OK"}
      /\ \A i \in 1 .. Len(up[s]) : up[s][i] = "PSYNC" => i = Len(up[s]) /\ pc[s] \notin Early
  BY <1>1, <1>2 DEF RequestsOK
<1>4. /\ u \in Seq(Requests) /\ Len(u) = Len(up[s]) - 1 /\ Len(up[s]) \in Nat /\ Len(up[s]) >= 1
      /\ \A i \in 1 .. Len(u) : u[i] = up[s][i + 1]
      /\ Head(up[s]) = up[s][1]
  BY <1>1, <1>2, HeadTailProperties, LenProperties, EmptySeq
<1> HIDE DEF d, u
<1>5. \A i \in 1 .. Len(u) : u[i] = "PSYNC" => i = Len(u) /\ pc[s] \notin Early
  <2> SUFFICES ASSUME NEW i \in 1 .. Len(u), u[i] = "PSYNC" PROVE i = Len(u) /\ pc[s] \notin Early
    OBVIOUS
  <2>1. i + 1 \in 1 .. Len(up[s]) /\ up[s][i + 1] = "PSYNC"
    BY <1>4
  <2>2. i + 1 = Len(up[s]) /\ pc[s] \notin Early
    BY <1>3, <2>1
  <2> QED BY <1>4, <2>2
<1>6. NoCmd(d)
  <2>1. Len(d) \in Nat /\ 0 <= Len(d)
    BY <1>2, LenProperties
  <2> QED BY <1>2, <1>3, <2>1, EarlyLeft
<1>7. /\ pc' = [pc EXCEPT ![s] = pc[s]] /\ linked' = [linked EXCEPT ![s] = linked[s]]
      /\ remaining' = [remaining EXCEPT ![s] = remaining[s]]
      /\ handled' = [handled EXCEPT ![s] = handled[s]]
      /\ offset' = [offset EXCEPT ![s] = offset[s]] /\ cut' = [cut EXCEPT ![s] = cut[s]]
  BY <1>1, Untouched
<1>8. ASSUME NEW e \in Seq(Tokens), NEW seen \in BOOLEAN,
             down' = [down EXCEPT ![s] = e], psync_seen' = [psync_seen EXCEPT ![s] = seen],
             NoCmd(e), Extends(e, d), RequestsOK(pc[s], u, seen, e),
             seen => \E x \in 0 .. Len(e) : ResyncAt(e, x)
      PROVE  HandshakeInv'
  <2>1. StreamOK(e, passed[s], handled[s], cut[s], offset[s], cmds)
    BY <1>2, <1>6, <1>8, StreamReplies
  <2>2. remaining[s] \in 0 .. RdbSize /\ remaining[s] \in Nat
    BY AtServer DEF RdbSize
  <2>3. pc[s] = "drain" => DrainStream(e, remaining[s], MasterGone(s))
    <3>1. pc[s] = "drain" => DrainStream(d, remaining[s], MasterGone(s))
      BY <1>2 DEF RdbOK
    <3> QED BY <1>2, <1>8, <2>2, <3>1, DrainMore
  <2>4. RdbOK(pc[s], seen, e, remaining[s], MasterGone(s))
    BY <1>8, <2>2, <2>3 DEF RdbOK
  <2>5. Becomes(s, pc[s], u, e, seen, linked[s], remaining[s], handled[s], offset[s], cut[s])
    BY <1>1, <1>7, <1>8 DEF Becomes
  <2>6. Fits(s, pc[s], u, e, seen, linked[s], remaining[s], handled[s], offset[s], cut[s])
    BY <1>1, <1>2, <1>4, <1>8, <2>1, <2>4 DEF Fits
  <2> QED BY <2>5, <2>6, OneServer
<1>9. ASSUME NEW t \in {Reply("PONG"), Reply("OK")}, down' = [down EXCEPT ![s] = Append(d, t)],
             psync_seen' = psync_seen
      PROVE  HandshakeInv'
  <2> DEFINE e == Append(d, t)
  <2>1. /\ e \in Seq(Tokens) /\ Extends(e, d)
        /\ \A i \in 1 .. Len(e) : e[i].kind \in {"PONG", "OK"}
    BY <1>2, <1>3, AnswerReply
  <2>2. down' = [down EXCEPT ![s] = e]
    BY <1>9
  <2> HIDE DEF e
  <2>3. NoCmd(e)
    BY <2>1, Replies DEF NoCmd
  <2>4. psync_seen' = [psync_seen EXCEPT ![s] = psync_seen[s]]
    BY <1>9, Untouched
  <2>5. psync_seen[s] = FALSE
    BY <1>2, <1>3
  <2>6. RequestsOK(pc[s], u, FALSE, e)
    BY <1>5, <2>1 DEF RequestsOK
  <2> QED BY <1>8, <2>1, <2>2, <2>3, <2>4, <2>5, <2>6
<1>10. ASSUME Head(up[s]) = "PSYNC", down' = [down EXCEPT ![s] = d \o Resync],
              psync_seen' = [psync_seen EXCEPT ![s] = TRUE]
       PROVE  HandshakeInv'
  <2> DEFINE e == d \o Resync
  <2>1. /\ e \in Seq(Tokens) /\ Extends(e, d) /\ NoCmd(e)
        /\ Len(d) \in 0 .. Len(e) /\ ResyncAt(e, Len(d))
    BY <1>2, <1>3, AnswerResync
  <2>2. down' = [down EXCEPT ![s] = e]
    BY <1>10
  <2> HIDE DEF e
  <2>3. 1 \in 1 .. Len(up[s]) /\ up[s][1] = "PSYNC"
    BY <1>4, <1>10
  <2>4. 1 = Len(up[s]) /\ pc[s] \notin Early
    BY <1>3, <2>3
  <2>5. u = <<>>
    BY <1>4, <2>4, EmptySeq
  <2>6. RequestsOK(pc[s], u, TRUE, e)
    BY <1>5, <2>4, <2>5 DEF RequestsOK
  <2>7. \E x \in 0 .. Len(e) : ResyncAt(e, x)
    BY <2>1
  <2> QED BY <1>8, <1>10, <2>1, <2>2, <2>6, <2>7
<1>11. \/ \E t \in {Reply("PONG"), Reply("OK")} :
             down' = [down EXCEPT ![s] = Append(d, t)] /\ psync_seen' = psync_seen
       \/ /\ Head(up[s]) = "PSYNC" /\ down' = [down EXCEPT ![s] = d \o Resync]
          /\ psync_seen' = [psync_seen EXCEPT ![s] = TRUE]
  BY DEF Answer, d
<1> QED BY <1>9, <1>10, <1>11

(* The end of a process asks nothing of it.                                *)
LEMMA NewLabel ==
    ASSUME NEW l, NEW k, k = l \/ k = "gone", NEW u, NEW seen, NEW d, NEW rem, NEW gone,
           RequestsOK(l, u, seen, d), RdbOK(l, seen, d, rem, gone)
    PROVE  RequestsOK(k, u, seen, d) /\ RdbOK(k, seen, d, rem, gone)
<1>1. "gone" \notin Early
  BY DEF Early
<1> QED BY <1>1 DEF RequestsOK, RdbOK

(* A command is passed to the replicas.                                    *)
LEMMA PassStep ==
    ASSUME HandshakeInv, NEW m \in Servers, NEW kind \in {"write", "getack"},
           NEW R \in SUBSET ReplicasOf(m), pass_data_toReplica(m, kind, R)
    PROVE  HandshakeInv'
<1> DEFINE n == cmds + 1
           e(s) == down[s] \o <<Token("head", n), Token(kind, n)>>
           q(s) == Append(passed[s], n)
<1>1. /\ pc[m] = "loop" /\ n <= MaxCmds /\ cmds' = n
      /\ down' = [s \in Servers |-> IF s \in R THEN e(s) ELSE down[s]]
      /\ passed' = [s \in Servers |-> IF s \in R THEN q(s) ELSE passed[s]]
      /\ master_of' = master_of /\ up' = up /\ psync_seen' = psync_seen
      /\ linked' = linked /\ remaining' = remaining /\ handled' = handled /\ offset' = offset
      /\ cut' = cut /\ stops' = stops
      /\ pc' = pc \/ pc' = [pc EXCEPT ![m] = "gone"]
  BY DEF pass_data_toReplica, Ends, Goto
<1>2. cmds \in Nat /\ n \in 0 .. MaxCmds
  BY <1>1, HandshakeAssumption DEF HandshakeInv, HandshakeType
<1>3. ASSUME NEW s \in Servers, s \in R
      PROVE  /\ psync_seen[s] /\ master_of[s] = m
             /\ down'[s] = e(s) /\ passed'[s] = q(s)
             /\ StreamOK(e(s), q(s), handled[s], cut[s], offset[s], n)
             /\ Extends(e(s), down[s])
  <2>1. psync_seen[s] /\ master_of[s] = m
    BY <1>3 DEF ReplicasOf
  <2>2. down'[s] = e(s) /\ passed'[s] = q(s)
    BY <1>1, <1>3
  <2>3. StreamOK(e(s), q(s), handled[s], cut[s], offset[s], n)
    BY AtServer, StreamPass
  <2>4. <<Token("head", n), Token(kind, n)>> \in Seq(Tokens)
    BY <1>2 DEF Token, Tokens
  <2>5. Extends(e(s), down[s])
    <3> DEFINE w == <<Token("head", n), Token(kind, n)>>
    <3>1. down[s] \in Seq(Tokens) /\ w \in Seq(Tokens)
      BY <2>4, AtServer
    <3> HIDE DEF w
    <3>2. /\ Len(down[s] \o w) = Len(down[s]) + Len(w)
          /\ Len(down[s]) \in Nat /\ Len(w) \in Nat
          /\ \A i \in 1 .. Len(down[s]) : (down[s] \o w)[i] = down[s][i]
      BY <3>1, ConcatElements
    <3>3. Extends(down[s] \o w, down[s])
      BY <3>2 DEF Extends
    <3> QED BY <3>3 DEF w
  <2> QED BY <2>1, <2>2, <2>3, <2>5
<1>4. ASSUME NEW s \in Servers, s \notin R
      PROVE  /\ down'[s] = down[s] /\ passed'[s] = passed[s]
             /\ StreamOK(down[s], passed[s], handled[s], cut[s], offset[s], n)
  BY <1>1, <1>4, AtServer, StreamKeep
<1> HIDE DEF e, q, n
<1>5. /\ pc' \in [Servers -> Labels]
      /\ \A s \in Servers : pc'[s] = pc[s] \/ pc'[s] = "gone"
      /\ \A s \in Servers : MasterGone(s) => MasterGone(s)'
  <2>1. pc \in [Servers -> Labels] /\ "gone" \in Labels
    BY DEF HandshakeInv, HandshakeType, Labels
  <2> QED BY <1>1, <2>1 DEF MasterGone
<1>6. ASSUME NEW s \in Servers PROVE ServerOK(s)'
  <2>1. MasterGone(s) => MasterGone(s)'
    BY <1>5
  <2>2. CASE s \in R
    <3>1. /\ RequestsOK(pc[s], up[s], psync_seen[s], down[s])
          /\ RdbOK(pc[s], psync_seen[s], down[s], remaining[s], MasterGone(s))
          /\ down[s] \in Seq(Tokens) /\ remaining[s] \in Nat /\ psync_seen[s]
          /\ remaining[s] \in 0 .. RdbSize
      BY <1>3, <2>2, AtServer DEF RdbSize
    <3>2. RequestsOK(pc[s], up[s], psync_seen[s], e(s))
      BY <3>1 DEF RequestsOK
    <3>3. ~MasterGone(s)
      BY <1>1, <1>3, <2>2 DEF MasterGone
    <3>4. e(s) \in Seq(Tokens) /\ Extends(e(s), down[s])
      BY <1>3, <2>2 DEF StreamOK, StreamType
    <3>5. pc[s] = "drain" => DrainStream(e(s), remaining[s], MasterGone(s))
      <4>1. pc[s] = "drain" => DrainStream(down[s], remaining[s], MasterGone(s))
        BY <3>1 DEF RdbOK
      <4> QED BY <3>1, <3>3, <3>4, <4>1, DrainMore
    <3>6. pc[s] = "psync" => \E x \in 0 .. Len(e(s)) : ResyncAt(e(s), x)
      <4> SUFFICES ASSUME pc[s] = "psync" PROVE \E x \in 0 .. Len(e(s)) : ResyncAt(e(s), x)
        OBVIOUS
      <4>1. PICK x \in 0 .. Len(down[s]) : ResyncAt(down[s], x)
        BY <3>1, <3>3 DEF RdbOK
      <4>2. Len(down[s]) \in Nat /\ Len(e(s)) \in Nat
        BY <3>1, <3>4, LenProperties
      <4>3. /\ x + 4 <= Len(down[s])
            /\ \A i \in 1 .. x + 1 : down[s][i].kind \in {"PONG", "OK", "FULLRESYNC"}
            /\ down[s][x + 2] = Reply("HEADER") /\ down[s][x + 3] = Reply("RDB")
            /\ down[s][x + 4] = Reply("RDB")
        BY <4>1 DEF ResyncAt
      <4>4. /\ Len(down[s]) <= Len(e(s))
            /\ \A i \in 1 .. Len(down[s]) : e(s)[i] = down[s][i]
        BY <3>4 DEF Extends
      <4>5. /\ x \in 0 .. Len(e(s)) /\ x + 4 <= Len(e(s))
            /\ \A i \in 1 .. x + 1 : i \in 1 .. Len(down[s])
            /\ x + 2 \in 1 .. Len(down[s]) /\ x + 3 \in 1 .. Len(down[s])
            /\ x + 4 \in 1 .. Len(down[s])
        BY <4>2, <4>3, <4>4
      <4>6. ResyncAt(e(s), x)
        BY <4>3, <4>4, <4>5 DEF ResyncAt
      <4> QED BY <4>5, <4>6
    <3>7. RdbOK(pc[s], psync_seen[s], e(s), remaining[s], MasterGone(s))
      BY <3>1, <3>5, <3>6 DEF RdbOK
    <3>8. /\ down'[s] = e(s) /\ passed'[s] = q(s) /\ master_of[s] \in Servers
          /\ StreamOK(e(s), q(s), handled[s], cut[s], offset[s], n)
      BY <1>3, <2>2
    <3>9. RdbOK(pc[s], psync_seen[s], e(s), remaining[s], MasterGone(s)')
      BY <2>1, <3>7, RdbGone
    <3> QED BY <1>1, <1>5, <3>2, <3>8, <3>9, NewLabel DEF ServerOK
  <2>3. CASE s \notin R
    <3>1. /\ down'[s] = down[s] /\ passed'[s] = passed[s]
          /\ StreamOK(down[s], passed[s], handled[s], cut[s], offset[s], n)
      BY <1>4, <2>3
    <3>2. /\ RequestsOK(pc[s], up[s], psync_seen[s], down[s])
          /\ RdbOK(pc[s], psync_seen[s], down[s], remaining[s], MasterGone(s))
          /\ psync_seen[s] => master_of[s] \in Servers
      BY AtServer
    <3>3. RdbOK(pc[s], psync_seen[s], down[s], remaining[s], MasterGone(s)')
      BY <2>1, <3>2, RdbGone
    <3> QED BY <1>1, <1>5, <3>1, <3>2, <3>3, NewLabel DEF ServerOK
  <2> QED BY <2>2, <2>3
<1>7. HandshakeType'
  <2>1. \A s \in Servers : down'[s] \in Seq(Tokens) /\ passed'[s] \in Seq(Nat)
    BY <1>6 DEF ServerOK, StreamOK, StreamType
  <2>2. down' = [s \in Servers |-> down'[s]] /\ passed' = [s \in Servers |-> passed'[s]]
    BY <1>1
  <2>3. down' \in [Servers -> Seq(Tokens)] /\ passed' \in [Servers -> Seq(Nat)]
    BY <2>1, <2>2
  <2>4. HandshakeType
    BY DEF HandshakeInv
  <2> QED BY <1>1, <1>2, <1>5, <2>3, <2>4 DEF HandshakeType
<1> QED BY <1>6, <1>7 DEF HandshakeInv

(* A process ends.                                                         *)
LEMMA EndOf ==
    ASSUME HandshakeInv, NEW s \in Servers, NEW partly \in BOOLEAN,
           pc' = [pc EXCEPT ![s] = "gone"], stops' \in Nat,
           down' = [r \in Servers |-> IF master_of[r] = s THEN Arrives(r, partly) ELSE down[r]],
           UNCHANGED <<master_of, up, psync_seen, linked, remaining, history>>
    PROVE  HandshakeInv'
<1>1. /\ pc' = [pc EXCEPT ![s] = "gone"]
      /\ down' = [r \in Servers |-> IF master_of[r] = s THEN Arrives(r, partly) ELSE down[r]]
      /\ master_of' = master_of /\ up' = up /\ psync_seen' = psync_seen /\ linked' = linked
      /\ remaining' = remaining /\ handled' = handled /\ offset' = offset /\ passed' = passed
      /\ cut' = cut /\ cmds' = cmds
  BY DEF history
<1>2. HandshakeType
  BY DEF HandshakeInv
<1>3. \A r \in Servers : (MasterGone(r) => MasterGone(r)') /\ (master_of[r] = s => MasterGone(r)')
  <2>1. \A r \in Servers : MasterGone(r) => MasterGone(r)'
    BY <1>1, <1>2, GoneStays
  <2>2. pc'[s] = "gone"
    BY <1>1, <1>2 DEF HandshakeType
  <2>3. \A r \in Servers : master_of[r] = s => MasterGone(r)'
    BY <1>1, <2>2 DEF MasterGone
  <2> QED BY <2>1, <2>3
<1>4. \A r \in Servers : pc'[r] = pc[r] \/ pc'[r] = "gone"
  BY <1>1, <1>2 DEF HandshakeType
<1>5. ASSUME NEW r \in Servers, NEW e \in Seq(Tokens), down'[r] = e,
             StreamOK(e, passed[r], handled[r], cut[r], offset[r], cmds),
             RequestsOK(pc[r], up[r], psync_seen[r], e),
             RdbOK(pc[r], psync_seen[r], e, remaining[r], MasterGone(r)')
      PROVE  ServerOK(r)'
  <2>1. RequestsOK(pc'[r], up[r], psync_seen[r], e)
    <3>1. "gone" \notin Early
      BY DEF Early
    <3> QED BY <1>4, <1>5, <3>1 DEF RequestsOK
  <2>2. RdbOK(pc'[r], psync_seen[r], e, remaining[r], MasterGone(r)')
    BY <1>4, <1>5 DEF RdbOK
  <2>3. psync_seen[r] => master_of[r] \in Servers
    BY AtServer
  <2> QED BY <1>1, <1>5, <2>1, <2>2, <2>3 DEF ServerOK
<1>6. ASSUME NEW r \in Servers PROVE ServerOK(r)'
  <2> DEFINE d == down[r]
             e == SubSeq(d, 1, Min({i \in DOMAIN d : d[i] = Reply("RDB")}) - 1)
  <2>1. /\ d \in Seq(Tokens) /\ Framed(d)
        /\ StreamOK(d, passed[r], handled[r], cut[r], offset[r], cmds)
        /\ RequestsOK(pc[r], up[r], psync_seen[r], d)
        /\ RdbOK(pc[r], psync_seen[r], d, remaining[r], MasterGone(r))
        /\ remaining[r] \in 0 .. RdbSize
    BY AtServer
  <2>2. CASE down'[r] = d
    <3>1. RdbOK(pc[r], psync_seen[r], d, remaining[r], MasterGone(r)')
      BY <1>3, <2>1, RdbGone
    <3> QED BY <1>5, <2>1, <2>2, <3>1
  <2>3. CASE down'[r] = e /\ d # <<>> /\ Last(d) = Reply("RDB") /\ master_of[r] = s
    <3>1. PICK m \in 1 .. Len(d) :
              /\ d[m] = Reply("RDB") /\ \A y \in 1 .. Len(d) : d[y] = Reply("RDB") => m <= y
              /\ Min({i \in DOMAIN d : d[i] = Reply("RDB")}) = m
              /\ d[Len(d)] = Reply("RDB") /\ Len(d) \in 1 .. Len(d)
      BY <2>1, <2>3, FirstRdb
    <3>2. e = SubSeq(d, 1, m - 1)
      BY <3>1
    <3>3. Len(d) \in Nat
      BY <2>1, LenProperties
    <3> HIDE DEF e, d
    <3>4. m - 1 \in Nat /\ 0 <= m - 1 /\ m - 1 <= Len(d) /\ (m - 1) - 0 = m - 1 /\ 0 + 1 = 1
      BY <3>3
    <3>5. e \in Seq(Tokens) /\ Len(e) = m - 1 /\ \A i \in 1 .. m - 1 : e[i] = d[i]
      <4>1. /\ SubSeq(d, 0 + 1, m - 1) \in Seq(Tokens)
            /\ Len(SubSeq(d, 0 + 1, m - 1)) = (m - 1) - 0
            /\ \A i \in 1 .. (m - 1) - 0 : SubSeq(d, 0 + 1, m - 1)[i] = d[0 + i]
        BY <2>1, <3>4, SliceElements
      <4>2. e = SubSeq(d, 0 + 1, m - 1)
        BY <3>2, <3>4
      <4>3. \A i \in 1 .. m - 1 : 0 + i = i
        OBVIOUS
      <4> QED BY <3>4, <4>1, <4>2, <4>3
    <3>6. /\ NoCmd(d) /\ NoCmd(e)
          /\ (\E x \in 0 .. Len(d) : ResyncAt(d, x)) \/ ResyncCut(d) => ResyncCut(e)
      BY <2>1, <3>1, <3>3, <3>5, CutStream
    <3>7. StreamOK(e, passed[r], handled[r], cut[r], offset[r], cmds)
      BY <2>1, <3>5, <3>6, StreamReplies
    <3>8. RequestsOK(pc[r], up[r], psync_seen[r], e)
      <4>1. \A i \in 1 .. Len(e) : i \in 1 .. Len(d) /\ e[i] = d[i]
        BY <3>3, <3>4, <3>5
      <4> QED BY <2>1, <4>1 DEF RequestsOK
    <3>9. MasterGone(r)'
      BY <1>3, <2>3
    <3>10. RdbOK(pc[r], psync_seen[r], e, remaining[r], MasterGone(r)')
      <4>1. pc[r] = "psync" /\ psync_seen[r] => ResyncCut(e)
        BY <2>1, <3>6 DEF RdbOK
      <4>2. DrainStream(e, remaining[r], MasterGone(r)')
        BY <3>6, <3>9 DEF DrainStream
      <4> QED BY <2>1, <3>9, <4>1, <4>2 DEF RdbOK
    <3>11. down'[r] = e
      BY <2>3
    <3> QED BY <1>5, <3>5, <3>7, <3>8, <3>10, <3>11
  <2>4. \/ down'[r] = d
        \/ down'[r] = e /\ d # <<>> /\ Last(d) = Reply("RDB") /\ master_of[r] = s
    BY <1>1 DEF Arrives
  <2> QED BY <2>2, <2>3, <2>4
<1>7. HandshakeType'
  <2>1. \A r \in Servers : down'[r] \in Seq(Tokens)
    BY <1>6 DEF ServerOK, StreamOK, StreamType
  <2>2. down' = [r \in Servers |-> down'[r]]
    BY <1>1
  <2>3. down' \in [Servers -> Seq(Tokens)]
    BY <2>1, <2>2
  <2>4. pc' \in [Servers -> Labels]
    BY <1>1, <1>2 DEF HandshakeType, Labels
  <2>5. stops' \in Nat
    OBVIOUS
  <2> QED BY <1>1, <1>2, <2>3, <2>4, <2>5 DEF HandshakeType
<1> QED BY <1>6, <1>7 DEF HandshakeInv

(* A process is stopped.                                                   *)
LEMMA StopStep ==
    ASSUME HandshakeInv, NEW s \in Servers, NEW partly \in BOOLEAN, Stop(s, partly)
    PROVE  HandshakeInv'
<1>1. stops' \in Nat
  BY DEF Stop, HandshakeInv, HandshakeType
<1>2. pc' = [pc EXCEPT ![s] = "gone"]
  BY DEF Stop, Ends, Goto
<1>3. /\ down' = [r \in Servers |-> IF master_of[r] = s THEN Arrives(r, partly) ELSE down[r]]
      /\ UNCHANGED <<master_of, up, psync_seen, linked, remaining, history>>
  BY DEF Stop
<1> QED BY <1>1, <1>2, <1>3, EndOf

(* SIGPIPE ends a process, and all it sent arrives.                        *)
LEMMA SigpipeStep ==
    ASSUME HandshakeInv, NEW s \in Servers, Sigpipe(s)
    PROVE  HandshakeInv'
<1>1. /\ pc' = [pc EXCEPT ![s] = "gone"] /\ down' = down /\ stops' = stops
      /\ UNCHANGED <<master_of, up, psync_seen, linked, remaining, history>>
  BY DEF Sigpipe, Ends, Goto
<1>2. down \in [Servers -> Seq(Tokens)] /\ stops \in Nat
  BY DEF HandshakeInv, HandshakeType
<1>3. down' = [r \in Servers |-> IF master_of[r] = s THEN Arrives(r, FALSE) ELSE down[r]]
  <2>1. \A r \in Servers : Arrives(r, FALSE) = down[r]
    BY DEF Arrives
  <2> QED BY <1>1, <1>2, <2>1
<1> QED BY <1>1, <1>2, <1>3, EndOf

(* Nothing of this invariant is about the master's slots.                  *)
LEMMA KeptStep ==
    ASSUME HandshakeInv,
           UNCHANGED <<master_of, pc, up, down, psync_seen, linked, remaining, history, stops>>
    PROVE  HandshakeInv'
<1>1. /\ master_of' = master_of /\ pc' = pc /\ up' = up /\ down' = down
      /\ psync_seen' = psync_seen /\ linked' = linked /\ remaining' = remaining
      /\ handled' = handled /\ offset' = offset /\ passed' = passed /\ cut' = cut
      /\ cmds' = cmds /\ stops' = stops
  BY DEF history
<1>2. HandshakeType'
  BY <1>1 DEF HandshakeInv, HandshakeType
<1>3. ASSUME NEW s \in Servers PROVE ServerOK(s)'
  <2>1. MasterGone(s) => MasterGone(s)'
    BY <1>1 DEF MasterGone
  <2>2. ServerOK(s)
    BY DEF HandshakeInv
  <2> QED BY <1>1, <2>1, <2>2, ServerKept
<1> QED BY <1>2, <1>3 DEF HandshakeInv

-----------------------------------------------------------------------------
(* Servers that are all off satisfy the invariant.                         *)
LEMMA HandshakeStarts == ASSUME HandshakeInit PROVE HandshakeInv
<1>1. /\ <<>> \in Seq(Tokens) /\ <<>> \in Seq(Nat) /\ <<>> \in Seq(Requests) /\ Len(<<>>) = 0
  BY EmptySeq
<1>2. /\ master_of \in [Servers -> Servers \cup {NULL}]
      /\ pc = [s \in Servers |-> "off"]
      /\ up = [s \in Servers |-> <<>>]
      /\ down = [s \in Servers |-> <<>>]
      /\ psync_seen = [s \in Servers |-> FALSE]
      /\ linked = [s \in Servers |-> FALSE]
      /\ remaining = [s \in Servers |-> 0]
      /\ handled = [s \in Servers |-> <<>>]
      /\ offset = [s \in Servers |-> 0]
      /\ passed = [s \in Servers |-> <<>>]
      /\ cut = [s \in Servers |-> {}]
      /\ cmds = 0 /\ stops = 0
  BY HandshakeAssumption DEF HandshakeInit
<1>3. HandshakeType
  <2>1. "off" \in Labels /\ 0 \in 0 .. RdbSize /\ {} \in SUBSET Nat /\ 0 \in 0 .. MaxCmds
    BY HandshakeAssumption DEF Labels, RdbSize
  <2>2. /\ pc \in [Servers -> Labels] /\ up \in [Servers -> Seq(Requests)]
        /\ down \in [Servers -> Seq(Tokens)]
        /\ psync_seen \in [Servers -> BOOLEAN] /\ linked \in [Servers -> BOOLEAN]
    BY <1>1, <1>2, <2>1
  <2>3. /\ remaining \in [Servers -> 0 .. RdbSize]
        /\ handled \in [Servers -> Seq(Nat)] /\ passed \in [Servers -> Seq(Nat)]
        /\ offset \in [Servers -> Nat] /\ cut \in [Servers -> SUBSET Nat]
    BY <1>1, <1>2, <2>1
  <2> QED BY <1>2, <2>1, <2>2, <2>3 DEF HandshakeType
<1>4. Range(<<>>) = {}
  <2>1. \A v : v \in Range(<<>>) <=> \E i \in 1 .. Len(<<>>) : <<>>[i] = v
    BY <1>1, InRange
  <2>2. 1 .. Len(<<>>) = {}
    BY <1>1
  <2> QED BY <2>1, <2>2
<1>5. StreamOK(<<>>, <<>>, <<>>, {}, 0, 0)
  <2>1. 1 .. Len(<<>>) = {} /\ 2 .. Len(<<>>) = {}
    BY <1>1
  <2>2. StreamType(<<>>, <<>>, <<>>, {}, 0, 0)
    BY <1>1, <1>4 DEF StreamType
  <2>3. Framed(<<>>) /\ Ahead(<<>>, <<>>, <<>>, {}, 0) /\ Increasing(<<>>)
    BY <2>1 DEF Framed, Ahead, Increasing
  <2>4. Handled(<<>>, <<>>, <<>>, {})
    BY <1>4 DEF Handled
  <2>5. 0 <= 2 * Len(<<>>)
    BY <1>1
  <2> QED BY <2>2, <2>3, <2>4, <2>5 DEF StreamOK
<1>6. RequestsOK("off", <<>>, FALSE, <<>>)
  <2>1. 1 .. Len(<<>>) = {}
    BY <1>1
  <2> QED BY <2>1 DEF RequestsOK
<1>7. ASSUME NEW s \in Servers PROVE ServerOK(s)
  <2>1. RdbOK("off", FALSE, <<>>, 0, MasterGone(s))
    BY DEF RdbOK, RdbSize
  <2> QED BY <1>2, <1>5, <1>6, <2>1 DEF ServerOK
<1> QED BY <1>3, <1>7 DEF HandshakeInv

(* Every step of a server, and the end of one, keeps the invariant.        *)
LEMMA HandshakeSteps == ASSUME HandshakeInv, [HandshakeNext]_handshakeVars PROVE HandshakeInv'
<1>1. ASSUME NEW s \in Servers, replicaofHandler(s) PROVE HandshakeInv'
  BY <1>1, StartStep
<1>2. ASSUME NEW s \in Servers, Receive(s) PROVE HandshakeInv'
  <2>1. PICK n \in 0 .. BufSize :
           \/ RecvPong(s, n) \/ RecvReplconf1(s, n) \/ RecvReplconf2(s, n)
           \/ RecvPsync(s, n) \/ Drain(s, n) \/ Loop(s, n)
    BY <1>2 DEF Receive
  <2> QED BY <2>1, EarlyStep, PsyncStep, DrainStep, LoopStep
<1>3. ASSUME NEW s \in Servers, NEW partly \in BOOLEAN, Stop(s, partly) PROVE HandshakeInv'
  BY <1>3, StopStep
<1>4. ASSUME NEW m \in Servers, NEW s \in Servers, Answer(m, s) PROVE HandshakeInv'
  BY <1>4, AnswerStep
<1>5. ASSUME NEW m \in Servers, NEW kind \in {"write", "getack"},
             NEW sent \in SUBSET ReplicasOf(m), pass_data_toReplica(m, kind, sent)
      PROVE  HandshakeInv'
  BY <1>5, PassStep
<1>6. ASSUME NEW s \in Servers,
             \/ \E n \in 0 .. BufSize : SendBreaks(s, n)
             \/ \E r \in Servers : AnswerBreaks(s, r)
      PROVE  HandshakeInv'
  <2>1. Sigpipe(s)
    BY <1>6 DEF SendBreaks, AnswerBreaks
  <2> QED BY <2>1, SigpipeStep
<1>7. ASSUME NEW m \in Servers, NEW s \in Servers, Drop(m, s) PROVE HandshakeInv'
  <2>1. UNCHANGED <<master_of, pc, up, down, psync_seen, linked, remaining, history, stops>>
    BY <1>7 DEF Drop, ends
  <2> QED BY <2>1, KeptStep
<1>8. CASE UNCHANGED handshakeVars
  <2>1. UNCHANGED <<master_of, pc, up, down, psync_seen, linked, remaining, history, stops>>
    BY <1>8 DEF handshakeVars, history
  <2> QED BY <2>1, KeptStep
<1> QED BY <1>1, <1>2, <1>3, <1>4, <1>5, <1>6, <1>7, <1>8 DEF HandshakeNext

\* The part of the type invariant about the connections.
ConnType ==
    /\ conn \in [Servers -> {"open", "reset", "dropped"}]
    /\ killed \subseteq Servers

(* The marks of the connections keep their type.                           *)
LEMMA ConnStep ==
    ASSUME ConnType, [HandshakeNext]_handshakeVars
    PROVE  ConnType'
<1> DEFINE T == {"open", "reset", "dropped"}
<1>1. CASE UNCHANGED <<conn, killed>>
  BY <1>1 DEF ConnType
<1>2. ASSUME NEW s \in Servers, Ends(s), killed' = killed \/ killed' = killed \cup {s}
      PROVE  ConnType'
  <2>1. conn' \in [Servers -> T]
    BY <1>2 DEF Ends, ConnType
  <2> QED BY <1>2, <2>1 DEF ConnType
<1>3. ASSUME NEW s \in Servers, NEW v \in T, conn' = [conn EXCEPT ![s] = v], killed' = killed
      PROVE  ConnType'
  BY <1>3 DEF ConnType
<1>4. \A s \in Servers : conn[s] \in T
  BY DEF ConnType
<1>5. ASSUME NEW s \in Servers, NEW q, Send(s, q), killed' = killed PROVE ConnType'
  <2>1. \E v \in T : conn' = [conn EXCEPT ![s] = v]
    BY <1>4, <1>5 DEF Send
  <2> QED BY <1>3, <1>5, <2>1
<1>6. ASSUME NEW s \in Servers, NEW n \in 0 .. BufSize,
             RecvPong(s, n) \/ RecvReplconf1(s, n) \/ RecvReplconf2(s, n)
      PROVE  ConnType'
  <2>1. killed' = killed /\ (conn' = conn \/ \E q \in {"REPLCONF", "PSYNC"} : Send(s, q))
    BY <1>6 DEF RecvPong, RecvReplconf1, RecvReplconf2, ends
  <2> QED BY <1>1, <1>5, <2>1
<1>7. ASSUME NEW s \in Servers, NEW n \in 0 .. BufSize,
             RecvPsync(s, n) \/ Drain(s, n) \/ Loop(s, n)
      PROVE  ConnType'
  <2>1. UNCHANGED <<conn, killed>>
    BY <1>7 DEF RecvPsync, Drain, Loop, ends
  <2> QED BY <1>1, <2>1
<1>8. ASSUME NEW s \in Servers, replicaofHandler(s) PROVE ConnType'
  BY <1>1, <1>8 DEF replicaofHandler, ends
<1>9. ASSUME NEW s \in Servers, NEW partly \in BOOLEAN, Stop(s, partly) PROVE ConnType'
  BY <1>2, <1>9 DEF Stop
<1>10. ASSUME NEW s \in Servers, Sigpipe(s) PROVE ConnType'
  BY <1>2, <1>10 DEF Sigpipe
<1>11. ASSUME NEW m \in Servers, NEW s \in Servers, Answer(m, s) PROVE ConnType'
  <2>1. killed' = killed /\ \E v \in T : conn' = [conn EXCEPT ![s] = v]
    BY <1>4, <1>11 DEF Answer, ends
  <2> QED BY <1>3, <2>1
<1>12. ASSUME NEW m \in Servers, NEW s \in Servers, Drop(m, s) PROVE ConnType'
  BY <1>3, <1>12 DEF Drop, ends
<1>13. ASSUME NEW m \in Servers, NEW kind, NEW sent, pass_data_toReplica(m, kind, sent)
       PROVE  ConnType'
  <2>1. CASE /\ conn' = [s \in Servers |-> IF s \in sent /\ Ended(s) THEN "reset" ELSE conn[s]]
             /\ killed' = killed
    BY <1>4, <2>1 DEF ConnType
  <2>2. CASE Ends(m) /\ killed' = killed \cup {m}
    BY <1>2, <2>2
  <2> QED BY <1>13, <2>1, <2>2 DEF pass_data_toReplica
<1>14. CASE UNCHANGED handshakeVars
  BY <1>1, <1>14 DEF handshakeVars
<1>15. ASSUME NEW s \in Servers, Receive(s) PROVE ConnType'
  BY <1>6, <1>7, <1>15 DEF Receive
<1>16. ASSUME NEW s \in Servers,
              \/ \E n \in 0 .. BufSize : SendBreaks(s, n)
              \/ \E r \in Servers : AnswerBreaks(s, r)
       PROVE  ConnType'
  BY <1>10, <1>16 DEF SendBreaks, AnswerBreaks
<1> QED BY <1>8, <1>9, <1>11, <1>12, <1>13, <1>14, <1>15, <1>16 DEF HandshakeNext

(* The invariant holds in every state of the handshake.                    *)
LEMMA HandshakeKept == HandshakeSpec => [](HandshakeInv /\ ConnType)
<1>1. HandshakeInit => HandshakeInv /\ ConnType
  <2>1. HandshakeInit => ConnType
    BY DEF HandshakeInit, ConnType
  <2> QED BY <2>1, HandshakeStarts
<1>2. HandshakeInv /\ ConnType /\ [HandshakeNext]_handshakeVars => HandshakeInv' /\ ConnType'
  BY HandshakeSteps, ConnStep
<1> QED BY <1>1, <1>2, PTL DEF HandshakeSpec

(* The invariant contains the type invariant that the run checks.          *)
LEMMA TypeFollows == ASSUME HandshakeInv, ConnType PROVE HandshakeTypeOK
<1>1. HandshakeType
  BY DEF HandshakeInv
<1>2. ASSUME NEW s \in Servers
      PROVE  /\ handled[s] \in Seq(1 .. MaxCmds) /\ passed[s] \in Seq(1 .. MaxCmds)
             /\ cut[s] \in SUBSET (1 .. MaxCmds)
  <2>1. StreamOK(down[s], passed[s], handled[s], cut[s], offset[s], cmds)
    BY AtServer
  <2>2. /\ passed[s] \in Seq(Nat) /\ handled[s] \in Seq(Nat)
        /\ Range(passed[s]) \subseteq 1 .. cmds /\ cut[s] \subseteq Range(passed[s])
        /\ \A v : v \in Range(handled[s]) => v \in Range(passed[s])
    BY <2>1 DEF StreamOK, StreamType, Handled
  <2>3. 1 .. cmds \subseteq 1 .. MaxCmds
    BY <1>1, HandshakeAssumption DEF HandshakeType
  <2>4. /\ \A v \in Range(passed[s]) : v \in 1 .. MaxCmds
        /\ \A v \in Range(handled[s]) : v \in 1 .. MaxCmds
    BY <2>2, <2>3
  <2>5. handled[s] \in Seq(1 .. MaxCmds) /\ passed[s] \in Seq(1 .. MaxCmds)
    <3> DEFINE T == 1 .. MaxCmds
    <3>1. \A v \in Range(passed[s]) : v \in T
      BY <2>4
    <3>2. \A v \in Range(handled[s]) : v \in T
      BY <2>4
    <3> HIDE DEF T
    <3>3. handled[s] \in Seq(T)
      BY <2>2, <3>2, ValuesMakeSeq
    <3>4. passed[s] \in Seq(T)
      BY <2>2, <3>1, ValuesMakeSeq
    <3> QED BY <3>3, <3>4 DEF T
  <2> QED BY <2>2, <2>3, <2>5
<1>3. /\ handled \in [Servers -> Seq(1 .. MaxCmds)] /\ passed \in [Servers -> Seq(1 .. MaxCmds)]
      /\ cut \in [Servers -> SUBSET (1 .. MaxCmds)]
  <2>1. /\ handled \in [Servers -> Seq(Nat)] /\ passed \in [Servers -> Seq(Nat)]
        /\ cut \in [Servers -> SUBSET Nat]
    BY <1>1 DEF HandshakeType
  <2> QED BY <1>2, <2>1
<1>4. /\ master_of \in [Servers -> Servers \cup {NULL}]
      /\ pc \in [Servers -> Labels] /\ up \in [Servers -> Seq(Requests)]
      /\ down \in [Servers -> Seq(Tokens)]
      /\ psync_seen \in [Servers -> BOOLEAN] /\ linked \in [Servers -> BOOLEAN]
      /\ remaining \in [Servers -> 0 .. RdbSize] /\ offset \in [Servers -> Nat]
      /\ cmds \in 0 .. MaxCmds /\ stops \in Nat
  BY <1>1 DEF HandshakeType
<1> QED BY <1>3, <1>4 DEF HandshakeTypeOK, ConnType, Labels, Requests, Tokens, RdbSize

(* The invariant says that a replica lacks only what a cut split.          *)
LEMMA CutsFollow == ASSUME HandshakeInv PROVE OnlyCutsAreLost
<1> SUFFICES ASSUME NEW s \in Servers
             PROVE  /\ \A i, j \in DOMAIN handled[s] : i < j => handled[s][i] < handled[s][j]
                    /\ Range(handled[s]) = Range(passed[s]) \ (cut[s] \cup Arriving(s))
                    /\ offset[s] <= 2 * Len(passed[s])
  BY DEF OnlyCutsAreLost
<1>1. StreamOK(down[s], passed[s], handled[s], cut[s], offset[s], cmds)
  BY AtServer
<1>2. /\ down[s] \in Seq(Tokens) /\ handled[s] \in Seq(Nat)
      /\ Increasing(handled[s]) /\ offset[s] <= 2 * Len(passed[s])
      /\ Handled(down[s], passed[s], handled[s], cut[s])
  BY <1>1 DEF StreamOK, StreamType
<1>3. DOMAIN handled[s] = 1 .. Len(handled[s])
  BY <1>2, LenProperties
<1>4. \A v : v \in Arriving(s) <=> Pending(down[s], v)
  <2>1. \A t : t \in Range(down[s]) <=> \E i \in 1 .. Len(down[s]) : down[s][i] = t
    BY <1>2, InRange
  <2>2. \A v : v \in Arriving(s) <=> \E t \in Range(down[s]) : Cmd(t) /\ t.n = v
    BY DEF Arriving, Cmd
  <2> QED BY <2>1, <2>2 DEF Pending
<1>5. Range(handled[s]) = Range(passed[s]) \ (cut[s] \cup Arriving(s))
  BY <1>2, <1>4 DEF Handled
<1> QED BY <1>2, <1>3, <1>5 DEF Increasing

(* Whatever servers there are and whose replicas they are, the connections *)
(* carry what the handshake and the stream send, and drain_rdb never       *)
(* expects less than nothing or more than the RDB.                         *)
THEOREM HandshakeTyped == HandshakeSpec => []HandshakeTypeOK
<1>1. HandshakeInv /\ ConnType => HandshakeTypeOK
  BY TypeFollows
<1> QED BY <1>1, HandshakeKept, PTL

(* However the stream is cut into recv() calls, and whenever processes end *)
(* in the handshake or behind it, a replica handles the commands passed to *)
(* it once and in order, misses only those a call cut in two, and never    *)
(* acknowledges more than it was sent.                                     *)
THEOREM CutsAreAllThatIsLost == HandshakeSpec => []OnlyCutsAreLost
<1>1. HandshakeInv => OnlyCutsAreLost
  BY CutsFollow
<1> QED BY <1>1, HandshakeKept, PTL
=============================================================================
