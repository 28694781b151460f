--------------------------- MODULE SessionsProofs ---------------------------
(***************************************************************************)
(* Proofs about Sessions, for every set of clients, channels and passwords *)
(* and every size of channel_subed.                                        *)
(***************************************************************************)
EXTENDS Sessions, DataLemmas, FiniteSetTheorems

\* The slots in use of c: no channel twice, and only channels of c.  Unless
\* UNSUBSCRIBE has left a hole, they hold all channels of c.
SlotsOK(c) ==
    /\ \A i, j \in InUse(c) :
          channel_subed[c][i] # NULL /\ channel_subed[c][i] = channel_subed[c][j] => i = j
    /\ \A i \in InUse(c) : channel_subed[c][i] # NULL => channel_subed[c][i] \in subs[c]
    /\ Readable(c, InUse(c)) => \A ch \in subs[c] : \E i \in InUse(c) : channel_subed[c][i] = ch

\* The count, and that there is something to count.
CountOK(c) == IsFiniteSet(subs[c]) /\ channel_count[c] = Cardinality(subs[c])

\* What the server stores is what the history says of passwords and clients.
AuthOK ==
    /\ default_has_nopass <=> named = {}
    /\ default_password = chosen
    /\ "DEFAULT" \notin named => chosen = NoPassword /\ admitted = {}
    /\ \A c \in Clients : is_auth[c] <=> c \in setters \cup admitted

ChannelsInv ==
    /\ ChannelsTypeOK
    /\ \A c \in Clients : SlotsOK(c) /\ CountOK(c)
    /\ EachSubscriberOnce

AuthInv == AuthTypeOK /\ AuthOK

IInv == ChannelsInv /\ AuthInv

-----------------------------------------------------------------------------
(* Which slots are looked at.                                              *)

(* UNSUBSCRIBE clears the first slot that holds the channel.               *)
LEMMA FirstFound ==
    ASSUME ChannelsTypeOK, NEW c \in Clients, NEW ch, Found(c, ch) # {}
    PROVE  /\ Min(Found(c, ch)) \in Found(c, ch)
           /\ Min(Found(c, ch)) \in InUse(c)
           /\ channel_subed[c][Min(Found(c, ch))] = ch
<1>1. Found(c, ch) \subseteq Nat
  BY DEF Found, InUse, ChannelsTypeOK
<1>2. \E x \in Found(c, ch) : \A y \in Found(c, ch) : x <= y
  BY <1>1, LeastNumber
<1>3. Min(Found(c, ch)) \in Found(c, ch)
  BY <1>2, Zenon DEF Min
<1> QED BY <1>3 DEF Found

(* The loop of UNSUBSCRIBE passes every slot in use but the last.          *)
LEMMA WalkedSlots ==
    ASSUME ChannelsTypeOK, NEW c \in Clients, NEW ch, Found(c, ch) # {}
    PROVE  0 .. channel_count[c] - 2 \subseteq Walked(c, ch)
<1> DEFINE m == Min(Found(c, ch))
           a == channel_count[c] - 2
<1>1. m \in Int /\ a \in Int
  <2>1. m \in InUse(c)
    BY FirstFound
  <2> QED BY <2>1 DEF InUse, ChannelsTypeOK
<1> HIDE DEF m, a
<1>2. \E x \in {a, m} : \A y \in {a, m} : x >= y
  BY <1>1
<1>3. Max({a, m}) \in {a, m} /\ \A y \in {a, m} : Max({a, m}) >= y
  BY <1>2, Zenon DEF Max
<1>4. 0 .. a \subseteq 0 .. Max({a, m})
  BY <1>1, <1>3
<1> QED BY <1>4 DEF Walked, a, m

(* An interval that starts at 0, and its subsets, are finite.              *)
LEMMA FoundFinite ==
    ASSUME ChannelsTypeOK, NEW c \in Clients, NEW ch
    PROVE  IsFiniteSet(Found(c, ch)) /\ Copies(c, ch) \in Nat
<1>1. channel_count[c] - 1 \in Int /\ 0 \in Int
  BY DEF ChannelsTypeOK
<1>2. IsFiniteSet(InUse(c))
  BY <1>1, FS_Interval DEF InUse
<1>3. Found(c, ch) \subseteq InUse(c)
  BY DEF Found
<1>4. IsFiniteSet(Found(c, ch))
  BY <1>2, <1>3, FS_Subset
<1> QED BY <1>4, FS_CardinalityType DEF Copies

(* With every slot in use readable, PUBLISH finds a channel of the client  *)
(* in one slot and any other in none.                                      *)
LEMMA CopiesOnce ==
    ASSUME ChannelsTypeOK, NEW c \in Clients, SlotsOK(c), Readable(c, InUse(c)),
           NEW ch \in Channels
    PROVE  Copies(c, ch) = IF ch \in subs[c] THEN 1 ELSE 0
<1>0. ch # NULL
  BY PubSubAssumption
<1>1. CASE ch \in subs[c]
  <2>1. PICK i \in InUse(c) : channel_subed[c][i] = ch
    BY <1>1 DEF SlotsOK
  <2>2. Found(c, ch) = {i}
    BY <1>0, <2>1 DEF Found, SlotsOK
  <2> QED BY <1>1, <2>2, FS_Singleton DEF Copies
<1>2. CASE ch \notin subs[c]
  <2>1. Found(c, ch) = {}
    BY <1>0, <1>2 DEF Found, SlotsOK
  <2> QED BY <1>2, <2>1, FS_EmptySet DEF Copies
<1> QED BY <1>1, <1>2

-----------------------------------------------------------------------------
(* What each command does to the channels of the client that sends it.     *)

\* The slots, count and channels of every client but c stay.
OthersStay(c) ==
    \A d \in Clients : d # c =>
        /\ channel_subed'[d] = channel_subed[d]
        /\ channel_count'[d] = channel_count[d]
        /\ subs'[d] = subs[d]

LEMMA OthersKeepSlots ==
    ASSUME NEW d \in Clients, SlotsOK(d), CountOK(d),
           channel_subed'[d] = channel_subed[d],
           channel_count'[d] = channel_count[d], subs'[d] = subs[d]
    PROVE  SlotsOK(d)' /\ CountOK(d)'
  BY DEF SlotsOK, CountOK, InUse, Readable

(* SUBSCRIBE of a channel that is in none of the readable slots.           *)
LEMMA AddChannel ==
    ASSUME ChannelsTypeOK, NEW c \in Clients, SlotsOK(c), CountOK(c), NEW ch \in Channels,
           ~Full(c), Readable(c, Searched(c, ch)), ~Already(c, ch),
           channel_subed' = [channel_subed EXCEPT ![c][channel_count[c]] = ch],
           channel_count' = [channel_count EXCEPT ![c] = @ + 1],
           subs' = [subs EXCEPT ![c] = @ \cup {ch}]
    PROVE  /\ channel_subed' \in [Clients -> [Slots -> Channels \cup {NULL}]]
           /\ channel_count' \in [Clients -> 0 .. MaxChannels]
           /\ subs' \in [Clients -> SUBSET Channels]
           /\ SlotsOK(c)' /\ CountOK(c)' /\ OthersStay(c)
<1> DEFINE n == channel_count[c]
           s == channel_subed[c]
<1> USE PubSubAssumption
<1>1. n \in Nat /\ n < MaxChannels /\ n \in Slots /\ n + 1 \in 0 .. MaxChannels
  BY DEF ChannelsTypeOK, Full, Slots
<1>2. /\ channel_subed' \in [Clients -> [Slots -> Channels \cup {NULL}]]
      /\ channel_count' \in [Clients -> 0 .. MaxChannels]
      /\ subs' \in [Clients -> SUBSET Channels]
      /\ OthersStay(c)
  BY <1>1 DEF ChannelsTypeOK, OthersStay
<1>3. /\ channel_count'[c] = n + 1
      /\ subs'[c] = subs[c] \cup {ch}
      /\ channel_subed'[c][n] = ch
      /\ \A i \in Slots : i # n => channel_subed'[c][i] = s[i]
  BY <1>1 DEF ChannelsTypeOK
<1>4. Found(c, ch) = {} /\ Readable(c, InUse(c))
  BY DEF Already, Searched
<1>5. \A i \in InUse(c) : i \in Slots /\ i # n /\ s[i] # NULL /\ s[i] # ch /\ channel_subed'[c][i] = s[i]
  <2>1. \A i \in InUse(c) : i \in Slots /\ i # n
    BY <1>1 DEF InUse, Slots
  <2>2. \A i \in InUse(c) : s[i] # NULL /\ s[i] # ch
    BY <1>4 DEF Found, Readable
  <2> QED BY <1>3, <2>1, <2>2
<1>6. ch \notin subs[c]
  BY <1>4, <1>5 DEF SlotsOK
<1>7. \A i : i \in InUse(c)' <=> i \in InUse(c) \/ i = n
  BY <1>1, <1>3 DEF InUse
<1>8. SlotsOK(c)'
  <2>1. \A i, j \in InUse(c)' :
          channel_subed'[c][i] # NULL /\ channel_subed'[c][i] = channel_subed'[c][j] => i = j
    <3> SUFFICES ASSUME NEW i \in InUse(c)', NEW j \in InUse(c)',
                        channel_subed'[c][i] = channel_subed'[c][j]
                 PROVE  i = j
      OBVIOUS
    <3>1. CASE i \in InUse(c) /\ j \in InUse(c)
      BY <1>5, <3>1 DEF SlotsOK
    <3>2. CASE i = n \/ j = n
      BY <1>3, <1>5, <1>7, <3>2
    <3> QED BY <1>7, <3>1, <3>2
  <2>2. \A i \in InUse(c)' : channel_subed'[c][i] \in subs'[c]
    BY <1>3, <1>5, <1>7, Zenon DEF SlotsOK
  <2>3. \A x \in subs'[c] : \E i \in InUse(c)' : channel_subed'[c][i] = x
    <3> SUFFICES ASSUME NEW x \in subs'[c] PROVE \E i \in InUse(c)' : channel_subed'[c][i] = x
      OBVIOUS
    <3>1. CASE x = ch
      BY <1>3, <1>7, <3>1
    <3>2. CASE x \in subs[c]
      <4>1. PICK i \in InUse(c) : s[i] = x
        BY <1>4, <3>2 DEF SlotsOK
      <4> QED BY <1>5, <1>7, <4>1
    <3> QED BY <1>3, <3>1, <3>2
  <2> QED BY <2>1, <2>2, <2>3 DEF SlotsOK
<1>9. CountOK(c)'
  <2>1. IsFiniteSet(subs[c]) /\ n = Cardinality(subs[c])
    BY DEF CountOK
  <2>2. IsFiniteSet(subs[c] \cup {ch}) /\ Cardinality(subs[c] \cup {ch}) = Cardinality(subs[c]) + 1
    BY <1>6, <2>1, FS_AddElement
  <2> QED BY <1>3, <2>1, <2>2 DEF CountOK
<1> QED BY <1>2, <1>8, <1>9

(* UNSUBSCRIBE of a channel that it finds.                                 *)
LEMMA RemoveChannel ==
    ASSUME ChannelsTypeOK, NEW c \in Clients, SlotsOK(c), CountOK(c), NEW ch \in Channels,
           Readable(c, Walked(c, ch)), Found(c, ch) # {},
           channel_subed' = [channel_subed EXCEPT ![c][Min(Found(c, ch))] = NULL],
           channel_count' = [channel_count EXCEPT ![c] = @ - 1],
           subs' = [subs EXCEPT ![c] = @ \ {ch}]
    PROVE  /\ channel_subed' \in [Clients -> [Slots -> Channels \cup {NULL}]]
           /\ channel_count' \in [Clients -> 0 .. MaxChannels]
           /\ subs' \in [Clients -> SUBSET Channels]
           /\ SlotsOK(c)' /\ CountOK(c)' /\ OthersStay(c)
<1> DEFINE n == channel_count[c]
           s == channel_subed[c]
           m == Min(Found(c, ch))
<1> USE PubSubAssumption
<1>1. m \in InUse(c) /\ s[m] = ch /\ ch # NULL
  BY FirstFound
<1>2. \A i \in 0 .. n - 2 : s[i] # NULL
  BY WalkedSlots DEF Readable
<1> HIDE DEF m
<1>3. channel_subed' = [channel_subed EXCEPT ![c][m] = NULL]
  BY DEF m
<1>4. n \in 1 .. MaxChannels /\ m \in 0 .. n - 1 /\ m \in Slots /\ n - 1 \in 0 .. MaxChannels
  BY <1>1 DEF ChannelsTypeOK, InUse, Slots
<1>5. /\ channel_subed' \in [Clients -> [Slots -> Channels \cup {NULL}]]
      /\ channel_count' \in [Clients -> 0 .. MaxChannels]
      /\ subs' \in [Clients -> SUBSET Channels]
      /\ OthersStay(c)
  <2>1. channel_subed' \in [Clients -> [Slots -> Channels \cup {NULL}]]
    <3>1. [channel_subed[c] EXCEPT ![m] = NULL] \in [Slots -> Channels \cup {NULL}]
      BY <1>4 DEF ChannelsTypeOK
    <3>2. channel_subed' = [channel_subed EXCEPT ![c] = [channel_subed[c] EXCEPT ![m] = NULL]]
      BY <1>3
    <3> QED BY <3>1, <3>2, Zenon DEF ChannelsTypeOK
  <2>2. channel_count' \in [Clients -> 0 .. MaxChannels]
    BY <1>4 DEF ChannelsTypeOK
  <2>3. subs' \in [Clients -> SUBSET Channels]
    BY DEF ChannelsTypeOK
  <2>4. OthersStay(c)
    BY <1>3 DEF ChannelsTypeOK, OthersStay
  <2> QED BY <2>1, <2>2, <2>3, <2>4
<1>6. /\ channel_count'[c] = n - 1
      /\ subs'[c] = subs[c] \ {ch}
      /\ channel_subed'[c][m] = NULL
      /\ \A i \in Slots : i # m => channel_subed'[c][i] = s[i]
  BY <1>3, <1>4 DEF ChannelsTypeOK
<1>7. \A i : i \in InUse(c)' <=> i \in InUse(c) /\ i # n - 1
  BY <1>4, <1>6 DEF InUse
<1>8. \A i \in InUse(c) : i \in Slots
  BY <1>4 DEF InUse, Slots
<1>9. ch \in subs[c] /\ \A i \in InUse(c) : i # m => s[i] # ch
  BY <1>1 DEF SlotsOK
<1>10. SlotsOK(c)'
  <2>1. \A i \in InUse(c)' : channel_subed'[c][i] # NULL => i # m /\ i \in InUse(c) /\ channel_subed'[c][i] = s[i]
    BY <1>6, <1>7, <1>8
  <2>2. \A i, j \in InUse(c)' :
          channel_subed'[c][i] # NULL /\ channel_subed'[c][i] = channel_subed'[c][j] => i = j
    BY <2>1 DEF SlotsOK
  <2>3. \A i \in InUse(c)' : channel_subed'[c][i] # NULL => channel_subed'[c][i] \in subs'[c]
    BY <1>6, <1>9, <2>1 DEF SlotsOK
  <2>4. ASSUME Readable(c, InUse(c))', NEW x \in subs'[c]
        PROVE  \E i \in InUse(c)' : channel_subed'[c][i] = x
    <3>1. m = n - 1
      BY <1>1, <1>6, <1>7, <2>4 DEF Readable
    <3>2. Readable(c, InUse(c))
      <4>1. \A i \in InUse(c) : i \in 0 .. n - 2 \/ i = n - 1
        BY <1>4 DEF InUse
      <4> QED BY <1>1, <1>2, <3>1, <4>1 DEF Readable
    <3>3. x \in subs[c] /\ x # ch
      BY <1>6, <2>4
    <3>4. PICK i \in InUse(c) : s[i] = x
      BY <3>2, <3>3 DEF SlotsOK
    <3>5. i # m
      BY <1>1, <3>3, <3>4
    <3> QED BY <1>6, <1>7, <1>8, <3>1, <3>4, <3>5
  <2> QED BY <2>2, <2>3, <2>4 DEF SlotsOK
<1>11. CountOK(c)'
  <2>1. IsFiniteSet(subs[c]) /\ n = Cardinality(subs[c])
    BY DEF CountOK
  <2>2. IsFiniteSet(subs[c] \ {ch}) /\ Cardinality(subs[c] \ {ch}) = Cardinality(subs[c]) - 1
    BY <1>9, <2>1, FS_RemoveElement
  <2> QED BY <1>6, <2>1, <2>2 DEF CountOK
<1> QED BY <1>5, <1>10, <1>11

-----------------------------------------------------------------------------
(* The channels, step by step.                                             *)
LEMMA ChannelsInitInv == ChannelsInit => ChannelsInv
<1> SUFFICES ASSUME ChannelsInit PROVE ChannelsInv
  OBVIOUS
<1> USE PubSubAssumption DEF ChannelsInit
<1>1. ChannelsTypeOK
  BY DEF ChannelsTypeOK
<1>2. \A c \in Clients : InUse(c) = {}
  BY DEF InUse
<1>3. \A c \in Clients : SlotsOK(c)
  BY <1>2 DEF SlotsOK
<1>4. \A c \in Clients : CountOK(c)
  BY FS_EmptySet DEF CountOK
<1> QED BY <1>1, <1>3, <1>4 DEF ChannelsInv, EachSubscriberOnce

(* Slots, counts and subscriptions stay, and so does what the last message *)
(* reached, unless it is forgotten.                                        *)
LEMMA ChannelsStay ==
    ASSUME ChannelsInv, UNCHANGED <<channel_subed, channel_count, subs, sent>>,
           up' \in BOOLEAN, is_subscribed' \in [Clients -> BOOLEAN],
           topic' = topic \/ topic' = NULL
    PROVE  ChannelsInv'
<1>1. ChannelsTypeOK'
  BY DEF ChannelsInv, ChannelsTypeOK
<1>2. \A c \in Clients : SlotsOK(c)' /\ CountOK(c)'
  BY OthersKeepSlots DEF ChannelsInv
<1>3. EachSubscriberOnce'
  BY DEF ChannelsInv, EachSubscriberOnce
<1> QED BY <1>1, <1>2, <1>3 DEF ChannelsInv

(* A step of one client, after which no message is the last.               *)
LEMMA ChannelsOneClient ==
    ASSUME ChannelsInv, NEW c \in Clients,
           channel_subed' \in [Clients -> [Slots -> Channels \cup {NULL}]],
           channel_count' \in [Clients -> 0 .. MaxChannels],
           subs' \in [Clients -> SUBSET Channels],
           SlotsOK(c)', CountOK(c)', OthersStay(c),
           up' \in BOOLEAN, is_subscribed' \in [Clients -> BOOLEAN],
           UNCHANGED sent, topic' = NULL
    PROVE  ChannelsInv'
<1>1. ChannelsTypeOK'
  BY DEF ChannelsInv, ChannelsTypeOK
<1>2. ASSUME NEW d \in Clients PROVE SlotsOK(d)' /\ CountOK(d)'
  <2>1. CASE d = c
    BY <2>1
  <2>2. CASE d # c
    BY <2>2, OthersKeepSlots DEF OthersStay, ChannelsInv
  <2> QED BY <2>1, <2>2
<1>3. EachSubscriberOnce'
  BY DEF EachSubscriberOnce
<1> QED BY <1>1, <1>2, <1>3 DEF ChannelsInv

(* Every command on channels keeps the invariant.                          *)
LEMMA ChannelStepInv ==
    ASSUME ChannelsInv, NEW c \in Clients, ChannelStep(c)
    PROVE  ChannelsInv'
<1>0. /\ ChannelsTypeOK /\ SlotsOK(c) /\ CountOK(c)
      /\ up \in BOOLEAN /\ is_subscribed \in [Clients -> BOOLEAN]
      /\ [is_subscribed EXCEPT ![c] = TRUE] \in [Clients -> BOOLEAN]
      /\ TRUE \in BOOLEAN /\ FALSE \in BOOLEAN
  BY DEF ChannelsInv, ChannelsTypeOK
<1>1. PICK ch \in Channels : SUBSCRIBE(c, ch) \/ PUBLISH(c, ch) \/ UNSUBSCRIBE(c, ch)
  BY DEF ChannelStep
<1>2. CASE Crash /\ topic' = NULL
  BY <1>0, <1>2, ChannelsStay DEF Crash, client
<1>3. CASE SUBSCRIBE(c, ch)
  <2>1. topic' = NULL
    BY <1>3 DEF SUBSCRIBE
  <2>2. CASE /\ ~Full(c) /\ Readable(c, Searched(c, ch)) /\ ~Already(c, ch)
             /\ channel_subed' = [channel_subed EXCEPT ![c][channel_count[c]] = ch]
             /\ channel_count' = [channel_count EXCEPT ![c] = @ + 1]
             /\ subs' = [subs EXCEPT ![c] = @ \cup {ch}]
             /\ is_subscribed' = [is_subscribed EXCEPT ![c] = TRUE]
             /\ UNCHANGED <<up, sent>>
    <3>1. /\ channel_subed' \in [Clients -> [Slots -> Channels \cup {NULL}]]
          /\ channel_count' \in [Clients -> 0 .. MaxChannels]
          /\ subs' \in [Clients -> SUBSET Channels]
          /\ SlotsOK(c)' /\ CountOK(c)' /\ OthersStay(c)
      BY <1>0, <2>2, AddChannel
    <3> QED BY <1>0, <2>1, <2>2, <3>1, ChannelsOneClient
  <2>3. CASE /\ is_subscribed' = [is_subscribed EXCEPT ![c] = TRUE]
             /\ UNCHANGED <<up, channel_subed, channel_count, subs, sent>>
    BY <1>0, <2>1, <2>3, ChannelsStay
  <2> QED BY <1>2, <1>3, <2>1, <2>2, <2>3 DEF SUBSCRIBE
<1>4. CASE PUBLISH(c, ch)
  <2>1. CASE /\ \A d \in Clients : Readable(d, InUse(d))
             /\ sent' = [d \in Clients |-> Copies(d, ch)]
             /\ topic' = ch
             /\ UNCHANGED <<up, client, subs>>
    <3>1. UNCHANGED <<up, is_subscribed, channel_subed, channel_count, subs>>
      BY <2>1 DEF client
    <3>2. \A d \in Clients : Copies(d, ch) \in Nat
      BY <1>0, FoundFinite
    <3>3. ChannelsTypeOK'
      BY <1>0, <2>1, <3>1, <3>2 DEF ChannelsTypeOK
    <3>4. \A d \in Clients : SlotsOK(d)' /\ CountOK(d)'
      BY <3>1, OthersKeepSlots DEF ChannelsInv
    <3>5. \A d \in Clients : Copies(d, ch) = IF ch \in subs[d] THEN 1 ELSE 0
      BY <1>0, <2>1, CopiesOnce DEF ChannelsInv
    <3>6. EachSubscriberOnce'
      BY <2>1, <3>1, <3>5 DEF EachSubscriberOnce
    <3> QED BY <3>3, <3>4, <3>6 DEF ChannelsInv
  <2> QED BY <1>2, <1>4, <2>1 DEF PUBLISH
<1>5. CASE UNSUBSCRIBE(c, ch)
  <2>1. topic' = NULL
    BY <1>5 DEF UNSUBSCRIBE
  <2>2. CASE /\ Readable(c, Walked(c, ch)) /\ Found(c, ch) # {}
             /\ channel_subed' = [channel_subed EXCEPT ![c][Min(Found(c, ch))] = NULL]
             /\ channel_count' = [channel_count EXCEPT ![c] = @ - 1]
             /\ subs' = [subs EXCEPT ![c] = @ \ {ch}]
             /\ UNCHANGED <<up, is_subscribed, sent>>
    <3>1. /\ channel_subed' \in [Clients -> [Slots -> Channels \cup {NULL}]]
          /\ channel_count' \in [Clients -> 0 .. MaxChannels]
          /\ subs' \in [Clients -> SUBSET Channels]
          /\ SlotsOK(c)' /\ CountOK(c)' /\ OthersStay(c)
      BY <1>0, <2>2, RemoveChannel
    <3> QED BY <1>0, <2>1, <2>2, <3>1, ChannelsOneClient
  <2>3. CASE UNCHANGED <<up, client, subs, sent>>
    BY <1>0, <2>1, <2>3, ChannelsStay DEF client
  <2> QED BY <1>2, <1>5, <2>1, <2>2, <2>3 DEF UNSUBSCRIBE
<1> QED BY <1>1, <1>3, <1>4, <1>5

(* A new connection starts without channels.                               *)
LEMMA ChannelsReconnectInv ==
    ASSUME ChannelsInv, NEW c \in Clients, ChannelsReconnect(c)
    PROVE  ChannelsInv'
<1> USE PubSubAssumption DEF ChannelsReconnect
<1>1. /\ channel_subed' \in [Clients -> [Slots -> Channels \cup {NULL}]]
      /\ channel_count' \in [Clients -> 0 .. MaxChannels]
      /\ subs' \in [Clients -> SUBSET Channels]
      /\ is_subscribed' \in [Clients -> BOOLEAN]
      /\ OthersStay(c)
  BY DEF ChannelsInv, ChannelsTypeOK, OthersStay
<1>2. subs'[c] = {} /\ channel_count'[c] = 0
  BY DEF ChannelsInv, ChannelsTypeOK
<1>3. InUse(c)' = {}
  BY <1>2 DEF InUse
<1>4. SlotsOK(c)'
  BY <1>2, <1>3 DEF SlotsOK
<1>5. CountOK(c)'
  BY <1>2, FS_EmptySet DEF CountOK
<1>6. up' \in BOOLEAN /\ UNCHANGED sent /\ topic' = NULL
  BY DEF ChannelsInv, ChannelsTypeOK
<1> QED BY <1>1, <1>4, <1>5, <1>6, ChannelsOneClient

-----------------------------------------------------------------------------
(* The passwords.                                                          *)

LEMMA AuthInitInv == AuthInit => AuthInv
  BY DEF AuthInit, AuthInv, AuthTypeOK, AuthOK

LEMMA SetUserInv ==
    ASSUME AuthInv, NEW c \in Clients, NEW user \in Users,
           NEW rule \in Passwords \cup {NoPassword}, SETUSER(c, user, rule)
    PROVE  AuthInv'
<1>1. /\ is_auth' = [is_auth EXCEPT ![c] = TRUE]
      /\ setters' = setters \cup {c} /\ admitted' = admitted
      /\ chosen' = IF user = "DEFAULT" /\ rule # NoPassword THEN rule ELSE chosen
      /\ named' = IF rule # NoPassword THEN named \cup {user} ELSE named
  BY DEF SETUSER
<1>2. /\ is_auth' \in [Clients -> BOOLEAN]
      /\ setters' \subseteq Clients /\ admitted' \subseteq Clients
      /\ \A d \in Clients : is_auth'[d] <=> d \in setters' \cup admitted'
  BY <1>1 DEF AuthInv, AuthTypeOK, AuthOK
<1>3. CASE rule = NoPassword
  BY <1>1, <1>2, <1>3 DEF SETUSER, handle_setuser, AuthInv, AuthTypeOK, AuthOK
<1>4. CASE rule # NoPassword
  <2>1. /\ default_has_nopass' = FALSE /\ named' = named \cup {user}
        /\ default_password' = IF user = "DEFAULT" THEN rule ELSE default_password
        /\ chosen' = IF user = "DEFAULT" THEN rule ELSE chosen
    BY <1>1, <1>4 DEF SETUSER, handle_setuser, AuthInv, AuthTypeOK
  <2>2. named' \subseteq Users /\ named' # {}
    BY <2>1 DEF AuthInv, AuthTypeOK
  <2>3. default_password' = chosen' /\ chosen' \in Passwords \cup {NoPassword}
    BY <2>1 DEF AuthInv, AuthTypeOK, AuthOK
  <2>4. "DEFAULT" \notin named' => chosen' = NoPassword /\ admitted' = {}
    BY <1>1, <2>1 DEF AuthInv, AuthOK
  <2>5. default_has_nopass' \in BOOLEAN /\ (default_has_nopass' <=> named' = {})
    BY <2>1, <2>2
  <2> QED BY <1>2, <2>2, <2>3, <2>4, <2>5 DEF AuthInv, AuthTypeOK, AuthOK
<1> QED BY <1>3, <1>4

LEMMA AuthenticateInv ==
    ASSUME AuthInv, NEW c \in Clients, NEW password \in Passwords, AUTH(c, password)
    PROVE  AuthInv'
<1>1. UNCHANGED <<default_has_nopass, default_password, chosen, named, setters>>
  BY DEF AUTH
<1>2. CASE default_password = password
  <2>1. /\ is_auth' = [is_auth EXCEPT ![c] = TRUE] /\ admitted' = admitted \cup {c}
        /\ "DEFAULT" \in named
    BY <1>2, SessionsAssumption DEF AUTH, AuthInv, AuthOK
  <2> QED BY <1>1, <2>1 DEF AuthInv, AuthTypeOK, AuthOK
<1>3. CASE default_password # password
  <2>1. UNCHANGED <<is_auth, admitted>>
    BY <1>3 DEF AUTH, AuthInv, AuthOK
  <2> QED BY <1>1, <2>1 DEF AuthInv, AuthTypeOK, AuthOK
<1> QED BY <1>2, <1>3

LEMMA AuthReconnectInv ==
    ASSUME AuthInv, NEW c \in Clients, AuthReconnect(c)
    PROVE  AuthInv'
  BY DEF AuthReconnect, AuthInv, AuthTypeOK, AuthOK

-----------------------------------------------------------------------------
LEMMA StepIInv == IInv /\ [Next]_vars => IInv'
<1> SUFFICES ASSUME IInv, [Next]_vars PROVE IInv'
  OBVIOUS
<1>0. ChannelsInv /\ AuthInv
  BY DEF IInv
<1>1. CASE UNCHANGED channelVars
  <2>1. /\ UNCHANGED <<channel_subed, channel_count, subs, sent>> /\ topic' = topic
        /\ up' \in BOOLEAN /\ is_subscribed' \in [Clients -> BOOLEAN]
    BY <1>0, <1>1 DEF channelVars, ChannelsInv, ChannelsTypeOK
  <2>2. ChannelsInv'
    BY <1>0, <2>1, ChannelsStay
  <2>3. CASE UNCHANGED authVars
    BY <1>0, <2>2, <2>3 DEF authVars, IInv, AuthInv, AuthTypeOK, AuthOK
  <2>4. ASSUME NEW c \in Clients, AuthStep(c) PROVE IInv'
    BY <1>0, <2>2, <2>4, SetUserInv, AuthenticateInv DEF AuthStep, IInv
  <2>5. ASSUME NEW c \in Clients, AuthReconnect(c) PROVE IInv'
    BY <1>0, <2>2, <2>5, AuthReconnectInv DEF IInv
  <2>6. ASSUME NEW c \in Clients, Channel(c) PROVE IInv'
    BY <2>3, <2>6 DEF Channel
  <2> QED BY <2>3, <2>4, <2>5, <2>6 DEF Next, vars, Authenticate, Reconnect
<1>2. ASSUME NEW c \in Clients, Channel(c) PROVE IInv'
  <2>1. ChannelsInv'
    BY <1>0, <1>2, ChannelStepInv DEF Channel
  <2> QED BY <1>0, <1>2, <2>1 DEF Channel, authVars, IInv, AuthInv, AuthTypeOK, AuthOK
<1>3. ASSUME NEW c \in Clients, Reconnect(c) PROVE IInv'
  BY <1>0, <1>3, ChannelsReconnectInv, AuthReconnectInv DEF Reconnect, IInv
<1> QED BY <1>1, <1>2, <1>3 DEF Next, vars, Authenticate

(* The inductive invariant holds in every reachable state.                 *)
THEOREM Invariance == Spec => []IInv
<1>1. Init => IInv
  BY ChannelsInitInv, AuthInitInv DEF Init, IInv
<1> QED BY <1>1, StepIInv, PTL DEF Spec

(* Every reachable state is type correct: channel_count stays within       *)
(* channel_subed, whatever is subscribed and unsubscribed.                 *)
THEOREM TypeCorrect == Spec => []TypeOK
<1>1. IInv => TypeOK
  BY DEF IInv, ChannelsInv, AuthInv, TypeOK
<1> QED BY <1>1, Invariance, PTL

(* The number in the replies of SUBSCRIBE and UNSUBSCRIBE is the number of *)
(* channels the client is subscribed to.                                   *)
THEOREM CountCorrect == Spec => []CountIsSubscriptions
<1>1. IInv => CountIsSubscriptions
  BY DEF IInv, ChannelsInv, CountOK, CountIsSubscriptions
<1> QED BY <1>1, Invariance, PTL

(* A PUBLISH that is answered has reached every subscriber once and nobody *)
(* else.                                                                   *)
THEOREM DeliveredOnce == Spec => []EachSubscriberOnce
<1>1. IInv => EachSubscriberOnce
  BY DEF IInv, ChannelsInv
<1> QED BY <1>1, Invariance, PTL

(* WHOAMI names the default user to everybody until a SETUSER of any user  *)
(* is accepted, and then exactly to the clients that sent a SETUSER or the *)
(* password last set for the default user on their connection.             *)
THEOREM KnownClients == Spec => []KnownAsDefault
<1>1. IInv => KnownAsDefault
  BY DEF IInv, AuthInv, AuthTypeOK, AuthOK, KnownAsDefault, WHOAMI
<1> QED BY <1>1, Invariance, PTL
=============================================================================
