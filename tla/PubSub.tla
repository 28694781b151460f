------------------------------- MODULE PubSub -------------------------------
(***************************************************************************)
(* SUBSCRIBE, PUBLISH and UNSUBSCRIBE (channels_handler.c) and the gate in *)
(* handle() that keeps a subscribed client from other commands.            *)
(*                                                                         *)
(* The channels of a client are the first channel_count slots of an array. *)
(* UNSUBSCRIBE sets the slot it finds to NULL and lowers the count; it     *)
(* does not move the slots behind.  strcmp() of a NULL slot ends the       *)
(* process.  A SUBSCRIBE of several channels is that many in a row.        *)
(***************************************************************************)
EXTENDS Integers, FiniteSets, FiniteSetsExt

CONSTANTS
    Clients, Channels,
    MaxChannels,   \* size of channel_subed (64 in the code)
    NULL

ASSUME PubSubAssumption ==
    /\ MaxChannels \in Nat \ {0}
    /\ NULL \notin Channels

VARIABLES
    up,             \* FALSE once the process has died
    is_subscribed, channel_subed, channel_count,   \* of Client
    subs,           \* history: channels subscribed to and not unsubscribed from
    sent,           \* history: copies each client got of the last message
    topic           \* history: its channel, NULL when the last command was another

client == <<is_subscribed, channel_subed, channel_count>>
channelVars == <<up, is_subscribed, channel_subed, channel_count, subs, sent, topic>>

Slots == 0 .. MaxChannels - 1

ChannelsInit ==
    /\ up = TRUE
    /\ is_subscribed = [c \in Clients |-> FALSE]
    /\ channel_subed = [c \in Clients |-> [j \in Slots |-> NULL]]
    /\ channel_count = [c \in Clients |-> 0]
    /\ subs = [c \in Clients |-> {}]
    /\ sent = [c \in Clients |-> 0]
    /\ topic = NULL

-----------------------------------------------------------------------------
InUse(c) == 0 .. channel_count[c] - 1

\* The slots in use that hold the channel.
Found(c, ch) == {j \in InUse(c) : channel_subed[c][j] = ch}

\* strcmp() of all these slots returns.
Readable(c, S) == \A j \in S : channel_subed[c][j] # NULL

\* Mutant: off by one.
FullLate(c) == channel_count[c] > MaxChannels

Full(c) == channel_count[c] >= MaxChannels

\* Mutant: a channel is added although the client has it.
NeverAlready(c, ch) == FALSE

Already(c, ch) == Found(c, ch) # {}

\* The slots SUBSCRIBE compares: up to the first that holds the channel.
Searched(c, ch) ==
    IF Found(c, ch) = {} THEN InUse(c) ELSE 0 .. Min(Found(c, ch))

\* The process dies, and with it everything the clients had.
Crash ==
    /\ up' = FALSE
    /\ UNCHANGED <<client, subs, sent>>

SUBSCRIBE(c, ch) ==
    /\ up
    /\ topic' = NULL
    /\ \/ /\ ~Full(c) /\ ~Readable(c, Searched(c, ch))
          /\ Crash
       \/ /\ ~Full(c) /\ Readable(c, Searched(c, ch)) /\ ~Already(c, ch)
          /\ channel_subed' = [channel_subed EXCEPT ![c][channel_count[c]] = ch]
          /\ channel_count' = [channel_count EXCEPT ![c] = @ + 1]
          /\ subs' = [subs EXCEPT ![c] = @ \cup {ch}]
          /\ is_subscribed' = [is_subscribed EXCEPT ![c] = TRUE]
          /\ UNCHANGED <<up, sent>>
       \/ /\ Full(c) \/ (Readable(c, Searched(c, ch)) /\ Already(c, ch))
          /\ is_subscribed' = [is_subscribed EXCEPT ![c] = TRUE]
          /\ UNCHANGED <<up, channel_subed, channel_count, subs, sent>>

\* Mutant: the last slot in use is not looked at.
CopiesShort(c, ch) == Cardinality(Found(c, ch) \ {channel_count[c] - 1})

Copies(c, ch) == Cardinality(Found(c, ch))

\* p publishes; a subscribed client is refused before this.
PUBLISH(p, ch) ==
    /\ up
    /\ ~is_subscribed[p]
    /\ \/ /\ \E c \in Clients : ~Readable(c, InUse(c))
          /\ Crash
          /\ topic' = NULL
       \/ /\ \A c \in Clients : Readable(c, InUse(c))
          /\ sent' = [c \in Clients |-> Copies(c, ch)]
          /\ topic' = ch
          /\ UNCHANGED <<up, client, subs>>

\* The slots UNSUBSCRIBE compares: the loop goes on after the slot it clears,
\* up to the lowered count.
Walked(c, ch) ==
    IF Found(c, ch) = {} THEN InUse(c)
    ELSE 0 .. Max({channel_count[c] - 2, Min(Found(c, ch))})

UNSUBSCRIBE(c, ch) ==
    /\ up
    /\ topic' = NULL
    /\ \/ /\ ~Readable(c, Walked(c, ch))
          /\ Crash
       \/ /\ Readable(c, Walked(c, ch)) /\ Found(c, ch) # {}
          /\ channel_subed' = [channel_subed EXCEPT ![c][Min(Found(c, ch))] = NULL]
          /\ channel_count' = [channel_count EXCEPT ![c] = @ - 1]
          /\ subs' = [subs EXCEPT ![c] = @ \ {ch}]
          /\ UNCHANGED <<up, is_subscribed, sent>>
       \/ /\ Readable(c, Walked(c, ch)) /\ Found(c, ch) = {}
          /\ UNCHANGED <<up, client, subs, sent>>

\* The client goes away and a new one gets a zeroed object.
ChannelsReconnect(c) ==
    /\ up
    /\ is_subscribed' = [is_subscribed EXCEPT ![c] = FALSE]
    /\ channel_subed' = [channel_subed EXCEPT ![c] = [j \in Slots |-> NULL]]
    /\ channel_count' = [channel_count EXCEPT ![c] = 0]
    /\ subs' = [subs EXCEPT ![c] = {}]
    /\ topic' = NULL
    /\ UNCHANGED <<up, sent>>

ChannelStep(c) ==
    \E ch \in Channels : SUBSCRIBE(c, ch) \/ PUBLISH(c, ch) \/ UNSUBSCRIBE(c, ch)

-----------------------------------------------------------------------------
(* The fields of Client have their types; channel_count stays within the   *)
(* array.                                                                  *)
ChannelsTypeOK ==
    /\ up \in BOOLEAN
    /\ is_subscribed \in [Clients -> BOOLEAN]
    /\ channel_subed \in [Clients -> [Slots -> Channels \cup {NULL}]]
    /\ channel_count \in [Clients -> 0 .. MaxChannels]
    /\ subs \in [Clients -> SUBSET Channels]
    /\ sent \in [Clients -> Nat]
    /\ topic \in Channels \cup {NULL}

(* The number SUBSCRIBE and UNSUBSCRIBE report is the number of channels   *)
(* the client is subscribed to, after any sequence of both.                *)
CountIsSubscriptions ==
    \A c \in Clients : channel_count[c] = Cardinality(subs[c])

(* A PUBLISH that is answered has reached every subscriber of the channel  *)
(* once and nobody else, whatever was subscribed and unsubscribed before.  *)
EachSubscriberOnce ==
    topic # NULL => \A c \in Clients : sent[c] = (IF topic \in subs[c] THEN 1 ELSE 0)

(* UNSUBSCRIBE is among the commands "implemented": leaving a channel      *)
(* leaves the server able to serve the client's other channels.            *)
StaysUp == up
=============================================================================
