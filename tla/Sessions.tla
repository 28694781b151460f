------------------------------ MODULE Sessions ------------------------------
(***************************************************************************)
(* What a client is to the server between two commands: its channels       *)
(* (PubSub) and whether it is known (Auth).  The two meet in handle(),     *)
(* which refuses AUTH and ACL to a subscribed client, and in the loop,     *)
(* which gives a new connection a zeroed Client.                           *)
(***************************************************************************)
EXTENDS PubSub

CONSTANTS Passwords, NoPassword     \* see Auth

ASSUME SessionsAssumption == NoPassword \notin Passwords

VARIABLES
    default_has_nopass, default_password, is_auth,
    chosen, named, setters, admitted

INSTANCE Auth

authVars ==
    <<default_has_nopass, default_password, is_auth, chosen, named, setters, admitted>>
vars == <<channelVars, authVars>>

Init == ChannelsInit /\ AuthInit

\* handle() of AUTH and ACL: the gate for subscribed clients comes first.
Authenticate(c) ==
    /\ up
    /\ ~is_subscribed[c]
    /\ AuthStep(c)
    /\ UNCHANGED channelVars

Channel(c) == ChannelStep(c) /\ UNCHANGED authVars

Reconnect(c) == ChannelsReconnect(c) /\ AuthReconnect(c)

Next == \E c \in Clients : Authenticate(c) \/ Channel(c) \/ Reconnect(c)

Spec == Init /\ [][Next]_vars

(* The fields of Client and of the server's user have their types;         *)
(* channel_count stays within the array.                                   *)
TypeOK == ChannelsTypeOK /\ AuthTypeOK
=============================================================================
