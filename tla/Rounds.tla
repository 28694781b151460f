------------------------------- MODULE Rounds -------------------------------
(***************************************************************************)
(* What the server loop promises, without a table or a cursor: in every    *)
(* round it picks some of the open connections and serves each of them     *)
(* once, in some order; a connection may be closed only while it is being  *)
(* served; there are places for Capacity connections, and one more is      *)
(* turned away only when every place is taken.                             *)
(***************************************************************************)
EXTENDS Integers

CONSTANTS Conns, Capacity

VARIABLES
    open,    \* accepted connections
    places,  \* places left for more
    todo,    \* connections of this round still to be served
    served,  \* connections this round has served
    waiting  \* connections waiting to be accepted

rvars == <<open, places, todo, served, waiting>>

\* A replica starts with the connection to its master already open.
RoundsInit ==
    /\ \/ open = {} /\ places = Capacity
       \/ \E m \in Conns : open = {m} /\ places = Capacity - 1
    /\ todo = {}
    /\ served = {}
    /\ waiting = {}

Arrive(c) ==
    /\ c \notin open \cup waiting
    /\ waiting' = waiting \cup {c}
    /\ UNCHANGED <<open, places, todo, served>>

\* A round starts only when the one before has served all it had to.
StartRound ==
    /\ todo = {}
    /\ todo' \in SUBSET open
    /\ served' = {}
    /\ UNCHANGED <<open, places, waiting>>

Admit(c) ==
    /\ c \in waiting
    /\ places > 0
    /\ open' = open \cup {c}
    /\ places' = places - 1
    /\ waiting' = waiting \ {c}
    /\ UNCHANGED <<todo, served>>

TurnAway(c) ==
    /\ c \in waiting
    /\ places = 0
    /\ waiting' = waiting \ {c}
    /\ UNCHANGED <<open, places, todo, served>>

Serve(c) ==
    /\ c \in todo
    /\ todo' = todo \ {c}
    /\ served' = served \cup {c}
    /\ \/ UNCHANGED <<open, places>>
       \/ open' = open \ {c} /\ places' = places + 1
    /\ UNCHANGED waiting

RoundsNext ==
    \/ StartRound
    \/ \E c \in Conns : Arrive(c) \/ Admit(c) \/ TurnAway(c) \/ Serve(c)

RoundsSpec == RoundsInit /\ [][RoundsNext]_rvars
=============================================================================
