-------------------------------- MODULE Auth --------------------------------
(***************************************************************************)
(* AUTH and ACL (auth_handler.c): one user, "default", whose password is   *)
(* kept as its hash, and a flag of each client that WHOAMI reports.  The   *)
(* hash of a password is the password here: sha256_hex tells any two of    *)
(* them apart, and gives none the empty string the buffer starts with.     *)
(***************************************************************************)
CONSTANTS
    Clients,
    Passwords,
    NoPassword     \* the empty default_password, not one of Passwords

VARIABLES
    default_has_nopass, default_password,   \* of the server
    is_auth,                                \* of Client
    chosen,        \* history: the password last set for the default user
    named,         \* history: users for whom a SETUSER was not refused
    setters,       \* history: clients that sent any SETUSER on their connection
    admitted       \* history: clients that gave the chosen password on it

AuthInit ==
    /\ default_has_nopass = TRUE
    /\ default_password = NoPassword
    /\ is_auth = [c \in Clients |-> FALSE]
    /\ chosen = NoPassword
    /\ named = {}
    /\ setters = {}
    /\ admitted = {}

Users == {"DEFAULT", "OTHER"}

\* Mutant: the password is stored whoever it is for.
handle_setuser_any(user, rule) ==
    IF rule = NoPassword THEN UNCHANGED <<default_has_nopass, default_password>>
    ELSE default_has_nopass' = FALSE /\ default_password' = rule

\* The rule is ">" and a password; NoPassword stands for any other, which is
\* refused.  An accepted one takes nopass from the default user whichever user
\* it is for, but the password of another user is dropped, without a reply.
handle_setuser(user, rule) ==
    IF rule = NoPassword THEN UNCHANGED <<default_has_nopass, default_password>>
    ELSE /\ default_has_nopass' = FALSE
         /\ default_password' = IF user = "DEFAULT" THEN rule ELSE default_password

\* handle_acl lets the client in also when the rule was refused.
SETUSER(c, user, rule) ==
    /\ handle_setuser(user, rule)
    /\ is_auth' = [is_auth EXCEPT ![c] = TRUE]
    /\ setters' = setters \cup {c}
    /\ chosen' = IF user = "DEFAULT" /\ rule # NoPassword THEN rule ELSE chosen
    /\ named' = IF rule # NoPassword THEN named \cup {user} ELSE named
    /\ UNCHANGED admitted

\* The user name of AUTH is not looked at; a wrong password leaves the client
\* as it was.
AUTH(c, password) ==
    /\ \/ /\ default_password = password
          /\ is_auth' = [is_auth EXCEPT ![c] = TRUE]
       \/ /\ default_password # password
          /\ UNCHANGED is_auth
    /\ admitted' = IF chosen = password THEN admitted \cup {c} ELSE admitted
    /\ UNCHANGED <<default_has_nopass, default_password, chosen, named, setters>>

\* Does WHOAMI answer with the user's name?
WHOAMI(c) == is_auth[c] \/ default_has_nopass

\* A client that connects gets a zeroed object.
AuthReconnect(c) ==
    /\ is_auth' = [is_auth EXCEPT ![c] = FALSE]
    /\ setters' = setters \ {c}
    /\ admitted' = admitted \ {c}
    /\ UNCHANGED <<default_has_nopass, default_password, chosen, named>>

AuthStep(c) ==
    \/ \E user \in Users, rule \in Passwords \cup {NoPassword} :
          SETUSER(c, user, rule)
    \/ \E password \in Passwords : AUTH(c, password)

-----------------------------------------------------------------------------
AuthTypeOK ==
    /\ default_has_nopass \in BOOLEAN
    /\ default_password \in Passwords \cup {NoPassword}
    /\ is_auth \in [Clients -> BOOLEAN]
    /\ chosen \in Passwords \cup {NoPassword}
    /\ named \subseteq Users
    /\ setters \subseteq Clients
    /\ admitted \subseteq Clients

(* Whom WHOAMI knows, from what the clients have sent.  Until a SETUSER of *)
(* any user is accepted (auth_handler.c:44) everybody is known.  From then *)
(* on, for ever, a client is known only for what it sent itself on its     *)
(* present connection: a SETUSER, even one that was refused, since         *)
(* handle_acl sets is_auth whatever handle_setuser did (line 72), or an    *)
(* AUTH with the password that was last set for the default user when it   *)
(* was sent.  Nobody is let in by a password while only other users were   *)
(* named: their SETUSER shuts everyone out and stores no password that     *)
(* would let anyone in again.  A later change of the password puts nobody  *)
(* out.                                                                    *)
KnownAsDefault ==
    /\ \A c \in Clients : WHOAMI(c) <=> named = {} \/ c \in setters \cup admitted
    /\ "DEFAULT" \notin named => admitted = {}
=============================================================================
