------------------------------ MODULE MCLists ------------------------------
(* Instances of Lists for TLC.                                             *)
EXTENDS Lists

CONSTANTS c1, c2, k1, k2

\* A client that blocks still runs the rest of its buffer, so two clients are
\* enough for a push that finds two waiting.
MCClients == {c1, c2}
MCKeys == {k1, k2}
MCTimeouts == {0, 1}
=============================================================================
