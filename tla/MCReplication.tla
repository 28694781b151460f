--------------------------- MODULE MCReplication ---------------------------
(* Small instances of Replication.                                         *)
EXTENDS Replication

CONSTANTS c1, c2, r1

TwoClients == {c1, c2}
OneClient == {c1}
OneReplica == {r1}
=============================================================================
