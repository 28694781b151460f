--------------------------- MODULE MCTransactions ---------------------------
(* Instances of Transactions for TLC: the two keys share a bucket.         *)
EXTENDS Transactions, TLC

CONSTANTS c1, c2, k1, k2, b1

MCClients == {c1, c2}
MCKeys == {k1, k2}
MCBuckets == {b1}
MChash == [k \in MCKeys |-> b1]
MCSymmetry == Permutations(MCClients) \cup Permutations(MCKeys)
=============================================================================
