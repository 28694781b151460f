----------------------------- MODULE MCSessions -----------------------------
(* Two clients, four channels, arrays of three slots, so that they fill,   *)
(* and two passwords.                                                      *)
EXTENDS Sessions, TLC

CONSTANTS c1, c2, a, b, d, e, p, q

TwoClients == {c1, c2}
FourChannels == {a, b, d, e}
TwoPasswords == {p, q}
Symmetry ==
    Permutations(TwoClients) \cup Permutations(FourChannels) \cup Permutations(TwoPasswords)
=============================================================================
