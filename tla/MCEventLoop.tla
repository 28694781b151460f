---------------------------- MODULE MCEventLoop ----------------------------
(* Instance of EventLoop for TLC; no symmetry, since the run is temporal.  *)
EXTENDS EventLoop

CONSTANTS c1, c2, c3

MCConns == {c1, c2, c3}
=============================================================================
