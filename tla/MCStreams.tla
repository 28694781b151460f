----------------------------- MODULE MCStreams -----------------------------
(* Instances of Streams for TLC.                                           *)
EXTENDS Streams

CONSTANTS r1, r2, k1

MCReaders == {r1, r2}
MCKeys == {k1}
MCIds == {<<0, 0>>, <<1, 1>>, <<3, 2>>}
\* Above one explicit ID and below the other.
MCPartialMs == {2}
MCTimeouts == {0, 1}
=============================================================================
