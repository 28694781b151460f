---------------------------- MODULE MCHandshake ----------------------------
(* Three servers: a chain, a cycle of two that a third waits for, a pair   *)
(* beside a server that is its own master, and a cycle of three.           *)
EXTENDS Handshake, TLC

CONSTANTS s1, s2, s3

ThreeServers == {s1, s2, s3}

Graph(a, b, c) == s1 :> a @@ s2 :> b @@ s3 :> c

FourGraphs ==
    {Graph(NULL, s1, s2), Graph(s2, s1, s2), Graph(NULL, s1, s3), Graph(s2, s3, s1)}
=============================================================================
