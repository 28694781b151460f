--------------------------- MODULE MCPersistence ---------------------------
(* A counter, a list and a stream in one bucket; a sorted set in the       *)
(* bucket of a string that the RDB file holds.                             *)
EXTENDS Persistence, TLC

Cmd(name, key, arg, ttl) == [name |-> name, key |-> key, arg |-> arg, ttl |-> ttl]

FiveKeys == {"n", "l", "x", "s", "z"}
TwoBuckets == {0, 1}
Hash == [n |-> 0, l |-> 0, x |-> 0, s |-> 1, z |-> 1]

\* Of XADD: "0-*" and "*".
ClientCmds ==
    {Cmd("SET", "n", 5, 1), Cmd("INCR", "n", 0, -1),
     Cmd("RPUSH", "l", 7, -1), Cmd("BLPOP", "l", 0, -1),
     Cmd("XADD", "x", -2, -1), Cmd("XADD", "x", Word, -1),
     Cmd("ZADD", "z", 9, -1), Cmd("GEOSEARCH", "z", 0, -1)}

RdbFile ==
    <<[key |-> "s", type |-> "string", value |-> <<3>>, expires_at |-> -1],
      [key |-> "z", type |-> "hash", value |-> <<4>>, expires_at |-> -1]>>
=============================================================================
