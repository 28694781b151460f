------------------------------ MODULE Commands ------------------------------
(***************************************************************************)
(* The tables that say what a command is: the names findRedisCmd reads     *)
(* (parser.c), the names cmd_to_string writes and the commands isWriteCmd  *)
(* passes to replicas (utils.c), and the commands after which handle()     *)
(* appends to the append-only file (handler.c).  The four are kept by hand *)
(* and do not agree: what one table lacks is lost by whoever relies on it. *)
(***************************************************************************)

UtilityCmds ==
    {"ECHO", "PING", "INFO", "REPLCONF", "WAIT", "PSYNC", "KEYS", "AUTH",
     "SELECT", "COMMAND", "ACL"}

CoreCmds ==
    {"SET", "GET", "DEL", "EXISTS", "EXPIRE", "TTL", "TYPE",
     "INCR", "DECR", "APPEND", "STRLEN", "MGET"}

TransactionCmds == {"MULTI", "EXEC", "DISCARD", "WATCH", "UNWATCH"}

ListCmds == {"LPUSH", "RPUSH", "LPOP", "RPOP", "LLEN", "LRANGE", "BLPOP"}

HashAndSetCmds ==
    {"HSET", "HGET", "HGETALL", "HDEL", "SADD", "SREM", "SMEMBERS", "SISMEMBER"}

StreamCmds == {"XADD", "XREAD", "XRANGE", "XGROUP"}

SortedSetCmds ==
    {"ZADD", "ZRANK", "ZRANGE", "ZCARD", "ZSCORE", "ZREM",
     "GEOADD", "GEOPOS", "GEODIST", "GEOSEARCH"}

ChannelCmds == {"SUBSCRIBE", "PUBLISH", "UNSUBSCRIBE"}

RedisCmds ==
    UNION {UtilityCmds, CoreCmds, TransactionCmds, ListCmds, HashAndSetCmds,
           StreamCmds, SortedSetCmds, ChannelCmds}

\* The command a name stands for.
findRedisCmd(name) == IF name \in RedisCmds THEN name ELSE "UNKNOWN"

\* The name of a command; the switch was not extended with the commands.
cmd_to_string(cmd) ==
    IF \/ cmd \in SortedSetCmds
       \/ cmd \in {"KEYS", "ACL", "UNWATCH", "BLPOP", "PUBLISH", "UNSUBSCRIBE"}
    THEN "UNKNOWN"
    ELSE cmd

\* Mutant: INCR is not in the list.
isWriteCmdNoIncr(cmd) ==
    cmd \in {"SET", "DEL", "APPEND", "EXPIRE", "DECR", "XADD", "SADD", "SREM",
             "HSET", "HDEL", "LPUSH", "RPUSH", "LPOP", "RPOP"}

isWriteCmd(cmd) ==
    cmd \in {"SET", "DEL", "APPEND", "EXPIRE", "INCR", "DECR", "XADD", "SADD",
             "SREM", "HSET", "HDEL", "LPUSH", "RPUSH", "LPOP", "RPOP"}

\* handle() calls write_to_file after these.
Logged(cmd) ==
    cmd \in {"SET", "DEL", "INCR", "DECR", "APPEND", "LPUSH", "RPUSH", "LPOP",
             "RPOP", "HSET", "HDEL", "ZADD", "ZREM", "GEOADD", "XADD"}
=============================================================================
