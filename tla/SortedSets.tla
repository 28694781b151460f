----------------------------- MODULE SortedSets -----------------------------
(***************************************************************************)
(* The sorted set at one key (set_handler.c): a linked list in the order   *)
(* of the scores and, for equal scores, of the members, with its length    *)
(* kept apart.  A member is a number that gives its place in strcmp order, *)
(* a score is an integer; atof() never yields NaN here.                    *)
(*                                                                         *)
(* ZADD and ZREM take several members, which may repeat.  A place of       *)
(* GEOADD is a number whose score is geo_encode[p]; only the places in     *)
(* Valid pass validate_geoadd.  The key is not used for another type.      *)
(***************************************************************************)
EXTENDS Integers, Sequences, FiniteSets, SequencesExt

CONSTANTS
    Members, Scores,
    Places, Valid, geo_encode,
    MaxArgs,    \* bound: members of one command
    Nil         \* a NULL pointer, and the answer for a member that is not there

ZSetEntry == [member : Members, score : Scores]
ZSet == [head : Seq(ZSetEntry), length : Nat]

ASSUME SortedSetsAssumption ==
    /\ Members \subseteq Nat /\ Scores \subseteq Int
    /\ Valid \subseteq Places /\ geo_encode \in [Places -> Scores]
    /\ MaxArgs \in Nat
    /\ Nil \notin Int /\ Nil \notin ZSet

VARIABLES
    zset,    \* the ZSet, Nil while there is no entry
    score    \* history: the score each member was last given, or Nil

zsetVars == <<zset, score>>

Given == {m \in Members : score[m] # Nil}

ZSetInit ==
    /\ zset = Nil
    /\ score = [m \in Members |-> Nil]

-----------------------------------------------------------------------------
(* The linked list.                                                        *)

Has(z, m) == \E n \in 1 .. Len(z.head) : z.head[n].member = m

\* Mutant: the node found is not unlinked.
zset_remove_counts(z, m) ==
    IF Has(z, m) THEN [z EXCEPT !.length = @ - 1] ELSE z

zset_remove(z, m) ==
    IF Has(z, m)
    THEN [head |-> RemoveFirstMatch(z.head, LAMBDA e : e.member = m),
          length |-> z.length - 1]
    ELSE z

\* Node e comes before a member m with score s.
Before(e, s, m) ==
    \/ e.score < s
    \/ e.score = s /\ e.member < m

\* The new node goes in front of the first node that does not come before it.
zset_add(z, s, m) ==
    LET at == SelectInSeq(z.head, LAMBDA e : ~Before(e, s, m))
        node == [member |-> m, score |-> s]
    IN  [head |-> IF at = 0 THEN Append(z.head, node) ELSE InsertAt(z.head, at, node),
         length |-> z.length + 1]

\* The set a command works on; an entry is made when there is none.
Opened == IF zset = Nil THEN [head |-> <<>>, length |-> 0] ELSE zset

-----------------------------------------------------------------------------
(* Commands.  pairs is the sequence of <<score, member>> of the command.   *)

\* Each pair is one turn of the loop: the member is removed and added again.
AddPairs(z, pairs) ==
    LET after[n \in 0 .. Len(pairs)] ==
          IF n = 0 THEN z
          ELSE zset_add(zset_remove(after[n - 1], pairs[n][2]), pairs[n][1], pairs[n][2])
    IN  after[Len(pairs)]

RemoveMembers(z, ms) ==
    LET after[n \in 0 .. Len(ms)] == IF n = 0 THEN z ELSE zset_remove(after[n - 1], ms[n])
    IN  after[Len(ms)]

LastScore(pairs, m) ==
    LET N == {n \in 1 .. Len(pairs) : pairs[n][2] = m}
    IN  IF N = {} THEN score[m] ELSE pairs[CHOOSE n \in N : \A j \in N : j <= n][1]

ZADD(pairs) ==
    /\ pairs # <<>>
    /\ zset' = AddPairs(Opened, pairs)
    /\ score' = [m \in Members |-> LastScore(pairs, m)]

\* Every place is validated before the first is added.
GEOADD(places) ==
    /\ \A n \in 1 .. Len(places) : places[n][1] \in Valid
    /\ ZADD([n \in 1 .. Len(places) |-> <<geo_encode[places[n][1]], places[n][2]>>])

ZREM(ms) ==
    /\ zset # Nil
    /\ ms # <<>>
    /\ zset' = RemoveMembers(zset, ms)
    /\ score' = [m \in Members |-> IF Contains(ms, m) THEN Nil ELSE score[m]]

\* GEOSEARCH of a missing key leaves an empty set behind.
GEOSEARCH ==
    /\ zset' = Opened
    /\ UNCHANGED score

ZSetNext ==
    \/ \E n \in 1 .. MaxArgs :
          \/ \E pairs \in [1 .. n -> Scores \X Members] : ZADD(pairs)
          \/ \E places \in [1 .. n -> Places \X Members] : GEOADD(places)
          \/ \E ms \in [1 .. n -> Members] : ZREM(ms)
    \/ GEOSEARCH

ZSetSpec == ZSetInit /\ [][ZSetNext]_zsetVars

-----------------------------------------------------------------------------
(* What the reading commands answer.                                       *)

\* The position of m in the list, walked over length nodes at most.
ZRANK(m) ==
    LET at == SelectInSeq(SubSeq(zset.head, 1, zset.length), LAMBDA e : e.member = m)
    IN  IF at = 0 THEN Nil ELSE at - 1

ZSCORE(m) == IF ZRANK(m) = Nil THEN Nil ELSE zset.head[ZRANK(m) + 1].score

ZCARD == IF zset = Nil THEN 0 ELSE zset.length

\* Mutant: the end of a range is exclusive when it is past the last member.
LastIndexShort(end, n) ==
    LET e == IF end < 0 THEN end + n ELSE end IN IF e >= n THEN n - 2 ELSE e

FirstIndex(start, n) ==
    LET s == IF start < 0 THEN start + n ELSE start IN IF s < 0 THEN 0 ELSE s

LastIndex(end, n) ==
    LET e == IF end < 0 THEN end + n ELSE end IN IF e >= n THEN n - 1 ELSE e

ZRANGE(start, end) ==
    LET n == zset.length
        from == FirstIndex(start, n)
        to == LastIndex(end, n)
    IN  IF from > to \/ from >= n THEN <<>>
        ELSE [j \in 1 .. to - from + 1 |-> zset.head[from + j].member]

-----------------------------------------------------------------------------
Less(m, n) == score[m] < score[n] \/ (score[m] = score[n] /\ m < n)
RankOf(m) == Cardinality({n \in Given : Less(n, m)})

(* The nodes have members and scores.  After any sequence of commands a    *)
(* member is in the list with the last score it was given, and only if it  *)
(* was not removed since; the separate length counts those members.        *)
HoldsLastScores ==
    /\ zset # Nil => zset \in ZSet
    /\ ZCARD = Cardinality(Given)
    /\ zset # Nil => \A m \in Members : ZSCORE(m) = score[m]

(* ZRANK is the number of members with a smaller score, or with the same   *)
(* score and a smaller name: updates in place keep the list in order.  And *)
(* ZRANGE answers exactly the members whose rank lies in the range, in     *)
(* order, with negative indices counted from the end: also for ranges that *)
(* are empty, reversed or beyond either end.                               *)
RanksAndRanges ==
    LET n == Cardinality(Given)
        Abs(i) == IF i < 0 THEN i + n ELSE i
    IN  zset # Nil =>
          /\ \A m \in Given : ZRANK(m) = RankOf(m)
          /\ \A start, end \in -(n + 2) .. n + 2 :
                LET r == ZRANGE(start, end)
                    wanted == {m \in Given : Abs(start) <= RankOf(m) /\ RankOf(m) <= Abs(end)}
                IN  /\ Range(r) = wanted
                    /\ \A i, j \in DOMAIN r : i < j => RankOf(r[i]) < RankOf(r[j])
=============================================================================
