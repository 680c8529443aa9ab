----------------------------- MODULE RedisList -----------------------------
(***************************************************************************)
(* The Redis list commands the writer and its producers use, as pure       *)
(* operators on sequences.  Index 1 is the left end of the list, so LPUSH  *)
(* puts a message at index 1 and RPOP takes the last one.  Redis executes  *)
(* each command atomically; what is not atomic is a handler that issues    *)
(* two of them with an await in between.                                   *)
(***************************************************************************)
EXTENDS Naturals, Sequences, FiniteSets

LPush(list, m) == <<m>> \o list

RPush(list, m) == Append(list, m)

\* What RPOP returns, and what it leaves.
RightEnd(list) == list[Len(list)]
WithoutRightEnd(list) == SubSeq(list, 1, Len(list) - 1)

Has(list, m) == \E i \in 1..Len(list) : list[i] = m

\* LREM key 1 m: removes the leftmost occurrence of m, if there is one.
LRem(list, m) ==
    IF Has(list, m)
    THEN LET i == CHOOSE i \in 1..Len(list) :
                     list[i] = m /\ \A j \in 1..(i - 1) : list[j] # m
         IN  SubSeq(list, 1, i - 1) \o SubSeq(list, i + 1, Len(list))
    ELSE list

Occurrences(list, m) == Cardinality({i \in 1..Len(list) : list[i] = m})
=============================================================================
