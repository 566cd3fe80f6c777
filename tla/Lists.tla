------------------------------- MODULE Lists -------------------------------
(* What the code does with its lists: filter, sort by time, sum.  (SelectSeq, *)
(* SetToSortSeq and MapThenSumSet, in forms that can be reasoned about.)      *)
EXTENDS Integers, Sequences, FiniteSets

\* What of a list is in keep, in order.
Filtered(q, keep) ==
    LET upTo[n \in 0..Len(q)] ==
          IF n = 0 THEN <<>>
          ELSE IF q[n] \in keep THEN Append(upTo[n - 1], q[n]) ELSE upTo[n - 1]
    IN  upTo[Len(q)]

\* Samples of different times, oldest first: the i-th one has i - 1 before it.
ByTime(samples) ==
    [i \in 1..Cardinality(samples) |->
       CHOOSE s \in samples : Cardinality({r \in samples : r.at < s.at}) = i - 1]

Total(q) ==
    LET sum[i \in 0..Len(q)] == IF i = 0 THEN 0 ELSE sum[i - 1] + q[i]
    IN  sum[Len(q)]
=============================================================================
