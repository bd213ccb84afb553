------------------------------- MODULE Lists -------------------------------
(***************************************************************************)
(* Lists and numbers, as EngineSetup, IndexSearch and AgentTools use them: *)
(* what Python's min, max, sorted, sum and list comprehensions compute.    *)
(* They take sets and lists, not operators, so that proofs can use them.   *)
(***************************************************************************)
EXTENDS Integers, FiniteSets, Sequences, SequencesExt

Smaller(a, b) == IF a < b THEN a ELSE b
Larger(a, b)  == IF a < b THEN b ELSE a

(* The numbers of S in ascending order: SetToSortSeq(S, <), by their rank. *)
Rank(S, i)   == Cardinality({k \in S : k <= i})
Ascending(S) == [n \in 1..Cardinality(S) |-> CHOOSE i \in S : Rank(S, i) = n]

(* What a list has at some of its places: SelectSeq, by place.             *)
Sublist(list, places) ==
  [n \in 1..Cardinality(places) |-> list[Ascending(places)[n]]]

(* The sums of the first 0, 1, 2, ... of a list of numbers.                *)
SumTo(costs) ==
  LET sum[n \in 0..Len(costs)] == IF n = 0 THEN 0 ELSE sum[n - 1] + costs[n] IN sum
=============================================================================
