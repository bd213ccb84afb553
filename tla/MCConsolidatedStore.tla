------------------------ MODULE MCConsolidatedStore ------------------------
(* Instance of ConsolidatedStore for TLC: two entries of one topic, two    *)
(* texts, two calls at a time.  Calls and texts are interchangeable.       *)
EXTENDS ConsolidatedStore, TLC

MCEntries == {<<"t1", "a">>, <<"t1", "b">>}

Interchangeable == Permutations(Calls) \cup Permutations(Texts)
=============================================================================
