----------------------------- MODULE MCIndexer -----------------------------
(* Small instances of Indexer.                                             *)
EXTENDS Indexer

(* Bound: a mishap and a removal that overlaps with a pass are explored    *)
(* each for itself, not both in one behaviour.                             *)
RaceOrMishap == \A r \in Repos : raced[r] => mishaps = 0
=============================================================================
