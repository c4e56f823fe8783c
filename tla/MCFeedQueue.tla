---------------------------- MODULE MCFeedQueue ----------------------------
(* Small instances of FeedQueue for TLC. *)
EXTENDS FeedQueue, TLC

Symmetry == Permutations(Ids) \cup Permutations(Workers)
=============================================================================
