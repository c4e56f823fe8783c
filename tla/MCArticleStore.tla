--------------------------- MODULE MCArticleStore ---------------------------
(* Small instances of ArticleStore for TLC. *)
EXTENDS ArticleStore, TLC

CONSTANTS ga, gb

MCGroups == {ga, gb}

One(g)   == [x \in MCGroups |-> IF x = g THEN 1 ELSE 0]
Cross    == [x \in MCGroups |-> 1]
Doubled  == [x \in MCGroups |-> IF x = ga THEN 2 ELSE 0]

CrossListings  == {One(ga), Cross}
DoubleListings == {Doubled, Cross}
TwoListings    == {One(gb), Cross}
Flood          == {<<1, "auto">>}
NoPolicies     == {}

OneGroup      == {ga}
SingleListing == {[x \in OneGroup |-> 1]}

Symmetry == Permutations(MsgIds)
=============================================================================
