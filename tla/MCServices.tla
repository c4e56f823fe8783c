----------------------------- MODULE MCServices -----------------------------
(***************************************************************************)
(* The statements of posts and cancels and the parts of the server that    *)
(* keep tables or files of their own, side by side for TLC.  They share no *)
(* variable and are known to one another only by what their modules say,   *)
(* so that a behaviour is one of one part: the part is chosen at first,    *)
(* and the others stay as they began.                                      *)
(***************************************************************************)
EXTENDS MCStoreTxn, Accounts, MCSpool, ArchiveJobs, MemoryStore, ContentStats,
        PathStats, WebPosting, GroupAdmin, Reading, PeerFilters,
        Propagation

CONSTANTS root, ann, r1, r2

VARIABLE part

-----------------------------------------------------------------------------
(* What the messages, headers and requests of the instances are. *)

Patch(p, a, d) == [password |-> p, admin |-> a, disabled |-> d]
\* A reset, a demotion of a disabled account, and an account enabled again.
MCPatches == {Patch({[word |-> "w", given |-> TRUE]}, {}, {}), Patch({}, {FALSE}, {TRUE}),
              Patch({}, {}, {FALSE})}

\* A crosspost, a header that lists a group twice, and a plain one.
MCHeaders == [m \in {"x", "y"} |-> IF m = "x" THEN {<<"a", "b">>, <<"a", "a">>} ELSE {<<"a">>}]

MCGroupList == [a \in {"x", "y"} |-> IF a = "x" THEN <<"ga", "gb">> ELSE <<"gb">>]
MCFromKey   == [a \in {"x", "y"} |-> "me"]
MCSites     == [a \in {"x", "y"} |-> <<>>]

MCPostHeaders == {<<"ga", "gb">>}
MCWebStatuses == {<<"gb", "m">>, <<"gb", "y">>, <<"ga", "y">>}

MCCheckgroups == {[entries |-> ("a.x" :> "y"), hierarchy |-> {"a.x", "a.y"}]}
MCIscLists    == {("a.x" :> "y") @@ ("a.y" :> "m")}

\* Entries of newsfeeds and articles: globs of up to three characters, wildmats of up to
\* three patterns, flags fields of up to two parts.
MCGlobs == SeqOf({"a", "b", "*", "?"}, 3) \X SeqOf({"a", "b"}, 3)

MCPatterns == [mark : {"", "!", "@"}, glob : {<<"*">>, <<"a", "*">>, <<"?", "b">>}]
                \union {[mark |-> "!", glob |-> <<>>]}
MCPatternQuestions ==
  SeqOf(MCPatterns, 3) \X {<<>>, <<<<"a", "a">>>>, <<<<"b", "b">>, <<"a", "b">>>>}

MCDistribs == SeqOf([dist : {"world", "local"}, neg : BOOLEAN], 3)
                \X SeqOf({"world", "local", "ca", ""}, 2)

MCFlagParts ==
  [key : {"<", ">", "C", "G", "H", "U"}, operand : {-1, 2, NotANumber}]
    \union [key : {"<", "C", "H"}, operand : {3}]
    \union [key : {"A"}, operand : {<<"c">>, <<"C", "d">>, <<"e", "p">>}]
    \union [key : {"N"}, operand : {"m", "u", "x"}]
    \union {[key |-> "H", operand |-> Bare]}
Article(groups, bytes, isControl, followup, hops) ==
  [groups |-> groups, bytes |-> bytes, control |-> isControl, distributed |-> isControl,
   followup |-> followup, hops |-> hops, status |-> ("g" :> "y") @@ ("h" :> "m")]
MCArticles == {Article(<<>>, 1, FALSE, <<>>, <<>>), Article(<<"g">>, 2, FALSE, <<>>, <<"x", "">>),
               Article(<<"g", "h">>, 3, TRUE, <<"poster">>, <<"x", "y">>),
               Article(<<"h">>, 4, FALSE, <<"g", "", "h">>, <<"x", "y", "z">>),
               Article(<<"g", "k">>, 1, TRUE, <<"g">>, <<"x">>)}
MCFlagQuestions == SeqOf(MCFlagParts, 2) \X MCArticles

MCCarried == [id |-> "x", kind |-> "plain", target |-> "x", flaw |-> "none"]

MCFeeds == [host : {"", "me", "h"}, name : {"h", "n"}, tokens : SUBSET {"h", "t"}, pathOnly : BOOLEAN]
MCPathQuestions == MCFeeds \X SUBSET {"me", "h", "n", "t"}

-----------------------------------------------------------------------------

PartInit ==
  /\ part \in {"posts", "accounts", "spool", "archive", "memory", "stats", "paths", "web",
               "groups", "walk", "news", "marks", "purges", "filters", "feeds"}
  /\ Init /\ AccountsInit /\ SpoolInit /\ ArchiveInit /\ MemInit
  /\ StatsInit /\ PathsInit /\ WebInit /\ GroupInit
  /\ ReadingInit /\ FiltersInit /\ PropagationInit

\* What belongs to the other parts stays; then a step of the part.
PartNext ==
  /\ UNCHANGED part
  /\ part # "posts"    => UNCHANGED vars
  /\ part # "accounts" => UNCHANGED accountVars
  /\ part # "spool"    => UNCHANGED spoolVars
  /\ part # "archive"  => UNCHANGED archiveVars
  /\ part # "memory"   => UNCHANGED memVars
  /\ part # "stats"    => UNCHANGED statVars
  /\ part # "paths"    => UNCHANGED pathVars
  /\ part # "web"      => UNCHANGED webVars
  /\ part # "groups"   => UNCHANGED activeVars
  /\ part \notin {"walk", "news", "marks", "purges"} => UNCHANGED readingVars
  /\ part # "filters"  => UNCHANGED question
  /\ part # "feeds"    => UNCHANGED propagationVars
  /\ CASE part = "posts"    -> Next
       [] part = "accounts" -> AccountsNext
       [] part = "spool"    -> SpoolNext
       [] part = "archive"  -> ArchiveNext
       [] part = "memory"   -> MemNext
       [] part = "stats"    -> StatsNext
       [] part = "paths"    -> PathsNext
       [] part = "web"      -> WebNext
       [] part = "groups"   -> GroupNext
       [] part = "walk"     -> WalkNext
       [] part = "news"     -> NewsNext /\ lives' <= 1 /\ top' <= 2
       [] part = "marks"    -> MarksNext
       [] part = "purges"   -> PurgeNext
       [] part = "filters"  -> FiltersNext
       [] part = "feeds"    -> PropagationNext

PartSpec ==
  PartInit /\ [][PartNext]_<<part, vars, accountVars, spoolVars, archiveVars, memVars,
                             statVars, pathVars, webVars, activeVars, readingVars,
                             question, propagationVars>>
=============================================================================
