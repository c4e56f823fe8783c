------------------------------- MODULE Spool -------------------------------
(***************************************************************************)
(* The mbox files beside the store, one of each group.  An article is      *)
(* appended to the files of its groups after the store has it, one file at *)
(* a time; a purge of unwanted articles first commits in the store and     *)
(* then scrubs the files: those of unwanted groups are deleted, and those  *)
(* of other groups a purged article was in are rewritten without it.  It   *)
(* knows the groups by the overview rows that are left, which retention    *)
(* and the deletion of a group take away and leave the files as they are.  *)
(* The lock of the spool covers one append or one whole scrub.  Posters    *)
(* (NNTP, web, import) and sweepers (hourly job, administrator) run        *)
(* concurrently.                                                           *)
(*                                                                         *)
(* Of a file the model has the messages in it (a Message-ID is appended to *)
(* a file once), not their order.  Of a body it has which Message-ID       *)
(* header lines it quotes, and how many ">" stand before its one "From "   *)
(* line.                                                                   *)
(***************************************************************************)
EXTENDS Naturals

CONSTANTS
  SpoolGroups, Messages,
  GroupsOf,       \* of each message, the groups it is posted to
  QuotedIn,       \* of each message, whose Message-ID line its body quotes
  Depth,          \* of each message, the ">"s before the "From " line of its body
  Posters, Importers, SpoolSweepers,
  Banned0,        \* the groups banned at first
  Nothing

ASSUME SpoolAssumption ==
  /\ GroupsOf \in [Messages -> SUBSET SpoolGroups]
  /\ QuotedIn \in [Messages -> SUBSET Messages]
  /\ Depth \in [Messages -> Nat]
  /\ Banned0 \subseteq SpoolGroups
  /\ Nothing \notin Messages

VARIABLES
  listed,         \* the groups of the server
  filed,          \* of each message, the groups it has an overview row in
  seen,           \* the Message-IDs the store remembers
  mbox,           \* the file of each group: its messages, with the depth as it is written
  posting,        \* what each poster has stored and not yet appended
  banned,         \* the groups that match a ban
  toScrub,        \* of each sweeper, the purge whose scrub is to come
  purged,         \* history: what purges have removed from the store
  missed,         \* history: what no scrub will take out: it failed, was lost, or came too early
  rowless         \* history: of each message, the groups it lost its row in before any purge

filingVars == <<listed, filed, seen, rowless>>
spoolVars == <<filingVars, mbox, posting, banned, toScrub, purged, missed>>

NoPost == [msg |-> Nothing, left |-> {}]
NoSweep == [drop |-> {}, rewrite |-> {}, ids |-> {}]

SpoolInit ==
  /\ listed = SpoolGroups
  /\ filed = [m \in Messages |-> {}] /\ rowless = [m \in Messages |-> {}]
  /\ seen = {} /\ purged = {} /\ missed = {}
  /\ mbox = [g \in SpoolGroups |-> {}]
  /\ posting = [p \in Posters \union Importers |-> NoPost]
  /\ banned = Banned0
  /\ toScrub = [s \in SpoolSweepers |-> NoSweep]

-----------------------------------------------------------------------------
(* Writing and reading the mbox form. *)

\* Append and the export put one ">" before a line that starts with "From ", and only there.
Escape(d) == IF d = 0 THEN 1 ELSE d

\* ReadMBoxMessages takes one ">" off a line that starts with ">From ".
Unescape(d) == IF d = 1 THEN 0 ELSE d

\* What an import finds in a file.
ReadMBoxMessages(file) ==
  {[msg |-> e.msg, depth |-> Unescape(e.depth)] : e \in file}

\* Any line of the message, header or body, that is a Message-ID header of a dropped article.
MessageDropped(m, ids) == ({m} \union QuotedIn[m]) \intersect ids # {}

RewriteMbox(file, ids) == {e \in file : ~MessageDropped(e.msg, ids)}

-----------------------------------------------------------------------------
(* Posting and importing. *)

\* The bans are checked well before the article is stored; an import does not check them.
Check(p, m) ==
  /\ posting[p] = NoPost
  /\ m \notin seen
  /\ p \in Posters => GroupsOf[m] \intersect banned = {}
  /\ posting' = [posting EXCEPT ![p] = [msg |-> m, left |-> {}]]
  /\ UNCHANGED <<filingVars, mbox, banned, toScrub, purged, missed>>

\* Post stores the article under those of its groups that there are, unless another was
\* faster or there are none.
StorePosted(p) ==
  LET m == posting[p].msg
      in == GroupsOf[m] \intersect listed
  IN
  /\ m # Nothing
  /\ posting[p].left = {}
  /\ IF m \in seen \/ in = {}
     THEN /\ posting' = [posting EXCEPT ![p] = NoPost]
          /\ UNCHANGED <<filed, seen>>
     ELSE /\ posting' = [posting EXCEPT ![p].left = in]
          /\ filed' = [filed EXCEPT ![m] = in]
          /\ seen' = seen \union {m}
  /\ UNCHANGED <<listed, rowless, mbox, banned, toScrub, purged, missed>>

Left(p, rest) == IF rest = {} THEN NoPost ELSE [posting[p] EXCEPT !.left = rest]

\* MBox.Append, one group after the other in the order of a Go map.
Append1(p, g) ==
  LET m == posting[p].msg IN
  /\ g \in posting[p].left
  /\ mbox' = [mbox EXCEPT ![g] = @ \union {[msg |-> m, depth |-> Escape(Depth[m])]}]
  /\ posting' = [posting EXCEPT ![p] = Left(p, posting[p].left \ {g})]
  /\ UNCHANGED <<filingVars, banned, toScrub, purged, missed>>

\* The file cannot be written: a post logs it and goes on, an import ends.
AppendFails(p, g) ==
  /\ g \in posting[p].left
  /\ posting' = [posting EXCEPT ![p] =
                   Left(p, IF p \in Importers THEN {} ELSE posting[p].left \ {g})]
  /\ UNCHANGED <<filingVars, mbox, banned, toScrub, purged, missed>>

-----------------------------------------------------------------------------
(* Rows that go without their copy in the files. *)

LoseRow(m, g) ==
  /\ filed' = [filed EXCEPT ![m] = @ \ {g}]
  /\ rowless' = [rowless EXCEPT ![m] = @ \union {g}]

\* Expire: each row for itself.
RowExpires(m, g) ==
  /\ g \in filed[m]
  /\ LoseRow(m, g)
  /\ UNCHANGED <<listed, seen, mbox, posting, banned, toScrub, purged, missed>>

\* DeleteGroup: the rows of the group go with it.
RemoveGroup(g) ==
  /\ g \in listed
  /\ listed' = listed \ {g}
  /\ filed' = [m \in Messages |-> filed[m] \ {g}]
  /\ rowless' = [m \in Messages |-> rowless[m] \union (filed[m] \intersect {g})]
  /\ UNCHANGED <<seen, mbox, posting, banned, toScrub, purged, missed>>

AddGroup(g) ==
  /\ g \notin listed
  /\ listed' = listed \union {g}
  /\ UNCHANGED <<filed, seen, rowless, mbox, posting, banned, toScrub, purged, missed>>

-----------------------------------------------------------------------------
(* Purging. *)

Ban(g) ==
  /\ g \notin banned
  /\ banned' = banned \union {g}
  /\ UNCHANGED <<filingVars, mbox, posting, toScrub, purged, missed>>

UnwantedGroups == banned \intersect listed

Doomed == {m \in Messages : filed[m] \intersect UnwantedGroups # {}}

\* Mutation of Siblings: the purge reports only the unwanted groups themselves.
NoSiblings(ids) == {}

\* The groups where the articles have a row besides.
Siblings(ids) == (UNION {filed[m] : m \in ids}) \ UnwantedGroups

\* PurgeUnwantedArticles, as a whole; ArticleStore has its statements.
Purge(s) ==
  /\ toScrub[s] = NoSweep
  /\ UnwantedGroups # {}
  /\ toScrub' = [toScrub EXCEPT ![s] = [drop |-> UnwantedGroups, rewrite |-> Siblings(Doomed),
                                    ids |-> Doomed]]
  /\ filed' = [m \in Messages |-> IF m \in Doomed THEN {} ELSE filed[m]]
  /\ purged' = purged \union Doomed
  /\ UNCHANGED <<listed, seen, rowless, mbox, posting, banned, missed>>

Scrubbed(drop, rewrite, ids) ==
  [g \in SpoolGroups |-> IF g \in drop THEN {}
                         ELSE IF g \in rewrite THEN RewriteMbox(mbox[g], ids) ELSE mbox[g]]

InFlight == {m \in Messages : \E p \in DOMAIN posting : posting[p].msg = m
                                                       /\ posting[p].left # {}}

\* MBox.Scrub.
Scrub(s) ==
  /\ toScrub[s] # NoSweep
  /\ mbox' = Scrubbed(toScrub[s].drop, toScrub[s].rewrite, toScrub[s].ids)
  /\ missed' = missed \union (toScrub[s].ids \intersect InFlight)
  /\ toScrub' = [toScrub EXCEPT ![s] = NoSweep]
  /\ UNCHANGED <<filingVars, posting, banned, purged>>

\* It stops at the first file that cannot be removed or rewritten: all files to delete come
\* before any to rewrite.
ScrubFails(s) ==
  /\ \E drop \in SUBSET toScrub[s].drop, rewrite \in SUBSET toScrub[s].rewrite :
       /\ drop # toScrub[s].drop => rewrite = {}
       /\ <<drop, rewrite>> # <<toScrub[s].drop, toScrub[s].rewrite>>
       /\ mbox' = Scrubbed(drop, rewrite, toScrub[s].ids)
  /\ missed' = missed \union toScrub[s].ids
  /\ toScrub' = [toScrub EXCEPT ![s] = NoSweep]
  /\ UNCHANGED <<filingVars, posting, banned, purged>>

\* The process stops: appends and scrubs that were to come do not.
SpoolCrash ==
  /\ missed' = missed \union UNION {toScrub[s].ids : s \in SpoolSweepers}
  /\ toScrub' = [s \in SpoolSweepers |-> NoSweep]
  /\ posting' = [p \in DOMAIN posting |-> NoPost]
  /\ UNCHANGED <<filingVars, mbox, banned, purged>>

SpoolNext ==
  \/ \E p \in Posters \union Importers :
       \/ \E m \in Messages : Check(p, m)
       \/ StorePosted(p)
       \/ \E g \in SpoolGroups : Append1(p, g) \/ AppendFails(p, g)
  \/ \E g \in SpoolGroups :
       \/ Ban(g) \/ RemoveGroup(g) \/ AddGroup(g)
       \/ \E m \in Messages : RowExpires(m, g)
  \/ \E s \in SpoolSweepers : Purge(s) \/ Scrub(s) \/ ScrubFails(s)
  \/ SpoolCrash

SpoolSpec == SpoolInit /\ [][SpoolNext]_spoolVars

-----------------------------------------------------------------------------

InFile(m, g) == \E e \in mbox[g] : e.msg = m

\* The types of the files, and of the posts, imports and sweeps under way.
SpoolTypeOK ==
  /\ listed \subseteq SpoolGroups /\ seen \subseteq Messages
  /\ filed \in [Messages -> SUBSET SpoolGroups] /\ rowless \in [Messages -> SUBSET SpoolGroups]
  /\ purged \subseteq seen /\ missed \subseteq purged
  /\ \A g \in SpoolGroups : mbox[g] \subseteq [msg : Messages, depth : Nat]
  /\ posting \in [Posters \union Importers ->
                   [msg : Messages \union {Nothing}, left : SUBSET SpoolGroups]]
  /\ banned \subseteq SpoolGroups
  /\ toScrub \in [SpoolSweepers -> [drop : SUBSET SpoolGroups, rewrite : SUBSET SpoolGroups,
                             ids : SUBSET Messages]]

\* A purged article stays in no file, its crosspost copies included, once the scrub of its
\* purge is through; only a scrub that failed or was lost, or an append that came after it,
\* leaves it there.  It also stays in the file of a group where its row was gone before the
\* purge, as it expired or its group was deleted (postgres_purge.go:61): the files keep what
\* expires, and a purge does not know what they keep.
PurgedLeavesSpool ==
  \A m \in purged \ missed : \A g \in SpoolGroups \ rowless[m] :
    InFile(m, g) => \E s \in SpoolSweepers : m \in toScrub[s].ids

\* What an import reads out of a file is what was written into it (mbox.go:14 "mboxrd").
ReadsBackAsWritten ==
  \A g \in SpoolGroups : \A e \in ReadMBoxMessages(mbox[g]) : e.depth = Depth[e.msg]
=============================================================================
