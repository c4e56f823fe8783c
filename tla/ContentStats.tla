---------------------------- MODULE ContentStats ----------------------------
(***************************************************************************)
(* The counters behind the statistics page: articles by group and day, by  *)
(* group, by poster and by site of the Path.  Whoever stores an article    *)
(* adds it to its counters afterwards, in a transaction of its own, in the *)
(* order of its header; the hourly job replaces all counters by what the   *)
(* article tables hold, in one transaction of many statements.  A row that *)
(* a transaction wrote is locked until it ends; a statement sees what was  *)
(* committed when it began.  Articles are removed without the counters     *)
(* being told.                                                             *)
(*                                                                         *)
(* All articles are of one day.  A counter is named by its table and key.  *)
(***************************************************************************)
EXTENDS Naturals, FiniteSets, Sequences, Functions

CONSTANTS
  StatArticles,
  GroupList,     \* of each article, its groups in the order of the header
  FromKey,       \* of each article, its poster
  PathStatSites  \* of each article, the sites of its Path

ASSUME StatsAssumption ==
  /\ IsFiniteSet(StatArticles)
  /\ \A a \in StatArticles : /\ GroupList[a] \in Seq(Range(GroupList[a]))
                            /\ PathStatSites[a] \in Seq(Range(PathStatSites[a]))

VARIABLES
  posted,        \* the articles ever posted
  inStore,       \* the articles that the article tables hold
  counted,       \* the counters that are committed; 0 is no row
  recording,     \* of each stored article, how many counters its poster has added it to
  refresh,       \* where the refresh is
  lost           \* articles whose poster did not get to count them

statVars == <<posted, inStore, counted, recording, refresh, lost>>

\* The counters of an article, in the order RecordContentStats adds to them: its groups' by
\* day and in total, the poster's, and those of the sites.
GroupCounters(a) ==
  [i \in 1 .. 2 * Len(GroupList[a]) |->
     <<IF i % 2 = 1 THEN "day" ELSE "total", GroupList[a][(i + 1) \div 2]>>]
Counters(a) ==
  GroupCounters(a) \o <<<<"from", FromKey[a]>>>>
    \o [i \in DOMAIN PathStatSites[a] |-> <<"path", PathStatSites[a][i]>>]
AllCounters == UNION {Range(Counters(a)) : a \in StatArticles}
Of(table) == {k \in AllCounters : k[1] = table}

DeleteOrder == <<"day", "total", "from", "path">>
InsertOrder == <<"total", "day", "from", "path">>

NoCounts == [k \in {} |-> 0]
NotRefreshing == [step |-> "idle"]

StatsInit ==
  /\ posted = {} /\ inStore = {} /\ lost = {}
  /\ counted = [k \in AllCounters |-> 0]
  /\ recording = [a \in {} |-> 0]
  /\ refresh = NotRefreshing

-----------------------------------------------------------------------------
(* Who has locked a counter's row. *)

HeldByRecord(k) ==
  \E a \in DOMAIN recording : \E i \in 1..recording[a] : Counters(a)[i] = k
HeldByRefresh(k) ==
  refresh # NotRefreshing /\ k \in refresh.deleted \union DOMAIN refresh.inserted

-----------------------------------------------------------------------------
(* Posting. *)

\* Post commits; RecordContentStats comes after it.
PostCommits(a) ==
  /\ a \notin posted
  /\ posted' = posted \union {a}
  /\ inStore' = inStore \union {a}
  /\ recording' = [x \in DOMAIN recording \union {a} |-> IF x = a THEN 0 ELSE recording[x]]
  /\ UNCHANGED <<counted, refresh, lost>>

\* INSERT ... ON CONFLICT DO UPDATE of the next counter waits for whoever has its row.
RecordNext(a) ==
  /\ recording[a] < Len(Counters(a))
  /\ LET k == Counters(a)[recording[a] + 1] IN
       /\ ~HeldByRefresh(k)
       /\ \A b \in DOMAIN recording \ {a} : \A i \in 1..recording[b] : Counters(b)[i] # k
  /\ recording' = [recording EXCEPT ![a] = @ + 1]
  /\ UNCHANGED <<posted, inStore, counted, refresh, lost>>

Recorded(a) == [x \in DOMAIN recording \ {a} |-> recording[x]]

RecordCommits(a) ==
  /\ recording[a] = Len(Counters(a))
  /\ counted' = [k \in AllCounters |->
                  counted[k] + Cardinality({i \in DOMAIN Counters(a) : Counters(a)[i] = k})]
  /\ recording' = Recorded(a)
  /\ UNCHANGED <<posted, inStore, refresh, lost>>

\* The transaction fails, as the victim of a deadlock too, or the process stops: the error
\* is logged.
RecordFails(a) ==
  /\ recording' = Recorded(a)
  /\ lost' = lost \union {a}
  /\ UNCHANGED <<posted, inStore, counted, refresh>>

\* Purges, cancels and expiry.
RemoveArticle(a) ==
  /\ inStore' = inStore \ {a}
  /\ UNCHANGED <<posted, counted, recording, refresh, lost>>

-----------------------------------------------------------------------------
(* RefreshContentStats. *)

RefreshBegins ==
  /\ refresh = NotRefreshing
  /\ refresh' = [step |-> "deleting", table |-> 0, todo |-> {}, deleted |-> {},
                 inserted |-> NoCounts, new |-> NoCounts, saw |-> {}]
  /\ UNCHANGED <<posted, inStore, counted, recording, lost>>

\* DELETE of the next table: the rows that are committed now.
DeleteTable ==
  /\ refresh.step = "deleting"
  /\ refresh.todo = {}
  /\ refresh' =
       IF refresh.table = Len(DeleteOrder) THEN [refresh EXCEPT !.step = "inserting", !.table = 0]
       ELSE [refresh EXCEPT !.table = @ + 1,
                            !.todo = {k \in Of(DeleteOrder[refresh.table + 1]) : counted[k] > 0}]
  /\ UNCHANGED <<posted, inStore, counted, recording, lost>>

\* Mutation of DeleteRow: the statements of the refresh are not in one transaction.
DeleteRowAtOnce(k) ==
  /\ refresh.step = "deleting"
  /\ k \in refresh.todo
  /\ ~HeldByRecord(k)
  /\ refresh' = [refresh EXCEPT !.todo = @ \ {k}, !.deleted = @ \union {k}]
  /\ counted' = [counted EXCEPT ![k] = 0]
  /\ UNCHANGED <<posted, inStore, recording, lost>>

\* It takes row after row, and waits for those that a recording transaction has locked.
DeleteRow(k) ==
  /\ refresh.step = "deleting"
  /\ k \in refresh.todo
  /\ ~HeldByRecord(k)
  /\ refresh' = [refresh EXCEPT !.todo = @ \ {k}, !.deleted = @ \union {k}]
  /\ UNCHANGED <<posted, inStore, counted, recording, lost>>

CountOf(k, S) == Cardinality({a \in S : k \in Range(Counters(a))})

\* INSERT ... SELECT of the next table counts the articles stored by now.
InsertTable ==
  LET K == {k \in Of(InsertOrder[refresh.table + 1]) : CountOf(k, inStore) > 0} IN
  /\ refresh.step = "inserting"
  /\ refresh.table < Len(InsertOrder)
  /\ refresh.todo = {}
  /\ refresh' = [refresh EXCEPT !.table = @ + 1, !.todo = K,
                                !.new = [k \in K |-> CountOf(k, inStore)],
                                !.saw = IF refresh.table = 0 THEN inStore ELSE @]
  /\ UNCHANGED <<posted, inStore, counted, recording, lost>>

\* A row that was committed since the DELETE violates the primary key and ends the refresh;
\* one that is not committed is waited for.
InsertRow(k) ==
  /\ refresh.step = "inserting"
  /\ k \in refresh.todo
  /\ ~HeldByRecord(k)
  /\ refresh' =
       IF counted[k] > 0 /\ k \notin refresh.deleted THEN NotRefreshing
       ELSE [refresh EXCEPT !.todo = @ \ {k},
                            !.inserted = [x \in DOMAIN @ \union {k} |->
                                           IF x = k THEN refresh.new[k] ELSE @[x]]]
  /\ UNCHANGED <<posted, inStore, counted, recording, lost>>

RefreshCommits ==
  /\ refresh.step = "inserting"
  /\ refresh.table = Len(InsertOrder)
  /\ refresh.todo = {}
  /\ counted' = [k \in AllCounters |->
                  IF k \in DOMAIN refresh.inserted THEN refresh.inserted[k]
                  ELSE IF k \in refresh.deleted THEN 0 ELSE counted[k]]
  /\ lost' = lost \ refresh.saw
  /\ refresh' = NotRefreshing
  /\ UNCHANGED <<posted, inStore, recording>>

\* A statement fails, as the victim of a deadlock too: the counters stay.
RefreshFails ==
  /\ refresh # NotRefreshing
  /\ refresh' = NotRefreshing
  /\ UNCHANGED <<posted, inStore, counted, recording, lost>>

StatsNext ==
  \/ \E a \in StatArticles : PostCommits(a)
  \/ \E a \in DOMAIN recording : RecordNext(a) \/ RecordCommits(a) \/ RecordFails(a)
  \/ \E a \in inStore : RemoveArticle(a)
  \/ RefreshBegins \/ DeleteTable \/ InsertTable \/ RefreshCommits \/ RefreshFails
  \/ \E k \in AllCounters : DeleteRow(k) \/ InsertRow(k)

StatsSpec == StatsInit /\ [][StatsNext]_statVars

-----------------------------------------------------------------------------

\* The types of the counters, the articles and the recount.
StatsTypeOK ==
  /\ posted \subseteq StatArticles /\ inStore \union lost \union DOMAIN recording \subseteq posted
  /\ counted \in [AllCounters -> Nat]
  /\ \A a \in DOMAIN recording : recording[a] \in 0..Len(Counters(a))
  /\ refresh # NotRefreshing =>
       /\ refresh.table \in 0..4
       /\ refresh.todo \union refresh.deleted \union DOMAIN refresh.inserted \subseteq AllCounters

\* No counter is short of an article that is in the store, however a refresh falls between
\* the posts and their counting: only an article that is still being counted, or whose
\* counting failed since the last refresh, may be missing.
StatsNeverUndercount ==
  \A k \in AllCounters :
    CountOf(k, inStore \ (lost \union DOMAIN recording)) <= counted[k]
=============================================================================
