------------------------------ MODULE StoreTxn ------------------------------
(***************************************************************************)
(* Post and CancelMessageID statement by statement, as PostgreSQL runs     *)
(* them at READ COMMITTED: a statement sees what is committed when it      *)
(* starts and what its own transaction wrote; a row another transaction    *)
(* wrote or locked makes it wait, and it then continues with the row as    *)
(* committed; INSERT ... ON CONFLICT DO NOTHING waits for the inserter of  *)
(* the same key.  A transaction can fail at any statement (an error, or    *)
(* the server breaks a deadlock) and leaves nothing behind.                *)
(*                                                                         *)
(* ArticleStore has a Post as one step and a cancel as two, the rows it    *)
(* reads and its commit; PostsAreAtomic says that this is right, and       *)
(* CancelWithdraws what a cancel does not promise.                         *)
(* Groups exist and take articles throughout; history is not pruned.       *)
(***************************************************************************)
EXTENDS Integers, Sequences, FiniteSets, Functions, FiniteSetsExt

CONSTANTS
  Groups, MsgIds,
  Txns,  \* transactions, each run once
  Work,  \* what each does: [op, id, list]; list is the Newsgroups header of a post
  MaxNum \* bound: highest article number of a run

ASSUME WorkAssumption ==
  /\ Work \in [Txns -> [op : {"post", "cancel"}, id : MsgIds, list : Seq(Groups)]]
  /\ MaxNum \in Nat

VARIABLES
  history, articles, overview, low, high, count,  \* committed tables
  held,  \* per transaction: the rows it has locked
  tx,    \* per transaction: where it is and what it wrote
  \* History variables: every overview row ever committed; the groups from which a
  \* cancel subtracted a row that was no longer there.
  given, miscounted

tables == <<history, articles, overview, low, high, count>>
vars == <<tables, held, tx, given, miscounted>>

HistoryRow(m) == <<"history", m>>
ArticleRow(m) == <<"article", m>>
GroupRow(g)   == <<"group", g>>
Lockable == {HistoryRow(m) : m \in MsgIds} \cup {ArticleRow(m) : m \in MsgIds}
              \cup {GroupRow(g) : g \in Groups}

NoMarks == [g \in {} |-> 0]
Fresh == [step |-> "begin", next |-> 1, groups |-> <<>>, marks |-> NoMarks, rows |-> {}]
Endings == {"committed", "unknown", "duplicate", "failed"}

Init ==
  /\ history = {} /\ articles = {} /\ overview = {} /\ given = {} /\ miscounted = {}
  /\ low = [g \in Groups |-> 0] /\ high = [g \in Groups |-> 0]
  /\ count = [g \in Groups |-> 0]
  /\ held = [t \in Txns |-> {}]
  /\ tx = [t \in Txns |-> Fresh]

-----------------------------------------------------------------------------
Op(t, op) == Work[t].op = op
Id(t) == Work[t].id
Ran(t, step) == tx[t].step = step

CanLock(t, r) == \A u \in Txns \ {t} : r \notin held[u]

\* Mutation of Lock: no FOR UPDATE.
NoLock(t, r) == UNCHANGED held
Lock(t, r) == CanLock(t, r) /\ held' = [held EXCEPT ![t] = @ \cup {r}]

\* The transaction is over.
End(t, how) ==
  /\ tx' = [tx EXCEPT ![t] = [Fresh EXCEPT !.step = how]]
  /\ held' = [held EXCEPT ![t] = {}]

\* A group's row as the transaction sees it: what it wrote, or what is committed.
Marks(t, g) ==
  IF g \in DOMAIN tx[t].marks THEN tx[t].marks[g]
                              ELSE [low |-> low[g], high |-> high[g], count |-> count[g]]

Wrote(t, g, m) == [x \in DOMAIN tx[t].marks \cup {g} |-> IF x = g THEN m ELSE Marks(t, x)]

Publish(t) ==
  /\ low' = [g \in Groups |-> Marks(t, g).low]
  /\ high' = [g \in Groups |-> Marks(t, g).high]
  /\ count' = [g \in Groups |-> Marks(t, g).count]

-----------------------------------------------------------------------------
(* Post. *)

\* INSERT INTO history ... ON CONFLICT DO NOTHING.
Claim(t) ==
  /\ Op(t, "post") /\ Ran(t, "begin")
  /\ IF Id(t) \in history
     THEN End(t, "duplicate")
     ELSE /\ Lock(t, HistoryRow(Id(t)))
          /\ tx' = [tx EXCEPT ![t].step = "number", ![t].groups = Work[t].list]
  /\ UNCHANGED <<tables, given, miscounted>>

\* SELECT ... FOR UPDATE of the next listed group, and the UPDATE of its marks.
Number(t) ==
  /\ Op(t, "post") /\ Ran(t, "number") /\ tx[t].next <= Len(tx[t].groups)
  /\ LET g == tx[t].groups[tx[t].next]
         n == Marks(t, g).high + 1
     IN  /\ n <= MaxNum
         /\ Lock(t, GroupRow(g))
         /\ tx' = [tx EXCEPT
              ![t].next = @ + 1,
              ![t].rows = @ \cup {[group |-> g, num |-> n, id |-> Id(t)]},
              ![t].marks = Wrote(t, g, [high  |-> n,
                                        low   |-> IF Marks(t, g).low = 0 THEN n
                                                  ELSE Marks(t, g).low,
                                        count |-> Marks(t, g).count + 1])]
  /\ UNCHANGED <<tables, given, miscounted>>

\* The inserts into articles and overview, and COMMIT.  Without a group the post fails.
CommitPost(t) ==
  /\ Op(t, "post") /\ Ran(t, "number") /\ tx[t].next > Len(tx[t].groups)
  /\ tx[t].rows # {}
  /\ history' = history \cup {Id(t)}
  /\ articles' = articles \cup {Id(t)}
  /\ overview' = overview \cup tx[t].rows
  /\ given' = given \cup tx[t].rows
  /\ Publish(t)
  /\ End(t, "committed")
  /\ UNCHANGED miscounted

-----------------------------------------------------------------------------
(* CancelMessageID. *)

Find(t) ==
  /\ Op(t, "cancel") /\ Ran(t, "begin")
  /\ tx' = [tx EXCEPT ![t].step = IF Id(t) \in articles THEN "read" ELSE "remember"]
  /\ UNCHANGED <<tables, held, given, miscounted>>

\* No article: INSERT INTO history ... ON CONFLICT DO NOTHING, COMMIT.
RememberOnly(t) ==
  /\ Op(t, "cancel") /\ Ran(t, "remember")
  /\ Id(t) \in history \/ CanLock(t, HistoryRow(Id(t)))
  /\ history' = history \cup {Id(t)}
  /\ End(t, "unknown")
  /\ UNCHANGED <<articles, overview, low, high, count, given, miscounted>>

\* SELECT group_id, article_num FROM overview, in any order.
ReadRows(t) ==
  /\ Op(t, "cancel") /\ Ran(t, "read")
  /\ LET mine == {r \in overview : r.id = Id(t)}
     IN  \E order \in Bijection(1..Cardinality(mine), mine) :
           tx' = [tx EXCEPT ![t].step = "delete", ![t].rows = mine,
                            ![t].groups = [i \in 1..Cardinality(mine) |-> order[i].group]]
  /\ UNCHANGED <<tables, held, given, miscounted>>

\* DELETE FROM overview, FROM articles: waits for another cancel of the article, and
\* finds nothing to delete, or to lock, when that one committed.
Delete(t) ==
  /\ Op(t, "cancel") /\ Ran(t, "delete")
  /\ IF Id(t) \in articles THEN Lock(t, ArticleRow(Id(t))) ELSE UNCHANGED held
  /\ tx' = [tx EXCEPT ![t].step = "adjust"]
  /\ UNCHANGED <<tables, given, miscounted>>

LowLeft(t, g, nums) == IF nums = {} THEN Marks(t, g).high ELSE Min(nums)

\* The two UPDATEs of the group of the next row read.
Adjust(t) ==
  /\ Op(t, "cancel") /\ Ran(t, "adjust") /\ tx[t].next <= Len(tx[t].groups)
  /\ LET g    == tx[t].groups[tx[t].next]
         nums == {r.num : r \in {x \in overview : x.group = g /\ x.id # Id(t)}}
     IN  /\ Lock(t, GroupRow(g))
         /\ tx' = [tx EXCEPT
              ![t].next = @ + 1,
              ![t].marks = Wrote(t, g, [high  |-> Marks(t, g).high,
                                        low   |-> LowLeft(t, g, nums),
                                        count |-> Max({Marks(t, g).count - 1, 0})])]
  /\ UNCHANGED <<tables, given, miscounted>>

CommitCancel(t) ==
  /\ Op(t, "cancel") /\ Ran(t, "adjust") /\ tx[t].next > Len(tx[t].groups)
  /\ articles' = articles \ {Id(t)}
  /\ overview' = {r \in overview : r.id # Id(t)}
  /\ Publish(t)
  /\ miscounted' = miscounted \cup {r.group : r \in tx[t].rows \ overview}
  /\ End(t, "committed")
  /\ UNCHANGED <<history, given>>

-----------------------------------------------------------------------------
\* An error or a deadlock: ROLLBACK.
Fails(t) ==
  /\ tx[t].step \notin Endings
  /\ End(t, "failed")
  /\ UNCHANGED <<tables, given, miscounted>>

Step(t) ==
  \/ Claim(t) \/ Number(t) \/ CommitPost(t)
  \/ Find(t) \/ RememberOnly(t) \/ ReadRows(t) \/ Delete(t) \/ Adjust(t) \/ CommitCancel(t)

Next == \E t \in Txns : Step(t) \/ Fails(t)

Spec == Init /\ [][Next]_vars

-----------------------------------------------------------------------------
(* Properties. *)

Row == [group : Groups, num : Nat, id : MsgIds]

\* Types.
TypeOK ==
  /\ history \subseteq MsgIds /\ articles \subseteq MsgIds
  /\ overview \subseteq Row /\ given \subseteq Row
  /\ low \in [Groups -> Nat] /\ high \in [Groups -> Nat] /\ count \in [Groups -> Nat]
  /\ held \in [Txns -> SUBSET Lockable] /\ miscounted \subseteq Groups
  /\ \A t \in Txns :
       /\ tx[t].step \in {"begin", "number", "remember", "read", "delete", "adjust"} \cup Endings
       /\ tx[t].groups \in Seq(Groups)
       /\ tx[t].rows \subseteq Row

EverStored == {r.id : r \in given}

\* What a cancel is about to delete, and the rows it read.
Deleting(t) ==
  IF Op(t, "cancel") /\ tx[t].step \in {"delete", "adjust"}
  THEN [id |-> {Id(t)}, at |-> 0, rows |-> tx[t].rows]
  ELSE [id |-> {}, at |-> -1, rows |-> {}]

Atomic == INSTANCE ArticleStore WITH
  Peers <- {}, Sweepers <- {}, Scheduled <- {}, Watched <- {}, Alerted <- {},
  Statuses <- {}, Policies <- {}, Cancels <- Txns,
  FloodDays <- 1, HistoryDays <- 1, MaxDay <- 0,
  Listings <- {[g \in Groups |-> Cardinality({i \in DOMAIN Work[t].list : Work[t].list[i] = g})] :
                 t \in Txns},
  groups <- Groups, status <- [g \in Groups |-> "y"], mode <- [g \in Groups |-> ""],
  keep <- [g \in Groups |-> 0], bans <- {}, blockedAlert <- {},
  storedAt <- [m \in MsgIds |-> IF m \in EverStored THEN 0 ELSE -1],
  arrivedAt <- [m \in MsgIds |-> IF m \in history THEN 0 ELSE -1],
  queue <- {}, cancel <- [t \in Txns |-> Deleting(t)], sweep <- <<>>, day <- 0,
  misplaced <- {}

\* Posts that share groups and Message-IDs, listed in any order, and cancels among them,
\* two of one article included: whatever their statements do to each other, each commit is
\* one step of ArticleStore, so numbers and marks are those of some serial order, and so
\* are the counts but for a row two cancels subtract.  This is Atomic!Spec, with the steps
\* that change nothing here said first.
PostsAreAtomic == Atomic!Init /\ [][UNCHANGED vars \/ Atomic!Next]_(Atomic!vars)

\* ops_test.go:20-29 and postgres_ops.go:49 ("so it will not be reaccepted"): after a
\* cancel the article is not there.
CancelWithdraws ==
  \A t \in Txns : Op(t, "cancel") /\ tx[t].step \in {"committed", "unknown"}
    => Id(t) \notin articles
=============================================================================
