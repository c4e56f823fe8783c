---------------------------- MODULE ArticleStore ----------------------------
(***************************************************************************)
(* The article store of the server as its committed statements change it:  *)
(* newsgroup rows, articles, overview rows (an article's number in each    *)
(* group that carries it), the Message-ID history and the outbound feed    *)
(* queue.  Post and DeleteGroup are transactions of one step.  A cancel is *)
(* two: the overview rows it reads without a lock, and its commit.  So is  *)
(* the purge's transaction: the DELETE with the snapshot its recount takes *)
(* next, and the commit.  PurgeUnwantedArticles and Expire are several     *)
(* autocommitted statements, so each is several steps of a sweeper that    *)
(* can fail between two of them, and everything else interleaves with      *)
(* them.  StoreTxn has Post and CancelMessageID as their statements and    *)
(* shows that they are these steps.                                        *)
(*                                                                         *)
(* Two reads that follow one another (ban patterns and group list, article *)
(* ids and sibling groups, an article and its rows) are one step.  A       *)
(* cancel's new low mark is that of its commit: an expiry in between would *)
(* leave a lower one.  A feed_queue row put in while a cancel or a purge   *)
(* commits is one put in afterwards.                                       *)
(*                                                                         *)
(* Left to other modules: the alert table (here only which groups have a   *)
(* blocked alert), accept counting, descriptions and origin, statistics,   *)
(* and a user's subscriptions and read marks.                              *)
(***************************************************************************)
EXTENDS Integers, FiniteSets, FiniteSetsExt

CONSTANTS
  Groups,       \* newsgroup names
  MsgIds,       \* Message-IDs
  Peers,        \* outbound peers
  Cancels,      \* callers of CancelMessageID: control messages, administrators
  Sweepers,     \* callers of purge and expire: the hourly job and admin requests
  Scheduled,    \* the hourly job among them
  Watched,      \* bound: the groups retention decisions and bans are made about
  Alerted,      \* bound: those about which there may be an alert
  Listings,     \* Newsgroups headers: how often each group is listed
  Statuses,     \* group statuses an upsert may set, out of "y", "m", "n"
  Policies,     \* <<days, mode>> pairs SetGroupRetention may be given
  FloodDays,    \* retention of a flooded group, in days
  HistoryDays,  \* how long a Message-ID without article is remembered
  MaxNum,       \* bound: highest article number of a run
  MaxDay        \* bound: last day of a run

Modes == {"", "auto", "whitelist", "blocked"}

ASSUME GroupsAssumption    == IsFiniteSet(Groups)
ASSUME WatchedAssumption   == Watched \subseteq Groups /\ Alerted \subseteq Groups
ASSUME ScheduledAssumption == Scheduled \subseteq Sweepers
ASSUME ListingsAssumption  == Listings \subseteq [Groups -> Nat]
ASSUME StatusesAssumption  == Statuses \subseteq {"y", "m", "n"}
ASSUME PoliciesAssumption  == Policies \subseteq (Nat \X Modes)
ASSUME DaysAssumption      == FloodDays \in Nat \ {0} /\ HistoryDays \in Nat \ {0}
ASSUME BoundsAssumption    == MaxNum \in Nat /\ MaxDay \in Nat

VARIABLES
  \* newsgroups: the rows, and per row its columns (defaults where no row is)
  groups, status, mode, keep, low, high, count,
  bans,          \* groups matched by some pattern of group_bans
  blockedAlert,  \* groups with an alert of status "blocked"
  articles,      \* Message-IDs with an articles row
  storedAt,      \* day of the latest articles row of a Message-ID (kept after it goes)
  overview,      \* rows [group, num, id]
  history,       \* Message-IDs with a history row
  arrivedAt,     \* day of the latest history row of a Message-ID (kept after it goes)
  queue,         \* feed_queue rows <<peer, id>>
  cancel,        \* the article each canceller is about to delete, with the rows it read
  sweep,         \* the purge or expire each sweeper is in the middle of
  day,           \* the clock
  \* History variables: every number assigned since the group was created; the groups
  \* from which rows were subtracted that were not there, or whose recount missed a post;
  \* the groups whose low mark comes from a recount of rows that were no longer so.
  given, miscounted, misplaced

groupVars   == <<groups, status, mode, keep, low, high, count>>
policyVars  == <<bans, blockedAlert>>
articleVars == <<articles, storedAt, overview, given>>
historyVars == <<history, arrivedAt>>
driftVars   == <<cancel, miscounted, misplaced>>
vars == <<groupVars, policyVars, articleVars, historyVars, driftVars, queue, sweep, day>>

Never == -1

RowsIn(rows, g) == {r \in rows : r.group = g}

\* Mutation of RowsOf: one of several crossposted rows of an article.
OneRowOf(rows, ids) ==
  {CHOOSE r \in rows : r.id = m : m \in {x \in ids : \E r \in rows : r.id = x}}
RowsOf(rows, ids) == {r \in rows : r.id \in ids}
NumsIn(rows, g) == {r.num : r \in RowsIn(rows, g)}

\* Mutation of LowOf: an empty group's mark left NULL.
LowOrNull(rows, g) == IF RowsIn(rows, g) = {} THEN -1 ELSE Min(NumsIn(rows, g))

\* COALESCE((SELECT MIN(article_num) ...), high)
LowOf(rows, g) == IF RowsIn(rows, g) = {} THEN high[g] ELSE Min(NumsIn(rows, g))

NoCancel == [id |-> {}, at |-> Never, rows |-> {}]
Idle == [step |-> "idle", names |-> {}, rows |-> {}, affected |-> {}, seen |-> {},
         thenExpire |-> FALSE]

PurgeSteps  == {"alerts", "names", "select", "delete", "commit"}
ExpireSteps == {"overview", "orphans", "history"}

Init ==
  /\ groups \in SUBSET Groups
  /\ status = [g \in Groups |-> "y"]
  /\ mode = [g \in Groups |-> ""]
  /\ keep = [g \in Groups |-> 0]
  /\ low = [g \in Groups |-> 0]
  /\ high = [g \in Groups |-> 0]
  /\ count = [g \in Groups |-> 0]
  /\ bans = {}
  /\ blockedAlert = {}
  /\ articles = {}
  /\ storedAt = [m \in MsgIds |-> Never]
  /\ overview = {}
  /\ history = {}
  /\ arrivedAt = [m \in MsgIds |-> Never]
  /\ queue = {}
  /\ cancel = [c \in Cancels |-> NoCancel]
  /\ sweep = [s \in Sweepers |-> Idle]
  /\ day = 0
  /\ given = {} /\ miscounted = {} /\ misplaced = {}

-----------------------------------------------------------------------------
(* Articles. *)

\* INSERT INTO history ... ON CONFLICT DO NOTHING: an id already there keeps its day.
Remembered(m) ==
  /\ history' = history \cup {m}
  /\ arrivedAt' = IF m \in history THEN arrivedAt ELSE [arrivedAt EXCEPT ![m] = day]

\* The groups of a listing that take the article: they exist and accept posts.
Carrying(listing) == {g \in groups : listing[g] > 0 /\ status[g] # "n"}

\* Mutation of NewRows: numbers continue from the articles there are.
NewRowsByCount(m, listing) ==
  UNION {{[group |-> g, num |-> count[g] + i, id |-> m] : i \in 1..listing[g]} :
           g \in Carrying(listing)}

\* Another: one row for a group listed twice.
NewRowsOnce(m, listing) ==
  {[group |-> g, num |-> high[g] + listing[g], id |-> m] : g \in Carrying(listing)}

\* One overview row for each time a carrying group is listed.
NewRows(m, listing) ==
  UNION {{[group |-> g, num |-> high[g] + i, id |-> m] : i \in 1..listing[g]} :
           g \in Carrying(listing)}

Post(m, listing) ==
  /\ m \notin history
  /\ Carrying(listing) # {}
  /\ \A g \in Carrying(listing) : high[g] + listing[g] <= MaxNum
  /\ Remembered(m)
  /\ articles' = articles \cup {m}
  /\ storedAt' = [storedAt EXCEPT ![m] = day]
  /\ overview' = overview \cup NewRows(m, listing)
  /\ given' = given \cup NewRows(m, listing)
  /\ high' = [g \in Groups |->
                IF g \in Carrying(listing) THEN high[g] + listing[g] ELSE high[g]]
  /\ low' = [g \in Groups |->
               IF g \in Carrying(listing) /\ low[g] = 0 THEN high[g] + 1 ELSE low[g]]
  /\ count' = [g \in Groups |->
                 IF g \in Carrying(listing) THEN count[g] + listing[g] ELSE count[g]]
  /\ UNCHANGED <<groups, status, mode, keep, policyVars, driftVars, queue, sweep, day>>

RememberMessageID(m) ==
  /\ Remembered(m)
  /\ UNCHANGED <<groupVars, policyVars, articleVars, driftVars, queue, sweep, day>>

\* A cancel for an article the store does not have: only the id is kept.
CancelUnknown(m) ==
  /\ m \notin articles
  /\ Remembered(m)
  /\ UNCHANGED <<groupVars, policyVars, articleVars, driftVars, queue, sweep, day>>

\* Mutation of Fewer: every row of a crosspost subtracted from each of its groups.
FewerByAll(g, gone) == Max({count[g] - Cardinality(gone), 0})

\* GREATEST(article_count - 1, 0) for each row of the group that goes.
Fewer(g, gone) == Max({count[g] - Cardinality(RowsIn(gone, g)), 0})

\* Mutation of Unqueued: the feed_queue rows stay.
QueueUntouched(ids) == queue

Unqueued(ids) == {q \in queue : q[2] \notin ids}

\* The articles whose rows an open purge transaction has deleted: who comes to change
\* one waits for the end of it.
Locked == {m \in articles : \E s \in Sweepers : /\ sweep[s].step = "commit"
                                                /\ <<m, storedAt[m]>> \in sweep[s].rows}

\* Another cancel or a purge may delete the article between finding it and reading
\* its rows, and from then until this cancel comes to delete it.
CancelReads(c, m) ==
  /\ cancel[c] = NoCancel
  /\ storedAt[m] # Never
  /\ cancel' = [cancel EXCEPT ![c] = [id   |-> {m},
                                     at   |-> storedAt[m],
                                     rows |-> RowsOf(overview, {m})]]
  /\ UNCHANGED <<groupVars, policyVars, articleVars, historyVars, miscounted, misplaced,
                 queue, sweep, day>>

\* The article goes, if it is still there, and every group of a row read is adjusted.
CancelCommits(c, m) ==
  /\ cancel[c].id = {m}
  /\ m \notin Locked
  /\ LET here == IF storedAt[m] = cancel[c].at THEN articles \cap {m} ELSE {}
         read == cancel[c].rows
         left == overview \ RowsOf(overview, here)
         hit  == {r.group : r \in read}
     IN  /\ articles' = articles \ here
         /\ overview' = left
         /\ count' = [g \in Groups |-> IF g \in hit THEN Fewer(g, read) ELSE count[g]]
         /\ low' = [g \in Groups |-> IF g \in hit THEN LowOf(left, g) ELSE low[g]]
         /\ miscounted' = miscounted \cup {r.group : r \in read \ (overview \ left)}
         /\ misplaced' = misplaced \ hit
  /\ queue' = Unqueued({m})
  /\ Remembered(m)
  /\ cancel' = [cancel EXCEPT ![c] = NoCancel]
  /\ UNCHANGED <<groups, status, mode, keep, high, policyVars, storedAt, given, sweep, day>>

\* A statement fails, or the server breaks a deadlock.
CancelFails(c) ==
  /\ cancel' = [cancel EXCEPT ![c] = NoCancel]
  /\ UNCHANGED <<groupVars, policyVars, articleVars, historyVars, miscounted, misplaced,
                 queue, sweep, day>>

-----------------------------------------------------------------------------
(* Newsgroup rows. *)

Without(f, g, default) == [f EXCEPT ![g] = default]

\* EnsureGroup, ApplyControlGroup and DisableControlGroup are upserts that set the
\* status and leave the water marks of an existing row alone.
EnsureGroup(g, st) ==
  /\ groups' = groups \cup {g}
  /\ status' = [status EXCEPT ![g] = st]
  /\ UNCHANGED <<mode, keep, low, high, count, policyVars, articleVars, historyVars,
                 driftVars, queue, sweep, day>>

\* A cancel that read rows of the group no longer finds it, nor does a recount that
\* waited for its row: a group made again under the name is another row.
DeleteGroup(g) ==
  /\ g \in groups
  /\ RowsOf(RowsIn(overview, g), Locked) = {}
  /\ LET sole == {m \in articles : /\ RowsOf(overview, {m}) # {}
                                   /\ \A r \in RowsOf(overview, {m}) : r.group = g}
     IN  articles' = articles \ sole
  /\ overview' = overview \ RowsIn(overview, g)
  /\ given' = given \ RowsIn(given, g)
  /\ groups' = groups \ {g}
  /\ status' = Without(status, g, "y")
  /\ mode' = Without(mode, g, "")
  /\ keep' = Without(keep, g, 0)
  /\ low' = Without(low, g, 0)
  /\ high' = Without(high, g, 0)
  /\ count' = Without(count, g, 0)
  /\ miscounted' = miscounted \ {g} /\ misplaced' = misplaced \ {g}
  /\ cancel' = [c \in Cancels |-> [cancel[c] EXCEPT !.rows = @ \ RowsIn(@, g)]]
  /\ sweep' = [s \in Sweepers |->
                 [sweep[s] EXCEPT !.seen = @ \ RowsIn(@, g),
                                  !.affected = IF sweep[s].step = "commit" THEN @ \ {g} ELSE @]]
  /\ UNCHANGED <<policyVars, storedAt, historyVars, queue, day>>

SetRetention(g, days, md) ==
  /\ keep' = [keep EXCEPT ![g] = days]
  /\ mode' = [mode EXCEPT ![g] = md]

SetGroupRetention(g, policy) ==
  /\ g \in groups
  /\ SetRetention(g, policy[1], policy[2])
  /\ UNCHANGED <<groups, status, low, high, count, policyVars, articleVars, historyVars,
                 driftVars, queue, sweep, day>>

\* What NoteAccept makes on a group it finds flooded or seeded with binaries.
NoteAcceptFlood(g) ==
  /\ g \in groups
  /\ mode[g] # "whitelist"
  /\ SetRetention(g, FloodDays, "auto")
  /\ UNCHANGED <<groups, status, low, high, count, policyVars, articleVars, historyVars,
                 driftVars, queue, sweep, day>>

\* ResolveGroupAlert(id, "block"): the group row, if there is one, then the alert,
\* unless that second statement fails.
BlockAlert(g) ==
  /\ blockedAlert' \in {blockedAlert, blockedAlert \cup {g}}
  /\ IF g \in groups
     THEN SetRetention(g, 0, "blocked") /\ status' = [status EXCEPT ![g] = "n"]
     ELSE UNCHANGED <<mode, keep, status>>
  /\ UNCHANGED <<groups, low, high, count, bans, articleVars, historyVars, driftVars,
                 queue, sweep, day>>

\* ResolveGroupAlert(id, "whitelist" | "reset" | "dismiss"): the alert resolved may be
\* the blocked one or another alert of the same group.
UnblockAlert(g, md) ==
  /\ blockedAlert' \in {blockedAlert, blockedAlert \ {g}}
  /\ \/ g \in groups /\ SetRetention(g, 0, md)
     \/ UNCHANGED <<mode, keep>>
  /\ UNCHANGED <<groups, status, low, high, count, bans, articleVars, historyVars,
                 driftVars, queue, sweep, day>>

AddGroupBan(g) ==
  /\ bans' = bans \cup {g}
  /\ UNCHANGED <<groupVars, blockedAlert, articleVars, historyVars, driftVars, queue,
                 sweep, day>>

DeleteGroupBan(g) ==
  /\ bans' = bans \ {g}
  /\ UNCHANGED <<groupVars, blockedAlert, articleVars, historyVars, driftVars, queue,
                 sweep, day>>

-----------------------------------------------------------------------------
(* The feed queue rows the other operations delete. *)

EnqueueFeed(p, m) ==
  /\ storedAt[m] # Never
  /\ queue' = queue \cup {<<p, m>>}
  /\ UNCHANGED <<groupVars, policyVars, articleVars, historyVars, driftVars, sweep, day>>

CompleteFeed(p, m) ==
  /\ <<p, m>> \in queue
  /\ queue' = queue \ {<<p, m>>}
  /\ UNCHANGED <<groupVars, policyVars, articleVars, historyVars, driftVars, sweep, day>>

\* FlushFeedQueue for one peer; peer 0 (all peers) is the set Peers.
FlushFeedQueue(ps) ==
  /\ queue' = {q \in queue : q[1] \notin ps}
  /\ UNCHANGED <<groupVars, policyVars, articleVars, historyVars, driftVars, sweep, day>>

-----------------------------------------------------------------------------
(* PurgeUnwantedArticles, then Expire when the caller goes on to it. *)

At(s, step) == sweep[s].step = step
Goto(s, step) == sweep' = [sweep EXCEPT ![s].step = step]

\* Where a purge that is over leaves its caller.
AfterPurge(s) ==
  sweep' = [sweep EXCEPT ![s] =
              IF sweep[s].thenExpire THEN [Idle EXCEPT !.step = "overview", !.thenExpire = TRUE]
                                     ELSE Idle]

StartSweep(s, thenExpire) ==
  /\ At(s, "idle")
  /\ s \in Scheduled => thenExpire
  /\ sweep' = [sweep EXCEPT ![s] = [Idle EXCEPT !.step = "alerts", !.thenExpire = thenExpire]]
  /\ UNCHANGED <<groupVars, policyVars, articleVars, historyVars, driftVars, queue, day>>

\* Every group with a blocked alert is blocked again.
PurgeAlerts(s) ==
  /\ At(s, "alerts")
  /\ LET hit == groups \cap blockedAlert
     IN  /\ status' = [g \in Groups |-> IF g \in hit THEN "n" ELSE status[g]]
         /\ keep' = [g \in Groups |-> IF g \in hit THEN 0 ELSE keep[g]]
         /\ mode' = [g \in Groups |-> IF g \in hit THEN "blocked" ELSE mode[g]]
  /\ Goto(s, "names")
  /\ UNCHANGED <<groups, low, high, count, policyVars, articleVars, historyVars,
                 driftVars, queue, day>>

\* Mutation of Unwanted: bans are forgotten.
UnwantedByMode == {g \in groups : mode[g] = "blocked"}

Unwanted == {g \in groups : mode[g] = "blocked" \/ g \in bans}

PurgeNames(s) ==
  /\ At(s, "names")
  /\ IF Unwanted = {}
     THEN AfterPurge(s)
     ELSE sweep' = [sweep EXCEPT ![s].step = "select", ![s].names = Unwanted]
  /\ UNCHANGED <<groupVars, policyVars, articleVars, historyVars, driftVars, queue, day>>

\* An articles row is named by its Message-ID and the day it was stored.
PurgeSelect(s) ==
  /\ At(s, "select")
  /\ LET names == sweep[s].names
         ids   == {r.id : r \in {x \in overview : x.group \in names}}
     IN  IF ids = {}
         THEN AfterPurge(s)
         ELSE sweep' = [sweep EXCEPT
                          ![s].step = "delete",
                          ![s].rows = {<<m, storedAt[m]>> : m \in ids},
                          ![s].affected = names \cup {r.group : r \in RowsOf(overview, ids)}]
  /\ UNCHANGED <<groupVars, policyVars, articleVars, historyVars, driftVars, queue, day>>

\* The purge's transaction up to its recount: DELETE FROM articles waits for whoever has
\* one of them locked, and the UPDATE that follows sees the rows left by then.
PurgeDelete(s) ==
  /\ At(s, "delete")
  /\ LET doomed == {m \in articles : <<m, storedAt[m]>> \in sweep[s].rows}
         hit    == groups \cap sweep[s].affected
     IN  /\ doomed \cap Locked = {}
         /\ sweep' = [sweep EXCEPT
              ![s].step = "commit",
              ![s].affected = hit,
              ![s].seen = {r \in overview : r.group \in hit /\ r.id \notin doomed}]
  /\ UNCHANGED <<groupVars, policyVars, articleVars, historyVars, driftVars, queue, day>>

\* The recount and COMMIT.  The UPDATE waits for posts and cancels that hold the row of
\* a group and then has the row as they left it, but it counts what it saw when it began.
PurgeCommit(s) ==
  /\ At(s, "commit")
  /\ LET named  == {x[1] : x \in sweep[s].rows}
         doomed == {m \in articles : <<m, storedAt[m]>> \in sweep[s].rows}
         left   == overview \ RowsOf(overview, doomed)
         hit    == sweep[s].affected
         seen   == sweep[s].seen
         posted == {g \in hit : ~(RowsIn(left, g) \subseteq seen)}
         stale  == {g \in hit : RowsIn(left, g) # RowsIn(seen, g)}
     IN  /\ queue' = Unqueued(named)
         /\ articles' = articles \ doomed
         /\ overview' = left
         /\ count' = [g \in Groups |-> 
                        IF g \in hit THEN Cardinality(RowsIn(seen, g)) ELSE count[g]]
         /\ low' = [g \in Groups |-> IF g \in hit THEN LowOf(seen, g) ELSE low[g]]
         /\ miscounted' = (miscounted \ hit) \cup posted
         /\ misplaced' = (misplaced \ hit) \cup stale
  /\ AfterPurge(s)
  /\ UNCHANGED <<groups, status, mode, keep, high, policyVars, storedAt, given, historyVars,
                 cancel, day>>

\* Mutation of Overdue: groups without retention expire at once.
OverdueUnguarded(r) == storedAt[r.id] < day - keep[r.group]

Overdue(r) == keep[r.group] > 0 /\ storedAt[r.id] < day - keep[r.group]

ExpireOverview(s) ==
  /\ At(s, "overview")
  /\ \A r \in overview : Overdue(r) => r.id \notin Locked
  /\ overview' = {r \in overview : ~Overdue(r)}
  /\ Goto(s, "orphans")
  /\ UNCHANGED <<groupVars, policyVars, articles, storedAt, given, historyVars,
                 driftVars, queue, day>>

Orphans == {m \in articles : RowsOf(overview, {m}) = {}}

\* Mutation of ExpireArticles: its condition never holds.
ExpireNoArticles(s) ==
  /\ At(s, "orphans")
  /\ Goto(s, "history")
  /\ UNCHANGED <<groupVars, policyVars, articleVars, historyVars, driftVars, queue, day>>

ExpireArticles(s) ==
  /\ At(s, "orphans")
  /\ Orphans \cap Locked = {}
  /\ articles' = articles \ Orphans
  /\ Goto(s, "history")
  /\ UNCHANGED <<groupVars, policyVars, storedAt, overview, given, historyVars,
                 driftVars, queue, day>>

\* Mutations of Forgettable: ids of stored articles too, or a day early.
ForgettableStored == {m \in history : arrivedAt[m] < day - HistoryDays}
ForgettableEarly  == {m \in history \ articles : arrivedAt[m] <= day - HistoryDays}

Forgettable == {m \in history \ articles : arrivedAt[m] < day - HistoryDays}

ExpireHistory(s) ==
  /\ At(s, "history")
  /\ history' = history \ Forgettable
  /\ sweep' = [sweep EXCEPT ![s] = Idle]
  /\ UNCHANGED <<groupVars, policyVars, articleVars, arrivedAt, driftVars, queue, day>>

\* A statement fails.  The hourly job expires although its purge failed; an admin
\* request gives up.
SweepFails(s) ==
  /\ ~At(s, "idle")
  /\ IF s \in Scheduled /\ sweep[s].step \in PurgeSteps
     THEN AfterPurge(s)
     ELSE sweep' = [sweep EXCEPT ![s] = Idle]
  /\ UNCHANGED <<groupVars, policyVars, articleVars, historyVars, driftVars, queue, day>>

\* The process stops between two statements; only the database survives.
Crash ==
  /\ sweep' = [s \in Sweepers |-> Idle]
  /\ cancel' = [c \in Cancels |-> NoCancel]
  /\ UNCHANGED <<groupVars, policyVars, articleVars, historyVars, miscounted, misplaced,
                 queue, day>>

SweepStep(s) ==
  \/ PurgeAlerts(s) \/ PurgeNames(s) \/ PurgeSelect(s) \/ PurgeDelete(s) \/ PurgeCommit(s)
  \/ ExpireOverview(s) \/ ExpireArticles(s) \/ ExpireHistory(s)

Tick ==
  /\ day < MaxDay
  /\ day' = day + 1
  /\ UNCHANGED <<groupVars, policyVars, articleVars, historyVars, driftVars, queue, sweep>>

-----------------------------------------------------------------------------
ArticleOp(m) ==
  \/ \E listing \in Listings : Post(m, listing)
  \/ RememberMessageID(m)
  \/ CancelUnknown(m)
  \/ \E c \in Cancels : CancelReads(c, m) \/ CancelCommits(c, m)

GroupOp(g) ==
  \/ \E st \in Statuses : EnsureGroup(g, st)
  \/ DeleteGroup(g)

PolicyOp(g) ==
  \/ \E policy \in Policies : SetGroupRetention(g, policy)
  \/ NoteAcceptFlood(g)
  \/ AddGroupBan(g)
  \/ DeleteGroupBan(g)

AlertOp(g) == BlockAlert(g) \/ \E md \in {"", "whitelist"} : UnblockAlert(g, md)

QueueOp(p) ==
  \/ \E m \in MsgIds : EnqueueFeed(p, m) \/ CompleteFeed(p, m)
  \/ FlushFeedQueue({p})

SweepOp(s) ==
  \/ \E thenExpire \in BOOLEAN : StartSweep(s, thenExpire)
  \/ SweepStep(s)
  \/ SweepFails(s)

Next ==
  \/ \E m \in MsgIds : ArticleOp(m)
  \/ \E g \in Groups : GroupOp(g)
  \/ \E g \in Watched : PolicyOp(g)
  \/ \E g \in Alerted : AlertOp(g)
  \/ \E p \in Peers : QueueOp(p)
  \/ FlushFeedQueue(Peers)
  \/ \E c \in Cancels : CancelFails(c)
  \/ \E s \in Sweepers : SweepOp(s)
  \/ Crash
  \/ Tick

Spec == Init /\ [][Next]_vars

\* The hourly job starts again and again, and no statement of it fails every time.
SweepFairness(s) ==
  /\ WF_vars(StartSweep(s, TRUE))
  /\ SF_vars(PurgeAlerts(s)) /\ SF_vars(PurgeNames(s)) /\ SF_vars(PurgeSelect(s))
  /\ SF_vars(PurgeDelete(s)) /\ SF_vars(PurgeCommit(s))
  /\ SF_vars(ExpireOverview(s)) /\ SF_vars(ExpireArticles(s)) /\ SF_vars(ExpireHistory(s))

FairSpec == Spec /\ \A s \in Scheduled : SweepFairness(s)

-----------------------------------------------------------------------------
(* Properties. *)

Rows == [group : Groups, num : Nat, id : MsgIds]

SweepStates ==
  [step : {"idle"} \cup PurgeSteps \cup ExpireSteps, names : SUBSET Groups,
   rows : SUBSET (MsgIds \X Int), affected : SUBSET Groups, seen : SUBSET Rows,
   thenExpire : BOOLEAN]

CancelStates == [id : SUBSET MsgIds, at : Int, rows : SUBSET Rows]

\* Every table holds rows of its type.
TypeOK ==
  /\ groups \subseteq Groups
  /\ status \in [Groups -> {"y", "m", "n"}]
  /\ mode \in [Groups -> Modes]
  /\ keep \in [Groups -> Nat]
  /\ low \in [Groups -> Nat]
  /\ high \in [Groups -> Nat]
  /\ count \in [Groups -> Nat]
  /\ bans \subseteq Groups
  /\ blockedAlert \subseteq Groups
  /\ articles \subseteq MsgIds
  /\ storedAt \in [MsgIds -> Nat \cup {Never}]
  /\ overview \subseteq Rows
  /\ history \subseteq MsgIds
  /\ arrivedAt \in [MsgIds -> Nat \cup {Never}]
  /\ queue \subseteq Peers \X MsgIds
  /\ cancel \in [Cancels -> CancelStates]
  /\ sweep \in [Sweepers -> SweepStates]
  /\ day \in Nat
  /\ given \subseteq Rows
  /\ miscounted \subseteq Groups /\ misplaced \subseteq Groups

\* As long as a group exists, a number of it never names two articles: not after
\* cancel, purge or expiry emptied the group (postgres_ops.go: "high stays for NNTP
\* stability"), so a reader's stored number never turns into another article.
NumberNamesOneArticle ==
  \A x, y \in given : x.group = y.group /\ x.num = y.num => x.id = y.id

\* What GROUP reports brackets what is there, whatever mix of posts, cancels, purges and
\* expiry recomputed the marks: an article number is never above the high mark, and below
\* the low mark only after a purge whose recount waited for a group while a post or a
\* cancel committed in it (postgres_purge.go, UPDATE newsgroups at READ COMMITTED).
RowsWithinWaterMarks ==
  \A r \in overview : /\ r.group \in groups
                      /\ r.num <= high[r.group]
                      /\ r.group \notin misplaced => low[r.group] <= r.num

\* The count GROUP reports is less than the articles the group has only after a cancel
\* subtracted a row that another cancel, a purge or expiry had removed since it was read,
\* or a purge's recount missed a post: otherwise Post adds one per row, Cancel subtracts
\* one per row, a purge recounts, and expiry subtracts nothing.
CountCoversRows ==
  \A g \in Groups \ miscounted : Cardinality(RowsIn(overview, g)) <= count[g]

\* A stored article's Message-ID is in history for as long as it is stored, with the
\* day it was stored: neither Remember, Cancel nor pruning ever opens a window in which
\* a stored article could be accepted a second time.
StoredIsRemembered ==
  \A m \in articles : m \in history /\ arrivedAt[m] = storedAt[m]

\* Each overview row points to a stored article and was assigned by a Post.
RowsReferToArticles ==
  \A r \in overview : r.id \in articles /\ r \in given

\* An article that was here, or was remembered, is not accepted again until its
\* history row has outlived history_days, whatever removed the article.
NoReacceptWithinHistoryDays ==
  [][\A m \in articles' \ articles :
        arrivedAt[m] # Never => day - arrivedAt[m] > HistoryDays]_vars

\* The high mark of a group that stays never goes back (RFC 3977 6.1.1), so a client's
\* newsrc stays valid, and the low mark only to or from one a purge misplaced.
WaterMarksMonotone ==
  [][\A g \in groups \cap groups' :
        /\ high[g] <= high'[g]
        /\ g \notin misplaced \cup misplaced' => low[g] <= low'[g]]_vars

\* A crossposted article is withdrawn as a whole: a row of it only goes alone when its
\* group is deleted or expires articles; cancel and purge leave no sibling behind.
WithdrawnEverywhere ==
  [][\A r \in overview \ overview' :
        r.id \in articles' => r.group \notin groups' \/ keep[r.group] > 0]_vars

\* A cancelled or purged article is no longer waiting for any peer; a queue row outlives
\* its article only when the article expired or went with its last group, and then the
\* worker drops it.
WithdrawnFromQueue ==
  [][\A q \in queue \cap queue' :
        q[2] \in articles \ articles' =>
          \A r \in RowsOf(overview, {q[2]}) : r.group \notin groups']_vars

\* The numbers and marks of the groups are those of Numbering: posts append without a gap,
\* crossposts listed twice included, nothing comes back under a number that was withdrawn,
\* and only DELETE of the group starts it anew (postgres.go Post, postgres_ops.go "high
\* stays for NNTP stability").  A purge that misses a post or a cancel loses the low mark
\* of the group, until it is recomputed, and nothing else.
Contract == INSTANCE Numbering WITH
  Newsgroups <- Groups, carried <- groups, numbers <- [g \in Groups |-> NumsIn(overview, g)],
  lowMark <- low, highMark <- high, astray <- misplaced

KeepsNumbers == Contract!Spec

\* A group that stays ignored ends up without articles, even if some were accepted
\* between the ban check of a post and its transaction, or a purge failed half way.
BannedGroupsEmptied ==
  \A g \in Groups : <>[](g \in bans) => <>[](RowsIn(overview, g) = {})

\* Articles left without a row by an expiry that failed after its first statement do
\* not stay: a later sweep removes them.
OrphansSwept ==
  \A m \in MsgIds : (m \in Orphans) ~> (m \notin Orphans)
=============================================================================
