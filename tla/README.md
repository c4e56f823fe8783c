# OpenUsenetServer: a TLA+ development

This directory models OpenUsenetServer (`src/`), a Usenet server in Go on
PostgreSQL: NNTP sessions of readers and peers, an article store, an outbound feed
with a durable queue, retention, and a web portal for administrators and readers.
The modules are translated from the Go and SQL code; TLC checks them on small
instances, and TLAPS proves nearly every safety property those runs check, for every
instance: of the store and its transactions, the feed, the intake, the watchdog, the readers,
the peer filters, the counters, the spool and exports, the Path statistics, and the portal.

## 1. The system

| Component | State | Operations | Talks to |
|---|---|---|---|
| Article store, `internal/store/postgres*.go` | `newsgroups` (status, low, high, count, retention), `articles`, `overview` (article numbers), `history` (Message-IDs), `feed_queue`, `group_bans`, `group_alerts` | Post, CancelMessageID, RememberMessageID, EnsureGroup, DeleteGroup, PurgeUnwantedArticles, Expire, retention and ban changes | called by everything else |
| Memory store, `store/memory*.go` | the same in maps under one mutex | the same | tests |
| NNTP intake, `nntp/session.go` | one session per connection: login, command in progress | POST, IHAVE, CHECK, TAKETHIS | gates, store, mail, spool, feed |
| NNTP reading, `nntp/session.go` | current group and article | GROUP, ARTICLE, OVER, NEXT, NEWNEWS, ... | store |
| Operating mode, `ops/mode.go` | mode and who set it, reader and peer switches, watchdog switch (memory only) | Pause, Throttle, Go, SetReaders, SetPeers, SetWatchdogEnabled | asked by sessions and the portal |
| Watchdog, `ops/watchdog.go` | none between ticks | tick: measure, snapshot, act | mode, feed queue depth |
| Outbound feed, `feed/` | the queue is in the store; workers hold claimed rows | Offer, drainOnce, deliver | store, remote peers |
| Hourly job, `server/server.go` | none | purge, expiry, recount | store, spool |
| Group administration, `control/`, `isc/` | group rows and their origin | newgroup, rmgroup, checkgroups, ISC import | store |
| Moderation, `moderate/`, `mail/` | none | mail a post to its moderator | SMTP |
| Retention alerts and quota, `store/postgres_retention.go` | alerts, accept events, quota counters | NoteAccept, ResolveGroupAlert, ConsumeBinaryPostQuota | store |
| mbox spool, `archive/` | one file per group | Append, Scrub, export, import | store, hourly job |
| Path statistics, `inpaths/` | pending counts, dump files | Record, Flush, Send | sessions |
| Portal, `admin/`, `posting/` | users, web sessions, archive jobs | settings, bans, orders, web reading and posting | all |
| Pure code, `article/`, `wildmat/`, `feed/flags.go`, `inn/`, `config/`, `nntp/wire.go` | none | parse, match, classify | |

Sessions, workers, the watchdog, the hourly job and web requests are goroutines. What
they share is PostgreSQL (READ COMMITTED, several statements outside transactions), the
controller behind a mutex, and files. A crash loses everything but tables and files.

What is hard about it, and where a test hardly reaches:

* several store calls make one command, and other sessions, cancels, the purge and the
  administrator act in between (`session.go`, `postgres_purge.go`);
* purge and expiry are sequences of committed statements that can stop half way;
* water marks are recomputed by four different pieces of SQL;
* a feed row is claimed under a lease that a slow batch outlasts, and a peer's answer can
  be lost;
* the watchdog decides on a snapshot and acts later, beside an administrator;
* some helpers that refuse a command return nil, and the command goes on.

`PROJECT.json` lists each hazard at its line with the properties aimed at it.

### What would make each component correct

* Store: article numbers are never reused or reordered, marks bracket the articles and counts
  cover them unless a stale read got into them, a Message-ID is accepted once while it is
  remembered, a withdrawn article goes everywhere, an unwanted group ends up empty.
* Intake: one copy of an article however many send it; no acknowledgement without
  storing; one final reply; a closed gate stores nothing.
* Feed: nothing leaves the queue undelivered and unexcused; the queue drains; an accepted
  article is offered.
* Mode: an administrator's order stands; a watchdog's closing ends when its reason does.
* Between two servers: a sender drops its row only when the receiver knows the article.
* Spool and exports: a purged article stays in no file, the latest export is whole, and a
  file reads back as it was written.
* Portal: whoever was given a password must change it, a change of password ends the
  sessions before it, the binary quota counts what it lets pass, an unapproved post does
  not reach a moderated group.
* Readers: nothing appears behind a reader's position, NEWNEWS tells of every article,
  a read mark is about the group there is.
* Group list: an `rmgroup` stands until somebody asks for the group again.
* Counters and Path statistics: nothing that is stored is left uncounted, nothing that is
  recorded is lost or counted twice.
* Peer filters: the entry decides what it says, in whatever order it says it.

Several of these hold with an exception that the code does not close; the property then
names the exception (`LostOnlyByStreaming`, `UnapprovedOnlyByRace`,
`NewsMissesOnlySlowPosts`, ...), so that a run shows it is the only one.

## 2. Modules

| Module | Models | How state and actions correspond |
|---|---|---|
| `ArticleStore` | the store between sessions, feed, administrator and sweeps | One variable per table column, keyed by group or Message-ID; `storedAt` and `arrivedAt` are `stored_at` and `arrived_at` in days. A transaction is one action (`Post`, `DeleteGroup`), unless it acts on what it read before others committed: `CancelReads` and `CancelCommits`, and the purge's `PurgeDelete`, up to the snapshot of its recount, and `PurgeCommit`. A statement outside a transaction is one action (`PurgeAlerts`, `PurgeSelect`, `ExpireOverview`, ...). `cancel` is what each canceller has read, `sweep` where each caller of purge and expiry is. `given`, `miscounted` (groups whose count may be too low) and `misplaced` (groups whose low mark came from rows that were no longer so) are history variables. |
| `StoreTxn` | Post and CancelMessageID statement by statement | `tx` is a transaction's step and what it has written, `held` the rows it has locked. A commit publishes all of it. |
| `Numbering` | what a store promises about article numbers | The groups there are, their numbers and marks: articles are appended above the high mark without a gap, withdrawn from anywhere, and the low mark only moves up, except in a group that is `astray`: a withdrawal may lose the low mark, until it is found again. Implemented by `ArticleStore` (`KeepsNumbers`), by what readers see while posts are in flight (`ShowsNumbers`) and, but for its expiry, by `MemoryStore` (`NumbersButForExpire`). |
| `Delivery` | what the feed promises | Debts, deliveries, excuses. |
| `FeedQueue` | `feed.go`, `stream.go`, the queue's SQL | `due` and `later` are the rows whose `next_attempt` is past and to come, `before` the order of the former; `worker` is a running `drainOnce`; `offer` a running `Offer`. `received`, `excused` and `overrun` are history variables. |
| `Gates` | the tests of `ops.Controller` that sessions make | Operators used by `OpsMode` and `Intake`. |
| `OpsMode` | `mode.go`, `watchdog.go`, `admin/ops.go` | `tick` is the watchdog's tick in progress: `Measure` (54-65), `Look` (67), `Act` (89-129). |
| `Intake` | the accepting commands of `session.go` | `session[s]` is the command in progress: its step, article and replies. Each store call is one action; `replies` collects final status lines. |
| `Propagation` | a delivery command by command: `stream.go` against the intake of another server | `row` is the sender's queue row, `awaits` what it waits for on its connection; `b...` are the variables of the receiver, an instance of `Intake`. `OffersArticle`, `SendsArticle` and `HearsAnswer` are the sender's; `Concludes` is what it makes of an answer. |
| `PeerFilters` | `wildmat.go`, `feed/filter.go`, the flags of `feed/flags.go` | No state but `question`: one entry and one article. `MatchGlob`, `GroupsWanted`, `DistributionWanted`, `ParseFlags`, `Allows`, `SkipPeer` are the functions, each loop a recursive function of the turns taken (`Loop`); `Fits`, `Admits` and the right sides of `FiltersDecide` are the definitions they are compared with, which have no loop. |
| `GroupAdmin` | `control.go`, `isc.go`, the group statements of `postgres.go`, the seeding | `active` is the status and origin of each row; `control` the message a session is applying, with what checkgroups still has to do; each statement an action. |
| `WebPosting` | `posting.go`, `moderate/submit.go`, NoteAccept, ResolveGroupAlert, ConsumeBinaryPostQuota | `webPost` is a request's step and what it has read; `quota` the row of a user's day, locked only if it is there. |
| `Accounts` | `admin.go`, `auth/`, `postgres_auth.go` as far as accounts go | `users` are rows, `cookies` sealed cookies in someone's hands, `req` a request with the row it read. A patch reads (`PatchReads`) and writes (`PatchWrites`). |
| `Spool` | `mbox.go`, `mbox_read.go`, and who calls them | `filed` are the groups a message has an overview row in, `rowless` those it lost one in before any purge; `mbox` is the file of each group; `posting` is between a store and its appends, `toScrub` between a purge and its scrub. |
| `ArchiveJobs` | `export.go`, the archive jobs of `admin.go` | `dirs` are the dated directories with their files, whole or not; `export` is a running export, `jobs` what the portal reports. |
| `MemoryStore` | `memory*.go` | One variable per map, one action per operation under the mutex. |
| `ContentStats` | `postgres_stats.go` | `counted` are the committed counters; `recording` and `refresh` the open transactions, whose rows are locked. |
| `PathStats` | `inpaths/` | The pending file, the dump files, a flush with what it loaded, a report with what it read. |
| `Reading` | the reader commands of `session.go`, `admin/reader.go`, the queries behind them | The group's row and overview; `inFlight` posts between their statements; `purge` a purge between its recount's snapshot and its commit; `session` an NNTP reader's group and position, `asked` a poller's last DATE, `mark` and `subscribed` the portal's rows. |
| `MCArticleStore`, `MCStoreTxn`, `MCFeedQueue`, `MCOpsMode`, `MCIntake`, `MCSpool`, `MCServices` | | constants for TLC; `MCServices` also joins parts |
| `ArticleStoreProofs`, `FeedQueueProofs`, `IntakeProofs`, `OpsModeProofs`, `PropagationProofs` | | theorems about the module each is named for; `FeedQueueProofs` also about `PeerFilters`, which decides what is offered |
| `DatabaseProofs` | | theorems about `Reading`, `StoreTxn` and `ContentStats`, which share tables and locks, and `MemoryStore` |
| `FilesProofs` | | theorems about `Spool`, `ArchiveJobs` and `PathStats`, which keep files |
| `PortalProofs` | | theorems about `Accounts`, `GroupAdmin` and `WebPosting`, what administrators and web users change |

`StoreTxn` instantiates `ArticleStore` (its commits refine the store's steps), `FeedQueue`
instantiates `Delivery`, `ArticleStore`, `Reading` and `MemoryStore` instantiate `Numbering`,
`OpsMode` and `Intake` extend `Gates`, `Propagation` instantiates
`Intake` as the receiver.

Definitions headed "Mutation of X" are wrong variants of the definition that follows
them. No specification uses them; each shows that some property notices the mistake
(`mutants` in `PROJECT.json`).

### Abstractions worth knowing

* A purge's recount (`postgres_purge.go:96`) is one UPDATE at READ COMMITTED. It takes its
  snapshot in `PurgeDelete`, may wait for posts and cancels that hold the row of a group,
  and in `PurgeCommit` has that row as they left it but counts what it saw: a post that
  committed meanwhile is not counted and may lie below the new low mark, and the low mark
  may go back behind a cancel. Its rows are written at one moment, and whoever wants an
  article it has deleted waits for its end (`Locked`).
* Two reads that follow each other with nothing of the code's own in between (ban patterns
  and the group list; the articles to purge and their other groups; the dumps and the pending
  file of a Path report) are one step.
* `mode` of a group that a ban pattern matches: `bans` holds the matched groups, since
  patterns are fixed text.
* `FeedQueue` has no clock: a lease or back-off may end at any moment. Attempt counts only
  shape the back-off. Whether a peer wants the articles is one Boolean per peer.
* `Intake` describes an article by what its checks will find (`flaw`). Who is logged in is
  left open.
* `Spool` has the purge as one step; what its files show of it is which rows it found.
* `Spool` has of a body how many `>` stand before its one `From ` line and whose Message-ID
  line it quotes, which is what escaping and scrubbing look at.
* `PathStats` and `ArchiveJobs` have a clock of seconds, since files are named for them; in
  `PathStats` the clock does not move while a dump is being written.
* `Reading` is about one group, and one purge at a time. Only the position, the numbers and
  the times count.
* `MemoryStore` has a group's list of numbers as a set, since each number appended is above all
  in it, and loops over headers and lists as what they leave.
* `GroupAdmin`, `WebPosting`, `Spool` and `MemoryStore` leave what finds a flood, a policy or
  a match to the environment: it may be found at any time.
* `StoreTxn` has PostgreSQL's row locks and snapshots as the comment at its head states
  them. `Fails` covers deadlocks, errors and lost connections.

## 3. Model-checking runs

| Run | Instance and bounds | Shows |
|---|---|---|
| `StoreSafety` | 2 groups, 2 articles, numbers to 2, 3 days, one canceller, one sweeper, one group that can be banned; a header may list a group twice | types, the store properties, and that the store implements `Numbering`, under every interleaving of posts, the steps of a cancel, deletions, bans, purge and expiry statements and their failures |
| `StoreTwoSweeps` | the hourly job and an administrator's sweep at once, alerts, one peer, no days | the queue when two purges work on the same articles |
| `StoreSweepLive` | one group, one article, 3 days, fair sweeps | an ignored group is emptied, orphans go |
| `Services` | the parts listed below | the properties of the parts beside the store |
| `SpoolEscapes` | the spool part of `Services`, with one sweeper and an importer | *violation*: an article with a quoted From line is changed |
| `TxnCancel` | a post and its cancel | *violation*: the cancel succeeds and the article stays |
| `FeedSafety` | 2 articles, 1 peer, 2 workers, batches of 2, an administrator | the queue implements `Delivery`; two deliveries of a row at once need a lease that ran out |
| `FeedDrains` | 2 articles, 1 worker, 1 crash, fair | every row is dealt with |
| `FeedOffers` | 1 article, fair | *violation*: an accepted article is never offered |
| `OpsWatchdog` | 8 readings, on each side of every threshold, fair | only an order the snapshot missed is overridden; a closing ends; overload closes again |
| `IntakeRace` | one session sending all commands and flaws, one sending the same article or its cancel, gates changing, restarts | one copy, no false acknowledgement, one reply per peer command, a pause stops peers |
| `IntakePause` | one session, POST | *violation*: POST is accepted during a pause |

`Services` checks the components that keep tables or files of their own. They share no variable,
so interleaving them would multiply states and show nothing; a behaviour of `MCServices` is a
behaviour of one of its parts, chosen at the start, while the variables of the others keep their
first values. (Readers and a purge are two parts only for the number of states: `ReadingSpec`,
which the theorems are about, has both together. What the components do to one another is inside
the modules: `Spool` has the posts and purges of the store, `Reading` its transactions,
`Propagation` two servers.) The parts and their bounds:

| `part` | Instance | Property |
|---|---|---|
| posts | two posts of one crossposted article, a post of another that lists groups in the opposite order and one of them twice, two cancels of the crossposted article | `PostsAreAtomic`: each commit is a step of `ArticleStore` |
| accounts | 2 names, 2 ids, 1 generation, 2 requests at once, a cookie; a reset, a demotion, an enabling | `GivenPasswordsMustChange`, `PasswordChangeEndsSessions` |
| spool | 2 groups, a crosspost and a plain article, a poster, 2 sweepers, rows that expire, groups that go and come back | `PurgedLeavesSpool` |
| archive | a job, a schedule, an import, one file, 3 seconds, 1 generation kept | `LatestExportIntact` |
| memory | 2 groups, 2 articles, numbers to 2, 1 day | `MemIndexesAgree`, `NumbersButForExpire` |
| stats | 2 articles of one poster with a group in common | `StatsNeverUndercount` |
| paths | see `Services.cfg`; the server and a command line flush the same files | `PathsCountedOnce` |
| web | one header with 2 groups, concurrent requests | `QuotaCountsPosts`, `UnapprovedOnlyByRace` |
| groups | 2 sessions with control messages, an ISC import, administrators, seeding | `RmgroupStands` |
| walk, news, marks | one group, created twice, and numbers to 3: two posts in flight, a reader; a poller (the group created once, numbers to 2); a subscriber with a request under way | `NothingBehindReader`, `ShowsNumbers`, `NewsMissesOnlySlowPosts`, `MarksMeanArticles` |
| purges | the same group, two posts in flight, cancels, expiry and a purge, without readers | `ShowsNumbers` |
| filters | every glob of up to 3 characters against every text, wildmats of up to 3 patterns, distributions of up to 3 tokens, flags fields of up to 2 parts against 5 articles | `FiltersDecide` |
| feeds | one article, two senders (one streaming), a receiver whose gates move, that may not permit a sender, fails and restarts | `LostOnlyByStreaming` |

The types of the parts are theorems (`AccountsTypeCorrect`, `MemTypeCorrect`, ...) and no run
repeats them.  Neither does one repeat what a refinement already says: that rows lie within the
water marks (`RowsWithinWaterMarks`) and the marks never go back (`WaterMarksMonotone`), both
but for a low mark that is `misplaced`, follows from `KeepsNumbers` and the types, which is a
theorem (`NumberingBracketsRows`), so that a change of the code that breaks one of them breaks
`KeepsNumbers`; each of the two is proved of the store besides.

Why the bounds suffice: a race of the store needs two articles in two groups (one to go, one to
stay; one crosspost) and two sweeps; `HistoryDays = 1` and three days let an id be accepted, age
on the exact boundary, be forgotten and be accepted again. Number 2 is enough to see a number
reused, and in `StoreTxn` a post numbers one group twice. A stale recount needs one post or
cancel between `PurgeDelete` and `PurgeCommit`, a row that is subtracted twice a cancel and a
purge or an expiry of its article, or two cancels in `StoreTxn`. Two workers and a batch of two
are needed for a lease to run out under a worker that still has a row to come. Watchdog readings
only matter by the thresholds they pass. In `Services`, a stale write needs two requests and one
account; a directory that two exports share needs two exporters and a clock that may stand
still; a poll that misses an article needs a post that begins before and commits after it; a
poisoned or negated pattern that is overruled needs three patterns; a purge that forgets a
sibling needs a crosspost, and one that cannot know of it a row that is gone.

`CHECK_DEADLOCK FALSE` is set where runs are bounded by numbers, days, crashes or one
transaction each, so that a behaviour ends; the runs of `Intake` and `OpsMode` never stop
and are checked for deadlock.

### Fairness

* Sweeps: weak fairness of starting (the hourly timer, `server.go:346-357`) and strong
  fairness of each statement: a database that fails now and then, not always. Only the
  scheduled sweeper is fair; an administrator need not sweep.
* Feed: weak fairness of claiming (the 5-second ticker), of a worker's progress (network
  calls have a 15-second deadline) and of time passing; strong fairness of a row's look-up,
  of an answer from the peer and of the deletion: a peer that is dialled again and again
  answers at last, otherwise a row rightly stays.
* Watchdog: weak fairness of the tick (its ticker). The liveness properties ask that the
  readings stay on one side of the thresholds and restarts cease.

### Findings

1. **A refused POST is accepted.** `refuseAccept`, `requirePostAuth`, `filterArticle` and
   `checkCutoff` return what writing the refusal returned, which is nil; `cmdPost` then
   goes on. During a pause a client sees 441, 340 and 240, and the article is stored.
   `IntakePause`; the peers' commands use `replied` and are right (`PauseRefusesTransfers`,
   `PeersOneFinalReply`).
2. **An accepted article may never be offered.** The reply is written between storing and
   offering. `FeedOffers`.
3. **An escaped line loses its escape.** The spool and the exports put a `>` only before
   lines that begin with `From `, the importer takes it from every `>From ` line, although
   both files call the format mboxrd, which escapes those lines as well. `SpoolEscapes`.
4. **A cancel that runs during the article's Post has no effect**, and reports success.
   `TxnCancel`.

What the modules know of and no document contradicts:

* The watchdog replaces an administrator's order that arrives between its snapshot and its
  action; `OverridesOnlyUnseenOrders` says this is the only order it replaces.
* With `queue_throttle: 1` the watchdog throttles and never opens again: `ClosedForGood`, a
  theorem and no run, since the thresholds of `OpsWatchdog` are larger.
* TAKETHIS answers 439 where it means "try again later", and a peer that is not permitted to
  transfer (or whose list of peers could not be read, an error that is dropped) is answered 438
  to CHECK and 439 to TAKETHIS. The sender, running the same code, takes both for a refusal of
  the article and drops it: `LostOnlyByStreaming`.
* A purge's recount that waited for a group may put the low mark above an article or take it
  back, and leave a post out of the count: `KeepsNumbers`, `ShowsNumbers`, `CountCoversRows`.
* Two cancels of one article, or a cancel and a purge, both read its rows and both correct the
  count of its groups, which may fall below their articles: `CountCoversRows`.
* A purge scrubs the mbox files of the groups an article still has a row in; the copy in a
  group where it expired, or that was deleted, stays: `PurgedLeavesSpool`.
* Two first posts of a user's day may be counted as one: `QuotaCountsPosts`.
* A post checked before its group became moderated is stored: `UnapprovedOnlyByRace`.
* NEWNEWS misses a post that began before a poll and committed after: `NewsMissesOnlySlowPosts`.
* The memory store's expiry takes the high water mark back, so that the next article gets a
  number that was given before, which PostgreSQL never does: `NumbersButForExpire`.
* Two set-up requests at once may both create an administrator (`SetupCreates`).

## 4. Proofs

Eight modules hold theorems of the form `Spec => ...`, for all values of the constants that
satisfy the named assumption of the module they are about. TLC evaluates the assumptions on
every run. They say:

* `ArticleStore`: finitely many groups; policies, listings and statuses of their types;
  positive retention of floods and history. `StoreTxn`: `Work` gives each transaction an
  operation, an identifier and a list of groups.
* `FeedQueue`: enabled and administered peers are peers. `Intake`: inputs and sends of their
  types. `OpsMode`: readings and thresholds of theirs. `PeerFilters`: patterns, texts, tokens
  and flags are sequences of what they consist of, an operand is a number or a token that is
  none. `Propagation`: an ordinary article that the receiver has no reason to refuse.
* `Accounts`, `GroupAdmin`: names, messages and lists of their types. `WebPosting`: headers are
  non-empty lists of groups, a positive daily limit (a limit of 0 switches the quota off, which
  is another path of `ConsumeBinaryPostQuota`).
* `Spool`: each message has its groups, quotes and depth. `ArchiveJobs`: finitely many files in
  an export, at least one generation kept (`config.go:373` turns less into the default).
  `PathStats`, `Reading`, `MemoryStore`: bounds are naturals. `ContentStats`: finitely many
  articles, whose headers are sequences.

| Module | Theorem | Property |
|---|---|---|
| `ArticleStoreProofs` | `TypeCorrect` | `TypeOK` |
| | `NumbersUnique` | `NumberNamesOneArticle` |
| | `MarksBracketRows` | `RowsWithinWaterMarks` (no run: `KeepsNumbers` implies it) |
| | `MarksNeverGoBack` | `WaterMarksMonotone` (no run: `KeepsNumbers` implies it) |
| | `StoreKeepsNumbers` | `KeepsNumbers`, the refinement of `Numbering` by the store |
| | `NumberingBracketsRows` | of `Numbering`: `KeepsNumbers` and `[]TypeOK` imply the two above |
| | `StoredAlwaysRemembered` | `StoredIsRemembered` |
| | `NoEarlyReaccept` | `NoReacceptWithinHistoryDays` |
| | `RowsKeepTheirArticles` | `RowsReferToArticles` |
| | `CountsCoverRows` | `CountCoversRows` |
| | `WithdrawnAsAWhole` | `WithdrawnEverywhere` |
| | `WithdrawnBeforeDelivery` | `WithdrawnFromQueue` |
| `DatabaseProofs` | `TransactionsAreAtomic` | `PostsAreAtomic`, the refinement of `ArticleStore` by `StoreTxn` |
| | `StoreTxnTypeCorrect` | `StoreTxn`'s `TypeOK` |
| | `WalksMissNothing` | `NothingBehindReader` |
| | `NewsIsComplete` | `NewsMissesOnlySlowPosts` |
| | `MarksAreOfTheGroup` | `MarksMeanArticles` |
| | `ReadersSeeNumbering` | `ShowsNumbers`, the refinement of `Numbering` by what readers see |
| | `ReadingTypeCorrect` | `ReadingTypeOK` |
| | `CountersNeverShort` | `StatsNeverUndercount` |
| | `StatsTypeCorrect` | `StatsTypeOK` |
| | `MapsAgree` | `MemIndexesAgree` |
| | `TestsSeeNumbering` | `NumbersButForExpire`, the refinement of `Numbering` by the memory store |
| | `MemTypeCorrect` | `MemTypeOK` |
| `FeedQueueProofs` | `FeedTypeCorrect` | `TypeOK` |
| | `LeaseExcludes` | `OneDeliveryPerLease` |
| | `FeedKeepsPromise` | `KeepsPromise`, the refinement of `Delivery` |
| | `FilterDecisions` | `FiltersDecide` |
| `PropagationProofs` | `OnlyStreamingLoses` | `LostOnlyByStreaming` |
| `IntakeProofs` | `IntakeTypeCorrect` | `TypeOK` |
| | `AcceptedOnce` | `StoredOnce` |
| | `OkMeansStored` | `AcknowledgedIsStored` |
| | `ModeratedNeverStored` | `MailedIsNotStored` |
| | `PeersHearOnce` | `PeersOneFinalReply` |
| | `PausedTransfersStoreNothing` | `PauseRefusesTransfers` |
| `OpsModeProofs` | `OpsTypeCorrect` | `TypeOK` |
| | `SeenOrdersHonoured` | `OverridesOnlyUnseenOrders` |
| | `ReleaseHasRoom`, `ClosedForGood` | which thresholds leave the watchdog no way to open the server |
| `PortalProofs` | `MustChangeFollowsPassword` | `GivenPasswordsMustChange` |
| | `SessionsEndWithPassword` | `PasswordChangeEndsSessions` |
| | `RemovedStaysRemoved` | `RmgroupStands` |
| | `QuotaCounts` | `QuotaCountsPosts` |
| | `UnapprovedRacedOnly` | `UnapprovedOnlyByRace` |
| | `AccountsTypeCorrect`, `GroupTypeCorrect`, `WebTypeCorrect` | the type invariants |
| `FilesProofs` | `PurgedIsScrubbed` | `PurgedLeavesSpool` |
| | `LatestExportStands` | `LatestExportIntact` |
| | `PathsCounted` | `PathsCountedOnce` |
| | `SpoolTypeCorrect`, `ArchiveTypeCorrect`, `PathsTypeCorrect` | the type invariants |

### The store

There are three inductive invariants; the second and the third are each inductive together
with the first.

1. `TypeInv == TypeOK /\ FiniteOverview /\ FiniteKept`. `TypeOK` alone is not inductive: `count`
   is assigned from a `COUNT(*)` and `low` from a `MIN`, which are naturals only when the
   overview, and the rows a recount or a cancel has kept of it (`FiniteKept`), are finite. One
   lemma per kind of step (`PostTypeInv`, `CancelTypeInv`, `GroupTypeInv`, `PolicyTypeInv`,
   `QueueTypeInv`, `PurgeCommitTypeInv`, `SweepTypeInv`), joined in `NextTypeInv`.

2. `NumberInv` says that every number ever given lies at or below the group's high-water mark,
   that every row, and every row a recount has seen, was given its number by a `Post`, and that
   the low-water mark is 0 only while the group never held an article. `NumberNamesOneArticle`
   alone is not inductive: the number a `Post` takes is `high + 1`, and nothing in that property
   says the number is not already in use. `NumberSteps` sorts the steps into those that leave
   the numbers alone, `Post`, those that remove rows and recompute the low-water mark
   (`RecomputedLow`), and `DeleteGroup`. The rows a mark is recomputed from are those left or
   those a recount saw, and a group is `misplaced` from when the two differ until the next
   recomputation; only there may a mark be above a row, or go back. `WaterMarksMonotone`, an
   action property, follows from the same invariant.

3. `HistoryInv == StoredIsRemembered /\ ForgottenIsOld`. An identifier that is not in
   `history` either never was, or entered it more than `HistoryDays` ago: only
   `ExpireHistory` removes a row, and the day of a row is never renewed.
   `NoReacceptWithinHistoryDays` is what it says of a `Post`.

`RowsReferToArticles` is inductive by itself and `CountCoversRows` together with `TypeInv`.
For the counts, a `Post` adds to a group at most as many rows as it lists it (`NewRowsCounted`,
a surjection from `1..listing[g]`), a cancel takes as many as it subtracts unless a row it read
is gone, and then its group is `miscounted` (`CancelCounts`), a recount counts what it saw, which
is all there is unless a post was missed, and what only removes rows keeps the bound
(`FewerRows`). `RowSteps` sorts the steps for this and for the
two properties of withdrawal, which need no invariant.

Facts on finite sets come from `FiniteSetTheorems`; that a non-empty set of naturals has
the least element `MIN` returns comes from `WellFoundedInduction`.

### Numbering

`Numbering` says what a newsreader that keeps numbers relies on, in terms of nothing but the
groups, numbers and marks it can see; three theorems say that the code keeps to it.

For the store (`StoreKeepsNumbers`) the two invariants above give what a step of the
specification needs: a group without a low mark has no articles, marks are ordered, and what is
left after a withdrawal is not below the new low mark, unless the group is `misplaced`, which
`Numbering` sees as `astray`. One invariant is added, `AbsentBlank`: the
marks of a group that is not there are 0, so that one that is made again begins anew. A post
lists a group perhaps several times; that its rows fill the numbers from the old high mark to
the new one is `GroupAppends`.  That the specification is strong enough to stand for the marks
is `NumberingBracketsRows`, by its own small invariant (`Bracketed`).

For readers (`ReadersSeeNumbering`) a post takes its number in one statement and shows it in a
later one. `NumbersInOrder` (below, under Readers) says that the number in flight is the next
one, and `NoneBelow` adds that a group with articles has a low mark, which is below them unless
a purge's recount lost it (`lowLost`); `SeenSteps` finds the six steps that a reader sees
anything of.

For the memory store (`TestsSeeNumbering`) `MemInv` (below) is enough. `MemExpire` is excepted by
name and no other step is.

### Transactions

`TransactionsAreAtomic` says that posts and cancels, run statement by statement with
PostgreSQL's row locks and READ COMMITTED snapshots, look from outside like the one-step
operations of `ArticleStore`: a commit maps to one `Post`, `RememberMessageID` or
`CancelCommits`, a cancel's reading of its rows to `CancelReads`, its failure to `CancelFails`,
and every other statement to a stutter. That needs to know, at the commit, what a transaction's
reads and computed marks still mean. `IInv` has, beside the tables' types and that no two
transactions hold one row (`LocksApart`), for each transaction: `Numbering` (the marks a post
has written are the *committed* marks plus the listings it has dealt with, and its rows are
exactly the numbers in between), `Found` and `ReadAll` (what a cancel found was posted and will
not be again, and it has in its list each row the article had, once), and `Withdrawing` (the
marks it has written are those of the group without the article, for the groups it has dealt
with). The counting of listings and rows dealt with so far (`Before`, `Times`) is by lemmas of
their own.

Two cancels of one article may be under way. Both read its rows; the second waits for the first
and then deletes nothing, but subtracts all the same. `ArticleStore` has that as two
`CancelCommits` of which the second finds rows gone (`miscounted`).

### Readers

In `ReadingInv`, `NumbersInOrder` says that all numbers are at most `top` and that a number is
being taken by one transaction at a time, the next one: a post that commits behind a reader
would need a second number in flight. It also says that what a recount has seen are numbers of
the group as it is now. `AtANumber` ties each walk to the group's present life,
since positions of a deleted group mean nothing. `PollsInOrder` says that whatever began before
a poll's DATE and is still in flight is known to that poll as slow. `LoadsMeanArticles` and
`MarksBelowTop` say the same of what portal requests have read and written: a request that read
its number before a deletion is in `late` or has read it in the group there is.

### Counters

A row of a counter has one owner while transactions write it (`OneOwner`). `RecountCovers` says
of the hourly refresh, which deletes and inserts row by row while posts come in, that what it
has inserted, and what it is still to insert unless another's row will make it give way, covers
every article it is *owed*: those its snapshot saw, and those whose poster counted them since.
The snapshot alone would not do: a poster that adds to a row the refresh has inserted, or whose
row the refresh deleted before, moves an article from one group to the other.

### The memory store

`MemInv` adds to `MemIndexesAgree` that a group's low mark stays at or below its high mark also
when it has no article, and is 0 only then (a `Post` sets the low mark only if it is 0), and
that an entry of `byNum` has its article's day: expiry decides by the entry in one map and by
the article in the other. A deletion subtracts one per article and removes one number each,
which agree because no two articles share a number (`OneNumberEach`).

### The feed

`FeedInv` adds to the types what makes each deletion of a row legitimate. `QueuedOnce`: a row
that is queued or in some worker's hands is no longer to be offered, so no `Enqueue` revives
one that a slow worker still holds. `ExcusesNoted`: whatever excuses such a row at the moment
has been noted, so a worker that finds it not deliverable may delete it. `WorkersSound`: a
worker about to delete has a reason. `HeldAccounted`: a row that left the queue under a worker
was delivered or excused, so a late delivery is one `Delivery` allows. `LeaseHides`: a row that
a worker holds is due again only after the lease of that worker ran out; from it
`OneDeliveryPerLease` follows at each `Claim`. One lemma per kind of step proves both that
`FeedInv` is kept and that the step is one of `Delivery` or a stutter (`PromiseStep`), and
`FeedKeepsPromise` joins them.

### The filters

`FilterDecisions` compares what loops compute with definitions that have no loop, for every
entry, article and text that satisfies `FiltersAssumption`. A loop is a recursive function of
the turns taken. That it has values (`LoopDefined`), and that what is said of its first `n`
turns carries over to one more, both go by `Induction`, which is stated of a set of numbers and
not of a predicate: no number is the least one outside (`WFMin`). The statements that are
carried are `GlobFits` (the suffixes of the text that the last `n` characters of a glob match
are those it `Fits`, cut in any way), `MatchWants` (the last matching pattern so far decides),
`LimitDecides`, `LettersDecide` and `ControlDecides` (each limit is that of its last well-formed
operand so far, the letters are those met, and the later of `c` and `C` holds).

### Propagation

`PropagationInv` says of each command at the receiver, before it ends, that it has said nothing
and, once it is about to acknowledge, that the article is in `history`; a command that has ended
gave one answer, `Justified` by what the receiver knows or, if it was a CHECK or a TAKETHIS, by
having been turned away. `turnedAway` is about the last command of a sender, so that an earlier
refusal excuses nothing. Only a streaming sender sends CHECK and TAKETHIS. `CommandMoves` proves
it for whatever a command does next, and the lemmas of the receiver's steps reduce to it.

### The portal

`AccountsInv` is about the rows (types, ids of their own, a generation that keeps up with the
changes of the password, `GivenPasswordsMustChange`) and about what a request in progress has
read (`RequestInv`): a row read earlier may be written back, and only because password and
obligation are written back together, and the generation is added to in the table, do both
properties survive it. `GroupInv` needs, beside the types, that what a checkgroups has left to
do are entries of its message; an import leaves alone rows whose origin is "control".

`WebInv` adds to the quota's property what the lock gives: a request that locked the user's row
has read what is in it and is the only one, and while at most one request of the day found no
row, that request is alone and there is none (`ChargesSound`). `ModerationKnown` says that a
request between its check and its `Post` has noted every group of its header that is moderated
by now.

### Files

`SpoolInv`: a scrub still to come looks at every file that a message of its purge is in or goes
to, unless the message had lost its row there (`ScrubReachesAll`, which is why the purge reports
the *other* groups of its articles); a message goes only to the files of groups it has or had a
row in (`FiledByRow`), which is what lets the purge know them; and a purged article whose
appends are not over either will be scrubbed or was `missed`. `ArchiveInv`: what an export has
written is there, or a newer directory is (`ExportsStand`); a prune takes a directory only if it
leaves a newer one. Two exports in one second share a directory, and only those are excepted
(`AloneUnlessShared`). `PathsInv` follows each path that no other process's flush crossed and no
spoilt dump lost (`Fate`): it is in the pending file and in no dump, or in the one dump a flush
has just written and is about to take it out of the pending file for, or in one dump, or sent.

### Intake

`IntakeInv == TypeOK /\ \A s : Sound(session[s])`. What holds when a command is done rests
on what holds before: `Sound` says at every step of a command that "ok" has not been said
unless the command is done, that only a command at `ack` or done owns a stored article,
that only a cancel reaches `cancelled`, that a moderated post never reaches the duplicate
check, and that a peer's command before its end has said nothing and passed open gates.
`GoesOn` and `Finishes` prove this for the two ways a command moves on; `NextShapes` says
that every step is one command's, with tables that only grow or with `Store`, or else the
administrator's or a restart. Four theorems are read off `Sound`. `AcceptedOnce` needs a
second invariant, `AcceptedIsRemembered`: what was accepted is in `history`, which a cancel
does not undo, and `Store` takes only what is not.

### The watchdog

`SeenOrdersHonoured` needs no invariant: a tick whose snapshot shows an administrator's
pause or throttle has an empty `Decision` (`SeenOrderStands`), and no other step acts in the
watchdog's name (`OnlyActIsTheWatchdogs`).

`ReleasedWhenCalm` assumes readings under the release conditions. `ReleaseHasRoom` says when
there are any: a queue has to be below half its threshold, in integers, and a disk two points
below its own, so that a `queue_throttle` of 1 or a `disk_throttle_pct` of 1 or 2 has none.
`ClosedForGood` draws the consequence with the type invariant: no tick then opens the server.

### Only model-checked

* Every liveness property (liveness under fairness and ENABLED are outside the prover's reach).

## 5. Not modelled

* Functions of one input without shared state: reading configuration, INN's file formats
  (`inn/`, `store/peer_inn.go`), article parsing, header injection, MIME and charsets, wire
  framing, binary detection, password hashing and the sealing of cookies.
* I/O and services: TLS, listeners and shutdown, SMTP, DNS and the matching of peers'
  addresses, which a model would replace by their answers.
* Search, LIST and its variants, settings, mail and moderator tables: rows that one
  statement reads or writes and on which no other component's state depends.
* In the purge's transaction, the moment between its deletes and the snapshot of its recount, and
  the order in which the UPDATE comes to its groups: `PurgeDelete` and `PurgeCommit` have the one
  wait that what it writes depends on.
* Ban patterns of the web portal's check (`unwanted.go:16-22`) are the matched groups, and the
  per-group retention of the memory store is one mode: no property tells more apart.

`PROJECT.json` names every component with its status.

## 6. Plan

1. `StoreTxn`: the purge's transaction among the posts and cancels it waits for, statement by
   statement.
2. Abstract specifications: a set-of-articles service that `ArticleStore` implements, and a
   serial store that `StoreTxn` implements with the purge included.
