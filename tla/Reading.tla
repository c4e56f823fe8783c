------------------------------ MODULE Reading ------------------------------
(***************************************************************************)
(* What the readers of one newsgroup are shown and remember, while posts   *)
(* number their articles in transactions of several statements, articles   *)
(* are withdrawn, and the group is deleted and made again.  An NNTP        *)
(* session keeps the name of its group and a position in it; a client that *)
(* polls with NEWNEWS keeps the DATE of its last poll; the portal keeps    *)
(* subscriptions and read marks by the name of the group.                  *)
(*                                                                         *)
(* A refused command changes nothing and is no step.  One purge is under   *)
(* way at a time.  Left out: ARTICLE, OVER and HDR by Message-ID, which    *)
(* leave the position alone, the wildmats, and other groups.               *)
(***************************************************************************)
EXTENDS Naturals, FiniteSetsExt

CONSTANTS
  Submissions,     \* transactions that may be in the middle of a post
  Readers,         \* NNTP sessions
  Pollers,         \* clients of NEWNEWS
  Subscribers,     \* users of the portal
  PageLoads,       \* concurrent requests of theirs
  MaxNumber, MaxLives, MaxTime,  \* bounds: article numbers, creations, seconds
  NoDate

ASSUME ReadingAssumption ==
  MaxNumber \in Nat /\ MaxLives \in Nat /\ MaxTime \in Nat /\ NoDate \notin Nat

Numbers == 1..MaxNumber

VARIABLES
  lives, exists,   \* how often the group was created, and whether it is there
  top, bottom,     \* high and low of its row
  rows,            \* its overview rows, each with the stored_at of its article
  purge,           \* the purge under way: the numbers it deletes, and those it counts
  lowLost,         \* history: low comes from a count of rows that were no longer so
  inFlight,         \* of each transaction, what it has done so far
  now,             \* the clock, in seconds
  session,         \* of each session, the group it selected and its position
  walk,            \* history: where a session began to walk, and what it was shown since
  asked, noted,    \* of each poller, the time of its last NEWNEWS, and the DATE it got
  subscribed, mark,\* subscriptions and read_state
  load,            \* what each request of the portal has read
  deletion,        \* of the group: whether it is under way, and who wrote a subscription or a mark meanwhile
  late             \* history: users with a row that is not about the present group

storedVars   == <<lives, exists, top, bottom, rows, purge, lowLost>>
groupRowVars == <<storedVars, inFlight, now>>
walkVars     == <<session, walk>>
pollVars     == <<asked, noted>>
markVars     == <<subscribed, mark, load, deletion, late>>
readingVars  == <<groupRowVars, walkVars, pollVars, markVars>>

Idle0 == [step |-> "idle"]
NoPurge == [on |-> FALSE, doomed |-> {}, seen |-> {}]
NoDeletion == [on |-> FALSE, subs |-> {}, marks |-> {}]

ReadingInit ==
  /\ lives = 0 /\ exists = FALSE
  /\ top = 0 /\ bottom = 0 /\ rows = {}
  /\ purge = NoPurge /\ lowLost = FALSE
  /\ inFlight = [p \in Submissions |-> Idle0]
  /\ now = 0
  /\ session = [s \in Readers |-> [selected |-> FALSE, cur |-> 0, listing |-> FALSE]]
  /\ walk = [s \in Readers |-> [life |-> 0, from |-> 0, shown |-> {}]]
  /\ asked = [c \in Pollers |-> 0]
  /\ noted = [c \in Pollers |-> NoDate]
  /\ subscribed = {} /\ late = {}
  /\ mark = [u \in Subscribers |-> 0]
  /\ load = [q \in PageLoads |-> Idle0]
  /\ deletion = NoDeletion

RowNumbers == {r.num : r \in rows}

\* GetByNumber finds an article.
HasNumber(n) == n \in RowNumbers

-----------------------------------------------------------------------------
(* The group and its articles. *)

CreateGroup ==
  /\ ~exists /\ lives < MaxLives
  /\ lives' = lives + 1 /\ exists' = TRUE
  /\ top' = 0 /\ bottom' = 0 /\ rows' = {}
  /\ UNCHANGED <<purge, lowLost, inFlight, now, walkVars, pollVars, markVars>>

\* Mutation of RowFree: no FOR UPDATE.
RowUnlocked == TRUE

\* The newsgroups row is locked from the statement that numbers an article to the end of
\* its transaction.
RowFree == \A p \in Submissions : inFlight[p].step # "numbered"

\* now() is the time the transaction began.
StoreBegins(p) ==
  /\ inFlight[p] = Idle0
  /\ inFlight' = [inFlight EXCEPT ![p] = [step |-> "begun", at |-> now, slow |-> {}]]
  /\ UNCHANGED <<storedVars, now, walkVars, pollVars, markVars>>

StoreNumbers(p) ==
  /\ inFlight[p].step = "begun"
  /\ exists /\ RowFree /\ top < MaxNumber
  /\ inFlight' = [inFlight EXCEPT ![p] = [step |-> "numbered", at |-> inFlight[p].at,
                                         slow |-> inFlight[p].slow, num |-> top + 1]]
  /\ UNCHANGED <<storedVars, now, walkVars, pollVars, markVars>>

StoreCommits(p) ==
  /\ inFlight[p].step = "numbered"
  /\ rows' = rows \union {[num |-> inFlight[p].num, at |-> inFlight[p].at,
                           slow |-> inFlight[p].slow, told |-> {}]}
  /\ top' = inFlight[p].num
  /\ bottom' = IF bottom = 0 THEN inFlight[p].num ELSE bottom
  /\ inFlight' = [inFlight EXCEPT ![p] = Idle0]
  /\ UNCHANGED <<lives, exists, purge, lowLost, now, walkVars, pollVars, markVars>>

StoreFails(p) ==
  /\ inFlight[p] # Idle0
  /\ inFlight' = [inFlight EXCEPT ![p] = Idle0]
  /\ UNCHANGED <<storedVars, now, walkVars, pollVars, markVars>>

LowOf(nums) == IF nums = {} THEN top ELSE Min(nums)

\* A cancel deletes the row of its article, unless another did before it, and finds the
\* low mark among those left.  It waits for a purge that deletes the article.
CancelRow(gone) ==
  /\ top > 0 /\ RowFree
  /\ gone \intersect purge.doomed = {}
  /\ rows' = {r \in rows : r.num \notin gone}
  /\ bottom' = LowOf(RowNumbers \ gone)
  /\ lowLost' = FALSE
  /\ UNCHANGED <<lives, exists, top, purge, inFlight, now, walkVars, pollVars, markVars>>

\* An expiry deletes rows and leaves the newsgroups row alone.
ExpireRow(n) ==
  /\ HasNumber(n) /\ n \notin purge.doomed
  /\ rows' = {r \in rows : r.num # n}
  /\ UNCHANGED <<lives, exists, top, bottom, purge, lowLost, inFlight, now, walkVars,
                 pollVars, markVars>>

\* A purge of banned groups, or of one whose articles were posted here too, up to its recount.
PurgeDeletes ==
  /\ exists /\ ~purge.on
  /\ \E doomed \in SUBSET RowNumbers :
       purge' = [on |-> TRUE, doomed |-> doomed, seen |-> RowNumbers \ doomed]
  /\ UNCHANGED <<lives, exists, top, bottom, rows, lowLost, inFlight, now, walkVars,
                 pollVars, markVars>>

PurgeFails ==
  /\ purge.on
  /\ purge' = NoPurge
  /\ UNCHANGED <<lives, exists, top, bottom, rows, lowLost, inFlight, now, walkVars,
                 pollVars, markVars>>

\* The recount waits for the newsgroups row and then finds its low mark among the rows
\* there were when it began.
PurgeCommits ==
  /\ purge.on /\ RowFree
  /\ rows' = {r \in rows : r.num \notin purge.doomed}
  /\ bottom' = LowOf(purge.seen)
  /\ lowLost' = (purge.seen # RowNumbers \ purge.doomed)
  /\ purge' = NoPurge
  /\ UNCHANGED <<lives, exists, top, inFlight, now, walkVars, pollVars, markVars>>

\* The DELETEs of the rows named after the group; they wait for no one, and what is written
\* under that name from then on stays.
DeletionBegins ==
  /\ exists /\ ~deletion.on
  /\ deletion' = [NoDeletion EXCEPT !.on = TRUE]
  /\ UNCHANGED <<groupRowVars, walkVars, pollVars, subscribed, mark, load, late>>

DeletionFails ==
  /\ deletion.on
  /\ deletion' = NoDeletion
  /\ UNCHANGED <<groupRowVars, walkVars, pollVars, subscribed, mark, load, late>>

\* Mutation of Unmarked: the read marks of a deleted group stay.
StillMarked == mark
Unmarked == [u \in Subscribers |-> IF u \in deletion.marks THEN mark[u] ELSE 0]

\* The DELETE of the newsgroups row, and the commit.  It waits for a purge that deletes
\* articles of the group; a recount that waits for the row no longer finds it.
GroupDeleted ==
  /\ deletion.on /\ RowFree /\ purge.doomed = {}
  /\ exists' = FALSE
  /\ top' = 0 /\ bottom' = 0 /\ rows' = {}
  /\ purge' = NoPurge /\ lowLost' = FALSE
  /\ subscribed' = subscribed \intersect deletion.subs /\ mark' = Unmarked
  /\ late' = deletion.subs \union deletion.marks
  /\ deletion' = NoDeletion
  /\ UNCHANGED <<lives, inFlight, now, walkVars, pollVars, load>>

SecondPasses ==
  /\ now < MaxTime
  /\ now' = now + 1
  /\ UNCHANGED <<storedVars, inFlight, walkVars, pollVars, markVars>>

GroupSteps ==
  \/ CreateGroup
  \/ \E p \in Submissions : StoreBegins(p) \/ StoreNumbers(p) \/ StoreCommits(p) \/ StoreFails(p)
  \/ \E n \in Numbers : CancelRow({n} \intersect RowNumbers) \/ ExpireRow(n)
  \/ DeletionBegins \/ DeletionFails \/ GroupDeleted

PurgeNext == GroupSteps \/ PurgeDeletes \/ PurgeFails \/ PurgeCommits

-----------------------------------------------------------------------------
(* NNTP sessions. *)

\* A bound of 0 is no bound.
Within(n, lo, hi) == (lo > 0 => n >= lo) /\ (hi > 0 => n <= hi)

ArticleNumbers(lo, hi) == {n \in RowNumbers : Within(n, lo, hi)}

\* Each row has its article: they are inserted and deleted by one transaction.
Overview(lo, hi) == {r \in rows : Within(r.num, lo, hi)}
Header(lo, hi) == {r \in Overview(lo, hi) : HasNumber(r.num)}

Ranges == Numbers \X (0..MaxNumber)

At(s, n) == session' = [session EXCEPT ![s].cur = n]
Shows(s, nums) == walk' = [walk EXCEPT ![s].shown = @ \union nums]

\* A walk begins at the article n, or before it when it has not been shown.
WalksFrom(s, n, shown) == walk' = [walk EXCEPT ![s] = [life |-> lives, from |-> n,
                                                       shown |-> shown]]

Reads == UNCHANGED <<groupRowVars, pollVars, markVars>>

\* firstNum: the low water mark, 0 in a group that never had an article.
Selects(s, listing) ==
  /\ exists /\ ~session[s].listing
  /\ session' = [session EXCEPT ![s] = [selected |-> TRUE, cur |-> bottom,
                                        listing |-> listing]]
  /\ WalksFrom(s, bottom, {})
  /\ Reads

\* GROUP
SelectGroup(s) == Selects(s, FALSE)

\* LISTGROUP selects the group, and only then looks at its range and asks for the numbers.
ListgroupSelects(s) == Selects(s, TRUE)

ListgroupEnds(s) ==
  /\ session[s].listing
  /\ \/ UNCHANGED walk   \* a range with a syntax error
     \/ \E range \in Ranges \union {<<0, 0>>} : Shows(s, ArticleNumbers(range[1], range[2]))
  /\ session' = [session EXCEPT ![s].listing = FALSE]
  /\ Reads

Ready(s) == session[s].selected /\ ~session[s].listing

\* ARTICLE, HEAD, BODY and STAT without an argument.
FetchCurrent(s) ==
  /\ Ready(s) /\ session[s].cur > 0
  /\ HasNumber(session[s].cur)
  /\ Shows(s, {session[s].cur})
  /\ UNCHANGED session
  /\ Reads

\* ARTICLE, HEAD, BODY and STAT with a number.
FetchNumber(s, n) ==
  /\ Ready(s)
  /\ HasNumber(n)
  /\ At(s, n) /\ WalksFrom(s, n, {n})
  /\ Reads

\* Mutation of Following: the query without its ORDER BY.
SomeAfter(n) == {r.num : r \in {x \in rows : x.num > n}}

\* The numbers that Next may find after n: the least, if there is one.
Following(n) == {m \in RowNumbers : m > n /\ \A k \in RowNumbers : k > n => m <= k}
Preceding(n) == {m \in RowNumbers : m < n /\ \A k \in RowNumbers : k < n => k <= m}

NextArticle(s) ==
  /\ Ready(s) /\ session[s].cur > 0
  /\ \E n \in Following(session[s].cur) : At(s, n) /\ Shows(s, {n})
  /\ Reads

LastArticle(s) ==
  /\ Ready(s) /\ session[s].cur > 0
  /\ \E n \in Preceding(session[s].cur) :
       /\ At(s, n)
       /\ walk' = [walk EXCEPT ![s].shown = @ \union {n},
                               ![s].from = IF n < @ THEN n ELSE @]
  /\ Reads

\* OVER of a range, or of the current article.
Over(s) ==
  /\ Ready(s)
  /\ \E range \in Ranges \union {<<session[s].cur, session[s].cur>>} :
       /\ range[1] > 0
       /\ Shows(s, {r.num : r \in Overview(range[1], range[2])})
  /\ UNCHANGED session
  /\ Reads

\* HDR asks no valid position: in a group without one it shows every article.
Hdr(s) ==
  /\ Ready(s)
  /\ \E range \in Ranges \union {<<session[s].cur, session[s].cur>>} :
       Shows(s, {r.num : r \in Header(range[1], range[2])})
  /\ UNCHANGED session
  /\ Reads

WalkNext ==
  \/ GroupSteps
  \/ \E s \in Readers :
       \/ SelectGroup(s) \/ ListgroupSelects(s) \/ ListgroupEnds(s)
       \/ FetchCurrent(s) \/ (\E n \in Numbers : FetchNumber(s, n))
       \/ NextArticle(s) \/ LastArticle(s) \/ Over(s) \/ Hdr(s)

-----------------------------------------------------------------------------
(* NEWNEWS. *)

\* Mutation of StoredSince: the second of the last poll is left out.
StoredAfter(r, t) == r.at > t

StoredSince(r, t) == r.at >= t

\* A poller asks for the DATE and then for the news since the DATE of its last poll.
ServerDate(c) ==
  /\ noted[c] = NoDate
  /\ noted' = [noted EXCEPT ![c] = now]
  /\ UNCHANGED <<groupRowVars, asked, walkVars, markVars>>

\* Of the transactions in flight, those begun before the DATE are slow for this poll.
NewNews(c) ==
  /\ noted[c] # NoDate
  /\ rows' = {IF StoredSince(r, asked[c]) THEN [r EXCEPT !.told = @ \union {c}] ELSE r
                : r \in rows}
  /\ inFlight' = [p \in Submissions |->
                   IF inFlight[p] # Idle0 /\ inFlight[p].at < noted[c]
                   THEN [inFlight[p] EXCEPT !.slow = @ \union {c}] ELSE inFlight[p]]
  /\ asked' = [asked EXCEPT ![c] = noted[c]]
  /\ noted' = [noted EXCEPT ![c] = NoDate]
  /\ UNCHANGED <<lives, exists, top, bottom, purge, lowLost, now, walkVars, markVars>>

NewsNext ==
  \/ GroupSteps \/ SecondPasses
  \/ \E c \in Pollers : ServerDate(c) \/ NewNews(c)

-----------------------------------------------------------------------------
(* Subscriptions and read marks. *)

MarksOnly == UNCHANGED <<groupRowVars, walkVars, pollVars>>

\* A row of the user's that the deletion under way has deleted, of subscriptions or of
\* read_state, is locked until its end.
SubUnlocked(u)  == deletion.on => u \notin subscribed \/ u \in deletion.subs
MarkUnlocked(u) == deletion.on => mark[u] = 0 \/ u \in deletion.marks
NotesSub(u)  == deletion' = IF deletion.on THEN [deletion EXCEPT !.subs = @ \union {u}]
                            ELSE deletion
NotesMark(u) == deletion' = IF deletion.on THEN [deletion EXCEPT !.marks = @ \union {u}]
                            ELSE deletion

\* Subscribe finds the group and then inserts a row under its name.
SubscribeFinds(q, u) ==
  /\ load[q] = Idle0 /\ exists
  /\ load' = [load EXCEPT ![q] = [step |-> "subscribe", user |-> u, life |-> lives]]
  /\ UNCHANGED <<subscribed, mark, deletion, late>>
  /\ MarksOnly

\* What request q read is about the group that is there.
Current(q) == exists /\ load[q].life = lives

Subscribe(q) ==
  /\ load[q].step = "subscribe" /\ SubUnlocked(load[q].user) /\ NotesSub(load[q].user)
  /\ subscribed' = subscribed \union {load[q].user}
  /\ late' = IF Current(q) THEN late ELSE late \union {load[q].user}
  /\ load' = [load EXCEPT ![q] = Idle0]
  /\ UNCHANGED mark
  /\ MarksOnly

Unsubscribe(u) ==
  /\ SubUnlocked(u)
  /\ subscribed' = subscribed \ {u}
  /\ UNCHANGED <<mark, load, deletion, late>>
  /\ MarksOnly

WillMark(q, u, n) ==
  /\ load[q] = Idle0
  /\ load' = [load EXCEPT ![q] = [step |-> "mark", user |-> u, life |-> lives, num |-> n]]
  /\ UNCHANGED <<subscribed, mark, deletion, late>>
  /\ MarksOnly

\* POST .../read for all articles reads the high water mark.
MarkAllReads(q, u) == exists /\ WillMark(q, u, top)

\* GET .../article/n, for an article that is there.
ReadArticle(q, u, n) == HasNumber(n) /\ WillMark(q, u, n)

\* An upsert that keeps the greater of the two.
Marked(u, n) == mark' = [mark EXCEPT ![u] = IF n > @ THEN n ELSE @]

SetReadState(q) ==
  /\ load[q].step = "mark" /\ MarkUnlocked(load[q].user) /\ NotesMark(load[q].user)
  /\ Marked(load[q].user, load[q].num)
  /\ late' = IF Current(q) THEN late ELSE late \union {load[q].user}
  /\ load' = [load EXCEPT ![q] = Idle0]
  /\ UNCHANGED subscribed
  /\ MarksOnly

\* POST .../read through a number of the client's, which nothing checks.
MarkThrough(u, n) ==
  /\ MarkUnlocked(u) /\ NotesMark(u)
  /\ Marked(u, n)
  /\ late' = IF n > top THEN late \union {u} ELSE late
  /\ UNCHANGED <<subscribed, load>>
  /\ MarksOnly

\* The articles a user is told are unread, with high 0 for a group that is gone.
Unread(u) == IF top > mark[u] THEN top - mark[u] ELSE 0

MarksNext ==
  \/ GroupSteps
  \/ \E u \in Subscribers :
       \/ Unsubscribe(u)
       \/ \E n \in Numbers : MarkThrough(u, n)
       \/ \E q \in PageLoads :
            \/ SubscribeFinds(q, u) \/ MarkAllReads(q, u)
            \/ \E n \in Numbers : ReadArticle(q, u, n)
  \/ \E q \in PageLoads : Subscribe(q) \/ SetReadState(q)

-----------------------------------------------------------------------------

ReadingNext == WalkNext \/ NewsNext \/ MarksNext \/ PurgeNext

ReadingSpec == ReadingInit /\ [][ReadingNext]_readingVars

\* The tables, positions and requests of this module hold what their columns may hold.
ReadingTypeOK ==
  /\ lives \in 0..MaxLives /\ exists \in BOOLEAN
  /\ top \in 0..MaxNumber /\ bottom \in 0..top
  /\ rows \subseteq [num : Numbers, at : 0..MaxTime, slow : SUBSET Pollers,
                     told : SUBSET Pollers]
  /\ purge \in [on : BOOLEAN, doomed : SUBSET Numbers, seen : SUBSET Numbers]
  /\ lowLost \in BOOLEAN
  /\ \A s \in Readers : session[s].cur \in 0..MaxNumber /\ walk[s].shown \subseteq Numbers
  /\ asked \in [Pollers -> 0..MaxTime]
  /\ subscribed \union late \subseteq Subscribers
  /\ mark \in [Subscribers -> 0..MaxNumber]
  /\ deletion \in [on : BOOLEAN, subs : SUBSET Subscribers, marks : SUBSET Subscribers]

\* A session that walks with NEXT and LAST has been shown every article between the place
\* it began at and its position: no post commits a number behind a reader, because the
\* numbers of a group are committed in the order they are taken.  Not across a deletion
\* of the group, whose successor counts from 1 again while the session keeps its position.
NothingBehindReader ==
  \A s \in Readers :
    walk[s].life = lives =>
      \A n \in RowNumbers : walk[s].from < n /\ n <= session[s].cur => n \in walk[s].shown

\* Readers see the numbers of one group as Numbering has them, although its articles are
\* numbered by one statement of a transaction and committed by a later one: no two posts
\* take one number, and none commits below the high water mark of a GROUP answered before.
\* The low mark moves up and is never above an article, but for the one that a purge took
\* from rows that were no longer so when it came to write it: until a cancel or another
\* purge finds it again.
Shown == INSTANCE Numbering WITH
  Newsgroups <- {"group"}, carried <- IF exists THEN {"group"} ELSE {},
  numbers <- [g \in {"group"} |-> RowNumbers],
  lowMark <- [g \in {"group"} |-> bottom], highMark <- [g \in {"group"} |-> top],
  astray <- IF lowLost THEN {"group"} ELSE {}

\* Shown!Spec, with the steps that leave the group alone said first.
ShowsNumbers == Shown!Init /\ [][UNCHANGED groupRowVars \/ Shown!Next]_(Shown!vars)

\* A client that polls with NEWNEWS, each time since the DATE before its last poll, is told
\* of every article older than that DATE, but for those whose post had begun by then and
\* was not committed when it asked: stored_at is the time the transaction began.
NewsMissesOnlySlowPosts ==
  \A c \in Pollers, r \in rows : r.at < asked[c] => c \in r.told \union r.slow

\* A user's read mark and subscription are about the group there is, so that each number
\* above the mark counts as unread.  Only a request that ran while the group was being
\* deleted, or a number the client made up, leaves a row behind that is not.
MarksMeanArticles ==
  \A u \in Subscribers \ late :
    /\ Unread(u) = top - mark[u]
    /\ u \in subscribed => exists
=============================================================================
