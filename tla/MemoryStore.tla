---------------------------- MODULE MemoryStore ----------------------------
(***************************************************************************)
(* The in-process store that stands in for PostgreSQL in the tests.  One   *)
(* mutex makes each of its operations a step; what can go wrong is that    *)
(* they keep the same facts in several maps: a group's list of numbers and *)
(* its water marks, the articles by number, the groups of an article, and  *)
(* the feed queue.  A header may list a group twice.                       *)
(*                                                                         *)
(* A group's list of numbers is a set here: what Post appends is above all *)
(* numbers in it, since none passes the high mark (MemIndexesAgree), so    *)
(* the list is in increasing order.  Loops over a header, over the groups  *)
(* of an article and over a list of numbers stand here for what they leave.*)
(*                                                                         *)
(* Left out: accounts, peers, secrets, settings, subscriptions and read    *)
(* marks (rows that only their own operations touch), the origin and the   *)
(* retention an administrator gives a group, statistics, and what makes a  *)
(* group flooded.                                                          *)
(***************************************************************************)
EXTENDS Naturals, FiniteSets, Sequences, SequencesExt, Functions

CONSTANTS
  MemGroups, MemIds,   \* newsgroup names and Message-IDs
  Headers,             \* of each article, the Newsgroups headers it may have, as sequences
  Suspect,             \* the groups that may flood or be banned
  MaxHigh, MaxAlerts, MaxMemDay,  \* bounds: article numbers, alerts, days
  FloodKeep, HistoryKeep          \* days that flooded groups and the history keep

ASSUME MemAssumption ==
  /\ Headers \in [MemIds -> SUBSET Seq(MemGroups)]
  /\ MaxHigh \in Nat /\ MaxMemDay \in Nat /\ FloodKeep \in Nat /\ HistoryKeep \in Nat

VARIABLES
  grp,       \* groups: of each group there is its row, with nums
  arts,      \* arts: of each article its day and its number in each group
  byNum,     \* byNum: of each group there is, the articles by number
  past,      \* history: Message-IDs and their days
  mBans,     \* bans
  mAlerts,   \* alerts
  feedQ,     \* articles on the feed queue of one peer
  mDay,      \* the clock
  twice      \* articles whose header listed a group twice

memVars == <<grp, arts, byNum, past, mBans, mAlerts, feedQ, mDay, twice>>

NewGroup(status) ==
  [status |-> status, low |-> 0, high |-> 0, count |-> 0, nums |-> {}, mode |-> "unset"]
Less(f, S) == Restrict(f, DOMAIN f \ S)
With(f, k, v) == [x \in DOMAIN f \union {k} |-> IF x = k THEN v ELSE f[x]]

MemInit ==
  /\ grp = <<>> /\ arts = <<>> /\ byNum = <<>> /\ past = <<>>
  /\ mBans = {} /\ mAlerts = <<>>
  /\ feedQ = {} /\ mDay = 0 /\ twice = {}

-----------------------------------------------------------------------------
(* Groups. *)

\* EnsureGroup, EnsureGroups, ApplyControlGroup and DisableControlGroup: a new row, or the
\* status of the one there is.
UpsertGroup(g, status) ==
  /\ grp' = With(grp, g, IF g \in DOMAIN grp THEN [grp[g] EXCEPT !.status = status]
                         ELSE NewGroup(status))
  /\ byNum' = IF g \in DOMAIN grp THEN byNum ELSE With(byNum, g, <<>>)
  /\ UNCHANGED <<arts, past, mBans, mAlerts, feedQ, mDay, twice>>

MemDeleteGroup(g) ==
  LET left == [m \in DOMAIN arts |-> [at |-> arts[m].at, groups |-> Less(arts[m].groups, {g})]]
      sole == {m \in DOMAIN arts : DOMAIN arts[m].groups = {g}}
  IN
  /\ g \in DOMAIN grp
  /\ arts' = Less(left, sole)
  /\ grp' = Less(grp, {g})
  /\ byNum' = Less(byNum, {g})
  /\ UNCHANGED <<past, mBans, mAlerts, feedQ, mDay, twice>>

-----------------------------------------------------------------------------
(* Articles. *)

Used(header) == {g \in Range(header) \intersect DOMAIN grp : grp[g].status # "n"}
Listings(header, g) == Cardinality({i \in DOMAIN header : header[i] = g})

\* Mutation of NewNumbers: numbers continue from the articles there are.
NumbersByCount(row, k) == row.count + 1 .. row.count + k

\* Each listing of a group takes its next number.
NewNumbers(row, k) == row.high + 1 .. row.high + k
WithNumbers(row, k) ==
  [row EXCEPT !.high = @ + k, !.low = IF @ = 0 THEN row.high + 1 ELSE @,
              !.count = @ + k, !.nums = @ \union NewNumbers(row, k)]

\* The article is behind all of its numbers, and knows the last in each group.
MemPost(m, header) ==
  LET used == Used(header)
      k(g) == Listings(header, g)
  IN
  /\ m \notin DOMAIN past
  /\ used # {}
  /\ \A g \in used : grp[g].high + k(g) <= MaxHigh
  /\ grp' = [g \in DOMAIN grp |-> IF g \in used THEN WithNumbers(grp[g], k(g)) ELSE grp[g]]
  /\ byNum' = [g \in DOMAIN byNum |->
                 IF g \in used
                 THEN [n \in DOMAIN byNum[g] \union NewNumbers(grp[g], k(g)) |->
                         IF n \in DOMAIN byNum[g] THEN byNum[g][n] ELSE [msg |-> m, at |-> mDay]]
                 ELSE byNum[g]]
  /\ arts' = With(arts, m, [at |-> mDay, groups |-> [g \in used |-> grp[g].high + k(g)]])
  /\ past' = With(past, m, mDay)
  /\ twice' = IF \E g \in used : k(g) > 1 THEN twice \union {m} ELSE twice
  /\ UNCHANGED <<mBans, mAlerts, feedQ, mDay>>

MemRememberMessageID(m) ==
  /\ m \notin DOMAIN past
  /\ past' = With(past, m, mDay)
  /\ UNCHANGED <<grp, arts, byNum, mBans, mAlerts, feedQ, mDay, twice>>

\* Of the articles S, those in g, and their numbers there.
InGroup(S, g) == {m \in S : g \in DOMAIN arts[m].groups}
NumbersOf(S, g) == {arts[m].groups[g] : m \in InGroup(S, g)}

\* The row of a group after k articles and their numbers N are taken out of it.
LessNums(row, N, k) ==
  LET left == row.nums \ N IN
  IF k = 0 THEN row
  ELSE [row EXCEPT !.nums = left, !.count = IF @ > k THEN @ - k ELSE 0,
                   !.low = IF left = {} THEN row.high ELSE Min(left)]

\* deleteArticleLocked for each of S: out of the groups it has a number in, and out of the
\* feed queue.  The number of an earlier listing of the group stays.  before is the groups'
\* rows at that time.
DeleteArticles(S, before) ==
  /\ grp' = [g \in DOMAIN grp |-> LessNums(before[g], NumbersOf(S, g), Cardinality(InGroup(S, g)))]
  /\ byNum' = [g \in DOMAIN byNum |-> Less(byNum[g], NumbersOf(S, g))]
  /\ arts' = Less(arts, S)
  /\ feedQ' = feedQ \ S

MemCancelMessageID(m) ==
  /\ past' = With(past, m, mDay)
  /\ DeleteArticles({m} \intersect DOMAIN arts, grp)
  /\ UNCHANGED <<mBans, mAlerts, mDay, twice>>

-----------------------------------------------------------------------------
(* The feed queue. *)

MemEnqueueFeed(m) ==
  /\ m \in DOMAIN arts
  /\ feedQ' = feedQ \union {m}
  /\ UNCHANGED <<grp, arts, byNum, past, mBans, mAlerts, mDay, twice>>

\* CompleteFeed takes one item off, FlushFeedQueue all of them.
TakeOffFeed(S) ==
  /\ S # {}
  /\ feedQ' = feedQ \ S
  /\ UNCHANGED <<grp, arts, byNum, past, mBans, mAlerts, mDay, twice>>

-----------------------------------------------------------------------------
(* Retention. *)

\* NoteAccept of a group that its name or a flood of binaries gives a short retention.
MemNoteAccept(g) ==
  LET alert == [group |-> g, status |-> "open"] IN
  /\ g \in DOMAIN grp
  /\ grp[g].mode # "whitelist"
  /\ grp' = [grp EXCEPT ![g].mode = "auto"]
  /\ alert \in Range(mAlerts) \/ Len(mAlerts) < MaxAlerts
  /\ mAlerts' = IF alert \in Range(mAlerts) THEN mAlerts ELSE Append(mAlerts, alert)
  /\ UNCHANGED <<arts, byNum, past, mBans, feedQ, mDay, twice>>

Blocked(row) == [row EXCEPT !.status = "n", !.mode = "blocked"]

\* ResolveGroupAlert: what each action makes of the group's row and of the alert.
Resolutions(row) ==
  {[row |-> Blocked(row), status |-> "blocked"],
   [row |-> [row EXCEPT !.mode = "whitelist"], status |-> "whitelisted"],
   [row |-> row, status |-> "dismissed"],
   [row |-> [row EXCEPT !.mode = "unset"], status |-> "dismissed"]}

MemResolveGroupAlert(i) ==
  LET g == mAlerts[i].group IN
  /\ \E r \in Resolutions(IF g \in DOMAIN grp THEN grp[g] ELSE NewGroup("y")) :
       /\ grp' = IF g \in DOMAIN grp THEN [grp EXCEPT ![g] = r.row] ELSE grp
       /\ mAlerts' = [mAlerts EXCEPT ![i].status = r.status]
  /\ UNCHANGED <<arts, byNum, past, mBans, feedQ, mDay, twice>>

MemBan(g) ==
  /\ mBans' = IF g \in mBans THEN mBans \ {g} ELSE mBans \union {g}
  /\ UNCHANGED <<grp, arts, byNum, past, mAlerts, feedQ, mDay, twice>>

\* The groups of blocked alerts are blocked again; every article in an unwanted group is
\* deleted from all of its groups.
MemPurge ==
  LET alerted == {a.group : a \in {x \in Range(mAlerts) : x.status = "blocked"}}
      names   == alerted \union mBans \union {g \in DOMAIN grp : grp[g].mode = "blocked"}
      doomed  == {m \in DOMAIN arts : DOMAIN arts[m].groups \intersect names # {}}
  IN
  /\ names # {}
  /\ DeleteArticles(doomed, [g \in DOMAIN grp |-> IF g \in alerted THEN Blocked(grp[g]) ELSE grp[g]])
  /\ UNCHANGED <<past, mBans, mAlerts, mDay, twice>>

\* Mutation of Kept: the count is that of the group before.
KeptCount(row, nums) ==
  [row EXCEPT !.nums = nums, !.low = IF nums = {} THEN 0 ELSE Min(nums),
              !.high = IF nums = {} THEN 0 ELSE Max(nums)]

\* What Expire makes of a group's row: its marks become those of the numbers that stay, so a
\* group left empty starts again at number 1.
Kept(row, nums) ==
  [row EXCEPT !.nums = nums, !.count = Cardinality(nums),
              !.low = IF nums = {} THEN 0 ELSE Min(nums),
              !.high = IF nums = {} THEN 0 ELSE Max(nums)]

\* Of the groups with days of retention: here those that NoteAccept limited, as the calls by
\* which an administrator sets days are left out.  An expired entry leaves the article's groups
\* only if the article is still that one.
MemExpire ==
  LET limited == {g \in DOMAIN grp : grp[g].mode = "auto"}
      stale(g) == {n \in DOMAIN byNum[g] : g \in limited /\ byNum[g][n].at + FloodKeep < mDay}
      out(m)  == {g \in limited : arts[m].at + FloodKeep < mDay}
      left    == [m \in DOMAIN arts |-> [at |-> arts[m].at, groups |-> Less(arts[m].groups, out(m))]]
      arts1   == Less(left, {m \in DOMAIN left : DOMAIN left[m].groups = {}})
      old     == {m \in DOMAIN past \ DOMAIN arts1 : past[m] + HistoryKeep < mDay}
  IN
  /\ grp' = [g \in DOMAIN grp |->
               IF g \in limited THEN Kept(grp[g], grp[g].nums \ stale(g)) ELSE grp[g]]
  /\ byNum' = [g \in DOMAIN byNum |-> Less(byNum[g], stale(g))]
  /\ arts' = arts1
  /\ past' = Less(past, old)
  /\ UNCHANGED <<mBans, mAlerts, feedQ, mDay, twice>>

MemNextDay ==
  /\ mDay < MaxMemDay
  /\ mDay' = mDay + 1
  /\ UNCHANGED <<grp, arts, byNum, past, mBans, mAlerts, feedQ, twice>>

MemNext ==
  \/ \E g \in MemGroups :
       \/ \E status \in {"y", "n"} : UpsertGroup(g, status)
       \/ MemDeleteGroup(g)
  \/ \E m \in MemIds :
       \/ \E header \in Headers[m] : MemPost(m, header)
       \/ MemRememberMessageID(m)
       \/ MemCancelMessageID(m)
       \/ MemEnqueueFeed(m)
  \/ \E S \in {{m} : m \in feedQ} \union {feedQ} : TakeOffFeed(S)
  \/ \E i \in DOMAIN mAlerts : MemResolveGroupAlert(i)
  \/ \E g \in Suspect : MemNoteAccept(g) \/ MemBan(g)
  \/ MemPurge
  \/ MemExpire
  \/ MemNextDay

MemSpec == MemInit /\ [][MemNext]_memVars

-----------------------------------------------------------------------------

\* The types of the maps of the store.
MemTypeOK ==
  /\ DOMAIN grp \subseteq MemGroups
  /\ \A g \in DOMAIN grp :
       grp[g] \in [status : {"y", "n"}, mode : {"unset", "auto", "whitelist", "blocked"},
                  low : 0..MaxHigh, high : 0..MaxHigh, count : 0..MaxHigh, nums : SUBSET (1..MaxHigh)]
  /\ \A g \in DOMAIN byNum : \A n \in DOMAIN byNum[g] : byNum[g][n] \in [msg : MemIds, at : 0..MaxMemDay]
  /\ \A m \in DOMAIN arts : arts[m].at \in 0..MaxMemDay
  /\ DOMAIN arts \subseteq DOMAIN past /\ DOMAIN past \subseteq MemIds
  /\ \A m \in DOMAIN past : past[m] \in 0..MaxMemDay
  /\ feedQ \subseteq MemIds /\ twice \subseteq MemIds
  /\ mBans \subseteq Suspect
  /\ mDay \in 0..MaxMemDay

\* A reader that walks a group's numbers finds an article behind each of them, and each
\* article under each of its numbers: Overview, Next and ArticlesForGroup (memory.go:389,
\* 573, 902) use byNum[group][n] without looking whether it is there.  Only a header that
\* listed a group twice leaves a number behind when its article goes.
MemIndexesAgree ==
  /\ DOMAIN byNum = DOMAIN grp
  /\ \A g \in DOMAIN grp :
       LET row == grp[g] IN
       /\ row.nums = DOMAIN byNum[g]
       /\ row.count = Cardinality(row.nums)
       /\ \A n \in row.nums : row.low <= n /\ n <= row.high
       /\ \A n \in row.nums :
            LET m == byNum[g][n].msg IN
            \/ m \in twice
            \/ m \in DOMAIN arts /\ g \in DOMAIN arts[m].groups /\ arts[m].groups[g] = n
  /\ \A m \in DOMAIN arts : \A g \in DOMAIN arts[m].groups :
       /\ g \in DOMAIN byNum /\ arts[m].groups[g] \in DOMAIN byNum[g]
       /\ byNum[g][arts[m].groups[g]] = [msg |-> m, at |-> arts[m].at]

\* The store of the tests numbers articles as the real one does, so that what a test sees of
\* GROUP, OVER and NEXT is what a client would see.  The exception is Expire (memory.go),
\* which takes the high water mark back to the greatest number that stays.
TestStore == INSTANCE Numbering WITH
  Newsgroups <- MemGroups, carried <- DOMAIN grp,
  numbers  <- [g \in MemGroups |-> IF g \in DOMAIN grp THEN grp[g].nums ELSE {}],
  lowMark  <- [g \in MemGroups |-> IF g \in DOMAIN grp THEN grp[g].low ELSE 0],
  highMark <- [g \in MemGroups |-> IF g \in DOMAIN grp THEN grp[g].high ELSE 0],
  astray   <- {}

NumbersButForExpire ==
  TestStore!Init /\ [][UNCHANGED grp \/ TestStore!Next \/ MemExpire]_(TestStore!vars)
=============================================================================
