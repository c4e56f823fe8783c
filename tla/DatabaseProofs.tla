-------------------------- MODULE DatabaseProofs ----------------------------
(*************************************************************************)
(* What is proved of statements and readers of the database: Reading,    *)
(* StoreTxn and ContentStats; and of the MemoryStore that stands in for  *)
(* it.  Each for every value of its constants.                           *)
(*************************************************************************)
EXTENDS Reading, StoreTxn, ContentStats, MemoryStore, FiniteSetTheorems, SequenceTheorems,
        WellFoundedInduction, TLAPS

-----------------------------------------------------------------------------
(* Reading: walks, news and read marks.                                    *)

Begun    == [step : {"begun"}, at : 0..MaxTime, slow : SUBSET Pollers]
Numbered == [step : {"numbered"}, at : 0..MaxTime, slow : SUBSET Pollers, num : Numbers]
WillSub  == [step : {"subscribe"}, user : Subscribers, life : 0..MaxLives]
WillRead == [step : {"mark"}, user : Subscribers, life : 0..MaxLives, num : 0..MaxNumber]

ReadingTypes ==
  /\ ReadingTypeOK
  /\ inFlight \in [Submissions -> {Idle0} \union Begun \union Numbered]
  /\ now \in 0..MaxTime
  /\ session \in [Readers -> [selected : BOOLEAN, cur : 0..MaxNumber, listing : BOOLEAN]]
  /\ walk \in [Readers -> [life : 0..MaxLives, from : 0..MaxNumber, shown : SUBSET Numbers]]
  /\ noted \in [Pollers -> (0..MaxTime) \union {NoDate}]
  /\ load \in [PageLoads -> {Idle0} \union WillSub \union WillRead]

HasTaken(p) == inFlight[p].step = "numbered"

\* A number is taken by one transaction at a time, and is the next one; a group that is gone
\* has neither articles nor transactions that number or count them.
NumbersInOrder ==
  /\ \A r \in rows : r.num <= top
  /\ \A p \in Submissions : HasTaken(p) => exists /\ inFlight[p].num = top + 1
  /\ \A p, q \in Submissions : HasTaken(p) /\ HasTaken(q) => p = q
  /\ \A n \in purge.seen : n <= top
  /\ ~exists => top = 0 /\ rows = {} /\ purge.seen = {} /\ ~purge.on /\ ~lowLost

\* A session that began its walk in the present group is at one of its numbers.
AtANumber ==
  \A s \in Readers :
    walk[s].life <= lives /\ (exists /\ walk[s].life = lives => session[s].cur <= top)

\* The DATE of a poll is not of the future; of the transactions in flight, those begun before
\* the last one are slow.
PollsInOrder ==
  \A c \in Pollers :
    /\ asked[c] <= now
    /\ noted[c] # NoDate => asked[c] <= noted[c] /\ noted[c] <= now
    /\ \A p \in Submissions :
         inFlight[p] # Idle0 /\ inFlight[p].at < asked[c] => c \in inFlight[p].slow

\* What a request read in the present group is one of its numbers.
LoadsMeanArticles ==
  \A q \in PageLoads : load[q].step = "mark" /\ Current(q) => load[q].num <= top

\* MarksMeanArticles without its arithmetic.
MarksBelowTop ==
  \A u \in Subscribers \ late : mark[u] <= top /\ (u \in subscribed => exists)

ReadingInv ==
  /\ ReadingTypes
  /\ NumbersInOrder
  /\ AtANumber /\ NothingBehindReader
  /\ PollsInOrder /\ NewsMissesOnlySlowPosts
  /\ LoadsMeanArticles /\ MarksBelowTop
  /\ \A q \in PageLoads : load[q] # Idle0 => load[q].life <= lives

LEMMA NoPurgeTypes ==
  /\ NoPurge \in [on : BOOLEAN, doomed : SUBSET Numbers, seen : SUBSET Numbers]
  /\ ~NoPurge.on /\ NoPurge.seen = {}
BY DEF NoPurge

LEMMA DeletionTypes ==
  \A b \in BOOLEAN : [on |-> b, subs |-> {}, marks |-> {}]
                     \in [on : BOOLEAN, subs : SUBSET Subscribers, marks : SUBSET Subscribers]
OBVIOUS

LEMMA InitReadingInv == ReadingInit => ReadingInv
<1> SUFFICES ASSUME ReadingInit PROVE ReadingInv
  OBVIOUS
<1>1. ReadingTypes
  <2> DEFINE unselected == [selected |-> FALSE, cur |-> 0, listing |-> FALSE]
  <2>1. unselected \in [selected : BOOLEAN, cur : 0..MaxNumber, listing : BOOLEAN] /\ unselected.cur = 0
    BY ReadingAssumption
  <2>8. session = [s \in Readers |-> unselected]
    BY DEF ReadingInit
  <2> HIDE DEF unselected
  <2>2. deletion \in [on : BOOLEAN, subs : SUBSET Subscribers, marks : SUBSET Subscribers]
    BY DeletionTypes, Zenon DEF ReadingInit, NoDeletion
  <2>3. /\ session \in [Readers -> [selected : BOOLEAN, cur : 0..MaxNumber, listing : BOOLEAN]]
        /\ \A s \in Readers : session[s].cur = 0
    BY <2>1, <2>8
  <2>9. lives = 0 /\ top = 0 /\ bottom = 0 /\ rows = {} /\ exists \in BOOLEAN
    BY Zenon DEF ReadingInit
  <2>4. lives \in 0..MaxLives /\ exists \in BOOLEAN /\ top \in 0..MaxNumber /\ bottom \in 0..top /\ rows = {}
    BY ReadingAssumption, <2>9
  <2>5. /\ walk \in [Readers -> [life : 0..MaxLives, from : 0..MaxNumber, shown : SUBSET Numbers]]
        /\ \A s \in Readers : walk[s].shown = {}
    BY ReadingAssumption DEF ReadingInit
  <2>6. /\ inFlight \in [Submissions -> {Idle0} \union Begun \union Numbered] /\ now \in 0..MaxTime
        /\ load \in [PageLoads -> {Idle0} \union WillSub \union WillRead]
        /\ noted \in [Pollers -> (0..MaxTime) \union {NoDate}] /\ asked \in [Pollers -> 0..MaxTime]
        /\ subscribed \union late \subseteq Subscribers /\ mark \in [Subscribers -> 0..MaxNumber]
    BY ReadingAssumption DEF ReadingInit
  <2>7. \A s \in Readers : session[s].cur \in 0..MaxNumber
    BY <2>3, ReadingAssumption
  <2>10. purge \in [on : BOOLEAN, doomed : SUBSET Numbers, seen : SUBSET Numbers] /\ lowLost \in BOOLEAN
    BY NoPurgeTypes, Zenon DEF ReadingInit
  <2> QED
    BY <2>2, <2>3, <2>4, <2>5, <2>6, <2>7, <2>10 DEF ReadingTypes, ReadingTypeOK
<1>2. NumbersInOrder /\ AtANumber /\ NothingBehindReader /\ PollsInOrder /\ NewsMissesOnlySlowPosts
  BY ReadingAssumption, NoPurgeTypes
  DEF ReadingInit, NumbersInOrder, HasTaken, AtANumber, NothingBehindReader, RowNumbers, PollsInOrder,
      NewsMissesOnlySlowPosts, Idle0
<1>3. LoadsMeanArticles /\ MarksBelowTop
  BY DEF ReadingInit, LoadsMeanArticles, MarksBelowTop, Idle0
<1> QED
  BY <1>1, <1>2, <1>3 DEF ReadingInv, ReadingInit

-----------------------------------------------------------------------------
(* The group and its articles. *)

LEMMA LeastOfNumbers ==
  ASSUME NEW S \in SUBSET Nat, S # {}
  PROVE  Min(S) \in S /\ \A x \in S : Min(S) <= x
<1>1. PICK x \in S : \A y \in S : ~(<<y, x>> \in OpToRel(<, Nat))
  BY NatLessThanWellFounded, WFMin, Zenon
<1>2. \A y \in S : ~(y < x)
  BY <1>1 DEF OpToRel
<1>3. \A y \in S : x =< y
  BY <1>2
<1> QED
  BY <1>3 DEF Min

LEMMA CreateKeeps == ASSUME ReadingInv, CreateGroup PROVE ReadingInv'
<1> USE ReadingAssumption
<1>1. /\ lives' = lives + 1 /\ lives' \in 0..MaxLives /\ exists' = TRUE /\ top = 0 /\ rows = {}
      /\ top' = 0 /\ bottom' = 0 /\ rows' = {} /\ ~exists
      /\ UNCHANGED <<purge, lowLost, inFlight, now, session, walk, asked, noted, subscribed, mark, load,
                     deletion, late>>
  BY DEF CreateGroup, ReadingInv, ReadingTypes, ReadingTypeOK, NumbersInOrder, walkVars, pollVars, markVars
<1>2. ReadingTypes'
  BY <1>1 DEF ReadingInv, ReadingTypes, ReadingTypeOK
<1>3. NumbersInOrder' /\ NewsMissesOnlySlowPosts' /\ PollsInOrder' /\ MarksBelowTop'
  BY <1>1 DEF ReadingInv, NumbersInOrder, HasTaken, NewsMissesOnlySlowPosts, PollsInOrder, MarksBelowTop
<1>4. AtANumber' /\ NothingBehindReader'
  BY <1>1 DEF ReadingInv, ReadingTypes, ReadingTypeOK, AtANumber, NothingBehindReader, RowNumbers
<1>5. LoadsMeanArticles' /\ \A q \in PageLoads : load'[q] # Idle0 => load'[q].life <= lives'
  <2>1. \A q \in PageLoads : load[q] # Idle0 => load[q].life \in Nat /\ load[q].life <= lives
    BY DEF ReadingInv, ReadingTypes, WillSub, WillRead
  <2>2. \A q \in PageLoads : load[q].step = "mark" => load[q] # Idle0
    BY DEF Idle0
  <2> QED
    BY <1>1, <2>1, <2>2 DEF ReadingInv, ReadingTypes, ReadingTypeOK, LoadsMeanArticles, Current
<1> QED
  BY <1>2, <1>3, <1>4, <1>5 DEF ReadingInv

\* A post that begins, takes its number or fails: only what it is doing changes.
LEMMA PostStepKeeps ==
  ASSUME ReadingInv, NEW p \in Submissions, StoreBegins(p) \/ StoreNumbers(p) \/ StoreFails(p)
  PROVE  ReadingInv'
<1> USE ReadingAssumption
<1>1. UNCHANGED <<lives, exists, top, bottom, rows, purge, lowLost, now, session, walk, asked, noted, subscribed,
                  mark, load, deletion, late>>
  BY DEF StoreBegins, StoreNumbers, StoreFails, storedVars, walkVars, pollVars, markVars
<1>2. inFlight \in [Submissions -> {Idle0} \union Begun \union Numbered] /\ top \in 0..MaxNumber
      /\ now \in 0..MaxTime
  BY DEF ReadingInv, ReadingTypes, ReadingTypeOK
<1>3. /\ inFlight' \in [Submissions -> {Idle0} \union Begun \union Numbered]
      /\ \A q \in Submissions \ {p} : inFlight'[q] = inFlight[q]
      /\ HasTaken(p)' => exists /\ inFlight'[p].num = top + 1 /\ \A q \in Submissions : ~HasTaken(q)
      /\ inFlight'[p] # Idle0 => \/ inFlight'[p].at = now
                                 \/ inFlight[p] # Idle0 /\ inFlight'[p].at = inFlight[p].at
                                    /\ inFlight'[p].slow = inFlight[p].slow
  <2>1. CASE StoreBegins(p)
    <3> DEFINE new == [step |-> "begun", at |-> now, slow |-> {}]
    <3>1. new \in Begun /\ new.step # "numbered" /\ new.at = now
      BY <1>2 DEF Begun
    <3>2. inFlight' = [inFlight EXCEPT ![p] = new]
      BY <2>1 DEF StoreBegins
    <3> HIDE DEF new
    <3> QED
      BY <1>2, <3>1, <3>2 DEF HasTaken
  <2>2. CASE StoreNumbers(p)
    <3> DEFINE new == [step |-> "numbered", at |-> inFlight[p].at, slow |-> inFlight[p].slow, num |-> top + 1]
    <3>1. inFlight[p] \in Begun /\ inFlight[p] # Idle0
      BY <1>2, <2>2 DEF StoreNumbers, Idle0, Numbered
    <3>2. new \in Numbered /\ new.at = inFlight[p].at /\ new.slow = inFlight[p].slow /\ new.num = top + 1
      BY <1>2, <2>2, <3>1 DEF StoreNumbers, Begun, Numbered, Numbers
    <3>3. inFlight' = [inFlight EXCEPT ![p] = new] /\ exists /\ \A q \in Submissions : ~HasTaken(q)
      BY <2>2 DEF StoreNumbers, RowFree, HasTaken
    <3> HIDE DEF new
    <3> QED
      BY <1>2, <3>1, <3>2, <3>3
  <2>3. CASE StoreFails(p)
    BY <1>2, <2>3 DEF StoreFails, Idle0, HasTaken
  <2> QED
    BY <2>1, <2>2, <2>3
<1>4. ReadingTypes'
  BY <1>1, <1>3 DEF ReadingInv, ReadingTypes, ReadingTypeOK
<1>5. NumbersInOrder'
  BY <1>1, <1>3 DEF ReadingInv, NumbersInOrder, HasTaken
<1>6. PollsInOrder'
  <2>1. \A c \in Pollers : asked[c] \in Nat /\ asked[c] <= now
    BY DEF ReadingInv, ReadingTypes, ReadingTypeOK, PollsInOrder
  <2> QED
    BY <1>1, <1>2, <1>3, <2>1 DEF ReadingInv, PollsInOrder
<1>7. AtANumber' /\ NothingBehindReader' /\ NewsMissesOnlySlowPosts' /\ LoadsMeanArticles'
      /\ MarksBelowTop' /\ \A q \in PageLoads : load'[q] # Idle0 => load'[q].life <= lives'
  BY <1>1 DEF ReadingInv, AtANumber, NothingBehindReader, RowNumbers, NewsMissesOnlySlowPosts,
              LoadsMeanArticles, Current, MarksBelowTop
<1> QED
  BY <1>4, <1>5, <1>6, <1>7 DEF ReadingInv

LEMMA CommitKeeps == ASSUME ReadingInv, NEW p \in Submissions, StoreCommits(p) PROVE ReadingInv'
<1> USE ReadingAssumption
<1> DEFINE new == [num |-> inFlight[p].num, at |-> inFlight[p].at,
                   slow |-> inFlight[p].slow, told |-> {}]
<1>1. /\ inFlight \in [Submissions -> {Idle0} \union Begun \union Numbered]
      /\ inFlight[p] \in Numbered /\ inFlight[p] # Idle0 /\ HasTaken(p)
      /\ top \in 0..MaxNumber /\ bottom \in 0..top
  BY DEF StoreCommits, ReadingInv, ReadingTypes, ReadingTypeOK, Idle0, Begun, HasTaken
<1>2. /\ new \in [num : Numbers, at : 0..MaxTime, slow : SUBSET Pollers, told : SUBSET Pollers]
      /\ new.num = top + 1 /\ new.at = inFlight[p].at /\ new.slow = inFlight[p].slow /\ exists
  BY <1>1 DEF Numbered, ReadingInv, NumbersInOrder
<1>3. /\ rows' = rows \union {new} /\ top' = top + 1 /\ bottom' \in 0..top'
      /\ inFlight' = [inFlight EXCEPT ![p] = Idle0]
      /\ UNCHANGED <<lives, exists, purge, lowLost, now, session, walk, asked, noted, subscribed, mark,
                     load, deletion, late>>
  BY <1>1, <1>2 DEF StoreCommits, walkVars, pollVars, markVars
<1>4. top' \in 0..MaxNumber
  BY <1>2, <1>3 DEF Numbers
<1> HIDE DEF new
<1>5. ReadingTypes'
  BY <1>1, <1>2, <1>3, <1>4 DEF ReadingInv, ReadingTypes, ReadingTypeOK
<1>6. NumbersInOrder'
  <2>1. \A q \in Submissions : ~HasTaken(q)'
    BY <1>1, <1>3 DEF ReadingInv, NumbersInOrder, HasTaken, Idle0
  <2>2. \A r \in rows : r.num \in Nat /\ r.num <= top
    BY DEF ReadingInv, ReadingTypes, ReadingTypeOK, NumbersInOrder, Numbers
  <2>3. \A n \in purge.seen : n \in Nat /\ n <= top
    BY DEF ReadingInv, ReadingTypes, ReadingTypeOK, NumbersInOrder, Numbers
  <2> QED
    BY <1>1, <1>2, <1>3, <2>1, <2>2, <2>3 DEF NumbersInOrder
<1>7. AtANumber' /\ NothingBehindReader'
  <2>1. \A s \in Readers : session[s].cur \in Nat
    BY DEF ReadingInv, ReadingTypes
  <2>2. RowNumbers' = RowNumbers \union {top + 1}
    BY <1>2, <1>3 DEF RowNumbers
  <2> QED
    BY <1>1, <1>2, <1>3, <2>1, <2>2 DEF ReadingInv, AtANumber, NothingBehindReader
<1>8. PollsInOrder' /\ NewsMissesOnlySlowPosts'
  <2>1. PollsInOrder'
    BY <1>1, <1>3 DEF ReadingInv, PollsInOrder
  <2>2. \A c \in Pollers : new.at < asked[c] => c \in new.slow
    BY <1>1, <1>2 DEF ReadingInv, PollsInOrder
  <2> QED
    BY <1>3, <2>1, <2>2 DEF ReadingInv, NewsMissesOnlySlowPosts
<1>9. LoadsMeanArticles' /\ MarksBelowTop' /\ \A q \in PageLoads : load'[q] # Idle0 => load'[q].life <= lives'
  <2>1. \A q \in PageLoads : load[q].step = "mark" => load[q].num \in Nat
    BY DEF ReadingInv, ReadingTypes, Idle0, WillSub, WillRead
  <2>2. \A u \in Subscribers : mark[u] \in Nat
    BY DEF ReadingInv, ReadingTypes, ReadingTypeOK
  <2> QED
    BY <1>1, <1>3, <2>1, <2>2 DEF ReadingInv, LoadsMeanArticles, Current, MarksBelowTop
<1> QED
  BY <1>5, <1>6, <1>7, <1>8, <1>9 DEF ReadingInv

LEMMA LowIsANumber ==
  ASSUME ReadingInv, NEW nums \in SUBSET Numbers, \A n \in nums : n <= top
  PROVE  /\ LowOf(nums) \in 0..top /\ (LowOf(nums) \in 1..top \/ LowOf(nums) = top)
         /\ LowOf(nums) = top \/ LowOf(nums) \in nums
         /\ \A n \in nums : LowOf(nums) <= n
<1>1. top \in Nat /\ nums \in SUBSET Nat /\ \A n \in nums : n \in 1..top
  BY DEF ReadingInv, ReadingTypes, ReadingTypeOK, Numbers
<1>2. CASE nums = {}
  BY <1>1, <1>2 DEF LowOf
<1>3. CASE nums # {}
  <2>1. LowOf(nums) \in nums /\ \A n \in nums : LowOf(nums) <= n
    BY <1>1, <1>3, LeastOfNumbers DEF LowOf
  <2>2. LowOf(nums) \in 1..top
    BY <1>1, <2>1, Zenon
  <2> QED
    BY <1>1, <2>1, <2>2
<1> QED
  BY <1>2, <1>3

\* What cancels, expiries and purges do to the group.
LEMMA WithdrawalKeeps ==
  ASSUME ReadingInv, rows' \subseteq rows, bottom' \in 0..top, lowLost' \in BOOLEAN,
         lowLost' => exists, purge' = purge \/ purge' = NoPurge
         \/ (exists /\ purge'.seen \subseteq RowNumbers
               /\ purge' \in [on : BOOLEAN, doomed : SUBSET Numbers, seen : SUBSET Numbers]),
         UNCHANGED <<lives, exists, top, inFlight, now, session, walk, asked, noted, subscribed,
                     mark, load, deletion, late>>
  PROVE  ReadingInv'
<1>1. /\ purge' \in [on : BOOLEAN, doomed : SUBSET Numbers, seen : SUBSET Numbers]
      /\ \A n \in purge'.seen : n <= top
      /\ ~exists => purge'.seen = {} /\ ~purge'.on
  <2>1. purge \in [on : BOOLEAN, doomed : SUBSET Numbers, seen : SUBSET Numbers]
        /\ \A n \in purge.seen : n <= top
    BY DEF ReadingInv, ReadingTypes, ReadingTypeOK, NumbersInOrder
  <2>2. \A n \in RowNumbers : n <= top
    BY DEF ReadingInv, NumbersInOrder, RowNumbers
  <2>3. CASE purge' = purge
    BY <2>1, <2>3 DEF ReadingInv, NumbersInOrder
  <2>4. CASE purge' = NoPurge
    BY <2>4, NoPurgeTypes
  <2> QED
    BY <2>2, <2>3, <2>4
<1>2. ReadingTypes'
  BY <1>1 DEF ReadingInv, ReadingTypes, ReadingTypeOK
<1>3. NumbersInOrder'
  BY <1>1 DEF ReadingInv, NumbersInOrder, HasTaken
<1>4. AtANumber' /\ NothingBehindReader'
  BY DEF ReadingInv, AtANumber, NothingBehindReader, RowNumbers
<1>5. PollsInOrder' /\ NewsMissesOnlySlowPosts' /\ LoadsMeanArticles' /\ MarksBelowTop'
      /\ \A q \in PageLoads : load'[q] # Idle0 => load'[q].life <= lives'
  BY DEF ReadingInv, PollsInOrder, NewsMissesOnlySlowPosts, LoadsMeanArticles, Current, MarksBelowTop
<1> QED
  BY <1>2, <1>3, <1>4, <1>5 DEF ReadingInv

LEMMA CancelRowKeeps == ASSUME ReadingInv, NEW gone, CancelRow(gone) PROVE ReadingInv'
<1>1. RowNumbers \subseteq Numbers /\ \A n \in RowNumbers : n <= top
  BY DEF ReadingInv, ReadingTypes, ReadingTypeOK, NumbersInOrder, RowNumbers
<1>2. RowNumbers \ gone \in SUBSET Numbers /\ \A n \in RowNumbers \ gone : n <= top
  BY <1>1
<1>3. LowOf(RowNumbers \ gone) \in 0..top
  BY <1>2, LowIsANumber
<1> QED
  BY <1>3, WithdrawalKeeps DEF CancelRow, walkVars, pollVars, markVars

LEMMA ExpireRowKeeps == ASSUME ReadingInv, NEW n, ExpireRow(n) PROVE ReadingInv'
<1>1. bottom \in 0..top /\ lowLost \in BOOLEAN /\ (lowLost => exists)
  BY DEF ReadingInv, ReadingTypes, ReadingTypeOK, NumbersInOrder
<1> QED
  BY <1>1, WithdrawalKeeps DEF ExpireRow, walkVars, pollVars, markVars

LEMMA PurgeStepsKeep ==
  ASSUME ReadingInv, PurgeDeletes \/ PurgeFails \/ PurgeCommits PROVE ReadingInv'
<1>1. bottom \in 0..top /\ lowLost \in BOOLEAN /\ (lowLost => exists) /\ RowNumbers \subseteq Numbers
  BY DEF ReadingInv, ReadingTypes, ReadingTypeOK, NumbersInOrder, RowNumbers
<1>2. CASE PurgeDeletes
  <2>1. PICK doomed \in SUBSET RowNumbers :
          purge' = [on |-> TRUE, doomed |-> doomed, seen |-> RowNumbers \ doomed]
    BY <1>2 DEF PurgeDeletes
  <2>2. /\ purge' \in [on : BOOLEAN, doomed : SUBSET Numbers, seen : SUBSET Numbers]
        /\ purge'.seen \subseteq RowNumbers
    BY <1>1, <2>1
  <2> QED
    BY <1>1, <1>2, <2>2, WithdrawalKeeps DEF PurgeDeletes, walkVars, pollVars, markVars
<1>3. CASE PurgeFails
  BY <1>1, <1>3, WithdrawalKeeps DEF PurgeFails, walkVars, pollVars, markVars
<1>4. CASE PurgeCommits
  <2>1. exists /\ purge.seen \in SUBSET Numbers /\ \A n \in purge.seen : n <= top
    BY <1>4 DEF PurgeCommits, ReadingInv, ReadingTypes, ReadingTypeOK, NumbersInOrder
  <2>2. LowOf(purge.seen) \in 0..top
    BY <2>1, LowIsANumber
  <2>3. lowLost' \in BOOLEAN
    BY <1>4 DEF PurgeCommits
  <2> QED
    BY <1>4, <2>1, <2>2, <2>3, WithdrawalKeeps DEF PurgeCommits, walkVars, pollVars, markVars
<1> QED
  BY <1>2, <1>3, <1>4

LEMMA DeletionKeeps ==
  ASSUME ReadingInv, DeletionBegins \/ DeletionFails PROVE ReadingInv'
<1>1. /\ \/ deletion' = [on |-> TRUE, subs |-> {}, marks |-> {}]
         \/ deletion' = [on |-> FALSE, subs |-> {}, marks |-> {}]
      /\ UNCHANGED <<lives, exists, top, bottom, rows, purge, lowLost, inFlight, now, session, walk, asked, noted,
                     subscribed, mark, load, late>>
  BY DEF DeletionBegins, DeletionFails, NoDeletion, groupRowVars, storedVars, walkVars, pollVars
<1>2. deletion' \in [on : BOOLEAN, subs : SUBSET Subscribers, marks : SUBSET Subscribers]
  BY <1>1, DeletionTypes, Zenon
<1>3. ReadingTypes'
  BY <1>1, <1>2 DEF ReadingInv, ReadingTypes, ReadingTypeOK
<1> QED
  BY <1>1, <1>3
  DEF ReadingInv, NumbersInOrder, HasTaken, AtANumber, NothingBehindReader, RowNumbers, PollsInOrder,
      NewsMissesOnlySlowPosts, LoadsMeanArticles, Current, MarksBelowTop

LEMMA GroupDeletedKeeps == ASSUME ReadingInv, GroupDeleted PROVE ReadingInv'
<1> USE ReadingAssumption
<1>1. /\ exists' = FALSE /\ top' = 0 /\ bottom' = 0 /\ rows' = {}
      /\ late' = deletion.subs \union deletion.marks
      /\ deletion' = [on |-> FALSE, subs |-> {}, marks |-> {}]
      /\ purge' = NoPurge /\ lowLost' = FALSE
      /\ subscribed' = subscribed \intersect deletion.subs
      /\ mark' = [u \in Subscribers |-> IF u \in deletion.marks THEN mark[u] ELSE 0]
      /\ \A p \in Submissions : ~HasTaken(p)
      /\ UNCHANGED <<lives, inFlight, now, session, walk, asked, noted, load>>
  BY DEF GroupDeleted, Unmarked, NoDeletion, RowFree, HasTaken, walkVars, pollVars
<1>2. deletion.subs \subseteq Subscribers /\ deletion.marks \subseteq Subscribers /\ mark' \in [Subscribers -> 0..MaxNumber]
  BY <1>1 DEF ReadingInv, ReadingTypes, ReadingTypeOK
<1>3. deletion' \in [on : BOOLEAN, subs : SUBSET Subscribers, marks : SUBSET Subscribers]
  BY <1>1, DeletionTypes, Zenon
<1>7. /\ exists' \in BOOLEAN /\ top' = 0 /\ bottom' = 0 /\ rows' = {}
      /\ late' = deletion.subs \union deletion.marks
      /\ subscribed' \subseteq subscribed /\ purge' = NoPurge /\ lowLost' = FALSE
      /\ UNCHANGED <<lives, inFlight, now, session, walk, asked, noted, load>>
  BY <1>1
<1>8. purge' \in [on : BOOLEAN, doomed : SUBSET Numbers, seen : SUBSET Numbers] /\ lowLost' \in BOOLEAN
  BY <1>7, NoPurgeTypes, Zenon
<1>6. ReadingTypes'
  BY <1>2, <1>3, <1>7, <1>8 DEF ReadingInv, ReadingTypes, ReadingTypeOK
<1>4. NumbersInOrder' /\ AtANumber' /\ NothingBehindReader' /\ PollsInOrder' /\ NewsMissesOnlySlowPosts'
  BY <1>1, NoPurgeTypes
  DEF ReadingInv, NumbersInOrder, HasTaken, AtANumber, NothingBehindReader, RowNumbers, PollsInOrder,
      NewsMissesOnlySlowPosts
<1>5. LoadsMeanArticles' /\ MarksBelowTop' /\ \A q \in PageLoads : load'[q] # Idle0 => load'[q].life <= lives'
  BY <1>1 DEF ReadingInv, LoadsMeanArticles, Current, MarksBelowTop
<1> QED
  BY <1>4, <1>5, <1>6 DEF ReadingInv

LEMMA GroupStepsKeep == ASSUME ReadingInv, GroupSteps PROVE ReadingInv'
BY CreateKeeps, PostStepKeeps, CommitKeeps, CancelRowKeeps, ExpireRowKeeps, DeletionKeeps, GroupDeletedKeeps DEF GroupSteps

-----------------------------------------------------------------------------
(* Sessions. *)

\* What a step of a session keeps is what it keeps of its own walk.
LEMMA SessionKeeps ==
  ASSUME ReadingInv, Reads, NEW s \in Readers,
         session' \in [Readers -> [selected : BOOLEAN, cur : 0..MaxNumber, listing : BOOLEAN]],
         walk' \in [Readers -> [life : 0..MaxLives, from : 0..MaxNumber, shown : SUBSET Numbers]],
         \A t \in Readers \ {s} : session'[t] = session[t] /\ walk'[t] = walk[t],
         walk'[s].life <= lives,
         exists /\ walk'[s].life = lives => session'[s].cur <= top,
         walk'[s].life = lives =>
           \A n \in RowNumbers : walk'[s].from < n /\ n <= session'[s].cur => n \in walk'[s].shown
  PROVE  ReadingInv'
<1>1. UNCHANGED <<lives, exists, top, bottom, rows, purge, lowLost, inFlight, now, asked, noted, subscribed, mark, load,
                  deletion, late>>
  BY DEF Reads, groupRowVars, storedVars, pollVars, markVars
<1>2. RowNumbers' = RowNumbers
  BY <1>1 DEF RowNumbers
<1>3. ReadingTypes'
  BY <1>1 DEF ReadingInv, ReadingTypes, ReadingTypeOK
<1>4. AtANumber' /\ NothingBehindReader'
  BY <1>1, <1>2 DEF ReadingInv, AtANumber, NothingBehindReader
<1>5. NumbersInOrder' /\ PollsInOrder' /\ NewsMissesOnlySlowPosts' /\ LoadsMeanArticles'
      /\ MarksBelowTop' /\ \A q \in PageLoads : load'[q] # Idle0 => load'[q].life <= lives'
  BY <1>1 DEF ReadingInv, NumbersInOrder, HasTaken, PollsInOrder, NewsMissesOnlySlowPosts, LoadsMeanArticles,
              Current, MarksBelowTop
<1> QED
  BY <1>3, <1>4, <1>5 DEF ReadingInv

Sessions == [selected : BOOLEAN, cur : 0..MaxNumber, listing : BOOLEAN]
Walks    == [life : 0..MaxLives, from : 0..MaxNumber, shown : SUBSET Numbers]

\* What the steps of sessions start from.
LEMMA SessionFacts ==
  ASSUME ReadingInv, NEW s \in Readers
  PROVE  /\ session \in [Readers -> Sessions] /\ walk \in [Readers -> Walks]
         /\ session[s].cur \in 0..MaxNumber /\ session[s].selected \in BOOLEAN
         /\ session[s].listing \in BOOLEAN
         /\ walk[s].from \in Nat /\ walk[s].life \in Nat /\ walk[s].life <= lives
         /\ walk[s].shown \subseteq Numbers
         /\ lives \in 0..MaxLives /\ top \in 0..MaxNumber /\ bottom \in 0..top
         /\ RowNumbers \subseteq Numbers /\ \A n \in RowNumbers : n <= top
         /\ exists /\ walk[s].life = lives => session[s].cur <= top
         /\ walk[s].life = lives =>
               \A n \in RowNumbers : walk[s].from < n /\ n <= session[s].cur => n \in walk[s].shown
         /\ ~exists => RowNumbers = {}
BY ReadingAssumption
DEF ReadingInv, ReadingTypes, ReadingTypeOK, NumbersInOrder, AtANumber, NothingBehindReader, RowNumbers,
    Sessions, Walks

LEMMA SelectsKeeps ==
  ASSUME ReadingInv, NEW s \in Readers, NEW listing \in BOOLEAN, Selects(s, listing)
  PROVE  ReadingInv'
<1> USE ReadingAssumption
<1> DEFINE here == [selected |-> TRUE, cur |-> bottom, listing |-> listing]
           new  == [life |-> lives, from |-> bottom, shown |-> {}]
<1>1. bottom \in 0..MaxNumber /\ bottom <= top /\ lives \in 0..MaxLives
  BY SessionFacts
<1>2. here \in Sessions /\ here.cur = bottom
  BY <1>1 DEF Sessions
<1>3. new \in Walks /\ new.life = lives /\ new.from = bottom
  BY <1>1 DEF Walks
<1>4. session' = [session EXCEPT ![s] = here] /\ walk' = [walk EXCEPT ![s] = new] /\ Reads
  BY DEF Selects, WalksFrom
<1> HIDE DEF here, new
<1>5. session' \in [Readers -> Sessions] /\ walk' \in [Readers -> Walks]
      /\ session'[s] = here /\ walk'[s] = new
      /\ \A t \in Readers \ {s} : session'[t] = session[t] /\ walk'[t] = walk[t]
  BY <1>2, <1>3, <1>4, SessionFacts
<1>6. \A n \in RowNumbers : ~(bottom < n /\ n <= bottom)
  BY <1>1, SessionFacts DEF Numbers
<1> QED
  BY <1>1, <1>2, <1>3, <1>4, <1>5, <1>6, SessionKeeps DEF Sessions, Walks

\* A step that shows articles, and leaves the place the walk began and the position alone.
LEMMA ShowingKeeps ==
  ASSUME ReadingInv, NEW s \in Readers, NEW nums \in SUBSET Numbers,
         Shows(s, nums) \/ UNCHANGED walk,
         session' \in [Readers -> Sessions],
         \A t \in Readers : session'[t].cur = session[t].cur,
         \A t \in Readers \ {s} : session'[t] = session[t],
         Reads
  PROVE  ReadingInv'
<1>1. /\ walk' \in [Readers -> Walks]
      /\ walk'[s].life = walk[s].life /\ walk'[s].from = walk[s].from
      /\ walk[s].shown \subseteq walk'[s].shown
      /\ \A t \in Readers \ {s} : walk'[t] = walk[t]
  BY SessionFacts DEF Shows, Walks
<1>2. session'[s].cur = session[s].cur
  OBVIOUS
<1> QED
  BY <1>1, <1>2, SessionFacts, SessionKeeps DEF Sessions, Walks

LEMMA ListgroupEndsKeeps ==
  ASSUME ReadingInv, NEW s \in Readers, ListgroupEnds(s) PROVE ReadingInv'
<1>1. session' = [session EXCEPT ![s].listing = FALSE] /\ Reads
  BY DEF ListgroupEnds
<1>2. /\ session' \in [Readers -> Sessions]
      /\ \A t \in Readers : session'[t].cur = session[t].cur
      /\ \A t \in Readers \ {s} : session'[t] = session[t]
  BY <1>1, SessionFacts DEF Sessions
<1>3. \A lo, hi : ArticleNumbers(lo, hi) \in SUBSET Numbers
  BY SessionFacts DEF ArticleNumbers
<1>4. UNCHANGED walk \/ \E nums \in SUBSET Numbers : Shows(s, nums)
  BY <1>3 DEF ListgroupEnds
<1> QED
  BY <1>1, <1>2, <1>4, ShowingKeeps

\* FETCH of the current article, OVER and HDR show articles and move nothing.
LEMMA LookingKeeps ==
  ASSUME ReadingInv, NEW s \in Readers, FetchCurrent(s) \/ Over(s) \/ Hdr(s)
  PROVE  ReadingInv'
<1>1. UNCHANGED session /\ Reads
  BY DEF FetchCurrent, Over, Hdr
<1>2. \A lo, hi : {r.num : r \in Overview(lo, hi)} \in SUBSET Numbers
                  /\ {r.num : r \in Header(lo, hi)} \in SUBSET Numbers
  BY SessionFacts DEF Overview, Header, RowNumbers
<1>3. \E nums \in SUBSET Numbers : Shows(s, nums)
  <2>1. CASE FetchCurrent(s)
    <3>1. {session[s].cur} \in SUBSET Numbers
      BY <2>1, SessionFacts DEF FetchCurrent, HasNumber
    <3> QED
      BY <2>1, <3>1 DEF FetchCurrent
  <2>2. CASE Over(s)
    BY <1>2, <2>2 DEF Over
  <2>3. CASE Hdr(s)
    BY <1>2, <2>3 DEF Hdr
  <2> QED
    BY <2>1, <2>2, <2>3
<1> QED
  BY <1>1, <1>3, SessionFacts, ShowingKeeps

\* A step to the article n, which is shown: the walk goes on to it, or begins there anew.
LEMMA MovingKeeps ==
  ASSUME ReadingInv, NEW s \in Readers, Reads, NEW n \in RowNumbers, At(s, n),
         NEW new \in Walks, walk' = [walk EXCEPT ![s] = new], new.life <= lives,
         new.life = lives => \A m \in RowNumbers : new.from < m /\ m <= n => m \in new.shown
  PROVE  ReadingInv'
<1>1. /\ session' \in [Readers -> Sessions] /\ session'[s].cur = n
      /\ \A t \in Readers \ {s} : session'[t] = session[t]
  BY SessionFacts, ReadingAssumption DEF At, Sessions, Numbers
<1>2. /\ walk' \in [Readers -> Walks] /\ walk'[s] = new
      /\ \A t \in Readers \ {s} : walk'[t] = walk[t]
  BY SessionFacts
<1>3. n <= top
  BY SessionFacts
<1> QED
  BY <1>1, <1>2, <1>3, SessionKeeps DEF Sessions, Walks

LEMMA FetchNumberKeeps ==
  ASSUME ReadingInv, NEW s \in Readers, NEW n \in Numbers, FetchNumber(s, n) PROVE ReadingInv'
<1> DEFINE new == [life |-> lives, from |-> n, shown |-> {n}]
<1>1. new \in Walks /\ new.life = lives /\ new.from = n
  BY SessionFacts, ReadingAssumption DEF Walks, Numbers
<1>2. n \in RowNumbers /\ Reads /\ At(s, n) /\ walk' = [walk EXCEPT ![s] = new]
  BY DEF FetchNumber, HasNumber, WalksFrom
<1>3. \A m \in RowNumbers : ~(n < m /\ m <= n)
  BY SessionFacts DEF Numbers
<1>4. lives <= lives
  BY SessionFacts
<1> HIDE DEF new
<1> QED
  BY <1>1, <1>2, <1>3, <1>4, MovingKeeps

LEMMA NextArticleKeeps ==
  ASSUME ReadingInv, NEW s \in Readers, NextArticle(s) PROVE ReadingInv'
<1>1. PICK n \in Following(session[s].cur) : At(s, n) /\ Shows(s, {n})
  BY DEF NextArticle
<1>2. /\ n \in RowNumbers /\ n > session[s].cur /\ n \in Nat
      /\ \A m \in RowNumbers : m > session[s].cur => n <= m
  BY SessionFacts DEF Following, Numbers
<1> DEFINE new == [walk[s] EXCEPT !.shown = @ \union {n}]
<1>3. walk[s] \in Walks /\ {n} \subseteq Numbers
  BY <1>2, SessionFacts
<1>4. new \in Walks /\ new.life = walk[s].life /\ new.from = walk[s].from /\ new.shown = walk[s].shown \union {n}
  BY <1>3 DEF Walks
<1>5. walk' = [walk EXCEPT ![s] = new] /\ Reads
  BY <1>1, SessionFacts DEF Shows, NextArticle
<1>6. \A m \in RowNumbers : m \in Nat /\ session[s].cur \in Nat
  BY SessionFacts DEF Numbers
<1>7. new.life = lives => \A m \in RowNumbers : new.from < m /\ m <= n => m \in new.shown
  <2> SUFFICES ASSUME new.life = lives, NEW m \in RowNumbers, new.from < m, m <= n PROVE m \in new.shown
    OBVIOUS
  <2>1. CASE m <= session[s].cur
    BY <1>4, <2>1, SessionFacts
  <2>2. CASE m > session[s].cur
    <3>1. m = n
      BY <1>2, <1>6, <2>2
    <3> QED
      BY <1>4, <3>1
  <2> QED
    BY <1>6, <2>1, <2>2
<1>8. new.life <= lives
  BY <1>4, SessionFacts
<1> HIDE DEF new
<1> QED
  BY <1>1, <1>2, <1>4, <1>5, <1>7, <1>8, MovingKeeps

LEMMA LastArticleKeeps ==
  ASSUME ReadingInv, NEW s \in Readers, LastArticle(s) PROVE ReadingInv'
<1>1. PICK n \in Preceding(session[s].cur) :
        /\ At(s, n)
        /\ walk' = [walk EXCEPT ![s].shown = @ \union {n}, ![s].from = IF n < @ THEN n ELSE @]
  BY DEF LastArticle
<1>2. n \in RowNumbers /\ n < session[s].cur /\ n \in Numbers
  BY SessionFacts DEF Preceding
<1> DEFINE start == IF n < walk[s].from THEN n ELSE walk[s].from
           new == [walk[s] EXCEPT !.shown = @ \union {n}, !.from = IF n < @ THEN n ELSE @]
<1>3. start \in 0..MaxNumber /\ walk[s].life \in 0..MaxLives /\ walk[s].shown \subseteq Numbers
  BY <1>2, SessionFacts, ReadingAssumption DEF Numbers, Walks
<1>4. new \in Walks /\ new.life = walk[s].life /\ new.from = start /\ new.shown = walk[s].shown \union {n}
  <2>1. walk[s] \in Walks
    BY SessionFacts
  <2> QED
    BY <1>2, <1>3, <2>1 DEF Walks
<1>5. walk' = [walk EXCEPT ![s] = new] /\ Reads
  BY <1>1, SessionFacts DEF LastArticle
<1>6. \A m \in RowNumbers : m \in Nat /\ session[s].cur \in Nat /\ n \in Nat
  BY <1>2, SessionFacts DEF Numbers
<1>7. new.life = lives => \A m \in RowNumbers : new.from < m /\ m <= n => m \in new.shown
  <2> SUFFICES ASSUME walk[s].life = lives, NEW m \in RowNumbers, start < m, m <= n PROVE m \in walk[s].shown
    BY <1>4
  <2>1. ~(n < walk[s].from) /\ walk[s].from < m
    BY <1>6, SessionFacts
  <2>2. m <= session[s].cur
    BY <1>2, <1>6
  <2> QED
    BY <2>1, <2>2, SessionFacts
<1>8. new.life <= lives
  BY <1>4, SessionFacts
<1> HIDE DEF new
<1> QED
  BY <1>1, <1>2, <1>4, <1>5, <1>7, <1>8, MovingKeeps

LEMMA WalkKeeps == ASSUME ReadingInv, WalkNext PROVE ReadingInv'
<1>1. \A s \in Readers : SelectGroup(s) \/ ListgroupSelects(s) => ReadingInv'
  BY SelectsKeeps DEF SelectGroup, ListgroupSelects
<1> QED
  BY <1>1, GroupStepsKeep, ListgroupEndsKeeps, LookingKeeps, FetchNumberKeeps, NextArticleKeeps,
     LastArticleKeeps DEF WalkNext

-----------------------------------------------------------------------------
(* NEWNEWS. *)

LEMMA TimeKeeps == ASSUME ReadingInv, SecondPasses PROVE ReadingInv'
<1>1. /\ now' = now + 1 /\ now' \in 0..MaxTime /\ now \in Nat
      /\ UNCHANGED <<lives, exists, top, bottom, rows, purge, lowLost, inFlight, session, walk, asked, noted, subscribed, mark,
                     load, deletion, late>>
  BY ReadingAssumption DEF SecondPasses, ReadingInv, ReadingTypes, storedVars, walkVars, pollVars, markVars
<1>2. ReadingTypes'
  BY <1>1 DEF ReadingInv, ReadingTypes, ReadingTypeOK
<1>3. PollsInOrder'
  <2>1. \A c \in Pollers : asked[c] \in Nat /\ (noted[c] # NoDate => noted[c] \in Nat)
    BY DEF ReadingInv, ReadingTypes, ReadingTypeOK
  <2> QED
    BY <1>1, <2>1 DEF ReadingInv, PollsInOrder
<1> QED
  BY <1>1, <1>2, <1>3
  DEF ReadingInv, NumbersInOrder, HasTaken, AtANumber, NothingBehindReader, RowNumbers,
      NewsMissesOnlySlowPosts, LoadsMeanArticles, Current, MarksBelowTop

LEMMA ServerDateKeeps == ASSUME ReadingInv, NEW c \in Pollers, ServerDate(c) PROVE ReadingInv'
<1>1. /\ noted' = [noted EXCEPT ![c] = now] /\ now \in 0..MaxTime
      /\ UNCHANGED <<lives, exists, top, bottom, rows, purge, lowLost, inFlight, now, session, walk, asked, subscribed, mark,
                     load, deletion, late>>
  BY DEF ServerDate, ReadingInv, ReadingTypes, groupRowVars, storedVars, walkVars, markVars
<1>2. ReadingTypes'
  BY <1>1 DEF ReadingInv, ReadingTypes, ReadingTypeOK
<1>3. PollsInOrder'
  BY <1>1 DEF ReadingInv, ReadingTypes, PollsInOrder
<1> QED
  BY <1>1, <1>2, <1>3
  DEF ReadingInv, NumbersInOrder, HasTaken, AtANumber, NothingBehindReader, RowNumbers,
      NewsMissesOnlySlowPosts, LoadsMeanArticles, Current, MarksBelowTop

LEMMA NewNewsKeeps == ASSUME ReadingInv, NEW c \in Pollers, NewNews(c) PROVE ReadingInv'
<1> USE ReadingAssumption
<1> DEFINE Listed == [num : Numbers, at : 0..MaxTime, slow : SUBSET Pollers, told : SUBSET Pollers]
           Post == {Idle0} \union Begun \union Numbered
           tell(r) == IF StoredSince(r, asked[c]) THEN [r EXCEPT !.told = @ \union {c}] ELSE r
           slower(p) == IF inFlight[p] # Idle0 /\ inFlight[p].at < noted[c]
                        THEN [inFlight[p] EXCEPT !.slow = @ \union {c}] ELSE inFlight[p]
<1>1. /\ rows' = {tell(r) : r \in rows} /\ inFlight' = [p \in Submissions |-> slower(p)]
      /\ asked' = [asked EXCEPT ![c] = noted[c]] /\ noted' = [noted EXCEPT ![c] = NoDate]
      /\ noted[c] # NoDate
      /\ UNCHANGED <<lives, exists, top, bottom, purge, lowLost, now, session, walk, subscribed, mark, load,
                     deletion, late>>
  BY DEF NewNews, walkVars, markVars
<1>2. /\ noted[c] \in 0..MaxTime /\ asked[c] \in 0..MaxTime /\ asked[c] <= noted[c] /\ noted[c] <= now
      /\ rows \subseteq Listed /\ inFlight \in [Submissions -> Post] /\ now \in 0..MaxTime
      /\ asked \in [Pollers -> 0..MaxTime] /\ noted \in [Pollers -> (0..MaxTime) \union {NoDate}]
  BY <1>1 DEF ReadingInv, ReadingTypes, ReadingTypeOK, PollsInOrder
<1>3. \A r \in rows : /\ tell(r) \in Listed /\ tell(r).num = r.num /\ tell(r).at = r.at
                      /\ tell(r).slow = r.slow /\ r.told \subseteq tell(r).told
                      /\ asked[c] <= r.at => c \in tell(r).told
  BY <1>2 DEF StoredSince
<1>4. \A p \in Submissions :
        /\ slower(p) \in Post /\ slower(p).step = inFlight[p].step
        /\ slower(p) # Idle0 => /\ inFlight[p] # Idle0 /\ slower(p).at = inFlight[p].at
                                /\ inFlight[p].slow \subseteq slower(p).slow
                                /\ inFlight[p].at < noted[c] => c \in slower(p).slow
        /\ HasTaken(p) => slower(p).num = inFlight[p].num
  <2> SUFFICES ASSUME NEW p \in Submissions
               PROVE /\ slower(p) \in Post /\ slower(p).step = inFlight[p].step
                     /\ slower(p) # Idle0 => /\ inFlight[p] # Idle0 /\ slower(p).at = inFlight[p].at
                                             /\ inFlight[p].slow \subseteq slower(p).slow
                                             /\ inFlight[p].at < noted[c] => c \in slower(p).slow
                     /\ HasTaken(p) => slower(p).num = inFlight[p].num
    OBVIOUS
  <2>1. CASE inFlight[p] = Idle0
    BY <2>1 DEF HasTaken, Idle0
  <2>2. CASE inFlight[p] \in Begun
    BY <2>2 DEF HasTaken, Begun, Idle0
  <2>3. CASE inFlight[p] \in Numbered
    BY <2>3 DEF HasTaken, Numbered, Idle0
  <2> QED
    BY <1>2, <2>1, <2>2, <2>3
<1> HIDE DEF tell, slower
<1>5. ReadingTypes'
  BY <1>1, <1>2, <1>3, <1>4 DEF ReadingInv, ReadingTypes, ReadingTypeOK
<1>6. \A p \in Submissions : HasTaken(p)' <=> HasTaken(p)
  BY <1>1, <1>4 DEF HasTaken
<1>7. NumbersInOrder'
  BY <1>1, <1>3, <1>4, <1>6 DEF ReadingInv, NumbersInOrder
<1>8. AtANumber' /\ NothingBehindReader'
  <2>1. RowNumbers' = RowNumbers
    BY <1>1, <1>3 DEF RowNumbers
  <2> QED
    BY <1>1, <2>1 DEF ReadingInv, AtANumber, NothingBehindReader
<1>9. PollsInOrder'
  <2>1. \A d \in Pollers : /\ asked'[d] <= now
                           /\ noted'[d] # NoDate => asked'[d] <= noted'[d] /\ noted'[d] <= now
    BY <1>1, <1>2 DEF ReadingInv, PollsInOrder
  <2>2. ASSUME NEW d \in Pollers, NEW p \in Submissions, slower(p) # Idle0, slower(p).at < asked'[d]
        PROVE  d \in slower(p).slow
    <3>1. /\ inFlight[p] # Idle0 /\ slower(p).at = inFlight[p].at
          /\ inFlight[p].slow \subseteq slower(p).slow
          /\ inFlight[p].at < noted[c] => c \in slower(p).slow
      BY <1>4, <2>2
    <3>2. asked'[c] = noted[c] /\ (d # c => asked'[d] = asked[d])
      BY <1>1, <1>2
    <3>3. inFlight[p].at < asked[d] => d \in inFlight[p].slow
      BY <3>1 DEF ReadingInv, PollsInOrder
    <3> QED
      BY <2>2, <3>1, <3>2, <3>3
  <2> QED
    BY <1>1, <2>1, <2>2 DEF PollsInOrder
<1>10. NewsMissesOnlySlowPosts'
  <2> SUFFICES ASSUME NEW d \in Pollers, NEW r \in rows, tell(r).at < asked'[d]
               PROVE  d \in tell(r).told \union tell(r).slow
    BY <1>1 DEF NewsMissesOnlySlowPosts
  <2>1. CASE r.at < asked[d]
    BY <1>3, <2>1 DEF ReadingInv, NewsMissesOnlySlowPosts
  <2>2. CASE ~(r.at < asked[d])
    <3>1. d = c
      BY <1>1, <1>2, <1>3, <2>2
    <3> QED
      BY <1>2, <1>3, <2>2, <3>1
  <2> QED
    BY <2>1, <2>2
<1>11. LoadsMeanArticles' /\ MarksBelowTop' /\ \A q \in PageLoads : load'[q] # Idle0 => load'[q].life <= lives'
  BY <1>1 DEF ReadingInv, LoadsMeanArticles, Current, MarksBelowTop
<1> QED
  BY <1>5, <1>7, <1>8, <1>9, <1>10, <1>11 DEF ReadingInv

LEMMA NewsKeeps == ASSUME ReadingInv, NewsNext PROVE ReadingInv'
BY GroupStepsKeep, TimeKeeps, ServerDateKeeps, NewNewsKeeps DEF NewsNext

-----------------------------------------------------------------------------
(* Subscriptions and read marks. *)

\* Steps of the portal leave the group, its articles, sessions and polls alone.
LEMMA MarksKeepRest ==
  ASSUME ReadingInv, MarksOnly
  PROVE  NumbersInOrder' /\ AtANumber' /\ NothingBehindReader' /\ PollsInOrder' /\ NewsMissesOnlySlowPosts'
BY DEF ReadingInv, MarksOnly, groupRowVars, storedVars, walkVars, pollVars, NumbersInOrder, HasTaken, AtANumber,
       NothingBehindReader, RowNumbers, PollsInOrder, NewsMissesOnlySlowPosts

\* One request q of the user u has read something.
LEMMA LoadKeeps ==
  ASSUME ReadingInv, NEW q \in PageLoads, NEW new \in WillSub \union WillRead,
         load' = [load EXCEPT ![q] = new], new.life = lives,
         new.step = "mark" => new.num <= top,
         UNCHANGED <<subscribed, mark, deletion, late>>, MarksOnly
  PROVE  ReadingInv'
<1>4. UNCHANGED <<lives, exists, top, bottom, rows, purge, lowLost, inFlight, now, session, walk, asked, noted>>
  BY DEF MarksOnly, groupRowVars, storedVars, walkVars, pollVars
<1>1. ReadingTypes'
  BY <1>4 DEF ReadingInv, ReadingTypes, ReadingTypeOK
<1>2. lives' = lives /\ lives \in Nat /\ exists' = exists /\ top' = top
      /\ load'[q] = new /\ \A r \in PageLoads \ {q} : load'[r] = load[r]
  BY DEF ReadingInv, ReadingTypes, ReadingTypeOK, MarksOnly, groupRowVars, storedVars
<1>3. LoadsMeanArticles' /\ MarksBelowTop' /\ \A r \in PageLoads : load'[r] # Idle0 => load'[r].life <= lives'
  BY <1>2 DEF ReadingInv, LoadsMeanArticles, Current, MarksBelowTop
<1> QED
  BY <1>1, <1>3, MarksKeepRest DEF ReadingInv

LEMMA WillMarkKeeps ==
  ASSUME ReadingInv, NEW q \in PageLoads, NEW u \in Subscribers, NEW n \in 0..top, WillMark(q, u, n)
  PROVE  ReadingInv'
<1> DEFINE new == [step |-> "mark", user |-> u, life |-> lives, num |-> n]
<1>1. n \in 0..MaxNumber /\ lives \in 0..MaxLives /\ n <= top
  BY ReadingAssumption DEF ReadingInv, ReadingTypes, ReadingTypeOK
<1>2. new \in WillRead /\ new.life = lives /\ new.num = n
  BY <1>1 DEF WillRead
<1>3. load' = [load EXCEPT ![q] = new] /\ UNCHANGED <<subscribed, mark, deletion, late>> /\ MarksOnly
  BY DEF WillMark
<1> HIDE DEF new
<1> QED
  BY <1>1, <1>2, <1>3, LoadKeeps

LEMMA SubscribeFindsKeeps ==
  ASSUME ReadingInv, NEW q \in PageLoads, NEW u \in Subscribers, SubscribeFinds(q, u)
  PROVE  ReadingInv'
<1> DEFINE new == [step |-> "subscribe", user |-> u, life |-> lives]
<1>1. lives \in 0..MaxLives
  BY DEF ReadingInv, ReadingTypes, ReadingTypeOK
<1>2. new \in WillSub /\ new.life = lives /\ new.step # "mark"
  BY <1>1 DEF WillSub
<1>3. load' = [load EXCEPT ![q] = new] /\ UNCHANGED <<subscribed, mark, deletion, late>> /\ MarksOnly
  BY DEF SubscribeFinds
<1> HIDE DEF new
<1> QED
  BY <1>2, <1>3, LoadKeeps

\* A write of the portal, under its deletion or not.
LEMMA WriteKeeps ==
  ASSUME ReadingInv, MarksOnly, NEW u \in Subscribers,
         deletion' = deletion \/ NotesSub(u) \/ NotesMark(u),
         load' = load \/ \E q \in PageLoads : load' = [load EXCEPT ![q] = Idle0],
         late' = late \/ late' = late \union {u},
         subscribed' \subseteq subscribed \/ (subscribed' = subscribed \union {u} /\ (u \in late' \/ exists)),
         \/ UNCHANGED mark
         \/ \E n \in 0..MaxNumber : Marked(u, n) /\ (u \in late' \/ n <= top)
  PROVE  ReadingInv'
<1> USE ReadingAssumption
<1>1. UNCHANGED <<lives, exists, top, bottom, rows, purge, lowLost, inFlight, now, session, walk, asked, noted>>
  BY DEF MarksOnly, groupRowVars, storedVars, walkVars, pollVars
<1>2. deletion' \in [on : BOOLEAN, subs : SUBSET Subscribers, marks : SUBSET Subscribers]
  BY DEF NotesSub, NotesMark, ReadingInv, ReadingTypes, ReadingTypeOK
<1>3. /\ load' \in [PageLoads -> {Idle0} \union WillSub \union WillRead]
      /\ \A q \in PageLoads : load'[q] = load[q] \/ load'[q] = Idle0
  BY DEF ReadingInv, ReadingTypes
<1>4. subscribed' \subseteq Subscribers /\ late' \subseteq Subscribers
  BY DEF ReadingInv, ReadingTypes, ReadingTypeOK
<1>5. mark' \in [Subscribers -> 0..MaxNumber] /\ \A v \in Subscribers \ late' : mark'[v] <= top
  BY DEF Marked, ReadingInv, ReadingTypes, ReadingTypeOK, MarksBelowTop
<1>6. ReadingTypes'
  BY <1>1, <1>2, <1>3, <1>4, <1>5 DEF ReadingInv, ReadingTypes, ReadingTypeOK
<1>7. MarksBelowTop'
  BY <1>1, <1>5 DEF ReadingInv, MarksBelowTop
<1>8. LoadsMeanArticles' /\ \A r \in PageLoads : load'[r] # Idle0 => load'[r].life <= lives'
  BY <1>1, <1>3 DEF ReadingInv, LoadsMeanArticles, Current, Idle0
<1> QED
  BY <1>6, <1>7, <1>8, MarksKeepRest DEF ReadingInv

LEMMA MarksKeep == ASSUME ReadingInv, MarksNext PROVE ReadingInv'
<1> USE ReadingAssumption
<1>1. ASSUME NEW u \in Subscribers, Unsubscribe(u) PROVE ReadingInv'
  BY <1>1, WriteKeeps DEF Unsubscribe
<1>2. ASSUME NEW u \in Subscribers, NEW n \in Numbers, MarkThrough(u, n) PROVE ReadingInv'
  <2>1. n \in 0..MaxNumber /\ top \in Nat
    BY DEF Numbers, ReadingInv, ReadingTypes, ReadingTypeOK
  <2> QED
    BY <1>2, <2>1, WriteKeeps DEF MarkThrough
<1>3. ASSUME NEW q \in PageLoads, NEW u \in Subscribers, MarkAllReads(q, u) PROVE ReadingInv'
  BY <1>3, WillMarkKeeps DEF MarkAllReads, ReadingInv, ReadingTypes, ReadingTypeOK
<1>4. ASSUME NEW q \in PageLoads, NEW u \in Subscribers, NEW n \in Numbers, ReadArticle(q, u, n)
      PROVE  ReadingInv'
  <2>1. n \in 0..top
    BY <1>4 DEF ReadArticle, HasNumber, RowNumbers, Numbers, ReadingInv, ReadingTypes, ReadingTypeOK, NumbersInOrder
  <2> QED
    BY <1>4, <2>1, WillMarkKeeps DEF ReadArticle
<1>5. ASSUME NEW q \in PageLoads, Subscribe(q) PROVE ReadingInv'
  <2>1. load[q] \in WillSub
    BY <1>5 DEF Subscribe, ReadingInv, ReadingTypes, Idle0, WillRead
  <2>2. load[q].user \in Subscribers
    BY <2>1 DEF WillSub
  <2> QED
    BY <1>5, <2>2, WriteKeeps DEF Subscribe, Current
<1>6. ASSUME NEW q \in PageLoads, SetReadState(q) PROVE ReadingInv'
  <2>1. load[q] \in WillRead
    BY <1>6 DEF SetReadState, ReadingInv, ReadingTypes, Idle0, WillSub
  <2>2. load[q].user \in Subscribers /\ load[q].num \in 0..MaxNumber
    BY <2>1 DEF WillRead
  <2>3. Current(q) => load[q].num <= top
    BY <1>6 DEF SetReadState, ReadingInv, LoadsMeanArticles
  <2> QED
    BY <1>6, <2>2, <2>3, WriteKeeps DEF SetReadState
<1>7. ASSUME NEW q \in PageLoads, NEW u \in Subscribers, SubscribeFinds(q, u) PROVE ReadingInv'
  BY <1>7, SubscribeFindsKeeps
<1> QED
  BY <1>1, <1>2, <1>3, <1>4, <1>5, <1>6, <1>7, GroupStepsKeep DEF MarksNext

LEMMA NextReadingInv == ASSUME ReadingInv, [ReadingNext]_readingVars PROVE ReadingInv'
<1>1. CASE UNCHANGED readingVars
  <2>1. UNCHANGED <<lives, exists, top, bottom, rows, purge, lowLost, inFlight, now, session, walk, asked, noted, subscribed,
                    mark, load, deletion, late>>
    BY <1>1 DEF readingVars, groupRowVars, storedVars, walkVars, pollVars, markVars
  <2>2. ReadingTypes'
    BY <2>1 DEF ReadingInv, ReadingTypes, ReadingTypeOK
  <2> QED
    BY <2>1, <2>2
    DEF ReadingInv, NumbersInOrder, HasTaken, AtANumber, NothingBehindReader, RowNumbers, PollsInOrder,
        NewsMissesOnlySlowPosts, LoadsMeanArticles, Current, MarksBelowTop
<1> QED
  BY <1>1, WalkKeeps, NewsKeeps, MarksKeep, GroupStepsKeep, PurgeStepsKeep DEF ReadingNext, PurgeNext

-----------------------------------------------------------------------------

\* Rows, positions, polls, marks and requests hold what their columns may hold.
THEOREM ReadingTypeCorrect == ReadingSpec => []ReadingTypeOK
<1>1. ReadingInv => ReadingTypeOK
  BY DEF ReadingInv, ReadingTypes
<1> QED
  BY <1>1, InitReadingInv, NextReadingInv, PTL DEF ReadingSpec

\* A session that walks with NEXT and LAST is shown every article between the place it began
\* at and its position, however posts, cancels and a deletion interleave with it.
THEOREM WalksMissNothing == ReadingSpec => []NothingBehindReader
<1>1. ReadingInv => NothingBehindReader
  BY DEF ReadingInv
<1> QED
  BY <1>1, InitReadingInv, NextReadingInv, PTL DEF ReadingSpec

\* A client that polls with NEWNEWS since its last DATE misses at most the posts that had
\* begun by then and were not committed when it asked (NewNews, postgres.go:556).
THEOREM NewsIsComplete == ReadingSpec => []NewsMissesOnlySlowPosts
<1>1. ReadingInv => NewsMissesOnlySlowPosts
  BY DEF ReadingInv
<1> QED
  BY <1>1, InitReadingInv, NextReadingInv, PTL DEF ReadingSpec

\* Marks and subscriptions are about the present group, but for those of requests that ran
\* during its deletion and of made-up numbers (DeleteGroup, postgres_ops.go:154).
THEOREM MarksAreOfTheGroup == ReadingSpec => []MarksMeanArticles
<1>1. ReadingInv => MarksMeanArticles
  BY DEF ReadingInv, ReadingTypes, ReadingTypeOK, MarksBelowTop, MarksMeanArticles, Unread
<1> QED
  BY <1>1, InitReadingInv, NextReadingInv, PTL DEF ReadingSpec

-----------------------------------------------------------------------------
(* What readers are shown of the numbers of the group is Numbering's.  Only six steps are      *)
(* seen in them; the others change what is in the middle of happening.                         *)

\* A group with articles has a low water mark, and none of them is below it, unless it is lost.
NoneBelow == \A n \in RowNumbers : 0 < bottom /\ (lowLost \/ bottom <= n)

NumbersSeen == UNCHANGED <<exists, top, bottom, lowLost, RowNumbers>>

\* Two states that show the same numbers are the same to Numbering.
LEMMA SeenIsShown == ASSUME NumbersSeen PROVE UNCHANGED Shown!vars
BY DEF NumbersSeen, Shown!vars

LEMMA NewsShowsSame == ASSUME NEW c \in Pollers, NewNews(c), ReadingInv PROVE NumbersSeen
<1> DEFINE tell(r) == IF StoredSince(r, asked[c]) THEN [r EXCEPT !.told = @ \union {c}] ELSE r
<1>1. rows' = {tell(r) : r \in rows} /\ UNCHANGED <<exists, top, bottom, lowLost>>
  BY DEF NewNews
<1>2. \A r \in rows : tell(r).num = r.num
  BY DEF ReadingInv, ReadingTypes, ReadingTypeOK
<1> HIDE DEF tell
<1> QED
  BY <1>1, <1>2 DEF NumbersSeen, RowNumbers

LEMMA SeenSteps ==
  ASSUME ReadingInv, [ReadingNext]_readingVars
  PROVE  \/ NumbersSeen
         \/ CreateGroup \/ GroupDeleted
         \/ \E p \in Submissions : StoreCommits(p)
         \/ \E n \in Numbers : CancelRow({n} \intersect RowNumbers) \/ ExpireRow(n)
         \/ PurgeCommits
<1>1. ASSUME UNCHANGED groupRowVars PROVE NumbersSeen
  BY <1>1 DEF groupRowVars, storedVars, NumbersSeen, RowNumbers
<1>2. CASE UNCHANGED readingVars
  BY <1>1, <1>2 DEF readingVars
<1>3. CASE GroupSteps
  BY <1>1, <1>3
  DEF GroupSteps, StoreBegins, StoreNumbers, StoreFails, DeletionBegins, DeletionFails, NumbersSeen,
      storedVars, RowNumbers
<1>4. CASE WalkNext
  BY <1>1, <1>3, <1>4
  DEF WalkNext, SelectGroup, ListgroupSelects, Selects, ListgroupEnds, FetchCurrent, FetchNumber,
      NextArticle, LastArticle, Over, Hdr, Reads
<1>5. CASE NewsNext
  <2>1. ASSUME SecondPasses \/ \E c \in Pollers : ServerDate(c) PROVE NumbersSeen
    BY <2>1 DEF SecondPasses, ServerDate, groupRowVars, storedVars, NumbersSeen, RowNumbers
  <2> QED
    BY <1>3, <1>5, <2>1, NewsShowsSame DEF NewsNext
<1>6. CASE MarksNext
  BY <1>1, <1>3, <1>6
  DEF MarksNext, Unsubscribe, MarkThrough, SubscribeFinds, MarkAllReads, ReadArticle, WillMark,
      Subscribe, SetReadState, MarksOnly
<1>7. CASE PurgeNext
  BY <1>3, <1>7 DEF PurgeNext, PurgeDeletes, PurgeFails, NumbersSeen, RowNumbers
<1> QED
  BY <1>2, <1>4, <1>5, <1>6, <1>7 DEF ReadingNext

\* A step that shows something else appends the number of one post, withdraws one article,
\* or is about a group without articles.
LEMMA ShowsNext ==
  ASSUME ReadingInv, ReadingInv', NoneBelow, [ReadingNext]_readingVars
  PROVE  NoneBelow' /\ (UNCHANGED Shown!vars \/ Shown!Next)
<1>1. /\ top \in Nat /\ bottom \in Nat /\ bottom <= top
      /\ RowNumbers \subseteq Nat \ {0} /\ RowNumbers \subseteq Numbers /\ lowLost \in BOOLEAN
      /\ exists \in BOOLEAN /\ exists' \in BOOLEAN /\ \A n \in RowNumbers : n <= top
  BY ReadingAssumption
  DEF ReadingInv, ReadingTypes, ReadingTypeOK, NumbersInOrder, RowNumbers, Numbers
<1>2. CASE NumbersSeen
  BY <1>2, SeenIsShown DEF NumbersSeen, NoneBelow
<1>3. CASE CreateGroup \/ GroupDeleted
  <2>1. top' = 0 /\ bottom' = 0 /\ RowNumbers' = {} /\ ~(exists /\ exists') /\ ~lowLost'
    BY <1>3 DEF CreateGroup, GroupDeleted, RowNumbers, ReadingInv, NumbersInOrder
  <2>2. Shown!Blank("group")
    BY <2>1 DEF Shown!Blank
  <2> QED
    BY <1>1, <2>1, <2>2 DEF NoneBelow, Shown!Next
<1>4. ASSUME NEW p \in Submissions, StoreCommits(p)
      PROVE  NoneBelow' /\ Shown!Next
  <2>1. exists /\ exists' /\ inFlight[p].num = top + 1
    BY <1>4 DEF StoreCommits, ReadingInv, NumbersInOrder, HasTaken
  <2> DEFINE new == [num |-> inFlight[p].num, at |-> inFlight[p].at,
                     slow |-> inFlight[p].slow, told |-> {}]
  <2>2. /\ top' = top + 1 /\ rows' = rows \union {new} /\ new.num = top + 1 /\ lowLost' = lowLost
        /\ bottom' = IF bottom = 0 THEN top + 1 ELSE bottom
    BY <1>4, <2>1 DEF StoreCommits
  <2> HIDE DEF new
  <2>3. /\ top' = top + 1 /\ RowNumbers' = RowNumbers \union {top + 1} /\ lowLost' = lowLost
        /\ bottom' = IF bottom = 0 THEN top + 1 ELSE bottom
    BY <2>2 DEF RowNumbers
  <2>4. NoneBelow'
    BY <1>1, <2>3 DEF NoneBelow
  <2>5. RowNumbers' = RowNumbers \union (top + 1 .. top') /\ top' > top
    BY <1>1, <2>3
  <2>6. Shown!Appends("group")
    BY <2>3, <2>5 DEF Shown!Appends
  <2> QED
    BY <2>1, <2>4, <2>6 DEF Shown!Next
<1>5. ASSUME exists, exists' = exists, top' = top, RowNumbers' \subseteq RowNumbers,
             lowLost' \in BOOLEAN, bottom' \in 1..top \/ bottom' = top,
             ~lowLost' => /\ \A n \in RowNumbers' : bottom' <= n
                          /\ ~lowLost => bottom <= bottom'
      PROVE  NoneBelow' /\ Shown!Next
  <2>1. Shown!Withdraws("group")
    BY <1>5 DEF Shown!Withdraws
  <2>2. NoneBelow'
    <3>1. \A n \in RowNumbers' : 0 < bottom'
      BY <1>1, <1>5
    <3> QED
      BY <1>5, <3>1 DEF NoneBelow
  <2> QED
    BY <1>5, <2>1, <2>2 DEF Shown!Next
<1>6. ASSUME exists, exists' = exists, top' = top, RowNumbers' \subseteq RowNumbers,
             lowLost' \in BOOLEAN,
             NEW nums \in SUBSET Numbers, \A n \in nums : n <= top, bottom' = LowOf(nums),
             ~lowLost' => RowNumbers' = nums
      PROVE  NoneBelow' /\ Shown!Next
  <2>1. /\ bottom' \in 0..top /\ (bottom' \in 1..top \/ bottom' = top)
        /\ bottom' = top \/ bottom' \in nums
        /\ \A n \in nums : bottom' <= n
    BY <1>6, LowIsANumber, Zenon
  <2>2. ~lowLost' /\ ~lowLost => bottom <= bottom'
    BY <1>1, <1>6, <2>1 DEF NoneBelow
  <2>3. ~lowLost' => \A n \in RowNumbers' : bottom' <= n
    BY <1>6, <2>1
  <2> QED
    BY <1>5, <1>6, <2>1, <2>2, <2>3
<1>7. ASSUME NEW gone, CancelRow(gone)
      PROVE  NoneBelow' /\ Shown!Next
  <2>1. exists
    BY <1>7 DEF CancelRow, ReadingInv, NumbersInOrder
  <2>2. /\ exists' = exists /\ top' = top /\ ~lowLost' /\ lowLost' \in BOOLEAN
        /\ RowNumbers' = RowNumbers \ gone /\ bottom' = LowOf(RowNumbers \ gone)
    BY <1>7 DEF CancelRow, RowNumbers
  <2>3. RowNumbers \ gone \in SUBSET Numbers /\ \A n \in RowNumbers \ gone : n <= top
    BY <1>1
  <2>4. RowNumbers' \subseteq RowNumbers
    BY <2>2
  <2> QED
    BY <1>6, <2>1, <2>2, <2>3, <2>4
<1>8. ASSUME NEW m, ExpireRow(m)
      PROVE  NoneBelow' /\ Shown!Next
  <2>1. exists /\ 0 < bottom
    BY <1>8 DEF ExpireRow, HasNumber, RowNumbers, NoneBelow, ReadingInv, NumbersInOrder
  <2>2. /\ exists' = exists /\ top' = top /\ lowLost' = lowLost /\ lowLost \in BOOLEAN
        /\ RowNumbers' \subseteq RowNumbers /\ bottom' = bottom
    BY <1>8 DEF ExpireRow, RowNumbers, ReadingInv, ReadingTypes, ReadingTypeOK
  <2>3. ~lowLost' => (\A n \in RowNumbers' : bottom' <= n) /\ bottom <= bottom'
    BY <1>1, <2>2 DEF NoneBelow
  <2>4. bottom' \in 1..top
    BY <1>1, <2>1, <2>2
  <2> QED
    BY <1>5, <2>1, <2>2, <2>3, <2>4
<1>9. ASSUME PurgeCommits
      PROVE  NoneBelow' /\ Shown!Next
  <2>1. exists /\ purge.seen \in SUBSET Numbers /\ \A n \in purge.seen : n <= top
    BY <1>9 DEF PurgeCommits, ReadingInv, ReadingTypes, ReadingTypeOK, NumbersInOrder
  <2>2. /\ exists' = exists /\ top' = top /\ lowLost' \in BOOLEAN
        /\ RowNumbers' = RowNumbers \ purge.doomed /\ bottom' = LowOf(purge.seen)
        /\ ~lowLost' => purge.seen = RowNumbers \ purge.doomed
    BY <1>9 DEF PurgeCommits, RowNumbers
  <2>3. RowNumbers' \subseteq RowNumbers
    BY <2>2
  <2> QED
    BY <1>6, <2>1, <2>2, <2>3
<1> QED
  BY <1>2, <1>3, <1>4, <1>7, <1>8, <1>9, SeenSteps

\* Readers are never shown two articles under one number, nor one under a number that GROUP
\* had passed, although statements of several posts, withdrawals and deletions interleave
\* (FOR UPDATE of the row, Post, postgres.go:209).
THEOREM ReadersSeeNumbering == ReadingSpec => ShowsNumbers
<1>1. ReadingInit => NoneBelow /\ Shown!Init
  BY DEF ReadingInit, NoneBelow, RowNumbers, Shown!Init
<1>2. ReadingInv /\ NoneBelow /\ [ReadingNext]_readingVars =>
        ReadingInv' /\ NoneBelow' /\ [UNCHANGED groupRowVars \/ Shown!Next]_(Shown!vars)
  BY NextReadingInv, ShowsNext
<1> QED
  BY <1>1, <1>2, InitReadingInv, PTL DEF ReadingSpec, ShowsNumbers

-----------------------------------------------------------------------------
(* What a transaction has done to a group so far. *)

Steps == {"begin", "number", "remember", "read", "delete", "adjust"} \cup Endings
Mark == [low : Nat, high : Nat, count : Nat]
Markings == UNION {[S -> Mark] : S \in SUBSET Groups}
TxRecord == [step : Steps, next : Nat \ {0}, groups : Seq(Groups), marks : Markings,
             rows : SUBSET Row]

\* The entries of r's list before the next one, those of them that are g, and how many.
Done(r) == {r.groups[i] : i \in 1..(r.next - 1)}
Before(s, k, g) == {i \in 1..k : s[i] = g}
Times(r, g) == Cardinality(Before(r.groups, r.next - 1, g))

LeftNums(t, g) == {r.num : r \in {x \in overview : x.group = g /\ x.id # Id(t)}}
LeftLow(t, g) == IF LeftNums(t, g) = {} THEN high[g] ELSE Min(LeftNums(t, g))
RowsOfId(t) == {r \in overview : r.id = Id(t)}

-----------------------------------------------------------------------------
(* The inductive invariant. *)

\* No row is locked by two transactions.
LocksApart == \A t, u \in Txns : t # u => held[t] \cap held[u] = {}

\* Types of everything, and what the tables say of one another.
TablesInv ==
  /\ history \subseteq MsgIds /\ articles \subseteq history
  /\ articles \subseteq EverStored /\ \A x \in overview : x.id \in articles
  /\ miscounted \subseteq Groups
  /\ overview \subseteq Row /\ given \subseteq Row /\ IsFiniteSet(overview)
  /\ low \in [Groups -> Nat] /\ high \in [Groups -> Nat] /\ count \in [Groups -> Nat]
  /\ held \in [Txns -> SUBSET Lockable]
  /\ tx \in [Txns -> TxRecord]

\* The marks a transaction wrote are those of the groups it locked and dealt with.
Shape(t) ==
  /\ tx[t].next - 1 <= Len(tx[t].groups)
  /\ DOMAIN tx[t].marks = Done(tx[t])
  /\ \A g \in Done(tx[t]) : GroupRow(g) \in held[t]
  /\ tx[t].step \notin {"number", "adjust"} => tx[t].next = 1
  /\ tx[t].step = "begin" => tx[t].rows = {}
  /\ IsFiniteSet(tx[t].rows)

\* A post between its claim and its commit: the numbers follow the committed high marks.
PostNumbers(t) ==
  Op(t, "post") /\ Ran(t, "number") =>
    /\ HistoryRow(Id(t)) \in held[t] /\ Id(t) \notin history
    /\ tx[t].groups = Work[t].list
    /\ \A g \in Groups :
         /\ Marks(t, g).high = high[g] + Times(tx[t], g)
         /\ Marks(t, g).count = count[g] + Times(tx[t], g)
         /\ Marks(t, g).low = IF Times(tx[t], g) > 0 /\ low[g] = 0 THEN high[g] + 1 ELSE low[g]
         /\ Times(tx[t], g) > 0 => high[g] + Times(tx[t], g) <= MaxNum
    /\ tx[t].rows = {x \in Row : /\ x.id = Id(t) /\ high[x.group] < x.num
                                 /\ x.num <= high[x.group] + Times(tx[t], x.group)}

\* A cancel that found its article: it was posted, and will not be again.
Found(t) ==
  Op(t, "cancel") /\ tx[t].step \in {"read", "delete", "adjust"} =>
    Id(t) \in history /\ Id(t) \in EverStored

\* What it read is what there is, until another cancel takes the article, and each of its
\* rows is in its list once.
ReadAll(t) ==
  Op(t, "cancel") /\ tx[t].step \in {"delete", "adjust"} =>
    /\ \A x \in tx[t].rows : x.id = Id(t)
    /\ Id(t) \in articles => tx[t].rows = RowsOfId(t)
    /\ \A g \in Groups : Cardinality(Before(tx[t].groups, Len(tx[t].groups), g))
                           = Cardinality({x \in tx[t].rows : x.group = g})

\* Its marks leave out the article as far as its list is dealt with.
Withdrawing(t) ==
  Op(t, "cancel") /\ Ran(t, "adjust") =>
    \A g \in Groups :
      /\ Marks(t, g).high = high[g]
      /\ Marks(t, g).count = Max({count[g] - Times(tx[t], g), 0})
      /\ Marks(t, g).low = IF Times(tx[t], g) > 0 THEN LeftLow(t, g) ELSE low[g]

TxnInv(t) == Shape(t) /\ PostNumbers(t) /\ Found(t) /\ ReadAll(t) /\ Withdrawing(t)

IInv == TablesInv /\ LocksApart /\ \A t \in Txns : TxnInv(t)

-----------------------------------------------------------------------------
(* Counting. *)

LEMMA BeforeFinite ==
  ASSUME NEW s, NEW k \in Nat, NEW g
  PROVE  IsFiniteSet(Before(s, k, g)) /\ Cardinality(Before(s, k, g)) \in Nat
<1>1. IsFiniteSet(1..k)  BY FS_Interval
<1>2. Before(s, k, g) \in SUBSET (1..k)  BY DEF Before
<1> QED  BY <1>1, <1>2, FS_Subset, FS_CardinalityType

LEMMA BeforeNext ==
  ASSUME NEW s, NEW k \in Nat \ {0}, NEW g
  PROVE  Cardinality(Before(s, k, g))
           = Cardinality(Before(s, k - 1, g)) + (IF s[k] = g THEN 1 ELSE 0)
<1>1. k - 1 \in Nat /\ IsFiniteSet(Before(s, k - 1, g))  BY BeforeFinite
<1>2. CASE s[k] = g
  <2>1. Before(s, k, g) = Before(s, k - 1, g) \cup {k}
    BY <1>2 DEF Before
  <2>2. k \notin Before(s, k - 1, g)  BY DEF Before
  <2> QED  BY <1>1, <1>2, <2>1, <2>2, FS_AddElement
<1>3. CASE s[k] # g
  <2>1. Before(s, k, g) = Before(s, k - 1, g)
    BY <1>3 DEF Before
  <2> QED  BY <1>1, <1>3, <2>1, BeforeFinite
<1> QED  BY <1>2, <1>3

LEMMA BeforeSome ==
  ASSUME NEW s, NEW k \in Nat, NEW g
  PROVE  Cardinality(Before(s, k, g)) > 0 <=> \E i \in 1..k : s[i] = g
<1>1. Cardinality(Before(s, k, g)) = 0 <=> Before(s, k, g) = {}
  BY BeforeFinite, FS_EmptySet
<1> QED  BY <1>1, BeforeFinite DEF Before

LEMMA TimesFacts ==
  ASSUME NEW r \in TxRecord, NEW g
  PROVE  /\ Times(r, g) \in Nat
         /\ Times(r, g) > 0 <=> g \in Done(r)
         /\ g \notin Done(r) => Times(r, g) = 0
         /\ r.next = 1 => Times(r, g) = 0 /\ Done(r) = {}
<1>1. r.next - 1 \in Nat  BY DEF TxRecord
<1>2. Times(r, g) \in Nat  BY <1>1, BeforeFinite DEF Times
<1>3. Times(r, g) > 0 <=> g \in Done(r)  BY <1>1, BeforeSome DEF Times, Done
<1>4. r.next = 1 => Done(r) = {}  BY DEF Done
<1> QED  BY <1>2, <1>3, <1>4

LEMMA MaxZero ==
  ASSUME NEW n \in Int
  PROVE  Max({n, 0}) = IF n > 0 THEN n ELSE 0
<1>1. CASE n > 0
  <2>1. \A y \in {n, 0} : n >= y  BY <1>1
  <2>2. \A x \in {n, 0} : (\A y \in {n, 0} : x >= y) => x = n  BY <1>1
  <2> QED  BY <1>1, <2>1, <2>2 DEF Max
<1>2. CASE ~(n > 0)
  <2>1. \A y \in {n, 0} : 0 >= y  BY <1>2
  <2>2. \A x \in {n, 0} : (\A y \in {n, 0} : x >= y) => x = 0  BY <1>2
  <2> QED  BY <1>2, <2>1, <2>2 DEF Max
<1> QED  BY <1>1, <1>2
-----------------------------------------------------------------------------
(* Locks, endings, and the transactions a step is not about. *)

LEMMA NothingYet == NoMarks \in Markings /\ DOMAIN NoMarks = {}
<1>1. NoMarks \in [{} -> Mark] /\ DOMAIN NoMarks = {}  BY DEF NoMarks
<1> QED  BY <1>1 DEF Markings

LEMMA Locking ==
  ASSUME TablesInv, LocksApart, NEW t \in Txns, NEW row \in Lockable, Lock(t, row)
  PROVE  /\ held' \in [Txns -> SUBSET Lockable] /\ LocksApart'
         /\ held'[t] = held[t] \cup {row} /\ \A u \in Txns \ {t} : held'[u] = held[u]
<1>1. /\ held' = [held EXCEPT ![t] = @ \cup {row}] /\ held \in [Txns -> SUBSET Lockable]
      /\ \A u \in Txns \ {t} : row \notin held[u]
  BY DEF Lock, CanLock, TablesInv
<1>2. /\ held' \in [Txns -> SUBSET Lockable] /\ held'[t] = held[t] \cup {row}
      /\ \A u \in Txns \ {t} : held'[u] = held[u]
  BY <1>1
<1>3. ASSUME NEW u \in Txns, NEW v \in Txns, u # v  PROVE  held'[u] \cap held'[v] = {}
  <2>1. held[u] \cap held[v] = {}  BY <1>3 DEF LocksApart
  <2>2. CASE u = t  BY <1>1, <1>2, <1>3, <2>1, <2>2
  <2>3. CASE v = t  BY <1>1, <1>2, <1>3, <2>1, <2>3
  <2>4. CASE u # t /\ v # t  BY <1>2, <2>1, <2>4
  <2> QED  BY <2>2, <2>3, <2>4
<1>4. LocksApart'  BY <1>3 DEF LocksApart
<1> QED  BY <1>2, <1>4

LEMMA ShapeAtFirst ==
  ASSUME NEW t \in Txns, tx'[t] \in TxRecord, tx'[t].next = 1, DOMAIN tx'[t].marks = {},
         IsFiniteSet(tx'[t].rows), tx'[t].step = "begin" => tx'[t].rows = {}
  PROVE  Shape(t)'
<1>1. Done(tx'[t]) = {}  BY TimesFacts
<1>2. tx'[t].groups \in Seq(Groups)  BY DEF TxRecord
<1>3. tx'[t].next - 1 <= Len(tx'[t].groups)  BY <1>2
<1>4. DOMAIN tx'[t].marks = Done(tx'[t]) /\ \A g \in Done(tx'[t]) : GroupRow(g) \in held'[t]
  BY <1>1
<1> QED  BY <1>3, <1>4 DEF Shape

LEMMA Ending ==
  ASSUME TablesInv, LocksApart, NEW t \in Txns, NEW how \in Endings, End(t, how)
  PROVE  /\ held' \in [Txns -> SUBSET Lockable] /\ LocksApart'
         /\ tx' \in [Txns -> TxRecord] /\ TxnInv(t)'
         /\ \A u \in Txns \ {t} : held'[u] = held[u] /\ tx'[u] = tx[u]
<1> DEFINE over == [Fresh EXCEPT !.step = how]
<1>0. Fresh \in TxRecord /\ Fresh.next = 1 /\ Fresh.groups = <<>> /\ Fresh.marks = NoMarks
      /\ Fresh.rows = {}
  <2>1. <<>> \in Seq(Groups)  OBVIOUS
  <2>2. "begin" \in Steps /\ {} \in SUBSET Row /\ 1 \in Nat \ {0}  BY DEF Steps
  <2> QED  BY <2>1, <2>2, NothingYet DEF Fresh, TxRecord
<1>1. /\ over \in TxRecord /\ over.step = how /\ over.next = 1 /\ over.groups = <<>>
      /\ DOMAIN over.marks = {} /\ over.rows = {}
  <2>1. how \in Steps  BY DEF Steps
  <2> QED  BY <1>0, <2>1, NothingYet DEF TxRecord
<1> HIDE DEF over
<1>2. /\ tx' = [tx EXCEPT ![t] = over] /\ held' = [held EXCEPT ![t] = {}]
      /\ tx \in [Txns -> TxRecord] /\ held \in [Txns -> SUBSET Lockable]
  BY DEF End, TablesInv, over
<1>3. /\ tx' \in [Txns -> TxRecord] /\ tx'[t] = over /\ held'[t] = {}
      /\ held' \in [Txns -> SUBSET Lockable]
      /\ \A u \in Txns \ {t} : held'[u] = held[u] /\ tx'[u] = tx[u]
  BY <1>1, <1>2
<1>4. LocksApart'  BY <1>2, <1>3 DEF LocksApart
<1>7. how \notin {"begin", "number", "read", "delete", "adjust"}  BY DEF Endings
<1>6. Shape(t)'
  <2>1. IsFiniteSet(over.rows)  BY <1>1, FS_EmptySet
  <2> QED  BY <1>1, <1>3, <2>1, ShapeAtFirst
<1>8. PostNumbers(t)' /\ Found(t)' /\ ReadAll(t)' /\ Withdrawing(t)'
  BY <1>1, <1>3, <1>7 DEF PostNumbers, Found, ReadAll, Withdrawing, Ran
<1> QED  BY <1>3, <1>4, <1>6, <1>8 DEF TxnInv

\* A transaction keeps its part when the step leaves it, the marks it wrote and the rows
\* it read alone.
LEMMA OthersKeep ==
  ASSUME TablesInv, NEW u \in Txns, TxnInv(u), tx'[u] = tx[u], held'[u] = held[u],
         high' \in [Groups -> Nat], low' \in [Groups -> Nat], count' \in [Groups -> Nat],
         \A g \in Done(tx[u]) :
            /\ low'[g] = low[g] /\ high'[g] = high[g] /\ count'[g] = count[g]
            /\ {x \in overview' : x.group = g} = {x \in overview : x.group = g},
         Op(u, "post") /\ Ran(u, "number") => Id(u) \notin history',
         Found(u)', ReadAll(u)'
  PROVE  TxnInv(u)'
<1>1. tx[u] \in TxRecord  BY DEF TablesInv
<1>2. \A g \in Groups : /\ Times(tx[u], g) \in Nat /\ (Times(tx[u], g) > 0 <=> g \in Done(tx[u]))
                        /\ (g \notin Done(tx[u]) => Times(tx[u], g) = 0)
  BY <1>1, TimesFacts
<1>3. DOMAIN tx[u].marks = Done(tx[u])  BY DEF TxnInv, Shape
<1>4. \A g : g \in Done(tx[u]) => Marks(u, g)' = Marks(u, g)
  BY <1>3 DEF Marks
<1>5. \A g : g \notin Done(tx[u]) => 
         Marks(u, g)' = [low |-> low'[g], high |-> high'[g], count |-> count'[g]]
  BY <1>3 DEF Marks
<1>6. Shape(u)'  BY DEF Shape, TxnInv
<1>7. PostNumbers(u)'
  <2> SUFFICES ASSUME Op(u, "post"), Ran(u, "number") PROVE PostNumbers(u)'
    BY DEF PostNumbers, Ran, Op
  <2>1. /\ HistoryRow(Id(u)) \in held'[u] /\ Id(u) \notin history'
        /\ tx'[u].groups = Work[u].list
    BY DEF TxnInv, PostNumbers
  <2>2. ASSUME NEW g \in Groups
        PROVE  /\ Marks(u, g)'.high = high'[g] + Times(tx'[u], g)
               /\ Marks(u, g)'.count = count'[g] + Times(tx'[u], g)
               /\ Marks(u, g)'.low = IF Times(tx'[u], g) > 0 /\ low'[g] = 0
                                       THEN high'[g] + 1 ELSE low'[g]
               /\ Times(tx'[u], g) > 0 => high'[g] + Times(tx'[u], g) <= MaxNum
    <3>1. CASE g \in Done(tx[u])
      BY <1>2, <1>4, <3>1 DEF TxnInv, PostNumbers
    <3>2. CASE g \notin Done(tx[u])
      BY <1>2, <1>5, <3>2
    <3> QED  BY <3>1, <3>2
  <2>3. tx'[u].rows = {x \in Row : /\ x.id = Id(u) /\ high'[x.group] < x.num
                                   /\ x.num <= high'[x.group] + Times(tx'[u], x.group)}
    <3>1. tx[u].rows = {x \in Row : /\ x.id = Id(u) /\ high[x.group] < x.num
                                    /\ x.num <= high[x.group] + Times(tx[u], x.group)}
      BY DEF TxnInv, PostNumbers
    <3>2. ASSUME NEW x \in Row
          PROVE  (high[x.group] < x.num /\ x.num <= high[x.group] + Times(tx[u], x.group))
             <=> (high'[x.group] < x.num /\ x.num <= high'[x.group] + Times(tx'[u], x.group))
      <4>1. x.group \in Groups /\ x.num \in Nat  BY DEF Row
      <4>2. CASE x.group \in Done(tx[u])  BY <4>2
      <4>3. CASE x.group \notin Done(tx[u])
        <5>1. Times(tx[u], x.group) = 0 /\ high[x.group] \in Nat /\ high'[x.group] \in Nat
          BY <1>2, <4>1, <4>3 DEF TablesInv
        <5> QED  BY <4>1, <5>1
      <4> QED  BY <4>2, <4>3
    <3> QED  BY <3>1, <3>2
  <2> QED  BY <2>1, <2>2, <2>3 DEF PostNumbers
<1>9. Withdrawing(u)'
  <2> SUFFICES ASSUME Op(u, "cancel"), Ran(u, "adjust"), NEW g \in Groups
               PROVE  /\ Marks(u, g)'.high = high'[g]
                      /\ Marks(u, g)'.count = Max({count'[g] - Times(tx'[u], g), 0})
                      /\ Marks(u, g)'.low = IF Times(tx'[u], g) > 0 THEN LeftLow(u, g)'
                                                                     ELSE low'[g]
    BY DEF Withdrawing, Ran, Op
  <2>1. CASE g \in Done(tx[u])
    <3>1. {x \in overview' : x.group = g /\ x.id # Id(u)}
            = {x \in overview : x.group = g /\ x.id # Id(u)}
      BY <2>1
    <3>2. LeftLow(u, g)' = LeftLow(u, g)  BY <2>1, <3>1 DEF LeftLow, LeftNums
    <3> QED  BY <1>2, <1>4, <2>1, <3>2 DEF TxnInv, Withdrawing
  <2>2. CASE g \notin Done(tx[u])
    <3>1. count'[g] \in Nat /\ Times(tx[u], g) = 0 /\ Times(tx'[u], g) = 0
      BY <1>2, <2>2
    <3>2. Max({count'[g] - Times(tx'[u], g), 0}) = count'[g]  BY <3>1, MaxZero
    <3> QED  BY <1>5, <2>2, <3>1, <3>2
  <2> QED  BY <2>1, <2>2
<1> QED  BY <1>6, <1>7, <1>9 DEF TxnInv

LEMMA OthersUntouched ==
  ASSUME TablesInv, NEW u \in Txns, TxnInv(u), tx'[u] = tx[u], held'[u] = held[u],
         UNCHANGED tables, UNCHANGED given
  PROVE  TxnInv(u)'
<1>1. Found(u)' /\ ReadAll(u)'
  BY DEF tables, TxnInv, Found, ReadAll, RowsOfId, EverStored, Op, Id
<1> QED
  BY <1>1, OthersKeep DEF TablesInv, TxnInv, tables, PostNumbers

-----------------------------------------------------------------------------
(* The statements of a transaction before its COMMIT. *)

LEMMA WorkType ==
  ASSUME NEW t \in Txns
  PROVE  Id(t) \in MsgIds /\ Work[t].list \in Seq(Groups)
<1> QED  BY WorkAssumption DEF Id

LEMMA SoloKeeps ==
  ASSUME IInv, NEW t \in Txns, NEW r \in TxRecord, tx' = [tx EXCEPT ![t] = r],
         UNCHANGED <<tables, given, miscounted>>,
         held' \in [Txns -> SUBSET Lockable], LocksApart',
         \A u \in Txns \ {t} : held'[u] = held[u],
         TxnInv(t)'
  PROVE  IInv'
<1>1. TablesInv'
  BY DEF IInv, TablesInv, tables, EverStored
<1>2. ASSUME NEW u \in Txns \ {t}  PROVE  TxnInv(u)'
  <2>1. tx'[u] = tx[u] /\ held'[u] = held[u]  BY DEF IInv, TablesInv
  <2> QED  BY <2>1, OthersUntouched DEF IInv
<1> QED  BY <1>1, <1>2 DEF IInv

LEMMA EndKeeps ==
  ASSUME IInv, NEW t \in Txns, NEW how \in Endings, End(t, how), UNCHANGED <<tables, given, miscounted>>
  PROVE  IInv'
<1>1. /\ held' \in [Txns -> SUBSET Lockable] /\ LocksApart'
      /\ tx' \in [Txns -> TxRecord] /\ TxnInv(t)'
      /\ \A u \in Txns \ {t} : held'[u] = held[u] /\ tx'[u] = tx[u]
  BY Ending DEF IInv
<1>2. TablesInv'
  BY <1>1 DEF IInv, TablesInv, tables, EverStored
<1>3. ASSUME NEW u \in Txns \ {t}  PROVE  TxnInv(u)'
  BY <1>1, OthersUntouched DEF IInv
<1> QED  BY <1>1, <1>2, <1>3 DEF IInv

LEMMA ClaimKeeps ==
  ASSUME IInv, NEW t \in Txns, Claim(t)
  PROVE  IInv'
<1>1. CASE Id(t) \in history
  BY <1>1, EndKeeps DEF Claim, Endings
<1>2. CASE Id(t) \notin history
  <2> DEFINE r == [tx[t] EXCEPT !.step = "number", !.groups = Work[t].list]
  <2>1. /\ tx[t] \in TxRecord /\ tx[t].next = 1 /\ tx[t].rows = {} /\ DOMAIN tx[t].marks = {}
    <3>1. tx[t] \in TxRecord /\ tx[t].next = 1 /\ tx[t].rows = {}
      BY DEF IInv, TablesInv, TxnInv, Shape, Claim, Ran
    <3> QED  BY <3>1, TimesFacts DEF IInv, TxnInv, Shape
  <2>2. /\ r \in TxRecord /\ r.step = "number" /\ r.groups = Work[t].list /\ r.next = 1
        /\ r.rows = {} /\ r.marks = tx[t].marks
    BY <2>1, WorkType DEF TxRecord, Steps
  <2>3. tx' = [tx EXCEPT ![t] = r] /\ UNCHANGED <<tables, given, miscounted>> /\ Lock(t, HistoryRow(Id(t)))
    BY <1>2 DEF Claim, IInv, TablesInv
  <2> HIDE DEF r
  <2>4. /\ held' \in [Txns -> SUBSET Lockable] /\ LocksApart'
        /\ held'[t] = held[t] \cup {HistoryRow(Id(t))} /\ \A u \in Txns \ {t} : held'[u] = held[u]
    <3>1. HistoryRow(Id(t)) \in Lockable  BY WorkType DEF Lockable
    <3> QED  BY <2>3, <3>1, Locking DEF IInv
  <2>5. tx'[t] = r  BY <2>3 DEF IInv, TablesInv
  <2>6. \A g \in Groups : Times(r, g) = 0 /\ Done(r) = {}
    BY <2>2, TimesFacts
  <2>7. Shape(t)'
    <3>1. IsFiniteSet(r.rows)  BY <2>2, FS_EmptySet
    <3> QED  BY <2>1, <2>2, <2>5, <3>1, ShapeAtFirst
  <2>8. \A g : Marks(t, g)' = [low |-> low[g], high |-> high[g], count |-> count[g]]
    BY <2>1, <2>2, <2>3, <2>5 DEF Marks, tables
  <2>9. PostNumbers(t)'
    <3>1. \A g \in Groups : low[g] \in Nat /\ high[g] \in Nat /\ count[g] \in Nat
      BY DEF IInv, TablesInv
    <3>2. {x \in Row : /\ x.id = Id(t) /\ high[x.group] < x.num
                       /\ x.num <= high[x.group] + Times(r, x.group)} = {}
      <4>1. ASSUME NEW x \in Row PROVE ~(high[x.group] < x.num /\ x.num <= high[x.group] + Times(r, x.group))
        <5>1. x.num \in Nat /\ x.group \in Groups  BY DEF Row
        <5> QED  BY <2>6, <3>1, <5>1
      <4> QED  BY <4>1
    <3>3. \A g \in Groups :
            /\ Marks(t, g)'.high = high[g] + Times(r, g)
            /\ Marks(t, g)'.count = count[g] + Times(r, g)
            /\ Marks(t, g)'.low = IF Times(r, g) > 0 /\ low[g] = 0 THEN high[g] + 1 ELSE low[g]
            /\ ~(Times(r, g) > 0)
      BY <2>6, <2>8, <3>1
    <3> QED  BY <1>2, <2>2, <2>3, <2>4, <2>5, <3>2, <3>3 DEF PostNumbers, tables
  <2>10. Found(t)' /\ ReadAll(t)' /\ Withdrawing(t)'
    BY <2>2, <2>5 DEF Found, ReadAll, Withdrawing, Ran
  <2> QED  BY <2>2, <2>3, <2>4, <2>7, <2>9, <2>10, SoloKeeps DEF TxnInv
<1> QED  BY <1>1, <1>2

LEMMA Advance ==
  ASSUME NEW q \in TxRecord, NEW r \in TxRecord, r.groups = q.groups, r.next = q.next + 1,
         q.next <= Len(q.groups)
  PROVE  /\ q.groups[q.next] \in Groups
         /\ r.next - 1 <= Len(r.groups)
         /\ Done(r) = Done(q) \cup {q.groups[q.next]}
         /\ \A h : Times(r, h) = Times(q, h) + (IF q.groups[q.next] = h THEN 1 ELSE 0)
<1>1. q.next \in Nat \ {0} /\ q.groups \in Seq(Groups)  BY DEF TxRecord
<1>2. q.groups[q.next] \in Groups  BY <1>1
<1>3. r.next - 1 = q.next  BY <1>1
<1>4. Done(r) = Done(q) \cup {q.groups[q.next]}
  <2>1. 1..q.next = (1..(q.next - 1)) \cup {q.next}  BY <1>1
  <2> QED  BY <1>3, <2>1 DEF Done
<1>5. \A h : Times(r, h) = Times(q, h) + (IF q.groups[q.next] = h THEN 1 ELSE 0)
  BY <1>1, <1>3, BeforeNext DEF Times
<1> QED  BY <1>2, <1>3, <1>4, <1>5

LEMMA MarksType ==
  ASSUME TablesInv, NEW t \in Txns, NEW g \in Groups
  PROVE  Marks(t, g) \in Mark
<1>1. tx[t].marks \in Markings  BY DEF TablesInv, TxRecord
<1>2. PICK S \in SUBSET Groups : tx[t].marks \in [S -> Mark]  BY <1>1 DEF Markings
<1>3. CASE g \in DOMAIN tx[t].marks  BY <1>2, <1>3 DEF Marks
<1>4. CASE g \notin DOMAIN tx[t].marks
  <2>1. low[g] \in Nat /\ high[g] \in Nat /\ count[g] \in Nat  BY DEF TablesInv
  <2> QED  BY <1>4, <2>1 DEF Marks, Mark
<1> QED  BY <1>3, <1>4

WroteOnly(t, g, m) ==
  /\ Wrote(t, g, m) \in Markings
  /\ DOMAIN Wrote(t, g, m) = DOMAIN tx[t].marks \cup {g}
  /\ Wrote(t, g, m)[g] = m
  /\ \A h \in DOMAIN tx[t].marks : h # g => Wrote(t, g, m)[h] = Marks(t, h)

LEMMA WroteFacts ==
  ASSUME TablesInv, NEW t \in Txns, NEW g \in Groups, NEW m \in Mark
  PROVE  WroteOnly(t, g, m)
<1>1. tx[t].marks \in Markings  BY DEF TablesInv, TxRecord
<1>2. DOMAIN tx[t].marks \in SUBSET Groups
  <2>1. PICK S \in SUBSET Groups : tx[t].marks \in [S -> Mark]  BY <1>1 DEF Markings
  <2> QED  BY <2>1
<1>3. Wrote(t, g, m) \in [DOMAIN tx[t].marks \cup {g} -> Mark]
  BY <1>2, MarksType DEF Wrote
<1>4. DOMAIN tx[t].marks \cup {g} \in SUBSET Groups  BY <1>2
<1>5. Wrote(t, g, m) \in Markings  BY <1>3, <1>4 DEF Markings
<1>6. /\ Wrote(t, g, m)[g] = m
      /\ \A h \in DOMAIN tx[t].marks : h # g => Wrote(t, g, m)[h] = Marks(t, h)
  BY DEF Wrote
<1> QED  BY <1>3, <1>5, <1>6 DEF WroteOnly

Takes(t, g, m, rs) ==
  /\ Lock(t, GroupRow(g)) /\ UNCHANGED <<tables, given, miscounted>>
  /\ tx' = [tx EXCEPT ![t] = [tx[t] EXCEPT !.next = @ + 1, !.rows = rs,
                                           !.marks = Wrote(t, g, m)]]

Taken(t, g, m, rs) ==
  /\ Shape(t)' /\ tx'[t].step = tx[t].step /\ tx'[t].groups = tx[t].groups
  /\ tx'[t].rows = rs /\ held[t] \subseteq held'[t]
  /\ \A h \in Groups : /\ Marks(t, h)' = IF h = g THEN m ELSE Marks(t, h)
                       /\ Times(tx'[t], h) = Times(tx[t], h) + (IF h = g THEN 1 ELSE 0)
  /\ TxnInv(t)' => IInv'

\* One more group of the list: the group is locked, its marks are m, the others stay.
LEMMA OneMore ==
  ASSUME IInv, NEW t \in Txns, NEW m \in Mark, NEW rs \in SUBSET Row,
         IsFiniteSet(rs),
         tx[t].step \in {"number", "adjust"}, tx[t].next <= Len(tx[t].groups),
         NEW g \in Groups, g = tx[t].groups[tx[t].next],
         Takes(t, g, m, rs)
  PROVE  Taken(t, g, m, rs)
<1>0. TablesInv  BY DEF IInv
<1> DEFINE r == [tx[t] EXCEPT !.next = @ + 1, !.rows = rs, !.marks = Wrote(t, g, m)]
<1>1. tx[t] \in TxRecord /\ tx[t].next \in Nat \ {0}
  BY DEF IInv, TablesInv, TxRecord
<1>2. /\ Wrote(t, g, m) \in Markings
      /\ DOMAIN Wrote(t, g, m) = DOMAIN tx[t].marks \cup {g}
      /\ Wrote(t, g, m)[g] = m
      /\ \A h \in DOMAIN tx[t].marks : h # g => Wrote(t, g, m)[h] = Marks(t, h)
  <2>1. WroteOnly(t, g, m)  BY <1>0, WroteFacts
  <2> QED  BY <2>1 DEF WroteOnly
<1> DEFINE w == Wrote(t, g, m)
<1> HIDE DEF w
<1>3. /\ r \in TxRecord /\ r.step = tx[t].step /\ r.groups = tx[t].groups
      /\ r.next = tx[t].next + 1 /\ r.rows = rs /\ r.marks = Wrote(t, g, m)
  <2>1. w \in Markings /\ tx[t].next + 1 \in Nat \ {0}  BY <1>1, <1>2 DEF w
  <2>2. r = [tx[t] EXCEPT !.next = @ + 1, !.rows = rs, !.marks = w]  BY DEF w
  <2>3. /\ r \in TxRecord /\ r.step = tx[t].step /\ r.groups = tx[t].groups
        /\ r.next = tx[t].next + 1 /\ r.rows = rs /\ r.marks = w
    BY <1>1, <2>1, <2>2 DEF TxRecord
  <2> QED  BY <2>3 DEF w
<1>13. tx' = [tx EXCEPT ![t] = r] /\ UNCHANGED <<tables, given, miscounted>> /\ Lock(t, GroupRow(g))
  BY DEF Takes
<1> HIDE DEF r
<1>4. tx' = [tx EXCEPT ![t] = r] /\ tx'[t] = r
  BY <1>13 DEF IInv, TablesInv
<1>5. /\ r.next - 1 <= Len(r.groups)
      /\ Done(r) = Done(tx[t]) \cup {g}
      /\ \A h : Times(r, h) = Times(tx[t], h) + (IF g = h THEN 1 ELSE 0)
  BY <1>1, <1>3, Advance
<1>6. /\ held' \in [Txns -> SUBSET Lockable] /\ LocksApart'
      /\ held'[t] = held[t] \cup {GroupRow(g)} /\ \A u \in Txns \ {t} : held'[u] = held[u]
  <2>1. GroupRow(g) \in Lockable  BY DEF Lockable
  <2> QED  BY <1>13, <2>1, Locking DEF IInv
<1>7. DOMAIN tx[t].marks = Done(tx[t]) /\ \A h \in Done(tx[t]) : GroupRow(h) \in held[t]
  BY DEF IInv, TxnInv, Shape
<1>8. Shape(t)'
  BY <1>2, <1>3, <1>4, <1>5, <1>6, <1>7 DEF Shape
<1>9. ASSUME NEW h \in Groups
      PROVE  Marks(t, h)' = IF h = g THEN m ELSE Marks(t, h)
  <2>1. CASE h = g  BY <1>2, <1>3, <1>4, <2>1 DEF Marks
  <2>2. CASE h # g /\ h \in DOMAIN tx[t].marks  BY <1>2, <1>3, <1>4, <2>2 DEF Marks
  <2>3. CASE h # g /\ h \notin DOMAIN tx[t].marks
    BY <1>2, <1>3, <1>4, <1>13, <2>3 DEF Marks, tables
  <2> QED  BY <2>1, <2>2, <2>3
<1>10. \A h \in Groups : Times(tx'[t], h) = Times(tx[t], h) + (IF h = g THEN 1 ELSE 0)
  BY <1>4, <1>5
<1>12. TxnInv(t)' => IInv'
  BY <1>3, <1>4, <1>6, <1>13, SoloKeeps
<1> QED  BY <1>3, <1>4, <1>6, <1>8, <1>9, <1>10, <1>12 DEF Taken

LEMMA NumberKeeps ==
  ASSUME IInv, NEW t \in Txns, Number(t)
  PROVE  IInv'
<1> DEFINE g == tx[t].groups[tx[t].next]
           n == Marks(t, g).high + 1
           m == [high  |-> n,
                 low   |-> IF Marks(t, g).low = 0 THEN n ELSE Marks(t, g).low,
                 count |-> Marks(t, g).count + 1]
           new == tx[t].rows \cup {[group |-> g, num |-> n, id |-> Id(t)]}
<1>1. /\ tx[t] \in TxRecord /\ tx[t].step = "number" /\ tx[t].next <= Len(tx[t].groups)
      /\ n <= MaxNum /\ Op(t, "post")
  BY DEF Number, Ran, IInv, TablesInv
<1>2. g \in Groups  BY <1>1 DEF TxRecord
<1>3. Marks(t, g) \in Mark  BY <1>2, MarksType DEF IInv
<1>4. m \in Mark  BY <1>3 DEF Mark
<1>5. new \in SUBSET Row
  BY <1>1, <1>2, <1>3, WorkType DEF Mark, Row, TxRecord
<1>6. Takes(t, g, m, new) /\ UNCHANGED tables
  BY DEF Number, IInv, TablesInv, Takes
<1>7. /\ Shape(t)' /\ tx'[t].step = tx[t].step /\ tx'[t].groups = tx[t].groups
      /\ tx'[t].rows = new /\ held[t] \subseteq held'[t]
      /\ \A h \in Groups : /\ Marks(t, h)' = IF h = g THEN m ELSE Marks(t, h)
                           /\ Times(tx'[t], h) = Times(tx[t], h) + (IF h = g THEN 1 ELSE 0)
      /\ TxnInv(t)' => IInv'
  <2> HIDE DEF g, m, new
  <2>1. g = tx[t].groups[tx[t].next]  BY DEF g
  <2>2. tx[t].step \in {"number", "adjust"}  BY <1>1
  <2>4. IsFiniteSet(new)  BY FS_AddElement DEF IInv, TxnInv, Shape, new
  <2>3. Taken(t, g, m, new)  BY <2>4, <1>1, <1>2, <1>4, <1>5, <1>6, <2>1, <2>2, OneMore
  <2> QED  BY <2>3 DEF Taken
<1>8. /\ HistoryRow(Id(t)) \in held[t] /\ Id(t) \notin history /\ tx[t].groups = Work[t].list
      /\ \A h \in Groups :
         /\ Marks(t, h).high = high[h] + Times(tx[t], h)
         /\ Marks(t, h).count = count[h] + Times(tx[t], h)
         /\ Marks(t, h).low = IF Times(tx[t], h) > 0 /\ low[h] = 0 THEN high[h] + 1 ELSE low[h]
         /\ Times(tx[t], h) > 0 => high[h] + Times(tx[t], h) <= MaxNum
      /\ tx[t].rows = {x \in Row : /\ x.id = Id(t) /\ high[x.group] < x.num
                                   /\ x.num <= high[x.group] + Times(tx[t], x.group)}
  BY <1>1 DEF IInv, TxnInv, PostNumbers, Ran
<1>9. \A h \in Groups : /\ high[h] \in Nat /\ low[h] \in Nat /\ count[h] \in Nat
                        /\ Times(tx[t], h) \in Nat
  BY <1>1, TimesFacts DEF IInv, TablesInv
<1>10. high' = high /\ low' = low /\ count' = count /\ history' = history
  BY <1>6 DEF tables
<1>11. n = high[g] + Times(tx[t], g) + 1  BY <1>2, <1>8
<1>12. /\ m.high = n /\ m.count = Marks(t, g).count + 1
       /\ m.low = IF Marks(t, g).low = 0 THEN n ELSE Marks(t, g).low
  OBVIOUS
<1>13. \A x : x \in new <=> x \in tx[t].rows \/ x = [group |-> g, num |-> n, id |-> Id(t)]
  OBVIOUS
<1> HIDE DEF g, n, m, new
<1>14. ASSUME NEW h \in Groups
       PROVE  /\ Marks(t, h)'.high = high[h] + Times(tx'[t], h)
              /\ Marks(t, h)'.count = count[h] + Times(tx'[t], h)
              /\ Marks(t, h)'.low = IF Times(tx'[t], h) > 0 /\ low[h] = 0 THEN high[h] + 1 ELSE low[h]
              /\ Times(tx'[t], h) > 0 => high[h] + Times(tx'[t], h) <= MaxNum
  <2>1. CASE h # g
    <3>1. Times(tx'[t], h) = Times(tx[t], h) /\ Marks(t, h)' = Marks(t, h)
      BY <1>7, <1>9, <2>1
    <3> QED  BY <1>8, <3>1
  <2>2. CASE h = g
    <3>1. Times(tx'[t], h) = Times(tx[t], h) + 1 /\ Marks(t, h)' = m /\ Times(tx'[t], h) > 0
      BY <1>7, <1>9, <2>2
    <3>2. m.high = high[h] + Times(tx'[t], h) /\ high[h] + Times(tx'[t], h) <= MaxNum
      BY <1>1, <1>9, <1>11, <1>12, <2>2, <3>1, WorkAssumption
    <3>3. m.count = count[h] + Times(tx'[t], h)
      BY <1>8, <1>9, <1>12, <2>2, <3>1
    <3>4. m.low = IF low[g] = 0 THEN high[g] + 1 ELSE low[g]
      <4>1. CASE low[g] # 0
        <5>1. Marks(t, g).low = low[g]  BY <1>2, <1>8, <4>1
        <5> QED  BY <1>12, <4>1, <5>1
      <4>2. CASE low[g] = 0 /\ Times(tx[t], g) > 0
        <5>1. Marks(t, g).low = high[g] + 1 /\ high[g] + 1 # 0  BY <1>2, <1>8, <1>9, <4>2
        <5> QED  BY <1>12, <4>2, <5>1
      <4>3. CASE low[g] = 0 /\ ~(Times(tx[t], g) > 0)
        <5>1. Marks(t, g).low = 0 /\ Times(tx[t], g) = 0  BY <1>2, <1>8, <1>9, <4>3
        <5> QED  BY <1>2, <1>9, <1>11, <1>12, <4>3, <5>1
      <4> QED  BY <4>1, <4>2, <4>3
    <3> QED  BY <2>2, <3>1, <3>2, <3>3, <3>4
  <2> QED  BY <2>1, <2>2
<1>15. tx'[t].rows = {x \in Row : /\ x.id = Id(t) /\ high[x.group] < x.num
                                  /\ x.num <= high[x.group] + Times(tx'[t], x.group)}
  <2>1. ASSUME NEW x \in Row
        PROVE  x \in new <=> /\ x.id = Id(t) /\ high[x.group] < x.num
                             /\ x.num <= high[x.group] + Times(tx'[t], x.group)
    <3>1. x.group \in Groups /\ x.num \in Nat /\ x = [group |-> x.group, num |-> x.num, id |-> x.id]
      BY DEF Row
    <3>2. CASE x.group # g
      <4>1. x # [group |-> g, num |-> n, id |-> Id(t)]  BY <3>2
      <4>2. Times(tx'[t], x.group) = Times(tx[t], x.group)
        BY <1>7, <1>9, <3>1, <3>2
      <4> QED  BY <1>8, <1>13, <4>1, <4>2
    <3>3. CASE x.group = g
      <4>1. x = [group |-> g, num |-> n, id |-> Id(t)] <=> x.num = n /\ x.id = Id(t)
        BY <3>1, <3>3
      <4>2. x \in tx[t].rows <=> x.id = Id(t) /\ high[g] < x.num /\ x.num <= high[g] + Times(tx[t], g)
        BY <1>8, <3>3
      <4>3. Times(tx'[t], x.group) = Times(tx[t], g) + 1  BY <1>7, <3>1, <3>3
      <4> QED  BY <1>2, <1>9, <1>11, <1>13, <3>1, <3>3, <4>1, <4>2, <4>3
    <3> QED  BY <3>2, <3>3
  <2> QED  BY <1>5, <1>7, <2>1
<1>16. PostNumbers(t)'
  BY <1>7, <1>8, <1>10, <1>14, <1>15 DEF PostNumbers, Op, Id
<1>17. Found(t)' /\ ReadAll(t)' /\ Withdrawing(t)'
  BY <1>1, <1>7 DEF Found, ReadAll, Withdrawing, Ran
<1> QED  BY <1>7, <1>16, <1>17 DEF TxnInv

-----------------------------------------------------------------------------
(* The cancel up to its COMMIT. *)

\* A transaction that only moves to its next step, with nothing dealt with.
LEMMA MoveKeeps ==
  ASSUME IInv, NEW t \in Txns, NEW r \in TxRecord, tx' = [tx EXCEPT ![t] = r],
         UNCHANGED <<tables, given, miscounted>>,
         held' \in [Txns -> SUBSET Lockable], LocksApart',
         \A u \in Txns \ {t} : held'[u] = held[u],
         r.step \in {"read", "remember", "delete", "adjust"}, Op(t, "cancel"),
         tx[t].next = 1, r.next = 1, r.marks = tx[t].marks, IsFiniteSet(r.rows),
         r.step # "remember" => Id(t) \in history /\ Id(t) \in EverStored,
         r.step \in {"delete", "adjust"} =>
           /\ \A x \in r.rows : x.id = Id(t)
           /\ Id(t) \in articles => r.rows = RowsOfId(t)
           /\ \A g \in Groups : Cardinality(Before(r.groups, Len(r.groups), g))
                                  = Cardinality({x \in r.rows : x.group = g})
  PROVE  IInv'
<1>1. tx'[t] = r /\ tx[t] \in TxRecord  BY DEF IInv, TablesInv
<1>2. DOMAIN tx[t].marks = {} /\ Done(r) = {}
  BY <1>1, TimesFacts DEF IInv, TxnInv, Shape
<1>3. \A g \in Groups : Times(r, g) = 0  BY TimesFacts
<1>4. Shape(t)'
  <2>1. r.step # "begin"  OBVIOUS
  <2> QED  BY <1>1, <1>2, <2>1, ShapeAtFirst
<1>5. PostNumbers(t)'  BY <1>1 DEF PostNumbers, Ran
<1>6. Found(t)' /\ ReadAll(t)'
  <2>1. overview' = overview /\ articles' = articles /\ history' = history  BY DEF tables
  <2>2. RowsOfId(t)' = RowsOfId(t) /\ EverStored' = EverStored
    BY <2>1 DEF RowsOfId, Id, EverStored
  <2>3. Found(t)'  BY <1>1, <2>1, <2>2 DEF Found, Op, Id
  <2>4. ReadAll(t)'  BY <1>1, <2>1, <2>2 DEF ReadAll, Op, Id
  <2> QED  BY <2>3, <2>4
<1>7. Withdrawing(t)'
  <2>1. ASSUME NEW g \in Groups
        PROVE  /\ Marks(t, g)'.high = high'[g]
               /\ Marks(t, g)'.count = Max({count'[g] - Times(tx'[t], g), 0})
               /\ Marks(t, g)'.low = IF Times(tx'[t], g) > 0 THEN LeftLow(t, g)' ELSE low'[g]
    <3>1. Marks(t, g)' = [low |-> low'[g], high |-> high'[g], count |-> count'[g]]
      BY <1>1, <1>2 DEF Marks
    <3>2. count'[g] \in Nat /\ Times(tx'[t], g) = 0
      BY <1>1, <1>3 DEF IInv, TablesInv, tables
    <3>3. Max({count'[g] - Times(tx'[t], g), 0}) = count'[g]
      BY <3>2, MaxZero
    <3> QED  BY <3>1, <3>2, <3>3
  <2> QED  BY <2>1 DEF Withdrawing
<1> QED  BY <1>4, <1>5, <1>6, <1>7, SoloKeeps DEF TxnInv

LEMMA FindKeeps ==
  ASSUME IInv, NEW t \in Txns, Find(t)
  PROVE  IInv'
<1> DEFINE step == IF Id(t) \in articles THEN "read" ELSE "remember"
           r == [tx[t] EXCEPT !.step = step]
<1>1. tx[t] \in TxRecord /\ tx[t].step = "begin" /\ tx[t].next = 1
  BY DEF IInv, TablesInv, TxnInv, Shape, Find, Ran
<1>2. r \in TxRecord /\ r.step = step /\ r.next = 1 /\ r.marks = tx[t].marks
  BY <1>1 DEF TxRecord, Steps
<1>3. tx' = [tx EXCEPT ![t] = r] /\ UNCHANGED <<tables, held, given, miscounted>> /\ Op(t, "cancel")
  BY DEF Find, IInv, TablesInv
<1> HIDE DEF r
<1>4. held' \in [Txns -> SUBSET Lockable] /\ LocksApart'
  BY <1>3 DEF IInv, TablesInv, LocksApart
<1>5. IsFiniteSet(r.rows)  BY <1>1 DEF r, IInv, TxnInv, Shape, TxRecord
<1>6. step # "remember" => Id(t) \in history /\ Id(t) \in EverStored
  BY DEF IInv, TablesInv
<1> QED  BY <1>1, <1>2, <1>3, <1>4, <1>5, <1>6, MoveKeeps

LEMMA OrderCounts ==
  ASSUME NEW S \in SUBSET Row, IsFiniteSet(S), NEW n \in Nat,
         NEW order \in Bijection(1..n, S), NEW g
  PROVE  Cardinality(Before([i \in 1..n |-> order[i].group], n, g))
           = Cardinality({r \in S : r.group = g})
<1> DEFINE A == Before([i \in 1..n |-> order[i].group], n, g)
           B == {r \in S : r.group = g}
           f == [i \in A |-> order[i]]
<1>1. /\ order \in [1..n -> S] /\ \A i, j \in 1..n : order[i] = order[j] => i = j
      /\ \A r \in S : \E i \in 1..n : order[i] = r
  BY DEF Bijection, Injection, Surjection, IsInjective
<1>2. A = {i \in 1..n : order[i].group = g}  BY DEF Before
<1>3. f \in [A -> B] /\ \A i, j \in A : f[i] = f[j] => i = j  BY <1>1, <1>2
<1>4. \A r \in B : \E i \in A : f[i] = r  BY <1>1, <1>2
<1>5. f \in Bijection(A, B)  BY <1>3, <1>4 DEF Bijection, Injection, Surjection, IsInjective
<1>6. IsFiniteSet(A)  BY BeforeFinite
<1>7. ExistsBijection(A, B)  BY <1>5 DEF ExistsBijection
<1> QED  BY <1>6, <1>7, FS_Bijection

LEMMA ReadRowsKeeps ==
  ASSUME IInv, NEW t \in Txns, ReadRows(t)
  PROVE  IInv'
<1> DEFINE S == RowsOfId(t)
           n == Cardinality(S)
<1>1. S \in SUBSET Row /\ IsFiniteSet(S) /\ n \in Nat
  <2>1. S \in SUBSET overview  BY DEF RowsOfId
  <2> QED  BY <2>1, FS_Subset, FS_CardinalityType DEF IInv, TablesInv
<1>2. PICK order \in Bijection(1..n, S) :
        tx' = [tx EXCEPT ![t].step = "delete", ![t].rows = S,
                         ![t].groups = [i \in 1..n |-> order[i].group]]
  BY DEF ReadRows, RowsOfId
<1> DEFINE list == [i \in 1..n |-> order[i].group]
           r == [tx[t] EXCEPT !.step = "delete", !.rows = S, !.groups = list]
<1>3. tx[t] \in TxRecord /\ tx[t].step = "read" /\ tx[t].next = 1 /\ Op(t, "cancel")
      /\ UNCHANGED <<tables, held, given, miscounted>>
      /\ Id(t) \in history /\ Id(t) \in EverStored
  BY DEF IInv, TablesInv, TxnInv, Shape, Found, ReadRows, Ran
<1>4. list \in Seq(Groups) /\ Len(list) = n
  <2>1. order \in [1..n -> S]  BY DEF Bijection, Injection
  <2>2. list \in [1..n -> Groups]  BY <1>1, <2>1 DEF Row
  <2> QED  BY <1>1, <2>2
<1>5. \A g \in Groups : Cardinality(Before(list, Len(list), g))
                          = Cardinality({x \in S : x.group = g})
  <2>1. ASSUME NEW g \in Groups
        PROVE  Cardinality(Before([i \in 1..n |-> order[i].group], n, g))
                 = Cardinality({x \in S : x.group = g})
    <3> HIDE DEF n, S
    <3> QED  BY <1>1, OrderCounts
  <2> QED  BY <1>4, <2>1
<1> HIDE DEF list, S, n
<1>6. /\ r \in TxRecord /\ r.step = "delete" /\ r.next = 1 /\ r.marks = tx[t].marks
      /\ r.rows = S /\ r.groups = list
  BY <1>1, <1>3, <1>4 DEF TxRecord, Steps
<1>7. tx' = [tx EXCEPT ![t] = r]
  BY <1>2 DEF list, IInv, TablesInv
<1> HIDE DEF r
<1>8. held' \in [Txns -> SUBSET Lockable] /\ LocksApart' /\ held' = held
  BY <1>3 DEF IInv, TablesInv, LocksApart
<1>9. (\A x \in S : x.id = Id(t)) /\ S = RowsOfId(t)
  BY DEF S, RowsOfId
<1> QED  BY <1>1, <1>3, <1>5, <1>6, <1>7, <1>8, <1>9, MoveKeeps

LEMMA DeleteKeeps ==
  ASSUME IInv, NEW t \in Txns, Delete(t)
  PROVE  IInv'
<1> DEFINE r == [tx[t] EXCEPT !.step = "adjust"]
<1>1. /\ tx[t] \in TxRecord /\ tx[t].step = "delete" /\ tx[t].next = 1 /\ Op(t, "cancel")
      /\ UNCHANGED <<tables, given, miscounted>> /\ Id(t) \in history /\ Id(t) \in EverStored
      /\ Lock(t, ArticleRow(Id(t))) \/ UNCHANGED held
      /\ \A x \in tx[t].rows : x.id = Id(t)
      /\ Id(t) \in articles => tx[t].rows = RowsOfId(t)
      /\ \A g \in Groups : Cardinality(Before(tx[t].groups, Len(tx[t].groups), g))
                             = Cardinality({x \in tx[t].rows : x.group = g})
  BY DEF IInv, TablesInv, TxnInv, Shape, Found, ReadAll, Delete, Ran
<1>2. /\ r \in TxRecord /\ r.step = "adjust" /\ r.next = 1 /\ r.marks = tx[t].marks
      /\ r.rows = tx[t].rows /\ r.groups = tx[t].groups
  BY <1>1 DEF TxRecord, Steps
<1>3. tx' = [tx EXCEPT ![t] = r]
  BY DEF Delete, IInv, TablesInv
<1> HIDE DEF r
<1>4. /\ held' \in [Txns -> SUBSET Lockable] /\ LocksApart'
      /\ \A u \in Txns \ {t} : held'[u] = held[u]
  <2>1. CASE UNCHANGED held  BY <2>1 DEF IInv, TablesInv, LocksApart
  <2>2. CASE Lock(t, ArticleRow(Id(t)))
    <3>1. ArticleRow(Id(t)) \in Lockable  BY WorkType DEF Lockable
    <3> QED  BY <2>2, <3>1, Locking DEF IInv
  <2> QED  BY <1>1, <2>1, <2>2
<1>5. IsFiniteSet(r.rows)  BY <1>2 DEF IInv, TxnInv, Shape
<1> QED  BY <1>1, <1>2, <1>3, <1>4, <1>5, MoveKeeps

LEMMA LeftLowType ==
  ASSUME TablesInv, NEW t \in Txns, NEW g \in Groups
  PROVE  LeftLow(t, g) \in Nat
<1>1. LeftNums(t, g) \in SUBSET Nat  BY DEF TablesInv, LeftNums, Row
<1>2. high[g] \in Nat  BY DEF TablesInv
<1> QED  BY <1>1, <1>2, LeastOfNumbers DEF LeftLow

LEMMA AdjustKeeps ==
  ASSUME IInv, NEW t \in Txns, Adjust(t)
  PROVE  IInv'
<1> DEFINE g == tx[t].groups[tx[t].next]
           m == [high  |-> Marks(t, g).high,
                 low   |-> LowLeft(t, g, LeftNums(t, g)),
                 count |-> Max({Marks(t, g).count - 1, 0})]
<1>1. /\ tx[t] \in TxRecord /\ tx[t].step = "adjust" /\ tx[t].next <= Len(tx[t].groups)
      /\ Op(t, "cancel") /\ tx[t].rows \in SUBSET Row
  BY DEF Adjust, Ran, IInv, TablesInv, TxRecord
<1>2. g \in Groups  BY <1>1 DEF TxRecord
<1>3. Marks(t, g) \in Mark  BY <1>2, MarksType DEF IInv
<1>4. /\ Found(t) /\ ReadAll(t)
      /\ \A h \in Groups :
         /\ Marks(t, h).high = high[h]
         /\ Marks(t, h).count = Max({count[h] - Times(tx[t], h), 0})
         /\ Marks(t, h).low = IF Times(tx[t], h) > 0 THEN LeftLow(t, h) ELSE low[h]
  BY <1>1 DEF IInv, TxnInv, Withdrawing, Ran
<1>5. m.low = LeftLow(t, g)
  BY <1>2, <1>4 DEF LowLeft, LeftLow
<1>6. Marks(t, g).count \in Nat /\ Marks(t, g).high \in Nat  BY <1>3 DEF Mark
<1>7. m \in Mark
  <2>1. Max({Marks(t, g).count - 1, 0}) \in Nat
    <3> DEFINE c == Marks(t, g).count - 1
    <3>1. c \in Int  BY <1>6
    <3> HIDE DEF c
    <3>2. Max({c, 0}) \in Nat  BY <3>1, MaxZero
    <3> QED  BY <3>2 DEF c
  <2>2. LowLeft(t, g, LeftNums(t, g)) \in Nat  BY <1>2, <1>5, LeftLowType DEF IInv
  <2> QED  BY <1>6, <2>1, <2>2 DEF Mark
<1>8. Takes(t, g, m, tx[t].rows) /\ UNCHANGED tables
  <2>1. /\ Lock(t, GroupRow(g)) /\ UNCHANGED <<tables, given, miscounted>>
        /\ tx' = [tx EXCEPT ![t].next = @ + 1, ![t].marks = Wrote(t, g, m)]
    BY DEF Adjust, LeftNums
  <2>2. [tx[t] EXCEPT !.next = @ + 1, !.rows = tx[t].rows, !.marks = Wrote(t, g, m)]
          = [tx[t] EXCEPT !.next = @ + 1, !.marks = Wrote(t, g, m)]
    BY <1>1 DEF TxRecord
  <2> QED  BY <2>1, <2>2 DEF Takes, IInv, TablesInv
<1>9. m.high = Marks(t, g).high /\ m.count = Max({Marks(t, g).count - 1, 0})  OBVIOUS
<1> HIDE DEF g, m
<1>10. /\ Shape(t)' /\ tx'[t].step = tx[t].step /\ tx'[t].groups = tx[t].groups
       /\ tx'[t].rows = tx[t].rows
       /\ \A h \in Groups : /\ Marks(t, h)' = IF h = g THEN m ELSE Marks(t, h)
                            /\ Times(tx'[t], h) = Times(tx[t], h) + (IF h = g THEN 1 ELSE 0)
       /\ TxnInv(t)' => IInv'
  <2>1. g = tx[t].groups[tx[t].next]  BY DEF g
  <2>2. tx[t].step \in {"number", "adjust"}  BY <1>1
  <2>4. IsFiniteSet(tx[t].rows)  BY DEF IInv, TxnInv, Shape
  <2>3. Taken(t, g, m, tx[t].rows)  BY <2>4, <1>1, <1>2, <1>7, <1>8, <2>1, <2>2, OneMore
  <2> QED  BY <2>3 DEF Taken
<1>11. \A h \in Groups : high[h] \in Nat /\ count[h] \in Nat /\ Times(tx[t], h) \in Nat
  BY <1>1, TimesFacts DEF IInv, TablesInv
<1>12. \A h : LeftLow(t, h)' = LeftLow(t, h)
  BY <1>8 DEF LeftLow, LeftNums, tables, Id
<1>13. /\ high' = high /\ low' = low /\ count' = count /\ overview' = overview
       /\ articles' = articles /\ history' = history /\ EverStored' = EverStored
  BY <1>8 DEF tables, Takes, EverStored
<1>14. ASSUME NEW h \in Groups
       PROVE  /\ Marks(t, h)'.high = high[h]
              /\ Marks(t, h)'.count = Max({count[h] - Times(tx'[t], h), 0})
              /\ Marks(t, h)'.low = IF Times(tx'[t], h) > 0 THEN LeftLow(t, h) ELSE low[h]
  <2>1. CASE h # g
    <3>1. Times(tx'[t], h) = Times(tx[t], h) /\ Marks(t, h)' = Marks(t, h)
      BY <1>10, <1>11, <2>1
    <3> QED  BY <1>4, <3>1
  <2>2. CASE h = g
    <3>1. Times(tx'[t], h) = Times(tx[t], h) + 1 /\ Marks(t, h)' = m /\ Times(tx'[t], h) > 0
      BY <1>10, <1>11, <2>2
    <3>2. m.count = Max({count[h] - Times(tx'[t], h), 0})
      <4> DEFINE k == Times(tx[t], h)
      <4>1. k \in Nat /\ count[h] \in Nat /\ Times(tx'[t], h) = k + 1  BY <1>11, <3>1
      <4>2. m.count = Max({Max({count[h] - k, 0}) - 1, 0})  BY <1>4, <1>9, <2>2
      <4> HIDE DEF k
      <4>3. Max({count[h] - k, 0}) = IF count[h] - k > 0 THEN count[h] - k ELSE 0
        BY <4>1, MaxZero
      <4>4. CASE count[h] - k > 0
        <5>1. Max({count[h] - k, 0}) - 1 = count[h] - (k + 1)  BY <4>1, <4>3, <4>4
        <5> QED  BY <4>1, <4>2, <5>1
      <4>5. CASE ~(count[h] - k > 0)
        <5>1. Max({count[h] - k, 0}) - 1 = -1  BY <4>1, <4>3, <4>5
        <5>2. m.count = 0  BY <4>2, <5>1, MaxZero
        <5>3. count[h] - (k + 1) \in Int /\ ~(count[h] - (k + 1) > 0)  BY <4>1, <4>5
        <5> QED  BY <4>1, <5>2, <5>3, MaxZero
      <4> QED  BY <4>4, <4>5
    <3> QED  BY <1>4, <1>5, <1>9, <2>2, <3>1, <3>2
  <2> QED  BY <2>1, <2>2
<1>15. Withdrawing(t)'  BY <1>12, <1>13, <1>14 DEF Withdrawing
<1>16. Found(t)' /\ ReadAll(t)'
  BY <1>1, <1>4, <1>10, <1>13 DEF Found, ReadAll, RowsOfId, Op, Id
<1>17. PostNumbers(t)'  BY <1>1, <1>10 DEF PostNumbers, Ran
<1> QED  BY <1>10, <1>15, <1>16, <1>17 DEF TxnInv

-----------------------------------------------------------------------------
(* The steps that commit. *)

LEMMA RememberOnlyKeeps ==
  ASSUME IInv, NEW t \in Txns, RememberOnly(t)
  PROVE  IInv'
<1>1. /\ history' = history \cup {Id(t)} /\ Op(t, "cancel") /\ End(t, "unknown")
      /\ UNCHANGED <<articles, overview, low, high, count, given, miscounted>>
      /\ Id(t) \in history \/ CanLock(t, HistoryRow(Id(t)))
  BY DEF RememberOnly
<1>2. "unknown" \in Endings  BY DEF Endings
<1>3. /\ held' \in [Txns -> SUBSET Lockable] /\ LocksApart'
      /\ tx' \in [Txns -> TxRecord] /\ TxnInv(t)'
      /\ \A u \in Txns \ {t} : held'[u] = held[u] /\ tx'[u] = tx[u]
  BY <1>1, <1>2, Ending DEF IInv
<1>4. TablesInv'
  BY <1>1, <1>3, WorkType DEF IInv, TablesInv, EverStored
<1>5. ASSUME NEW u \in Txns \ {t}  PROVE  TxnInv(u)'
  <2>1. Op(u, "post") /\ Ran(u, "number") => Id(u) \notin history'
    BY <1>1 DEF IInv, TxnInv, PostNumbers, CanLock, HistoryRow
  <2>2. Found(u)'  BY <1>1, <1>3 DEF IInv, TxnInv, Found, EverStored, Op, Id
  <2>3. ReadAll(u)'  BY <1>1, <1>3 DEF IInv, TxnInv, ReadAll, RowsOfId, Op, Id
  <2>4. TablesInv /\ TxnInv(u) /\ tx'[u] = tx[u] /\ held'[u] = held[u]  BY <1>3 DEF IInv
  <2>5. high' \in [Groups -> Nat] /\ low' \in [Groups -> Nat] /\ count' \in [Groups -> Nat]
    BY <1>4 DEF TablesInv
  <2> QED  BY <1>1, <2>1, <2>2, <2>3, <2>4, <2>5, OthersKeep
<1> QED  BY <1>3, <1>4, <1>5 DEF IInv

LEMMA GroupsApart ==
  ASSUME IInv, NEW t \in Txns, NEW u \in Txns \ {t}, NEW g \in Done(tx[u])
  PROVE  g \notin Done(tx[t])
<1>1. GroupRow(g) \in held[u] /\ held[t] \cap held[u] = {}
  BY DEF IInv, TxnInv, Shape, LocksApart
<1>2. \A h \in Done(tx[t]) : GroupRow(h) \in held[t]
  BY DEF IInv, TxnInv, Shape
<1> QED  BY <1>1, <1>2

LEMMA PublishFacts ==
  ASSUME IInv, NEW t \in Txns, Publish(t)
  PROVE  /\ low' \in [Groups -> Nat] /\ high' \in [Groups -> Nat] /\ count' \in [Groups -> Nat]
         /\ \A u \in Txns \ {t} : \A g \in Done(tx[u]) :
              low'[g] = low[g] /\ high'[g] = high[g] /\ count'[g] = count[g]
<1>1. \A g \in Groups : Marks(t, g) \in Mark  BY MarksType DEF IInv
<1>2. low' \in [Groups -> Nat] /\ high' \in [Groups -> Nat] /\ count' \in [Groups -> Nat]
  BY <1>1 DEF Publish, Mark
<1>3. ASSUME NEW u \in Txns \ {t}, NEW g \in Done(tx[u])
      PROVE  low'[g] = low[g] /\ high'[g] = high[g] /\ count'[g] = count[g]
  <2>1. g \in Groups
    <3>1. tx[u] \in TxRecord /\ tx[u].next - 1 <= Len(tx[u].groups)
      BY DEF IInv, TablesInv, TxnInv, Shape
    <3> QED  BY <3>1 DEF Done, TxRecord
  <2>2. g \notin DOMAIN tx[t].marks  BY GroupsApart DEF IInv, TxnInv, Shape
  <2>3. Marks(t, g) = [low |-> low[g], high |-> high[g], count |-> count[g]]
    BY <2>2 DEF Marks
  <2> QED  BY <2>1, <2>3 DEF Publish
<1> QED  BY <1>2, <1>3

LEMMA CommitPostKeeps ==
  ASSUME IInv, NEW t \in Txns, CommitPost(t)
  PROVE  IInv'
<1>1. /\ history' = history \cup {Id(t)} /\ articles' = articles \cup {Id(t)}
      /\ overview' = overview \cup tx[t].rows /\ given' = given \cup tx[t].rows
      /\ Publish(t) /\ End(t, "committed") /\ Op(t, "post") /\ Ran(t, "number")
      /\ tx[t].rows # {} /\ UNCHANGED miscounted
  BY DEF CommitPost
<1>2. "committed" \in Endings  BY DEF Endings
<1>3. /\ held' \in [Txns -> SUBSET Lockable] /\ LocksApart'
      /\ tx' \in [Txns -> TxRecord] /\ TxnInv(t)'
      /\ \A u \in Txns \ {t} : held'[u] = held[u] /\ tx'[u] = tx[u]
  BY <1>1, <1>2, Ending DEF IInv
<1>4. /\ HistoryRow(Id(t)) \in held[t] /\ Id(t) \notin history
      /\ tx[t].rows = {x \in Row : /\ x.id = Id(t) /\ high[x.group] < x.num
                                   /\ x.num <= high[x.group] + Times(tx[t], x.group)}
  BY <1>1 DEF IInv, TxnInv, PostNumbers
<1>5. /\ low' \in [Groups -> Nat] /\ high' \in [Groups -> Nat] /\ count' \in [Groups -> Nat]
      /\ \A u \in Txns \ {t} : \A g \in Done(tx[u]) :
           low'[g] = low[g] /\ high'[g] = high[g] /\ count'[g] = count[g]
  BY <1>1, PublishFacts
<1>6. tx[t] \in TxRecord  BY DEF IInv, TablesInv
<1>7. \A x \in tx[t].rows : x.id = Id(t) /\ x.group \in Done(tx[t]) /\ x \in Row
  <2>1. ASSUME NEW x \in tx[t].rows  PROVE  x.group \in Done(tx[t])
    <3>1. /\ x.group \in Groups /\ x.num \in Nat /\ high[x.group] \in Nat
          /\ Times(tx[t], x.group) \in Nat
      BY <1>4, <1>6, TimesFacts DEF Row, IInv, TablesInv
    <3>2. Times(tx[t], x.group) > 0  BY <1>4, <3>1
    <3> QED  BY <1>6, <3>2, TimesFacts
  <2> QED  BY <1>4, <2>1
<1>8. IsFiniteSet(tx[t].rows)  BY DEF IInv, TxnInv, Shape
<1>9. TablesInv'
  <2>1. IsFiniteSet(overview')  BY <1>1, <1>8, FS_Union DEF IInv, TablesInv
  <2>2. articles' \subseteq EverStored' /\ \A x \in overview' : x.id \in articles'
    BY <1>1, <1>7 DEF IInv, TablesInv, EverStored
  <2> QED  BY <1>1, <1>3, <1>5, <1>7, <2>1, <2>2, WorkType DEF IInv, TablesInv
<1>10. ASSUME NEW u \in Txns \ {t}  PROVE  TxnInv(u)'
  <2>1. Op(u, "post") /\ Ran(u, "number") => Id(u) \notin history'
    <3>1. held[t] \cap held[u] = {}  BY DEF IInv, LocksApart
    <3> QED  BY <1>1, <1>4, <3>1 DEF IInv, TxnInv, PostNumbers
  <2>2. Found(u)'  BY <1>1, <1>3 DEF IInv, TxnInv, Found, EverStored, Op, Id
  <2>3. ReadAll(u)'
    <3> SUFFICES ASSUME Op(u, "cancel"), tx[u].step \in {"delete", "adjust"}
                 PROVE  ReadAll(u)'
      BY <1>3 DEF ReadAll, Op
    <3>1. Id(u) # Id(t)  BY <1>4 DEF IInv, TxnInv, Found
    <3>2. RowsOfId(u)' = RowsOfId(u) /\ (Id(u) \in articles' => Id(u) \in articles)
      BY <1>1, <1>7, <3>1 DEF RowsOfId, Id
    <3> QED  BY <1>3, <3>2 DEF IInv, TxnInv, ReadAll, Op, Id
  <2>4. TablesInv /\ TxnInv(u) /\ tx'[u] = tx[u] /\ held'[u] = held[u]  BY <1>3 DEF IInv
  <2>5. \A g \in Done(tx[u]) : {x \in overview' : x.group = g} = {x \in overview : x.group = g}
    BY <1>1, <1>7, GroupsApart
  <2> QED  BY <1>5, <2>1, <2>2, <2>3, <2>4, <2>5, OthersKeep
<1> QED  BY <1>3, <1>9, <1>10 DEF IInv

\* At its end a list has been dealt with as a whole.
LEMMA AllDone ==
  ASSUME IInv, NEW t \in Txns, tx[t].next > Len(tx[t].groups), NEW g
  PROVE  Times(tx[t], g) = Cardinality(Before(tx[t].groups, Len(tx[t].groups), g))
<1>1. tx[t].next - 1 = Len(tx[t].groups)
  BY DEF IInv, TablesInv, TxnInv, Shape, TxRecord
<1> QED  BY <1>1 DEF Times

LEMMA AllWithdrawn ==
  ASSUME IInv, NEW t \in Txns, Op(t, "cancel"), Ran(t, "adjust"),
         tx[t].next > Len(tx[t].groups), NEW g \in Groups
  PROVE  /\ Times(tx[t], g) = Cardinality({x \in tx[t].rows : x.group = g})
         /\ Times(tx[t], g) > 0 <=> g \in {x.group : x \in tx[t].rows}
         /\ g \in Done(tx[t]) <=> g \in {x.group : x \in tx[t].rows}
<1>1. Times(tx[t], g) = Cardinality({x \in tx[t].rows : x.group = g})
  BY AllDone DEF IInv, TxnInv, ReadAll, Ran
<1>2. IsFiniteSet({x \in tx[t].rows : x.group = g})
  BY FS_Subset DEF IInv, TxnInv, Shape
<1>3. Times(tx[t], g) > 0 <=> {x \in tx[t].rows : x.group = g} # {}
  <2> DEFINE rs == {x \in tx[t].rows : x.group = g}
             k  == Cardinality(rs)
  <2> HIDE DEF rs
  <2>1. IsFiniteSet(rs) /\ Times(tx[t], g) = k
    BY <1>1, <1>2 DEF rs
  <2>2. k \in Nat /\ (k = 0 <=> rs = {})
    BY <2>1, FS_EmptySet, FS_CardinalityType
  <2> HIDE DEF k
  <2>3. k > 0 <=> rs # {}
    BY <2>2
  <2> QED
    BY <2>1, <2>3 DEF rs
<1>4. tx[t] \in TxRecord  BY DEF IInv, TablesInv
<1> QED  BY <1>1, <1>3, <1>4, TimesFacts

LEMMA CommitCancelKeeps ==
  ASSUME IInv, NEW t \in Txns, CommitCancel(t)
  PROVE  IInv'
<1>1. /\ articles' = articles \ {Id(t)} /\ overview' = {r \in overview : r.id # Id(t)}
      /\ Publish(t) /\ End(t, "committed") /\ Op(t, "cancel") /\ Ran(t, "adjust")
      /\ UNCHANGED <<history, given>> /\ tx[t].next > Len(tx[t].groups)
      /\ miscounted' = miscounted \cup {x.group : x \in tx[t].rows \ overview}
      /\ tx[t].rows \subseteq Row
  BY DEF CommitCancel, IInv, TablesInv, TxRecord
<1>2. "committed" \in Endings  BY DEF Endings
<1>3. /\ held' \in [Txns -> SUBSET Lockable] /\ LocksApart'
      /\ tx' \in [Txns -> TxRecord] /\ TxnInv(t)'
      /\ \A u \in Txns \ {t} : held'[u] = held[u] /\ tx'[u] = tx[u]
  BY <1>1, <1>2, Ending DEF IInv
<1>4. /\ low' \in [Groups -> Nat] /\ high' \in [Groups -> Nat] /\ count' \in [Groups -> Nat]
      /\ \A u \in Txns \ {t} : \A g \in Done(tx[u]) :
           low'[g] = low[g] /\ high'[g] = high[g] /\ count'[g] = count[g]
  BY <1>1, PublishFacts
<1>5. TablesInv'
  <2>1. IsFiniteSet(overview')  BY <1>1, FS_Subset DEF IInv, TablesInv
  <2>2. miscounted' \subseteq Groups  BY <1>1 DEF IInv, TablesInv, Row
  <2>3. articles' \subseteq EverStored' /\ \A x \in overview' : x.id \in articles'
    BY <1>1 DEF IInv, TablesInv, EverStored
  <2> QED  BY <1>1, <1>3, <1>4, <2>1, <2>2, <2>3 DEF IInv, TablesInv
<1>6. ASSUME NEW u \in Txns \ {t}  PROVE  TxnInv(u)'
  <2>1. Op(u, "post") /\ Ran(u, "number") => Id(u) \notin history'
    BY <1>1 DEF IInv, TxnInv, PostNumbers
  <2>3. Found(u)'  BY <1>1, <1>3 DEF IInv, TxnInv, Found, EverStored, Op, Id
  <2>4. ReadAll(u)'
    <3>1. Id(u) \in articles' => Id(u) \in articles /\ RowsOfId(u)' = RowsOfId(u)
      BY <1>1 DEF RowsOfId, Id
    <3> QED  BY <1>3, <3>1 DEF IInv, TxnInv, ReadAll, Op, Id
  <2>5. TablesInv /\ TxnInv(u) /\ tx'[u] = tx[u] /\ held'[u] = held[u]  BY <1>3 DEF IInv
  <2>6. ASSUME NEW g \in Done(tx[u])
        PROVE  {x \in overview' : x.group = g} = {x \in overview : x.group = g}
    <3>1. ASSUME NEW x \in overview, x.id = Id(t)  PROVE  x.group # g
      <4>1. x.group \in Groups  BY DEF IInv, TablesInv, Row
      <4>2. x \in tx[t].rows
        BY <1>1, <3>1 DEF IInv, TablesInv, TxnInv, ReadAll, RowsOfId, Ran
      <4>3. x.group \in Done(tx[t])  BY <1>1, <4>1, <4>2, AllWithdrawn
      <4> QED  BY <4>3, GroupsApart
    <3> QED  BY <1>1, <3>1
  <2> QED  BY <1>4, <2>1, <2>3, <2>4, <2>5, <2>6, OthersKeep
<1> QED  BY <1>3, <1>5, <1>6 DEF IInv

-----------------------------------------------------------------------------
(* What each step is to ArticleStore. *)

Listing(t) == [g \in Groups |-> Cardinality({i \in DOMAIN Work[t].list : Work[t].list[i] = g})]

LEMMA SameCounting ==
  /\ \A S : Atomic!Cardinality(S) = Cardinality(S)
  /\ \A S : Atomic!Min(S) = Min(S) /\ Atomic!Max(S) = Max(S)
<1>1. \A S : Atomic!Cardinality(S) = Cardinality(S)  BY DEF Atomic!Cardinality, Cardinality
<1>2. \A S : Atomic!Min(S) = Min(S)  BY DEF Atomic!Min, Min
<1>3. \A S : Atomic!Max(S) = Max(S)  BY DEF Atomic!Max, Max
<1> QED  BY <1>1, <1>2, <1>3

\* The cancels under way, as ArticleStore has them.
Cancelling == [t \in Txns |-> Deleting(t)]

LEMMA QuietSteps ==
  ASSUME UNCHANGED <<tables, given, miscounted>>, UNCHANGED Cancelling
  PROVE  UNCHANGED Atomic!vars
<1> QED
  BY DEF tables, EverStored, Cancelling, Atomic!vars, Atomic!groupVars, Atomic!policyVars,
         Atomic!articleVars, Atomic!historyVars, Atomic!driftVars

\* A transaction that is no cancel between its reading and its commit, before and after.
LEMMA CancelsUntouched ==
  ASSUME IInv, IInv', NEW t \in Txns, Deleting(t)' = Deleting(t),
         \A u \in Txns \ {t} : tx'[u] = tx[u]
  PROVE  UNCHANGED Cancelling
<1>1. ASSUME NEW u \in Txns PROVE Deleting(u)' = Deleting(u)
  BY DEF Deleting, Op, Id
<1> QED  BY <1>1 DEF Cancelling

LEMMA InitiallySame == Init => Atomic!Init
<1> SUFFICES ASSUME Init PROVE Atomic!Init  OBVIOUS
<1>1. /\ history = {} /\ articles = {} /\ overview = {} /\ given = {}
      /\ low = [g \in Groups |-> 0] /\ high = [g \in Groups |-> 0] /\ count = [g \in Groups |-> 0]
      /\ miscounted = {} /\ tx = [t \in Txns |-> Fresh] /\ Fresh.step = "begin"
  BY DEF Init, Fresh
<1>2. EverStored = {}  BY <1>1 DEF EverStored
<1>3. <<>> = [s \in {} |-> Atomic!Idle]  OBVIOUS
<1>4. Cancelling = [t \in Txns |-> Atomic!NoCancel]
  BY <1>1 DEF Cancelling, Deleting, Atomic!NoCancel, Atomic!Never
<1> QED  BY <1>1, <1>2, <1>3, <1>4 DEF Atomic!Init, Atomic!Never, Cancelling

LEMMA PostIsOneStep ==
  ASSUME IInv, NEW t \in Txns, CommitPost(t), UNCHANGED Cancelling
  PROVE  Atomic!Post(Id(t), Listing(t))
<1>1. /\ history' = history \cup {Id(t)} /\ articles' = articles \cup {Id(t)}
      /\ overview' = overview \cup tx[t].rows /\ given' = given \cup tx[t].rows
      /\ Publish(t) /\ Op(t, "post") /\ Ran(t, "number") /\ tx[t].rows # {}
      /\ tx[t].next > Len(tx[t].groups)
  BY DEF CommitPost
<1>2. /\ Id(t) \notin history /\ tx[t].groups = Work[t].list
      /\ tx[t].rows = {x \in Row : /\ x.id = Id(t) /\ high[x.group] < x.num
                                   /\ x.num <= high[x.group] + Times(tx[t], x.group)}
      /\ \A g \in Groups :
           /\ Marks(t, g).high = high[g] + Times(tx[t], g)
           /\ Marks(t, g).count = count[g] + Times(tx[t], g)
           /\ Marks(t, g).low = IF Times(tx[t], g) > 0 /\ low[g] = 0 THEN high[g] + 1 ELSE low[g]
           /\ Times(tx[t], g) > 0 => high[g] + Times(tx[t], g) <= MaxNum
  BY <1>1 DEF IInv, TxnInv, PostNumbers
<1>3. \A g \in Groups : Listing(t)[g] = Times(tx[t], g)
  <2>1. ASSUME NEW g \in Groups
        PROVE  {i \in DOMAIN Work[t].list : Work[t].list[i] = g}
                 = Before(tx[t].groups, Len(tx[t].groups), g)
    BY <1>2, WorkType DEF Before
  <2> QED  BY <1>1, <2>1, AllDone DEF Listing
<1>4. \A g \in Groups : /\ Times(tx[t], g) \in Nat /\ high[g] \in Nat /\ low[g] \in Nat
                        /\ count[g] \in Nat
  BY TimesFacts DEF IInv, TablesInv
<1>5. Atomic!Carrying(Listing(t)) = {g \in Groups : Times(tx[t], g) > 0}
  BY <1>3 DEF Atomic!Carrying
<1>6. Atomic!NewRows(Id(t), Listing(t)) = tx[t].rows
  <2>1. Atomic!NewRows(Id(t), Listing(t))
          = UNION {{[group |-> g, num |-> high[g] + i, id |-> Id(t)] : i \in 1..Times(tx[t], g)} :
                     g \in {h \in Groups : Times(tx[t], h) > 0}}
    BY <1>3, <1>5 DEF Atomic!NewRows
  <2>2. ASSUME NEW x \in tx[t].rows
        PROVE  x \in Atomic!NewRows(Id(t), Listing(t))
    <3>1. /\ x.group \in Groups /\ x.num \in Nat /\ x.id = Id(t)
          /\ x = [group |-> x.group, num |-> x.num, id |-> x.id]
          /\ high[x.group] < x.num /\ x.num <= high[x.group] + Times(tx[t], x.group)
      BY <1>2 DEF Row
    <3>2. /\ x.num - high[x.group] \in 1..Times(tx[t], x.group) /\ Times(tx[t], x.group) > 0
          /\ x.num = high[x.group] + (x.num - high[x.group])
      BY <1>4, <3>1
    <3> QED  BY <2>1, <3>1, <3>2
  <2>3. ASSUME NEW x \in Atomic!NewRows(Id(t), Listing(t))
        PROVE  x \in tx[t].rows
    <3>0. PICK g \in Groups : \E i \in 1..Times(tx[t], g) :
            x = [group |-> g, num |-> high[g] + i, id |-> Id(t)]
      BY <2>1
    <3>1. PICK i \in 1..Times(tx[t], g) : x = [group |-> g, num |-> high[g] + i, id |-> Id(t)]
      BY <3>0
    <3>2. x \in Row /\ high[g] < x.num /\ x.num <= high[g] + Times(tx[t], g) /\ x.group = g
          /\ x.id = Id(t)
      BY <1>4, <3>1, WorkType DEF Row
    <3> QED  BY <1>2, <3>2
  <2> QED  BY <2>2, <2>3
<1>7. Atomic!Carrying(Listing(t)) # {}
  <2>1. PICK x \in tx[t].rows : TRUE  BY <1>1
  <2>2. x.group \in Groups /\ x.num \in Nat /\ high[x.group] < x.num
        /\ x.num <= high[x.group] + Times(tx[t], x.group)
    BY <1>2 DEF Row
  <2>3. Times(tx[t], x.group) > 0  BY <1>4, <2>2
  <2> QED  BY <1>5, <2>2, <2>3
<1>8. \A g \in Atomic!Carrying(Listing(t)) : high[g] + Listing(t)[g] <= MaxNum
  BY <1>2, <1>3, <1>5
<1>9. /\ high' = [g \in Groups |-> IF g \in Atomic!Carrying(Listing(t))
                                   THEN high[g] + Listing(t)[g] ELSE high[g]]
      /\ low' = [g \in Groups |-> IF g \in Atomic!Carrying(Listing(t)) /\ low[g] = 0
                                  THEN high[g] + 1 ELSE low[g]]
      /\ count' = [g \in Groups |-> IF g \in Atomic!Carrying(Listing(t))
                                    THEN count[g] + Listing(t)[g] ELSE count[g]]
  <2>1. ASSUME NEW g \in Groups
        PROVE  /\ Marks(t, g).high = IF g \in Atomic!Carrying(Listing(t))
                                     THEN high[g] + Listing(t)[g] ELSE high[g]
               /\ Marks(t, g).low = IF g \in Atomic!Carrying(Listing(t)) /\ low[g] = 0
                                    THEN high[g] + 1 ELSE low[g]
               /\ Marks(t, g).count = IF g \in Atomic!Carrying(Listing(t))
                                      THEN count[g] + Listing(t)[g] ELSE count[g]
    BY <1>2, <1>3, <1>4, <1>5
  <2> QED  BY <1>1, <2>1 DEF Publish
<1>10. Atomic!Remembered(Id(t))
  BY <1>1, <1>2, WorkType DEF Atomic!Remembered
<1>11. [m \in MsgIds |-> IF m \in EverStored THEN 0 ELSE -1]'
         = [[m \in MsgIds |-> IF m \in EverStored THEN 0 ELSE -1] EXCEPT ![Id(t)] = 0]
  <2>1. EverStored' = EverStored \cup {Id(t)}
    BY <1>1, <1>2 DEF EverStored
  <2> QED  BY <2>1, WorkType
<1>12. UNCHANGED Atomic!driftVars
  BY DEF CommitPost, Cancelling, Atomic!driftVars
<1> QED
  BY <1>1, <1>2, <1>6, <1>7, <1>8, <1>9, <1>10, <1>11, <1>12 DEF Atomic!Post, Atomic!policyVars

LEMMA RememberIsOneStep ==
  ASSUME NEW t \in Txns, RememberOnly(t), UNCHANGED Cancelling
  PROVE  Atomic!RememberMessageID(Id(t))
<1>1. /\ history' = history \cup {Id(t)}
      /\ UNCHANGED <<articles, overview, low, high, count, given, miscounted>>
  BY DEF RememberOnly
<1>2. Atomic!Remembered(Id(t))  BY <1>1, WorkType DEF Atomic!Remembered
<1> QED
  BY <1>1, <1>2 DEF Atomic!RememberMessageID, Atomic!groupVars, Atomic!policyVars,
                    Atomic!articleVars, Atomic!driftVars, EverStored, Cancelling

LEMMA NobodySweeps == Atomic!Locked = {}
BY DEF Atomic!Locked

\* storedAt as ArticleStore has it.
Stored == [m \in MsgIds |-> IF m \in EverStored THEN 0 ELSE -1]

LEMMA ReadIsOneStep ==
  ASSUME IInv, NEW t \in Txns, ReadRows(t)
  PROVE  Atomic!CancelReads(t, Id(t))
<1>1. /\ Op(t, "cancel") /\ tx[t].step = "read" /\ Id(t) \in EverStored /\ Id(t) \in MsgIds
      /\ tx \in [Txns -> TxRecord] /\ UNCHANGED <<tables, held, given, miscounted>>
  BY WorkType DEF ReadRows, Ran, IInv, TablesInv, TxnInv, Found
<1>2. tx'[t].step = "delete" /\ tx'[t].rows = RowsOfId(t) /\ \A u \in Txns \ {t} : tx'[u] = tx[u]
  <2>1. PICK order : tx' = [tx EXCEPT ![t].step = "delete", ![t].rows = RowsOfId(t),
                                      ![t].groups = [i \in 1..Cardinality(RowsOfId(t)) |-> order[i].group]]
    BY DEF ReadRows, RowsOfId
  <2> QED  BY <1>1, <2>1 DEF TxRecord
<1>3. Deleting(t) = Atomic!NoCancel
  BY <1>1 DEF Deleting, Atomic!NoCancel, Atomic!Never
<1>4. Deleting(t)' = [id |-> {Id(t)}, at |-> Stored[Id(t)], rows |-> Atomic!RowsOf(overview, {Id(t)})]
  <2>1. Stored[Id(t)] = 0  BY <1>1 DEF Stored
  <2>2. Atomic!RowsOf(overview, {Id(t)}) = RowsOfId(t)  BY DEF Atomic!RowsOf, RowsOfId
  <2> QED  BY <1>1, <1>2, <2>1, <2>2 DEF Deleting, Op, Id
<1>5. \A u \in Txns \ {t} : Deleting(u)' = Deleting(u)
  BY <1>2 DEF Deleting, Op, Id
<1>6. Cancelling' = [Cancelling EXCEPT ![t] =
        [id |-> {Id(t)}, at |-> Stored[Id(t)], rows |-> Atomic!RowsOf(overview, {Id(t)})]]
  BY <1>4, <1>5 DEF Cancelling
<1>7. Cancelling[t] = Atomic!NoCancel /\ Stored[Id(t)] # Atomic!Never
  BY <1>1, <1>3 DEF Cancelling, Stored, Atomic!Never
<1>8. EverStored' = EverStored  BY <1>1 DEF EverStored
<1> QED
  BY <1>1, <1>6, <1>7, <1>8
  DEF Atomic!CancelReads, Atomic!groupVars, Atomic!policyVars, Atomic!articleVars,
      Atomic!historyVars, tables, Cancelling, Stored

LEMMA OverIsNoCancel ==
  ASSUME IInv, NEW t \in Txns, NEW how \in Endings, End(t, how)
  PROVE  Cancelling' = [Cancelling EXCEPT ![t] = Atomic!NoCancel]
<1>1. tx'[t].step = how /\ \A u \in Txns \ {t} : tx'[u] = tx[u]
  BY DEF End, Fresh, IInv, TablesInv
<1>2. how \notin {"delete", "adjust"}  BY DEF Endings
<1>3. Deleting(t)' = Atomic!NoCancel
  BY <1>1, <1>2 DEF Deleting, Atomic!NoCancel, Atomic!Never
<1>4. \A u \in Txns \ {t} : Deleting(u)' = Deleting(u)
  BY <1>1 DEF Deleting, Op, Id
<1> QED  BY <1>3, <1>4 DEF Cancelling

LEMMA FailIsOneStep ==
  ASSUME IInv, NEW t \in Txns, Fails(t)
  PROVE  Atomic!CancelFails(t)
<1>1. UNCHANGED <<tables, given, miscounted>> /\ End(t, "failed")  BY DEF Fails
<1>2. Cancelling' = [Cancelling EXCEPT ![t] = Atomic!NoCancel]
  <2>1. "failed" \in Endings  BY DEF Endings
  <2> QED  BY <1>1, <2>1, OverIsNoCancel
<1>3. EverStored' = EverStored  BY <1>1 DEF EverStored
<1> QED
  BY <1>1, <1>2, <1>3
  DEF Atomic!CancelFails, Atomic!groupVars, Atomic!policyVars, Atomic!articleVars,
      Atomic!historyVars, tables, Cancelling

LEMMA CancelIsOneStep ==
  ASSUME IInv, NEW t \in Txns, CommitCancel(t)
  PROVE  Atomic!CancelCommits(t, Id(t))
<1> DEFINE here == IF Stored[Id(t)] = Cancelling[t].at THEN articles \cap {Id(t)} ELSE {}
           read == Cancelling[t].rows
           left == overview \ Atomic!RowsOf(overview, here)
           hit  == {r.group : r \in read}
<1>1. /\ articles' = articles \ {Id(t)} /\ overview' = {r \in overview : r.id # Id(t)}
      /\ Publish(t) /\ Op(t, "cancel") /\ Ran(t, "adjust")
      /\ UNCHANGED <<history, given>> /\ tx[t].next > Len(tx[t].groups)
      /\ miscounted' = miscounted \cup {r.group : r \in tx[t].rows \ overview}
      /\ End(t, "committed")
  BY DEF CommitCancel
<1>2. /\ Id(t) \in history /\ Id(t) \in EverStored /\ Id(t) \in MsgIds
      /\ \A g \in Groups :
           /\ Marks(t, g).high = high[g]
           /\ Marks(t, g).count = Max({count[g] - Times(tx[t], g), 0})
           /\ Marks(t, g).low = IF Times(tx[t], g) > 0 THEN LeftLow(t, g) ELSE low[g]
  BY <1>1, WorkType DEF IInv, TablesInv, TxnInv, Found, Withdrawing, Ran
<1>14. Cancelling[t] = [id |-> {Id(t)}, at |-> 0, rows |-> tx[t].rows]
  BY <1>1 DEF Cancelling, Deleting, Ran
<1>15. here = articles \cap {Id(t)} /\ read = tx[t].rows
  BY <1>2, <1>14 DEF Stored
<1>16. articles' = articles \ here /\ left = overview'
  BY <1>1, <1>15 DEF Atomic!RowsOf, IInv, TablesInv
<1>17. overview \ left = RowsOfId(t) /\ \A x \in read : x.id = Id(t)
  BY <1>1, <1>15, <1>16 DEF RowsOfId, IInv, TxnInv, ReadAll, Ran
<1>18. read \ overview = read \ (overview \ left)
  BY <1>17 DEF RowsOfId
<1>3. read = tx[t].rows /\ left = overview' /\ left = {x \in overview : x.id # Id(t)}
  BY <1>1, <1>15, <1>16
<1>4. \A g \in Groups : /\ Times(tx[t], g) = Cardinality({x \in read : x.group = g})
                        /\ Times(tx[t], g) > 0 <=> g \in hit
                        /\ Times(tx[t], g) \in Nat /\ count[g] \in Nat
  BY <1>1, <1>3, AllWithdrawn, TimesFacts DEF IInv, TablesInv
<1>13. \A g \in Groups : /\ Times(tx[t], g) > 0 <=> g \in hit
                         /\ Times(tx[t], g) \in Nat /\ count[g] \in Nat
  BY <1>4
<1>19. IsFiniteSet(read)  BY <1>3 DEF IInv, TxnInv, Shape
<1> HIDE DEF here, read, left, hit
<1>5. count' = [g \in Groups |-> IF g \in hit THEN Atomic!Fewer(g, read) ELSE count[g]]
  <2>1. ASSUME NEW g \in Groups
        PROVE  Marks(t, g).count = IF g \in hit THEN Atomic!Fewer(g, read) ELSE count[g]
    <3>1. CASE g \in hit
      <4>1. Atomic!RowsIn(read, g) = {x \in read : x.group = g}
        BY DEF Atomic!RowsIn
      <4>2. Atomic!Fewer(g, read) = Max({count[g] - Times(tx[t], g), 0})
        BY <1>4, <4>1, SameCounting DEF Atomic!Fewer
      <4> QED  BY <1>2, <3>1, <4>2
    <3>2. CASE g \notin hit
      <4>1. Times(tx[t], g) = 0  BY <1>13, <3>2
      <4>2. Max({count[g] - Times(tx[t], g), 0}) = count[g]  BY <1>13, <4>1, MaxZero
      <4> QED  BY <1>2, <3>2, <4>2
    <3> QED  BY <3>1, <3>2
  <2> QED  BY <1>1, <2>1 DEF Publish
<1>6. low' = [g \in Groups |-> IF g \in hit THEN Atomic!LowOf(left, g) ELSE low[g]]
  <2>1. ASSUME NEW g \in Groups
        PROVE  Marks(t, g).low = IF g \in hit THEN Atomic!LowOf(left, g) ELSE low[g]
    <3>1. LeftNums(t, g) = Atomic!NumsIn(left, g)
      BY <1>1, <1>3 DEF LeftNums, Atomic!NumsIn, Atomic!RowsIn
    <3>2. LeftNums(t, g) = {} <=> Atomic!RowsIn(left, g) = {}
      BY <3>1 DEF Atomic!NumsIn
    <3>3. LeftLow(t, g) = Atomic!LowOf(left, g)
      BY <3>1, <3>2, SameCounting DEF LeftLow, Atomic!LowOf
    <3> QED  BY <1>2, <1>4, <3>3
  <2> QED  BY <1>1, <2>1 DEF Publish
<1>7. high' = high
  <2>1. high' = [g \in Groups |-> high[g]]  BY <1>1, <1>2 DEF Publish
  <2>2. high \in [Groups -> Nat]  BY DEF IInv, TablesInv
  <2> QED  BY <2>1, <2>2
<1>8. Atomic!Remembered(Id(t))
  BY <1>1, <1>2 DEF Atomic!Remembered
<1>9. EverStored' = EverStored  BY <1>1 DEF EverStored
<1>10. overview' = left /\ articles' = articles \ here  BY <1>3, <1>16
<1>11. {} = Atomic!Unqueued({Id(t)})  BY DEF Atomic!Unqueued
<1>12. /\ overview' = left
       /\ count' = [g \in Groups |-> IF g \in hit THEN Atomic!Fewer(g, read) ELSE count[g]]
       /\ low' = [g \in Groups |-> IF g \in hit THEN Atomic!LowOf(left, g) ELSE low[g]]
  BY <1>5, <1>6, <1>10
<1>20. miscounted' = miscounted \cup {r.group : r \in read \ (overview \ left)}
  BY <1>1, <1>3, <1>18
<1>21. Cancelling' = [Cancelling EXCEPT ![t] = Atomic!NoCancel]
  <2>1. "committed" \in Endings  BY DEF Endings
  <2> QED  BY <1>1, <2>1, OverIsNoCancel
<1>22. Cancelling[t].id = {Id(t)} /\ Id(t) \notin Atomic!Locked
  BY <1>14, NobodySweeps
<1>23. Stored' = Stored  BY <1>9 DEF Stored
<1> QED
  BY <1>1, <1>7, <1>8, <1>10, <1>11, <1>12, <1>20, <1>21, <1>22, <1>23
  DEF Atomic!CancelCommits, Atomic!policyVars, here, read, left, hit, Cancelling, Stored

-----------------------------------------------------------------------------
(* The theorems. *)

LEMMA StepKeeps ==
  ASSUME IInv, NEW t \in Txns, Step(t) \/ Fails(t)
  PROVE  IInv'
<1>1. CASE Claim(t)         BY <1>1, ClaimKeeps
<1>2. CASE Number(t)        BY <1>2, NumberKeeps
<1>3. CASE CommitPost(t)    BY <1>3, CommitPostKeeps
<1>4. CASE Find(t)          BY <1>4, FindKeeps
<1>5. CASE RememberOnly(t)  BY <1>5, RememberOnlyKeeps
<1>6. CASE ReadRows(t)      BY <1>6, ReadRowsKeeps
<1>7. CASE Delete(t)        BY <1>7, DeleteKeeps
<1>8. CASE Adjust(t)        BY <1>8, AdjustKeeps
<1>9. CASE CommitCancel(t)  BY <1>9, CommitCancelKeeps
<1>10. CASE Fails(t)
  <2>1. "failed" \in Endings  BY DEF Endings
  <2> QED  BY <1>10, <2>1, EndKeeps DEF Fails
<1> QED
  BY <1>1, <1>2, <1>3, <1>4, <1>5, <1>6, <1>7, <1>8, <1>9, <1>10 DEF Step

LEMMA InitHolds == Init => IInv
<1> SUFFICES ASSUME Init PROVE IInv  OBVIOUS
<1>1. Fresh \in TxRecord /\ Fresh.next = 1 /\ Fresh.groups = <<>> /\ Fresh.marks = NoMarks
      /\ Fresh.rows = {} /\ Fresh.step = "begin"
  <2>1. <<>> \in Seq(Groups)  OBVIOUS
  <2>2. "begin" \in Steps /\ {} \in SUBSET Row /\ 1 \in Nat \ {0}  BY DEF Steps
  <2> QED  BY <2>1, <2>2, NothingYet DEF Fresh, TxRecord
<1>2. /\ tx = [t \in Txns |-> Fresh] /\ held = [t \in Txns |-> {}]
      /\ history = {} /\ articles = {} /\ overview = {} /\ given = {}
      /\ low = [g \in Groups |-> 0] /\ high = [g \in Groups |-> 0] /\ count = [g \in Groups |-> 0]
      /\ miscounted = {}
  BY DEF Init
<1>3. TablesInv
  BY <1>1, <1>2, FS_EmptySet DEF TablesInv
<1>4. LocksApart  BY <1>2 DEF LocksApart
<1>5. ASSUME NEW t \in Txns  PROVE  TxnInv(t)
  <2>1. tx[t] = Fresh  BY <1>2
  <2>2. Done(Fresh) = {} /\ DOMAIN Fresh.marks = {}  BY <1>1, TimesFacts, NothingYet
  <2>3. Fresh.next - 1 <= Len(Fresh.groups) /\ IsFiniteSet(Fresh.rows)
    BY <1>1, FS_EmptySet
  <2>4. Shape(t)  BY <1>1, <2>1, <2>2, <2>3 DEF Shape
  <2>5. PostNumbers(t) /\ Found(t) /\ ReadAll(t) /\ Withdrawing(t)
    BY <1>1, <2>1 DEF PostNumbers, Found, ReadAll, Withdrawing, Ran
  <2> QED  BY <2>4, <2>5 DEF TxnInv
<1> QED  BY <1>3, <1>4, <1>5 DEF IInv

LEMMA InvariantHolds == Spec => []IInv
<1>1. ASSUME IInv, [Next]_vars  PROVE  IInv'
  <2>1. CASE Next  BY <1>1, <2>1, StepKeeps DEF Next
  <2>2. CASE UNCHANGED vars
    <3>1. /\ UNCHANGED <<history, articles, overview, low, high, count, held, tx, given>>
          /\ UNCHANGED miscounted
      BY <2>2 DEF vars, tables
    <3>2. TablesInv' /\ LocksApart'
      BY <1>1, <3>1 DEF IInv, TablesInv, LocksApart, EverStored
    <3>3. \A t \in Txns : TxnInv(t)'
      BY <1>1, <3>1, OthersUntouched DEF IInv, tables
    <3> QED  BY <3>2, <3>3 DEF IInv
  <2> QED  BY <1>1, <2>1, <2>2
<1> QED  BY <1>1, InitHolds, PTL DEF Spec

LEMMA StepIsOne ==
  ASSUME IInv, NEW t \in Txns, Step(t) \/ Fails(t)
  PROVE  Atomic!Next \/ UNCHANGED Atomic!vars
<1>1. Id(t) \in MsgIds /\ IInv'  BY WorkType, StepKeeps
<1>2. CASE CommitPost(t) \/ RememberOnly(t)
  <2>1. \A how \in Endings : End(t, how) => \A u \in Txns \ {t} : tx'[u] = tx[u]
    BY DEF End, IInv, TablesInv
  <2>2. "committed" \in Endings /\ "unknown" \in Endings  BY DEF Endings
  <2>3. \A u \in Txns \ {t} : tx'[u] = tx[u]
    BY <1>2, <2>1, <2>2 DEF CommitPost, RememberOnly
  <2>4. Deleting(t)' = Deleting(t)
    <3>1. tx'[t].step \in {"committed", "unknown"} /\ tx[t].step \in {"number", "remember"}
      BY <1>2 DEF CommitPost, RememberOnly, End, Fresh, Ran, IInv, TablesInv
    <3> QED  BY <3>1 DEF Deleting
  <2>5. UNCHANGED Cancelling  BY <1>1, <2>3, <2>4, CancelsUntouched
  <2>6. Atomic!Post(Id(t), Listing(t)) \/ Atomic!RememberMessageID(Id(t))
    BY <1>2, <2>5, PostIsOneStep, RememberIsOneStep
  <2>7. Atomic!ArticleOp(Id(t))  BY <2>6 DEF Atomic!ArticleOp, Listing
  <2> QED  BY <1>1, <2>7 DEF Atomic!Next
<1>3. CASE ReadRows(t) \/ CommitCancel(t)
  <2>1. Atomic!CancelReads(t, Id(t)) \/ Atomic!CancelCommits(t, Id(t))
    BY <1>3, ReadIsOneStep, CancelIsOneStep
  <2>2. Atomic!ArticleOp(Id(t))  BY <2>1 DEF Atomic!ArticleOp
  <2> QED  BY <1>1, <2>2 DEF Atomic!Next
<1>4. CASE Fails(t)
  <2>1. Atomic!CancelFails(t)  BY <1>4, FailIsOneStep
  <2> QED  BY <2>1 DEF Atomic!Next
<1>5. CASE Claim(t) \/ Number(t) \/ Find(t) \/ Delete(t) \/ Adjust(t)
  <2>1. UNCHANGED <<tables, given, miscounted>>
    BY <1>5 DEF Claim, Number, Find, Delete, Adjust
  <2>2. \A u \in Txns \ {t} : tx'[u] = tx[u]
    BY <1>5 DEF Claim, End, Number, Find, Delete, Adjust, IInv, TablesInv
  <2>3. Deleting(t)' = Deleting(t)
    <3>1. tx \in [Txns -> TxRecord]  BY DEF IInv, TablesInv
    <3>2. CASE Claim(t) \/ Find(t)
      <4>1. tx'[t].step \notin {"delete", "adjust"} /\ tx[t].step = "begin"
        BY <3>1, <3>2 DEF Claim, End, Fresh, Find, Ran, TxRecord
      <4> QED  BY <4>1 DEF Deleting
    <3>3. CASE Number(t)
      <4>1. Op(t, "post")  BY <3>3 DEF Number
      <4>2. ~Op(t, "cancel")  BY <4>1 DEF Op
      <4> QED  BY <4>2 DEF Deleting, Op
    <3>4. CASE Delete(t) \/ Adjust(t)
      <4>1. /\ tx'[t].step \in {"delete", "adjust"} /\ tx[t].step \in {"delete", "adjust"}
            /\ tx'[t].rows = tx[t].rows
        BY <3>1, <3>4 DEF Delete, Adjust, Ran, TxRecord
      <4> QED  BY <4>1 DEF Deleting, Op, Id
    <3> QED  BY <1>5, <3>2, <3>3, <3>4
  <2>4. UNCHANGED Cancelling  BY <1>1, <2>2, <2>3, CancelsUntouched
  <2> QED  BY <2>1, <2>4, QuietSteps
<1> QED  BY <1>2, <1>3, <1>4, <1>5 DEF Step

\* Types, with the locks and marks each transaction has, whatever order the statements
\* of posts and cancels run in.
THEOREM StoreTxnTypeCorrect == Spec => []TypeOK
<1>1. IInv => TypeOK
  <2> SUFFICES ASSUME IInv PROVE TypeOK  OBVIOUS
  <2>1. /\ history \subseteq MsgIds /\ articles \subseteq MsgIds
        /\ overview \subseteq Row /\ given \subseteq Row
        /\ low \in [Groups -> Nat] /\ high \in [Groups -> Nat] /\ count \in [Groups -> Nat]
        /\ held \in [Txns -> SUBSET Lockable] /\ miscounted \subseteq Groups
    BY DEF IInv, TablesInv
  <2>2. \A t \in Txns : tx[t] \in TxRecord  BY DEF IInv, TablesInv
  <2> QED  BY <2>1, <2>2 DEF TypeOK, TxRecord, Steps
<1> QED  BY <1>1, InvariantHolds, PTL

\* The detailed transactions implement those of ArticleStore: each COMMIT is one Post,
\* RememberMessageID or commit of a cancel, the rows a cancel reads are its first step, and
\* no other statement shows, for any number of posts and cancels of the same articles.
THEOREM TransactionsAreAtomic == Spec => PostsAreAtomic
<1>1. Init => Atomic!Init  BY InitiallySame
<1>2. IInv /\ [Next]_vars => [UNCHANGED vars \/ Atomic!Next]_(Atomic!vars)
  <2> SUFFICES ASSUME IInv, [Next]_vars
               PROVE  UNCHANGED vars \/ Atomic!Next \/ UNCHANGED Atomic!vars
    OBVIOUS
  <2> QED  BY StepIsOne DEF Next
<1> QED  BY <1>1, <1>2, InvariantHolds, PTL DEF Spec, PostsAreAtomic

-----------------------------------------------------------------------------
(* The counters.  Of the refresh under way the invariant says that what it *)
(* is going to write covers every article it saw when it began to count    *)
(* and every article whose poster has counted it since.                    *)

\* Articles that the counters of the refresh must not be short of.
Owed == {a \in inStore : a \in refresh.saw \/ a \notin lost \union DOMAIN recording}
\* Articles that the committed counters must not be short of.
Settled == inStore \ (lost \union DOMAIN recording)
\* The counters whose table the refresh has counted.
Counting == {k \in AllCounters : \E i \in 1..refresh.table : k[1] = InsertOrder[i]}

StatsTypes ==
  /\ posted \subseteq StatArticles
  /\ inStore \subseteq posted /\ lost \subseteq posted /\ DOMAIN recording \subseteq posted
  /\ counted \in [AllCounters -> Nat]
  /\ \A a \in DOMAIN recording : recording[a] \in 0..Len(Counters(a))

RefreshTypes ==
  refresh # NotRefreshing =>
    /\ DOMAIN refresh = {"step", "table", "todo", "deleted", "inserted", "new", "saw"}
    /\ refresh.step \in {"deleting", "inserting"}
    /\ refresh.table \in 0..4
    /\ refresh.todo \subseteq AllCounters /\ refresh.deleted \subseteq AllCounters
    /\ DOMAIN refresh.inserted \subseteq AllCounters
    /\ \A k \in DOMAIN refresh.inserted : refresh.inserted[k] \in Nat
    /\ \A k \in DOMAIN refresh.new : refresh.new[k] \in Nat
    /\ refresh.saw \subseteq posted
    /\ refresh.step = "deleting" \/ refresh.table = 0 => DOMAIN refresh.inserted = {}
    /\ refresh.step = "inserting" /\ refresh.table = 0 => refresh.todo = {}

\* The row of a counter has one owner.
OneOwner == \A k \in AllCounters : ~(HeldByRecord(k) /\ HeldByRefresh(k))

\* What the refresh writes, is about to write and leaves out.
RecountCovers ==
  refresh # NotRefreshing /\ refresh.step = "inserting" =>
    /\ refresh.todo \subseteq DOMAIN refresh.new
    /\ \A k \in DOMAIN refresh.inserted : CountOf(k, Owed) <= refresh.inserted[k]
    /\ \A k \in refresh.todo : \/ counted[k] > 0 /\ k \notin refresh.deleted
                               \/ CountOf(k, Owed) <= refresh.new[k]
    /\ \A k \in Counting \ (refresh.todo \union DOMAIN refresh.inserted) :
         /\ CountOf(k, inStore \intersect refresh.saw) = 0
         /\ k \in refresh.deleted => CountOf(k, Owed) = 0

StatsInv ==
  StatsTypes /\ RefreshTypes /\ OneOwner /\ RecountCovers /\ StatsNeverUndercount

-----------------------------------------------------------------------------
(* The counters of an article, and counts of articles. *)

LEMMA SequenceOf ==
  ASSUME NEW T, NEW n \in Nat, NEW f \in [1..n -> T]
  PROVE  f \in Seq(T) /\ Len(f) = n /\ DOMAIN f = 1..n
OBVIOUS

LEMMA CountersForm ==
  ASSUME NEW a \in StatArticles
  PROVE  /\ Len(Counters(a)) \in Nat /\ DOMAIN Counters(a) = 1..Len(Counters(a))
         /\ \A i \in 1..Len(Counters(a)) :
              /\ Counters(a)[i][1] \in {"day", "total", "from", "path"}
              /\ Counters(a)[i] \in AllCounters
         /\ Range(Counters(a)) = {Counters(a)[i] : i \in 1..Len(Counters(a))}
<1> DEFINE n == 2 * Len(GroupList[a])
           m == Len(PathStatSites[a])
           groups == GroupCounters(a)
           from   == <<<<"from", FromKey[a]>>>>
           sites  == [i \in DOMAIN PathStatSites[a] |-> <<"path", PathStatSites[a][i]>>]
           T == {groups[i] : i \in 1..n} \union {from[1]} \union {sites[i] : i \in 1..m}
<1>1. n \in Nat /\ m \in Nat /\ DOMAIN PathStatSites[a] = 1..m
  BY StatsAssumption
<1>2. groups \in [1..n -> T] /\ \A i \in 1..n : groups[i][1] \in {"day", "total"}
  BY DEF GroupCounters
<1>3. sites \in [1..m -> T] /\ \A i \in 1..m : sites[i][1] = "path"
  BY <1>1
<1>4. from \in Seq(T) /\ Len(from) = 1 /\ from[1][1] = "from"
  OBVIOUS
<1>5. Counters(a) = groups \o from \o sites  BY DEF Counters
<1> HIDE DEF groups, from, sites, T, n, m
<1>6. groups \in Seq(T) /\ from \in Seq(T) /\ sites \in Seq(T) /\ Len(groups) = n
      /\ Len(sites) = m /\ DOMAIN groups = 1..n
  BY <1>1, <1>2, <1>3, <1>4, SequenceOf
<1>7. \A i \in 1..Len(groups) : groups[i][1] \in {"day", "total"}  BY <1>2, <1>6
<1>8. Counters(a) \in Seq(T) /\ Len(Counters(a)) = Len(groups) + 1 + Len(sites)
  <2> DEFINE front == groups \o from
  <2>1. front \in Seq(T) /\ Len(front) = Len(groups) + 1
    <3>1. groups \in Seq(T) /\ from \in Seq(T)  BY <1>4, <1>6
    <3>2. groups \o from \in Seq(T) /\ Len(groups \o from) = Len(groups) + Len(from)
      BY <3>1, ConcatProperties
    <3> QED  BY <1>4, <3>2
  <2>2. Counters(a) = front \o sites  BY <1>5
  <2> HIDE DEF front
  <2> QED  BY <1>6, <2>1, <2>2, ConcatProperties
<1>9. Len(Counters(a)) \in Nat /\ DOMAIN Counters(a) = 1..Len(Counters(a))  BY <1>8
<1>10. ASSUME NEW i \in 1..Len(Counters(a))
       PROVE  Counters(a)[i][1] \in {"day", "total", "from", "path"}
  <2>1. Len(groups) \in Nat /\ Len(sites) \in Nat /\ DOMAIN groups = 1..Len(groups)  BY <1>6
  <2>2. CASE i <= Len(groups)
    <3>1. Counters(a)[i] = groups[i] /\ i \in 1..Len(groups)
      BY <1>4, <1>5, <1>6, <1>8, <2>1, <2>2
    <3> QED  BY <1>7, <2>1, <3>1
  <2>3. CASE i = Len(groups) + 1
    <3>1. Counters(a)[i] = from[1]  BY <1>4, <1>5, <1>6, <1>8, <2>1, <2>3
    <3> QED  BY <1>4, <3>1
  <2>4. CASE i > Len(groups) + 1
    <3>1. i - (Len(groups) + 1) \in 1..Len(sites)  BY <1>8, <2>1, <2>4
    <3>2. Counters(a)[i] = sites[i - (Len(groups) + 1)]
      BY <1>4, <1>5, <1>6, <1>8, <2>1, <2>4
    <3> QED  BY <1>3, <1>6, <3>1, <3>2
  <2> QED  BY <2>1, <2>2, <2>3, <2>4
<1>11. \A i \in 1..Len(Counters(a)) : Counters(a)[i] \in AllCounters
  BY <1>9 DEF AllCounters, Range
<1>12. Range(Counters(a)) = {Counters(a)[i] : i \in 1..Len(Counters(a))}  BY <1>9 DEF Range
<1> QED  BY <1>9, <1>10, <1>11, <1>12

LEMMA Tables ==
  ASSUME NEW k \in AllCounters  PROVE \E i \in 1..4 : k[1] = InsertOrder[i]
<1>1. PICK a \in StatArticles : k \in Range(Counters(a))  BY DEF AllCounters
<1>2. PICK i \in 1..Len(Counters(a)) : Counters(a)[i] = k  BY <1>1, CountersForm
<1>3. k[1] \in {"day", "total", "from", "path"}  BY <1>2, CountersForm
<1> QED  BY <1>3 DEF InsertOrder

LEMMA Counts ==
  ASSUME NEW S \in SUBSET StatArticles, NEW k
  PROVE  /\ CountOf(k, S) \in Nat
         /\ \A T \in SUBSET S : CountOf(k, T) <= CountOf(k, S)
         /\ CountOf(k, S) = 0 <=> \A a \in S : k \notin Range(Counters(a))
         /\ \A a \in StatArticles : /\ CountOf(k, S \union {a}) <= CountOf(k, S) + 1
                                    /\ k \notin Range(Counters(a)) =>
                                         CountOf(k, S \union {a}) = CountOf(k, S)
<1> DEFINE Those(U) == {a \in U : k \in Range(Counters(a))}
<1>1. \A U : CountOf(k, U) = Cardinality(Those(U))  BY DEF CountOf
<1>2. IsFiniteSet(S) /\ IsFiniteSet(Those(S))
  BY StatsAssumption, FS_Subset
<1>3. \A T \in SUBSET S : CountOf(k, T) <= CountOf(k, S)
  <2> TAKE T \in SUBSET S
  <2>1. Those(T) \subseteq Those(S)  OBVIOUS
  <2>2. CountOf(k, T) = Cardinality(Those(T)) /\ CountOf(k, S) = Cardinality(Those(S))  BY <1>1
  <2> HIDE DEF Those
  <2> QED  BY <1>2, <2>1, <2>2, FS_Subset
<1>4. CountOf(k, S) \in Nat  BY <1>1, <1>2, FS_CardinalityType
<1>5. CountOf(k, S) = 0 <=> Those(S) = {}  BY <1>1, <1>2, FS_EmptySet
<1>6. ASSUME NEW a \in StatArticles
      PROVE  /\ CountOf(k, S \union {a}) <= CountOf(k, S) + 1
             /\ k \notin Range(Counters(a)) => CountOf(k, S \union {a}) = CountOf(k, S)
  <2>1. CASE k \in Range(Counters(a))
    <3>1. Those(S \union {a}) = Those(S) \union {a}  BY <2>1
    <3>2. \/ Cardinality(Those(S) \union {a}) = Cardinality(Those(S))
          \/ Cardinality(Those(S) \union {a}) = Cardinality(Those(S)) + 1
      BY <1>2, FS_AddElement
    <3>3. Cardinality(Those(S)) \in Nat  BY <1>2, FS_CardinalityType
    <3>4. /\ CountOf(k, S \union {a}) = Cardinality(Those(S \union {a}))
          /\ CountOf(k, S) = Cardinality(Those(S))
      BY <1>1
    <3> HIDE DEF Those
    <3> DEFINE c == Cardinality(Those(S))
               d == Cardinality(Those(S) \union {a})
    <3>5. c \in Nat /\ (d = c \/ d = c + 1)  BY <3>2, <3>3
    <3>6. d <= c + 1
      <4> HIDE DEF c, d
      <4> QED  BY <3>5
    <3> QED  BY <2>1, <3>1, <3>4, <3>6
  <2>2. CASE k \notin Range(Counters(a))
    <3>1. Those(S \union {a}) = Those(S)  BY <2>2
    <3> HIDE DEF Those
    <3> QED  BY <1>1, <1>4, <2>2, <3>1
  <2> QED  BY <2>1, <2>2
<1> QED  BY <1>3, <1>4, <1>5, <1>6

LEMMA NoneCounts ==
  ASSUME NEW S, NEW T, NEW k, \A a \in T : k \notin Range(Counters(a))
  PROVE  CountOf(k, S \union T) = CountOf(k, S)
<1>1. {a \in S \union T : k \in Range(Counters(a))} = {a \in S : k \in Range(Counters(a))}
  OBVIOUS
<1> QED  BY <1>1 DEF CountOf

\* Fewer articles to cover and the same counters.
LEMMA CountsStand ==
  ASSUME StatsInv, UNCHANGED <<counted, refresh>>, posted \subseteq posted',
         Settled' \subseteq Settled, refresh # NotRefreshing => Owed' \subseteq Owed,
         refresh # NotRefreshing =>
           inStore' \intersect refresh.saw \subseteq inStore \intersect refresh.saw
  PROVE  RefreshTypes' /\ RecountCovers' /\ StatsNeverUndercount'
<1>1. Settled \subseteq StatArticles /\ Owed \subseteq StatArticles /\ inStore \subseteq StatArticles
  BY DEF StatsInv, StatsTypes, Settled, Owed
<1>2. RefreshTypes'  BY DEF StatsInv, RefreshTypes
<1>3. StatsNeverUndercount'
  <2>1. ASSUME NEW k \in AllCounters  PROVE CountOf(k, Settled') <= counted[k]
    <3>1. CountOf(k, Settled) <= counted[k]  BY DEF StatsInv, StatsNeverUndercount, Settled
    <3>2. CountOf(k, Settled') <= CountOf(k, Settled)  BY <1>1, Counts
    <3>3. CountOf(k, Settled') \in Nat /\ CountOf(k, Settled) \in Nat  BY <1>1, Counts
    <3>4. counted[k] \in Nat  BY DEF StatsInv, StatsTypes
    <3> QED  BY <3>1, <3>2, <3>3, <3>4
  <2> QED  BY <2>1 DEF StatsNeverUndercount, Settled
<1>4. RecountCovers'
  <2> SUFFICES ASSUME refresh # NotRefreshing, refresh.step = "inserting"
      PROVE  RecountCovers'
    BY DEF RecountCovers
  <2>1. \A k : CountOf(k, Owed') <= CountOf(k, Owed) /\ CountOf(k, Owed') \in Nat
               /\ CountOf(k, Owed) \in Nat
    BY <1>1, Counts
  <2>2. \A k : CountOf(k, inStore \intersect refresh.saw) = 0 =>
                 CountOf(k, inStore' \intersect refresh.saw) = 0
    <3> TAKE k
    <3>1. inStore \intersect refresh.saw \in SUBSET StatArticles
          /\ inStore' \intersect refresh.saw \in SUBSET StatArticles
      BY <1>1
    <3> QED  BY <3>1, Counts
  <2>3. \A k \in DOMAIN refresh.inserted : CountOf(k, Owed') <= refresh.inserted[k]
    BY <2>1 DEF StatsInv, RecountCovers, RefreshTypes
  <2>4. \A k \in refresh.todo : \/ counted[k] > 0 /\ k \notin refresh.deleted
                                \/ CountOf(k, Owed') <= refresh.new[k]
    BY <2>1 DEF StatsInv, RecountCovers, RefreshTypes
  <2>5. \A k \in Counting \ (refresh.todo \union DOMAIN refresh.inserted) :
          /\ CountOf(k, inStore' \intersect refresh.saw) = 0
          /\ k \in refresh.deleted => CountOf(k, Owed') = 0
    <3> TAKE k \in Counting \ (refresh.todo \union DOMAIN refresh.inserted)
    <3>1. /\ CountOf(k, inStore \intersect refresh.saw) = 0
          /\ k \in refresh.deleted => CountOf(k, Owed) = 0
      BY DEF StatsInv, RecountCovers
    <3>2. \A n \in Nat : n <= 0 => n = 0  OBVIOUS
    <3> QED  BY <2>1, <2>2, <3>1, <3>2
  <2>6. Counting' = Counting  BY DEF Counting
  <2>7. refresh.todo \subseteq DOMAIN refresh.new  BY DEF StatsInv, RecountCovers
  <2> QED  BY <2>3, <2>4, <2>5, <2>6, <2>7 DEF RecountCovers
<1> QED  BY <1>2, <1>3, <1>4

\* Only the refresh changed.
LEMMA OnlyRefresh ==
  ASSUME StatsInv, UNCHANGED <<posted, inStore, counted, recording, lost>>
  PROVE  /\ StatsTypes' /\ StatsNeverUndercount'
         /\ \A k : HeldByRecord(k)' <=> HeldByRecord(k)
<1> QED  BY DEF StatsInv, StatsTypes, StatsNeverUndercount, HeldByRecord

LEMMA StatsStart == StatsInit => StatsInv
<1> SUFFICES ASSUME StatsInit PROVE StatsInv  OBVIOUS
<1>1. StatsTypes /\ RefreshTypes /\ OneOwner /\ RecountCovers
  BY DEF StatsInit, StatsTypes, RefreshTypes, OneOwner, RecountCovers, HeldByRefresh
<1>2. ASSUME NEW k \in AllCounters
      PROVE  CountOf(k, inStore \ (lost \union DOMAIN recording)) <= counted[k]
  <2>1. inStore \ (lost \union DOMAIN recording) = {} /\ counted[k] = 0  BY DEF StatsInit
  <2>2. CountOf(k, {}) = 0  BY Counts
  <2> QED  BY <2>1, <2>2
<1> QED  BY <1>1, <1>2 DEF StatsInv, StatsNeverUndercount

-----------------------------------------------------------------------------
(* Posts, their counting, and removal. *)

LEMMA PostKeeps ==
  ASSUME StatsInv, NEW a \in StatArticles, PostCommits(a)  PROVE StatsInv'
<1>1. /\ a \notin posted /\ posted' = posted \union {a} /\ inStore' = inStore \union {a}
      /\ recording' = [x \in DOMAIN recording \union {a} |-> IF x = a THEN 0 ELSE recording[x]]
      /\ UNCHANGED <<counted, refresh, lost>>
  BY DEF PostCommits
<1>2. StatsTypes'
  BY <1>1, CountersForm DEF StatsInv, StatsTypes
<1>3. \A k : HeldByRecord(k)' => HeldByRecord(k)
  BY <1>1 DEF HeldByRecord
<1>4. OneOwner'  BY <1>1, <1>3 DEF StatsInv, OneOwner, HeldByRefresh
<1>5. Settled' \subseteq Settled  BY <1>1 DEF Settled
<1>6. refresh # NotRefreshing => /\ Owed' \subseteq Owed
                                 /\ inStore' \intersect refresh.saw \subseteq inStore
  BY <1>1 DEF StatsInv, RefreshTypes, Owed
<1> QED  BY <1>1, <1>2, <1>4, <1>5, <1>6, CountsStand DEF StatsInv

LEMMA RecordNextKeeps ==
  ASSUME StatsInv, NEW a \in DOMAIN recording, RecordNext(a)  PROVE StatsInv'
<1> DEFINE new == [recording EXCEPT ![a] = recording[a] + 1]
<1>1. /\ recording[a] < Len(Counters(a)) /\ ~HeldByRefresh(Counters(a)[recording[a] + 1])
      /\ recording' = new
      /\ UNCHANGED <<posted, inStore, counted, refresh, lost>>
  BY DEF RecordNext
<1>2. /\ DOMAIN new = DOMAIN recording /\ new[a] = recording[a] + 1
      /\ \A x \in DOMAIN recording \ {a} : new[x] = recording[x]
  OBVIOUS
<1> HIDE DEF new
<1>3. a \in StatArticles /\ recording[a] \in Nat /\ Len(Counters(a)) \in Nat
  BY CountersForm DEF StatsInv, StatsTypes
<1>4. StatsTypes'  BY <1>1, <1>2, <1>3 DEF StatsInv, StatsTypes
<1>5. \A k : HeldByRecord(k)' => HeldByRecord(k) \/ k = Counters(a)[recording[a] + 1]
  <2> SUFFICES ASSUME NEW k, HeldByRecord(k)'
      PROVE  HeldByRecord(k) \/ k = Counters(a)[recording[a] + 1]
    OBVIOUS
  <2>1. PICK b \in DOMAIN recording : \E i \in 1..new[b] : Counters(b)[i] = k
    BY <1>1, <1>2 DEF HeldByRecord
  <2>2. CASE b # a  BY <1>2, <2>1, <2>2 DEF HeldByRecord
  <2>3. CASE b = a
    <3>1. PICK i \in 1..recording[a] + 1 : Counters(a)[i] = k  BY <1>2, <2>1, <2>3
    <3>2. i \in 1..recording[a] \/ i = recording[a] + 1  BY <1>3
    <3> QED  BY <3>1, <3>2 DEF HeldByRecord
  <2> QED  BY <2>2, <2>3
<1>6. \A k : HeldByRefresh(k)' <=> HeldByRefresh(k)  BY <1>1 DEF HeldByRefresh
<1>7. OneOwner'  BY <1>1, <1>5, <1>6 DEF StatsInv, OneOwner
<1>8. /\ Settled' \subseteq Settled
      /\ refresh # NotRefreshing => Owed' \subseteq Owed
  BY <1>1, <1>2 DEF Settled, Owed
<1> QED  BY <1>1, <1>4, <1>7, <1>8, CountsStand DEF StatsInv

LEMMA RecordCommitsKeeps ==
  ASSUME StatsInv, NEW a \in DOMAIN recording, RecordCommits(a)  PROVE StatsInv'
<1> DEFINE more(k) == Cardinality({i \in DOMAIN Counters(a) : Counters(a)[i] = k})
<1>1. /\ recording[a] = Len(Counters(a))
      /\ counted' = [k \in AllCounters |-> counted[k] + more(k)]
      /\ recording' = [x \in DOMAIN recording \ {a} |-> recording[x]]
      /\ UNCHANGED <<posted, inStore, refresh, lost>>
  BY DEF RecordCommits, Recorded
<1>2. a \in StatArticles /\ Settled \subseteq StatArticles
  BY DEF StatsInv, StatsTypes, Settled
<1>3. \A k : more(k) \in Nat /\ (k \in Range(Counters(a)) => more(k) > 0)
  <2> TAKE k
  <2> DEFINE P == {i \in DOMAIN Counters(a) : Counters(a)[i] = k}
  <2>1. IsFiniteSet(P)
    <3>1. Len(Counters(a)) \in Nat /\ DOMAIN Counters(a) = 1..Len(Counters(a))
      BY <1>2, CountersForm
    <3>2. IsFiniteSet(DOMAIN Counters(a))  BY <3>1, FS_Interval
    <3> QED  BY <3>2, FS_Subset
  <2>2. Cardinality(P) \in Nat /\ (Cardinality(P) = 0 <=> P = {})
    BY <2>1, FS_CardinalityType, FS_EmptySet
  <2>3. k \in Range(Counters(a)) => P # {}  BY DEF Range
  <2> HIDE DEF P
  <2>4. k \in Range(Counters(a)) => Cardinality(P) > 0  BY <2>2, <2>3
  <2> QED  BY <2>2, <2>4 DEF P
<1> HIDE DEF more
<1>4. \A k \in AllCounters : counted[k] \in Nat /\ counted'[k] = counted[k] + more(k)
  BY <1>1 DEF StatsInv, StatsTypes
<1>5. \A k : k \in Range(Counters(a)) => HeldByRecord(k)
  BY <1>1, <1>2, CountersForm DEF HeldByRecord, Range
<1>6. \A k \in AllCounters : HeldByRefresh(k) => k \notin Range(Counters(a))
  BY <1>5 DEF StatsInv, OneOwner
<1>7. StatsTypes'
  <2>1. counted' \in [AllCounters -> Nat]  BY <1>1, <1>3, <1>4
  <2> QED  BY <1>1, <2>1 DEF StatsInv, StatsTypes
<1>8. OneOwner'
  <2>1. \A k : HeldByRecord(k)' => HeldByRecord(k)  BY <1>1 DEF HeldByRecord
  <2>2. \A k : HeldByRefresh(k)' <=> HeldByRefresh(k)  BY <1>1 DEF HeldByRefresh
  <2> QED  BY <2>1, <2>2 DEF StatsInv, OneOwner
<1>9. StatsNeverUndercount'
  <2>1. Settled' \in SUBSET (Settled \union {a})  BY <1>1 DEF Settled
  <2>2. ASSUME NEW k \in AllCounters  PROVE CountOf(k, Settled') <= counted'[k]
    <3>1. CountOf(k, Settled) <= counted[k]  BY DEF StatsInv, StatsNeverUndercount, Settled
    <3>2. CountOf(k, Settled') <= CountOf(k, Settled \union {a})
      BY <1>2, <2>1, Counts
    <3>3. /\ CountOf(k, Settled \union {a}) <= CountOf(k, Settled) + 1
          /\ k \notin Range(Counters(a)) => CountOf(k, Settled \union {a}) = CountOf(k, Settled)
      BY <1>2, Counts
    <3>4. /\ CountOf(k, Settled) \in Nat /\ CountOf(k, Settled \union {a}) \in Nat
          /\ CountOf(k, Settled') \in Nat
      BY <1>2, <2>1, Counts
    <3>5. /\ counted[k] \in Nat /\ more(k) \in Nat /\ counted'[k] = counted[k] + more(k)
          /\ k \in Range(Counters(a)) => more(k) > 0
      BY <1>3, <1>4
    <3> DEFINE c == CountOf(k, Settled)
               d == CountOf(k, Settled \union {a})
               e == CountOf(k, Settled')
    <3> HIDE DEF c, d, e
    <3>6. c <= counted[k] /\ e <= d /\ d <= c + 1
          /\ (k \notin Range(Counters(a)) => d = c) /\ c \in Nat /\ d \in Nat /\ e \in Nat
      BY <3>1, <3>2, <3>3, <3>4 DEF c, d, e
    <3>7. e <= counted'[k]  BY <3>5, <3>6
    <3> QED  BY <3>7 DEF e
  <2> QED  BY <2>2 DEF StatsNeverUndercount, Settled
<1>10. RefreshTypes'  BY <1>1 DEF StatsInv, RefreshTypes
<1>11. RecountCovers'
  <2> SUFFICES ASSUME refresh # NotRefreshing, refresh.step = "inserting"
      PROVE  RecountCovers'
    BY <1>1 DEF RecountCovers
  <2>1. Owed \subseteq StatArticles /\ Owed' \in SUBSET (Owed \union {a})
    BY <1>1 DEF StatsInv, StatsTypes, Owed
  <2>2. \A k : k \notin Range(Counters(a)) =>
                 /\ CountOf(k, Owed') <= CountOf(k, Owed)
                 /\ CountOf(k, Owed') \in Nat /\ CountOf(k, Owed) \in Nat
    <3> TAKE k
    <3>1. CountOf(k, Owed') <= CountOf(k, Owed \union {a})  BY <1>2, <2>1, Counts
    <3>2. k \notin Range(Counters(a)) => CountOf(k, Owed \union {a}) = CountOf(k, Owed)
      BY <1>2, <2>1, Counts
    <3>3. CountOf(k, Owed') \in Nat /\ CountOf(k, Owed) \in Nat  BY <1>2, <2>1, Counts
    <3> QED  BY <3>1, <3>2, <3>3
  <2>3. ASSUME NEW k \in DOMAIN refresh.inserted
        PROVE  CountOf(k, Owed') <= refresh.inserted[k]
    <3>1. k \in AllCounters /\ refresh.inserted[k] \in Nat  BY DEF StatsInv, RefreshTypes
    <3>2. k \notin Range(Counters(a))  BY <1>6, <3>1 DEF HeldByRefresh
    <3>3. CountOf(k, Owed) <= refresh.inserted[k]  BY DEF StatsInv, RecountCovers
    <3> QED  BY <2>2, <3>1, <3>2, <3>3
  <2>4. ASSUME NEW k \in refresh.todo
        PROVE  \/ counted'[k] > 0 /\ k \notin refresh.deleted
               \/ CountOf(k, Owed') <= refresh.new[k]
    <3>1. k \in AllCounters /\ refresh.new[k] \in Nat /\ counted[k] \in Nat /\ more(k) \in Nat
          /\ counted'[k] = counted[k] + more(k)
      BY <1>3, <1>4 DEF StatsInv, RefreshTypes, RecountCovers
    <3>2. CASE counted[k] > 0 /\ k \notin refresh.deleted  BY <3>1, <3>2
    <3>3. CASE k \in Range(Counters(a))
      <4>1. more(k) > 0  BY <1>3, <3>3
      <4>2. counted'[k] > 0  BY <3>1, <4>1
      <4>3. k \notin refresh.deleted  BY <1>6, <3>1, <3>3 DEF HeldByRefresh
      <4> QED  BY <4>2, <4>3
    <3>4. CASE k \notin Range(Counters(a)) /\ CountOf(k, Owed) <= refresh.new[k]
      BY <2>2, <3>1, <3>4
    <3> QED  BY <3>2, <3>3, <3>4 DEF StatsInv, RecountCovers
  <2>5. ASSUME NEW k \in Counting \ (refresh.todo \union DOMAIN refresh.inserted)
        PROVE  /\ CountOf(k, inStore \intersect refresh.saw) = 0
               /\ k \in refresh.deleted => CountOf(k, Owed') = 0
    <3>1. /\ CountOf(k, inStore \intersect refresh.saw) = 0
          /\ k \in refresh.deleted => CountOf(k, Owed) = 0
      BY DEF StatsInv, RecountCovers
    <3>2. k \in refresh.deleted => k \notin Range(Counters(a))
      BY <1>6 DEF HeldByRefresh, Counting
    <3>3. \A n \in Nat : n <= 0 => n = 0  OBVIOUS
    <3> QED  BY <2>2, <3>1, <3>2, <3>3
  <2>6. Counting' = Counting  BY <1>1 DEF Counting
  <2>7. refresh.todo \subseteq DOMAIN refresh.new  BY DEF StatsInv, RecountCovers
  <2> QED  BY <1>1, <2>3, <2>4, <2>5, <2>6, <2>7 DEF RecountCovers
<1> QED  BY <1>7, <1>8, <1>9, <1>10, <1>11 DEF StatsInv

LEMMA RecordFailsKeeps ==
  ASSUME StatsInv, NEW a \in DOMAIN recording, RecordFails(a)  PROVE StatsInv'
<1>1. /\ recording' = [x \in DOMAIN recording \ {a} |-> recording[x]]
      /\ lost' = lost \union {a}
      /\ UNCHANGED <<posted, inStore, counted, refresh>>
  BY DEF RecordFails, Recorded
<1>2. StatsTypes'  BY <1>1 DEF StatsInv, StatsTypes
<1>3. \A k : HeldByRecord(k)' => HeldByRecord(k)  BY <1>1 DEF HeldByRecord
<1>4. \A k : HeldByRefresh(k)' <=> HeldByRefresh(k)  BY <1>1 DEF HeldByRefresh
<1>5. OneOwner'  BY <1>3, <1>4 DEF StatsInv, OneOwner
<1>6. /\ Settled' \subseteq Settled
      /\ refresh # NotRefreshing => Owed' \subseteq Owed
  BY <1>1 DEF Settled, Owed
<1> QED  BY <1>1, <1>2, <1>5, <1>6, CountsStand DEF StatsInv

LEMMA RemoveArticleKeeps ==
  ASSUME StatsInv, NEW a \in inStore, RemoveArticle(a)  PROVE StatsInv'
<1>1. inStore' = inStore \ {a} /\ UNCHANGED <<posted, counted, recording, refresh, lost>>
  BY DEF RemoveArticle
<1>2. StatsTypes'  BY <1>1 DEF StatsInv, StatsTypes
<1>3. OneOwner'  BY <1>1 DEF StatsInv, OneOwner, HeldByRecord, HeldByRefresh
<1>4. /\ Settled' \subseteq Settled
      /\ refresh # NotRefreshing => Owed' \subseteq Owed
      /\ refresh # NotRefreshing =>
           inStore' \intersect refresh.saw \subseteq inStore \intersect refresh.saw
  BY <1>1 DEF Settled, Owed
<1> QED  BY <1>1, <1>2, <1>3, <1>4, CountsStand DEF StatsInv

-----------------------------------------------------------------------------
(* The refresh. *)

\* A refresh that ends without a commit.
LEMMA RefreshEnded ==
  ASSUME StatsInv, refresh' = NotRefreshing,
         UNCHANGED <<posted, inStore, counted, recording, lost>>
  PROVE  StatsInv'
<1>1. StatsTypes' /\ StatsNeverUndercount'  BY OnlyRefresh
<1>2. RefreshTypes' /\ RecountCovers' /\ OneOwner'
  BY DEF RefreshTypes, RecountCovers, OneOwner, HeldByRefresh
<1> QED  BY <1>1, <1>2 DEF StatsInv

LEMMA RefreshBeginsKeeps == ASSUME StatsInv, RefreshBegins PROVE StatsInv'
<1>1. /\ refresh' = [step |-> "deleting", table |-> 0, todo |-> {}, deleted |-> {},
                     inserted |-> NoCounts, new |-> NoCounts, saw |-> {}]
      /\ UNCHANGED <<posted, inStore, counted, recording, lost>>
  BY DEF RefreshBegins
<1>2. DOMAIN NoCounts = {}  BY DEF NoCounts
<1>3. /\ refresh'.step = "deleting" /\ refresh'.table = 0 /\ refresh'.todo = {}
      /\ refresh'.deleted = {} /\ refresh'.inserted = NoCounts /\ refresh'.new = NoCounts
      /\ refresh'.saw = {}
  BY <1>1
<1>4. RefreshTypes'  BY <1>1, <1>2, <1>3 DEF RefreshTypes
<1>5. RecountCovers'  BY <1>3 DEF RecountCovers
<1>6. OneOwner'  BY <1>2, <1>3 DEF OneOwner, HeldByRefresh
<1> QED  BY <1>1, <1>4, <1>5, <1>6, OnlyRefresh DEF StatsInv

LEMMA DeletingKeeps ==
  ASSUME StatsInv, DeleteTable \/ \E k \in AllCounters : DeleteRow(k)
  PROVE  StatsInv'
<1>1. CASE DeleteTable
  <2>1. /\ refresh.step = "deleting" /\ refresh # NotRefreshing /\ refresh.todo = {}
        /\ UNCHANGED <<posted, inStore, counted, recording, lost>>
    BY <1>1 DEF DeleteTable, NotRefreshing
  <2>2. CASE refresh.table = Len(DeleteOrder)
    <3> DEFINE new == [refresh EXCEPT !.step = "inserting", !.table = 0]
    <3>1. refresh' = new  BY <1>1, <2>2 DEF DeleteTable
    <3>2. /\ DOMAIN new = {"step", "table", "todo", "deleted", "inserted", "new", "saw"}
          /\ new.step = "inserting" /\ new.table = 0
          /\ new.todo = {} /\ new.deleted = refresh.deleted
          /\ new.inserted = refresh.inserted /\ new.new = refresh.new
          /\ new.saw = refresh.saw
      BY <2>1 DEF StatsInv, RefreshTypes
    <3> HIDE DEF new
    <3>3. /\ refresh'.step = "inserting" /\ refresh'.table = 0 /\ refresh'.todo = {}
          /\ refresh'.deleted = refresh.deleted /\ refresh'.inserted = refresh.inserted
          /\ refresh'.new = refresh.new /\ refresh'.saw = refresh.saw
      BY <3>1, <3>2
    <3>4. RefreshTypes'  BY <2>1, <3>1, <3>2, <3>3 DEF StatsInv, RefreshTypes
    <3>5. Counting' = {}  BY <3>3 DEF Counting
    <3>6. RecountCovers'  BY <2>1, <3>3, <3>5 DEF StatsInv, RefreshTypes, RecountCovers
    <3>7. \A k : HeldByRefresh(k)' => HeldByRefresh(k)
      BY <2>1, <3>3 DEF HeldByRefresh
    <3>8. OneOwner'  BY <2>1, <3>7, OnlyRefresh DEF StatsInv, OneOwner
    <3> QED  BY <2>1, <3>4, <3>6, <3>8, OnlyRefresh DEF StatsInv
  <2>3. CASE refresh.table # Len(DeleteOrder)
    <3> DEFINE K == {k \in Of(DeleteOrder[refresh.table + 1]) : counted[k] > 0}
               new == [refresh EXCEPT !.table = refresh.table + 1, !.todo = K]
    <3>1. refresh' = new  BY <1>1, <2>3 DEF DeleteTable
    <3>2. K \subseteq AllCounters  BY DEF Of
    <3> HIDE DEF K
    <3>3. /\ DOMAIN new = {"step", "table", "todo", "deleted", "inserted", "new", "saw"}
          /\ new.step = "deleting" /\ new.table = refresh.table + 1
          /\ new.todo = K /\ new.deleted = refresh.deleted
          /\ new.inserted = refresh.inserted /\ new.new = refresh.new
          /\ new.saw = refresh.saw
      BY <2>1 DEF StatsInv, RefreshTypes
    <3> HIDE DEF new
    <3>4. /\ refresh'.step = "deleting" /\ refresh'.table = refresh.table + 1
          /\ refresh'.todo = K
          /\ refresh'.deleted = refresh.deleted /\ refresh'.inserted = refresh.inserted
          /\ refresh'.new = refresh.new /\ refresh'.saw = refresh.saw
      BY <3>1, <3>3
    <3>5. Len(DeleteOrder) = 4  BY DEF DeleteOrder
    <3>6. refresh.table + 1 \in 0..4
      BY <2>1, <2>3, <3>5 DEF StatsInv, RefreshTypes
    <3>7. RefreshTypes'
      BY <2>1, <3>1, <3>2, <3>3, <3>4, <3>6 DEF StatsInv, RefreshTypes
    <3>8. RecountCovers'  BY <3>4 DEF RecountCovers
    <3>9. \A k : HeldByRefresh(k)' => HeldByRefresh(k)
      BY <2>1, <3>4 DEF HeldByRefresh
    <3>10. OneOwner'  BY <2>1, <3>9, OnlyRefresh DEF StatsInv, OneOwner
    <3> QED  BY <2>1, <3>7, <3>8, <3>10, OnlyRefresh DEF StatsInv
  <2> QED  BY <2>2, <2>3
<1>2. ASSUME NEW k \in AllCounters, DeleteRow(k)  PROVE StatsInv'
  <2> DEFINE new == [refresh EXCEPT !.todo = @ \ {k}, !.deleted = @ \union {k}]
  <2>1. /\ refresh.step = "deleting" /\ refresh # NotRefreshing /\ ~HeldByRecord(k)
        /\ UNCHANGED <<posted, inStore, counted, recording, lost>>
        /\ refresh' = new
    <3> HIDE DEF new
    <3>1. refresh.step = "deleting"  BY <1>2 DEF DeleteRow
    <3>2. refresh # NotRefreshing  BY <3>1 DEF NotRefreshing
    <3>3. refresh' = new  BY <1>2 DEF DeleteRow, new
    <3> QED  BY <1>2, <3>1, <3>2, <3>3 DEF DeleteRow
  <2>2. /\ DOMAIN new = {"step", "table", "todo", "deleted", "inserted", "new", "saw"}
        /\ new.step = "deleting" /\ new.table = refresh.table
        /\ new.todo = refresh.todo \ {k} /\ new.deleted = refresh.deleted \union {k}
        /\ new.inserted = refresh.inserted /\ new.new = refresh.new
        /\ new.saw = refresh.saw
    BY <2>1 DEF StatsInv, RefreshTypes
  <2> HIDE DEF new
  <2>3. /\ refresh'.step = "deleting" /\ refresh'.table = refresh.table
        /\ refresh'.todo = refresh.todo \ {k} /\ refresh'.deleted = refresh.deleted \union {k}
        /\ refresh'.inserted = refresh.inserted
        /\ refresh'.new = refresh.new /\ refresh'.saw = refresh.saw
    BY <2>1, <2>2
  <2>4. RefreshTypes'  BY <1>2, <2>1, <2>2, <2>3 DEF StatsInv, RefreshTypes
  <2>5. RecountCovers'  BY <2>3 DEF RecountCovers
  <2>6. \A x : HeldByRefresh(x)' => HeldByRefresh(x) \/ x = k
    BY <2>1, <2>3 DEF HeldByRefresh
  <2>7. OneOwner'  BY <2>1, <2>6, OnlyRefresh DEF StatsInv, OneOwner
  <2> QED  BY <2>1, <2>4, <2>5, <2>7, OnlyRefresh DEF StatsInv
<1> QED  BY <1>1, <1>2

LEMMA InsertTableKeeps == ASSUME StatsInv, InsertTable PROVE StatsInv'
<1> DEFINE K == {k \in Of(InsertOrder[refresh.table + 1]) : CountOf(k, inStore) > 0}
           counts == [k \in K |-> CountOf(k, inStore)]
           saw == IF refresh.table = 0 THEN inStore ELSE refresh.saw
           new == [refresh EXCEPT !.table = refresh.table + 1, !.todo = K, !.new = counts,
                                  !.saw = saw]
<1>1. /\ refresh.step = "inserting" /\ refresh # NotRefreshing
      /\ refresh.table < Len(InsertOrder) /\ refresh.todo = {}
      /\ UNCHANGED <<posted, inStore, counted, recording, lost>>
      /\ refresh' = new
  BY DEF InsertTable, NotRefreshing
<1>2. K \subseteq AllCounters  BY DEF Of
<1>3. DOMAIN counts = K /\ \A k \in K : counts[k] = CountOf(k, inStore)  OBVIOUS
<1>4. saw \subseteq posted /\ (refresh.table # 0 => saw = refresh.saw)
      /\ (refresh.table = 0 => saw = inStore)
  BY <1>1 DEF StatsInv, StatsTypes, RefreshTypes
<1>5. \A k \in AllCounters : k[1] = InsertOrder[refresh.table + 1] /\ k \notin K
                               => ~(CountOf(k, inStore) > 0)
  BY DEF Of
<1> HIDE DEF K, counts, saw
<1>6. /\ DOMAIN new = {"step", "table", "todo", "deleted", "inserted", "new", "saw"}
      /\ new.step = "inserting" /\ new.table = refresh.table + 1
      /\ new.todo = K /\ new.deleted = refresh.deleted
      /\ new.inserted = refresh.inserted /\ new.new = counts
      /\ new.saw = saw
  BY <1>1 DEF StatsInv, RefreshTypes
<1> HIDE DEF new
<1>7. /\ refresh'.step = "inserting" /\ refresh'.table = refresh.table + 1
      /\ refresh'.todo = K /\ refresh'.deleted = refresh.deleted
      /\ refresh'.inserted = refresh.inserted /\ refresh'.new = counts /\ refresh'.saw = saw
  BY <1>1, <1>6
<1>8. inStore \subseteq StatArticles /\ Owed' \in SUBSET inStore
  BY <1>1, <1>7 DEF StatsInv, StatsTypes, Owed
<1>9. \A k : /\ CountOf(k, Owed') \in Nat /\ CountOf(k, inStore) \in Nat
             /\ CountOf(k, Owed') <= CountOf(k, inStore)
  BY <1>8, Counts
<1>10. refresh.table \in Nat /\ refresh.table + 1 \in 0..4 /\ refresh.table + 1 # 0
  <2>1. Len(InsertOrder) = 4  BY DEF InsertOrder
  <2> QED  BY <1>1, <2>1 DEF StatsInv, RefreshTypes
<1>11. RefreshTypes'
  BY <1>1, <1>2, <1>3, <1>4, <1>6, <1>7, <1>9, <1>10 DEF StatsInv, RefreshTypes
<1>12. OneOwner'
  <2>1. \A k : HeldByRefresh(k)' => HeldByRefresh(k)  BY <1>1, <1>7 DEF HeldByRefresh
  <2> QED  BY <1>1, <2>1, OnlyRefresh DEF StatsInv, OneOwner
<1>13. refresh.table # 0 => Owed' = Owed  BY <1>1, <1>4, <1>7 DEF Owed
<1>14. \A k \in DOMAIN refresh.inserted : CountOf(k, Owed') <= refresh.inserted[k]
  BY <1>1, <1>13 DEF StatsInv, RefreshTypes, RecountCovers
<1>15. \A k \in K : CountOf(k, Owed') <= counts[k]
  BY <1>3, <1>9
<1>16. ASSUME NEW k \in Counting' \ (K \union DOMAIN refresh.inserted)
       PROVE  /\ CountOf(k, inStore \intersect saw) = 0
              /\ k \in refresh.deleted => CountOf(k, Owed') = 0
  <2>1. k \in Counting \/ k[1] = InsertOrder[refresh.table + 1]
    <3>1. PICK i \in 1..refresh.table + 1 : k[1] = InsertOrder[i]
      BY <1>7 DEF Counting
    <3>2. i \in 1..refresh.table \/ i = refresh.table + 1  BY <1>10
    <3> QED  BY <3>1, <3>2 DEF Counting
  <2>2. CASE k \in Counting
    <3>1. refresh.table # 0  BY <2>2 DEF Counting
    <3> QED  BY <1>1, <1>4, <1>13, <2>2, <3>1 DEF StatsInv, RecountCovers
  <2>3. CASE k[1] = InsertOrder[refresh.table + 1]
    <3>1. CountOf(k, inStore) = 0
      <4>1. ~(CountOf(k, inStore) > 0)  BY <1>5, <2>3 DEF Counting
      <4> QED  BY <1>9, <4>1
    <3>2. inStore \intersect saw \in SUBSET inStore  OBVIOUS
    <3>3. CountOf(k, inStore \intersect saw) <= 0 /\ CountOf(k, Owed') <= 0
      BY <1>8, <3>1, <3>2, Counts
    <3>4. CountOf(k, inStore \intersect saw) \in Nat /\ CountOf(k, Owed') \in Nat
      BY <1>8, Counts
    <3> QED  BY <3>3, <3>4
  <2> QED  BY <2>1, <2>2, <2>3
<1>17. RecountCovers'
  BY <1>1, <1>3, <1>7, <1>14, <1>15, <1>16 DEF RecountCovers
<1> QED  BY <1>1, <1>11, <1>12, <1>17, OnlyRefresh DEF StatsInv

LEMMA InsertRowKeeps ==
  ASSUME StatsInv, NEW k \in AllCounters, InsertRow(k)  PROVE StatsInv'
<1>1. /\ refresh.step = "inserting" /\ refresh # NotRefreshing /\ k \in refresh.todo
      /\ ~HeldByRecord(k) /\ UNCHANGED <<posted, inStore, counted, recording, lost>>
  BY DEF InsertRow, NotRefreshing
<1>2. CASE counted[k] > 0 /\ k \notin refresh.deleted
  BY <1>1, <1>2, RefreshEnded DEF InsertRow
<1>3. CASE ~(counted[k] > 0 /\ k \notin refresh.deleted)
  <2> DEFINE ins == [x \in DOMAIN refresh.inserted \union {k} |->
                       IF x = k THEN refresh.new[k] ELSE refresh.inserted[x]]
             new == [refresh EXCEPT !.todo = refresh.todo \ {k}, !.inserted = ins]
  <2>1. refresh' = new  BY <1>3 DEF InsertRow
  <2>2. /\ DOMAIN ins = DOMAIN refresh.inserted \union {k} /\ ins[k] = refresh.new[k]
        /\ \A x \in DOMAIN refresh.inserted \ {k} : ins[x] = refresh.inserted[x]
    OBVIOUS
  <2> HIDE DEF ins
  <2>3. /\ DOMAIN new = {"step", "table", "todo", "deleted", "inserted", "new", "saw"}
        /\ new.step = "inserting" /\ new.table = refresh.table
        /\ new.todo = refresh.todo \ {k} /\ new.deleted = refresh.deleted
        /\ new.inserted = ins /\ new.new = refresh.new
        /\ new.saw = refresh.saw
    BY <1>1 DEF StatsInv, RefreshTypes
  <2> HIDE DEF new
  <2>4. /\ refresh'.step = "inserting" /\ refresh'.table = refresh.table
        /\ refresh'.todo = refresh.todo \ {k} /\ refresh'.deleted = refresh.deleted
        /\ refresh'.inserted = ins /\ refresh'.new = refresh.new /\ refresh'.saw = refresh.saw
    BY <2>1, <2>3
  <2>5. k \in DOMAIN refresh.new /\ refresh.new[k] \in Nat /\ refresh.table # 0
    BY <1>1 DEF StatsInv, RefreshTypes, RecountCovers
  <2>6. RefreshTypes'
    BY <1>1, <2>1, <2>2, <2>3, <2>4, <2>5 DEF StatsInv, RefreshTypes
  <2>7. Owed' = Owed /\ Counting' = Counting  BY <1>1, <2>4 DEF Owed, Counting
  <2>8. \A x \in DOMAIN ins : CountOf(x, Owed) <= ins[x]
    <3>1. CountOf(k, Owed) <= ins[k]  BY <1>1, <1>3, <2>2 DEF StatsInv, RecountCovers
    <3> QED  BY <1>1, <2>2, <3>1 DEF StatsInv, RecountCovers
  <2>9. Counting \ (refresh'.todo \union DOMAIN ins)
          \subseteq Counting \ (refresh.todo \union DOMAIN refresh.inserted)
    BY <2>2, <2>4
  <2>10. RecountCovers'
    BY <1>1, <2>4, <2>7, <2>8, <2>9 DEF StatsInv, RecountCovers
  <2>11. \A x : HeldByRefresh(x)' => HeldByRefresh(x) \/ x = k
    BY <1>1, <2>2, <2>4 DEF HeldByRefresh
  <2>12. OneOwner'  BY <1>1, <2>11, OnlyRefresh DEF StatsInv, OneOwner
  <2> QED  BY <1>1, <2>6, <2>10, <2>12, OnlyRefresh DEF StatsInv
<1> QED  BY <1>2, <1>3

LEMMA RefreshCommitsKeeps == ASSUME StatsInv, RefreshCommits PROVE StatsInv'
<1>1. /\ refresh.step = "inserting" /\ refresh # NotRefreshing
      /\ refresh.table = Len(InsertOrder) /\ refresh.todo = {}
      /\ counted' = [k \in AllCounters |->
                      IF k \in DOMAIN refresh.inserted THEN refresh.inserted[k]
                      ELSE IF k \in refresh.deleted THEN 0 ELSE counted[k]]
      /\ lost' = lost \ refresh.saw /\ refresh' = NotRefreshing
      /\ UNCHANGED <<posted, inStore, recording>>
  BY DEF RefreshCommits, NotRefreshing
<1>2. StatsTypes'
  <2>1. counted' \in [AllCounters -> Nat]  BY <1>1 DEF StatsInv, StatsTypes, RefreshTypes
  <2> QED  BY <1>1, <2>1 DEF StatsInv, StatsTypes
<1>3. RefreshTypes' /\ RecountCovers' /\ OneOwner'
  BY <1>1 DEF RefreshTypes, RecountCovers, OneOwner, HeldByRefresh
<1>4. Counting = AllCounters
  <2>1. refresh.table = 4  BY <1>1 DEF InsertOrder
  <2> QED  BY <2>1, Tables DEF Counting
<1>5. /\ Owed \in SUBSET StatArticles /\ Settled \in SUBSET StatArticles
      /\ Settled' \in SUBSET Owed
      /\ Settled' \subseteq Settled \union (inStore \intersect refresh.saw)
      /\ inStore \intersect refresh.saw \in SUBSET StatArticles
  BY <1>1 DEF StatsInv, StatsTypes, Owed, Settled
<1>6. ASSUME NEW k \in AllCounters  PROVE CountOf(k, Settled') <= counted'[k]
  <2>1. CountOf(k, Settled') \in Nat /\ CountOf(k, Owed) \in Nat
        /\ CountOf(k, Settled') <= CountOf(k, Owed)
    BY <1>5, Counts
  <2>2. CASE k \in DOMAIN refresh.inserted
    <3>1. counted'[k] = refresh.inserted[k] /\ refresh.inserted[k] \in Nat
      BY <1>1, <2>2 DEF StatsInv, RefreshTypes
    <3>2. CountOf(k, Owed) <= refresh.inserted[k]
      BY <1>1, <2>2 DEF StatsInv, RecountCovers
    <3> QED  BY <2>1, <3>1, <3>2
  <2>3. CASE k \notin DOMAIN refresh.inserted /\ k \in refresh.deleted
    <3>1. counted'[k] = 0  BY <1>1, <2>3
    <3>2. CountOf(k, Owed) = 0  BY <1>1, <1>4, <2>3 DEF StatsInv, RecountCovers
    <3> QED  BY <2>1, <3>1, <3>2
  <2>4. CASE k \notin DOMAIN refresh.inserted /\ k \notin refresh.deleted
    <3>1. counted'[k] = counted[k] /\ counted[k] \in Nat
      BY <1>1, <2>4 DEF StatsInv, StatsTypes
    <3>2. CountOf(k, inStore \intersect refresh.saw) = 0
      BY <1>1, <1>4, <2>4 DEF StatsInv, RecountCovers
    <3>3. \A a \in inStore \intersect refresh.saw : k \notin Range(Counters(a))
      BY <1>5, <3>2, Counts
    <3>4. CountOf(k, Settled \union (inStore \intersect refresh.saw)) = CountOf(k, Settled)
      BY <3>3, NoneCounts
    <3>5. CountOf(k, Settled') <= CountOf(k, Settled \union (inStore \intersect refresh.saw))
      <4>1. Settled \union (inStore \intersect refresh.saw) \in SUBSET StatArticles
        BY <1>5
      <4> QED  BY <1>5, <4>1, Counts
    <3>6. CountOf(k, Settled) <= counted[k] /\ CountOf(k, Settled) \in Nat
      BY <1>5, Counts DEF StatsInv, StatsNeverUndercount, Settled
    <3> QED  BY <2>1, <3>1, <3>4, <3>5, <3>6
  <2> QED  BY <2>2, <2>3, <2>4
<1>7. StatsNeverUndercount'  BY <1>6 DEF StatsNeverUndercount, Settled
<1> QED  BY <1>2, <1>3, <1>7 DEF StatsInv

LEMMA StatsInvariant == StatsSpec => []StatsInv
<1>1. ASSUME StatsInv, [StatsNext]_statVars  PROVE  StatsInv'
  <2>1. ASSUME NEW a \in StatArticles, PostCommits(a)  PROVE StatsInv'
    BY <1>1, <2>1, PostKeeps
  <2>2. ASSUME NEW a \in DOMAIN recording, RecordNext(a) \/ RecordCommits(a) \/ RecordFails(a)
        PROVE  StatsInv'
    BY <1>1, <2>2, RecordNextKeeps, RecordCommitsKeeps, RecordFailsKeeps
  <2>3. ASSUME NEW a \in inStore, RemoveArticle(a)  PROVE StatsInv'
    BY <1>1, <2>3, RemoveArticleKeeps
  <2>4. CASE RefreshBegins  BY <1>1, <2>4, RefreshBeginsKeeps
  <2>5. CASE DeleteTable \/ \E k \in AllCounters : DeleteRow(k)
    BY <1>1, <2>5, DeletingKeeps
  <2>6. CASE InsertTable  BY <1>1, <2>6, InsertTableKeeps
  <2>7. ASSUME NEW k \in AllCounters, InsertRow(k)  PROVE StatsInv'
    BY <1>1, <2>7, InsertRowKeeps
  <2>8. CASE RefreshCommits  BY <1>1, <2>8, RefreshCommitsKeeps
  <2>9. CASE RefreshFails  BY <1>1, <2>9, RefreshEnded DEF RefreshFails
  <2>10. CASE UNCHANGED statVars
    <3>1. UNCHANGED <<posted, inStore, counted, recording, refresh, lost>>
      BY <2>10 DEF statVars
    <3>2. OneOwner'  BY <1>1, <3>1 DEF StatsInv, OneOwner, HeldByRecord, HeldByRefresh
    <3>3. StatsTypes'  BY <1>1, <3>1 DEF StatsInv, StatsTypes
    <3>4. /\ Settled' \subseteq Settled
          /\ refresh # NotRefreshing => Owed' \subseteq Owed
      BY <3>1 DEF Settled, Owed
    <3> QED  BY <1>1, <3>1, <3>2, <3>3, <3>4, CountsStand DEF StatsInv
  <2> QED
    BY <1>1, <2>1, <2>2, <2>3, <2>4, <2>5, <2>6, <2>7, <2>8, <2>9, <2>10 DEF StatsNext
<1> QED  BY <1>1, StatsStart, PTL DEF StatsSpec

\* The counters, the articles and the recount under way are of their types.
THEOREM StatsTypeCorrect == StatsSpec => []StatsTypeOK
<1>1. StatsInv => StatsTypeOK
  BY DEF StatsInv, StatsTypes, RefreshTypes, StatsTypeOK
<1> QED  BY <1>1, StatsInvariant, PTL

\* However posts, RecordContentStats and the hourly RefreshContentStats (postgres_stats.go:323)
\* interleave, no counter falls short of the articles that are stored and counted.
THEOREM CountersNeverShort == StatsSpec => []StatsNeverUndercount
<1>1. StatsInv => StatsNeverUndercount  BY DEF StatsInv
<1> QED  BY <1>1, StatsInvariant, PTL

-----------------------------------------------------------------------------
(* The memory store.  A group's row keeps its marks around its numbers,    *)
(* also when it has none.                                                  *)

MemRow ==
  [status : {"y", "n"}, mode : {"unset", "auto", "whitelist", "blocked"},
   low : 0..MaxHigh, high : 0..MaxHigh, count : 0..MaxHigh, nums : SUBSET (1..MaxHigh)]

\* The marks and the count of a row are those of its numbers.
RowSound(row) ==
  /\ row.count = Cardinality(row.nums)
  /\ \A n \in row.nums : row.low <= n /\ n <= row.high
  /\ row.low <= row.high
  /\ row.low = 0 => row.nums = {} /\ row.high = 0

\* What is behind the number n of group g.
Behind(g, n) ==
  \/ byNum[g][n].msg \in twice
  \/ /\ byNum[g][n].msg \in DOMAIN arts
     /\ g \in DOMAIN arts[byNum[g][n].msg].groups
     /\ arts[byNum[g][n].msg].groups[g] = n

\* The article m is behind the number it knows in group g.
FoundIn(m, g) ==
  /\ g \in DOMAIN byNum /\ arts[m].groups[g] \in DOMAIN byNum[g]
  /\ byNum[g][arts[m].groups[g]] = [msg |-> m, at |-> arts[m].at]

MemInv ==
  /\ MemTypeOK
  /\ DOMAIN byNum = DOMAIN grp
  /\ \A g \in DOMAIN grp : grp[g].nums = DOMAIN byNum[g] /\ RowSound(grp[g])
  /\ \A g \in DOMAIN byNum : \A n \in DOMAIN byNum[g] : Behind(g, n)
  /\ \A m \in DOMAIN arts : \A g \in DOMAIN arts[m].groups : FoundIn(m, g)

LEMMA MemInvAgrees == MemInv => MemIndexesAgree
BY DEF MemInv, MemIndexesAgree, RowSound, Behind, FoundIn

LEMMA EmptyFunction == DOMAIN << >> = {}
OBVIOUS

LEMMA InitMemInv == MemInit => MemInv
<1> SUFFICES ASSUME MemInit PROVE MemInv  OBVIOUS
<1>1. DOMAIN grp = {} /\ DOMAIN byNum = {} /\ DOMAIN arts = {} /\ DOMAIN past = {}
  BY EmptyFunction DEF MemInit
<1> QED  BY <1>1, MemAssumption DEF MemInit, MemInv, MemTypeOK

LEMMA RowFacts ==
  ASSUME NEW r \in MemRow
  PROVE  /\ r.status \in {"y", "n"} /\ r.mode \in {"unset", "auto", "whitelist", "blocked"}
         /\ r.low \in 0..MaxHigh /\ r.high \in 0..MaxHigh /\ r.count \in 0..MaxHigh
         /\ r.nums \in SUBSET (1..MaxHigh) /\ r.nums \subseteq Nat
         /\ IsFiniteSet(r.nums) /\ Cardinality(r.nums) \in Nat
         /\ Cardinality(r.nums) <= MaxHigh
<1>1. r.nums \in SUBSET (1..MaxHigh)  BY DEF MemRow
<1>2. IsFiniteSet(1..MaxHigh) /\ Cardinality(1..MaxHigh) = MaxHigh
  BY MemAssumption, FS_Interval
<1>3. IsFiniteSet(r.nums) /\ Cardinality(r.nums) <= MaxHigh  BY <1>1, <1>2, FS_Subset
<1> QED  BY <1>1, <1>3, FS_CardinalityType DEF MemRow

-----------------------------------------------------------------------------
(* Steps that leave every index alone. *)

\* Rows may be labelled anew, messages remembered, queued or said to be listed twice.
LEMMA LabelsKeep ==
  ASSUME MemInv, UNCHANGED <<arts, byNum>>,
         DOMAIN grp' = DOMAIN grp,
         \A g \in DOMAIN grp : /\ grp'[g] \in MemRow
                               /\ grp'[g].low = grp[g].low /\ grp'[g].high = grp[g].high
                               /\ grp'[g].count = grp[g].count /\ grp'[g].nums = grp[g].nums,
         DOMAIN past \subseteq DOMAIN past', DOMAIN past' \subseteq MemIds,
         \A m \in DOMAIN past' : past'[m] \in 0..MaxMemDay,
         mBans' \subseteq Suspect, feedQ' \subseteq MemIds, mDay' \in 0..MaxMemDay, twice' = twice
  PROVE  MemInv'
<1>1. MemTypeOK'  BY DEF MemInv, MemTypeOK, MemRow
<1>2. \A g \in DOMAIN grp : RowSound(grp[g])' BY DEF MemInv, RowSound
<1>3. \A g \in DOMAIN byNum : \A n \in DOMAIN byNum[g] : Behind(g, n)'  BY DEF MemInv, Behind
<1>4. \A m \in DOMAIN arts : \A g \in DOMAIN arts[m].groups : FoundIn(m, g)'  BY DEF MemInv, FoundIn
<1> QED  BY <1>1, <1>2, <1>3, <1>4 DEF MemInv

LEMMA RowsAreRows == MemInv => \A g \in DOMAIN grp : grp[g] \in MemRow
BY DEF MemInv, MemTypeOK, MemRow

LEMMA MemOthersKeep ==
  ASSUME MemInv,
         \/ \E m \in MemIds : MemRememberMessageID(m) \/ MemEnqueueFeed(m)
         \/ \E S : TakeOffFeed(S)
         \/ \E g \in Suspect : MemBan(g)
         \/ MemNextDay
         \/ UNCHANGED memVars
  PROVE  MemInv'
<1>1. /\ DOMAIN past \subseteq MemIds /\ feedQ \subseteq MemIds /\ mBans \subseteq Suspect
      /\ mDay \in 0..MaxMemDay /\ \A m \in DOMAIN past : past[m] \in 0..MaxMemDay
  BY DEF MemInv, MemTypeOK
<1>2. UNCHANGED <<grp, arts, byNum, twice>>
  BY DEF MemRememberMessageID, MemEnqueueFeed, TakeOffFeed, MemBan, MemNextDay, memVars
<1>3. /\ DOMAIN past \subseteq DOMAIN past' /\ DOMAIN past' \subseteq MemIds
      /\ \A m \in DOMAIN past' : past'[m] \in 0..MaxMemDay
  BY <1>1 DEF MemRememberMessageID, MemEnqueueFeed, TakeOffFeed, MemBan, MemNextDay, memVars, With
<1>4. mBans' \subseteq Suspect /\ feedQ' \subseteq MemIds /\ mDay' \in 0..MaxMemDay
  BY <1>1, MemAssumption
  DEF MemRememberMessageID, MemEnqueueFeed, TakeOffFeed, MemBan, MemNextDay, memVars
<1> QED  BY <1>2, <1>3, <1>4, LabelsKeep, RowsAreRows

LEMMA BlockedRow ==
  ASSUME NEW r \in MemRow
  PROVE  /\ Blocked(r) \in MemRow
         /\ Blocked(r).low = r.low /\ Blocked(r).high = r.high
         /\ Blocked(r).count = r.count /\ Blocked(r).nums = r.nums
BY DEF Blocked, MemRow

LEMMA AlertsKeep ==
  ASSUME MemInv,
         \/ \E g \in Suspect : MemNoteAccept(g)
         \/ \E i \in DOMAIN mAlerts : MemResolveGroupAlert(i)
  PROVE  MemInv'
<1>1. \A g \in DOMAIN grp : grp[g] \in MemRow  BY RowsAreRows
<1>2. UNCHANGED <<arts, byNum, past, mBans, feedQ, mDay, twice>>
  BY DEF MemNoteAccept, MemResolveGroupAlert
<1>3. ASSUME NEW g \in Suspect, MemNoteAccept(g) PROVE MemInv'
  <2>1. g \in DOMAIN grp /\ grp' = [grp EXCEPT ![g].mode = "auto"]  BY <1>3 DEF MemNoteAccept
  <2>2. \A h \in DOMAIN grp : /\ grp'[h] \in MemRow
                              /\ grp'[h].low = grp[h].low /\ grp'[h].high = grp[h].high
                              /\ grp'[h].count = grp[h].count /\ grp'[h].nums = grp[h].nums
    BY <1>1, <2>1 DEF MemRow
  <2>3. DOMAIN grp' = DOMAIN grp  BY <2>1
  <2> QED  BY <1>2, <2>2, <2>3, LabelsKeep DEF MemInv, MemTypeOK
<1>4. ASSUME NEW i \in DOMAIN mAlerts, MemResolveGroupAlert(i) PROVE MemInv'
  <2> DEFINE g == mAlerts[i].group
  <2>1. CASE g \notin DOMAIN grp
    <3>1. grp' = grp  BY <1>4, <2>1 DEF MemResolveGroupAlert
    <3> QED  BY <1>1, <1>2, <3>1, LabelsKeep DEF MemInv, MemTypeOK
  <2>2. CASE g \in DOMAIN grp
    <3>1. PICK r \in Resolutions(grp[g]) : grp' = [grp EXCEPT ![g] = r.row]
      BY <1>4, <2>2 DEF MemResolveGroupAlert
    <3>2. r.row \in {Blocked(grp[g]), [grp[g] EXCEPT !.mode = "whitelist"], grp[g],
                     [grp[g] EXCEPT !.mode = "unset"]}
      BY DEF Resolutions
    <3>3. /\ r.row \in MemRow
          /\ r.row.low = grp[g].low /\ r.row.high = grp[g].high
          /\ r.row.count = grp[g].count /\ r.row.nums = grp[g].nums
      BY <1>1, <2>2, <3>2, BlockedRow DEF MemRow
    <3> HIDE DEF g
    <3>4. \A h \in DOMAIN grp : /\ grp'[h] \in MemRow
                                /\ grp'[h].low = grp[h].low /\ grp'[h].high = grp[h].high
                                /\ grp'[h].count = grp[h].count /\ grp'[h].nums = grp[h].nums
      BY <1>1, <2>2, <3>1, <3>3
    <3>5. DOMAIN grp' = DOMAIN grp  BY <3>1
    <3> QED  BY <1>2, <3>4, <3>5, LabelsKeep DEF MemInv, MemTypeOK
  <2> QED  BY <2>1, <2>2
<1> QED  BY <1>3, <1>4
-----------------------------------------------------------------------------
(* Groups. *)

LEMMA WithForm ==
  ASSUME NEW f, NEW k, NEW v
  PROVE  /\ DOMAIN With(f, k, v) = DOMAIN f \union {k}
         /\ With(f, k, v)[k] = v
         /\ \A x \in DOMAIN f \ {k} : With(f, k, v)[x] = f[x]
BY DEF With

LEMMA LessForm ==
  ASSUME NEW f, NEW S
  PROVE  /\ DOMAIN Less(f, S) = DOMAIN f \ S
         /\ \A x \in DOMAIN f \ S : Less(f, S)[x] = f[x]
BY DEF Less, Restrict

LEMMA UpsertKeeps ==
  ASSUME MemInv, NEW g \in MemGroups, NEW status \in {"y", "n"}, UpsertGroup(g, status)
  PROVE  MemInv'
<1>1. \A h \in DOMAIN grp : grp[h] \in MemRow  BY RowsAreRows
<1>2. UNCHANGED <<arts, past, mBans, mAlerts, feedQ, mDay, twice>>  BY DEF UpsertGroup
<1>3. CASE g \in DOMAIN grp
  <2> DEFINE new == [grp[g] EXCEPT !.status = status]
  <2>1. /\ new \in MemRow /\ new.low = grp[g].low /\ new.high = grp[g].high
        /\ new.count = grp[g].count /\ new.nums = grp[g].nums
    BY <1>1, <1>3 DEF MemRow
  <2>2. grp' = With(grp, g, new) /\ byNum' = byNum  BY <1>3 DEF UpsertGroup
  <2> HIDE DEF new
  <2>3. DOMAIN grp' = DOMAIN grp /\ grp'[g] = new /\ \A h \in DOMAIN grp \ {g} : grp'[h] = grp[h]
    BY <1>3, <2>2, WithForm
  <2>4. \A h \in DOMAIN grp : /\ grp'[h] \in MemRow
                              /\ grp'[h].low = grp[h].low /\ grp'[h].high = grp[h].high
                              /\ grp'[h].count = grp[h].count /\ grp'[h].nums = grp[h].nums
    BY <1>1, <2>1, <2>3
  <2> QED  BY <1>2, <2>2, <2>3, <2>4, LabelsKeep DEF MemInv, MemTypeOK
<1>4. CASE g \notin DOMAIN grp
  <2> DEFINE new == NewGroup(status)
  <2>1. /\ new \in MemRow /\ new.low = 0 /\ new.high = 0 /\ new.count = 0 /\ new.nums = {}
    BY MemAssumption DEF NewGroup, MemRow
  <2>2. grp' = With(grp, g, new) /\ byNum' = With(byNum, g, << >>)  BY <1>4 DEF UpsertGroup
  <2> HIDE DEF new
  <2>3. /\ DOMAIN grp' = DOMAIN grp \union {g} /\ grp'[g] = new
        /\ \A h \in DOMAIN grp : grp'[h] = grp[h]
    BY <1>4, <2>2 DEF With
  <2>4. /\ DOMAIN byNum' = DOMAIN byNum \union {g} /\ DOMAIN byNum'[g] = {} /\ g \notin DOMAIN byNum
        /\ \A h \in DOMAIN byNum : byNum'[h] = byNum[h]
    <3>1. g \notin DOMAIN byNum  BY <1>4 DEF MemInv
    <3>2. DOMAIN byNum' = DOMAIN byNum \union {g} /\ byNum'[g] = << >>  BY <2>2 DEF With
    <3>3. \A h \in DOMAIN byNum : byNum'[h] = byNum[h]  BY <2>2, <3>1 DEF With
    <3> QED  BY <3>1, <3>2, <3>3, EmptyFunction
  <2>5. MemTypeOK'
    <3>1. \A h \in DOMAIN grp' : grp'[h] \in MemRow  BY <1>1, <2>1, <2>3
    <3>2. \A h \in DOMAIN byNum' : \A n \in DOMAIN byNum'[h] :
            byNum'[h][n] \in [msg : MemIds, at : 0..MaxMemDay]
      BY <2>4 DEF MemInv, MemTypeOK
    <3> QED  BY <1>2, <2>3, <3>1, <3>2 DEF MemInv, MemTypeOK, MemRow
  <2>6. \A h \in DOMAIN grp' : grp'[h].nums = DOMAIN byNum'[h] /\ RowSound(grp'[h])
    <3>1. \A h \in DOMAIN grp : grp'[h].nums = DOMAIN byNum'[h] /\ RowSound(grp'[h])
      BY <2>3, <2>4 DEF MemInv
    <3>2. RowSound(new)  BY <2>1, FS_EmptySet DEF RowSound
    <3>3. grp'[g].nums = DOMAIN byNum'[g]  BY <2>1, <2>3, <2>4
    <3> QED  BY <2>3, <3>1, <3>2, <3>3
  <2>7. \A h \in DOMAIN byNum' : \A n \in DOMAIN byNum'[h] : Behind(h, n)'
    BY <1>2, <2>4 DEF MemInv, Behind
  <2>8. \A m \in DOMAIN arts' : \A h \in DOMAIN arts'[m].groups : FoundIn(m, h)'
    BY <1>2, <2>4 DEF MemInv, FoundIn
  <2>9. DOMAIN byNum' = DOMAIN grp'  BY <2>3, <2>4 DEF MemInv
  <2> QED  BY <2>5, <2>6, <2>7, <2>8, <2>9 DEF MemInv
<1> QED  BY <1>3, <1>4

LEMMA DeleteGroupKeeps ==
  ASSUME MemInv, NEW g \in MemGroups, MemDeleteGroup(g)
  PROVE  MemInv'
<1> DEFINE left == [m \in DOMAIN arts |-> [at |-> arts[m].at, groups |-> Less(arts[m].groups, {g})]]
           sole == {m \in DOMAIN arts : DOMAIN arts[m].groups = {g}}
<1>1. arts' = Less(left, sole) /\ grp' = Less(grp, {g}) /\ byNum' = Less(byNum, {g})
  BY DEF MemDeleteGroup
<1>2. UNCHANGED <<past, mBans, mAlerts, feedQ, mDay, twice>>  BY DEF MemDeleteGroup
<1>3. DOMAIN arts' = DOMAIN arts \ sole  BY <1>1, LessForm
<1>4. ASSUME NEW m \in DOMAIN arts \ sole
      PROVE  /\ arts'[m].at = arts[m].at
             /\ DOMAIN arts'[m].groups = DOMAIN arts[m].groups \ {g}
             /\ \A h \in DOMAIN arts[m].groups \ {g} : arts'[m].groups[h] = arts[m].groups[h]
  <2>1. arts'[m] = left[m]
    <3> HIDE DEF sole
    <3>1. m \in DOMAIN left \ sole  OBVIOUS
    <3> HIDE DEF left
    <3> QED  BY <1>1, <3>1 DEF Less, Restrict
  <2>2. arts'[m].at = arts[m].at /\ arts'[m].groups = Less(arts[m].groups, {g})  BY <2>1
  <2> HIDE DEF left, sole
  <2> QED  BY <2>2 DEF Less, Restrict
<1> HIDE DEF left
<1>5. /\ DOMAIN grp' = DOMAIN grp \ {g} /\ \A h \in DOMAIN grp \ {g} : grp'[h] = grp[h]
      /\ DOMAIN byNum' = DOMAIN byNum \ {g} /\ \A h \in DOMAIN byNum \ {g} : byNum'[h] = byNum[h]
  BY <1>1, LessForm
<1>6. MemTypeOK'
  BY <1>2, <1>3, <1>4, <1>5 DEF MemInv, MemTypeOK
<1>7. \A h \in DOMAIN grp' : grp'[h].nums = DOMAIN byNum'[h] /\ RowSound(grp'[h])
  BY <1>5 DEF MemInv, RowSound
<1>8. ASSUME NEW h \in DOMAIN byNum', NEW n \in DOMAIN byNum'[h]
      PROVE  Behind(h, n)'
  <2> DEFINE m == byNum[h][n].msg
  <2>1. h # g /\ h \in DOMAIN byNum /\ byNum'[h] = byNum[h] /\ n \in DOMAIN byNum[h]  BY <1>5
  <2>2. Behind(h, n)  BY <2>1 DEF MemInv
  <2>3. CASE m \in twice  BY <1>2, <2>1, <2>3 DEF Behind
  <2>4. CASE m \in DOMAIN arts /\ h \in DOMAIN arts[m].groups /\ arts[m].groups[h] = n
    <3>1. m \notin sole  BY <2>1, <2>4
    <3>2. m \in DOMAIN arts' /\ h \in DOMAIN arts'[m].groups /\ arts'[m].groups[h] = n
      BY <1>3, <1>4, <2>1, <2>4, <3>1
    <3> QED  BY <2>1, <3>2 DEF Behind
  <2> QED  BY <2>2, <2>3, <2>4 DEF Behind
<1>9. \A m \in DOMAIN arts' : \A h \in DOMAIN arts'[m].groups : FoundIn(m, h)'
  BY <1>3, <1>4, <1>5 DEF MemInv, FoundIn
<1> QED  BY <1>5, <1>6, <1>7, <1>8, <1>9 DEF MemInv

-----------------------------------------------------------------------------
(* Posts. *)

LEMMA ListingsCount ==
  ASSUME NEW header \in Seq(MemGroups), NEW g \in Range(header)
  PROVE  Listings(header, g) \in Nat \ {0} /\ g \in MemGroups
<1> DEFINE at == {i \in DOMAIN header : header[i] = g}
<1>1. PICK i \in DOMAIN header : header[i] = g  BY DEF Range
<1>2. DOMAIN header = 1..Len(header) /\ Len(header) \in Nat  OBVIOUS
<1>3. IsFiniteSet(DOMAIN header)  BY <1>2, FS_Interval
<1>4. IsFiniteSet(at)  BY <1>3, FS_Subset
<1>5. Cardinality(at) \in Nat /\ (Cardinality(at) = 0 <=> at = {})
  BY <1>4, FS_CardinalityType, FS_EmptySet
<1>6. at # {}  BY <1>1
<1>7. g \in MemGroups  BY <1>1
<1> QED  BY <1>5, <1>6, <1>7 DEF Listings

LEMMA NumbersAdded ==
  ASSUME NEW r \in MemRow, RowSound(r), NEW k \in Nat \ {0}, r.high + k <= MaxHigh
  PROVE  /\ WithNumbers(r, k) \in MemRow /\ RowSound(WithNumbers(r, k))
         /\ WithNumbers(r, k).nums = r.nums \union NewNumbers(r, k)
         /\ NewNumbers(r, k) \intersect r.nums = {}
<1> DEFINE new == NewNumbers(r, k)
           w == WithNumbers(r, k)
<1>1. /\ r.low \in 0..MaxHigh /\ r.high \in 0..MaxHigh /\ r.count \in 0..MaxHigh
      /\ r.nums \in SUBSET (1..MaxHigh) /\ IsFiniteSet(r.nums) /\ Cardinality(r.nums) \in Nat
  BY RowFacts
<1>2. /\ w.high = r.high + k /\ w.low = IF r.low = 0 THEN r.high + 1 ELSE r.low
      /\ w.count = r.count + k /\ w.nums = r.nums \union new
      /\ w.status = r.status /\ w.mode = r.mode
      /\ DOMAIN w = DOMAIN r
  BY DEF WithNumbers, MemRow
<1>3. new \intersect r.nums = {}
  BY <1>1, MemAssumption DEF NewNumbers, RowSound
<1>4. IsFiniteSet(new) /\ Cardinality(new) = k
  <2> DEFINE a == r.high + 1
             b == r.high + k
  <2>1. a \in Int /\ b \in Int /\ ~(a > b) /\ b - a + 1 = k
    <3> DEFINE h == r.high
    <3>1. h \in Int /\ k \in Int /\ k >= 1  BY <1>1, MemAssumption
    <3> HIDE DEF h
    <3>2. h + 1 \in Int /\ h + k \in Int /\ ~(h + 1 > h + k) /\ (h + k) - (h + 1) + 1 = k  BY <3>1
    <3> QED  BY <3>2 DEF h
  <2>2. new = a..b  BY DEF NewNumbers
  <2> HIDE DEF a, b, new
  <2> QED  BY <2>1, <2>2, FS_Interval
<1>5. Cardinality(w.nums) = Cardinality(r.nums) + k
  <2> DEFINE old == r.nums
  <2>1. w.nums = old \union new /\ IsFiniteSet(old) /\ Cardinality(old) \in Nat  BY <1>1, <1>2
  <2>2. old \intersect new = {}  BY <1>3
  <2> HIDE DEF old, new, w
  <2>3. Cardinality(old \union new) = Cardinality(old) + k - Cardinality(old \intersect new)
    BY <1>4, <2>1, FS_Union
  <2>4. Cardinality(old \intersect new) = 0  BY <2>2, FS_EmptySet
  <2> DEFINE c == Cardinality(old)
  <2>5. c \in Nat /\ Cardinality(old \union new) = c + k - 0  BY <2>1, <2>3, <2>4
  <2> HIDE DEF c
  <2>6. Cardinality(old \union new) = c + k  BY <2>5
  <2> QED  BY <2>1, <2>6 DEF c, old
<1>6. new \subseteq 1..MaxHigh  BY <1>1, MemAssumption DEF NewNumbers
<1>7. w.nums \in SUBSET (1..MaxHigh)  BY <1>1, <1>2, <1>6
<1>8. Cardinality(w.nums) <= MaxHigh
  <2>1. IsFiniteSet(1..MaxHigh) /\ Cardinality(1..MaxHigh) = MaxHigh
    BY MemAssumption, FS_Interval
  <2> DEFINE N == w.nums
  <2> HIDE DEF w, N
  <2>2. N \in SUBSET (1..MaxHigh)  BY <1>7 DEF N
  <2> QED  BY <2>1, <2>2, FS_Subset DEF N
<1>9. w.count = Cardinality(w.nums) /\ w.count \in 0..MaxHigh
  BY <1>1, <1>2, <1>5, <1>8, MemAssumption DEF RowSound
<1>10. w \in MemRow
  <2>1. w.low \in 0..MaxHigh /\ w.high \in 0..MaxHigh  BY <1>1, <1>2, MemAssumption
  <2> DEFINE hi == w.high  lo == w.low  c == w.count  N == w.nums
  <2>2. w = [r EXCEPT !.high = hi, !.low = lo, !.count = c, !.nums = N]
    BY DEF WithNumbers, MemRow
  <2>3. hi \in 0..MaxHigh /\ lo \in 0..MaxHigh /\ c \in 0..MaxHigh /\ N \in SUBSET (1..MaxHigh)
    BY <1>7, <1>9, <2>1
  <2> HIDE DEF hi, lo, c, N, w
  <2> QED  BY <2>2, <2>3 DEF MemRow
<1>11. RowSound(w)
  <2>1. w.low <= w.high /\ w.low # 0  BY <1>1, <1>2 DEF RowSound
  <2>2. \A n \in r.nums : w.low <= n /\ n <= w.high
    BY <1>1, <1>2, MemAssumption DEF RowSound
  <2>3. \A n \in new : w.low <= n /\ n <= w.high
    BY <1>1, <1>2, MemAssumption DEF RowSound, NewNumbers
  <2> HIDE DEF w, new
  <2> QED  BY <1>2, <1>9, <2>1, <2>2, <2>3 DEF RowSound
<1> QED  BY <1>2, <1>3, <1>10, <1>11
LEMMA HeaderUsed ==
  ASSUME MemInv, NEW m \in MemIds, NEW header \in Headers[m], NEW g \in Used(header)
  PROVE  g \in DOMAIN grp /\ Listings(header, g) \in Nat \ {0}
<1>1. header \in Seq(MemGroups)  BY MemAssumption
<1>2. g \in Range(header) /\ g \in DOMAIN grp  BY DEF Used
<1> QED  BY <1>1, <1>2, ListingsCount

LEMMA MemPostKeeps ==
  ASSUME MemInv, NEW m \in MemIds, NEW header \in Headers[m], MemPost(m, header)
  PROVE  MemInv'
<1> DEFINE used == Used(header)
           k(g) == Listings(header, g)
           new(g) == NewNumbers(grp[g], k(g))
           here == [msg |-> m, at |-> mDay]
<1>1. /\ m \notin DOMAIN past /\ used # {}
      /\ \A g \in used : grp[g].high + k(g) <= MaxHigh
      /\ past' = With(past, m, mDay)
      /\ twice' = IF \E g \in used : k(g) > 1 THEN twice \union {m} ELSE twice
      /\ UNCHANGED <<mBans, mAlerts, feedQ, mDay>>
  BY DEF MemPost
<1>2. \A g \in used : g \in DOMAIN grp /\ k(g) \in Nat \ {0}
  BY HeaderUsed
<1>3. /\ DOMAIN grp' = DOMAIN grp /\ DOMAIN byNum' = DOMAIN byNum
      /\ \A g \in used : grp'[g] = WithNumbers(grp[g], k(g))
      /\ \A g \in DOMAIN grp \ used : grp'[g] = grp[g]
      /\ \A g \in DOMAIN byNum \ used : byNum'[g] = byNum[g]
  BY <1>2 DEF MemPost
<1>4. ASSUME NEW g \in used
      PROVE  /\ grp'[g] \in MemRow /\ RowSound(grp'[g])
             /\ grp'[g].nums = grp[g].nums \union new(g)
             /\ new(g) \intersect grp[g].nums = {}
             /\ g \in DOMAIN byNum /\ grp[g].nums = DOMAIN byNum[g]
             /\ grp[g].high + k(g) \in new(g)
             /\ k(g) = 1 => \A n \in new(g) : n = grp[g].high + k(g)
  <2> DEFINE c == k(g)
  <2>1. grp[g] \in MemRow /\ RowSound(grp[g]) /\ grp[g].high \in 0..MaxHigh
    BY <1>2, RowsAreRows, RowFacts DEF MemInv
  <2>2. c \in Nat \ {0} /\ grp[g].high + c <= MaxHigh /\ grp'[g] = WithNumbers(grp[g], c)
    BY <1>1, <1>2, <1>3
  <2>3. g \in DOMAIN byNum /\ grp[g].nums = DOMAIN byNum[g]  BY <1>2 DEF MemInv
  <2> HIDE DEF c
  <2>4. /\ grp'[g] \in MemRow /\ RowSound(grp'[g])
        /\ grp'[g].nums = grp[g].nums \union NewNumbers(grp[g], c)
        /\ NewNumbers(grp[g], c) \intersect grp[g].nums = {}
    BY <2>1, <2>2, NumbersAdded
  <2>5. grp[g].high + c \in NewNumbers(grp[g], c)
    BY <2>1, <2>2, MemAssumption DEF NewNumbers
  <2>6. c = 1 => \A n \in NewNumbers(grp[g], c) : n = grp[g].high + c
    BY <2>1, <2>2, MemAssumption DEF NewNumbers
  <2> QED  BY <2>3, <2>4, <2>5, <2>6 DEF c
<1>5. ASSUME NEW g \in used
      PROVE  /\ DOMAIN byNum'[g] = DOMAIN byNum[g] \union new(g)
             /\ \A n \in DOMAIN byNum[g] : byNum'[g][n] = byNum[g][n]
             /\ \A n \in new(g) : byNum'[g][n] = here
  <2>1. g \in DOMAIN byNum /\ new(g) \intersect DOMAIN byNum[g] = {}  BY <1>4
  <2>2. byNum'[g] = [n \in DOMAIN byNum[g] \union new(g) |->
                       IF n \in DOMAIN byNum[g] THEN byNum[g][n] ELSE here]
    BY <2>1 DEF MemPost
  <2> HIDE DEF new, here, used
  <2> QED  BY <2>1, <2>2
<1>6. /\ DOMAIN arts' = DOMAIN arts \union {m} /\ m \notin DOMAIN arts
      /\ \A x \in DOMAIN arts : arts'[x] = arts[x]
      /\ arts'[m].at = mDay
      /\ DOMAIN arts'[m].groups = used
      /\ \A g \in used : arts'[m].groups[g] = grp[g].high + k(g)
  <2> DEFINE art == [at |-> mDay, groups |-> [g \in used |-> grp[g].high + k(g)]]
  <2>1. arts' = With(arts, m, art)  BY DEF MemPost
  <2>2. m \notin DOMAIN arts  BY <1>1 DEF MemInv, MemTypeOK
  <2>3. /\ art.at = mDay /\ DOMAIN art.groups = used
        /\ \A g \in used : art.groups[g] = grp[g].high + k(g)
    OBVIOUS
  <2> HIDE DEF art, used, k
  <2> QED  BY <2>1, <2>2, <2>3 DEF With
<1> HIDE DEF used, k, new
<1>7. mDay \in 0..MaxMemDay /\ here \in [msg : MemIds, at : 0..MaxMemDay]
  BY DEF MemInv, MemTypeOK
<1>8. /\ DOMAIN past' = DOMAIN past \union {m} /\ DOMAIN past \subseteq MemIds
      /\ \A x \in DOMAIN past' : past'[x] \in 0..MaxMemDay
  BY <1>1, <1>7 DEF With, MemInv, MemTypeOK
<1>9. twice \subseteq twice' /\ twice' \subseteq MemIds
  BY <1>1 DEF MemInv, MemTypeOK
<1> HIDE DEF here
<1>10. MemTypeOK'
  <2>1. \A g \in DOMAIN grp' : grp'[g] \in MemRow  BY <1>3, <1>4, RowsAreRows
  <2>2. \A g \in DOMAIN byNum' : \A n \in DOMAIN byNum'[g] :
          byNum'[g][n] \in [msg : MemIds, at : 0..MaxMemDay]
    BY <1>3, <1>4, <1>5, <1>7 DEF MemInv, MemTypeOK
  <2>3. \A x \in DOMAIN arts' : arts'[x].at \in 0..MaxMemDay
    BY <1>6, <1>7 DEF MemInv, MemTypeOK
  <2>4. DOMAIN arts' \subseteq DOMAIN past'  BY <1>6, <1>8 DEF MemInv, MemTypeOK
  <2> QED  BY <1>1, <1>3, <1>8, <1>9, <2>1, <2>2, <2>3, <2>4 DEF MemInv, MemTypeOK, MemRow
<1>11. \A g \in DOMAIN grp' : grp'[g].nums = DOMAIN byNum'[g] /\ RowSound(grp'[g])
  <2>1. ASSUME NEW g \in used
        PROVE  grp'[g].nums = DOMAIN byNum'[g] /\ RowSound(grp'[g])
    BY <1>4, <1>5
  <2>2. ASSUME NEW g \in DOMAIN grp \ used
        PROVE  grp'[g].nums = DOMAIN byNum'[g] /\ RowSound(grp'[g])
    BY <1>3 DEF MemInv
  <2> QED  BY <1>3, <2>1, <2>2
<1>12. ASSUME NEW g \in DOMAIN byNum', NEW n \in DOMAIN byNum'[g]
       PROVE  Behind(g, n)'
  <2>1. CASE n \in DOMAIN byNum[g]
    <3>1. byNum'[g][n] = byNum[g][n] /\ Behind(g, n)  BY <1>3, <1>5, <2>1 DEF MemInv
    <3> QED  BY <1>6, <1>9, <3>1 DEF Behind
  <2>2. CASE n \notin DOMAIN byNum[g]
    <3>1. g \in used /\ n \in new(g)  BY <1>3, <1>5, <2>2
    <3>2. byNum'[g][n].msg = m  BY <1>5, <3>1 DEF here
    <3>3. CASE k(g) = 1
      <4>1. n = grp[g].high + k(g)  BY <1>4, <3>1, <3>3
      <4> QED  BY <1>6, <3>1, <3>2, <4>1 DEF Behind
    <3>4. CASE k(g) # 1
      <4>1. m \in twice'  BY <1>1, <1>2, <3>1, <3>4
      <4> QED  BY <3>2, <4>1 DEF Behind
    <3> QED  BY <3>3, <3>4
  <2> QED  BY <2>1, <2>2
<1>13. ASSUME NEW x \in DOMAIN arts', NEW g \in DOMAIN arts'[x].groups
       PROVE  FoundIn(x, g)'
  <2>1. CASE x = m
    <3>1. g \in used /\ arts'[m].groups[g] = grp[g].high + k(g)  BY <1>6, <2>1
    <3>2. g \in DOMAIN byNum' /\ grp[g].high + k(g) \in DOMAIN byNum'[g]
          /\ byNum'[g][grp[g].high + k(g)] = here
      BY <1>3, <1>4, <1>5, <3>1
    <3>3. here = [msg |-> x, at |-> arts'[x].at]  BY <1>6, <2>1 DEF here
    <3> QED  BY <2>1, <3>1, <3>2, <3>3 DEF FoundIn
  <2>2. CASE x # m
    <3>1. x \in DOMAIN arts /\ arts'[x] = arts[x] /\ FoundIn(x, g)  BY <1>6, <2>2 DEF MemInv
    <3>2. g \in DOMAIN byNum' /\ arts[x].groups[g] \in DOMAIN byNum'[g]
          /\ byNum'[g][arts[x].groups[g]] = byNum[g][arts[x].groups[g]]
      BY <1>3, <1>5, <3>1 DEF FoundIn
    <3> QED  BY <3>1, <3>2 DEF FoundIn
  <2> QED  BY <2>1, <2>2
<1>14. DOMAIN byNum' = DOMAIN grp'  BY <1>3 DEF MemInv
<1> QED  BY <1>10, <1>11, <1>12, <1>13, <1>14 DEF MemInv

-----------------------------------------------------------------------------
(* Deletions. *)

LEMMA GreatestAbove ==
  ASSUME NEW K \in Nat, NEW S \in SUBSET (1..K), S # {}
  PROVE  Max(S) \in S /\ \A x \in S : x <= Max(S)
<1> DEFINE T == {x \in 0..K : K - x \in S}
<1>1. PICK s \in S : TRUE  OBVIOUS
<1>2. s \in 1..K /\ K - (K - s) = s /\ K - s \in 0..K  BY <1>1
<1>3. T \in SUBSET Nat /\ T # {}
  <2>1. K - s \in T  BY <1>2
  <2>2. T \subseteq 0..K  OBVIOUS
  <2> HIDE DEF T
  <2> QED  BY <2>1, <2>2
<1>4. PICK t \in T : \A x \in T : t <= x
  <2> HIDE DEF T
  <2> QED  BY <1>3, LeastOfNumbers
<1>5. K - t \in S /\ t \in 0..K  BY <1>4
<1>6. ASSUME NEW x \in S PROVE x <= K - t
  <2>1. x \in 1..K /\ K - (K - x) = x /\ K - x \in 0..K  BY <1>6
  <2>2. K - x \in T  BY <2>1
  <2>3. t <= K - x  BY <1>4, <2>2
  <2> QED  BY <1>5, <2>1, <2>3
<1> DEFINE best == K - t
<1>7. best \in S /\ \A x \in S : best >= x /\ x \in Nat  BY <1>5, <1>6
<1>8. Max(S) \in S /\ \A x \in S : Max(S) >= x
  <2> HIDE DEF best
  <2> QED  BY <1>7 DEF Max
<1> QED  BY <1>7, <1>8

LEMMA NumbersTaken ==
  ASSUME NEW r \in MemRow, RowSound(r), NEW N \in SUBSET r.nums
  PROVE  /\ LessNums(r, N, Cardinality(N)) \in MemRow
         /\ RowSound(LessNums(r, N, Cardinality(N)))
         /\ LessNums(r, N, Cardinality(N)).nums = r.nums \ N
<1> DEFINE k == Cardinality(N)
           left == r.nums \ N
           w == LessNums(r, N, k)
           lo == IF left = {} THEN r.high ELSE Min(left)
           c == IF r.count > k THEN r.count - k ELSE 0
<1>1. /\ r.low \in 0..MaxHigh /\ r.high \in 0..MaxHigh /\ r.count \in 0..MaxHigh
      /\ r.nums \in SUBSET (1..MaxHigh) /\ IsFiniteSet(r.nums) /\ Cardinality(r.nums) \in Nat
  BY RowFacts
<1>2. IsFiniteSet(N) /\ k \in Nat /\ (k = 0 <=> N = {})
  BY <1>1, FS_Subset, FS_CardinalityType, FS_EmptySet
<1>3. CASE k = 0
  <2>1. w = r /\ N = {}  BY <1>2, <1>3 DEF LessNums
  <2> QED  BY <2>1
<1>4. CASE k # 0
  <2>1. w = [r EXCEPT !.nums = left, !.count = c, !.low = lo]  BY <1>4 DEF LessNums, MemRow
  <2>2. IsFiniteSet(left) /\ Cardinality(left) \in Nat
    BY <1>1, FS_Difference, FS_CardinalityType
  <2>3. c = Cardinality(left) /\ c \in 0..MaxHigh
    <3> DEFINE all == Cardinality(r.nums)
               rest == Cardinality(left)
    <3>1. r.nums \intersect N = N  OBVIOUS
    <3>2. rest = all - k  BY <1>1, <3>1, FS_Difference
    <3>3. r.count = all /\ all \in Nat /\ rest \in Nat /\ all \in 0..MaxHigh  BY <1>1, <2>2 DEF RowSound
    <3> HIDE DEF all, rest, k
    <3>4. c = rest  BY <1>2, <3>2, <3>3
    <3>5. rest \in 0..MaxHigh  BY <1>2, <3>2, <3>3, MemAssumption
    <3> QED  BY <3>4, <3>5 DEF rest
  <2>4. left \in SUBSET (1..MaxHigh) /\ left \in SUBSET Nat  BY <1>1
  <2>5. left # {} => lo \in left /\ \A n \in left : lo <= n  BY <2>4, LeastOfNumbers
  <2>6. left = {} => lo = r.high  OBVIOUS
  <2>7. \A n \in left : n <= r.high  BY DEF RowSound
  <2> HIDE DEF left, lo, c, w
  <2>8. w.nums = left /\ w.count = c /\ w.low = lo /\ w.high = r.high  BY <2>1 DEF MemRow
  <2>9. lo \in 0..MaxHigh /\ lo <= r.high /\ (lo = 0 => left = {} /\ r.high = 0)
    <3>1. CASE left = {}  BY <1>1, <2>6, <3>1, MemAssumption
    <3>2. CASE left # {}
      <4>1. lo \in 1..MaxHigh /\ lo <= r.high  BY <2>4, <2>5, <2>7, <3>2
      <4> QED  BY <4>1, MemAssumption
    <3> QED  BY <3>1, <3>2
  <2>10. w \in MemRow  BY <2>1, <2>3, <2>4, <2>9 DEF MemRow
  <2>11. RowSound(w)  BY <2>3, <2>5, <2>7, <2>8, <2>9 DEF RowSound
  <2> QED  BY <2>8, <2>10, <2>11 DEF left, w
<1> QED  BY <1>3, <1>4

\* An article has one number in a group, and no other article has it.
LEMMA OneNumberEach ==
  ASSUME MemInv, NEW S \in SUBSET DOMAIN arts, NEW g \in DOMAIN grp
  PROVE  /\ NumbersOf(S, g) \subseteq grp[g].nums
         /\ Cardinality(InGroup(S, g)) = Cardinality(NumbersOf(S, g))
<1> DEFINE A == InGroup(S, g)
           N == NumbersOf(S, g)
           f == [m \in A |-> arts[m].groups[g]]
<1>1. \A m \in A : m \in DOMAIN arts /\ g \in DOMAIN arts[m].groups  BY DEF InGroup
<1>2. \A m \in A : arts[m].groups[g] \in DOMAIN byNum[g] /\ byNum[g][arts[m].groups[g]].msg = m
  <2> SUFFICES ASSUME NEW m \in A
               PROVE  arts[m].groups[g] \in DOMAIN byNum[g] /\ byNum[g][arts[m].groups[g]].msg = m
    OBVIOUS
  <2>1. FoundIn(m, g)  BY <1>1 DEF MemInv
  <2> QED  BY <2>1 DEF FoundIn
<1>3. N \subseteq grp[g].nums  BY <1>2 DEF NumbersOf, MemInv
<1>4. f \in [A -> N]  BY DEF NumbersOf
<1>5. \A x, y \in A : f[x] = f[y] => x = y  BY <1>2
<1>6. \A n \in N : \E m \in A : f[m] = n  BY DEF NumbersOf
<1>7. IsFiniteSet(N)  BY <1>3, RowsAreRows, RowFacts, FS_Subset
<1> HIDE DEF A, N, f
<1>8. f \in Injection(A, N) /\ f \in Surjection(A, N)
  BY <1>4, <1>5, <1>6 DEF Injection, Surjection, IsInjective
<1>9. Cardinality(A) = Cardinality(N)  BY <1>7, <1>8, FS_Injection
<1> QED  BY <1>3, <1>9 DEF A, N

LEMMA MemDeleteKeeps ==
  ASSUME MemInv, NEW S \in SUBSET DOMAIN arts, NEW before, DeleteArticles(S, before),
         \A g \in DOMAIN grp : /\ before[g] \in MemRow
                               /\ before[g].low = grp[g].low /\ before[g].high = grp[g].high
                               /\ before[g].count = grp[g].count /\ before[g].nums = grp[g].nums,
         DOMAIN past \subseteq DOMAIN past', DOMAIN past' \subseteq MemIds,
         \A m \in DOMAIN past' : past'[m] \in 0..MaxMemDay,
         UNCHANGED <<mBans, mDay, twice>>
  PROVE  MemInv'
<1> DEFINE N(g) == NumbersOf(S, g)
<1>1. /\ DOMAIN grp' = DOMAIN grp /\ DOMAIN byNum' = DOMAIN byNum /\ DOMAIN grp = DOMAIN byNum
      /\ DOMAIN arts' = DOMAIN arts \ S
      /\ \A m \in DOMAIN arts' : arts'[m] = arts[m]
      /\ \A g \in DOMAIN byNum : /\ DOMAIN byNum'[g] = DOMAIN byNum[g] \ N(g)
                                 /\ \A n \in DOMAIN byNum'[g] : byNum'[g][n] = byNum[g][n]
      /\ feedQ' = feedQ \ S
  <2>1. /\ DOMAIN grp' = DOMAIN grp /\ DOMAIN byNum' = DOMAIN byNum
        /\ \A g \in DOMAIN byNum : byNum'[g] = Less(byNum[g], N(g))
        /\ arts' = Less(arts, S) /\ feedQ' = feedQ \ S
    BY DEF DeleteArticles
  <2> HIDE DEF N
  <2>2. \A g \in DOMAIN byNum : /\ DOMAIN byNum'[g] = DOMAIN byNum[g] \ N(g)
                                /\ \A n \in DOMAIN byNum'[g] : byNum'[g][n] = byNum[g][n]
    BY <2>1 DEF Less, Restrict
  <2>3. DOMAIN arts' = DOMAIN arts \ S /\ \A m \in DOMAIN arts' : arts'[m] = arts[m]
    BY <2>1 DEF Less, Restrict
  <2> QED  BY <2>1, <2>2, <2>3 DEF MemInv
<1>2. ASSUME NEW g \in DOMAIN grp
      PROVE  /\ grp'[g] \in MemRow /\ RowSound(grp'[g]) /\ grp'[g].nums = DOMAIN byNum'[g]
  <2>1. RowSound(before[g]) /\ before[g] \in MemRow /\ before[g].nums = DOMAIN byNum[g]
    BY DEF MemInv, RowSound
  <2>2. grp'[g] = LessNums(before[g], N(g), Cardinality(N(g)))
    BY OneNumberEach DEF DeleteArticles
  <2>3. N(g) \subseteq before[g].nums  BY OneNumberEach
  <2> DEFINE b == before[g]  M == N(g)
  <2> HIDE DEF b, M, N
  <2>4. b \in MemRow /\ RowSound(b) /\ M \in SUBSET b.nums /\ grp'[g] = LessNums(b, M, Cardinality(M))
    BY <2>1, <2>2, <2>3 DEF b, M
  <2>5. grp'[g] \in MemRow /\ RowSound(grp'[g]) /\ grp'[g].nums = b.nums \ M
    BY <2>4, NumbersTaken
  <2> QED  BY <1>1, <2>1, <2>5 DEF b, M
<1>3. MemTypeOK'
  <2>1. \A g \in DOMAIN grp' : grp'[g] \in MemRow  BY <1>1, <1>2
  <2> QED  BY <1>1, <2>1 DEF MemInv, MemTypeOK, MemRow
<1>4. ASSUME NEW g \in DOMAIN byNum', NEW n \in DOMAIN byNum'[g]
      PROVE  Behind(g, n)'
  <2> DEFINE m == byNum[g][n].msg
  <2>1. byNum'[g][n] = byNum[g][n] /\ n \in DOMAIN byNum[g] /\ n \notin N(g)  BY <1>1
  <2>2. Behind(g, n)  BY <1>1, <2>1 DEF MemInv
  <2>3. CASE m \in twice  BY <2>1, <2>3 DEF Behind
  <2>4. CASE m \in DOMAIN arts /\ g \in DOMAIN arts[m].groups /\ arts[m].groups[g] = n
    <3>1. m \notin S  BY <2>1, <2>4 DEF NumbersOf, InGroup
    <3> QED  BY <1>1, <2>1, <2>4, <3>1 DEF Behind
  <2> QED  BY <2>2, <2>3, <2>4 DEF Behind
<1>5. ASSUME NEW m \in DOMAIN arts', NEW g \in DOMAIN arts'[m].groups
      PROVE  FoundIn(m, g)'
  <2>1. m \in DOMAIN arts \ S /\ arts'[m] = arts[m] /\ FoundIn(m, g)  BY <1>1 DEF MemInv
  <2>2. arts[m].groups[g] \notin N(g)
    <3> SUFFICES ASSUME NEW x \in InGroup(S, g), arts[x].groups[g] = arts[m].groups[g] PROVE FALSE
      BY DEF NumbersOf
    <3>1. x \in S /\ FoundIn(x, g)  BY DEF InGroup, MemInv
    <3> QED  BY <2>1, <3>1 DEF FoundIn
  <2> QED  BY <1>1, <2>1, <2>2 DEF FoundIn
<1> QED  BY <1>1, <1>2, <1>3, <1>4, <1>5 DEF MemInv

LEMMA CancelKeeps ==
  ASSUME MemInv, NEW m \in MemIds, MemCancelMessageID(m)
  PROVE  MemInv'
<1> DEFINE S == {m} \intersect DOMAIN arts
<1>1. DeleteArticles(S, grp) /\ past' = With(past, m, mDay) /\ UNCHANGED <<mBans, mDay, twice>>
  BY DEF MemCancelMessageID
<1>2. /\ DOMAIN past \subseteq DOMAIN past' /\ DOMAIN past' \subseteq MemIds
      /\ \A x \in DOMAIN past' : past'[x] \in 0..MaxMemDay
  BY <1>1 DEF With, MemInv, MemTypeOK
<1>3. S \in SUBSET DOMAIN arts  OBVIOUS
<1> HIDE DEF S
<1> QED  BY <1>1, <1>2, <1>3, RowsAreRows, MemDeleteKeeps

LEMMA PurgeKeeps ==
  ASSUME MemInv, MemPurge
  PROVE  MemInv'
<1> DEFINE alerted == {a.group : a \in {x \in Range(mAlerts) : x.status = "blocked"}}
           names == alerted \union mBans \union {g \in DOMAIN grp : grp[g].mode = "blocked"}
           doomed == {m \in DOMAIN arts : DOMAIN arts[m].groups \intersect names # {}}
           before == [g \in DOMAIN grp |-> IF g \in alerted THEN Blocked(grp[g]) ELSE grp[g]]
<1>1. DeleteArticles(doomed, before) /\ UNCHANGED <<past, mBans, mDay, twice>>
  BY DEF MemPurge
<1>2. doomed \in SUBSET DOMAIN arts  OBVIOUS
<1>3. \A g \in DOMAIN grp : before[g] \in {Blocked(grp[g]), grp[g]}  OBVIOUS
<1> HIDE DEF doomed, before
<1>4. \A g \in DOMAIN grp : /\ before[g] \in MemRow
                            /\ before[g].low = grp[g].low /\ before[g].high = grp[g].high
                            /\ before[g].count = grp[g].count /\ before[g].nums = grp[g].nums
  BY <1>3, RowsAreRows, BlockedRow
<1> QED  BY <1>1, <1>2, <1>4, MemDeleteKeeps DEF MemInv, MemTypeOK

-----------------------------------------------------------------------------
(* Expiry. *)

LEMMA NumbersKept ==
  ASSUME NEW r \in MemRow, NEW N \in SUBSET r.nums
  PROVE  Kept(r, N) \in MemRow /\ RowSound(Kept(r, N)) /\ Kept(r, N).nums = N
<1> DEFINE w == Kept(r, N)
           lo == IF N = {} THEN 0 ELSE Min(N)
           hi == IF N = {} THEN 0 ELSE Max(N)
           c == Cardinality(N)
<1>1. N \in SUBSET (1..MaxHigh) /\ N \in SUBSET Nat /\ MaxHigh \in Nat  BY RowFacts, MemAssumption
<1>2. c \in 0..MaxHigh
  <2>1. IsFiniteSet(1..MaxHigh) /\ Cardinality(1..MaxHigh) = MaxHigh  BY <1>1, FS_Interval
  <2>2. IsFiniteSet(N) /\ c <= MaxHigh  BY <1>1, <2>1, FS_Subset
  <2>3. c \in Nat  BY <2>2, FS_CardinalityType
  <2> HIDE DEF c
  <2> QED  BY <1>1, <2>2, <2>3
<1>3. N # {} => /\ lo \in N /\ hi \in N
                /\ \A n \in N : lo <= n /\ n <= hi
  BY <1>1, LeastOfNumbers, GreatestAbove
<1>4. N = {} => lo = 0 /\ hi = 0  OBVIOUS
<1>5. w = [r EXCEPT !.nums = N, !.count = c, !.low = lo, !.high = hi]  BY DEF Kept
<1> HIDE DEF lo, hi, c, w
<1>6. w.nums = N /\ w.count = c /\ w.low = lo /\ w.high = hi  BY <1>5 DEF MemRow
<1>7. lo \in 0..MaxHigh /\ hi \in 0..MaxHigh /\ lo <= hi /\ (lo = 0 => N = {} /\ hi = 0)
  <2>1. CASE N = {}  BY <1>1, <1>4, <2>1
  <2>2. CASE N # {}
    <3>1. lo \in 1..MaxHigh /\ hi \in 1..MaxHigh /\ lo <= hi  BY <1>1, <1>3, <2>2
    <3> QED  BY <1>1, <3>1
  <2> QED  BY <2>1, <2>2
<1>8. w \in MemRow  BY <1>1, <1>2, <1>5, <1>7 DEF MemRow
<1>9. RowSound(w)  BY <1>3, <1>6, <1>7 DEF RowSound, c
<1> QED  BY <1>6, <1>8, <1>9 DEF w

LEMMA ExpireKeeps ==
  ASSUME MemInv, MemExpire
  PROVE  MemInv'
<1> DEFINE limited == {g \in DOMAIN grp : grp[g].mode = "auto"}
           stale(g) == {n \in DOMAIN byNum[g] : g \in limited /\ byNum[g][n].at + FloodKeep < mDay}
           out(m) == {g \in limited : arts[m].at + FloodKeep < mDay}
           left == [m \in DOMAIN arts |-> [at |-> arts[m].at, groups |-> Less(arts[m].groups, out(m))]]
           gone == {m \in DOMAIN left : DOMAIN left[m].groups = {}}
           arts1 == Less(left, gone)
           old == {m \in DOMAIN past \ DOMAIN arts1 : past[m] + HistoryKeep < mDay}
<1>1. /\ grp' = [g \in DOMAIN grp |->
                   IF g \in limited THEN Kept(grp[g], grp[g].nums \ stale(g)) ELSE grp[g]]
      /\ byNum' = [g \in DOMAIN byNum |-> Less(byNum[g], stale(g))]
      /\ arts' = arts1 /\ past' = Less(past, old)
      /\ UNCHANGED <<mBans, mAlerts, feedQ, mDay, twice>>
  BY DEF MemExpire
<1>2. ASSUME NEW m \in DOMAIN arts
      PROVE  /\ left[m].at = arts[m].at
             /\ DOMAIN left[m].groups = DOMAIN arts[m].groups \ out(m)
             /\ \A g \in DOMAIN left[m].groups : left[m].groups[g] = arts[m].groups[g]
  <2>1. left[m].at = arts[m].at /\ left[m].groups = Less(arts[m].groups, out(m))  OBVIOUS
  <2> HIDE DEF left, out
  <2> QED  BY <2>1 DEF Less, Restrict
<1>3. DOMAIN left = DOMAIN arts  OBVIOUS
<1>4. DOMAIN arts' = DOMAIN arts \ gone /\ \A m \in DOMAIN arts' : arts'[m] = left[m]
  <2> HIDE DEF left, gone, old, stale, limited
  <2> QED  BY <1>1, <1>3 DEF Less, Restrict
<1>5. DOMAIN past' \subseteq DOMAIN past /\ DOMAIN arts' \subseteq DOMAIN past'
      /\ \A m \in DOMAIN past' : past'[m] = past[m]
  <2>1. DOMAIN past' = DOMAIN past \ old /\ \A m \in DOMAIN past' : past'[m] = past[m]
    <3> HIDE DEF old, arts1, stale, limited
    <3> QED  BY <1>1 DEF Less, Restrict
  <2>2. old \intersect DOMAIN arts' = {}
    <3> HIDE DEF arts1, stale, limited
    <3> QED  BY <1>1
  <2>3. DOMAIN arts' \subseteq DOMAIN past  BY <1>4 DEF MemInv, MemTypeOK
  <2> HIDE DEF old, arts1, stale, limited
  <2> QED  BY <2>1, <2>2, <2>3
<1>6. /\ DOMAIN grp' = DOMAIN grp /\ DOMAIN byNum' = DOMAIN byNum /\ DOMAIN byNum = DOMAIN grp
      /\ \A g \in DOMAIN byNum : /\ DOMAIN byNum'[g] = DOMAIN byNum[g] \ stale(g)
                                 /\ \A n \in DOMAIN byNum'[g] : byNum'[g][n] = byNum[g][n]
  <2>1. /\ DOMAIN grp' = DOMAIN grp /\ DOMAIN byNum' = DOMAIN byNum
        /\ \A g \in DOMAIN byNum : byNum'[g] = Less(byNum[g], stale(g))
    BY <1>1
  <2> HIDE DEF stale, arts1, old, limited
  <2>2. DOMAIN byNum = DOMAIN grp  BY DEF MemInv
  <2>3. \A g \in DOMAIN byNum : /\ DOMAIN byNum'[g] = DOMAIN byNum[g] \ stale(g)
                                /\ \A n \in DOMAIN byNum'[g] : byNum'[g][n] = byNum[g][n]
    BY <2>1 DEF Less, Restrict
  <2> QED  BY <2>1, <2>2, <2>3
<1>7. ASSUME NEW g \in DOMAIN grp
      PROVE  grp'[g] \in MemRow /\ RowSound(grp'[g]) /\ grp'[g].nums = DOMAIN byNum'[g]
  <2>1. grp[g] \in MemRow /\ RowSound(grp[g]) /\ grp[g].nums = DOMAIN byNum[g]
    BY RowsAreRows DEF MemInv
  <2>2. CASE g \in limited
    <3> DEFINE N == grp[g].nums \ stale(g)
    <3>1. grp'[g] = Kept(grp[g], N) /\ N \in SUBSET grp[g].nums  BY <1>1, <2>2
    <3>2. N = DOMAIN byNum'[g]  BY <1>6, <2>1
    <3> HIDE DEF N, stale, limited, arts1, old
    <3> QED  BY <2>1, <3>1, <3>2, NumbersKept
  <2>3. CASE g \notin limited
    <3>1. grp'[g] = grp[g] /\ stale(g) = {}  BY <1>1, <2>3
    <3> HIDE DEF stale, limited
    <3> QED  BY <1>6, <2>1, <3>1
  <2> QED  BY <2>2, <2>3
<1>8. \A m \in DOMAIN arts : \A g \in DOMAIN arts[m].groups :
        g \in out(m) <=> arts[m].groups[g] \in stale(g)
  <2> SUFFICES ASSUME NEW m \in DOMAIN arts, NEW g \in DOMAIN arts[m].groups
               PROVE  g \in out(m) <=> arts[m].groups[g] \in stale(g)
    OBVIOUS
  <2>1. FoundIn(m, g)  BY DEF MemInv
  <2>2. arts[m].groups[g] \in DOMAIN byNum[g] /\ byNum[g][arts[m].groups[g]].at = arts[m].at
    BY <2>1 DEF FoundIn
  <2> QED  BY <2>2
<1>9. UNCHANGED <<mBans, feedQ, mDay, twice>>  BY <1>1
<1> HIDE DEF limited, stale, out, arts1, old, left
<1>10. MemTypeOK'
  <2>1. \A g \in DOMAIN grp' : grp'[g] \in MemRow  BY <1>6, <1>7
  <2>2. \A m \in DOMAIN arts' : arts'[m].at \in 0..MaxMemDay
    BY <1>2, <1>4 DEF MemInv, MemTypeOK
  <2>3. \A g \in DOMAIN byNum' : \A n \in DOMAIN byNum'[g] :
          byNum'[g][n] \in [msg : MemIds, at : 0..MaxMemDay]
    BY <1>6 DEF MemInv, MemTypeOK
  <2> QED  BY <1>5, <1>6, <1>9, <2>1, <2>2, <2>3 DEF MemInv, MemTypeOK, MemRow
<1>11. ASSUME NEW g \in DOMAIN byNum', NEW n \in DOMAIN byNum'[g]
       PROVE  Behind(g, n)'
  <2> DEFINE m == byNum[g][n].msg
  <2>1. byNum'[g][n] = byNum[g][n] /\ n \in DOMAIN byNum[g] /\ n \notin stale(g) /\ g \in DOMAIN byNum
    BY <1>6
  <2>2. Behind(g, n)  BY <2>1 DEF MemInv
  <2>3. CASE m \in twice  BY <1>9, <2>1, <2>3 DEF Behind
  <2>4. CASE m \in DOMAIN arts /\ g \in DOMAIN arts[m].groups /\ arts[m].groups[g] = n
    <3>1. g \notin out(m)  BY <1>8, <2>1, <2>4
    <3>2. g \in DOMAIN left[m].groups /\ left[m].groups[g] = n  BY <1>2, <2>4, <3>1
    <3>3. m \in DOMAIN arts' /\ arts'[m] = left[m]  BY <1>4, <2>4, <3>2
    <3> QED  BY <2>1, <3>2, <3>3 DEF Behind
  <2> QED  BY <2>2, <2>3, <2>4 DEF Behind
<1>12. ASSUME NEW m \in DOMAIN arts', NEW g \in DOMAIN arts'[m].groups
       PROVE  FoundIn(m, g)'
  <2>1. m \in DOMAIN arts /\ arts'[m] = left[m]  BY <1>4
  <2>2. /\ g \in DOMAIN arts[m].groups /\ g \notin out(m)
        /\ arts'[m].groups[g] = arts[m].groups[g] /\ arts'[m].at = arts[m].at
    BY <1>2, <2>1
  <2>3. FoundIn(m, g) /\ arts[m].groups[g] \notin stale(g)  BY <1>8, <2>1, <2>2 DEF MemInv
  <2> QED  BY <1>6, <2>2, <2>3 DEF FoundIn
<1> QED  BY <1>6, <1>7, <1>10, <1>11, <1>12 DEF MemInv

LEMMA NextMemInv == ASSUME MemInv, [MemNext]_memVars PROVE MemInv'
BY UpsertKeeps, DeleteGroupKeeps, MemPostKeeps, CancelKeeps, MemOthersKeep, AlertsKeep, PurgeKeeps,
   ExpireKeeps
DEF MemNext

-----------------------------------------------------------------------------

\* The maps of the memory store hold what they may hold.
THEOREM MemTypeCorrect == MemSpec => []MemTypeOK
<1>1. MemInv => MemTypeOK  BY DEF MemInv
<1> QED  BY <1>1, InitMemInv, NextMemInv, PTL DEF MemSpec

\* Whatever sequence of posts, cancels, purges, expiries and changes of groups ran before, the
\* maps agree: each number of a group has its article and each article its numbers, and the
\* marks and counts are those of the numbers, but for numbers that a header which listed a
\* group twice left behind (Post, memory.go:548; deleteArticleLocked, memory.go:1018).
THEOREM MapsAgree == MemSpec => []MemIndexesAgree
<1> QED  BY MemInvAgrees, InitMemInv, NextMemInv, PTL DEF MemSpec

-----------------------------------------------------------------------------
(* The memory store numbers as Numbering does, but for Expire. *)

LEMMA RowWithdraws ==
  ASSUME MemInv', NEW g \in MemGroups, g \in DOMAIN grp, g \in DOMAIN grp',
         grp'[g].high = grp[g].high, grp[g].low <= grp'[g].low, grp'[g].nums \subseteq grp[g].nums
  PROVE  TestStore!Withdraws(g)
<1>1. /\ grp'[g].low <= grp[g].high /\ \A n \in grp'[g].nums : grp'[g].low <= n
      /\ grp'[g].low \in Nat /\ grp[g].high \in Nat /\ (grp'[g].low = 0 => grp[g].high = 0)
  BY MemAssumption DEF MemInv, MemTypeOK, MemRow, RowSound
<1>2. grp'[g].low \in 1..grp[g].high \/ grp'[g].low = grp[g].high
  BY <1>1
<1> QED  BY <1>1, <1>2 DEF TestStore!Withdraws

LEMMA RowBlank ==
  ASSUME NEW g \in MemGroups,
         g \in DOMAIN grp' => grp'[g].nums = {} /\ grp'[g].low = 0 /\ grp'[g].high = 0
  PROVE  TestStore!Blank(g)
BY DEF TestStore!Blank

\* The groups one at a time.
LEMMA RowsNumber ==
  ASSUME DOMAIN grp' \subseteq MemGroups,
         \A g \in DOMAIN grp \intersect DOMAIN grp' :
           g \in MemGroups => TestStore!Appends(g) \/ TestStore!Withdraws(g),
         \A g \in DOMAIN grp' \ DOMAIN grp : TestStore!Blank(g)
  PROVE  TestStore!Next
<1>1. \A g \in MemGroups \ DOMAIN grp' : TestStore!Blank(g)  BY RowBlank
<1> QED  BY <1>1 DEF TestStore!Next

\* Rows of which only labels change, or that are gone.
LEMMA LabelsNumber ==
  ASSUME MemInv, MemInv',
         DOMAIN grp' \subseteq DOMAIN grp,
         \A g \in DOMAIN grp' : /\ grp'[g].low = grp[g].low /\ grp'[g].high = grp[g].high
                                /\ grp'[g].nums = grp[g].nums
  PROVE  TestStore!Next
<1>1. \A g \in DOMAIN grp' : g \in MemGroups /\ grp[g].low \in Nat
  BY MemAssumption DEF MemInv, MemTypeOK
<1>2. \A g \in DOMAIN grp' : TestStore!Withdraws(g)  BY <1>1, RowWithdraws
<1> QED  BY <1>1, <1>2, RowsNumber

LEMMA UpsertNumbers ==
  ASSUME MemInv, MemInv', NEW g \in MemGroups, NEW status \in {"y", "n"}, UpsertGroup(g, status)
  PROVE  TestStore!Next
<1>1. \A h \in DOMAIN grp : h \in MemGroups /\ grp[h] \in MemRow
  BY RowsAreRows DEF MemInv, MemTypeOK
<1> DEFINE new == IF g \in DOMAIN grp THEN [grp[g] EXCEPT !.status = status] ELSE NewGroup(status)
<1>2. grp' = With(grp, g, new)  BY DEF UpsertGroup
<1>3. DOMAIN grp' = DOMAIN grp \union {g} /\ grp'[g] = new
      /\ \A h \in DOMAIN grp \ {g} : grp'[h] = grp[h]
  <2> HIDE DEF new
  <2> QED  BY <1>2 DEF With
<1>4. CASE g \in DOMAIN grp
  <2>1. new.low = grp[g].low /\ new.high = grp[g].high /\ new.nums = grp[g].nums
    BY <1>1, <1>4 DEF MemRow
  <2> HIDE DEF new
  <2>2. DOMAIN grp' = DOMAIN grp  BY <1>3, <1>4
  <2>3. \A h \in DOMAIN grp' : /\ grp'[h].low = grp[h].low /\ grp'[h].high = grp[h].high
                               /\ grp'[h].nums = grp[h].nums
    BY <1>3, <2>1, <2>2
  <2> QED  BY <2>2, <2>3, LabelsNumber
<1>5. CASE g \notin DOMAIN grp
  <2>1. new.low = 0 /\ new.high = 0 /\ new.nums = {}  BY <1>5 DEF NewGroup
  <2> HIDE DEF new
  <2>2. TestStore!Blank(g)  BY <1>3, <2>1, RowBlank
  <2>3. \A h \in DOMAIN grp : grp'[h] = grp[h] /\ grp[h].low \in Nat
    BY <1>1, <1>3, <1>5, RowFacts, MemAssumption
  <2>4. \A h \in DOMAIN grp : TestStore!Withdraws(h)  BY <1>1, <1>3, <2>3, RowWithdraws
  <2>5. DOMAIN grp' \subseteq MemGroups  BY <1>1, <1>3
  <2>6. DOMAIN grp' \ DOMAIN grp \subseteq {g}  BY <1>3
  <2> QED  BY <2>2, <2>4, <2>5, <2>6, RowsNumber
<1> QED  BY <1>4, <1>5

LEMMA PostNumbering ==
  ASSUME MemInv, MemInv', NEW m \in MemIds, NEW header \in Headers[m], MemPost(m, header)
  PROVE  TestStore!Next
<1> DEFINE k(g) == Listings(header, g)
           used == Used(header)
<1>1. \A g \in DOMAIN grp : g \in MemGroups /\ grp[g] \in MemRow
  BY RowsAreRows DEF MemInv, MemTypeOK
<1>2. /\ grp' = [g \in DOMAIN grp |-> IF g \in used THEN WithNumbers(grp[g], k(g)) ELSE grp[g]]
      /\ used \subseteq DOMAIN grp
  BY DEF MemPost, Used
<1>3. header \in Seq(MemGroups)  BY MemAssumption
<1>4. \A g \in used : k(g) \in Nat \ {0}  BY <1>3, ListingsCount DEF Used
<1> HIDE DEF k, used
<1>5. ASSUME NEW g \in used PROVE TestStore!Appends(g)
  <2> DEFINE r == grp[g]  n == k(g)  w == WithNumbers(r, n)
  <2>1. r \in MemRow /\ n \in Nat \ {0} /\ grp'[g] = w /\ g \in DOMAIN grp /\ g \in DOMAIN grp'
    BY <1>1, <1>2, <1>4, <1>5
  <2>2. r.high \in Nat  BY <2>1, RowFacts, MemAssumption
  <2> HIDE DEF r, n
  <2>3. /\ w.high = r.high + n /\ w.low = IF r.low = 0 THEN r.high + 1 ELSE r.low
        /\ w.nums = r.nums \union (r.high + 1 .. r.high + n)
    BY <2>1 DEF WithNumbers, NewNumbers, MemRow
  <2> HIDE DEF w
  <2>4. w.high > r.high /\ w.nums = r.nums \union (r.high + 1 .. w.high)  BY <2>1, <2>2, <2>3
  <2>5. g \in MemGroups  BY <1>1, <2>1
  <2> QED  BY <2>1, <2>3, <2>4, <2>5 DEF r, TestStore!Appends
<1>6. ASSUME NEW g \in DOMAIN grp, g \notin used PROVE TestStore!Withdraws(g)
  <2>1. grp'[g] = grp[g] /\ g \in DOMAIN grp'  BY <1>2, <1>6
  <2>2. grp[g].low \in Nat  BY <1>1, RowFacts, MemAssumption
  <2> QED  BY <1>1, <2>1, <2>2, RowWithdraws
<1>7. DOMAIN grp' = DOMAIN grp  BY <1>2
<1> QED  BY <1>1, <1>5, <1>6, <1>7, RowsNumber

LEMMA DeletionsNumber ==
  ASSUME MemInv, MemInv', NEW S \in SUBSET DOMAIN arts, NEW before, DeleteArticles(S, before),
         \A g \in DOMAIN grp : /\ before[g] \in MemRow
                               /\ before[g].low = grp[g].low /\ before[g].high = grp[g].high
                               /\ before[g].count = grp[g].count /\ before[g].nums = grp[g].nums
  PROVE  TestStore!Next
<1>1. \A g \in DOMAIN grp : g \in MemGroups /\ grp[g] \in MemRow
  BY RowsAreRows DEF MemInv, MemTypeOK
<1>2. ASSUME NEW g \in DOMAIN grp PROVE g \in DOMAIN grp' /\ TestStore!Withdraws(g)
  <2> DEFINE b == before[g]  N == NumbersOf(S, g)  c == Cardinality(InGroup(S, g))
             left == b.nums \ N
  <2>1. g \in DOMAIN grp' /\ grp'[g] = LessNums(b, N, c)  BY DEF DeleteArticles
  <2>2. /\ b \in MemRow /\ b.low = grp[g].low /\ b.high = grp[g].high /\ b.nums = grp[g].nums
        /\ b.low \in Nat /\ b.high \in Nat /\ b.nums \in SUBSET Nat
        /\ b.low <= b.high /\ \A n \in b.nums : b.low <= n
    BY MemAssumption, RowFacts DEF MemInv, RowSound
  <2> HIDE DEF b, N, c
  <2>3. CASE c = 0
    <3>1. grp'[g] = b  BY <2>1, <2>3 DEF LessNums
    <3> QED  BY <1>1, <2>1, <2>2, <3>1, RowWithdraws
  <2>4. CASE c # 0
    <3>1. /\ grp'[g].nums = left /\ grp'[g].high = b.high
          /\ grp'[g].low = IF left = {} THEN b.high ELSE Min(left)
      BY <2>1, <2>2, <2>4 DEF LessNums, MemRow
    <3>2. left # {} => Min(left) \in left  BY <2>2, LeastOfNumbers
    <3>3. b.low <= grp'[g].low  BY <2>2, <3>1, <3>2
    <3> QED  BY <1>1, <2>1, <2>2, <3>1, <3>3, RowWithdraws
  <2> QED  BY <2>3, <2>4
<1>3. DOMAIN grp' = DOMAIN grp  BY DEF DeleteArticles
<1> QED  BY <1>1, <1>2, <1>3, RowsNumber

LEMMA CancelNumbers ==
  ASSUME MemInv, MemInv', NEW m \in MemIds, MemCancelMessageID(m)
  PROVE  TestStore!Next
<1> DEFINE S == {m} \intersect DOMAIN arts
<1>1. DeleteArticles(S, grp) /\ S \in SUBSET DOMAIN arts  BY DEF MemCancelMessageID
<1> HIDE DEF S
<1> QED  BY <1>1, RowsAreRows, DeletionsNumber

LEMMA PurgeNumbers ==
  ASSUME MemInv, MemInv', MemPurge
  PROVE  TestStore!Next
<1> DEFINE alerted == {a.group : a \in {x \in Range(mAlerts) : x.status = "blocked"}}
           names == alerted \union mBans \union {g \in DOMAIN grp : grp[g].mode = "blocked"}
           doomed == {m \in DOMAIN arts : DOMAIN arts[m].groups \intersect names # {}}
           before == [g \in DOMAIN grp |-> IF g \in alerted THEN Blocked(grp[g]) ELSE grp[g]]
<1>1. DeleteArticles(doomed, before)  BY DEF MemPurge
<1>2. doomed \in SUBSET DOMAIN arts  OBVIOUS
<1>3. \A g \in DOMAIN grp : before[g] \in {Blocked(grp[g]), grp[g]}  OBVIOUS
<1> HIDE DEF doomed, before
<1>4. \A g \in DOMAIN grp : /\ before[g] \in MemRow
                            /\ before[g].low = grp[g].low /\ before[g].high = grp[g].high
                            /\ before[g].count = grp[g].count /\ before[g].nums = grp[g].nums
  BY <1>3, RowsAreRows, BlockedRow
<1> QED  BY <1>1, <1>2, <1>4, DeletionsNumber

LEMMA AlertsNumber ==
  ASSUME MemInv, MemInv',
         \/ \E g \in Suspect : MemNoteAccept(g)
         \/ \E i \in DOMAIN mAlerts : MemResolveGroupAlert(i)
  PROVE  TestStore!Next
<1>1. \A g \in DOMAIN grp : grp[g] \in MemRow  BY RowsAreRows
<1>2. ASSUME NEW g, NEW row, grp' = [grp EXCEPT ![g] = row],
             g \in DOMAIN grp => /\ row.low = grp[g].low /\ row.high = grp[g].high
                                 /\ row.nums = grp[g].nums
      PROVE  TestStore!Next
  <2>1. DOMAIN grp' = DOMAIN grp  BY <1>2
  <2>2. \A h \in DOMAIN grp : /\ grp'[h].low = grp[h].low /\ grp'[h].high = grp[h].high
                              /\ grp'[h].nums = grp[h].nums
    BY <1>2
  <2> QED  BY <2>1, <2>2, LabelsNumber
<1>3. ASSUME NEW g \in Suspect, MemNoteAccept(g) PROVE TestStore!Next
  <2> DEFINE row == [grp[g] EXCEPT !.mode = "auto"]
  <2>1. g \in DOMAIN grp /\ grp' = [grp EXCEPT ![g] = row]  BY <1>3 DEF MemNoteAccept
  <2>2. row.low = grp[g].low /\ row.high = grp[g].high /\ row.nums = grp[g].nums
    BY <1>1, <2>1 DEF MemRow
  <2> HIDE DEF row
  <2> QED  BY <1>2, <2>1, <2>2
<1>4. ASSUME NEW i \in DOMAIN mAlerts, MemResolveGroupAlert(i) PROVE TestStore!Next
  <2> DEFINE g == mAlerts[i].group
  <2>1. CASE g \notin DOMAIN grp
    <3>1. grp' = grp  BY <1>4, <2>1 DEF MemResolveGroupAlert
    <3> QED  BY <3>1, LabelsNumber
  <2>2. CASE g \in DOMAIN grp
    <3>1. PICK r \in Resolutions(grp[g]) : grp' = [grp EXCEPT ![g] = r.row]
      BY <1>4, <2>2 DEF MemResolveGroupAlert
    <3>2. r.row \in {Blocked(grp[g]), [grp[g] EXCEPT !.mode = "whitelist"], grp[g],
                     [grp[g] EXCEPT !.mode = "unset"]}
      BY DEF Resolutions
    <3>3. r.row.low = grp[g].low /\ r.row.high = grp[g].high /\ r.row.nums = grp[g].nums
      BY <1>1, <2>2, <3>2, BlockedRow DEF MemRow
    <3> HIDE DEF g
    <3> QED  BY <1>2, <3>1, <3>3
  <2> QED  BY <2>1, <2>2
<1> QED  BY <1>3, <1>4

LEMMA MemNextNumbers ==
  ASSUME MemInv, MemInv', [MemNext]_memVars
  PROVE  UNCHANGED TestStore!vars \/ TestStore!Next \/ MemExpire
<1>1. ASSUME UNCHANGED grp PROVE UNCHANGED TestStore!vars
  BY <1>1 DEF TestStore!vars
<1>2. CASE \/ \E m \in MemIds : MemRememberMessageID(m) \/ MemEnqueueFeed(m)
           \/ \E S \in {{m} : m \in feedQ} \union {feedQ} : TakeOffFeed(S)
           \/ \E g \in Suspect : MemBan(g)
           \/ MemNextDay
           \/ UNCHANGED memVars
  BY <1>1, <1>2
  DEF MemRememberMessageID, MemEnqueueFeed, TakeOffFeed, MemBan, MemNextDay, memVars
<1>3. ASSUME NEW g \in MemGroups, MemDeleteGroup(g) PROVE TestStore!Next
  <2>1. grp' = Less(grp, {g})  BY <1>3 DEF MemDeleteGroup
  <2>2. DOMAIN grp' \subseteq DOMAIN grp /\ \A h \in DOMAIN grp' : grp'[h] = grp[h]
    BY <2>1 DEF Less, Restrict
  <2> QED  BY <2>2, LabelsNumber
<1> QED
  BY <1>2, <1>3, UpsertNumbers, PostNumbering, CancelNumbers, PurgeNumbers, AlertsNumber DEF MemNext

\* The store of the tests numbers articles as the contract of the real one says, but for
\* Expire, which takes water marks back (Expire, memory.go).
THEOREM TestsSeeNumbering == MemSpec => NumbersButForExpire
<1>1. MemInit => TestStore!Init
  BY EmptyFunction DEF MemInit, TestStore!Init
<1>2. MemInv /\ [MemNext]_memVars =>
        MemInv' /\ [UNCHANGED grp \/ TestStore!Next \/ MemExpire]_(TestStore!vars)
  BY NextMemInv, MemNextNumbers
<1> QED  BY <1>1, <1>2, InitMemInv, PTL DEF MemSpec, NumbersButForExpire
=============================================================================
