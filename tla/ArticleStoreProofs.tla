------------------------ MODULE ArticleStoreProofs --------------------------
(*************************************************************************)
(* Proofs about ArticleStore, for every set of groups, articles, peers   *)
(* and sweepers and every bound.                                         *)
(*************************************************************************)
EXTENDS ArticleStore, FiniteSetTheorems, WellFoundedInduction, TLAPS

-----------------------------------------------------------------------------
\* A nonempty set of numbers has a least one, and Min names it.
LEMMA MinIsLeast ==
  ASSUME NEW S \in SUBSET Nat, S # {}
  PROVE  Min(S) \in S /\ \A n \in S : Min(S) <= n
<1>1. PICK least \in S : \A n \in S : ~(<<n, least>> \in OpToRel(<, Nat))
  BY NatLessThanWellFounded, WFMin, Zenon
<1>2. \A n \in S : ~(n < least)
  BY <1>1 DEF OpToRel
<1>3. \A n \in S : least =< n
  BY <1>2
<1>4. \E x \in S : \A y \in S : x =< y
  BY <1>3
<1> QED
  BY <1>4 DEF Min

\* The rows one article can be given under a bounded number are finitely many.
LEMMA RowSetFinite ==
  ASSUME NEW G, IsFiniteSet(G), NEW N \in Nat, NEW m
  PROVE  IsFiniteSet([group : G, num : 0..N, id : {m}])
<1> DEFINE S == G \X (0..N)
           T == [group : G, num : 0..N, id : {m}]
           f == [p \in S |-> [group |-> p[1], num |-> p[2], id |-> m]]
<1>1. IsFiniteSet(0..N)
  BY FS_Interval
<1>2. IsFiniteSet(S)
  BY <1>1, FS_Product
<1>3. f \in Surjection(S, T)
  <2>1. f \in [S -> T]
    OBVIOUS
  <2>2. ASSUME NEW t \in T
        PROVE  \E p \in S : f[p] = t
    <3>1. <<t.group, t.num>> \in S /\ t = [group |-> t.group, num |-> t.num, id |-> m]
      OBVIOUS
    <3> QED
      BY <3>1
  <2> QED
    BY <2>1, <2>2 DEF Surjection
<1> QED
  BY <1>2, <1>3, FS_Surjection

-----------------------------------------------------------------------------
(* Type correctness.  The counts stay numbers because the overview stays finite. *)

FiniteOverview == IsFiniteSet(overview)

Typed == TypeOK /\ FiniteOverview

\* The rows a cancel has read and those a recount has seen are finite too.
FiniteKept ==
  /\ \A s \in Sweepers : IsFiniteSet(sweep[s].seen)
  /\ \A c \in Cancels : IsFiniteSet(cancel[c].rows)

TypeInv == Typed /\ FiniteKept

LEMMA CardinalityIsNat ==
  ASSUME NEW S, IsFiniteSet(S), NEW g
  PROVE  IsFiniteSet(RowsIn(S, g)) /\ Cardinality(RowsIn(S, g)) \in Nat
BY FS_Subset, FS_CardinalityType DEF RowsIn

LEMMA LowOfIsNat ==
  ASSUME TypeOK, NEW S \in SUBSET Rows, NEW g \in Groups
  PROVE  LowOf(S, g) \in Nat
<1>1. NumsIn(S, g) \subseteq Nat
  BY DEF NumsIn, RowsIn, Rows
<1>2. CASE RowsIn(S, g) = {}
  BY <1>2 DEF LowOf, TypeOK
<1>3. CASE RowsIn(S, g) # {}
  <2>1. NumsIn(S, g) # {}
    BY <1>3 DEF NumsIn
  <2> QED
    BY <1>1, <1>3, <2>1, MinIsLeast DEF LowOf
<1> QED
  BY <1>2, <1>3

\* What a Post adds: rows of its article in the groups that carry it, numbered from the
\* high water mark on.
LEMMA NewRowsMembers ==
  ASSUME TypeOK, NEW m \in MsgIds, NEW listing \in Listings
  PROVE  /\ \A r \in NewRows(m, listing) :
              /\ r.group \in Carrying(listing) /\ r.id = m
              /\ r.num \in Nat /\ high[r.group] < r.num
              /\ r.num <= high[r.group] + listing[r.group]
         /\ NewRows(m, listing) \subseteq Rows
<1> USE ListingsAssumption
<1>1. SUFFICES ASSUME NEW r \in NewRows(m, listing)
               PROVE  /\ r.group \in Carrying(listing) /\ r.id = m
                      /\ r.num \in Nat /\ high[r.group] < r.num
                      /\ r.num <= high[r.group] + listing[r.group]
                      /\ r \in Rows
  OBVIOUS
<1>2. PICK g \in Carrying(listing) :
        \E i \in 1..listing[g] : r = [group |-> g, num |-> high[g] + i, id |-> m]
  BY <1>1 DEF NewRows
<1>3. g \in Groups /\ listing[g] \in Nat /\ high[g] \in Nat
  BY DEF Carrying, TypeOK
<1>4. PICK i \in 1..listing[g] : r = [group |-> g, num |-> high[g] + i, id |-> m]
  BY <1>2
<1> QED
  BY <1>3, <1>4 DEF Rows

LEMMA NewRowsFinite ==
  ASSUME TypeOK, NEW m \in MsgIds, NEW listing \in Listings,
         \A g \in Carrying(listing) : high[g] + listing[g] <= MaxNum
  PROVE  IsFiniteSet(NewRows(m, listing))
<1>1. \A g \in Carrying(listing) : g \in Groups /\ high[g] \in Nat /\ listing[g] \in Nat
  BY ListingsAssumption DEF Carrying, TypeOK
<1>2. ASSUME NEW r \in NewRows(m, listing)
      PROVE  r \in [group : Groups, num : 0..MaxNum, id : {m}]
  <2>1. r \in Rows /\ r.group \in Carrying(listing) /\ r.id = m /\ r.num \in Nat
        /\ r.num <= high[r.group] + listing[r.group]
    BY NewRowsMembers
  <2>2. r.num <= MaxNum
    BY <1>1, <2>1, BoundsAssumption
  <2> QED
    BY <2>1, <2>2, BoundsAssumption DEF Rows
<1>3. IsFiniteSet([group : Groups, num : 0..MaxNum, id : {m}])
  BY RowSetFinite, GroupsAssumption, BoundsAssumption
<1> QED
  BY <1>2, <1>3, FS_Subset

LEMMA InitTyped == Init => Typed
<1> SUFFICES ASSUME Init PROVE Typed
  OBVIOUS
<1>1. Idle \in SweepStates /\ NoCancel \in CancelStates
  BY DEF Idle, SweepStates, NoCancel, CancelStates, Never
<1>2. FiniteOverview
  BY FS_EmptySet DEF Init, FiniteOverview
<1>3. TypeOK
  BY <1>1 DEF Init, TypeOK, Modes, Never
<1> QED
  BY <1>2, <1>3 DEF Typed

LEMMA PostTypeInv ==
  ASSUME Typed, NEW m \in MsgIds, NEW listing \in Listings, Post(m, listing)
  PROVE  Typed'
<1> USE DEF Typed
<1>1. NewRows(m, listing) \subseteq Rows /\ IsFiniteSet(NewRows(m, listing))
  BY NewRowsMembers, NewRowsFinite DEF Post
<1>2. FiniteOverview'
  BY <1>1, FS_Union DEF Post, FiniteOverview
<1>3. listing \in [Groups -> Nat]
  BY ListingsAssumption
<1>4. high' \in [Groups -> Nat] /\ low' \in [Groups -> Nat] /\ count' \in [Groups -> Nat]
  BY <1>3 DEF Post, TypeOK
<1>5. history' \subseteq MsgIds /\ arrivedAt' \in [MsgIds -> Nat \cup {Never}]
  BY DEF Post, Remembered, TypeOK
<1> QED
  BY <1>1, <1>2, <1>4, <1>5 DEF Post, TypeOK, groupVars, policyVars, driftVars

\* GREATEST(n, 0)
LEMMA AtLeastZero ==
  \A i \in Int : Max({i, 0}) \in Nat /\ i <= Max({i, 0})
<1> SUFFICES ASSUME NEW i \in Int
             PROVE  Max({i, 0}) \in Nat /\ i <= Max({i, 0})
  OBVIOUS
<1>1. \E x \in {i, 0} : \A y \in {i, 0} : x >= y
  OBVIOUS
<1> QED
  BY <1>1 DEF Max

LEMMA CancelTypeInv ==
  ASSUME TypeInv, NEW c \in Cancels, NEW m \in MsgIds, CancelCommits(c, m)
  PROVE  Typed'
<1> USE DEF TypeInv, Typed
<1>1. PICK left \in SUBSET overview :
        LET read == cancel[c].rows
            hit  == {r.group : r \in read}
        IN  /\ overview' = left /\ articles' \subseteq articles
            /\ count' = [g \in Groups |-> IF g \in hit THEN Fewer(g, read) ELSE count[g]]
            /\ low' = [g \in Groups |-> IF g \in hit THEN LowOf(left, g) ELSE low[g]]
            /\ miscounted' \subseteq miscounted \cup hit
            /\ misplaced' = misplaced \ hit
  <2> DEFINE here == IF storedAt[m] = cancel[c].at THEN articles \cap {m} ELSE {}
  <2>1. overview \ RowsOf(overview, here) \in SUBSET overview
    OBVIOUS
  <2> QED
    BY <2>1 DEF CancelCommits
<1> DEFINE read == cancel[c].rows
<1>2. read \subseteq Rows /\ IsFiniteSet(read) /\ IsFiniteSet(left) /\ left \subseteq Rows
  BY FS_Subset DEF FiniteOverview, FiniteKept, TypeOK, CancelStates
<1>3. \A g \in Groups : Cardinality(RowsIn(read, g)) \in Nat /\ LowOf(left, g) \in Nat
  BY <1>2, CardinalityIsNat, LowOfIsNat
<1>4. ASSUME NEW g \in Groups
      PROVE  Fewer(g, read) \in Nat
  <2>1. count[g] \in Nat /\ Cardinality(RowsIn(read, g)) \in Nat
    BY <1>3 DEF TypeOK
  <2>2. count[g] - Cardinality(RowsIn(read, g)) \in Int
    BY ONLY <2>1
  <2> HIDE DEF read
  <2> QED
    BY <2>2, AtLeastZero DEF Fewer
<1>5. count' \in [Groups -> Nat] /\ low' \in [Groups -> Nat]
  BY <1>1, <1>3, <1>4 DEF TypeOK
<1>6. history' \subseteq MsgIds /\ arrivedAt' \in [MsgIds -> Nat \cup {Never}]
  BY DEF CancelCommits, Remembered, TypeOK
<1>7. cancel' \in [Cancels -> CancelStates]
  BY DEF CancelCommits, TypeOK, NoCancel, CancelStates, Never
<1>8. miscounted' \subseteq Groups /\ misplaced' \subseteq Groups
  BY <1>1, <1>2 DEF TypeOK, Rows
<1>9. queue' \subseteq Peers \X MsgIds
  BY DEF CancelCommits, Unqueued, TypeOK
<1>10. articles' \subseteq MsgIds /\ overview' \subseteq Rows /\ IsFiniteSet(overview')
  BY <1>1, <1>2 DEF TypeOK
<1> QED
  BY <1>5, <1>6, <1>7, <1>8, <1>9, <1>10 DEF CancelCommits, TypeOK, FiniteOverview, policyVars

LEMMA CancelReadsTyped ==
  ASSUME Typed, NEW c \in Cancels, NEW m \in MsgIds, CancelReads(c, m)
  PROVE  Typed'
<1> USE DEF Typed, groupVars, policyVars, articleVars, historyVars
<1>1. [id |-> {m}, at |-> storedAt[m], rows |-> RowsOf(overview, {m})] \in CancelStates
  BY DEF TypeOK, CancelStates, RowsOf, Never
<1>2. cancel' \in [Cancels -> CancelStates]
  BY <1>1 DEF CancelReads, TypeOK
<1> QED
  BY <1>2 DEF CancelReads, TypeOK, FiniteOverview

LEMMA CancelFailsTyped ==
  ASSUME Typed, NEW c \in Cancels, CancelFails(c)
  PROVE  Typed'
<1> USE DEF Typed, groupVars, policyVars, articleVars, historyVars
<1>1. cancel' \in [Cancels -> CancelStates]
  BY DEF CancelFails, TypeOK, NoCancel, CancelStates, Never
<1> QED
  BY <1>1 DEF CancelFails, TypeOK, FiniteOverview

LEMMA GroupTypeInv ==
  ASSUME Typed, NEW g \in Groups, GroupOp(g)
  PROVE  Typed'
<1> USE DEF Typed, groupVars, policyVars, articleVars, historyVars, driftVars
<1>1. ASSUME NEW st \in Statuses, EnsureGroup(g, st)
      PROVE  Typed'
  BY <1>1, StatusesAssumption DEF EnsureGroup, TypeOK, FiniteOverview
<1>2. CASE DeleteGroup(g)
  <2>1. IsFiniteSet(overview \ RowsIn(overview, g))
    BY FS_Subset DEF FiniteOverview
  <2>2. cancel' \in [Cancels -> CancelStates]
    <3>1. \A c \in Cancels : [cancel[c] EXCEPT !.rows = @ \ RowsIn(@, g)] \in CancelStates
      BY DEF TypeOK, CancelStates
    <3> QED
      BY <1>2, <3>1 DEF DeleteGroup
  <2>3. sweep' \in [Sweepers -> SweepStates]
    <3>1. ASSUME NEW s \in Sweepers
          PROVE  [sweep[s] EXCEPT !.seen = @ \ RowsIn(@, g),
                                  !.affected = IF sweep[s].step = "commit" THEN @ \ {g} ELSE @]
                   \in SweepStates
      BY DEF TypeOK, SweepStates
    <3> QED
      BY <1>2, <3>1 DEF DeleteGroup
  <2>4. miscounted' \subseteq Groups /\ misplaced' \subseteq Groups
    BY <1>2 DEF DeleteGroup, TypeOK
  <2> QED
    BY <1>2, <2>1, <2>2, <2>3, <2>4 DEF DeleteGroup, Without, TypeOK, FiniteOverview, Modes
<1> QED
  BY <1>1, <1>2 DEF GroupOp

LEMMA PolicyTypeInv ==
  ASSUME Typed, NEW g \in Watched, PolicyOp(g)
  PROVE  Typed'
<1> USE DEF Typed, groupVars, policyVars, articleVars, historyVars, driftVars,
           FiniteOverview
<1>0. g \in Groups
  BY WatchedAssumption
<1>1. ASSUME NEW policy \in Policies, SetGroupRetention(g, policy)
      PROVE  Typed'
  <2>1. policy[1] \in Nat /\ policy[2] \in Modes
    BY PoliciesAssumption
  <2> QED
    BY <1>0, <1>1, <2>1 DEF SetGroupRetention, SetRetention, TypeOK
<1>2. CASE NoteAcceptFlood(g)
  BY <1>0, <1>2, DaysAssumption DEF NoteAcceptFlood, SetRetention, TypeOK, Modes
<1>3. CASE AddGroupBan(g)
  BY <1>0, <1>3 DEF AddGroupBan, TypeOK
<1>4. CASE DeleteGroupBan(g)
  BY <1>0, <1>4 DEF DeleteGroupBan, TypeOK
<1> QED
  BY <1>1, <1>2, <1>3, <1>4 DEF PolicyOp

LEMMA AlertTypeInv ==
  ASSUME Typed, NEW g \in Alerted, AlertOp(g)
  PROVE  Typed'
<1> USE DEF Typed, groupVars, policyVars, articleVars, historyVars, driftVars,
           FiniteOverview
<1>0. g \in Groups
  BY WatchedAssumption
<1>1. CASE BlockAlert(g)
  <2>1. mode' \in [Groups -> Modes] /\ keep' \in [Groups -> Nat]
        /\ status' \in [Groups -> {"y", "m", "n"}]
    <3>1. CASE g \in groups
      <4>1. SetRetention(g, 0, "blocked") /\ status' = [status EXCEPT ![g] = "n"]
        BY <1>1, <3>1 DEF BlockAlert
      <4> QED
        BY <1>0, <4>1 DEF SetRetention, TypeOK, Modes
    <3>2. CASE g \notin groups
      BY <1>1, <3>2 DEF BlockAlert, TypeOK
    <3> QED
      BY <3>1, <3>2
  <2> QED
    BY <1>0, <1>1, <2>1 DEF BlockAlert, TypeOK
<1>2. ASSUME NEW md \in {"", "whitelist"}, UnblockAlert(g, md)
      PROVE  Typed'
  <2>1. mode' \in [Groups -> Modes] /\ keep' \in [Groups -> Nat]
    <3>1. CASE SetRetention(g, 0, md)
      BY <1>0, <3>1 DEF SetRetention, TypeOK, Modes
    <3>2. CASE UNCHANGED <<mode, keep>>
      BY <3>2 DEF TypeOK
    <3> QED
      BY <1>2, <3>1, <3>2 DEF UnblockAlert
  <2>2. blockedAlert' \subseteq Groups
    BY <1>2 DEF UnblockAlert, TypeOK
  <2> QED
    BY <1>0, <1>2, <2>1, <2>2 DEF UnblockAlert, TypeOK
<1> QED
  BY <1>1, <1>2 DEF AlertOp

LEMMA QueueTypeInv ==
  ASSUME Typed, NEW p \in Peers, QueueOp(p)
  PROVE  Typed'
<1>1. queue' \subseteq Peers \X MsgIds
  <2>1. CASE \E m \in MsgIds : EnqueueFeed(p, m)
    BY <2>1 DEF Typed, TypeOK, EnqueueFeed
  <2>2. CASE \E m \in MsgIds : CompleteFeed(p, m)
    BY <2>2 DEF Typed, TypeOK, CompleteFeed
  <2>3. CASE FlushFeedQueue({p})
    BY <2>3 DEF Typed, TypeOK, FlushFeedQueue
  <2> QED
    BY <2>1, <2>2, <2>3 DEF QueueOp
<1>2. UNCHANGED <<groupVars, policyVars, articleVars, historyVars, driftVars, sweep, day>>
  BY DEF QueueOp, EnqueueFeed, CompleteFeed, FlushFeedQueue
<1> QED
  BY <1>1, <1>2 DEF Typed, groupVars, policyVars, articleVars, historyVars, driftVars,
                    FiniteOverview, TypeOK

\* A sweeper's record stays well formed, whichever of its steps it takes.
LEMMA AfterPurgeType ==
  ASSUME TypeOK, NEW s \in Sweepers, AfterPurge(s)
  PROVE  sweep' \in [Sweepers -> SweepStates]
<1>1. sweep[s] \in SweepStates
  BY DEF TypeOK
<1>2. Idle \in SweepStates /\ [Idle EXCEPT !.step = "overview", !.thenExpire = TRUE] \in SweepStates
  BY DEF Idle, SweepStates, ExpireSteps
<1> QED
  BY <1>1, <1>2 DEF AfterPurge, TypeOK

LEMMA GotoType ==
  ASSUME TypeOK, NEW s \in Sweepers, NEW step \in PurgeSteps \cup ExpireSteps, Goto(s, step)
  PROVE  sweep' \in [Sweepers -> SweepStates]
<1>1. sweep[s] \in SweepStates
  BY DEF TypeOK
<1>2. [sweep[s] EXCEPT !.step = step] \in SweepStates
  BY <1>1 DEF SweepStates
<1> QED
  BY <1>2 DEF TypeOK, Goto

LEMMA PurgeDeleteTyped ==
  ASSUME Typed, NEW s \in Sweepers, PurgeDelete(s)
  PROVE  Typed'
<1> USE DEF Typed, groupVars, policyVars, articleVars, historyVars, driftVars
<1> DEFINE doomed == {m \in articles : <<m, storedAt[m]>> \in sweep[s].rows}
           hit    == groups \cap sweep[s].affected
           seen   == {r \in overview : r.group \in hit /\ r.id \notin doomed}
<1>1. sweep[s] \in SweepStates /\ hit \subseteq Groups /\ seen \subseteq Rows
  BY DEF TypeOK
<1> HIDE DEF hit, seen
<1>2. [sweep[s] EXCEPT !.step = "commit", !.affected = hit, !.seen = seen] \in SweepStates
  BY <1>1 DEF SweepStates, PurgeSteps
<1>3. sweep' = [sweep EXCEPT ![s].step = "commit", ![s].affected = hit, ![s].seen = seen]
  BY DEF PurgeDelete, hit, seen
<1>4. sweep' \in [Sweepers -> SweepStates]
  BY <1>2, <1>3 DEF TypeOK
<1> QED
  BY <1>4 DEF PurgeDelete, TypeOK, FiniteOverview

LEMMA PurgeCommitTypeInv ==
  ASSUME TypeInv, NEW s \in Sweepers, PurgeCommit(s)
  PROVE  Typed'
<1> USE DEF TypeInv, Typed
<1> DEFINE hit  == sweep[s].affected
           seen == sweep[s].seen
<1>1. /\ overview' \subseteq overview /\ articles' \subseteq articles /\ queue' \subseteq queue
      /\ count' = [g \in Groups |->
                     IF g \in hit THEN Cardinality(RowsIn(seen, g)) ELSE count[g]]
      /\ low' = [g \in Groups |-> IF g \in hit THEN LowOf(seen, g) ELSE low[g]]
      /\ miscounted' \subseteq miscounted \cup hit /\ misplaced' \subseteq misplaced \cup hit
  BY DEF PurgeCommit, Unqueued
<1>2. IsFiniteSet(seen) /\ seen \subseteq Rows /\ hit \subseteq Groups
  BY DEF FiniteKept, TypeOK, SweepStates
<1>3. \A g \in Groups : Cardinality(RowsIn(seen, g)) \in Nat /\ LowOf(seen, g) \in Nat
  BY <1>2, CardinalityIsNat, LowOfIsNat
<1>4. /\ overview' \subseteq Rows /\ IsFiniteSet(overview')
      /\ articles' \subseteq MsgIds /\ queue' \subseteq Peers \X MsgIds
      /\ miscounted' \subseteq Groups /\ misplaced' \subseteq Groups
  BY <1>1, <1>2, FS_Subset DEF TypeOK, FiniteOverview
<1>5. count' \in [Groups -> Nat] /\ low' \in [Groups -> Nat]
  BY <1>1, <1>3 DEF TypeOK
<1>6. sweep' \in [Sweepers -> SweepStates]
  BY AfterPurgeType DEF PurgeCommit
<1> QED
  BY <1>4, <1>5, <1>6 DEF PurgeCommit, TypeOK, FiniteOverview, policyVars, historyVars

LEMMA SweepTypeInv ==
  ASSUME TypeInv, NEW s \in Sweepers, SweepOp(s)
  PROVE  Typed'
<1> USE DEF TypeInv, Typed, groupVars, policyVars, articleVars, historyVars, driftVars,
           FiniteOverview
<1>0. sweep[s] \in SweepStates /\ Idle \in SweepStates
  BY DEF TypeOK, Idle, SweepStates
<1>1. ASSUME NEW thenExpire \in BOOLEAN, StartSweep(s, thenExpire)
      PROVE  Typed'
  <2>1. [Idle EXCEPT !.step = "alerts", !.thenExpire = thenExpire] \in SweepStates
    BY DEF Idle, SweepStates, PurgeSteps
  <2>2. sweep' \in [Sweepers -> SweepStates]
    BY <1>1, <2>1 DEF StartSweep, TypeOK
  <2> QED
    BY <1>1, <2>2 DEF StartSweep, TypeOK
<1>2. CASE PurgeAlerts(s)
  <2>1. sweep' \in [Sweepers -> SweepStates]
    BY <1>2, GotoType DEF PurgeAlerts, PurgeSteps
  <2>2. /\ status' \in [Groups -> {"y", "m", "n"}]
        /\ keep' \in [Groups -> Nat]
        /\ mode' \in [Groups -> Modes]
    BY <1>2 DEF PurgeAlerts, TypeOK, Modes
  <2> QED
    BY <1>2, <2>1, <2>2 DEF PurgeAlerts, TypeOK
<1>3. CASE PurgeNames(s)
  <2>1. [sweep[s] EXCEPT !.step = "select", !.names = Unwanted] \in SweepStates
    BY <1>0 DEF SweepStates, PurgeSteps, Unwanted, TypeOK
  <2>2. sweep' \in [Sweepers -> SweepStates]
    <3>1. CASE Unwanted = {}
      BY <1>3, <3>1, AfterPurgeType DEF PurgeNames
    <3>2. CASE Unwanted # {}
      BY <1>3, <3>2, <2>1 DEF PurgeNames, TypeOK
    <3> QED
      BY <3>1, <3>2
  <2> QED
    BY <1>3, <2>2 DEF PurgeNames, TypeOK
<1>4. CASE PurgeSelect(s)
  <2> DEFINE names == sweep[s].names
             ids   == {r.id : r \in {x \in overview : x.group \in names}}
             rows  == {<<m, storedAt[m]>> : m \in ids}
             affected == names \cup {r.group : r \in RowsOf(overview, ids)}
  <2>1. names \subseteq Groups /\ ids \subseteq MsgIds
    BY <1>0 DEF SweepStates, TypeOK, Rows
  <2>2. \A m \in MsgIds : storedAt[m] \in Int
    BY DEF TypeOK, Never
  <2>3. rows \subseteq MsgIds \X Int
    BY <2>1, <2>2
  <2>4. affected \subseteq Groups
    BY <2>1 DEF RowsOf, TypeOK, Rows
  <2>5. [sweep[s] EXCEPT !.step = "delete", !.rows = rows, !.affected = affected] \in SweepStates
    BY <1>0, <2>3, <2>4 DEF SweepStates, PurgeSteps
  <2>6. sweep' \in [Sweepers -> SweepStates]
    <3>1. CASE ids = {}
      BY <1>4, <3>1, AfterPurgeType DEF PurgeSelect
    <3>2. CASE ids # {}
      BY <1>4, <3>2, <2>5 DEF PurgeSelect, TypeOK
    <3> QED
      BY <3>1, <3>2
  <2> QED
    BY <1>4, <2>6 DEF PurgeSelect, TypeOK
<1>5. CASE PurgeCommit(s)
  BY <1>5, PurgeCommitTypeInv
<1>6. CASE ExpireOverview(s)
  <2>1. sweep' \in [Sweepers -> SweepStates]
    BY <1>6, GotoType DEF ExpireOverview, ExpireSteps
  <2>2. IsFiniteSet({r \in overview : ~Overdue(r)})
    BY FS_Subset
  <2> QED
    BY <1>6, <2>1, <2>2 DEF ExpireOverview, TypeOK
<1>7. CASE ExpireArticles(s)
  <2>1. sweep' \in [Sweepers -> SweepStates]
    BY <1>7, GotoType DEF ExpireArticles, ExpireSteps
  <2> QED
    BY <1>7, <2>1 DEF ExpireArticles, TypeOK
<1>8. CASE ExpireHistory(s)
  BY <1>0, <1>8 DEF ExpireHistory, TypeOK
<1>9. CASE SweepFails(s)
  <2>1. sweep' \in [Sweepers -> SweepStates]
    BY <1>0, <1>9, AfterPurgeType DEF SweepFails, TypeOK
  <2> QED
    BY <1>9, <2>1 DEF SweepFails, TypeOK
<1>10. CASE PurgeDelete(s)
  BY <1>10, PurgeDeleteTyped
<1> QED
  BY <1>1, <1>2, <1>3, <1>4, <1>5, <1>6, <1>7, <1>8, <1>9, <1>10 DEF SweepOp, SweepStep

LEMMA NextTyped == TypeInv /\ [Next]_vars => Typed'
<1> SUFFICES ASSUME TypeInv, [Next]_vars
             PROVE  Typed'
  OBVIOUS
<1> USE DEF TypeInv, Typed, groupVars, policyVars, articleVars, historyVars, driftVars,
           FiniteOverview
<1>1. ASSUME NEW m \in MsgIds, ArticleOp(m)
      PROVE  Typed'
  <2>1. CASE \E listing \in Listings : Post(m, listing)
    BY <2>1, PostTypeInv
  <2>2. CASE RememberMessageID(m)
    BY <2>2 DEF RememberMessageID, Remembered, TypeOK
  <2>3. CASE CancelUnknown(m)
    BY <2>3 DEF CancelUnknown, Remembered, TypeOK
  <2>4. CASE \E c \in Cancels : CancelReads(c, m) \/ CancelCommits(c, m)
    BY <2>4, CancelTypeInv, CancelReadsTyped
  <2> QED
    BY <1>1, <2>1, <2>2, <2>3, <2>4 DEF ArticleOp
<1>2. CASE FlushFeedQueue(Peers)
  BY <1>2 DEF FlushFeedQueue, TypeOK
<1>3. CASE Crash
  <2>1. Idle \in SweepStates /\ NoCancel \in CancelStates
    BY DEF Idle, SweepStates, NoCancel, CancelStates, Never
  <2> QED
    BY <1>3, <2>1 DEF Crash, TypeOK
<1>4. CASE Tick
  BY <1>4 DEF Tick, TypeOK
<1>5. CASE UNCHANGED vars
  BY <1>5 DEF vars, TypeOK
<1> QED
  BY <1>1, <1>2, <1>3, <1>4, <1>5, GroupTypeInv, PolicyTypeInv, AlertTypeInv, QueueTypeInv,
     SweepTypeInv, CancelFailsTyped
  DEF Next

\* What is kept between two statements comes from the overview.
LEMMA KeptRows ==
  ASSUME TypeOK, [Next]_vars
  PROVE  /\ \A s \in Sweepers : sweep'[s].seen \subseteq sweep[s].seen \cup overview
         /\ \A c \in Cancels : cancel'[c].rows \subseteq cancel[c].rows \cup overview
<1> DEFINE Seen == \A s \in Sweepers : sweep'[s].seen \subseteq sweep[s].seen \cup overview
           Read == \A c \in Cancels : cancel'[c].rows \subseteq cancel[c].rows \cup overview
<1> SUFFICES Seen /\ Read
  OBVIOUS
<1> USE DEF driftVars
<1>1. /\ sweep = [s \in Sweepers |-> sweep[s]] /\ cancel = [c \in Cancels |-> cancel[c]]
      /\ \A s \in Sweepers : sweep[s] \in SweepStates
      /\ \A c \in Cancels : cancel[c] \in CancelStates
      /\ Idle.seen = {} /\ NoCancel.rows = {}
  BY DEF TypeOK, Idle, NoCancel
<1>2. ASSUME NEW t \in Sweepers, AfterPurge(t)
      PROVE  Seen
  <2>1. [Idle EXCEPT !.step = "overview", !.thenExpire = TRUE].seen = {}
    BY DEF Idle
  <2>2. CASE sweep[t].thenExpire
    BY <1>1, <1>2, <2>1, <2>2 DEF AfterPurge
  <2>3. CASE ~sweep[t].thenExpire
    BY <1>1, <1>2, <2>3 DEF AfterPurge
  <2> QED
    BY <2>2, <2>3
<1>3. ASSUME NEW m \in MsgIds, ArticleOp(m)
      PROVE  Seen /\ Read
  <2>1. UNCHANGED sweep
    BY <1>3 DEF ArticleOp, Post, RememberMessageID, CancelUnknown, CancelReads, CancelCommits
  <2>2. CASE UNCHANGED cancel
    BY <2>1, <2>2
  <2>3. ASSUME NEW c \in Cancels, CancelReads(c, m)
        PROVE  Read
    BY <1>1, <2>3 DEF CancelReads, RowsOf
  <2>4. ASSUME NEW c \in Cancels, CancelCommits(c, m)
        PROVE  Read
    BY <1>1, <2>4 DEF CancelCommits
  <2> QED
    BY <1>3, <2>1, <2>2, <2>3, <2>4 DEF ArticleOp, Post, RememberMessageID, CancelUnknown
<1>4. ASSUME NEW g \in Groups, GroupOp(g)
      PROVE  Seen /\ Read
  <2>1. CASE DeleteGroup(g)
    <3>1. /\ \A s \in Sweepers : sweep'[s].seen = sweep[s].seen \ RowsIn(sweep[s].seen, g)
          /\ \A c \in Cancels : cancel'[c].rows = cancel[c].rows \ RowsIn(cancel[c].rows, g)
      BY <1>1, <2>1 DEF DeleteGroup, SweepStates, CancelStates
    <3> QED
      BY <3>1
  <2> QED
    BY <1>4, <2>1 DEF GroupOp, EnsureGroup
<1>5. ASSUME NEW s \in Sweepers, SweepOp(s)
      PROVE  Seen
  <2>1. CASE AfterPurge(s)
    BY <1>2, <2>1
  <2>2. CASE PurgeDelete(s)
    <3>1. PICK new : sweep' = [sweep EXCEPT ![s] = new] /\ new.seen \subseteq overview
      <4> DEFINE doomed == {m \in articles : <<m, storedAt[m]>> \in sweep[s].rows}
                 hit    == groups \cap sweep[s].affected
                 seen   == {r \in overview : r.group \in hit /\ r.id \notin doomed}
                 new    == [sweep[s] EXCEPT !.step = "commit", !.affected = hit, !.seen = seen]
      <4>1. sweep' = [sweep EXCEPT ![s].step = "commit", ![s].affected = hit, ![s].seen = seen]
        BY <2>2 DEF PurgeDelete
      <4> HIDE DEF hit
      <4>2. new.seen = seen
        BY <1>1 DEF SweepStates
      <4>3. sweep' = [sweep EXCEPT ![s] = new]
        BY <4>1
      <4> HIDE DEF new
      <4> QED
        BY <4>2, <4>3
    <3> QED
      BY <1>1, <3>1
  <2>3. CASE \E st, x : sweep' = [sweep EXCEPT ![s].step = st, ![s].names = x]
    BY <1>1, <2>3 DEF SweepStates
  <2>4. CASE \E st : sweep' = [sweep EXCEPT ![s].step = st]
    BY <1>1, <2>4 DEF SweepStates
  <2>5. CASE \E st, x, y : sweep' = [sweep EXCEPT ![s].step = st, ![s].rows = x, ![s].affected = y]
    BY <1>1, <2>5 DEF SweepStates
  <2>6. CASE sweep' = [sweep EXCEPT ![s] = Idle]
    BY <1>1, <2>6
  <2>7. ASSUME NEW b \in BOOLEAN, StartSweep(s, b)
        PROVE  Seen
    <3>1. [Idle EXCEPT !.step = "alerts", !.thenExpire = b].seen = {}
      BY DEF Idle
    <3> QED
      BY <1>1, <2>7, <3>1 DEF StartSweep
  <2>8. PurgeAlerts(s) \/ ExpireOverview(s) \/ ExpireArticles(s)
          => \E st : sweep' = [sweep EXCEPT ![s].step = st]
    BY DEF PurgeAlerts, ExpireOverview, ExpireArticles, Goto
  <2>9. PurgeNames(s) => AfterPurge(s) \/ \E st, x : sweep' = [sweep EXCEPT ![s].step = st, ![s].names = x]
    BY DEF PurgeNames
  <2>10. PurgeSelect(s) => AfterPurge(s) \/
           \E st, x, y : sweep' = [sweep EXCEPT ![s].step = st, ![s].rows = x, ![s].affected = y]
    BY DEF PurgeSelect
  <2>11. ExpireHistory(s) => sweep' = [sweep EXCEPT ![s] = Idle]
    BY DEF ExpireHistory
  <2>12. SweepFails(s) => AfterPurge(s) \/ sweep' = [sweep EXCEPT ![s] = Idle]
    BY DEF SweepFails
  <2>13. PurgeCommit(s) => AfterPurge(s)
    BY DEF PurgeCommit
  <2> QED
    BY <1>5, <2>1, <2>2, <2>3, <2>4, <2>5, <2>6, <2>7, <2>8, <2>9, <2>10, <2>11, <2>12, <2>13
    DEF SweepOp, SweepStep
<1>6. ASSUME NEW s \in Sweepers, SweepOp(s)
      PROVE  Read
  BY <1>6 DEF SweepOp, SweepStep, StartSweep, PurgeAlerts, PurgeNames, PurgeSelect, PurgeDelete,
              PurgeCommit, ExpireOverview, ExpireArticles, ExpireHistory, SweepFails
<1>7. ASSUME NEW c \in Cancels, CancelFails(c)
      PROVE  Seen /\ Read
  BY <1>1, <1>7 DEF CancelFails
<1>8. CASE Crash
  BY <1>1, <1>8 DEF Crash
<1>9. ASSUME NEW g, PolicyOp(g) \/ AlertOp(g)
      PROVE  Seen /\ Read
  BY <1>9 DEF PolicyOp, AlertOp, SetGroupRetention, NoteAcceptFlood, BlockAlert, UnblockAlert,
              AddGroupBan, DeleteGroupBan
<1>10. ASSUME NEW p, QueueOp(p)
      PROVE  Seen /\ Read
  BY <1>10 DEF QueueOp, EnqueueFeed, CompleteFeed, FlushFeedQueue
<1>11. CASE Tick \/ FlushFeedQueue(Peers) \/ UNCHANGED vars
  BY <1>11 DEF Tick, FlushFeedQueue, vars
<1> HIDE DEF Seen, Read
<1>12. CASE Next
  BY <1>3, <1>4, <1>5, <1>6, <1>7, <1>8, <1>9, <1>10, <1>11, <1>12, SMTT(30) DEF Next
<1> QED
  BY <1>11, <1>12

LEMMA InitTypeInv == Init => TypeInv
<1> SUFFICES ASSUME Init PROVE TypeInv
  OBVIOUS
<1>1. (\A s \in Sweepers : sweep[s].seen = {}) /\ \A c \in Cancels : cancel[c].rows = {}
  BY DEF Init, Idle, NoCancel
<1> QED
  BY <1>1, InitTyped, FS_EmptySet DEF TypeInv, FiniteKept

LEMMA NextTypeInv == TypeInv /\ [Next]_vars => TypeInv'
<1> SUFFICES ASSUME TypeInv, [Next]_vars
             PROVE  TypeInv'
  OBVIOUS
<1>1. IsFiniteSet(overview) /\ TypeOK /\ FiniteKept
  BY DEF TypeInv, Typed, FiniteOverview
<1>2. ASSUME NEW s \in Sweepers
      PROVE  IsFiniteSet(sweep'[s].seen)
  BY <1>1, KeptRows, FS_Union, FS_Subset DEF FiniteKept
<1>3. ASSUME NEW c \in Cancels
      PROVE  IsFiniteSet(cancel'[c].rows)
  BY <1>1, KeptRows, FS_Union, FS_Subset DEF FiniteKept
<1> QED
  BY <1>2, <1>3, NextTyped DEF TypeInv, FiniteKept

\* Every reachable state of the store is well typed: counts and water marks stay
\* natural numbers, rows stay rows (all operations of the store).
THEOREM TypeCorrect == Spec => []TypeOK
<1>1. Spec => []TypeInv
  BY InitTypeInv, NextTypeInv, PTL DEF Spec
<1> QED
  BY <1>1, PTL DEF TypeInv, Typed
-----------------------------------------------------------------------------
(***************************************************************************)
(* Article numbers and water marks.  The invariant that carries them: every *)
(* number ever assigned in a group lies at or below its high water mark, so *)
(* the numbers a Post takes above it are new, and the low water mark is     *)
(* zero only in a group that never had an article, so that Post may set it. *)
(***************************************************************************)

GivenBelowHigh ==
  \A x \in given : x.group \in groups /\ 1 <= x.num /\ x.num <= high[x.group]

MarksOrdered ==
  \A g \in Groups : low[g] <= high[g] /\ (low[g] = 0 => high[g] = 0)

RowsWereGiven == overview \subseteq given

\* So were those a recount has seen.
SeenWereGiven == \A s \in Sweepers : sweep[s].seen \subseteq given

MarksInv ==
  /\ NumberNamesOneArticle
  /\ GivenBelowHigh
  /\ MarksOrdered
  /\ RowsWereGiven
  /\ RowsWithinWaterMarks

NumberInv == MarksInv /\ SeenWereGiven

\* Rows only go, and the groups in hit get their low water mark recomputed from some rows,
\* those left or those a recount saw: what cancel, the end of a purge and expiry do to the
\* numbers.
RowsRemoved(hit, rows) ==
  /\ overview' \subseteq overview
  /\ UNCHANGED <<groups, high, given>>
  /\ rows \subseteq given
  /\ low' = [g \in Groups |-> IF g \in hit THEN LowOf(rows, g) ELSE low[g]]
  /\ misplaced' = (misplaced \ hit) \cup {g \in hit : RowsIn(overview', g) # RowsIn(rows, g)}

NumbersUntouched == UNCHANGED <<groups, low, high, overview, given, misplaced>>

LEMMA InitNumberInv == Init => NumberInv
<1> SUFFICES ASSUME Init PROVE NumberInv
  OBVIOUS
<1>1. /\ given = {} /\ overview = {} /\ \A g \in Groups : low[g] = 0 /\ high[g] = 0
      /\ \A s \in Sweepers : sweep[s].seen = {}
  BY DEF Init, Idle
<1> QED
  BY <1>1 DEF NumberInv, MarksInv, SeenWereGiven, NumberNamesOneArticle, GivenBelowHigh, MarksOrdered, RowsWereGiven,
              RowsWithinWaterMarks

LEMMA NumberSteps ==
  ASSUME TypeInv, NumberInv, [Next]_vars
  PROVE  \/ NumbersUntouched
         \/ \E m \in MsgIds : \E listing \in Listings : Post(m, listing)
         \/ \E g \in Groups : \E st \in Statuses : EnsureGroup(g, st)
         \/ \E g \in Groups : DeleteGroup(g)
         \/ \E hit \in SUBSET Groups : \E rows \in SUBSET given : RowsRemoved(hit, rows)
<1> DEFINE Removed == \E hit \in SUBSET Groups : \E rows \in SUBSET given : RowsRemoved(hit, rows)
<1> USE DEF groupVars, policyVars, articleVars, historyVars, driftVars
<1>0. overview \subseteq given
  BY DEF NumberInv, MarksInv, RowsWereGiven
<1>1. ASSUME NEW c \in Cancels, NEW m \in MsgIds, CancelCommits(c, m)
      PROVE  Removed
  <2> DEFINE hit == {r.group : r \in cancel[c].rows}
  <2>1. hit \in SUBSET Groups
    BY DEF TypeInv, Typed, TypeOK, CancelStates, Rows
  <2>2. /\ overview' \subseteq overview /\ UNCHANGED <<groups, high, given>>
        /\ low' = [g \in Groups |-> IF g \in hit THEN LowOf(overview', g) ELSE low[g]]
        /\ misplaced' = misplaced \ hit
    BY <1>1 DEF CancelCommits
  <2> HIDE DEF hit
  <2>3. RowsRemoved(hit, overview') /\ overview' \in SUBSET given
    BY <1>0, <2>2 DEF RowsRemoved
  <2> QED
    BY <2>1, <2>3
<1>2. ASSUME NEW s \in Sweepers, PurgeCommit(s)
      PROVE  Removed
  <2> DEFINE hit  == sweep[s].affected
             seen == sweep[s].seen
  <2>1. hit \in SUBSET Groups /\ seen \in SUBSET given
    BY DEF TypeInv, Typed, TypeOK, SweepStates, NumberInv, SeenWereGiven
  <2>2. /\ overview' \subseteq overview /\ UNCHANGED <<groups, high, given>>
        /\ low' = [g \in Groups |-> IF g \in hit THEN LowOf(seen, g) ELSE low[g]]
        /\ misplaced' = (misplaced \ hit) \cup
                         {g \in hit : RowsIn(overview', g) # RowsIn(seen, g)}
    BY <1>2 DEF PurgeCommit
  <2> HIDE DEF hit, seen
  <2>3. RowsRemoved(hit, seen)
    BY <2>1, <2>2 DEF RowsRemoved
  <2> QED
    BY <2>1, <2>3
<1>3. ASSUME NEW s \in Sweepers, ExpireOverview(s)
      PROVE  Removed
  <2>1. low' = [g \in Groups |-> low[g]]
    BY <1>3 DEF ExpireOverview, TypeInv, Typed, TypeOK
  <2>2. RowsRemoved({}, {})
    BY <1>3, <2>1 DEF ExpireOverview, RowsRemoved
  <2> QED
    BY <2>2
<1>4. ASSUME NEW m \in MsgIds, ArticleOp(m)
      PROVE  \/ NumbersUntouched
             \/ \E listing \in Listings : Post(m, listing)
             \/ \E c \in Cancels : CancelCommits(c, m)
  BY <1>4 DEF ArticleOp, NumbersUntouched, RememberMessageID, CancelUnknown, CancelReads
<1>5. ASSUME NEW g, PolicyOp(g) \/ AlertOp(g)
      PROVE  NumbersUntouched
  BY <1>5 DEF PolicyOp, AlertOp, NumbersUntouched, SetGroupRetention, NoteAcceptFlood,
              BlockAlert, UnblockAlert, AddGroupBan, DeleteGroupBan
<1>6. ASSUME NEW p \in Peers, QueueOp(p)
      PROVE  NumbersUntouched
  BY <1>6 DEF QueueOp, NumbersUntouched, EnqueueFeed, CompleteFeed, FlushFeedQueue
<1>7. ASSUME NEW s \in Sweepers, SweepOp(s)
      PROVE  NumbersUntouched \/ PurgeCommit(s) \/ ExpireOverview(s)
  BY <1>7 DEF SweepOp, SweepStep, NumbersUntouched, StartSweep, PurgeAlerts, PurgeNames,
              PurgeSelect, PurgeDelete, ExpireArticles, ExpireHistory, SweepFails
<1>8. Crash \/ Tick \/ FlushFeedQueue(Peers) \/ UNCHANGED vars => NumbersUntouched
  BY DEF Crash, Tick, FlushFeedQueue, vars, NumbersUntouched
<1>9. ASSUME NEW g \in Groups, GroupOp(g)
      PROVE  (\E st \in Statuses : EnsureGroup(g, st)) \/ DeleteGroup(g)
  BY <1>9 DEF GroupOp
<1>10. ASSUME NEW c \in Cancels, CancelFails(c)
       PROVE  NumbersUntouched
  BY <1>10 DEF CancelFails, NumbersUntouched
<1> SUFFICES \/ NumbersUntouched
             \/ \E m \in MsgIds : \E listing \in Listings : Post(m, listing)
             \/ \E g \in Groups : \E st \in Statuses : EnsureGroup(g, st)
             \/ \E g \in Groups : DeleteGroup(g)
             \/ Removed
  OBVIOUS
<1> HIDE DEF Removed
<1>11. CASE UNCHANGED vars
  BY <1>8, <1>11
<1>12. CASE Next
  BY <1>1, <1>2, <1>3, <1>4, <1>5, <1>6, <1>7, <1>8, <1>9, <1>10, <1>12, WatchedAssumption,
     SMTT(30)
  DEF Next
<1> QED
  BY <1>11, <1>12

\* A recomputed low water mark brackets the rows it was computed from, and when those are
\* in the overview it does not go back.
LEMMA RecomputedLow ==
  ASSUME TypeOK, NumberInv, NEW S \in SUBSET given, NEW g \in Groups
  PROVE  /\ LowOf(S, g) \in Nat /\ LowOf(S, g) <= high[g]
         /\ LowOf(S, g) = 0 => high[g] = 0
         /\ \A r \in RowsIn(S, g) : LowOf(S, g) <= r.num
         /\ g \notin misplaced /\ RowsIn(S, g) \subseteq overview => low[g] <= LowOf(S, g)
<1> USE DEF NumberInv, MarksInv
<1>0. low[g] \in Nat /\ high[g] \in Nat /\ low[g] <= high[g] /\ S \subseteq Rows
  BY DEF TypeOK, MarksOrdered
<1>1. \A r \in RowsIn(S, g) : r.num \in Nat /\ 1 <= r.num /\ r.num <= high[g]
  BY <1>0 DEF RowsIn, GivenBelowHigh, Rows
<1>2. CASE RowsIn(S, g) = {}
  BY <1>0, <1>2 DEF LowOf
<1>3. CASE RowsIn(S, g) # {}
  <2>1. NumsIn(S, g) \subseteq Nat /\ NumsIn(S, g) # {}
    BY <1>1, <1>3 DEF NumsIn
  <2>2. LowOf(S, g) \in NumsIn(S, g) /\ \A n \in NumsIn(S, g) : LowOf(S, g) <= n
    BY <1>3, <2>1, MinIsLeast DEF LowOf
  <2>3. \A r \in RowsIn(S, g) : r.num \in NumsIn(S, g)
    BY DEF NumsIn
  <2>4. PICK r \in RowsIn(S, g) : r.num = LowOf(S, g)
    BY <2>2 DEF NumsIn
  <2>5. g \notin misplaced /\ r \in overview => low[g] <= r.num
    BY DEF RowsWithinWaterMarks, RowsIn
  <2> QED
    BY <1>0, <1>1, <2>2, <2>3, <2>4, <2>5
<1> QED
  BY <1>2, <1>3

LEMMA PostNumberInv ==
  ASSUME TypeOK, NumberInv, NEW m \in MsgIds, NEW listing \in Listings, Post(m, listing)
  PROVE  MarksInv'
<1> DEFINE new == NewRows(m, listing)
<1>1. /\ overview' = overview \cup new /\ given' = given \cup new /\ groups' = groups
      /\ misplaced' = misplaced
      /\ high' = [g \in Groups |->
                    IF g \in Carrying(listing) THEN high[g] + listing[g] ELSE high[g]]
      /\ low' = [g \in Groups |->
                   IF g \in Carrying(listing) /\ low[g] = 0 THEN high[g] + 1 ELSE low[g]]
  BY DEF Post, driftVars
<1>2. \A g \in Groups : listing[g] \in Nat /\ low[g] \in Nat /\ high[g] \in Nat
  BY ListingsAssumption DEF TypeOK
<1>3. \A r \in new : /\ r.group \in Carrying(listing) /\ r.id = m
                     /\ r.num \in Nat /\ high[r.group] < r.num
                     /\ r.num <= high[r.group] + listing[r.group]
  BY NewRowsMembers
<1>4. \A g \in Carrying(listing) : g \in Groups /\ g \in groups /\ listing[g] > 0
  BY DEF Carrying, TypeOK
<1>5. \A x \in given : /\ x.group \in Groups /\ x.group \in groups /\ x.num \in Nat
                       /\ 1 <= x.num /\ x.num <= high[x.group]
  BY DEF NumberInv, MarksInv, GivenBelowHigh, TypeOK, Rows
<1>6. \A g \in Groups : high[g] <= high'[g] /\ low[g] <= low'[g] /\ low'[g] <= high'[g]
                        /\ (low'[g] = 0 => high'[g] = 0) /\ high'[g] \in Nat /\ low'[g] \in Nat
  BY <1>1, <1>2, <1>4 DEF NumberInv, MarksInv, MarksOrdered
<1> HIDE DEF new
<1>7. GivenBelowHigh'
  BY <1>1, <1>2, <1>3, <1>4, <1>5, <1>6 DEF GivenBelowHigh
<1>8. NumberNamesOneArticle'
  <2> SUFFICES ASSUME NEW x \in given', NEW y \in given', x.group = y.group, x.num = y.num
               PROVE  x.id = y.id
    BY DEF NumberNamesOneArticle
  <2>1. CASE x \in given /\ y \in given
    BY <2>1 DEF NumberInv, MarksInv, NumberNamesOneArticle
  <2>2. CASE x \in new /\ y \in new
    BY <2>2, <1>3
  <2>3. ASSUME NEW u \in given, NEW v \in new
        PROVE  ~(u.group = v.group /\ u.num = v.num)
    BY <1>2, <1>3, <1>4, <1>5
  <2> QED
    BY <1>1, <2>1, <2>2, <2>3
<1>9. RowsWereGiven'
  BY <1>1 DEF NumberInv, MarksInv, RowsWereGiven
<1>10. MarksOrdered'
  BY <1>6 DEF MarksOrdered
<1>11. RowsWithinWaterMarks'
  <2> SUFFICES ASSUME NEW r \in overview'
               PROVE  /\ r.group \in groups' /\ r.num <= high'[r.group]
                      /\ r.group \notin misplaced => low'[r.group] <= r.num
    BY <1>1 DEF RowsWithinWaterMarks
  <2>1. CASE r \in overview
    <3>1. r \in given /\ (r.group \notin misplaced => low[r.group] <= r.num)
      BY <2>1 DEF NumberInv, MarksInv, RowsWereGiven, RowsWithinWaterMarks
    <3>2. high[r.group] # 0
      BY <1>2, <1>5, <3>1
    <3>3. low[r.group] # 0
      BY <1>5, <3>1, <3>2 DEF NumberInv, MarksInv, MarksOrdered
    <3>4. low'[r.group] = low[r.group]
      BY <1>1, <1>5, <3>1, <3>3
    <3> QED
      BY <1>1, <1>2, <1>5, <1>6, <3>1, <3>4
  <2>2. CASE r \in new
    <3>1. r.group \in Groups /\ low[r.group] <= high[r.group]
      BY <2>2, <1>3, <1>4 DEF NumberInv, MarksInv, MarksOrdered
    <3>2. low'[r.group] <= high[r.group] + 1
      BY <1>1, <1>2, <3>1
    <3> QED
      BY <1>1, <1>2, <1>3, <1>4, <1>6, <2>2, <3>1, <3>2
  <2> QED
    BY <1>1, <2>1, <2>2
<1> QED
  BY <1>7, <1>8, <1>9, <1>10, <1>11 DEF MarksInv

LowsGoForward == \A g \in Groups \ (misplaced \cup misplaced') : low[g] <= low'[g]

LEMMA RowsRemovedNumberInv ==
  ASSUME TypeOK, NumberInv, NEW hit \in SUBSET Groups, NEW rows \in SUBSET given,
         RowsRemoved(hit, rows)
  PROVE  MarksInv' /\ LowsGoForward
<1> USE DEF NumberInv, MarksInv
<1>1. \A g \in Groups : /\ LowOf(rows, g) \in Nat /\ LowOf(rows, g) <= high[g]
                        /\ LowOf(rows, g) = 0 => high[g] = 0
                        /\ \A r \in RowsIn(rows, g) : LowOf(rows, g) <= r.num
                        /\ g \notin misplaced /\ RowsIn(rows, g) \subseteq overview
                             => low[g] <= LowOf(rows, g)
  BY RecomputedLow
<1>2. \A g \in Groups : low'[g] = IF g \in hit THEN LowOf(rows, g) ELSE low[g]
  BY DEF RowsRemoved
<1>3. high' = high /\ groups' = groups /\ given' = given /\ overview' \subseteq overview
  BY DEF RowsRemoved
<1>4. \A g \in Groups : low[g] \in Nat /\ high[g] \in Nat
  BY DEF TypeOK
<1>5. \A g \in Groups \ misplaced' :
        IF g \in hit THEN RowsIn(overview', g) = RowsIn(rows, g) ELSE g \notin misplaced
  BY DEF RowsRemoved
<1>6. LowsGoForward
  <2>1. \A g : RowsIn(overview', g) \subseteq overview
    BY <1>3 DEF RowsIn
  <2> QED
    BY <1>1, <1>2, <1>4, <1>5, <2>1 DEF LowsGoForward
<1>7. MarksOrdered'
  BY <1>1, <1>2, <1>3 DEF MarksOrdered
<1>8. RowsWithinWaterMarks'
  <2> SUFFICES ASSUME NEW r \in overview'
               PROVE  /\ r.group \in groups /\ r.num <= high[r.group]
                      /\ r.group \notin misplaced' => low'[r.group] <= r.num
    BY <1>3 DEF RowsWithinWaterMarks
  <2>1. r \in overview /\ r.group \in Groups /\ r \in RowsIn(overview', r.group)
    BY <1>3 DEF TypeOK, Rows, RowsIn
  <2>2. /\ r.group \in groups /\ r.num <= high[r.group]
        /\ r.group \notin misplaced => low[r.group] <= r.num
    BY <2>1 DEF RowsWithinWaterMarks
  <2> QED
    BY <1>1, <1>2, <1>5, <2>1, <2>2
<1>9. NumberNamesOneArticle' /\ GivenBelowHigh' /\ RowsWereGiven'
  BY <1>3 DEF NumberNamesOneArticle, GivenBelowHigh, RowsWereGiven
<1> QED
  BY <1>3, <1>6, <1>7, <1>8, <1>9

LEMMA DeleteGroupNumberInv ==
  ASSUME TypeOK, NumberInv, NEW g \in Groups, DeleteGroup(g)
  PROVE  MarksInv'
<1>1. /\ overview' = overview \ RowsIn(overview, g) /\ given' = given \ RowsIn(given, g)
      /\ groups' = groups \ {g} /\ low' = [low EXCEPT ![g] = 0] /\ high' = [high EXCEPT ![g] = 0]
      /\ misplaced' = misplaced \ {g}
  BY DEF DeleteGroup, Without
<1>2. \A x \in given' : x \in given /\ x.group # g /\ x.group \in Groups
  BY <1>1 DEF RowsIn, TypeOK, Rows
<1>3. \A x \in overview' : x \in overview /\ x.group # g /\ x.group \in Groups
  BY <1>1 DEF RowsIn, TypeOK, Rows
<1>4. \A h \in Groups : h # g => low'[h] = low[h] /\ high'[h] = high[h]
  BY <1>1 DEF TypeOK
<1>5. low'[g] = 0 /\ high'[g] = 0
  BY <1>1 DEF TypeOK
<1>6. GivenBelowHigh' /\ NumberNamesOneArticle'
  BY <1>1, <1>2, <1>4 DEF NumberInv, MarksInv, GivenBelowHigh, NumberNamesOneArticle
<1>7. MarksOrdered'
  BY <1>4, <1>5 DEF NumberInv, MarksInv, MarksOrdered
<1>8. RowsWereGiven'
  BY <1>1, <1>3 DEF NumberInv, MarksInv, RowsWereGiven, RowsIn
<1>9. RowsWithinWaterMarks'
  BY <1>1, <1>3, <1>4 DEF NumberInv, MarksInv, RowsWithinWaterMarks
<1> QED
  BY <1>6, <1>7, <1>8, <1>9 DEF MarksInv

LEMMA NextMarksInv == TypeInv /\ NumberInv /\ [Next]_vars => MarksInv'
<1> SUFFICES ASSUME TypeInv, NumberInv, [Next]_vars
             PROVE  MarksInv'
  OBVIOUS
<1>0. TypeOK
  BY DEF TypeInv, Typed
<1>1. CASE NumbersUntouched
  BY <1>1 DEF NumbersUntouched, NumberInv, MarksInv, NumberNamesOneArticle, GivenBelowHigh, MarksOrdered,
              RowsWereGiven, RowsWithinWaterMarks
<1>2. ASSUME NEW m \in MsgIds, NEW listing \in Listings, Post(m, listing)
      PROVE  MarksInv'
  BY <1>0, <1>2, PostNumberInv
<1>3. ASSUME NEW g \in Groups, NEW st \in Statuses, EnsureGroup(g, st)
      PROVE  MarksInv'
  BY <1>3 DEF EnsureGroup, articleVars, driftVars, NumberInv, MarksInv,
              NumberNamesOneArticle, GivenBelowHigh,
              MarksOrdered, RowsWereGiven, RowsWithinWaterMarks
<1>4. ASSUME NEW g \in Groups, DeleteGroup(g)
      PROVE  MarksInv'
  BY <1>0, <1>4, DeleteGroupNumberInv
<1>5. ASSUME NEW hit \in SUBSET Groups, NEW rows \in SUBSET given, RowsRemoved(hit, rows)
      PROVE  MarksInv'
  BY <1>0, <1>5, RowsRemovedNumberInv
<1> QED
  BY <1>1, <1>2, <1>3, <1>4, <1>5, NumberSteps

LEMMA NextSeen == TypeInv /\ NumberInv /\ [Next]_vars => SeenWereGiven'
<1> SUFFICES ASSUME TypeInv, NumberInv, [Next]_vars, NEW s \in Sweepers
             PROVE  sweep'[s].seen \subseteq given'
  BY DEF SeenWereGiven
<1>1. /\ TypeOK /\ sweep[s].seen \subseteq given /\ overview \subseteq given
      /\ sweep'[s].seen \subseteq sweep[s].seen \cup overview
  BY KeptRows DEF TypeInv, Typed, NumberInv, MarksInv, SeenWereGiven, RowsWereGiven
<1>2. CASE given \subseteq given'
  BY <1>1, <1>2
<1>3. ASSUME NEW g \in Groups, DeleteGroup(g)
      PROVE  sweep'[s].seen \subseteq given'
  <2>1. sweep'[s].seen = sweep[s].seen \ RowsIn(sweep[s].seen, g)
    BY <1>1, <1>3 DEF DeleteGroup, TypeOK, SweepStates
  <2>2. given' = given \ RowsIn(given, g)
    BY <1>3 DEF DeleteGroup
  <2> QED
    BY <1>1, <2>1, <2>2 DEF RowsIn
<1>4. (NumbersUntouched \/ \E m \in MsgIds : \E listing \in Listings : Post(m, listing))
        => given \subseteq given'
  BY DEF NumbersUntouched, Post
<1>5. ASSUME NEW hit \in SUBSET Groups, NEW rows \in SUBSET given, RowsRemoved(hit, rows)
      PROVE  given \subseteq given'
  BY <1>5 DEF RowsRemoved
<1>6. ASSUME NEW g \in Groups, NEW st \in Statuses, EnsureGroup(g, st)
      PROVE  given \subseteq given'
  BY <1>6 DEF EnsureGroup, articleVars
<1> QED
  BY <1>2, <1>3, <1>4, <1>5, <1>6, NumberSteps

LEMMA NextNumberInv == TypeInv /\ NumberInv /\ [Next]_vars => NumberInv'
BY NextMarksInv, NextSeen DEF NumberInv

LEMMA NumbersInvariant == Spec => [](TypeInv /\ NumberInv)
<1>1. Init => TypeInv /\ NumberInv
  BY InitTypeInv, InitNumberInv
<1>2. TypeInv /\ NumberInv /\ [Next]_vars => (TypeInv /\ NumberInv)'
  BY NextTypeInv, NextNumberInv
<1> QED
  BY <1>1, <1>2, PTL DEF Spec

\* A number of a group never names two articles while the group exists, for any number
\* of posts, cancels, purges and expiries in any order (Post takes high + 1 and nothing
\* else but deleting the group lowers high).
THEOREM NumbersUnique == Spec => []NumberNamesOneArticle
BY NumbersInvariant, PTL DEF NumberInv, MarksInv

\* No article number lies above the high water mark GROUP reports, nor below the low one
\* unless a purge wrote it from a recount that missed a post or a cancel of the group.
THEOREM MarksBracketRows == Spec => []RowsWithinWaterMarks
BY NumbersInvariant, PTL DEF NumberInv, MarksInv

Forward ==
  \A g \in groups \cap groups' :
    /\ high[g] <= high'[g]
    /\ g \notin misplaced \cup misplaced' => low[g] <= low'[g]

LEMMA MarksGoForward ==
  ASSUME TypeInv, NumberInv, [Next]_vars
  PROVE  Forward
<1> USE DEF Forward
<1>0. TypeOK /\ \A g \in groups : g \in Groups
  BY DEF TypeInv, Typed, TypeOK
<1>1. \A g \in Groups : low[g] \in Nat /\ high[g] \in Nat
  BY <1>0 DEF TypeOK
<1>2. CASE NumbersUntouched
  BY <1>0, <1>1, <1>2 DEF NumbersUntouched
<1>3. ASSUME NEW m \in MsgIds, NEW listing \in Listings, Post(m, listing)
      PROVE  Forward
  <2>1. \A g \in Groups : listing[g] \in Nat /\ low[g] <= high[g]
    BY ListingsAssumption DEF NumberInv, MarksInv, MarksOrdered
  <2>2. /\ high' = [g \in Groups |->
                      IF g \in Carrying(listing) THEN high[g] + listing[g] ELSE high[g]]
        /\ low' = [g \in Groups |->
                     IF g \in Carrying(listing) /\ low[g] = 0 THEN high[g] + 1 ELSE low[g]]
    BY <1>3 DEF Post
  <2> QED
    BY <1>0, <1>1, <2>1, <2>2
<1>4. ASSUME NEW g \in Groups, NEW st \in Statuses, EnsureGroup(g, st)
      PROVE  Forward
  BY <1>0, <1>1, <1>4 DEF EnsureGroup
<1>5. ASSUME NEW g \in Groups, DeleteGroup(g)
      PROVE  Forward
  <2>1. /\ groups' = groups \ {g} /\ low' = [low EXCEPT ![g] = 0]
        /\ high' = [high EXCEPT ![g] = 0]
    BY <1>5 DEF DeleteGroup, Without
  <2>2. \A h \in groups \cap groups' : low'[h] = low[h] /\ high'[h] = high[h]
    BY <1>0, <2>1 DEF TypeOK
  <2> QED
    BY <1>0, <1>1, <2>2
<1>6. ASSUME NEW hit \in SUBSET Groups, NEW rows \in SUBSET given, RowsRemoved(hit, rows)
      PROVE  Forward
  <2>1. LowsGoForward
    BY <1>0, <1>6, RowsRemovedNumberInv
  <2>2. high' = high
    BY <1>6 DEF RowsRemoved
  <2> QED
    BY <1>0, <1>1, <2>1, <2>2 DEF LowsGoForward
<1> QED
  BY <1>2, <1>3, <1>4, <1>5, <1>6, NumberSteps

\* No operation on the store moves the high water mark of a lasting group back, nor its low
\* one except to or from a mark that a purge wrote from a recount that missed something.
THEOREM MarksNeverGoBack == Spec => WaterMarksMonotone
<1>1. TypeInv /\ NumberInv /\ [Next]_vars => [Forward]_vars
  BY MarksGoForward
<1> QED
  BY <1>1, NumbersInvariant, PTL DEF Spec, WaterMarksMonotone, Forward

-----------------------------------------------------------------------------
(* Numbering.  The marks of a group that is not there are 0, and none of them is lost. *)

AbsentBlank == \A g \in Groups \ groups : low[g] = 0 /\ high[g] = 0 /\ g \notin misplaced

ContractInv == TypeInv /\ NumberInv /\ AbsentBlank

\* A group that is not there has no rows.
LEMMA AbsentEmpty ==
  ASSUME RowsWithinWaterMarks, NEW g, g \notin groups
  PROVE  NumsIn(overview, g) = {}
BY DEF RowsWithinWaterMarks, NumsIn, RowsIn

\* A group of which nothing changes, or only rows go and the low mark moves up or is lost.
LEMMA GroupWithdraws ==
  ASSUME TypeInv, TypeInv', NumberInv', NEW g \in Groups, g \in groups, g \in groups',
         high'[g] = high[g], g \notin misplaced \cup misplaced' => low[g] <= low'[g],
         NumsIn(overview, g)' \subseteq NumsIn(overview, g)
  PROVE  Contract!Withdraws(g)
<1>1. low'[g] \in 1..high[g] \/ low'[g] = high[g]
  BY DEF TypeInv, Typed, TypeOK, NumberInv, MarksInv, MarksOrdered
<1>2. g \notin misplaced' => \A n \in NumsIn(overview, g)' : low'[g] <= n
  BY DEF NumberInv, MarksInv, RowsWithinWaterMarks, NumsIn, RowsIn
<1> QED
  BY <1>1, <1>2 DEF Contract!Withdraws

LEMMA GroupBlank ==
  ASSUME NumberInv', NEW g \in Groups, g \notin groups', low'[g] = 0, high'[g] = 0,
         g \notin misplaced'
  PROVE  Contract!Blank(g)
<1>1. NumsIn(overview, g)' = {}
  BY DEF NumberInv, MarksInv, RowsWithinWaterMarks, NumsIn, RowsIn
<1> QED
  BY <1>1 DEF Contract!Blank

\* Posts append without a gap.
LEMMA GroupAppends ==
  ASSUME TypeInv, NumberInv, NEW m \in MsgIds, NEW listing \in Listings, Post(m, listing),
         NEW g \in Carrying(listing)
  PROVE  Contract!Appends(g)
<1>1. g \in Groups /\ listing[g] \in Nat /\ listing[g] > 0 /\ high[g] \in Nat /\ low[g] \in Nat
  BY ListingsAssumption DEF TypeInv, Typed, TypeOK, Carrying
<1>2. /\ high'[g] = high[g] + listing[g]
      /\ low'[g] = IF low[g] = 0 THEN high[g] + 1 ELSE low[g]
      /\ overview' = overview \cup NewRows(m, listing) /\ misplaced' = misplaced
  BY <1>1 DEF Post, driftVars
<1>3. NumsIn(NewRows(m, listing), g) = high[g] + 1 .. high[g] + listing[g]
  <2>1. ASSUME NEW r \in NewRows(m, listing), r.group = g
        PROVE  r.num \in high[g] + 1 .. high[g] + listing[g]
    BY <1>1, <2>1, NewRowsMembers DEF TypeInv, Typed
  <2>2. ASSUME NEW n \in high[g] + 1 .. high[g] + listing[g]
        PROVE  \E r \in NewRows(m, listing) : r.group = g /\ r.num = n
    <3> DEFINE r == [group |-> g, num |-> high[g] + (n - high[g]), id |-> m]
    <3>1. n - high[g] \in 1..listing[g] /\ high[g] + (n - high[g]) = n
      BY <1>1
    <3>2. r \in NewRows(m, listing)
      BY <3>1 DEF NewRows
    <3>3. r.group = g /\ r.num = n
      BY <3>1
    <3> QED
      BY <3>2, <3>3
  <2>3. NumsIn(NewRows(m, listing), g) =
          {r.num : r \in {x \in NewRows(m, listing) : x.group = g}}
    BY DEF NumsIn, RowsIn
  <2> QED
    BY <2>1, <2>2, <2>3
<1>4. NumsIn(overview, g)' = NumsIn(overview, g) \union NumsIn(NewRows(m, listing), g)
  BY <1>2 DEF NumsIn, RowsIn
<1>5. NumsIn(overview, g)' = NumsIn(overview, g) \union (high[g] + 1 .. high'[g])
  BY <1>2, <1>3, <1>4
<1>6. high'[g] > high[g]
  BY <1>1, <1>2
<1> QED
  BY <1>1, <1>2, <1>5, <1>6 DEF Contract!Appends

LEMMA NextContract ==
  ASSUME ContractInv, [Next]_vars
  PROVE  AbsentBlank' /\ Contract!Next
<1> DEFINE nums(g) == NumsIn(overview, g)
<1>1. /\ TypeInv /\ NumberInv /\ AbsentBlank /\ TypeInv' /\ NumberInv' /\ Forward
  BY NextTypeInv, NextNumberInv, MarksGoForward DEF ContractInv
<1>2. /\ groups \subseteq Groups /\ groups' \subseteq Groups
      /\ \A g \in Groups : low[g] \in Nat /\ high[g] \in Nat
  BY <1>1 DEF TypeInv, Typed, TypeOK
\* The groups one at a time.
<1>3. ASSUME AbsentBlank',
             \A g \in Groups :
               g \in groups /\ g \in groups' => Contract!Appends(g) \/ Contract!Withdraws(g),
             \A g \in groups' \ groups : Contract!Blank(g)
      PROVE  AbsentBlank' /\ Contract!Next
  <2>1. \A g \in Groups : g \notin groups' => Contract!Blank(g)
    BY <1>1, <1>3, GroupBlank DEF AbsentBlank
  <2>2. \A g \in Groups :
          IF g \in groups /\ g \in groups' THEN Contract!Appends(g) \/ Contract!Withdraws(g)
                                           ELSE Contract!Blank(g)
    BY <1>3, <2>1
  <2>3. misplaced' \in SUBSET Groups /\ groups' \in SUBSET Groups
    BY <1>1 DEF TypeInv, Typed, TypeOK
  <2> QED
    BY <1>3, <2>2, <2>3 DEF Contract!Next
<1>4. ASSUME UNCHANGED <<groups, high>>, overview' \subseteq overview,
             \A g \in Groups \ groups : low'[g] = 0 /\ g \notin misplaced'
      PROVE  AbsentBlank' /\ Contract!Next
  <2>1. AbsentBlank'
    BY <1>1, <1>4 DEF AbsentBlank
  <2>2. ASSUME NEW g \in groups
        PROVE  Contract!Withdraws(g)
    <3>1. nums(g)' \subseteq nums(g)
      BY <1>4 DEF NumsIn, RowsIn
    <3>2. high'[g] = high[g] /\ (g \notin misplaced \cup misplaced' => low[g] <= low'[g])
      BY <1>1, <1>4 DEF Forward
    <3> QED
      BY <1>1, <1>2, <1>4, <3>1, <3>2, GroupWithdraws
  <2> QED
    BY <1>2, <1>3, <1>4, <2>1, <2>2
<1>5. CASE NumbersUntouched
  BY <1>1, <1>4, <1>5 DEF NumbersUntouched, AbsentBlank
<1>6. ASSUME NEW hit \in SUBSET Groups, NEW rows \in SUBSET given, RowsRemoved(hit, rows)
      PROVE  AbsentBlank' /\ Contract!Next
  <2>1. ASSUME NEW g \in Groups \ groups
        PROVE  low'[g] = 0 /\ g \notin misplaced'
    <3>1. RowsIn(rows, g) = {} /\ RowsIn(overview', g) = {}
      BY <1>1, <1>6, <2>1
      DEF RowsRemoved, NumberInv, MarksInv, RowsWithinWaterMarks, GivenBelowHigh, RowsIn
    <3>2. LowOf(rows, g) = 0
      BY <1>1, <3>1 DEF LowOf, AbsentBlank
    <3> QED
      BY <1>1, <1>6, <3>1, <3>2 DEF RowsRemoved, AbsentBlank
  <2> QED
    BY <1>4, <1>6, <2>1 DEF RowsRemoved
<1>7. ASSUME NEW m \in MsgIds, NEW listing \in Listings, Post(m, listing)
      PROVE  AbsentBlank' /\ Contract!Next
  <2>1. /\ overview' = overview \cup NewRows(m, listing) /\ groups' = groups
        /\ \A g \in Groups \ Carrying(listing) : low'[g] = low[g] /\ high'[g] = high[g]
        /\ Carrying(listing) \subseteq groups /\ misplaced' = misplaced
    BY <1>7 DEF Post, Carrying, driftVars
  <2>2. AbsentBlank'
    BY <1>1, <2>1 DEF AbsentBlank
  <2>3. ASSUME NEW g \in groups, g \notin Carrying(listing)
        PROVE  Contract!Withdraws(g)
    <3>1. \A r \in NewRows(m, listing) : r.group # g
      BY <1>1, <2>3, NewRowsMembers DEF TypeInv, Typed
    <3>2. nums(g)' = nums(g)
      BY <2>1, <3>1 DEF NumsIn, RowsIn
    <3>3. high'[g] = high[g] /\ low[g] <= low'[g]
      BY <1>2, <2>1, <2>3
    <3> QED
      BY <1>1, <1>2, <2>1, <3>2, <3>3, GroupWithdraws
  <2>4. \A g \in Carrying(listing) : Contract!Appends(g)
    BY <1>1, <1>7, GroupAppends
  <2> QED
    BY <1>3, <2>1, <2>2, <2>3, <2>4
<1>8. ASSUME NEW g \in Groups, NEW st \in Statuses, EnsureGroup(g, st)
      PROVE  AbsentBlank' /\ Contract!Next
  <2>1. groups' = groups \cup {g} /\ UNCHANGED <<low, high, overview, misplaced>>
    BY <1>8 DEF EnsureGroup, articleVars, driftVars
  <2>2. AbsentBlank'
    BY <1>1, <2>1 DEF AbsentBlank
  <2>3. ASSUME NEW h \in groups
        PROVE  Contract!Withdraws(h)
    <3>1. nums(h)' = nums(h)
      BY <2>1 DEF NumsIn, RowsIn
    <3>2. high'[h] = high[h] /\ low[h] <= low'[h]
      BY <1>2, <2>1
    <3> QED
      BY <1>1, <1>2, <2>1, <3>1, <3>2, GroupWithdraws
  <2>4. ASSUME NEW h \in groups' \ groups
        PROVE  Contract!Blank(h)
    <3>1. nums(h)' = {}
      BY <1>1, <2>1, <2>4, AbsentEmpty DEF NumberInv, MarksInv, NumsIn, RowsIn
    <3> QED
      BY <1>1, <1>2, <2>1, <3>1 DEF Contract!Blank, AbsentBlank
  <2> QED
    BY <1>3, <2>2, <2>3, <2>4
<1>9. ASSUME NEW g \in Groups, DeleteGroup(g)
      PROVE  AbsentBlank' /\ Contract!Next
  <2>1. /\ groups' = groups \ {g} /\ overview' = overview \ RowsIn(overview, g)
        /\ low' = [low EXCEPT ![g] = 0] /\ high' = [high EXCEPT ![g] = 0]
        /\ misplaced' = misplaced \ {g}
    BY <1>9 DEF DeleteGroup, Without
  <2>2. low'[g] = 0 /\ high'[g] = 0
        /\ \A h \in Groups : h # g => low'[h] = low[h] /\ high'[h] = high[h]
    BY <1>1, <2>1 DEF TypeInv, Typed, TypeOK
  <2>3. AbsentBlank'
    BY <1>1, <2>1, <2>2 DEF AbsentBlank
  <2>4. ASSUME NEW h \in groups'
        PROVE  Contract!Withdraws(h)
    <3>1. nums(h)' \subseteq nums(h)
      BY <2>1 DEF NumsIn, RowsIn
    <3>2. high'[h] = high[h] /\ low[h] <= low'[h]
      BY <1>2, <2>1, <2>2
    <3> QED
      BY <1>1, <1>2, <2>1, <3>1, <3>2, GroupWithdraws
  <2> QED
    BY <1>3, <2>1, <2>3, <2>4
<1> QED
  BY <1>1, <1>5, <1>6, <1>7, <1>8, <1>9, NumberSteps

LEMMA InitContract == Init => AbsentBlank /\ Contract!Init
<1> SUFFICES ASSUME Init PROVE AbsentBlank /\ Contract!Init
  OBVIOUS
<1>1. [g \in Groups |-> NumsIn(overview, g)] = [g \in Groups |-> {}]
  BY DEF Init, NumsIn, RowsIn
<1> QED
  BY <1>1 DEF Init, AbsentBlank, Contract!Init

\* The store keeps the numbering a newsreader relies on, for all mixes of posts, crossposts,
\* cancels, purges, expiry and groups that are deleted and made again.
THEOREM StoreKeepsNumbers == Spec => KeepsNumbers
<1>1. Init => ContractInv /\ Contract!Init
  BY InitTypeInv, InitNumberInv, InitContract DEF ContractInv
<1>2. ContractInv /\ [Next]_vars => ContractInv' /\ [Contract!Next]_(Contract!vars)
  BY NextTypeInv, NextNumberInv, NextContract DEF ContractInv
<1> QED
  BY <1>1, <1>2, PTL DEF Spec, KeepsNumbers, Contract!Spec

\* What Numbering itself says of the marks.  Only a newsgroup without numbers has none.
Bracketed(g) ==
  /\ low[g] <= high[g] /\ (low[g] = 0 => high[g] = 0)
  /\ \A n \in NumsIn(overview, g) : /\ g \in groups /\ 1 <= n /\ n <= high[g]
                                    /\ g \notin misplaced => low[g] <= n

LEMMA ContractBrackets ==
  ASSUME TypeOK, TypeOK', NEW g \in Groups, Bracketed(g), [Contract!Next]_(Contract!vars)
  PROVE  /\ Bracketed(g)'
         /\ g \in groups \cap groups' =>
              /\ high[g] <= high'[g]
              /\ g \notin misplaced \cup misplaced' => low[g] <= low'[g]
<1> DEFINE nums == NumsIn(overview, g)
<1>1. /\ low[g] \in Nat /\ high[g] \in Nat /\ low'[g] \in Nat /\ high'[g] \in Nat
      /\ nums \subseteq Nat /\ nums' \subseteq Nat
  BY DEF TypeOK, Rows, NumsIn, RowsIn
<1>2. CASE UNCHANGED Contract!vars
  <2>1. UNCHANGED <<groups, low, high, misplaced>> /\ nums' = nums
    <3>1. [h \in Groups |-> NumsIn(overview, h)]' = [h \in Groups |-> NumsIn(overview, h)]
          /\ UNCHANGED <<groups, low, high, misplaced>>
      BY <1>2 DEF Contract!vars
    <3>2. [h \in Groups |-> NumsIn(overview, h)]'[g] = [h \in Groups |-> NumsIn(overview, h)][g]
      BY <3>1
    <3> QED
      BY <3>1, <3>2
  <2> QED
    BY <1>1, <2>1 DEF Bracketed
<1>3. CASE Contract!Next /\ g \in groups \cap groups'
  <2>1. Contract!Appends(g) \/ Contract!Withdraws(g)
    BY <1>3 DEF Contract!Next
  <2>2. CASE Contract!Appends(g)
    <3>1. /\ high'[g] > high[g] /\ nums' = nums \union (high[g] + 1 .. high'[g])
          /\ low'[g] = IF low[g] = 0 THEN high[g] + 1 ELSE low[g]
          /\ (g \in misplaced' <=> g \in misplaced)
      BY <2>2 DEF Contract!Appends
    <3> QED
      BY <1>1, <1>3, <3>1 DEF Bracketed
  <2>3. CASE Contract!Withdraws(g)
    <3>1. /\ high'[g] = high[g] /\ nums' \subseteq nums
          /\ low'[g] \in 1..high[g] \/ low'[g] = high[g]
          /\ g \notin misplaced' => /\ \A n \in nums' : low'[g] <= n
                                    /\ g \notin misplaced => low[g] <= low'[g]
      BY <2>3 DEF Contract!Withdraws
    <3> QED
      BY <1>1, <1>3, <3>1 DEF Bracketed
  <2> QED
    BY <2>1, <2>2, <2>3
<1>4. CASE Contract!Next /\ g \notin groups \cap groups'
  <2>1. Contract!Blank(g)
    BY <1>4 DEF Contract!Next
  <2>2. nums' = {} /\ low'[g] = 0 /\ high'[g] = 0
    BY <2>1 DEF Contract!Blank
  <2> QED
    BY <1>4, <2>2 DEF Bracketed
<1> QED
  BY <1>2, <1>3, <1>4

\* Every implementation of Numbering has its rows within marks that never go back (RFC 3977,
\* 6.1.1): of the properties of the marks, none is left to be checked besides KeepsNumbers.
THEOREM NumberingBracketsRows ==
  KeepsNumbers /\ []TypeOK => []RowsWithinWaterMarks /\ WaterMarksMonotone
<1> DEFINE Inv == \A g \in Groups : Bracketed(g)
<1>1. Contract!Init /\ TypeOK => Inv
  <2> SUFFICES ASSUME Contract!Init, TypeOK, NEW g \in Groups PROVE Bracketed(g)
    OBVIOUS
  <2>1. /\ [h \in Groups |-> NumsIn(overview, h)] = [h \in Groups |-> {}]
        /\ low[g] = 0 /\ high[g] = 0
    BY DEF Contract!Init
  <2>2. [h \in Groups |-> NumsIn(overview, h)][g] = {}
    BY <2>1
  <2> QED
    BY <2>1, <2>2 DEF Bracketed
<1>2. TypeOK /\ TypeOK' /\ Inv /\ [Contract!Next]_(Contract!vars) => Inv'
  BY ContractBrackets
<1>3. TypeOK /\ Inv => RowsWithinWaterMarks
  BY DEF TypeOK, Rows, Bracketed, NumsIn, RowsIn, RowsWithinWaterMarks
<1>4. TypeOK /\ TypeOK' /\ Inv /\ [Contract!Next]_(Contract!vars) => Forward
  BY ContractBrackets DEF Forward, TypeOK
<1>5. Forward => [Forward]_vars
  OBVIOUS
<1> HIDE DEF Inv
<1> QED
  BY <1>1, <1>2, <1>3, <1>4, PTL DEF KeepsNumbers, Contract!Spec, WaterMarksMonotone, Forward

-----------------------------------------------------------------------------
(***************************************************************************)
(* The Message-ID history.  An id outside history either never was in it or *)
(* entered it more than history_days ago: the day of its row is never       *)
(* renewed, and only ExpireHistory takes rows away.                         *)
(***************************************************************************)

ForgottenIsOld ==
  \A m \in MsgIds \ history : arrivedAt[m] = Never \/ arrivedAt[m] < day - HistoryDays

HistoryInv == StoredIsRemembered /\ ForgottenIsOld

LEMMA InitHistoryInv == Init => HistoryInv
BY DEF Init, HistoryInv, StoredIsRemembered, ForgottenIsOld

LEMMA HistorySteps ==
  ASSUME TypeOK, [Next]_vars
  PROVE  \/ /\ articles' \subseteq articles
            /\ UNCHANGED <<storedAt, historyVars>>
            /\ day' \in {day, day + 1}
         \/ \E m \in MsgIds : \E listing \in Listings : Post(m, listing)
         \/ \E m \in MsgIds : /\ Remembered(m) /\ articles' \subseteq articles
                              /\ UNCHANGED <<storedAt, day>>
         \/ \E s \in Sweepers : ExpireHistory(s)
<1> USE DEF groupVars, policyVars, articleVars, historyVars
<1> DEFINE Kept == /\ articles' \subseteq articles /\ UNCHANGED <<storedAt, historyVars>>
                   /\ day' \in {day, day + 1}
<1>1. ASSUME NEW m \in MsgIds, ArticleOp(m)
      PROVE  \/ \E listing \in Listings : Post(m, listing)
             \/ Remembered(m) /\ articles' \subseteq articles /\ UNCHANGED <<storedAt, day>>
             \/ Kept
  <2>1. ASSUME NEW c \in Cancels, CancelCommits(c, m)
        PROVE  Remembered(m) /\ articles' \subseteq articles /\ UNCHANGED <<storedAt, day>>
    BY <2>1 DEF CancelCommits
  <2>2. ASSUME NEW c \in Cancels, CancelReads(c, m)
        PROVE  Kept
    BY <2>2 DEF CancelReads
  <2> QED
    BY <1>1, <2>1, <2>2 DEF ArticleOp, RememberMessageID, CancelUnknown
<1>2. ASSUME NEW g \in Groups, GroupOp(g)
      PROVE  Kept
  BY <1>2 DEF GroupOp, EnsureGroup, DeleteGroup
<1>3. ASSUME NEW g, PolicyOp(g) \/ AlertOp(g)
      PROVE  Kept
  BY <1>3 DEF PolicyOp, AlertOp, SetGroupRetention, NoteAcceptFlood, BlockAlert, UnblockAlert,
              AddGroupBan, DeleteGroupBan
<1>4. ASSUME NEW p \in Peers, QueueOp(p)
      PROVE  Kept
  BY <1>4 DEF QueueOp, EnqueueFeed, CompleteFeed, FlushFeedQueue
<1>5. ASSUME NEW s \in Sweepers, SweepOp(s)
      PROVE  Kept \/ ExpireHistory(s)
  BY <1>5 DEF SweepOp, SweepStep, StartSweep, PurgeAlerts, PurgeNames, PurgeSelect, PurgeDelete,
              PurgeCommit, ExpireOverview, ExpireArticles, SweepFails
<1>6. Crash \/ Tick \/ FlushFeedQueue(Peers) \/ (\E c \in Cancels : CancelFails(c))
        \/ UNCHANGED vars => Kept
  BY DEF CancelFails, Crash, Tick, FlushFeedQueue, vars
<1>7. CASE UNCHANGED vars
  BY <1>6, <1>7
<1>8. CASE Next
  BY <1>1, <1>2, <1>3, <1>4, <1>5, <1>6, <1>8 DEF Next
<1> QED
  BY <1>7, <1>8

LEMMA NextHistoryInv == TypeOK /\ HistoryInv /\ [Next]_vars => HistoryInv'
<1> SUFFICES ASSUME TypeOK, HistoryInv, [Next]_vars
             PROVE  HistoryInv'
  OBVIOUS
<1> USE DEF HistoryInv, StoredIsRemembered, ForgottenIsOld
<1>0. /\ day \in Nat /\ HistoryDays \in Nat /\ articles \subseteq MsgIds /\ history \subseteq MsgIds
      /\ \A m \in MsgIds : arrivedAt[m] \in Int
  BY DaysAssumption DEF TypeOK, Never
<1>1. CASE /\ articles' \subseteq articles /\ UNCHANGED <<storedAt, historyVars>>
           /\ day' \in {day, day + 1}
  BY <1>0, <1>1 DEF historyVars
<1>2. ASSUME NEW m \in MsgIds, NEW listing \in Listings, Post(m, listing)
      PROVE  HistoryInv'
  <2>1. /\ m \notin history /\ history' = history \cup {m} /\ day' = day
        /\ arrivedAt' = [arrivedAt EXCEPT ![m] = day]
        /\ storedAt' = [storedAt EXCEPT ![m] = day] /\ articles' = articles \cup {m}
    BY <1>2 DEF Post, Remembered
  <2> QED
    BY <1>0, <2>1 DEF TypeOK
<1>3. ASSUME NEW m \in MsgIds, Remembered(m), articles' \subseteq articles,
             UNCHANGED <<storedAt, day>>
      PROVE  HistoryInv'
  <2>1. CASE m \in history
    <3>1. history' = history /\ arrivedAt' = arrivedAt
      BY <1>3, <2>1 DEF Remembered
    <3> QED
      BY <1>0, <1>3, <3>1
  <2>2. CASE m \notin history
    <3>1. history' = history \cup {m} /\ arrivedAt' = [arrivedAt EXCEPT ![m] = day]
      BY <1>3, <2>2 DEF Remembered
    <3> QED
      BY <1>0, <1>3, <2>2, <3>1 DEF TypeOK
  <2> QED
    BY <2>1, <2>2
<1>4. ASSUME NEW s \in Sweepers, ExpireHistory(s)
      PROVE  HistoryInv'
  <2>1. /\ history' = history \ Forgettable /\ day' = day
        /\ UNCHANGED <<articles, storedAt, arrivedAt>>
    BY <1>4 DEF ExpireHistory, articleVars
  <2> QED
    BY <1>0, <2>1 DEF Forgettable
<1> QED
  BY <1>1, <1>2, <1>3, <1>4, HistorySteps

LEMMA HistoryInvariant == Spec => [](TypeOK /\ HistoryInv)
BY InitHistoryInv, NextHistoryInv, TypeCorrect, PTL DEF Spec

\* No window opens in which a stored article's Message-ID is not in history: a second
\* copy from any peer, reader or import is always refused by the first statement of Post.
THEOREM StoredAlwaysRemembered == Spec => []StoredIsRemembered
BY HistoryInvariant, PTL DEF HistoryInv

\* Whatever took an article away (cancel, purge, expiry, deletion of its group), it is
\* not accepted again before history_days have passed since it arrived.
THEOREM NoEarlyReaccept == Spec => NoReacceptWithinHistoryDays
<1> DEFINE Late == \A m \in articles' \ articles :
                     arrivedAt[m] # Never => day - arrivedAt[m] > HistoryDays
<1>1. TypeOK /\ HistoryInv /\ [Next]_vars => [Late]_vars
  <2> SUFFICES ASSUME TypeOK, HistoryInv, [Next]_vars
               PROVE  Late
    OBVIOUS
  <2>1. ASSUME NEW m \in MsgIds, NEW listing \in Listings, Post(m, listing)
        PROVE  Late
    <3>1. m \notin history /\ articles' = articles \cup {m}
      BY <2>1 DEF Post
    <3>2. day \in Nat /\ HistoryDays \in Nat /\ arrivedAt[m] \in Int
      BY DaysAssumption DEF TypeOK, Never
    <3> QED
      BY <3>1, <3>2 DEF HistoryInv, ForgottenIsOld
  <2>2. ASSUME NEW s \in Sweepers, ExpireHistory(s)
        PROVE  Late
    BY <2>2 DEF ExpireHistory, articleVars
  <2> QED
    BY <2>1, <2>2, HistorySteps
<1> QED
  BY <1>1, HistoryInvariant, PTL DEF Spec, NoReacceptWithinHistoryDays

-----------------------------------------------------------------------------
(* Whole articles: their rows, the counts of their groups, and their       *)
(* withdrawal.                                                             *)

RowsUntouched == UNCHANGED <<articles, overview, given, count, miscounted>>

LEMMA RowSteps ==
  ASSUME [Next]_vars
  PROVE  \/ RowsUntouched
         \/ \E m \in MsgIds : \/ \E c \in Cancels : CancelCommits(c, m)
                              \/ \E listing \in Listings : Post(m, listing)
         \/ \E g \in Groups : DeleteGroup(g)
         \/ \E s \in Sweepers : PurgeCommit(s) \/ ExpireOverview(s) \/ ExpireArticles(s)
<1> USE DEF RowsUntouched, groupVars, articleVars, driftVars
<1>1. ASSUME NEW m \in MsgIds, ArticleOp(m)
      PROVE  \/ RowsUntouched
             \/ \E c \in Cancels : CancelCommits(c, m)
             \/ \E listing \in Listings : Post(m, listing)
  BY <1>1 DEF ArticleOp, RememberMessageID, CancelUnknown, CancelReads
<1>2. ASSUME NEW g \in Groups, GroupOp(g)
      PROVE  RowsUntouched \/ DeleteGroup(g)
  BY <1>2 DEF GroupOp, EnsureGroup
<1>3. ASSUME NEW g, PolicyOp(g) \/ AlertOp(g)
      PROVE  RowsUntouched
  BY <1>3 DEF PolicyOp, AlertOp, SetGroupRetention, NoteAcceptFlood, BlockAlert, UnblockAlert,
              AddGroupBan, DeleteGroupBan
<1>4. ASSUME NEW p \in Peers, QueueOp(p)
      PROVE  RowsUntouched
  BY <1>4 DEF QueueOp, EnqueueFeed, CompleteFeed, FlushFeedQueue
<1>5. ASSUME NEW s \in Sweepers, SweepOp(s)
      PROVE  RowsUntouched \/ PurgeCommit(s) \/ ExpireOverview(s) \/ ExpireArticles(s)
  BY <1>5 DEF SweepOp, SweepStep, StartSweep, PurgeAlerts, PurgeNames, PurgeSelect,
              PurgeDelete, ExpireHistory, SweepFails
<1>6. Crash \/ Tick \/ FlushFeedQueue(Peers) \/ (\E c \in Cancels : CancelFails(c))
        \/ UNCHANGED vars => RowsUntouched
  BY DEF CancelFails, Crash, Tick, FlushFeedQueue, vars
<1> QED
  BY <1>1, <1>2, <1>3, <1>4, <1>5, <1>6 DEF Next

-----------------------------------------------------------------------------
(* Rows and articles. *)

LEMMA NextRefers == TypeOK /\ RowsReferToArticles /\ [Next]_vars => RowsReferToArticles'
<1> SUFFICES ASSUME TypeOK, RowsReferToArticles, [Next]_vars
             PROVE  RowsReferToArticles'
  OBVIOUS
<1> USE DEF RowsReferToArticles
<1>1. CASE RowsUntouched
  BY <1>1 DEF RowsUntouched
<1>2. ASSUME NEW m \in MsgIds, NEW listing \in Listings, Post(m, listing)
      PROVE  RowsReferToArticles'
  BY <1>2, NewRowsMembers DEF Post
<1>3. ASSUME NEW c \in Cancels, NEW m \in MsgIds, CancelCommits(c, m)
      PROVE  RowsReferToArticles'
  BY <1>3 DEF CancelCommits, RowsOf
<1>4. ASSUME NEW g \in Groups, DeleteGroup(g)
      PROVE  RowsReferToArticles'
  BY <1>4 DEF DeleteGroup, RowsIn, RowsOf
<1>5. ASSUME NEW s \in Sweepers, PurgeCommit(s)
      PROVE  RowsReferToArticles'
  BY <1>5 DEF PurgeCommit, RowsOf
<1>6. ASSUME NEW s \in Sweepers, ExpireOverview(s) \/ ExpireArticles(s)
      PROVE  RowsReferToArticles'
  BY <1>6 DEF ExpireOverview, ExpireArticles, Orphans, RowsOf
<1> QED
  BY <1>1, <1>2, <1>3, <1>4, <1>5, <1>6, RowSteps

\* No row is left without its article, whatever order a deletion, a cancel, a purge and the
\* statements of an expiry come in (the constraints of overview, postgres.go).
THEOREM RowsKeepTheirArticles == Spec => []RowsReferToArticles
<1>1. Init => RowsReferToArticles
  BY DEF Init, RowsReferToArticles
<1> QED
  BY <1>1, NextRefers, TypeCorrect, PTL DEF Spec

-----------------------------------------------------------------------------
(* Counts. *)

Counted(g) == Cardinality(RowsIn(overview, g)) <= count[g]

\* Fewer rows need no more to be counted.
LEMMA FewerRows ==
  ASSUME TypeInv, NEW g \in Groups, Counted(g),
         RowsIn(overview, g)' \subseteq RowsIn(overview, g), count'[g] = count[g]
  PROVE  Counted(g)'
<1>1. /\ IsFiniteSet(RowsIn(overview, g)) /\ Cardinality(RowsIn(overview, g)) \in Nat
      /\ count[g] \in Nat
  BY CardinalityIsNat DEF TypeInv, Typed, FiniteOverview, TypeOK
<1>2. /\ Cardinality(RowsIn(overview, g)') <= Cardinality(RowsIn(overview, g))
      /\ Cardinality(RowsIn(overview, g)') \in Nat
  BY <1>1, FS_Subset, FS_CardinalityType
<1> QED
  BY <1>1, <1>2 DEF Counted

\* A Post adds as many rows to a group as it counts.
LEMMA NewRowsCounted ==
  ASSUME TypeOK, NEW m \in MsgIds, NEW listing \in Listings, NEW g \in Carrying(listing)
  PROVE  LET new == RowsIn(NewRows(m, listing), g)
         IN  IsFiniteSet(new) /\ Cardinality(new) \in Nat /\ Cardinality(new) <= listing[g]
<1> DEFINE new == RowsIn(NewRows(m, listing), g)
           row == [i \in 1..listing[g] |-> [group |-> g, num |-> high[g] + i, id |-> m]]
<1>1. listing[g] \in Nat
  BY ListingsAssumption DEF Carrying, TypeOK
<1>2. IsFiniteSet(1..listing[g]) /\ Cardinality(1..listing[g]) = listing[g]
  BY <1>1, FS_Interval
<1>3. row \in Surjection(1..listing[g], new)
  <2>1. ASSUME NEW i \in 1..listing[g]
        PROVE  row[i] \in new
    BY <2>1 DEF NewRows, RowsIn
  <2>2. ASSUME NEW r \in new
        PROVE  \E i \in 1..listing[g] : row[i] = r
    BY <2>2 DEF NewRows, RowsIn
  <2> HIDE DEF new
  <2> QED
    BY <2>1, <2>2 DEF Surjection
<1> HIDE DEF new, row
<1>4. IsFiniteSet(new) /\ Cardinality(new) <= listing[g]
  BY <1>2, <1>3, FS_Surjection
<1> QED
  BY <1>4, FS_CardinalityType DEF new

LEMMA PostCounts ==
  ASSUME TypeInv, CountCoversRows, NEW m \in MsgIds, NEW listing \in Listings, Post(m, listing)
  PROVE  CountCoversRows'
<1> SUFFICES ASSUME NEW g \in Groups \ miscounted
             PROVE  Counted(g)'
  BY DEF CountCoversRows, Counted, Post, driftVars
<1> USE DEF TypeInv, Typed
<1> DEFINE old == RowsIn(overview, g)
           new == RowsIn(NewRows(m, listing), g)
<1>1. RowsIn(overview, g)' = old \cup new
  BY DEF Post, RowsIn
<1>2. IsFiniteSet(old) /\ Cardinality(old) \in Nat /\ count[g] \in Nat /\ Cardinality(old) <= count[g]
  BY CardinalityIsNat DEF FiniteOverview, TypeOK, CountCoversRows
<1>3. CASE g \in Carrying(listing)
  <2>1. IsFiniteSet(new) /\ Cardinality(new) \in Nat /\ Cardinality(new) <= listing[g]
    BY <1>3, NewRowsCounted
  <2>2. count'[g] = count[g] + listing[g] /\ listing[g] \in Nat
    BY <1>3, ListingsAssumption DEF Post
  <2> HIDE DEF old, new
  <2>3. /\ Cardinality(old \cup new) = Cardinality(old) + Cardinality(new) - Cardinality(old \cap new)
        /\ Cardinality(old \cap new) \in Nat
    BY <1>2, <2>1, FS_Union, FS_Subset, FS_CardinalityType
  <2>4. Cardinality(old \cup new) <= count'[g]
    BY <1>2, <2>1, <2>2, <2>3
  <2> QED
    BY <1>1, <2>4 DEF Counted
<1>4. CASE g \notin Carrying(listing)
  <2>1. new = {}
    BY <1>4, NewRowsMembers DEF RowsIn
  <2>2. count'[g] = count[g]
    BY <1>4 DEF Post
  <2> QED
    BY <1>1, <2>1, <2>2, FewerRows DEF CountCoversRows, Counted
<1> QED
  BY <1>3, <1>4

\* A cancel whose rows are all there to be removed subtracts what it removes.
LEMMA CancelCounts ==
  ASSUME TypeInv, CountCoversRows, NEW c \in Cancels, NEW m \in MsgIds, CancelCommits(c, m)
  PROVE  CountCoversRows'
<1> SUFFICES ASSUME NEW g \in Groups \ miscounted'
             PROVE  Counted(g)'
  BY DEF CountCoversRows, Counted
<1> USE DEF TypeInv, Typed
<1> DEFINE all  == RowsIn(overview, g)
           gone == RowsIn(cancel[c].rows, g)
           left == RowsIn(overview, g)'
<1>1. /\ overview' \subseteq overview
      /\ miscounted' = miscounted \cup {r.group : r \in cancel[c].rows \ (overview \ overview')}
  BY DEF CancelCommits
<1>2. left \subseteq all \ gone /\ gone \subseteq all /\ g \notin miscounted
  BY <1>1 DEF RowsIn
<1>3. IsFiniteSet(all) /\ Cardinality(all) \in Nat /\ count[g] \in Nat /\ Cardinality(all) <= count[g]
  BY <1>2, CardinalityIsNat DEF FiniteOverview, TypeOK, CountCoversRows
<1>4. CASE g \in {r.group : r \in cancel[c].rows}
  <2>1. count'[g] = Fewer(g, cancel[c].rows)
    BY <1>4 DEF CancelCommits
  <2>2. count'[g] = Max({count[g] - Cardinality(gone), 0})
    BY <2>1 DEF Fewer
  <2> HIDE DEF all, gone, left
  <2>3. all \cap gone = gone
    BY <1>2
  <2>4. /\ Cardinality(gone) \in Nat
        /\ Cardinality(all \ gone) = Cardinality(all) - Cardinality(gone)
    BY <1>2, <1>3, <2>3, FS_Difference, FS_Subset, FS_CardinalityType
  <2>5. /\ IsFiniteSet(all \ gone) /\ Cardinality(left) \in Nat
        /\ Cardinality(left) <= Cardinality(all \ gone)
    BY <1>2, <1>3, FS_Subset, FS_CardinalityType
  <2>6. count[g] - Cardinality(gone) \in Int
    BY <1>3, <2>4
  <2>7. count'[g] \in Nat /\ count[g] - Cardinality(gone) <= count'[g]
    BY <2>2, <2>6, AtLeastZero
  <2>8. Cardinality(left) <= count'[g]
    BY <1>3, <2>4, <2>5, <2>7
  <2> QED
    BY <2>8 DEF Counted, left
<1>5. CASE g \notin {r.group : r \in cancel[c].rows}
  <2>1. count'[g] = count[g] /\ left \subseteq all
    BY <1>2, <1>5 DEF CancelCommits
  <2> QED
    BY <1>2, <2>1, FewerRows DEF CountCoversRows, Counted
<1> QED
  BY <1>4, <1>5

LEMMA NextCounts == TypeInv /\ CountCoversRows /\ [Next]_vars => CountCoversRows'
<1> SUFFICES ASSUME TypeInv, CountCoversRows, [Next]_vars
             PROVE  CountCoversRows'
  OBVIOUS
<1>1. CASE RowsUntouched
  BY <1>1 DEF RowsUntouched, CountCoversRows
<1>2. ASSUME NEW g \in Groups, DeleteGroup(g)
      PROVE  CountCoversRows'
  <2> SUFFICES ASSUME NEW h \in Groups \ miscounted'
               PROVE  Counted(h)'
    BY DEF CountCoversRows, Counted
  <2>1. /\ overview' = overview \ RowsIn(overview, g) /\ count' = [count EXCEPT ![g] = 0]
        /\ miscounted' = miscounted \ {g}
    BY <1>2 DEF DeleteGroup, Without
  <2>2. CASE h = g
    <3>1. RowsIn(overview, h)' = {} /\ count'[h] = 0
      BY <2>1, <2>2 DEF RowsIn, TypeInv, Typed, TypeOK
    <3> QED
      BY <3>1, FS_EmptySet DEF Counted
  <2>3. CASE h # g
    <3>1. RowsIn(overview, h)' \subseteq RowsIn(overview, h) /\ count'[h] = count[h]
      BY <2>1, <2>3 DEF RowsIn, TypeInv, Typed, TypeOK
    <3> QED
      BY <2>1, <2>3, <3>1, FewerRows DEF CountCoversRows, Counted
  <2> QED
    BY <2>2, <2>3
<1>3. ASSUME NEW s \in Sweepers, PurgeCommit(s)
      PROVE  CountCoversRows'
  <2> SUFFICES ASSUME NEW g \in Groups \ miscounted'
               PROVE  Counted(g)'
    BY DEF CountCoversRows, Counted
  <2> DEFINE hit  == sweep[s].affected
             seen == sweep[s].seen
  <2>1. /\ overview' \subseteq overview
        /\ count'[g] = IF g \in hit THEN Cardinality(RowsIn(seen, g)) ELSE count[g]
        /\ miscounted' = (miscounted \ hit) \cup
                          {h \in hit : ~(RowsIn(overview', h) \subseteq seen)}
    BY <1>3 DEF PurgeCommit
  <2>2. RowsIn(overview, g)' \subseteq RowsIn(overview, g)
    BY <2>1 DEF RowsIn
  <2>3. CASE g \in hit
    <3>1. RowsIn(overview, g)' \subseteq RowsIn(seen, g)
      BY <2>1, <2>3 DEF RowsIn
    <3>2. IsFiniteSet(RowsIn(seen, g))
      BY CardinalityIsNat DEF TypeInv, FiniteKept
    <3> QED
      BY <2>1, <2>3, <3>1, <3>2, FS_Subset DEF Counted
  <2>4. CASE g \notin hit
    BY <2>1, <2>2, <2>4, FewerRows DEF CountCoversRows, Counted
  <2> QED
    BY <2>3, <2>4
<1>4. ASSUME NEW s \in Sweepers, ExpireOverview(s) \/ ExpireArticles(s)
      PROVE  CountCoversRows'
  <2> SUFFICES ASSUME NEW g \in Groups \ miscounted
               PROVE  Counted(g)'
    BY <1>4 DEF CountCoversRows, Counted, ExpireOverview, ExpireArticles, driftVars
  <2>1. RowsIn(overview, g)' \subseteq RowsIn(overview, g) /\ count'[g] = count[g]
    BY <1>4 DEF ExpireOverview, ExpireArticles, groupVars, RowsIn
  <2> QED
    BY <2>1, FewerRows DEF CountCoversRows, Counted
<1> QED
  BY <1>1, <1>2, <1>3, <1>4, PostCounts, CancelCounts, RowSteps

\* The count of a group falls below its articles only after a cancel of rows that were gone
\* by then or a recount that missed a post: otherwise cancels that subtract, a purge that
\* recounts and an expiry that does neither may follow one another in any order.
THEOREM CountsCoverRows == Spec => []CountCoversRows
<1>1. Init => CountCoversRows
  <2> SUFFICES ASSUME Init, NEW g \in Groups
               PROVE  Cardinality(RowsIn(overview, g)) <= count[g]
    BY DEF CountCoversRows
  <2>1. RowsIn(overview, g) = {} /\ count[g] = 0
    BY DEF Init, RowsIn
  <2> QED
    BY <2>1, FS_EmptySet
<1>2. Init => TypeInv
  BY InitTypeInv
<1>3. TypeInv /\ CountCoversRows /\ [Next]_vars => (TypeInv /\ CountCoversRows)'
  BY NextTypeInv, NextCounts
<1> QED
  BY <1>1, <1>2, <1>3, PTL DEF Spec

-----------------------------------------------------------------------------
(* Withdrawal. *)

\* Whoever removes a row of an article that stays has deleted its group or lets that group
\* expire: a cancel and the end of a purge take all rows of a crosspost.
THEOREM WithdrawnAsAWhole == Spec => WithdrawnEverywhere
<1> DEFINE A == \A r \in overview \ overview' :
                  r.id \in articles' => r.group \notin groups' \/ keep[r.group] > 0
<1>1. [Next]_vars => [A]_vars
  <2> SUFFICES ASSUME [Next]_vars, NEW r \in overview \ overview', r.id \in articles'
               PROVE  r.group \notin groups' \/ keep[r.group] > 0
    OBVIOUS
  <2>1. CASE RowsUntouched
    BY <2>1 DEF RowsUntouched
  <2>2. ASSUME NEW m \in MsgIds, NEW listing \in Listings, Post(m, listing)
        PROVE  FALSE
    BY <2>2 DEF Post
  <2>3. ASSUME NEW c \in Cancels, NEW m \in MsgIds, CancelCommits(c, m)
        PROVE  FALSE
    BY <2>3 DEF CancelCommits, RowsOf
  <2>4. ASSUME NEW g \in Groups, DeleteGroup(g)
        PROVE  r.group \notin groups'
    BY <2>4 DEF DeleteGroup, RowsIn
  <2>5. ASSUME NEW s \in Sweepers, PurgeCommit(s)
        PROVE  FALSE
    BY <2>5 DEF PurgeCommit, RowsOf
  <2>6. ASSUME NEW s \in Sweepers, ExpireOverview(s) \/ ExpireArticles(s)
        PROVE  keep[r.group] > 0
    BY <2>6 DEF ExpireOverview, ExpireArticles, Overdue
  <2> QED
    BY <2>1, <2>2, <2>3, <2>4, <2>5, <2>6, RowSteps
<1> QED
  BY <1>1, PTL DEF Spec, WithdrawnEverywhere

\* A queue row outlives its article only when the article went with its last group or had
\* no row left: cancel and purge delete it in their transaction.
THEOREM WithdrawnBeforeDelivery == Spec => WithdrawnFromQueue
<1> DEFINE A == \A q \in queue \cap queue' :
                  q[2] \in articles \ articles' =>
                    \A r \in RowsOf(overview, {q[2]}) : r.group \notin groups'
<1>1. [Next]_vars => [A]_vars
  <2> SUFFICES ASSUME [Next]_vars, NEW q \in queue \cap queue', q[2] \in articles \ articles',
                      NEW r \in RowsOf(overview, {q[2]})
               PROVE  r.group \notin groups'
    OBVIOUS
  <2>1. CASE RowsUntouched
    BY <2>1 DEF RowsUntouched
  <2>2. ASSUME NEW m \in MsgIds, NEW listing \in Listings, Post(m, listing)
        PROVE  FALSE
    BY <2>2 DEF Post
  <2>3. ASSUME NEW c \in Cancels, NEW m \in MsgIds, CancelCommits(c, m)
        PROVE  FALSE
    BY <2>3 DEF CancelCommits, Unqueued
  <2>4. ASSUME NEW g \in Groups, DeleteGroup(g)
        PROVE  r.group \notin groups'
    BY <2>4 DEF DeleteGroup
  <2>5. ASSUME NEW s \in Sweepers, PurgeCommit(s)
        PROVE  FALSE
    BY <2>5 DEF PurgeCommit, Unqueued
  <2>6. ASSUME NEW s \in Sweepers, ExpireOverview(s) \/ ExpireArticles(s)
        PROVE  FALSE
    BY <2>6 DEF ExpireOverview, ExpireArticles, Orphans
  <2> QED
    BY <2>1, <2>2, <2>3, <2>4, <2>5, <2>6, RowSteps
<1> QED
  BY <1>1, PTL DEF Spec, WithdrawnFromQueue
=============================================================================
