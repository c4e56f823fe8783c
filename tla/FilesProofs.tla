---------------------------- MODULE FilesProofs -----------------------------
(*************************************************************************)
(* What is proved of the parts that keep files: Spool, ArchiveJobs and   *)
(* PathStats, each for every value of its constants.                     *)
(*************************************************************************)
EXTENDS Spool, ArchiveJobs, PathStats, FiniteSetTheorems, WellFoundedInduction, TLAPS

-----------------------------------------------------------------------------
(* Spool: the mbox files and the sweeps that scrub them.                   *)

Entries == [msg : Messages, depth : Nat]

\* The message is in the file of the group, or will be appended to it.
GoesTo(m, g) ==
  InFile(m, g) \/ \E p \in DOMAIN posting : posting[p].msg = m /\ g \in posting[p].left

\* A scrub that is to come looks at every file a message of its purge can be in, but where
\* the message had lost its row.
ScrubReachesAll ==
  \A s \in SpoolSweepers : \A m \in toScrub[s].ids :
    /\ m \in purged
    /\ \A g \in SpoolGroups :
         GoesTo(m, g) => g \in toScrub[s].drop \union toScrub[s].rewrite \union rowless[m]

\* A message goes to the files of the groups it has or had a row in.
FiledByRow ==
  \A m \in Messages :
    /\ filed[m] # {} => m \in seen \ purged
    /\ \A g \in SpoolGroups : GoesTo(m, g) =>
         m \in seen /\ (m \in purged \/ g \in filed[m] \union rowless[m])

ToBeScrubbed(m) == \E s \in SpoolSweepers : m \in toScrub[s].ids

\* A purged article whose appends are not over will be scrubbed, or will be missed.
PurgedInFlight == \A m \in purged \intersect InFlight : m \in missed \/ ToBeScrubbed(m)

SpoolTypes ==
  /\ SpoolTypeOK
  /\ mbox \in [SpoolGroups -> SUBSET Entries]
  /\ \A p \in DOMAIN posting : posting[p].left # {} => posting[p].msg \in Messages

SpoolInv == SpoolTypes /\ ScrubReachesAll /\ FiledByRow /\ PurgedInFlight /\ PurgedLeavesSpool

LEMMA InitSpoolInv == SpoolInit => SpoolInv
<1> SUFFICES ASSUME SpoolInit PROVE SpoolInv
  OBVIOUS
<1>1. \A p \in DOMAIN posting : posting[p].left = {}
  BY DEF SpoolInit, NoPost
<1>2. \A m \in Messages, g \in SpoolGroups : ~GoesTo(m, g)
  BY <1>1 DEF SpoolInit, GoesTo, InFile
<1> QED
  BY <1>1, <1>2, SpoolAssumption
  DEF SpoolInit, SpoolInv, SpoolTypes, SpoolTypeOK, ScrubReachesAll, FiledByRow, PurgedInFlight,
      PurgedLeavesSpool, NoPost, NoSweep, Entries

-----------------------------------------------------------------------------

\* What is neither a purge nor a scrub: a message is remembered before it goes anywhere, and
\* then goes to where it has a row, had one, or went before.
LEMMA FilingKeeps ==
  ASSUME SpoolInv, SpoolTypes', UNCHANGED <<purged, missed, toScrub>>, seen \subseteq seen',
         \A m \in Messages : /\ rowless[m] \subseteq rowless'[m]
                             /\ filed'[m] # {} => m \in seen'
                             /\ m \in seen => /\ filed'[m] \subseteq filed[m]
                                              /\ filed[m] \subseteq filed'[m] \union rowless'[m],
         \A m \in Messages, g \in SpoolGroups :
           GoesTo(m, g)' => GoesTo(m, g) \/ (m \in seen' \ seen /\ g \in filed'[m]),
         \A m \in Messages, g \in SpoolGroups : InFile(m, g)' => InFile(m, g) \/ m \in InFlight,
         InFlight' \subseteq InFlight \union (Messages \ seen)
  PROVE  SpoolInv'
<1>1. purged \subseteq seen /\ seen \subseteq Messages
  BY DEF SpoolInv, SpoolTypes, SpoolTypeOK
<1>2. ScrubReachesAll'
  <2> SUFFICES ASSUME NEW s \in SpoolSweepers, NEW m \in toScrub[s].ids
               PROVE  /\ m \in purged
                      /\ \A g \in SpoolGroups : GoesTo(m, g)' =>
                           g \in toScrub[s].drop \union toScrub[s].rewrite \union rowless'[m]
    BY DEF ScrubReachesAll
  <2>1. m \in purged /\ m \in seen /\ m \in Messages
    BY <1>1 DEF SpoolInv, ScrubReachesAll
  <2> QED
    BY <2>1 DEF SpoolInv, ScrubReachesAll
<1>3. FiledByRow'
  <2>2. \A m \in Messages : filed'[m] # {} => m \in seen' \ purged
    BY <1>1 DEF SpoolInv, FiledByRow
  <2> SUFFICES ASSUME NEW m \in Messages, NEW g \in SpoolGroups, GoesTo(m, g)'
               PROVE  m \in seen' /\ (m \in purged \/ g \in filed'[m] \union rowless'[m])
    BY <2>2 DEF FiledByRow
  <2>1. GoesTo(m, g) => m \in seen /\ (m \in purged \/ g \in filed[m] \union rowless[m])
    BY DEF SpoolInv, FiledByRow
  <2> QED
    BY <2>1
<1>4. PurgedInFlight'
  BY <1>1 DEF SpoolInv, PurgedInFlight, ToBeScrubbed
<1>5. PurgedLeavesSpool'
  <2> SUFFICES ASSUME NEW m \in purged \ missed, NEW g \in SpoolGroups \ rowless'[m], InFile(m, g)'
               PROVE  ToBeScrubbed(m)
    BY DEF PurgedLeavesSpool, ToBeScrubbed
  <2>1. m \in Messages /\ g \notin rowless[m]
    BY <1>1
  <2> QED
    BY <2>1 DEF SpoolInv, PurgedInFlight, PurgedLeavesSpool, ToBeScrubbed
<1> QED
  BY <1>2, <1>3, <1>4, <1>5 DEF SpoolInv

LEMMA PostingKeeps ==
  ASSUME SpoolInv, NEW p \in Posters \union Importers,
         \/ \E m \in Messages : Check(p, m)
         \/ StorePosted(p)
         \/ \E g \in SpoolGroups : Append1(p, g) \/ AppendFails(p, g)
  PROVE  SpoolInv'
<1> USE SpoolAssumption
<1> DEFINE Posting == [msg : Messages \union {Nothing}, left : SUBSET SpoolGroups]
           here == posting[p]
<1>0. posting \in [Posters \union Importers -> Posting] /\ here \in Posting
  BY DEF SpoolInv, SpoolTypes, SpoolTypeOK
\* A poster that has nothing to append after the step.
<1>1. ASSUME posting' \in [Posters \union Importers -> Posting], posting'[p].left = {},
             \A q \in DOMAIN posting \ {p} : posting'[q] = posting[q],
             UNCHANGED <<filingVars, mbox, banned, toScrub, purged, missed>>
      PROVE  SpoolInv'
  <2>1. InFlight' \subseteq InFlight
    BY <1>0, <1>1 DEF InFlight
  <2>2. \A m \in Messages, g \in SpoolGroups : InFile(m, g)' <=> InFile(m, g)
    BY <1>1 DEF InFile
  <2>3. \A m \in Messages, g \in SpoolGroups : GoesTo(m, g)' => GoesTo(m, g)
    BY <1>0, <1>1, <2>2 DEF GoesTo
  <2>4. SpoolTypes'
    BY <1>0, <1>1 DEF SpoolInv, SpoolTypes, SpoolTypeOK, filingVars
  <2> QED
    BY <1>1, <2>1, <2>2, <2>3, <2>4, FilingKeeps DEF filingVars, SpoolInv, FiledByRow
<1>2. ASSUME NEW m \in Messages, Check(p, m) PROVE SpoolInv'
  <2>1. /\ posting' = [posting EXCEPT ![p] = [msg |-> m, left |-> {}]]
        /\ UNCHANGED <<filingVars, mbox, banned, toScrub, purged, missed>>
    BY <1>2 DEF Check
  <2> QED
    BY <1>0, <1>1, <2>1
<1>3. CASE StorePosted(p)
  <2> DEFINE m == posting[p].msg
             in == GroupsOf[m] \intersect listed
  <2>1. m \in Messages /\ here.left = {}
    BY <1>0, <1>3 DEF StorePosted
  <2>2. CASE m \in seen \/ in = {}
    <3>1. /\ posting' = [posting EXCEPT ![p] = NoPost]
          /\ UNCHANGED <<filingVars, mbox, banned, toScrub, purged, missed>>
      BY <1>3, <2>2 DEF StorePosted, filingVars
    <3> QED
      BY <1>0, <1>1, <3>1 DEF NoPost
  <2>3. CASE m \notin seen /\ in # {}
    <3>1. /\ posting' = [posting EXCEPT ![p] = [msg |-> m, left |-> in]]
          /\ seen' = seen \union {m} /\ filed' = [filed EXCEPT ![m] = in]
          /\ UNCHANGED <<listed, rowless, mbox, banned, toScrub, purged, missed>>
      BY <1>0, <1>3, <2>3 DEF StorePosted
    <3>2. /\ posting' \in [Posters \union Importers -> Posting]
          /\ posting'[p] = [msg |-> m, left |-> in]
          /\ \A q \in DOMAIN posting \ {p} : posting'[q] = posting[q]
      BY <1>0, <2>1, <3>1
    <3>3. InFlight' \subseteq InFlight \union {m}
      BY <1>0, <3>2 DEF InFlight
    <3>4. /\ filed \in [Messages -> SUBSET SpoolGroups] /\ filed'[m] = in
          /\ \A n \in Messages \ {m} : filed'[n] = filed[n]
          /\ filed' \in [Messages -> SUBSET SpoolGroups]
      BY <2>1, <3>1 DEF SpoolInv, SpoolTypes, SpoolTypeOK
    <3>5. \A n \in Messages, g \in SpoolGroups : InFile(n, g)' <=> InFile(n, g)
      BY <3>1 DEF InFile
    <3>6. \A n \in Messages, g \in SpoolGroups :
            GoesTo(n, g)' => GoesTo(n, g) \/ (n = m /\ g \in in)
      BY <1>0, <3>2, <3>5 DEF GoesTo
    <3>7. SpoolTypes'
      BY <1>0, <2>1, <3>1, <3>2, <3>4 DEF SpoolInv, SpoolTypes, SpoolTypeOK
    <3>8. \A n \in Messages : filed'[n] # {} => n \in seen'
      BY <3>1, <3>4 DEF SpoolInv, FiledByRow
    <3> HIDE DEF m, in
    <3> QED
      BY <2>1, <2>3, <3>1, <3>3, <3>4, <3>5, <3>6, <3>7, <3>8, FilingKeeps
  <2> QED
    BY <2>2, <2>3
<1>4. ASSUME NEW g \in SpoolGroups, g \in here.left,
             \E rest \in SUBSET here.left : posting' = [posting EXCEPT ![p] = Left(p, rest)],
             mbox' = mbox \/ mbox' = [mbox EXCEPT ![g] = @ \union {[msg |-> here.msg, depth |-> Escape(Depth[here.msg])]}],
             UNCHANGED <<filingVars, banned, toScrub, purged, missed>>
      PROVE SpoolInv'
  <2>1. here.msg \in InFlight /\ here.msg \in Messages
    <3>1. GoesTo(here.msg, g)
      BY <1>0, <1>4 DEF GoesTo
    <3>2. here.msg \in Messages
      BY <1>0, <1>4 DEF SpoolInv, SpoolTypes, SpoolTypeOK
    <3> QED
      BY <1>0, <1>4, <3>2 DEF InFlight
  <2>2. /\ posting' \in [Posters \union Importers -> Posting] /\ posting'[p].left \subseteq here.left
        /\ posting'[p].left # {} => posting'[p].msg = here.msg
        /\ \A q \in DOMAIN posting \ {p} : posting'[q] = posting[q]
    BY <1>0, <1>4 DEF Left, NoPost
  <2>3. InFlight' \subseteq InFlight
    BY <1>0, <2>2 DEF InFlight
  <2>4. /\ mbox' \in [SpoolGroups -> SUBSET Entries]
        /\ \A h \in SpoolGroups : \A e \in mbox'[h] : e \in mbox[h] \/ (h = g /\ e.msg = here.msg)
    <3>1. mbox \in [SpoolGroups -> SUBSET Entries]
      BY DEF SpoolInv, SpoolTypes
    <3> DEFINE new == [msg |-> here.msg, depth |-> Escape(Depth[here.msg])]
    <3>2. new \in Entries /\ new.msg = here.msg
      BY <2>1 DEF Entries, Escape
    <3>3. mbox' = mbox \/ mbox' = [mbox EXCEPT ![g] = @ \union {new}]
      BY <1>4
    <3> HIDE DEF new
    <3> QED
      BY <3>1, <3>2, <3>3
  <2>5. SpoolTypes'
    BY <1>0, <1>4, <2>1, <2>2, <2>4 DEF SpoolInv, SpoolTypes, SpoolTypeOK, filingVars, Entries
  <2>6. \A m \in Messages, h \in SpoolGroups :
          InFile(m, h)' => InFile(m, h) \/ (m = here.msg /\ h = g)
    BY <2>4 DEF InFile
  <2>7. \A m \in Messages, h \in SpoolGroups : GoesTo(m, h)' => GoesTo(m, h)
    BY <1>0, <1>4, <2>2, <2>6 DEF GoesTo
  <2>8. \A m \in Messages, h \in SpoolGroups : InFile(m, h)' => InFile(m, h) \/ m \in InFlight
    BY <2>1, <2>6
  <2> HIDE DEF here
  <2> QED
    BY <1>4, <2>3, <2>5, <2>7, <2>8, FilingKeeps DEF filingVars, SpoolInv, FiledByRow
<1> QED
  BY <1>2, <1>3, <1>4 DEF Append1, AppendFails

\* Bans, groups and rows come and go: the files and what is to be appended stay.
LEMMA GroupsKeep ==
  ASSUME SpoolInv,
         \/ \E g \in SpoolGroups : Ban(g) \/ RemoveGroup(g) \/ AddGroup(g)
         \/ \E g \in SpoolGroups, m \in Messages : RowExpires(m, g)
         \/ UNCHANGED spoolVars
  PROVE  SpoolInv'
<1>1. UNCHANGED <<seen, mbox, posting, toScrub, purged, missed>>
  BY DEF Ban, RemoveGroup, AddGroup, RowExpires, spoolVars, filingVars
<1>2. filed \in [Messages -> SUBSET SpoolGroups] /\ rowless \in [Messages -> SUBSET SpoolGroups]
  BY DEF SpoolInv, SpoolTypes, SpoolTypeOK
<1>3. /\ filed' \in [Messages -> SUBSET SpoolGroups] /\ rowless' \in [Messages -> SUBSET SpoolGroups]
      /\ listed' \subseteq SpoolGroups /\ banned' \subseteq SpoolGroups
      /\ \A m \in Messages : /\ filed'[m] \subseteq filed[m] /\ rowless[m] \subseteq rowless'[m]
                             /\ filed[m] \ filed'[m] \subseteq rowless'[m]
  <2>1. listed \subseteq SpoolGroups /\ banned \subseteq SpoolGroups
    BY DEF SpoolInv, SpoolTypes, SpoolTypeOK
  <2>2. CASE \E g \in SpoolGroups : RemoveGroup(g)
    BY <1>2, <2>1, <2>2 DEF RemoveGroup
  <2>3. CASE \E g \in SpoolGroups, m \in Messages : RowExpires(m, g)
    BY <1>2, <2>1, <2>3 DEF RowExpires, LoseRow
  <2> QED
    BY <1>2, <2>1, <2>2, <2>3 DEF Ban, AddGroup, spoolVars, filingVars
<1>4. \A m \in Messages, g \in SpoolGroups :
        (InFile(m, g)' <=> InFile(m, g)) /\ (GoesTo(m, g)' <=> GoesTo(m, g))
  BY <1>1 DEF InFile, GoesTo
<1>5. InFlight' = InFlight
  BY <1>1 DEF InFlight
<1>6. SpoolTypes'
  BY <1>1, <1>3 DEF SpoolInv, SpoolTypes, SpoolTypeOK
<1>7. \A m \in Messages : filed'[m] # {} => m \in seen'
  BY <1>1, <1>3 DEF SpoolInv, FiledByRow
<1> QED
  BY <1>1, <1>3, <1>4, <1>5, <1>6, <1>7, FilingKeeps

LEMMA PurgeKeeps ==
  ASSUME SpoolInv, NEW s \in SpoolSweepers, Purge(s)
  PROVE  SpoolInv'
<1> DEFINE job == [drop |-> UnwantedGroups, rewrite |-> Siblings(Doomed), ids |-> Doomed]
<1>1. /\ toScrub[s] = NoSweep /\ toScrub' = [toScrub EXCEPT ![s] = job]
      /\ filed' = [m \in Messages |-> IF m \in Doomed THEN {} ELSE filed[m]]
      /\ purged' = purged \union Doomed
      /\ UNCHANGED <<listed, seen, rowless, mbox, posting, banned, missed>>
  BY DEF Purge
<1>2. /\ Doomed \subseteq seen /\ Doomed \subseteq Messages
      /\ Siblings(Doomed) \subseteq SpoolGroups /\ UnwantedGroups \subseteq SpoolGroups
      /\ \A m \in Doomed : filed[m] \subseteq UnwantedGroups \union Siblings(Doomed)
  BY DEF Doomed, Siblings, UnwantedGroups, SpoolInv, SpoolTypes, SpoolTypeOK, FiledByRow
<1>3. /\ toScrub' \in [SpoolSweepers -> [drop : SUBSET SpoolGroups, rewrite : SUBSET SpoolGroups, ids : SUBSET Messages]]
      /\ toScrub'[s] = job /\ \A t \in SpoolSweepers \ {s} : toScrub'[t] = toScrub[t]
  BY <1>1, <1>2 DEF SpoolInv, SpoolTypes, SpoolTypeOK
<1>4. SpoolTypes'
  BY <1>1, <1>2, <1>3 DEF SpoolInv, SpoolTypes, SpoolTypeOK
<1>5. \A m \in Messages : ToBeScrubbed(m) \/ m \in Doomed => ToBeScrubbed(m)'
  BY <1>1, <1>3 DEF ToBeScrubbed, NoSweep
<1>6. purged' \subseteq Messages /\ InFlight' = InFlight
  BY <1>1, <1>2 DEF InFlight, SpoolInv, SpoolTypes, SpoolTypeOK
<1>7. \A m \in Messages, g \in SpoolGroups :
        (InFile(m, g)' <=> InFile(m, g)) /\ (GoesTo(m, g)' <=> GoesTo(m, g))
  BY <1>1 DEF InFile, GoesTo
<1>8. \A m \in Messages, g \in SpoolGroups :
        GoesTo(m, g) => m \in purged \/ g \in filed[m] \union rowless[m]
  BY DEF SpoolInv, FiledByRow
<1>9. PurgedInFlight'
  BY <1>1, <1>5, <1>6 DEF SpoolInv, PurgedInFlight
<1>10. PurgedLeavesSpool'
  <2> SUFFICES ASSUME NEW m \in purged' \ missed', NEW g \in SpoolGroups \ rowless'[m], InFile(m, g)'
               PROVE  ToBeScrubbed(m)'
    BY DEF PurgedLeavesSpool, ToBeScrubbed
  <2>1. CASE m \in Doomed
    BY <1>2, <1>5, <2>1
  <2>2. CASE m \in purged
    <3>1. m \in Messages /\ m \in purged \ missed /\ g \in SpoolGroups \ rowless[m] /\ InFile(m, g)
      BY <1>1, <1>6, <1>7, <2>2
    <3>2. ToBeScrubbed(m)
      BY <3>1 DEF SpoolInv, PurgedLeavesSpool, ToBeScrubbed
    <3> QED
      BY <1>5, <3>1, <3>2
  <2> QED
    BY <1>1, <2>1, <2>2
<1>11. FiledByRow'
  <2> SUFFICES ASSUME NEW m \in Messages
               PROVE  /\ filed'[m] # {} => m \in seen' \ purged'
                      /\ \A g \in SpoolGroups : GoesTo(m, g)' =>
                           m \in seen' /\ (m \in purged' \/ g \in filed'[m] \union rowless'[m])
    BY DEF FiledByRow
  <2> QED
    BY <1>1, <1>7 DEF SpoolInv, FiledByRow
<1>12. ScrubReachesAll'
  <2> SUFFICES ASSUME NEW t \in SpoolSweepers, NEW m \in toScrub'[t].ids
               PROVE  /\ m \in purged'
                      /\ \A g \in SpoolGroups : GoesTo(m, g)' =>
                           g \in toScrub'[t].drop \union toScrub'[t].rewrite \union rowless'[m]
    BY DEF ScrubReachesAll
  <2>1. CASE t # s
    <3>1. toScrub'[t] = toScrub[t] /\ m \in toScrub[t].ids /\ m \in Messages
      BY <1>3, <2>1 DEF SpoolInv, SpoolTypes, SpoolTypeOK
    <3> QED
      BY <1>1, <1>7, <3>1 DEF SpoolInv, ScrubReachesAll
  <2>2. CASE t = s /\ ~(m \in purged)
    <3>1. m \in Doomed /\ toScrub'[t].drop = UnwantedGroups /\ toScrub'[t].rewrite = Siblings(Doomed)
      BY <1>3, <2>2
    <3> QED
      BY <1>1, <1>2, <1>7, <1>8, <2>2, <3>1
  <2>3. CASE t = s /\ m \in purged
    <3>1. m \in Doomed
      BY <1>3, <2>3
    <3> QED
      BY <1>2, <2>3, <3>1 DEF Doomed, SpoolInv, FiledByRow
  <2> QED
    BY <2>1, <2>2, <2>3
<1> QED
  BY <1>4, <1>9, <1>10, <1>11, <1>12 DEF SpoolInv

\* A sweeper's scrub is over: files only lose messages, what it leaves of its purge is missed.
LEMMA ScrubKeeps ==
  ASSUME SpoolInv, NEW s \in SpoolSweepers, Scrub(s) \/ ScrubFails(s)
  PROVE  SpoolInv'
<1> USE SpoolAssumption
<1> DEFINE job == toScrub[s]
<1>1. /\ toScrub' = [toScrub EXCEPT ![s] = NoSweep]
      /\ missed \subseteq missed' /\ missed' \subseteq missed \union job.ids
      /\ job.ids \intersect InFlight \subseteq missed'
      /\ UNCHANGED <<listed, filed, seen, rowless, posting, banned, purged>>
  BY DEF Scrub, ScrubFails, filingVars
<1>2. /\ toScrub' \in [SpoolSweepers -> [drop : SUBSET SpoolGroups, rewrite : SUBSET SpoolGroups, ids : SUBSET Messages]]
      /\ toScrub'[s] = NoSweep /\ \A t \in SpoolSweepers \ {s} : toScrub'[t] = toScrub[t]
  BY <1>1 DEF SpoolInv, SpoolTypes, SpoolTypeOK, NoSweep
<1>3. /\ mbox' \in [SpoolGroups -> SUBSET Entries]
      /\ \A g \in SpoolGroups : mbox'[g] \subseteq mbox[g]
      /\ \A m, g : InFile(m, g)' /\ g \in SpoolGroups => InFile(m, g)
      /\ \A m, g : GoesTo(m, g)' /\ g \in SpoolGroups => GoesTo(m, g)
  <2>1. /\ mbox' \in [SpoolGroups -> SUBSET Entries]
        /\ \A g \in SpoolGroups : mbox'[g] \subseteq mbox[g]
    BY DEF Scrub, ScrubFails, Scrubbed, RewriteMbox, SpoolInv, SpoolTypes
  <2>2. \A m, g : InFile(m, g)' /\ g \in SpoolGroups => InFile(m, g)
    BY <2>1 DEF InFile
  <2> QED
    BY <1>1, <2>1, <2>2 DEF GoesTo
<1>4. \A m \in Messages : ToBeScrubbed(m) => ToBeScrubbed(m)' \/ m \in job.ids
  BY <1>2 DEF ToBeScrubbed
<1>5. /\ job.ids \subseteq purged /\ purged \subseteq Messages
      /\ \A m \in job.ids, g \in SpoolGroups :
           GoesTo(m, g) => g \in job.drop \union job.rewrite \union rowless[m]
  BY DEF SpoolInv, ScrubReachesAll, SpoolTypes, SpoolTypeOK
<1>6. SpoolTypes' /\ ScrubReachesAll' /\ FiledByRow'
  <2>1. SpoolTypes'
    BY <1>1, <1>2, <1>3, <1>5 DEF SpoolInv, SpoolTypes, SpoolTypeOK, NoSweep, Entries
  <2>2. ScrubReachesAll'
    BY <1>1, <1>2, <1>3 DEF SpoolInv, ScrubReachesAll, NoSweep
  <2>3. FiledByRow'
    <3> SUFFICES ASSUME NEW m \in Messages
                 PROVE  /\ filed'[m] # {} => m \in seen' \ purged'
                        /\ \A g \in SpoolGroups : GoesTo(m, g)' =>
                             m \in seen' /\ (m \in purged' \/ g \in filed'[m] \union rowless'[m])
      BY DEF FiledByRow
    <3> QED
      BY <1>1, <1>3 DEF SpoolInv, FiledByRow
  <2> QED
    BY <2>1, <2>2, <2>3
<1>7. PurgedInFlight'
  BY <1>1, <1>4, <1>5 DEF SpoolInv, PurgedInFlight, InFlight
<1>8. ASSUME NEW m \in job.ids, NEW g \in SpoolGroups \ rowless[m], m \notin missed', InFile(m, g)'
      PROVE  FALSE
  <2>1. Scrub(s)
    BY <1>8 DEF ScrubFails
  <2>2. g \in job.drop \union job.rewrite
    BY <1>3, <1>5, <1>8 DEF GoesTo
  <2> QED
    BY <1>8, <2>1, <2>2 DEF Scrub, Scrubbed, RewriteMbox, MessageDropped, InFile
<1>9. PurgedLeavesSpool'
  <2> SUFFICES ASSUME NEW m \in purged \ missed', NEW g \in SpoolGroups \ rowless[m], InFile(m, g)'
               PROVE  ToBeScrubbed(m)'
    BY <1>1 DEF PurgedLeavesSpool, ToBeScrubbed
  <2>1. m \notin job.ids /\ InFile(m, g) /\ m \notin missed /\ m \in Messages
    BY <1>1, <1>3, <1>5, <1>8 DEF InFile
  <2> QED
    BY <1>4, <2>1 DEF SpoolInv, PurgedLeavesSpool, ToBeScrubbed
<1> QED
  BY <1>6, <1>7, <1>9 DEF SpoolInv

LEMMA CrashKeeps ==
  ASSUME SpoolInv, SpoolCrash
  PROVE  SpoolInv'
<1>1. /\ missed' = missed \union UNION {toScrub[s].ids : s \in SpoolSweepers}
      /\ toScrub' = [s \in SpoolSweepers |-> NoSweep]
      /\ posting' = [p \in Posters \union Importers |-> NoPost]
      /\ UNCHANGED <<listed, filed, seen, rowless, mbox, banned, purged>>
  BY DEF SpoolCrash, filingVars, SpoolInv, SpoolTypes, SpoolTypeOK
<1>2. \A m : ToBeScrubbed(m) => m \in missed'
  BY <1>1 DEF ToBeScrubbed
<1>3. missed' \subseteq purged /\ InFlight' = {}
  BY <1>1 DEF SpoolInv, SpoolTypes, SpoolTypeOK, ScrubReachesAll, InFlight, NoPost
<1>4. \A m \in Messages, g \in SpoolGroups : GoesTo(m, g)' => GoesTo(m, g)
  BY <1>1 DEF GoesTo, InFile, NoPost
<1>5. SpoolTypes' /\ ScrubReachesAll' /\ PurgedInFlight'
  BY <1>1, <1>3
  DEF SpoolInv, SpoolTypes, SpoolTypeOK, ScrubReachesAll, PurgedInFlight, NoSweep, NoPost
<1>6. FiledByRow'
  <2> SUFFICES ASSUME NEW m \in Messages
               PROVE  /\ filed'[m] # {} => m \in seen' \ purged'
                      /\ \A g \in SpoolGroups : GoesTo(m, g)' =>
                           m \in seen' /\ (m \in purged' \/ g \in filed'[m] \union rowless'[m])
    BY DEF FiledByRow
  <2> QED
    BY <1>1, <1>4 DEF SpoolInv, FiledByRow
<1>7. PurgedLeavesSpool'
  BY <1>1, <1>2 DEF SpoolInv, PurgedLeavesSpool, ToBeScrubbed, InFile
<1> QED
  BY <1>5, <1>6, <1>7 DEF SpoolInv

LEMMA NextSpoolInv == ASSUME SpoolInv, [SpoolNext]_spoolVars PROVE SpoolInv'
BY PostingKeeps, GroupsKeep, PurgeKeeps, ScrubKeeps, CrashKeeps DEF SpoolNext

-----------------------------------------------------------------------------

\* Files, posts, imports and sweeps hold what they may hold.
THEOREM SpoolTypeCorrect == SpoolSpec => []SpoolTypeOK
<1>1. SpoolInv => SpoolTypeOK
  BY DEF SpoolInv, SpoolTypes
<1> QED
  BY <1>1, InitSpoolInv, NextSpoolInv, PTL DEF SpoolSpec

\* What a purge removed from the store leaves the mbox files of all the groups it had a row in
\* then, unless its scrub failed or was lost, or an append of it was still to come (Scrub,
\* server.go:311): there are no other copies of it but where its row expired or its group was
\* deleted before.
THEOREM PurgedIsScrubbed == SpoolSpec => []PurgedLeavesSpool
<1>1. SpoolInv => PurgedLeavesSpool
  BY DEF SpoolInv
<1> QED
  BY <1>1, InitSpoolInv, NextSpoolInv, PTL DEF SpoolSpec

-----------------------------------------------------------------------------
(* ArchiveJobs: exports and their retention.                               *)

Exports == [step : {"writing", "failed", "over"}, dir : 1..MaxSecond,
            open : SUBSET Files, done : SUBSET Files]

Busy(e) == export[e] # NotExporting

ArchiveTypes ==
  /\ ArchiveTypeOK
  /\ export \in [Exporters -> {NotExporting} \union Exports]
  /\ jobs \in [ExportJobs \union ImportJobs ->
                [status : {"none", "running", "done", "error"}, files : Nat]]
  /\ \A e \in Exporters : Busy(e) => export[e].dir <= second

\* A directory that is gone, or will be before it is the newest again, has a newer one.
Overtaken(d) == \E n \in DOMAIN dirs : n > d

\* What an export has written is there, until a newer directory is.
WhatIsDone(e) ==
  LET x == export[e] IN
  /\ x.dir \in DOMAIN dirs
  /\ x.open \union x.done \subseteq DOMAIN dirs[x.dir]
  /\ \A f \in x.done : dirs[x.dir][f] = "whole"

\* A directory that no other export was begun in has what its export wrote.
ExportsStand ==
  \A e \in Exporters : Busy(e) =>
    /\ export[e].dir \in DOMAIN dirs \/ Overtaken(export[e].dir)
    /\ export[e].dir \notin shared => WhatIsDone(e) \/ Overtaken(export[e].dir)

\* Exports in one directory make it a shared one.
AloneUnlessShared ==
  \A e, x \in Exporters :
    Busy(e) /\ Busy(x) /\ e # x /\ export[e].dir = export[x].dir => export[e].dir \in shared

ArchiveInv == ArchiveTypes /\ ExportsStand /\ AloneUnlessShared

LEMMA InitArchiveInv == ArchiveInit => ArchiveInv
<1> SUFFICES ASSUME ArchiveInit PROVE ArchiveInv
  OBVIOUS
<1>1. ArchiveTypes
  BY ArchiveAssumption DEF ArchiveInit, ArchiveTypes, ArchiveTypeOK, NoJob, Busy
<1>2. \A e \in Exporters : ~Busy(e)
  BY DEF ArchiveInit, Busy
<1> QED
  BY <1>1, <1>2 DEF ArchiveInv, ExportsStand, AloneUnlessShared

-----------------------------------------------------------------------------

\* The newest directory there is stays: a prune takes no directory without leaving a newer one.
LEMMA PruneLeavesNewest ==
  ASSUME ArchiveTypes, NEW d \in DOMAIN dirs
  PROVE  \E n \in Newest : n >= d
<1> USE ArchiveAssumption
<1>1. DOMAIN dirs \subseteq 1..second /\ second \in Nat
  BY DEF ArchiveTypes, ArchiveTypeOK
<1> DEFINE ages == {second - n : n \in {x \in DOMAIN dirs : x >= d}}
<1>2. ages \in SUBSET Nat /\ ages # {}
  BY <1>1
<1>3. PICK a \in ages : \A b \in ages : ~(<<b, a>> \in OpToRel(<, Nat))
  BY <1>2, NatLessThanWellFounded, WFMin, Zenon
<1>4. \A b \in ages : ~(b < a)
  BY <1>2, <1>3 DEF OpToRel
<1>5. PICK n \in DOMAIN dirs : n >= d /\ a = second - n
  OBVIOUS
<1>6. {x \in DOMAIN dirs : x > n} = {}
  <2> SUFFICES ASSUME NEW x \in DOMAIN dirs, x > n PROVE FALSE
    OBVIOUS
  <2>1. x >= d /\ second - x < a
    BY <1>1, <1>5
  <2>2. second - x \in ages
    BY <2>1
  <2> QED
    BY <1>4, <2>1, <2>2
<1>7. Cardinality({x \in DOMAIN dirs : x > n}) = 0
  BY <1>6, FS_EmptySet
<1> QED
  BY <1>5, <1>7 DEF Newest

\* A directory that is not overtaken stands a prune; one that is stays so.
LEMMA PruneKeeps ==
  ASSUME ArchiveTypes, PruneOldExports
  PROVE  /\ DOMAIN dirs' \subseteq DOMAIN dirs
         /\ \A d \in DOMAIN dirs' : dirs'[d] = dirs[d]
         /\ \A d \in DOMAIN dirs : d \in DOMAIN dirs' \/ Overtaken(d)'
         /\ \A d \in Nat : Overtaken(d) => Overtaken(d)'
<1>1. dirs' = [d \in Newest |-> dirs[d]] /\ DOMAIN dirs' = Newest /\ Newest \subseteq DOMAIN dirs
  BY DEF PruneOldExports, Newest
<1>2. DOMAIN dirs \subseteq Nat
  BY DEF ArchiveTypes, ArchiveTypeOK
<1>3. \A d \in DOMAIN dirs : d \in DOMAIN dirs' \/ Overtaken(d)'
  BY <1>1, <1>2, PruneLeavesNewest DEF Overtaken
<1>4. \A d \in Nat : Overtaken(d) => Overtaken(d)'
  <2> SUFFICES ASSUME NEW d \in Nat, NEW m \in DOMAIN dirs, m > d PROVE \E n \in Newest : n > d
    BY <1>1 DEF Overtaken
  <2>1. PICK n \in Newest : n >= m
    BY PruneLeavesNewest
  <2> QED
    BY <1>1, <1>2, <2>1
<1> QED
  BY <1>1, <1>3, <1>4

\* Any step that begins no export, and loses no newest directory.
LEMMA ExportsStay ==
  ASSUME ArchiveInv,
         \A d \in DOMAIN dirs : d \in DOMAIN dirs' \/ Overtaken(d)',
         \A d \in Nat : Overtaken(d) => Overtaken(d)',
         shared' = shared,
         \A e \in Exporters : Busy(e)' => Busy(e) /\ export'[e].dir = export[e].dir,
         \A e \in Exporters : Busy(e)' /\ export[e].dir \notin shared /\ WhatIsDone(e)
                                => WhatIsDone(e)' \/ Overtaken(export[e].dir)'
  PROVE  ExportsStand' /\ AloneUnlessShared'
<1>1. \A e \in Exporters : Busy(e) => export[e].dir \in Nat
  BY DEF ArchiveInv, ArchiveTypes, Busy, Exports
<1>2. ExportsStand'
  <2> SUFFICES ASSUME NEW e \in Exporters, Busy(e)'
               PROVE  /\ (export[e].dir \in DOMAIN dirs)' \/ Overtaken(export[e].dir)'
                      /\ (export[e].dir \notin shared)' => WhatIsDone(e)' \/ Overtaken(export[e].dir)'
    BY DEF ExportsStand
  <2>1. PICK d \in Nat : d = export[e].dir /\ export'[e].dir = d /\ Busy(e)
    BY <1>1
  <2>2. d \in DOMAIN dirs \/ Overtaken(d)
    BY <2>1 DEF ArchiveInv, ExportsStand
  <2>3. d \notin shared => WhatIsDone(e) \/ Overtaken(d)
    BY <2>1 DEF ArchiveInv, ExportsStand
  <2>4. Overtaken(d)' => Overtaken(export[e].dir)'
    BY <2>1 DEF Overtaken
  <2> QED
    BY <2>1, <2>2, <2>3, <2>4
<1>3. AloneUnlessShared'
  BY DEF ArchiveInv, AloneUnlessShared
<1> QED
  BY <1>2, <1>3

\* An export finds a directory of its own, or shares it from then on.
LEMMA BeginKeeps == ASSUME ArchiveInv, NEW e \in Exporters, Begin(e) PROVE ArchiveInv'
<1> USE ArchiveAssumption
<1> DEFINE new == [step |-> "writing", dir |-> second, open |-> {}, done |-> {}]
<1>1. second \in 1..MaxSecond /\ DOMAIN dirs \subseteq 1..second /\ ~Busy(e)
  BY DEF Begin, Busy, ArchiveInv, ArchiveTypes, ArchiveTypeOK
<1>2. new \in Exports /\ new # NotExporting /\ new.dir = second /\ new.open = {} /\ new.done = {}
  BY <1>1 DEF Exports, NotExporting
<1>3. /\ export' = [export EXCEPT ![e] = new]
      /\ shared' = IF second \in DOMAIN dirs THEN shared \union {second} ELSE shared
      /\ UNCHANGED <<second, jobs>>
      /\ DOMAIN dirs' = DOMAIN dirs \union {second}
      /\ \A d \in DOMAIN dirs : dirs'[d] = dirs[d]
      /\ second \notin DOMAIN dirs => DOMAIN dirs'[second] = {}
  BY DEF Begin
<1> HIDE DEF new
<1>4. /\ export' \in [Exporters -> {NotExporting} \union Exports] /\ export'[e] = new
      /\ \A x \in Exporters \ {e} : export'[x] = export[x]
  BY <1>2, <1>3 DEF ArchiveInv, ArchiveTypes
<1>5. ArchiveTypes'
  BY <1>1, <1>2, <1>3, <1>4 DEF ArchiveInv, ArchiveTypes, ArchiveTypeOK, Busy, Exports
<1>6. \A x \in Exporters \ {e} : (Busy(x)' <=> Busy(x)) /\ (WhatIsDone(x) => WhatIsDone(x)')
  BY <1>3, <1>4 DEF Busy, WhatIsDone
<1>7. \A x \in Exporters \ {e} : Busy(x) => /\ export[x].dir \in Nat
                                            /\ export[x].dir = second => second \in DOMAIN dirs
  <2>1. \A x \in Exporters \ {e} : Busy(x) => export[x].dir \in 1..second
    BY <1>1 DEF ArchiveInv, ArchiveTypes, Exports, Busy
  <2>2. ~Overtaken(second)
    BY <1>1 DEF Overtaken
  <2> QED
    BY <2>1, <2>2 DEF ArchiveInv, ExportsStand
<1>8. AloneUnlessShared'
  BY <1>2, <1>3, <1>4, <1>6, <1>7 DEF ArchiveInv, AloneUnlessShared
<1>9. \A d \in Nat : Overtaken(d) => Overtaken(d)'
  BY <1>3 DEF Overtaken
<1>10. ExportsStand'
  <2> SUFFICES ASSUME NEW x \in Exporters, Busy(x)'
               PROVE  /\ (export[x].dir \in DOMAIN dirs)' \/ Overtaken(export[x].dir)'
                      /\ (export[x].dir \notin shared)' => WhatIsDone(x)' \/ Overtaken(export[x].dir)'
    BY DEF ExportsStand
  <2>1. CASE x = e
    <3>1. export'[e].dir \in DOMAIN dirs' /\ export'[e].open = {} /\ export'[e].done = {}
      BY <1>2, <1>3, <1>4
    <3> QED
      BY <2>1, <3>1 DEF WhatIsDone
  <2>2. CASE x # e
    <3>1. PICK d \in Nat : d = export[x].dir /\ export'[x].dir = d /\ Busy(x)
      BY <1>4, <1>6, <1>7, <2>2
    <3>2. (d \in DOMAIN dirs \/ Overtaken(d)) /\ (d \notin shared => WhatIsDone(x) \/ Overtaken(d))
      BY <3>1 DEF ArchiveInv, ExportsStand
    <3>3. Overtaken(d) => Overtaken(export[x].dir)'
      BY <1>3, <3>1 DEF Overtaken
    <3> QED
      BY <1>3, <1>6, <2>2, <3>1, <3>2, <3>3
  <2> QED
    BY <2>1, <2>2
<1> QED
  BY <1>5, <1>8, <1>10 DEF ArchiveInv

\* A step of the export of e that leaves the directories but its own as they are.
LEMMA WritingKeeps ==
  ASSUME ArchiveInv, NEW e \in Exporters, Busy(e), NEW new \in Exports,
         export' = [export EXCEPT ![e] = new], new.dir = export[e].dir,
         DOMAIN dirs' = DOMAIN dirs,
         \A d \in DOMAIN dirs : d # export[e].dir => dirs'[d] = dirs[d],
         \A d \in DOMAIN dirs : DOMAIN dirs'[d] \subseteq Files,
         export[e].dir \notin shared /\ WhatIsDone(e) => WhatIsDone(e)',
         jobs' \in [ExportJobs \union ImportJobs ->
                     [status : {"none", "running", "done", "error"}, files : Nat]],
         UNCHANGED <<second, shared>>
  PROVE  ArchiveInv'
<1>1. /\ export' \in [Exporters -> {NotExporting} \union Exports] /\ export'[e] = new
      /\ \A x \in Exporters \ {e} : export'[x] = export[x]
  BY DEF ArchiveInv, ArchiveTypes
<1>2. new.step \in {"writing", "failed", "over"} /\ new.open \union new.done \subseteq Files
  BY DEF Exports
<1>3. \A x \in Exporters : Busy(x)' => Busy(x) /\ export'[x].dir = export[x].dir
  BY <1>1 DEF Busy
<1>4. ArchiveTypes'
  BY <1>1, <1>2, <1>3 DEF ArchiveInv, ArchiveTypes, ArchiveTypeOK, Busy
<1>5. \A d \in Nat : Overtaken(d) => Overtaken(d)'
  BY DEF Overtaken
<1>6. ASSUME NEW x \in Exporters, Busy(x)', export[x].dir \notin shared, WhatIsDone(x)
      PROVE  WhatIsDone(x)'
  <2>1. CASE x = e
    BY <1>6, <2>1
  <2>2. CASE x # e
    <3>1. export[x].dir # export[e].dir
      BY <1>3, <1>6, <2>2 DEF ArchiveInv, AloneUnlessShared
    <3> QED
      BY <1>1, <1>6, <2>2, <3>1 DEF WhatIsDone
  <2> QED
    BY <2>1, <2>2
<1> QED
  BY <1>3, <1>4, <1>5, <1>6, ExportsStay DEF ArchiveInv

LEMMA BusyExport ==
  ASSUME ArchiveInv, NEW e \in Exporters, export[e].step \in {"writing", "failed", "over"}
  PROVE  Busy(e) /\ export[e] \in Exports
BY DEF ArchiveInv, ArchiveTypes, Busy, NotExporting

LEMMA JobTypes ==
  ArchiveInv => jobs \in [ExportJobs \union ImportJobs ->
                          [status : {"none", "running", "done", "error"}, files : Nat]]
BY DEF ArchiveInv, ArchiveTypes

LEMMA CreateFileKeeps ==
  ASSUME ArchiveInv, NEW e \in Exporters, NEW f \in Files, CreateFile(e, f) PROVE ArchiveInv'
<1> DEFINE x == export[e]
<1>1. Busy(e) /\ x \in Exports /\ f \notin x.done /\ UNCHANGED <<second, jobs, shared>>
  BY BusyExport DEF CreateFile
<1>2. CASE x.dir \in DOMAIN dirs
  <2> DEFINE new == [x EXCEPT !.open = {f}]
  <2>1. new \in Exports /\ new.dir = x.dir /\ new.open = {f} /\ new.done = x.done
    BY <1>1 DEF Exports
  <2>2. export' = [export EXCEPT ![e] = new] /\ dirs' = WithEmptied(x.dir, f)
    BY <1>2 DEF CreateFile
  <2>3. /\ DOMAIN dirs' = DOMAIN dirs /\ \A d \in DOMAIN dirs : d # x.dir => dirs'[d] = dirs[d]
        /\ DOMAIN dirs'[x.dir] = DOMAIN dirs[x.dir] \union {f}
        /\ \A g \in DOMAIN dirs[x.dir] : g # f => dirs'[x.dir][g] = dirs[x.dir][g]
    BY <1>2, <2>2 DEF WithEmptied
  <2>4. \A d \in DOMAIN dirs : DOMAIN dirs'[d] \subseteq Files
    BY <2>3 DEF ArchiveInv, ArchiveTypes, ArchiveTypeOK
  <2> HIDE DEF new
  <2>5. WhatIsDone(e) => WhatIsDone(e)'
    <3>1. export'[e] = new
      BY <2>2 DEF ArchiveInv, ArchiveTypes
    <3> QED
      BY <1>1, <2>1, <2>3, <3>1 DEF WhatIsDone
  <2> QED
    BY <1>1, <2>1, <2>2, <2>3, <2>4, <2>5, JobTypes, WritingKeeps
<1>3. CASE x.dir \notin DOMAIN dirs
  <2> DEFINE new == [x EXCEPT !.step = "failed"]
  <2>1. new \in Exports /\ new.dir = x.dir
    BY <1>1 DEF Exports
  <2>2. export' = [export EXCEPT ![e] = new] /\ dirs' = dirs
    BY <1>3 DEF CreateFile
  <2>3. \A d \in DOMAIN dirs : DOMAIN dirs'[d] \subseteq Files
    BY <2>2 DEF ArchiveInv, ArchiveTypes, ArchiveTypeOK
  <2>4. ~WhatIsDone(e)
    BY <1>3 DEF WhatIsDone
  <2> HIDE DEF new
  <2> QED
    BY <1>1, <2>1, <2>2, <2>3, <2>4, JobTypes, WritingKeeps
<1> QED
  BY <1>2, <1>3

LEMMA CloseFileKeeps == ASSUME ArchiveInv, NEW e \in Exporters, CloseFile(e) PROVE ArchiveInv'
<1> DEFINE x == export[e]
           new == [x EXCEPT !.open = {}, !.done = @ \union x.open]
<1>1. Busy(e) /\ x \in Exports /\ UNCHANGED <<second, jobs, shared>>
  BY BusyExport DEF CloseFile
<1>2. new \in Exports /\ new.dir = x.dir /\ new.open = {} /\ new.done = x.done \union x.open
  BY <1>1 DEF Exports
<1>3. export' = [export EXCEPT ![e] = new]
  BY DEF CloseFile
<1>4. /\ DOMAIN dirs' = DOMAIN dirs /\ \A d \in DOMAIN dirs : d # x.dir => dirs'[d] = dirs[d]
      /\ x.dir \in DOMAIN dirs =>
           /\ DOMAIN dirs'[x.dir] = DOMAIN dirs[x.dir]
           /\ \A g \in DOMAIN dirs[x.dir] :
                dirs'[x.dir][g] = IF g \in x.open THEN "whole" ELSE dirs[x.dir][g]
  BY DEF CloseFile
<1>5. \A d \in DOMAIN dirs : DOMAIN dirs'[d] \subseteq Files
  BY <1>4 DEF ArchiveInv, ArchiveTypes, ArchiveTypeOK
<1> HIDE DEF new
<1>6. WhatIsDone(e) => WhatIsDone(e)'
  <2>1. export'[e] = new
    BY <1>3 DEF ArchiveInv, ArchiveTypes
  <2> QED
    BY <1>1, <1>2, <1>4, <2>1 DEF WhatIsDone
<1> QED
  BY <1>1, <1>2, <1>3, <1>4, <1>5, <1>6, JobTypes, WritingKeeps

LEMMA ExportFailsKeeps == ASSUME ArchiveInv, NEW e \in Exporters, ExportFails(e) PROVE ArchiveInv'
<1> DEFINE x == export[e]
           new == [x EXCEPT !.step = "failed"]
<1>1. Busy(e) /\ x \in Exports /\ UNCHANGED <<second, dirs, jobs, shared>>
  BY BusyExport DEF ExportFails
<1>2. new \in Exports /\ new.dir = x.dir /\ new.open = x.open /\ new.done = x.done
  BY <1>1 DEF Exports
<1>3. export' = [export EXCEPT ![e] = new]
  BY DEF ExportFails
<1>4. \A d \in DOMAIN dirs : DOMAIN dirs'[d] \subseteq Files
  BY <1>1 DEF ArchiveInv, ArchiveTypes, ArchiveTypeOK
<1> HIDE DEF new
<1>5. WhatIsDone(e) => WhatIsDone(e)'
  <2>1. export'[e] = new
    BY <1>3 DEF ArchiveInv, ArchiveTypes
  <2> QED
    BY <1>1, <1>2, <2>1 DEF WhatIsDone
<1> QED
  BY <1>1, <1>2, <1>3, <1>4, <1>5, JobTypes, WritingKeeps

\* An export that ends, with its prune or without: it is idle or over, and what the others
\* wrote is there or overtaken.
LEMMA EndKeeps ==
  ASSUME ArchiveInv, NEW e \in Exporters, Busy(e), PruneOldExports \/ dirs' = dirs,
         \/ export' = [export EXCEPT ![e] = NotExporting]
         \/ export' = [export EXCEPT ![e].step = "over"],
         jobs' \in [ExportJobs \union ImportJobs ->
                     [status : {"none", "running", "done", "error"}, files : Nat]],
         UNCHANGED <<second, shared>>
  PROVE  ArchiveInv'
<1>1. /\ DOMAIN dirs' \subseteq DOMAIN dirs
      /\ \A d \in DOMAIN dirs' : dirs'[d] = dirs[d]
      /\ \A d \in DOMAIN dirs : d \in DOMAIN dirs' \/ Overtaken(d)'
      /\ \A d \in Nat : Overtaken(d) => Overtaken(d)'
  <2>1. CASE PruneOldExports
    BY <2>1, PruneKeeps DEF ArchiveInv
  <2>2. CASE dirs' = dirs
    BY <2>2 DEF Overtaken
  <2> QED
    BY <2>1, <2>2
<1>2. export[e] \in Exports /\ export \in [Exporters -> {NotExporting} \union Exports]
  BY DEF ArchiveInv, ArchiveTypes, Busy
<1>3. /\ export' \in [Exporters -> {NotExporting} \union Exports]
      /\ \A x \in Exporters : Busy(x)' =>
           /\ Busy(x) /\ export'[x].dir = export[x].dir
           /\ export'[x].open = export[x].open /\ export'[x].done = export[x].done
  <2>1. CASE export' = [export EXCEPT ![e] = NotExporting]
    BY <1>2, <2>1 DEF Busy
  <2>2. CASE export' = [export EXCEPT ![e].step = "over"]
    <3> DEFINE new == [export[e] EXCEPT !.step = "over"]
    <3>1. new \in Exports /\ new.dir = export[e].dir /\ new.open = export[e].open /\ new.done = export[e].done
      BY <1>2 DEF Exports
    <3>2. export' = [export EXCEPT ![e] = new]
      BY <2>2
    <3> HIDE DEF new
    <3> QED
      BY <1>2, <3>1, <3>2 DEF Busy
  <2> QED
    BY <2>1, <2>2
<1>4. ArchiveTypes'
  <2>1. \A x \in Exporters : Busy(x)' => export'[x] \in Exports /\ export'[x].dir <= second
    BY <1>3 DEF Busy, ArchiveInv, ArchiveTypes
  <2>2. \A x \in Exporters : Busy(x)' => /\ export'[x].step \in {"writing", "failed", "over"}
                                        /\ export'[x].open \union export'[x].done \subseteq Files
    BY <2>1 DEF Exports
  <2> QED
    BY <1>1, <1>3, <2>1, <2>2 DEF ArchiveInv, ArchiveTypes, ArchiveTypeOK, Busy
<1>5. ASSUME NEW x \in Exporters, Busy(x)', export[x].dir \notin shared, WhatIsDone(x)
      PROVE  WhatIsDone(x)' \/ Overtaken(export[x].dir)'
  <2>1. PICK d \in DOMAIN dirs : d = export[x].dir /\ export'[x].dir = d
    BY <1>3, <1>5 DEF WhatIsDone
  <2>2. CASE d \in DOMAIN dirs'
    BY <1>1, <1>3, <1>5, <2>1, <2>2 DEF WhatIsDone
  <2>3. CASE Overtaken(d)'
    BY <2>1, <2>3 DEF Overtaken
  <2> QED
    BY <1>1, <2>2, <2>3
<1> QED
  BY <1>1, <1>3, <1>4, <1>5, ExportsStay DEF ArchiveInv

LEMMA ScheduleEndsKeeps == ASSUME ArchiveInv, NEW e \in Schedules, ScheduleEnds(e) PROVE ArchiveInv'
<1>1. e \in Exporters /\ Busy(e)
  BY BusyExport DEF Exporters, ScheduleEnds, ExportWritten
<1>2. /\ PruneOldExports \/ dirs' = dirs
      /\ export' = [export EXCEPT ![e] = NotExporting] /\ UNCHANGED <<second, jobs, shared>>
  BY DEF ScheduleEnds
<1> QED
  BY <1>1, <1>2, JobTypes, EndKeeps

LEMMA JobEndsKeeps == ASSUME ArchiveInv, NEW j \in ExportJobs, JobEnds(j) PROVE ArchiveInv'
<1>1. j \in Exporters
  BY DEF Exporters
<1>2. Busy(j) /\ export[j] \in Exports
  BY <1>1, BusyExport DEF JobEnds, ExportWritten
<1>3. /\ PruneOldExports \/ dirs' = dirs
      /\ export' = [export EXCEPT ![j].step = "over"] /\ UNCHANGED <<second, shared>>
  BY DEF JobEnds
<1>4. Cardinality(export[j].done) \in Nat
  BY <1>2, ArchiveAssumption, FS_Subset, FS_CardinalityType DEF Exports
<1>5. jobs' \in [ExportJobs \union ImportJobs ->
                 [status : {"none", "running", "done", "error"}, files : Nat]]
  BY <1>4, JobTypes DEF JobEnds
<1> QED
  BY <1>1, <1>2, <1>3, <1>5, EndKeeps

\* Steps that touch neither exports nor directories.
LEMMA JobKeeps ==
  ASSUME ArchiveInv, UNCHANGED <<dirs, export, shared>>,
         second' \in 1..MaxSecond, second' >= second,
         jobs' \in [ExportJobs \union ImportJobs ->
                     [status : {"none", "running", "done", "error"}, files : Nat]]
  PROVE  ArchiveInv'
<1>1. \A e \in Exporters : Busy(e) => export[e].dir \in Nat
  BY DEF ArchiveInv, ArchiveTypes, Busy, Exports
<1>2. ArchiveTypes'
  BY <1>1 DEF ArchiveInv, ArchiveTypes, ArchiveTypeOK, Busy
<1>3. ExportsStand' /\ AloneUnlessShared'
  BY DEF ArchiveInv, ExportsStand, AloneUnlessShared, Busy, WhatIsDone, Overtaken
<1> QED
  BY <1>2, <1>3 DEF ArchiveInv

LEMMA RestartKeeps == ASSUME ArchiveInv, ArchiveRestart PROVE ArchiveInv'
<1>1. /\ export' = [e \in Exporters |-> NotExporting] /\ UNCHANGED <<second, dirs, shared>>
      /\ jobs' \in [ExportJobs \union ImportJobs ->
                     [status : {"none", "running", "done", "error"}, files : Nat]]
  BY JobTypes DEF ArchiveRestart, NoJob
<1>2. \A e \in Exporters : ~Busy(e)'
  BY <1>1 DEF Busy
<1>3. ArchiveTypes'
  BY <1>1, <1>2 DEF ArchiveInv, ArchiveTypes, ArchiveTypeOK, Busy
<1> QED
  BY <1>2, <1>3 DEF ArchiveInv, ExportsStand, AloneUnlessShared

LEMMA NextArchiveInv == ASSUME ArchiveInv, [ArchiveNext]_archiveVars PROVE ArchiveInv'
<1> USE ArchiveAssumption
<1>1. second \in 1..MaxSecond
  BY DEF ArchiveInv, ArchiveTypes, ArchiveTypeOK
<1>2. CASE NextSecond \/ UNCHANGED archiveVars
  BY <1>1, <1>2, JobTypes, JobKeeps DEF NextSecond, archiveVars
<1>3. ASSUME NEW j \in ExportJobs \union ImportJobs, StartArchiveJob(j) \/ StartImportJob(j)
      PROVE  ArchiveInv'
  BY <1>1, <1>3, JobTypes, JobKeeps DEF StartArchiveJob, StartImportJob
<1>4. ASSUME NEW j \in ImportJobs, NEW imported \in 0..Uploads, ImportEnds(j, imported)
      PROVE  ArchiveInv'
  BY <1>1, <1>4, JobTypes, JobKeeps DEF ImportEnds
<1> QED
  BY <1>2, <1>3, <1>4, BeginKeeps, CreateFileKeeps, CloseFileKeeps, ExportFailsKeeps,
     ScheduleEndsKeeps, JobEndsKeeps, RestartKeeps DEF ArchiveNext

-----------------------------------------------------------------------------

\* Jobs, exports and directories hold what they may hold.
THEOREM ArchiveTypeCorrect == ArchiveSpec => []ArchiveTypeOK
<1>1. ArchiveInv => ArchiveTypeOK
  BY DEF ArchiveInv, ArchiveTypes
<1> QED
  BY <1>1, InitArchiveInv, NextArchiveInv, PTL DEF ArchiveSpec

\* The export of the newest directory is whole once it is written, however exports and prunes
\* interleave (PruneOldExports, export.go:105), unless another began in the same second.
THEOREM LatestExportStands == ArchiveSpec => []LatestExportIntact
<1>1. ASSUME ArchiveInv PROVE LatestExportIntact
  <2> SUFFICES ASSUME NEW e \in Exporters, export[e].step \in {"writing", "over"}, export[e].done = Files,
                      \A d \in DOMAIN dirs : d <= export[e].dir, export[e].dir \notin shared
               PROVE  WhatIsDone(e)
    BY DEF LatestExportIntact, WhatIsDone
  <2>1. Busy(e) /\ export[e].dir \in Nat
    BY <1>1, BusyExport DEF Exports
  <2>2. ~Overtaken(export[e].dir)
    BY <1>1, <2>1 DEF Overtaken, ArchiveInv, ArchiveTypes, ArchiveTypeOK
  <2> QED
    BY <1>1, <2>1, <2>2 DEF ArchiveInv, ExportsStand
<1> QED
  BY <1>1, InitArchiveInv, NextArchiveInv, PTL DEF ArchiveSpec

-----------------------------------------------------------------------------
(* The Path statistics.  A path that no other process's flush crossed and *)
(* no overwritten, abandoned or outdated dump spoilt is followed from the *)
(* pending file to one dump and into a report.                            *)

Flushes ==
  {NotFlushing} \union [step : {"loaded"}, seen : SUBSET Paths]
    \union [step : {"writing", "written"}, seen : SUBSET Paths, dump : Nat]

InDumps(p) == {d \in DOMAIN dumps : p \in dumps[d]}
Clean(p) == p \in (recorded \intersect Countable) \ (crossed \union spoilt)
Sees(f, p) == flush[f] # NotFlushing /\ p \in flush[f].seen
Wrote(f, p) == flush[f].step = "written" /\ p \in flush[f].seen

PathTypes ==
  /\ clock \in 1..MaxClock
  /\ DOMAIN dumps \subseteq 1..clock
  /\ \A d \in DOMAIN dumps : dumps[d] \subseteq recorded
  /\ pending \subseteq recorded /\ sent \subseteq recorded /\ crossed \subseteq recorded
  /\ spoilt \subseteq recorded /\ recorded \subseteq Paths
  /\ flush \in [Flushers -> Flushes]
  /\ \A f \in Flushers :
       /\ flush[f] # NotFlushing => flush[f].seen \subseteq recorded
       /\ flush[f].step \in {"writing", "written"} => flush[f].dump = clock
  /\ report = NoReport \/ report \in [step : {"sending"}, paths : SUBSET recorded]

\* What a report is about to send it has of every dump that is complete.
ReportHasDumps ==
  report # NoReport =>
    \A d \in DOMAIN dumps : d < clock /\ clock - d <= ReportAge => dumps[d] \subseteq report.paths

\* Where a clean path can be, and who is dealing with it.
Fate(p) ==
  /\ \A f \in Flushers : Sees(f, p) =>
       /\ p \in pending
       /\ \A o \in Flushers \ {f} : flush[o] = NotFlushing
       /\ flush[f].step = "writing" => clock \in DOMAIN dumps
  /\ p \in pending =>
       /\ \A f \in Flushers : flush[f] # NotFlushing => p \in flush[f].seen
       /\ (\E f \in Flushers : Wrote(f, p)) => InDumps(p) = {clock}
       /\ ~(\E f \in Flushers : Wrote(f, p)) => InDumps(p) = {}
  /\ p \notin pending =>
       \/ \E d \in DOMAIN dumps : InDumps(p) = {d}
       \/ InDumps(p) = {} /\ p \in sent

PathsInv == PathTypes /\ ReportHasDumps /\ \A p \in Paths : Clean(p) => Fate(p)

LEMMA FlushForms ==
  ASSUME NEW x \in Flushes
  PROVE  /\ x = NotFlushing <=> x.step = "idle"
         /\ x.step \in {"idle", "loaded", "writing", "written"}
         /\ x # NotFlushing => x.seen \in SUBSET Paths
<1> QED  BY DEF Flushes, NotFlushing

LEMMA PathsStart == PathsInit => PathsInv
<1> SUFFICES ASSUME PathsInit PROVE PathsInv  OBVIOUS
<1>1. PathTypes
  BY PathsAssumption DEF PathsInit, PathTypes, Flushes, NotFlushing
<1>2. ReportHasDumps /\ \A p \in Paths : ~Clean(p)
  BY DEF PathsInit, ReportHasDumps, Clean
<1> QED  BY <1>1, <1>2 DEF PathsInv

LEMMA RecordPathKeeps == ASSUME PathsInv, NEW p \in Paths, Record(p) PROVE PathsInv'
<1>1. /\ p \notin recorded /\ flush[ServerFlush] = NotFlushing
      /\ pending' = pending \union {p} /\ recorded' = recorded \union {p}
      /\ crossed' = IF Flushing(CommandLines) # {} THEN crossed \union {p} ELSE crossed
      /\ UNCHANGED <<clock, dumps, flush, report, sent, spoilt>>
  BY DEF Record
<1>2. PathTypes'
  BY <1>1 DEF PathsInv, PathTypes
<1>3. ReportHasDumps'  BY <1>1 DEF PathsInv, ReportHasDumps
<1>4. ASSUME NEW q \in Paths, Clean(q)'  PROVE  Fate(q)'
  <2>1. CASE q # p
    <3>1. Clean(q) /\ (q \in pending' <=> q \in pending)
      BY <1>1, <1>4, <2>1 DEF Clean
    <3> QED  BY <1>1, <3>1 DEF PathsInv, Fate, Sees, Wrote, InDumps
  <2>2. CASE q = p
    <3>1. Flushing(CommandLines) = {}  BY <1>1, <1>4, <2>2 DEF Clean
    <3>2. \A f \in Flushers : flush[f] = NotFlushing
      BY <1>1, <3>1 DEF Flushing, Flushers
    <3>3. InDumps(q) = {}  BY <1>1, <2>2 DEF PathsInv, PathTypes, InDumps
    <3>4. \A f \in Flushers : ~Sees(f, q) /\ ~Wrote(f, q)
      BY <3>2 DEF Sees, Wrote, NotFlushing
    <3> QED  BY <1>1, <2>2, <3>2, <3>3, <3>4 DEF Fate, Sees, Wrote, InDumps
  <2> QED  BY <2>1, <2>2
<1> QED  BY <1>2, <1>3, <1>4 DEF PathsInv

LEMMA LoadKeeps == ASSUME PathsInv, NEW f \in Flushers, FlushLoads(f) PROVE PathsInv'
<1> DEFINE others == Flushing(Flushers \ {f})
           new == [step |-> "loaded", seen |-> pending]
<1>1. /\ flush[f] = NotFlushing
      /\ flush' = [flush EXCEPT ![f] = new]
      /\ crossed' = IF others = {} THEN crossed
                    ELSE crossed \union pending \union UNION {flush[o].seen : o \in others}
      /\ UNCHANGED <<clock, pending, dumps, report, recorded, sent, spoilt>>
  BY DEF FlushLoads
<1>2. new \in Flushes /\ new # NotFlushing /\ new.step = "loaded" /\ new.seen = pending
  BY DEF PathsInv, PathTypes, Flushes, NotFlushing
<1> HIDE DEF new
<1>3. /\ flush' \in [Flushers -> Flushes] /\ flush'[f] = new
      /\ \A o \in Flushers \ {f} : flush'[o] = flush[o]
  BY <1>1, <1>2 DEF PathsInv, PathTypes
<1>4. UNION {flush[o].seen : o \in others} \subseteq recorded
  BY DEF PathsInv, PathTypes, Flushing
<1>5. PathTypes'
  BY <1>1, <1>2, <1>3, <1>4 DEF PathsInv, PathTypes
<1>6. ReportHasDumps'  BY <1>1 DEF PathsInv, ReportHasDumps
<1>7. ASSUME NEW q \in Paths, Clean(q)'  PROVE  Fate(q)'
  <2>1. Clean(q)  BY <1>1, <1>7 DEF Clean
  <2>2. Fate(q)  BY <2>1 DEF PathsInv
  <2>3. others # {} => q \notin pending  BY <1>1, <1>7 DEF Clean
  <2>4. \A o \in others : q \notin flush[o].seen  BY <1>1, <1>7 DEF Clean
  <2>5. \A o \in Flushers \ {f} : ~Sees(o, q) /\ (q \in pending => flush[o] = NotFlushing)
    BY <2>3, <2>4 DEF Sees, Flushing
  <2>6. \A o \in Flushers : ~Wrote(o, q) /\ ~Wrote(o, q)'
    BY <1>1, <1>2, <1>3, <2>5 DEF Wrote, Sees, NotFlushing
  <2>7. Sees(f, q)' <=> q \in pending
    BY <1>2, <1>3 DEF Sees
  <2>8. \A o \in Flushers \ {f} : ~Sees(o, q)'
    BY <1>3, <2>5 DEF Sees
  <2>9. InDumps(q)' = InDumps(q)  BY <1>1 DEF InDumps
  <2>10. \A g \in Flushers : Sees(g, q)' =>
           /\ q \in pending /\ \A o \in Flushers \ {g} : flush'[o] = NotFlushing
           /\ flush'[g].step # "writing"
    BY <1>2, <1>3, <2>5, <2>7, <2>8
  <2>11. q \in pending => \A g \in Flushers : flush'[g] # NotFlushing => q \in flush'[g].seen
    BY <1>2, <1>3, <2>5
  <2> QED  BY <1>1, <2>2, <2>6, <2>9, <2>10, <2>11 DEF Fate
<1> QED  BY <1>5, <1>6, <1>7 DEF PathsInv

\* A flush that goes on or ends, which changes only what it is at and the dump of this second.
LEMMA DumpKeeps ==
  ASSUME PathsInv, NEW f \in Flushers, CreateDump(f) \/ WriteDump(f)
  PROVE  PathsInv'
<1>1. /\ UNCHANGED <<clock, pending, report, recorded, sent, crossed>>
      /\ spoilt' = IF clock \in DOMAIN dumps THEN spoilt \union dumps[clock] ELSE spoilt
      /\ \A d \in DOMAIN dumps' : d # clock => d \in DOMAIN dumps /\ dumps'[d] = dumps[d]
      /\ \A d \in DOMAIN dumps : d \in DOMAIN dumps' /\ (d # clock => dumps'[d] = dumps[d])
      /\ DOMAIN dumps' \subseteq DOMAIN dumps \union {clock}
      /\ clock \in DOMAIN dumps' => dumps'[clock] \subseteq recorded
      /\ flush[f] # NotFlushing
  <2>1. CASE CreateDump(f)
    BY <2>1 DEF CreateDump, NotFlushing
  <2>2. CASE WriteDump(f)
    <3>1. flush[f].dump = clock /\ flush[f] # NotFlushing
      BY <2>2 DEF WriteDump, PathsInv, PathTypes, NotFlushing
    <3>2. flush[f].seen \subseteq recorded  BY <3>1 DEF PathsInv, PathTypes
    <3> QED  BY <2>2, <3>1, <3>2 DEF WriteDump
  <2> QED  BY <2>1, <2>2
<1>2. PICK new \in Flushes :
        /\ flush' = [flush EXCEPT ![f] = new]
        /\ new # NotFlushing /\ new.seen = flush[f].seen
        /\ CreateDump(f) => /\ flush[f].step = "loaded" /\ new.step = "writing" /\ new.dump = clock
                            /\ dumps'[clock] = {} /\ clock \in DOMAIN dumps'
        /\ WriteDump(f) => /\ flush[f].step = "writing" /\ new.step = "written"
                           /\ new.dump = clock
                           /\ clock \in DOMAIN dumps =>
                                clock \in DOMAIN dumps' /\ dumps'[clock] = flush[f].seen \intersect Countable
                           /\ clock \notin DOMAIN dumps => clock \notin DOMAIN dumps'
  <2>1. CASE CreateDump(f)
    <3> DEFINE new == [step |-> "writing", seen |-> flush[f].seen, dump |-> clock]
    <3>1. flush[f].step = "loaded" /\ flush[f] # NotFlushing /\ flush[f].seen \subseteq Paths
      BY <1>1, <2>1 DEF CreateDump, PathsInv, PathTypes
    <3>2. new \in Flushes /\ new # NotFlushing
      BY <3>1 DEF Flushes, NotFlushing, PathsInv, PathTypes
    <3>3. ~WriteDump(f)  BY <3>1 DEF WriteDump
    <3> QED  BY <2>1, <3>1, <3>2, <3>3 DEF CreateDump
  <2>2. CASE WriteDump(f)
    <3> DEFINE new == [flush[f] EXCEPT !.step = "written"]
    <3>1. flush[f].step = "writing" /\ flush[f] \in Flushes /\ flush[f].dump = clock
      BY <2>2 DEF WriteDump, PathsInv, PathTypes
    <3>2. flush[f] \in [step : {"writing", "written"}, seen : SUBSET Paths, dump : Nat]
      BY <3>1 DEF Flushes, NotFlushing
    <3>3. /\ new \in Flushes /\ new # NotFlushing /\ new.step = "written" /\ new.dump = clock
          /\ new.seen = flush[f].seen
      BY <3>1, <3>2 DEF Flushes, NotFlushing
    <3>4. ~CreateDump(f)  BY <3>1 DEF CreateDump
    <3>5. flush' = [flush EXCEPT ![f] = new]
      BY <2>2 DEF WriteDump, PathsInv, PathTypes
    <3> HIDE DEF new
    <3> QED  BY <2>2, <3>1, <3>3, <3>4, <3>5 DEF WriteDump
  <2> QED  BY <2>1, <2>2
<1>3. /\ flush' \in [Flushers -> Flushes] /\ flush'[f] = new
      /\ \A o \in Flushers \ {f} : flush'[o] = flush[o]
  BY <1>2 DEF PathsInv, PathTypes
<1>4. clock \in 1..clock /\ flush[f].seen \subseteq recorded
  BY <1>1 DEF PathsInv, PathTypes
<1>5. PathTypes'
  <2>1. \A d \in DOMAIN dumps' : dumps'[d] \subseteq recorded
    BY <1>1 DEF PathsInv, PathTypes
  <2>2. DOMAIN dumps' \subseteq 1..clock  BY <1>1, <1>4 DEF PathsInv, PathTypes
  <2>3. spoilt' \subseteq recorded  BY <1>1 DEF PathsInv, PathTypes
  <2>4. \A g \in Flushers :
          /\ flush'[g] # NotFlushing => flush'[g].seen \subseteq recorded
          /\ flush'[g].step \in {"writing", "written"} => flush'[g].dump = clock
    <3>1. new.dump = clock  BY <1>2
    <3> QED  BY <1>2, <1>3, <1>4, <3>1 DEF PathsInv, PathTypes
  <2> QED  BY <1>1, <1>3, <2>1, <2>2, <2>3, <2>4 DEF PathsInv, PathTypes
<1>6. ReportHasDumps'
  BY <1>1 DEF PathsInv, PathTypes, ReportHasDumps
<1>7. ASSUME NEW q \in Paths, Clean(q)'  PROVE  Fate(q)'
  <2>1. Clean(q) /\ (clock \in DOMAIN dumps => q \notin dumps[clock])
    BY <1>1, <1>7 DEF Clean
  <2>2. Fate(q)  BY <2>1 DEF PathsInv
  <2>3. clock \notin InDumps(q)  BY <2>1 DEF InDumps
  <2>4. \A o \in Flushers : Sees(o, q)' <=> Sees(o, q)
    BY <1>1, <1>2, <1>3 DEF Sees
  <2>5. \A o \in Flushers : ~Wrote(o, q)
    <3>1. SUFFICES ASSUME NEW o \in Flushers, Wrote(o, q) PROVE FALSE  OBVIOUS
    <3>2. Sees(o, q)  BY <3>1 DEF Wrote, Sees, NotFlushing
    <3>3. q \in pending  BY <2>2, <3>2 DEF Fate
    <3> QED  BY <2>2, <2>3, <3>1, <3>3 DEF Fate
  <2>6. InDumps(q)' \ {clock} = InDumps(q)
    BY <1>1, <2>3 DEF InDumps
  <2>7. CASE CreateDump(f)
    <3>1. InDumps(q)' = InDumps(q)
      BY <1>2, <2>6, <2>7, <2>3 DEF InDumps
    <3>2. \A o \in Flushers : ~Wrote(o, q)'
      BY <1>2, <1>3, <2>5, <2>7 DEF Wrote
    <3>3. \A o \in Flushers : Sees(o, q)' => clock \in DOMAIN dumps'
      BY <1>2, <2>7
    <3>4. \A o \in Flushers : (flush'[o] = NotFlushing <=> flush[o] = NotFlushing)
                              /\ flush'[o].seen = flush[o].seen
      BY <1>1, <1>2, <1>3
    <3>5. /\ \A o \in Flushers : Sees(o, q)' =>
               /\ q \in pending
               /\ \A x \in Flushers \ {o} : flush'[x] = NotFlushing
          /\ q \in pending => \A o \in Flushers : flush'[o] # NotFlushing => q \in flush'[o].seen
      BY <2>2, <2>4, <3>4 DEF Fate
    <3>6. q \notin pending => \/ \E d \in DOMAIN dumps' : InDumps(q) = {d}
                              \/ InDumps(q) = {} /\ q \in sent
      BY <1>1, <2>2 DEF Fate
    <3> QED  BY <1>1, <2>2, <2>5, <3>1, <3>2, <3>3, <3>5, <3>6 DEF Fate
  <2>8. CASE WriteDump(f)
    <3>4. \A o \in Flushers : (flush'[o] = NotFlushing <=> flush[o] = NotFlushing)
                              /\ flush'[o].seen = flush[o].seen
      BY <1>1, <1>2, <1>3
    <3>5. /\ \A o \in Flushers : Sees(o, q)' =>
               /\ q \in pending
               /\ \A x \in Flushers \ {o} : flush'[x] = NotFlushing
               /\ flush'[o].step # "writing"
          /\ q \in pending => \A o \in Flushers : flush'[o] # NotFlushing => q \in flush'[o].seen
      <4>1. ASSUME NEW o \in Flushers, Sees(o, q)'  PROVE  flush'[o].step # "writing"
        <5>1. CASE o = f  BY <1>2, <1>3, <2>8, <5>1
        <5>2. CASE o # f
          <6>1. flush[f] = NotFlushing  BY <2>2, <2>4, <4>1, <5>2 DEF Fate
          <6> QED  BY <1>1, <6>1
        <5> QED  BY <5>1, <5>2
      <4> QED  BY <2>2, <2>4, <3>4, <4>1 DEF Fate
    <3>6. CASE q \in flush[f].seen
      <4>1. Sees(f, q)  BY <1>1, <3>6 DEF Sees
      <4>2. clock \in DOMAIN dumps  BY <1>2, <2>2, <2>8, <4>1 DEF Fate
      <4>3. q \in Countable  BY <2>1 DEF Clean
      <4>4. clock \in InDumps(q)'  BY <1>2, <2>8, <3>6, <4>2, <4>3 DEF InDumps
      <4>5. q \in pending /\ InDumps(q) = {}  BY <2>2, <2>5, <4>1 DEF Fate
      <4>6. InDumps(q)' = {clock}  BY <2>6, <4>4, <4>5
      <4>7. Wrote(f, q)'  BY <1>2, <1>3, <2>8, <3>6 DEF Wrote
      <4> QED  BY <1>1, <3>5, <4>5, <4>6, <4>7 DEF Fate
    <3>7. CASE q \notin flush[f].seen
      <4>1. clock \in DOMAIN dumps' => q \notin dumps'[clock]
        BY <1>2, <2>8, <3>7
      <4>2. InDumps(q)' = InDumps(q)  BY <2>6, <2>3, <4>1 DEF InDumps
      <4>3. \A o \in Flushers : ~Wrote(o, q)'
        BY <1>2, <1>3, <2>5, <3>7 DEF Wrote
      <4>4. q \notin pending => \/ \E d \in DOMAIN dumps' : InDumps(q) = {d}
                                \/ InDumps(q) = {} /\ q \in sent
        BY <1>1, <2>2 DEF Fate
      <4> QED  BY <1>1, <2>2, <2>5, <3>5, <4>2, <4>3, <4>4 DEF Fate
    <3> QED  BY <3>6, <3>7
  <2> QED  BY <2>7, <2>8
<1> QED  BY <1>5, <1>6, <1>7 DEF PathsInv

\* A flush that ends: its state is gone.
LEMMA EndedFlush ==
  ASSUME PathsInv, NEW f \in Flushers, flush' = [flush EXCEPT ![f] = NotFlushing]
  PROVE  /\ flush' \in [Flushers -> Flushes] /\ flush'[f] = NotFlushing
         /\ \A o \in Flushers \ {f} : flush'[o] = flush[o]
         /\ \A o \in Flushers :
              /\ flush'[o] # NotFlushing => flush'[o].seen = flush[o].seen /\ flush[o] # NotFlushing
              /\ flush'[o].step = "idle" \/ flush'[o] = flush[o]
         /\ \A q : /\ ~Sees(f, q)' /\ ~Wrote(f, q)'
                   /\ \A o \in Flushers \ {f} : (Sees(o, q)' <=> Sees(o, q))
                                              /\ (Wrote(o, q)' <=> Wrote(o, q))
<1>1. NotFlushing \in Flushes /\ NotFlushing.step = "idle"  BY DEF Flushes, NotFlushing
<1>2. /\ flush' \in [Flushers -> Flushes] /\ flush'[f] = NotFlushing
      /\ \A o \in Flushers \ {f} : flush'[o] = flush[o]
  BY <1>1 DEF PathsInv, PathTypes
<1>3. \A o \in Flushers :
        /\ flush'[o] # NotFlushing => flush'[o].seen = flush[o].seen /\ flush[o] # NotFlushing
        /\ flush'[o].step = "idle" \/ flush'[o] = flush[o]
  <2> TAKE o \in Flushers
  <2>1. CASE o = f  BY <1>1, <1>2, <2>1
  <2>2. CASE o # f
    <3>1. flush'[o] = flush[o]  BY <1>2, <2>2
    <3> QED  BY <3>1
  <2> QED  BY <2>1, <2>2
<1>4. ASSUME NEW q
      PROVE  /\ ~Sees(f, q)' /\ ~Wrote(f, q)'
             /\ \A o \in Flushers \ {f} : (Sees(o, q)' <=> Sees(o, q))
                                        /\ (Wrote(o, q)' <=> Wrote(o, q))
  <2>1. ~Sees(f, q)'  BY <1>2 DEF Sees
  <2>2. ~Wrote(f, q)'
    <3>1. flush'[f].step # "written"  BY <1>1, <1>2
    <3> QED  BY <3>1 DEF Wrote
  <2>3. ASSUME NEW o \in Flushers \ {f}
        PROVE  (Sees(o, q)' <=> Sees(o, q)) /\ (Wrote(o, q)' <=> Wrote(o, q))
    <3>1. flush'[o] = flush[o]  BY <1>2
    <3> QED  BY <3>1 DEF Sees, Wrote
  <2> QED  BY <2>1, <2>2, <2>3
<1> QED  BY <1>2, <1>3, <1>4

LEMMA WriteFailsKeeps == ASSUME PathsInv, NEW f \in Flushers, WriteFails(f) PROVE PathsInv'
<1>1. /\ flush[f].step = "writing" /\ flush[f] # NotFlushing /\ flush[f].dump = clock
      /\ dumps' = [x \in DOMAIN dumps \ {clock} |-> dumps[x]]
      /\ spoilt' = IF clock \in DOMAIN dumps THEN spoilt \union dumps[clock] ELSE spoilt
      /\ flush' = [flush EXCEPT ![f] = NotFlushing]
      /\ UNCHANGED <<clock, pending, report, recorded, sent, crossed>>
  <2>1. flush[f].step = "writing"  BY DEF WriteFails
  <2>2. flush[f].dump = clock  BY <2>1 DEF PathsInv, PathTypes
  <2>3. flush[f] # NotFlushing  BY <2>1 DEF NotFlushing
  <2> QED  BY <2>1, <2>2, <2>3 DEF WriteFails
<1>2. /\ flush' \in [Flushers -> Flushes] /\ flush'[f] = NotFlushing
      /\ \A o \in Flushers \ {f} : flush'[o] = flush[o]
      /\ \A q : /\ ~Sees(f, q)' /\ ~Wrote(f, q)'
                /\ \A o \in Flushers \ {f} : (Sees(o, q)' <=> Sees(o, q))
                                           /\ (Wrote(o, q)' <=> Wrote(o, q))
  BY <1>1, EndedFlush
<1>3. PathTypes'
  <2>1. \A o \in Flushers : flush'[o] = flush[o] \/ flush'[o] = NotFlushing  BY <1>2
  <2>2. NotFlushing.step = "idle"  BY DEF NotFlushing
  <2> QED  BY <1>1, <1>2, <2>1, <2>2 DEF PathsInv, PathTypes
<1>4. ReportHasDumps'  BY <1>1 DEF PathsInv, ReportHasDumps
<1>5. ASSUME NEW q \in Paths, Clean(q)'  PROVE  Fate(q)'
  <2>1. Clean(q) /\ (clock \in DOMAIN dumps => q \notin dumps[clock])
    BY <1>1, <1>5 DEF Clean
  <2>2. Fate(q)  BY <2>1 DEF PathsInv
  <2>3. InDumps(q)' = InDumps(q)  BY <1>1, <2>1 DEF InDumps
  <2>4. \A o \in Flushers : ~Wrote(o, q)
    <3>1. SUFFICES ASSUME NEW o \in Flushers, Wrote(o, q) PROVE FALSE  OBVIOUS
    <3>2. Sees(o, q)  BY <3>1 DEF Wrote, Sees, NotFlushing
    <3>3. clock \in InDumps(q)  BY <2>2, <3>1, <3>2 DEF Fate
    <3> QED  BY <2>1, <3>3 DEF InDumps
  <2>5. \A o \in Flushers : ~Wrote(o, q)'  BY <1>2, <2>4
  <2>6. \A o \in Flushers : ~Sees(o, q)'
    <3>1. SUFFICES ASSUME NEW o \in Flushers, Sees(o, q)' PROVE FALSE  OBVIOUS
    <3>2. o # f /\ Sees(o, q)  BY <1>2, <3>1
    <3>3. flush[f] = NotFlushing  BY <2>2, <3>2 DEF Fate
    <3> QED  BY <1>1, <3>3
  <2>7. q \in pending => \A o \in Flushers : flush'[o] # NotFlushing => q \in flush'[o].seen
    BY <1>2, <2>2 DEF Fate
  <2>8. q \notin pending => \/ \E d \in DOMAIN dumps' : InDumps(q) = {d}
                            \/ InDumps(q) = {} /\ q \in sent
    <3>1. SUFFICES ASSUME q \notin pending, NEW d \in DOMAIN dumps, InDumps(q) = {d}
                   PROVE  d \in DOMAIN dumps'
      BY <2>2 DEF Fate
    <3>2. d # clock  BY <2>1, <3>1 DEF InDumps
    <3> QED  BY <1>1, <3>2
  <2> QED  BY <1>1, <2>2, <2>3, <2>4, <2>5, <2>6, <2>7, <2>8 DEF Fate
<1> QED  BY <1>3, <1>4, <1>5 DEF PathsInv

LEMMA RemovePendingKeeps == ASSUME PathsInv, NEW f \in Flushers, RemovePending(f) PROVE PathsInv'
<1>1. /\ flush[f].step = "written" /\ flush[f] # NotFlushing /\ pending' = {}
      /\ flush' = [flush EXCEPT ![f] = NotFlushing]
      /\ UNCHANGED <<clock, dumps, report, recorded, sent, crossed, spoilt>>
  BY DEF RemovePending, NotFlushing
<1>2. /\ flush' \in [Flushers -> Flushes] /\ flush'[f] = NotFlushing
      /\ \A o \in Flushers \ {f} : flush'[o] = flush[o]
      /\ \A q : /\ ~Sees(f, q)' /\ ~Wrote(f, q)'
                /\ \A o \in Flushers \ {f} : (Sees(o, q)' <=> Sees(o, q))
                                           /\ (Wrote(o, q)' <=> Wrote(o, q))
  BY <1>1, EndedFlush
<1>3. PathTypes'
  <2>1. \A o \in Flushers : flush'[o] = flush[o] \/ flush'[o] = NotFlushing  BY <1>2
  <2>2. NotFlushing.step = "idle"  BY DEF NotFlushing
  <2> QED  BY <1>1, <1>2, <2>1, <2>2 DEF PathsInv, PathTypes
<1>4. ReportHasDumps'  BY <1>1 DEF PathsInv, ReportHasDumps
<1>5. ASSUME NEW q \in Paths, Clean(q)'  PROVE  Fate(q)'
  <2>1. Clean(q) /\ InDumps(q)' = InDumps(q)  BY <1>1, <1>5 DEF Clean, InDumps
  <2>2. Fate(q)  BY <2>1 DEF PathsInv
  <2>3. \A o \in Flushers : ~Sees(o, q)'
    <3>1. SUFFICES ASSUME NEW o \in Flushers, Sees(o, q)' PROVE FALSE  OBVIOUS
    <3>2. o # f /\ Sees(o, q)  BY <1>2, <3>1
    <3>3. flush[f] = NotFlushing  BY <2>2, <3>2 DEF Fate
    <3> QED  BY <1>1, <3>3
  <2>4. q \in pending => InDumps(q) = {clock} /\ clock \in DOMAIN dumps
    <3>1. SUFFICES ASSUME q \in pending PROVE InDumps(q) = {clock}
      BY DEF InDumps
    <3>2. Wrote(f, q)  BY <1>1, <2>2, <3>1 DEF Fate, Wrote
    <3> QED  BY <2>2, <3>1, <3>2 DEF Fate
  <2>5. \/ \E d \in DOMAIN dumps : InDumps(q) = {d}
        \/ InDumps(q) = {} /\ q \in sent
    BY <2>2, <2>4 DEF Fate
  <2> QED  BY <1>1, <2>1, <2>3, <2>5 DEF Fate
<1> QED  BY <1>3, <1>4, <1>5 DEF PathsInv

LEMMA FlushEndsKeeps == ASSUME PathsInv, NEW f \in Flushers, FlushEnds(f) PROVE PathsInv'
<1>1. /\ flush[f] # NotFlushing
      /\ spoilt' = IF flush[f].step = "written" THEN spoilt \union flush[f].seen ELSE spoilt
      /\ flush' = [flush EXCEPT ![f] = NotFlushing]
      /\ report' = NoReport \/ report' = report
      /\ UNCHANGED <<clock, pending, dumps, recorded, sent, crossed>>
  BY DEF FlushEnds
<1>2. /\ flush' \in [Flushers -> Flushes] /\ flush'[f] = NotFlushing
      /\ \A o \in Flushers \ {f} : flush'[o] = flush[o]
      /\ \A q : /\ ~Sees(f, q)' /\ ~Wrote(f, q)'
                /\ \A o \in Flushers \ {f} : (Sees(o, q)' <=> Sees(o, q))
                                           /\ (Wrote(o, q)' <=> Wrote(o, q))
  BY <1>1, EndedFlush
<1>3. PathTypes'
  <2>1. \A o \in Flushers : flush'[o] = flush[o] \/ flush'[o] = NotFlushing  BY <1>2
  <2>2. NotFlushing.step = "idle"  BY DEF NotFlushing
  <2> QED  BY <1>1, <1>2, <2>1, <2>2 DEF PathsInv, PathTypes
<1>4. ReportHasDumps'  BY <1>1 DEF PathsInv, ReportHasDumps
<1>5. ASSUME NEW q \in Paths, Clean(q)'  PROVE  Fate(q)'
  <2>1. Clean(q) /\ InDumps(q)' = InDumps(q) /\ ~Wrote(f, q)
    BY <1>1, <1>5 DEF Clean, InDumps, Wrote
  <2>2. Fate(q)  BY <2>1 DEF PathsInv
  <2>3. \A o \in Flushers : ~Sees(o, q)'
    <3>1. SUFFICES ASSUME NEW o \in Flushers, Sees(o, q)' PROVE FALSE  OBVIOUS
    <3>2. o # f /\ Sees(o, q)  BY <1>2, <3>1
    <3>3. flush[f] = NotFlushing  BY <2>2, <3>2 DEF Fate
    <3> QED  BY <1>1, <3>3
  <2>4. \A o \in Flushers : Wrote(o, q)' <=> Wrote(o, q)  BY <1>2, <2>1
  <2>5. q \in pending => \A o \in Flushers : flush'[o] # NotFlushing => q \in flush'[o].seen
    BY <1>2, <2>2 DEF Fate
  <2> QED  BY <1>1, <2>1, <2>2, <2>3, <2>4, <2>5 DEF Fate
<1> QED  BY <1>3, <1>4, <1>5 DEF PathsInv

-----------------------------------------------------------------------------
(* Reports and the clock. *)

LEMMA ReportKeeps ==
  ASSUME PathsInv, LoadDumps \/ SendFails \/ SendOnly
  PROVE  PathsInv'
<1>1. /\ UNCHANGED <<clock, pending, dumps, flush, recorded, crossed, spoilt>>
      /\ sent \subseteq sent' /\ sent' \subseteq recorded
  <2> DEFINE all == UNION {dumps[d] : d \in Readable}
  <2>1. all \subseteq recorded /\ sent \subseteq recorded /\ Snapshot \subseteq recorded
    BY DEF Readable, Snapshot, PathsInv, PathTypes
  <2>2. CASE SendOnly
    <3>1. PICK merged \in {{}, Snapshot} :
            /\ sent' = sent \union merged \union all
            /\ UNCHANGED <<clock, pending, dumps, flush, report, recorded, crossed, spoilt>>
      BY <2>2 DEF SendOnly
    <3> QED  BY <2>1, <3>1
  <2> QED  BY <2>1, <2>2 DEF LoadDumps, SendFails
<1>2. /\ report' = NoReport \/ report' \in [step : {"sending"}, paths : SUBSET recorded]
      /\ ReportHasDumps'
  <2>1. CASE LoadDumps
    <3> DEFINE all == UNION {dumps[d] : d \in Readable}
    <3>1. all \subseteq recorded  BY DEF PathsInv, PathTypes, Readable
    <3>2. \A d \in DOMAIN dumps : clock - d <= ReportAge => dumps[d] \subseteq all
      BY DEF Readable
    <3> HIDE DEF all
    <3>3. report' = [step |-> "sending", paths |-> all]  BY <2>1 DEF LoadDumps, all
    <3> QED  BY <1>1, <3>1, <3>2, <3>3 DEF ReportHasDumps
  <2>2. CASE SendFails
    BY <1>1, <2>2 DEF SendFails, ReportHasDumps
  <2>3. CASE SendOnly
    BY <1>1, <2>3 DEF SendOnly, PathsInv, PathTypes, ReportHasDumps
  <2> QED  BY <2>1, <2>2, <2>3
<1>3. PathTypes'  BY <1>1, <1>2 DEF PathsInv, PathTypes
<1>4. ASSUME NEW q \in Paths, Clean(q)'  PROVE  Fate(q)'
  <2>1. Clean(q) /\ InDumps(q)' = InDumps(q)  BY <1>1, <1>4 DEF Clean, InDumps
  <2>2. \A o \in Flushers : (Sees(o, q)' <=> Sees(o, q)) /\ (Wrote(o, q)' <=> Wrote(o, q))
    BY <1>1 DEF Sees, Wrote
  <2> QED  BY <1>1, <2>1, <2>2 DEF PathsInv, Fate
<1> QED  BY <1>2, <1>3, <1>4 DEF PathsInv

LEMMA SendAndPruneKeeps == ASSUME PathsInv, SendAndPrune PROVE PathsInv'
<1>1. /\ report.step = "sending" /\ report # NoReport
      /\ sent' = sent \union report.paths /\ report' = NoReport
      /\ dumps' = [d \in DOMAIN dumps \ Old |-> dumps[d]]
      /\ spoilt' = spoilt \union UNION {dumps[d] : d \in {x \in Old : clock - x > ReportAge}}
      /\ UNCHANGED <<clock, pending, flush, recorded, crossed>>
  BY DEF SendAndPrune, NoReport
<1>2. report.paths \subseteq recorded  BY <1>1 DEF PathsInv, PathTypes
<1>3. UNION {dumps[d] : d \in {x \in Old : clock - x > ReportAge}} \subseteq recorded
  BY DEF PathsInv, PathTypes, Old
<1>4. \A d \in Old : d \in DOMAIN dumps /\ d \in Nat /\ d < clock
  BY PathsAssumption DEF Old, PathsInv, PathTypes
<1>5. PathTypes'
  BY <1>1, <1>2, <1>3 DEF PathsInv, PathTypes
<1>6. ReportHasDumps'  BY <1>1 DEF ReportHasDumps
<1>7. ASSUME NEW q \in Paths, Clean(q)'  PROVE  Fate(q)'
  <2>1. Clean(q) /\ \A d \in Old : clock - d > ReportAge => q \notin dumps[d]
    BY <1>1, <1>7 DEF Clean
  <2>2. Fate(q)  BY <2>1 DEF PathsInv
  <2>3. InDumps(q)' = InDumps(q) \ Old  BY <1>1 DEF InDumps
  <2>4. clock \notin Old /\ clock \in Nat  BY <1>4 DEF PathsInv, PathTypes
  <2>5. \A o \in Flushers : (Sees(o, q)' <=> Sees(o, q)) /\ (Wrote(o, q)' <=> Wrote(o, q))
    BY <1>1 DEF Sees, Wrote
  <2>6. clock \in DOMAIN dumps => clock \in DOMAIN dumps'  BY <1>1, <2>4
  <2>7. CASE q \in pending
    BY <1>1, <2>2, <2>3, <2>4, <2>5, <2>6, <2>7 DEF Fate
  <2>8. CASE q \notin pending
    <3>1. ASSUME NEW d \in DOMAIN dumps, InDumps(q) = {d}
          PROVE  \/ \E x \in DOMAIN dumps' : InDumps(q)' = {x}
                 \/ InDumps(q)' = {} /\ q \in sent'
      <4>1. CASE d \notin Old  BY <1>1, <2>3, <3>1, <4>1
      <4>2. CASE d \in Old
        <5>1. InDumps(q)' = {} /\ q \in dumps[d]  BY <2>3, <3>1, <4>2 DEF InDumps
        <5>2. clock - d \in Int /\ ReportAge \in Int
          BY <1>4, <2>4, <4>2, PathsAssumption
        <5>3. clock - d <= ReportAge /\ d < clock  BY <1>4, <2>1, <4>2, <5>1, <5>2
        <5>4. q \in report.paths  BY <1>1, <5>1, <5>3 DEF PathsInv, ReportHasDumps
        <5> QED  BY <1>1, <5>1, <5>4
      <4> QED  BY <4>1, <4>2
    <3>2. \/ \E x \in DOMAIN dumps' : InDumps(q)' = {x}
          \/ InDumps(q)' = {} /\ q \in sent'
      BY <1>1, <2>2, <2>3, <2>8, <3>1 DEF Fate
    <3>3. \A o \in Flushers : ~Sees(o, q)'  BY <2>2, <2>5, <2>8 DEF Fate
    <3> QED  BY <1>1, <2>8, <3>2, <3>3 DEF Fate
  <2> QED  BY <2>7, <2>8
<1> QED  BY <1>5, <1>6, <1>7 DEF PathsInv

LEMMA TickKeeps == ASSUME PathsInv, ClockTicks PROVE PathsInv'
<1>1. /\ clock < MaxClock /\ report = NoReport /\ clock' = clock + 1
      /\ \A f \in Flushers : flush[f].step \notin {"writing", "written"}
      /\ UNCHANGED <<pending, dumps, flush, report, recorded, sent, crossed, spoilt>>
  BY DEF ClockTicks
<1>2. PathTypes'
  <2>1. clock' \in 1..MaxClock /\ 1..clock \subseteq 1..clock'
    BY <1>1, PathsAssumption DEF PathsInv, PathTypes
  <2> QED  BY <1>1, <2>1 DEF PathsInv, PathTypes
<1>3. ReportHasDumps'  BY <1>1 DEF ReportHasDumps
<1>4. ASSUME NEW q \in Paths, Clean(q)'  PROVE  Fate(q)'
  <2>1. Clean(q) /\ InDumps(q)' = InDumps(q)  BY <1>1, <1>4 DEF Clean, InDumps
  <2>2. \A o \in Flushers : (Sees(o, q)' <=> Sees(o, q)) /\ ~Wrote(o, q)' /\ ~Wrote(o, q)
    BY <1>1 DEF Sees, Wrote
  <2> QED  BY <1>1, <2>1, <2>2 DEF PathsInv, Fate
<1> QED  BY <1>2, <1>3, <1>4 DEF PathsInv

LEMMA PathsInvariant == PathsSpec => []PathsInv
<1>1. ASSUME PathsInv, [PathsNext]_pathVars  PROVE  PathsInv'
  <2>1. ASSUME NEW p \in Paths, Record(p)  PROVE  PathsInv'
    BY <1>1, <2>1, RecordPathKeeps
  <2>2. ASSUME NEW f \in Flushers, \/ FlushLoads(f) \/ CreateDump(f) \/ WriteDump(f)
                                   \/ WriteFails(f) \/ RemovePending(f) \/ FlushEnds(f)
        PROVE  PathsInv'
    BY <1>1, <2>2, LoadKeeps, DumpKeeps, WriteFailsKeeps, RemovePendingKeeps, FlushEndsKeeps
  <2>3. CASE LoadDumps \/ SendFails \/ SendOnly  BY <1>1, <2>3, ReportKeeps
  <2>4. CASE SendAndPrune  BY <1>1, <2>4, SendAndPruneKeeps
  <2>5. CASE ClockTicks  BY <1>1, <2>5, TickKeeps
  <2>6. CASE UNCHANGED pathVars
    <3>1. UNCHANGED <<clock, pending, dumps, flush, report, recorded, sent, crossed, spoilt>>
      BY <2>6 DEF pathVars
    <3>2. PathTypes' /\ ReportHasDumps'
      BY <1>1, <3>1 DEF PathsInv, PathTypes, ReportHasDumps
    <3>3. ASSUME NEW q \in Paths, Clean(q)'  PROVE  Fate(q)'
      <4>1. Clean(q)  BY <3>1, <3>3 DEF Clean
      <4>2. Fate(q)  BY <1>1, <4>1 DEF PathsInv
      <4>3. InDumps(q)' = InDumps(q)  BY <3>1 DEF InDumps
      <4>4. \A f \in Flushers : (Sees(f, q)' <=> Sees(f, q)) /\ (Wrote(f, q)' <=> Wrote(f, q))
        BY <3>1 DEF Sees, Wrote
      <4> HIDE DEF InDumps, Sees, Wrote
      <4> QED  BY <3>1, <4>2, <4>3, <4>4 DEF Fate
    <3> QED  BY <3>2, <3>3 DEF PathsInv
  <2> QED  BY <1>1, <2>1, <2>2, <2>3, <2>4, <2>5, <2>6 DEF PathsNext
<1> QED  BY <1>1, PathsStart, PTL DEF PathsSpec

\* The dumps, the pending file, the flushes and the report hold what they may hold.
THEOREM PathsTypeCorrect == PathsSpec => []PathsTypeOK
<1>1. PathsInv => PathsTypeOK  BY DEF PathsInv, PathTypes, PathsTypeOK
<1> QED  BY <1>1, PathsInvariant, PTL

\* A path the server recorded is in one dump or in the pending file, and in a sent report if in
\* neither (Flush, logger.go:110; the report of server.go:282), unless another process's flush
\* crossed it, or its dump was overwritten, left behind by a broken flush or too old.
THEOREM PathsCounted == PathsSpec => []PathsCountedOnce
<1>1. ASSUME PathsInv, NEW p \in Paths, Clean(p)
      PROVE  \/ Cardinality(PlacesOf(p)) = 1
             \/ PlacesOf(p) = {} /\ p \in sent
  <2>1. Fate(p)  BY <1>1 DEF PathsInv
  <2>2. (\A f \in Flushing(Flushers) : flush[f].step = "written" => p \notin flush[f].seen)
          <=> ~(\E f \in Flushers : Wrote(f, p))
    BY DEF Flushing, Wrote, NotFlushing
  <2>3. PlacesOf(p) = InDumps(p) \union (IF p \in pending /\ ~(\E f \in Flushers : Wrote(f, p))
                                         THEN {0} ELSE {})
    BY <2>2 DEF PlacesOf, InDumps
  <2>4. CASE p \in pending
    <3>1. \E x : PlacesOf(p) = {x}  BY <2>1, <2>3, <2>4 DEF Fate
    <3> QED  BY <3>1, FS_Singleton
  <2>5. CASE p \notin pending
    <3>1. PlacesOf(p) = InDumps(p)  BY <2>3, <2>5
    <3>2. CASE \E d \in DOMAIN dumps : InDumps(p) = {d}  BY <3>1, <3>2, FS_Singleton
    <3>3. CASE InDumps(p) = {} /\ p \in sent  BY <3>1, <3>3
    <3> QED  BY <2>1, <2>5, <3>2, <3>3 DEF Fate
  <2> QED  BY <2>4, <2>5
<1>2. PathsInv => PathsCountedOnce
  BY <1>1 DEF PathsInv, PathTypes, Clean, PathsCountedOnce
<1> QED  BY <1>2, PathsInvariant, PTL
=============================================================================
