-------------------------- MODULE FeedQueueProofs --------------------------
(***************************************************************************)
(* The outbound feed: FeedQueue for any articles, peers, workers and       *)
(* batches, and PeerFilters, which decide what is queued, for any entries  *)
(* of a newsfeeds file and any articles.                                   *)
(***************************************************************************)
EXTENDS FeedQueue, PeerFilters, FiniteSetTheorems, WellFoundedInduction, TLAPS

Held == UNION {worker[w].batch : w \in Workers}

\* An article is offered to a peer once: what is queued or held is no longer to be offered.
QueuedOnce ==
  /\ \A m \in Ids : offer[m].left # {} => offer[m].step = "offering"
  /\ \A r \in Rows \cup Held :
       offer[r[2]].step \notin {"none", "stored"} /\ r[1] \notin offer[r[2]].left

\* A worker that is about to delete a row has a reason to.
WorkersSound ==
  \A w \in Workers :
    /\ worker[w].step # "idle" => worker[w].row \in worker[w].batch
    /\ worker[w].step = "complete" => worker[w].row \in received \cup excused

\* What excuses a row at the moment has been noted.
ExcusesNoted == \A r \in Rows \cup Held : Excuse(r) => r \in excused

\* A row that left the queue under a worker was delivered or excused.
HeldAccounted == \A r \in Held : r \in Rows \cup received \cup excused

\* A row that a worker holds is hidden until its lease ends.
LeaseHides == \A w \in Workers : \A r \in worker[w].batch : r \in due => <<w, r>> \in overrun

FeedInv ==
  /\ TypeOK /\ QueuedOnce /\ WorkersSound /\ ExcusesNoted /\ HeldAccounted
  /\ LeaseHides /\ OneDeliveryPerLease
\* The step of Delivery that a step of the feed must be.
PromiseStep == Promise!Next \/ UNCHANGED Promise!vars

LEMMA InitFeed == Init => FeedInv /\ Promise!Init
BY PeersAssumption, CrashesAssumption
   DEF Init, FeedInv, TypeOK, QueuedOnce, WorkersSound, ExcusesNoted, HeldAccounted, LeaseHides,
       OneDeliveryPerLease, Held, Rows, Resting, WorkerStates, NotOffered, Pairs, Promise!Init

-----------------------------------------------------------------------------
(* Offers. *)

\* Steps that move an offer on and leave the queue and the workers alone.
LEMMA OfferKeeps ==
  ASSUME FeedInv, NEW m \in Ids,
         Accept(m) \/ OfferLost(m) \/ BeginOffer(m) \/ EndOffer(m)
  PROVE  FeedInv' /\ PromiseStep
<1> USE DEF FeedInv, Accept, OfferLost, BeginOffer, EndOffer, adminVars, queueVars
<1>1. TypeOK'
  BY DEF TypeOK, WorkerStates
<1>2. QueuedOnce'
  <2>1. \A n \in Ids \ {m} : offer'[n] = offer[n]
    BY DEF TypeOK
  <2>2. offer'[m].left # {} => offer'[m].step = "offering"
    BY DEF QueuedOnce, TypeOK
  <2>3. ASSUME NEW r \in Rows \cup Held, r[2] = m
        PROVE  offer'[m].step = "offered" /\ offer'[m].left = {}
    BY <2>3 DEF QueuedOnce, TypeOK
  <2>4. \A r \in Rows \cup Held : r[2] \in Ids
    BY DEF TypeOK, Rows, Held, WorkerStates, Pairs
  <2>5. Rows' = Rows /\ Held' = Held
    BY DEF Rows, Held
  <2> QED
    BY <2>1, <2>2, <2>3, <2>4, <2>5 DEF QueuedOnce
<1>3. WorkersSound' /\ HeldAccounted' /\ LeaseHides' /\ OneDeliveryPerLease'
  BY DEF WorkersSound, HeldAccounted, LeaseHides, OneDeliveryPerLease, Rows, Held
<1>4. ExcusesNoted'
  BY DEF ExcusesNoted, Excuse, Rows, Held
<1> QED
  BY <1>1, <1>2, <1>3, <1>4 DEF PromiseStep, Promise!vars, Rows

LEMMA EnqueueKeeps ==
  ASSUME FeedInv, NEW m \in Ids, NEW p \in Peers, Enqueue(m, p)
  PROVE  FeedInv' /\ PromiseStep
<1> USE DEF FeedInv, Enqueue, BecomesDue, adminVars
<1> DEFINE r == <<p, m>>
<1>1. r \in Pairs /\ r \notin Held /\ r \notin Rows
  BY DEF QueuedOnce, Pairs
<1>2. TypeOK'
  BY <1>1 DEF TypeOK, WorkerStates, Rows
<1>3. QueuedOnce'
  BY <1>1 DEF QueuedOnce, TypeOK, Rows, Held, WorkerStates, Pairs
<1>4. WorkersSound' /\ LeaseHides' /\ OneDeliveryPerLease'
  BY <1>1 DEF WorkersSound, LeaseHides, OneDeliveryPerLease, Held
<1>5. ExcusesNoted' /\ HeldAccounted'
  BY <1>1 DEF ExcusesNoted, HeldAccounted, Excuse, Rows, Held
<1>6. PromiseStep
  BY <1>1 DEF PromiseStep, Promise!vars, Promise!Next, Promise!Owe, Rows
<1> QED
  BY <1>2, <1>3, <1>4, <1>5, <1>6

-----------------------------------------------------------------------------
(* Articles and peers go, the queue is emptied. *)

\* Rows S leave the queue and are excused; nothing else comes to be owed.
LEMMA ReleaseKeeps ==
  ASSUME FeedInv, NEW S, LeaveQueue(S),
         excused \subseteq excused', excused' \subseteq Pairs, Rows \cap S \subseteq excused',
         UNCHANGED <<offer, worker, received, overrun>>
  PROVE  /\ QueuedOnce' /\ WorkersSound' /\ HeldAccounted' /\ LeaseHides' /\ OneDeliveryPerLease'
         /\ due' \subseteq Pairs /\ before' \subseteq due' \X due' /\ later' \subseteq Pairs \ due'
         /\ PromiseStep
<1> USE DEF FeedInv, LeaveQueue, NoLongerDue
<1>1. Rows' = Rows \ S /\ Held' = Held
  BY DEF Rows, Held
<1>2. QueuedOnce'
  BY <1>1 DEF QueuedOnce
<1>3. WorkersSound' /\ LeaseHides' /\ OneDeliveryPerLease'
  BY DEF WorkersSound, LeaseHides, OneDeliveryPerLease
<1>4. HeldAccounted'
  BY <1>1 DEF HeldAccounted
<1>5. due' \subseteq Pairs /\ before' \subseteq due' \X due' /\ later' \subseteq Pairs \ due'
  BY DEF TypeOK
<1>6. PromiseStep
  BY <1>1 DEF PromiseStep, Promise!Next, Promise!Release
<1> QED
  BY <1>2, <1>3, <1>4, <1>5, <1>6

LEMMA WithdrawKeeps ==
  ASSUME FeedInv, NEW m \in Ids, Withdraw(m) \/ Expire(m)
  PROVE  FeedInv' /\ PromiseStep
<1> USE DEF FeedInv, Withdraw, Expire, adminVars, queueVars
<1>1. PICK S \in SUBSET (Peers \X {m}) : LeaveQueue(S)
  <2>1. CASE Withdraw(m)
    BY <2>1
  <2>2. CASE Expire(m)
    <3>1. LeaveQueue({})
      BY <2>2 DEF LeaveQueue, NoLongerDue
    <3> QED
      BY <3>1
  <2> QED
    BY <2>1, <2>2
<1>2. excused \subseteq excused' /\ excused' \subseteq Pairs /\ S \subseteq excused'
  BY <1>1 DEF TypeOK, Pairs
<1>3. ExcusesNoted'
  BY <1>1 DEF ExcusesNoted, Excuse, Rows, Held, LeaveQueue, NoLongerDue, TypeOK, Pairs, WorkerStates
<1> QED
  BY <1>1, <1>2, <1>3, ReleaseKeeps DEF TypeOK

LEMMA AdminKeeps ==
  ASSUME FeedInv, NEW p, (p \in Peers /\ AdminStep(p)) \/ FlushFeedQueue(Peers)
  PROVE  FeedInv' /\ PromiseStep
<1> USE DEF FeedInv, AdminStep, SetEnabled, SetWanting, DeletePeer, FlushFeedQueue, adminVars, queueVars
<1>1. PICK S : LeaveQueue(S) /\ Rows \cap S \subseteq excused'
  <2>1. CASE \E on \in BOOLEAN : SetEnabled(p, on) \/ SetWanting(p, on)
    <3>1. LeaveQueue({})
      BY <2>1 DEF LeaveQueue, NoLongerDue, TypeOK
    <3> QED
      BY <3>1
  <2>2. CASE DeletePeer(p)
    BY <2>2
  <2>3. CASE FlushFeedQueue({p}) \/ FlushFeedQueue(Peers)
    BY <2>3
  <2> QED
    BY <2>1, <2>2, <2>3
<1>2. excused \subseteq excused' /\ excused' \subseteq Pairs
  BY DEF TypeOK, Pairs, Rows
<1>3. /\ peers' \subseteq Peers /\ enabled' \subseteq peers' /\ wanting' \subseteq Peers
      /\ UNCHANGED <<stored, offer, worker, received, overrun, crashes>>
  BY DEF TypeOK
<1>4. Rows' \subseteq Rows /\ Held' = Held
  BY <1>1, <1>3 DEF Rows, Held, LeaveQueue, NoLongerDue
<1>5. ASSUME NEW r \in Rows' \cup Held', Excuse(r)'
      PROVE  r \in excused'
  <2>1. r \in Pairs /\ (Excuse(r) => r \in excused)
    BY <1>4 DEF ExcusesNoted, TypeOK, Rows, Held, WorkerStates
  <2>2. CASE Excuse(r)
    BY <2>1, <2>2, <1>2
  <2>3. CASE ~Excuse(r)
    BY <2>1, <2>3, <1>5, <1>3 DEF Excuse, Pairs
  <2> QED
    BY <2>2, <2>3
<1> QED
  BY <1>1, <1>2, <1>3, <1>5, ReleaseKeeps DEF TypeOK, ExcusesNoted
-----------------------------------------------------------------------------
(* Time and the workers. *)

LEMMA ComesDueKeeps ==
  ASSUME FeedInv, NEW r \in Pairs, ComesDue(r)
  PROVE  FeedInv' /\ PromiseStep
<1> USE DEF FeedInv, ComesDue, BecomesDue, adminVars
<1>1. Rows' = Rows /\ Held' = Held
  BY DEF Rows, Held
<1>2. TypeOK'
  BY DEF TypeOK, WorkerStates
<1>3. QueuedOnce' /\ WorkersSound' /\ ExcusesNoted' /\ HeldAccounted'
  BY <1>1 DEF QueuedOnce, WorkersSound, ExcusesNoted, HeldAccounted, Excuse
<1>4. LeaseHides' /\ OneDeliveryPerLease'
  BY DEF LeaseHides, OneDeliveryPerLease
<1> QED
  BY <1>1, <1>2, <1>3, <1>4 DEF PromiseStep, Promise!vars

LEMMA ClaimKeeps ==
  ASSUME FeedInv, NEW w \in Workers, Claim(w)
  PROVE  FeedInv' /\ PromiseStep
<1> USE DEF FeedInv, Claim, NoLongerDue, adminVars
<1>1. PICK taken \in SUBSET due :
        /\ worker' = [worker EXCEPT ![w] = [Resting EXCEPT !.batch = taken]]
        /\ NoLongerDue(taken) /\ later' = later \cup taken
  BY DEF FirstDue
<1>2. Rows' = Rows /\ Held' = Held \cup taken
  <2>1. Held' \subseteq Held \cup taken
    BY <1>1 DEF Held, TypeOK, Resting
  <2>2. ASSUME NEW r \in Held PROVE r \in Held'
    BY <1>1 DEF Held, TypeOK, Resting
  <2>3. worker'[w].batch = taken
    BY <1>1 DEF TypeOK, Resting
  <2>4. Rows' = Rows
    BY <1>1 DEF Rows
  <2> QED
    BY <2>1, <2>2, <2>3, <2>4 DEF Held
<1>3. TypeOK'
  BY <1>1 DEF TypeOK, WorkerStates, Resting
<1>4. QueuedOnce' /\ ExcusesNoted' /\ HeldAccounted'
  BY <1>1, <1>2 DEF QueuedOnce, ExcusesNoted, HeldAccounted, Excuse, Rows
<1>5. WorkersSound'
  BY <1>1 DEF WorkersSound, TypeOK, Resting
<1>6. LeaseHides'
  BY <1>1 DEF LeaseHides, TypeOK, Resting
<1>7. OneDeliveryPerLease'
  <2>1. worker'[w].batch = taken /\ \A v \in Workers \ {w} : worker'[v] = worker[v]
    BY <1>1 DEF TypeOK, Resting
  <2>2. \A x \in overrun : x[1] # w => x \in overrun'
    OBVIOUS
  <2>3. \A v \in Workers \ {w} : \A r \in worker[v].batch \cap taken : <<v, r>> \in overrun'
    BY <2>2 DEF LeaseHides
  <2>4. \A u, v \in Workers \ {w} : u # v =>
          \A r \in worker[u].batch \cap worker[v].batch : <<u, r>> \in overrun' \/ <<v, r>> \in overrun'
    BY <2>2 DEF OneDeliveryPerLease
  <2> QED
    BY <2>1, <2>3, <2>4 DEF OneDeliveryPerLease
<1> QED
  BY <1>2, <1>3, <1>4, <1>5, <1>6, <1>7 DEF PromiseStep, Promise!vars

\* A delivery goes on: the row may reach the peer, or be excused.
LEMMA DeliveryKeeps ==
  ASSUME FeedInv, NEW w \in Workers,
         \/ \E r \in worker[w].batch : Look(w, r)
         \/ TransferFails(w) \/ AnswerLost(w) \/ Answered(w)
  PROVE  FeedInv' /\ PromiseStep
<1> USE DEF FeedInv, Look, TransferFails, AnswerLost, Answered, Transferred, Refused, Delivering,
            Proceed, adminVars, queueVars
<1> DEFINE GoesOn ==
  /\ worker'[w] \in WorkerStates
  /\ worker'[w].batch = worker[w].batch
  /\ worker'[w].step # "idle" /\ worker'[w].row \in worker[w].batch
  /\ worker'[w].step = "complete" => worker'[w].row \in received' \cup excused'
<1>0. GoesOn
  <2>0. worker[w] \in WorkerStates
    BY DEF TypeOK
  <2>1. ASSUME NEW r \in worker[w].batch, Look(w, r)
        PROVE  GoesOn
    <3>1. r \in Pairs /\ (Excuse(r) => r \in excused)
      BY <2>0 DEF WorkerStates, ExcusesNoted, Held
    <3>2. PICK step \in {"complete", "dial", "fail"} :
            /\ worker' = [worker EXCEPT ![w].row = r, ![w].step = step]
            /\ step = "complete" => Excuse(r)
      BY <2>1
    <3>3. worker'[w] = [worker[w] EXCEPT !.row = r, !.step = step]
      BY <3>2 DEF TypeOK
    <3>4. /\ worker'[w].batch = worker[w].batch
          /\ worker'[w].row = r /\ worker'[w].step = step
      BY <2>0, <3>3 DEF WorkerStates
    <3>5. worker'[w] \in WorkerStates
      BY <2>0, <3>1, <3>3 DEF WorkerStates
    <3>6. UNCHANGED excused
      BY <2>1
    <3> QED
      BY <3>1, <3>2, <3>4, <3>5, <3>6
  <2>2. CASE TransferFails(w) \/ AnswerLost(w) \/ Answered(w)
    <3>1. PICK step \in {"complete", "fail"} :
            /\ worker' = [worker EXCEPT ![w].step = step]
            /\ step = "complete" => worker[w].row \in received' \cup excused'
      BY <2>2
    <3>2. worker[w].row \in worker[w].batch
      BY <2>2 DEF WorkersSound
    <3>3. worker'[w] = [worker[w] EXCEPT !.step = step]
      BY <3>1 DEF TypeOK
    <3> QED
      BY <2>0, <3>1, <3>2, <3>3 DEF WorkerStates
  <2> QED
    BY <2>1, <2>2
<1>a. /\ worker' \in [Workers -> WorkerStates]
      /\ \A v \in Workers \ {w} : worker'[v] = worker[v]
  <2>1. worker' = [worker EXCEPT ![w] = worker'[w]]
    BY DEF TypeOK
  <2> QED
    BY <1>0, <2>1 DEF TypeOK
<1>1. \A v \in Workers : worker'[v].batch = worker[v].batch
  BY <1>0, <1>a
<1>2. Rows' = Rows /\ Held' = Held
  <2>1. UNCHANGED <<due, later>>
    OBVIOUS
  <2>2. Held' = Held
    BY ONLY <1>1 DEF Held
  <2> QED
    BY <2>1, <2>2 DEF Rows
<1>3. worker'[w].row \in Pairs
  BY <1>0 DEF WorkerStates
<1>4. TypeOK'
  <2>1. worker[w].step = "dial" => worker[w].row \in Pairs
    BY DEF TypeOK, WorkerStates, WorkersSound
  <2> QED
    BY <1>a, <2>1 DEF TypeOK
<1>5. WorkersSound'
  BY <1>0, <1>a DEF WorkersSound
<1>6. QueuedOnce' /\ ExcusesNoted' /\ HeldAccounted'
  BY <1>2 DEF QueuedOnce, ExcusesNoted, HeldAccounted, Excuse
<1>7. LeaseHides' /\ OneDeliveryPerLease'
  BY <1>1 DEF LeaseHides, OneDeliveryPerLease
<1>8. PromiseStep
  <2>1. worker[w].step = "dial" => worker[w].row \in Rows \cup received \cup excused
    BY DEF WorkersSound, HeldAccounted, Held
  <2>2. CASE \/ \E r \in worker[w].batch : Look(w, r)
             \/ TransferFails(w)
    BY <1>2, <2>2 DEF PromiseStep, Promise!vars
  <2>3. CASE AnswerLost(w) \/ Transferred(w)
    <3>1. worker[w].row \in Pairs
      BY <1>3, <2>3 DEF TypeOK, WorkerStates, WorkersSound
    <3> QED
      BY <1>2, <2>1, <2>3, <3>1 DEF PromiseStep, Promise!Next, Promise!Deliver
  <2>4. CASE Refused(w)
    <3>1. excused' \subseteq Pairs
      BY <1>4 DEF TypeOK
    <3> QED
      BY <1>2, <2>4, <3>1 DEF PromiseStep, Promise!Next, Promise!Release
  <2> QED
    BY <2>2, <2>3, <2>4
<1> QED
  BY <1>4, <1>5, <1>6, <1>7, <1>8

\* A worker is done with a row, which stays or goes for a reason.
LEMMA SettleKeeps ==
  ASSUME FeedInv, NEW w \in Workers, CompleteFeed(w) \/ FailFeed(w) \/ SettleFails(w)
  PROVE  FeedInv' /\ PromiseStep
<1> DEFINE r == worker[w].row
<1> USE DEF FeedInv, CompleteFeed, FailFeed, SettleFails, Delivering, Next1, LeaveQueue, NoLongerDue,
            adminVars, queueVars
<1>1. /\ worker' = [worker EXCEPT ![w] = [Resting EXCEPT !.batch = worker[w].batch \ {r}]]
      /\ overrun' = overrun \ {<<w, r>>}
      /\ UNCHANGED <<stored, offer, adminVars, received, excused, crashes>>
      /\ r \in Pairs /\ r \in worker[w].batch
  BY DEF WorkersSound, TypeOK, WorkerStates
<1>2. /\ worker'[w].batch = worker[w].batch \ {r} /\ worker'[w].step = "idle"
      /\ \A v \in Workers \ {w} : worker'[v] = worker[v]
  BY <1>1 DEF TypeOK, Resting
<1>3. Held' \subseteq Held
  BY <1>2 DEF Held
<1>4. /\ Rows' \subseteq Rows /\ Rows \ Rows' \subseteq received \cup excused
      /\ due' \subseteq due
  BY DEF Rows, WorkersSound
<1>5. TypeOK'
  BY <1>1 DEF TypeOK, WorkerStates, Resting, Rows
<1>6. QueuedOnce' /\ ExcusesNoted' /\ HeldAccounted'
  BY <1>1, <1>3, <1>4 DEF QueuedOnce, ExcusesNoted, HeldAccounted, Excuse
<1>7. WorkersSound' /\ LeaseHides' /\ OneDeliveryPerLease'
  BY <1>1, <1>2, <1>4 DEF WorkersSound, LeaseHides, OneDeliveryPerLease
<1>8. PromiseStep
  BY <1>1, <1>4, <1>5 DEF PromiseStep, Promise!Next, Promise!Release, TypeOK
<1> QED
  BY <1>5, <1>6, <1>7, <1>8

LEMMA CrashKeeps ==
  ASSUME FeedInv, Crash
  PROVE  FeedInv' /\ PromiseStep
<1> USE DEF FeedInv, Crash, adminVars, queueVars
<1>1. Rows' = Rows /\ Held' = {}
  BY DEF Rows, Held, Resting
<1>2. TypeOK'
  BY CrashesAssumption DEF TypeOK, WorkerStates, Resting
<1>3. QueuedOnce'
  BY <1>1 DEF QueuedOnce, TypeOK, Rows, Pairs
<1>4. /\ WorkersSound' /\ ExcusesNoted' /\ HeldAccounted' /\ LeaseHides'
      /\ OneDeliveryPerLease'
  BY <1>1 DEF WorkersSound, ExcusesNoted, HeldAccounted, LeaseHides, OneDeliveryPerLease, Excuse,
              Resting
<1> QED
  BY <1>1, <1>2, <1>3, <1>4 DEF PromiseStep, Promise!vars

-----------------------------------------------------------------------------
(* The theorems. *)

LEMMA NextKeeps ==
  ASSUME FeedInv, [Next]_vars
  PROVE  FeedInv' /\ PromiseStep
<1>1. CASE Next
  <2>1. ASSUME NEW m \in Ids, OfferStep(m) \/ Withdraw(m) \/ Expire(m)
        PROVE  FeedInv' /\ PromiseStep
    BY <2>1, OfferKeeps, EnqueueKeeps, WithdrawKeeps DEF OfferStep
  <2>2. ASSUME NEW w \in Workers, WorkerStep(w)
        PROVE  FeedInv' /\ PromiseStep
    BY <2>2, ClaimKeeps, DeliveryKeeps, SettleKeeps DEF WorkerStep
  <2>3. ASSUME NEW p \in AdminPeers, AdminStep(p)
        PROVE  FeedInv' /\ PromiseStep
    BY <2>3, PeersAssumption, AdminKeeps
  <2>4. CASE FlushFeedQueue(Peers)
    BY <2>4, AdminKeeps
  <2> QED
    BY <1>1, <2>1, <2>2, <2>3, <2>4, ComesDueKeeps, CrashKeeps DEF Next
<1>2. CASE UNCHANGED vars
  BY <1>2
     DEF vars, adminVars, queueVars, FeedInv, TypeOK, QueuedOnce, WorkersSound, ExcusesNoted,
         HeldAccounted, LeaseHides, OneDeliveryPerLease, Excuse, Held, Rows, PromiseStep,
         Promise!vars
<1> QED
  BY <1>1, <1>2

LEMMA FeedInvariant == Spec => []FeedInv
<1>1. Init => FeedInv
  BY InitFeed
<1>2. FeedInv /\ [Next]_vars => FeedInv'
  BY NextKeeps
<1> QED
  BY <1>1, <1>2, PTL DEF Spec

\* The queue keeps its type, and a row is due or under a lease, not both (postgres_ops.go).
THEOREM FeedTypeCorrect == Spec => []TypeOK
<1>1. FeedInv => TypeOK
  BY DEF FeedInv
<1> QED
  BY <1>1, FeedInvariant, PTL

\* However many workers drain the queue, two have one row in hand only after the lease of one
\* of them ran out (ClaimFeedDue, postgres_ops.go).
THEOREM LeaseExcludes == Spec => []OneDeliveryPerLease
<1>1. FeedInv => OneDeliveryPerLease
  BY DEF FeedInv
<1> QED
  BY <1>1, FeedInvariant, PTL

\* The queue implements Delivery: whatever workers, crashes, late answers and administrators
\* do, no row leaves it before its peer has the article or something excused it (feed.go).
THEOREM FeedKeepsPromise == Spec => KeepsPromise
<1>1. Init => Promise!Init
  BY InitFeed
<1>2. FeedInv /\ [Next]_vars => [Promise!Next]_(Promise!vars)
  BY NextKeeps DEF PromiseStep
<1> QED
  BY <1>1, <1>2, FeedInvariant, PTL DEF Spec, KeepsPromise, Promise!Spec
-----------------------------------------------------------------------------
(***************************************************************************)
(* The filters.  What a loop leaves behind is what is said of its first n  *)
(* turns, for each n: the values of a loop exist because there is no least *)
(* turn without one, and the same argument carries a statement from turn   *)
(* to turn.                                                                *)
(***************************************************************************)

\* A set of numbers with 0 and the number after each of its numbers has them all.
LEMMA Induction ==
  ASSUME NEW S, 0 \in S, \A n \in Nat : n \in S => n + 1 \in S
  PROVE  Nat \subseteq S
<1> DEFINE Out == Nat \ S
<1>1. CASE Out = {}
  BY <1>1
<1>2. CASE Out # {}
  <2>1. PICK n \in Out : \A m \in Out : ~(<<m, n>> \in OpToRel(<, Nat))
    <3>1. Out \subseteq Nat /\ Out # {}
      BY <1>2
    <3> HIDE DEF Out
    <3> QED
      BY <3>1, NatLessThanWellFounded, WFMin
  <2>2. \A m \in Out : ~(m < n)
    BY <2>1 DEF OpToRel
  <2>3. n \in Nat \ {0} /\ n - 1 \in Nat /\ n - 1 < n
    OBVIOUS
  <2>4. n - 1 \in S
    BY <2>2, <2>3
  <2>5. n \in S
    BY <2>3, <2>4
  <2> QED
    BY <2>5
<1> QED
  BY <1>1, <1>2

\* The same for an interval.
LEMMA InductionUpTo ==
  ASSUME NEW n \in Nat, NEW S, 0 \in S, \A i \in 1..n : i - 1 \in S => i \in S
  PROVE  0..n \subseteq S
<1> DEFINE T == {i \in Nat : i <= n => i \in S}
<1>1. 0 \in T
  OBVIOUS
<1>2. ASSUME NEW i \in Nat, i \in T
      PROVE  i + 1 \in T
  <2>1. CASE i + 1 <= n
    <3>1. i + 1 \in 1..n /\ (i + 1) - 1 = i /\ i <= n
      BY <2>1
    <3> QED
      BY <3>1, <1>2
  <2> QED
    BY <2>1
<1>3. Nat \subseteq T
  <2> HIDE DEF T
  <2> QED
    BY <1>1, <1>2, Induction
<1> QED
  BY <1>3

-----------------------------------------------------------------------------
\* The values of a loop of n turns, at first and after each of them.
Runs(T, first, n, turn) ==
  {f \in [0..n -> T] : f[0] = first /\ \A i \in 1..n : f[i] = turn[i][f[i - 1]]}

\* Every loop has them.
LEMMA LoopDefined ==
  ASSUME NEW T, NEW first \in T, NEW n \in Nat, NEW turn \in [1..n -> [T -> T]]
  PROVE  Runs(T, first, n, turn) # {}
<1> DEFINE S == {k \in 0..n : Runs(T, first, k, turn) # {}}
<1>1. 0 \in S
  <2>1. [i \in 0..0 |-> first] \in Runs(T, first, 0, turn)
    BY DEF Runs
  <2> QED
    BY <2>1
<1>2. ASSUME NEW k \in 1..n, k - 1 \in S
      PROVE  k \in S
  <2>1. PICK f \in Runs(T, first, k - 1, turn) : TRUE
    BY <1>2
  <2> DEFINE g == [i \in 0..k |-> IF i = k THEN turn[k][f[k - 1]] ELSE f[i]]
  <2>2. f \in [0..(k - 1) -> T] /\ k - 1 \in 0..(k - 1)
    BY <2>1 DEF Runs
  <2>3. turn[k][f[k - 1]] \in T
    BY <2>2
  <2>4. g \in [0..k -> T]
    BY <2>2, <2>3
  <2>5. g[0] = first
    BY <2>1 DEF Runs
  <2>6. ASSUME NEW i \in 1..k
        PROVE  g[i] = turn[i][g[i - 1]]
    <3>1. i - 1 \in 0..k /\ i - 1 # k /\ g[i - 1] = f[i - 1]
      OBVIOUS
    <3>2. CASE i = k
      BY <3>1, <3>2
    <3>3. CASE i # k
      <4>1. i \in 1..(k - 1)
        BY <3>3
      <4>2. f[i] = turn[i][f[i - 1]]
        BY <4>1, <2>1 DEF Runs
      <4> QED
        BY <4>2, <3>1, <3>3
    <3> QED
      BY <3>2, <3>3
  <2>7. g \in Runs(T, first, k, turn)
    BY <2>4, <2>5, <2>6 DEF Runs
  <2>8. k \in 0..n /\ Runs(T, first, k, turn) # {}
    <3> HIDE DEF g
    <3> QED
      BY <2>7
  <2> QED
    BY <2>8
<1>3. 0..n \subseteq S
  <2> HIDE DEF S
  <2> QED
    BY <1>1, <1>2, InductionUpTo
<1>4. n \in S
  BY <1>3
<1> QED
  BY <1>4

-----------------------------------------------------------------------------
(* Globs. *)

\* What matched is after each character, counted from the end.
LEMMA GlobLoop ==
  ASSUME NEW pat, NEW s, IsSeq(pat), IsSeq(s)
  PROVE  \E m \in [0..Len(pat) -> SUBSET (1..Len(s) + 1)] :
           /\ m[0] = {Len(s) + 1}
           /\ \A n \in 1..Len(pat) : m[n] = Starts(pat[Len(pat) + 1 - n], m[n - 1], s)
           /\ MatchGlob(pat, s) <=> 1 \in m[Len(pat)]
<1> DEFINE N == Len(pat)
           T == SUBSET (1..Len(s) + 1)
           turn == [n \in 1..N |-> [ends \in T |-> Starts(pat[N + 1 - n], ends, s)]]
           Body(m) == [n \in 0..N |-> IF n = 0 THEN {Len(s) + 1}
                                      ELSE Starts(pat[N + 1 - n], m[n - 1], s)]
           matched == CHOOSE m : m = Body(m)
<1>1. N \in Nat /\ Len(s) \in Nat
  BY DEF IsSeq
<1>2. {Len(s) + 1} \in T
  BY <1>1
<1>3. turn \in [1..N -> [T -> T]]
  <2>1. \A c, ends : Starts(c, ends, s) \in T
    BY DEF Starts
  <2> HIDE DEF T, N
  <2> QED
    BY <2>1
<1>4. PICK f \in [0..N -> T] :
        /\ f[0] = {Len(s) + 1}
        /\ \A i \in 1..N : f[i] = turn[i][f[i - 1]]
  <2>1. Runs(T, {Len(s) + 1}, N, turn) # {}
    <3> HIDE DEF N, T, turn
    <3> QED
      BY <1>1, <1>2, <1>3, LoopDefined
  <2> QED
    BY <2>1 DEF Runs
<1>5. f = Body(f)
  <2>1. \A n \in 1..N : f[n] = Starts(pat[N + 1 - n], f[n - 1], s)
    <3> SUFFICES ASSUME NEW n \in 1..N
                 PROVE  f[n] = Starts(pat[N + 1 - n], f[n - 1], s)
      OBVIOUS
    <3>1. n - 1 \in 0..N /\ f[n - 1] \in T
      BY <1>1, <1>4
    <3> HIDE DEF T, N
    <3> QED
      BY <3>1, <1>4
  <2>2. \A n \in 0..N : n # 0 => n \in 1..N
    BY <1>1
  <2> QED
    BY <2>1, <2>2, <1>4
<1>6. matched = Body(matched)
  BY <1>5
<1>7. \A n \in 1..N : matched[n] = Starts(pat[N + 1 - n], matched[n - 1], s)
  <2>1. \A n \in 1..N : n \in 0..N /\ n # 0
    BY <1>1
  <2> HIDE DEF matched
  <2> QED
    BY <1>6, <2>1
<1>8. matched[0] = {Len(s) + 1}
  <2>1. 0 \in 0..N
    BY <1>1
  <2> HIDE DEF matched
  <2> QED
    BY <1>6, <2>1
<1>9. matched \in [0..N -> T]
  <2>1. \A n \in 0..N : matched[n] \in T
    <3>1. \A c, ends : Starts(c, ends, s) \in T
      BY DEF Starts
    <3>2. \A n \in 0..N : n # 0 => n \in 1..N
      BY <1>1
    <3> HIDE DEF matched, T, N
    <3> QED
      BY <1>2, <1>7, <1>8, <3>1, <3>2
  <2> HIDE DEF matched, T
  <2> QED
    BY <2>1, <1>6
<1>10. MatchGlob(pat, s) <=> 1 \in matched[N]
  BY DEF MatchGlob
<1> QED
  <2> HIDE DEF matched
  <2> QED
    BY <1>7, <1>8, <1>9, <1>10

\* One character of a glob takes the piece of the text between two cuts.
Piece(pat, s, i, from, to) ==
  IF pat[i] = "*" THEN from <= to ELSE to = from + 1 /\ pat[i] \in {"?", s[from]}

\* The ways to cut the suffix of s that begins at k for the last n characters of the glob.
Cuts(pat, s, n, k) ==
  {cut \in [Len(pat) + 1 - n..Len(pat) + 1 -> 1..Len(s) + 1] :
     /\ cut[Len(pat) + 1 - n] = k /\ cut[Len(pat) + 1] = Len(s) + 1
     /\ \A i \in Len(pat) + 1 - n..Len(pat) : Piece(pat, s, i, cut[i], cut[i + 1])}

\* A suffix can be cut for one more character if the character takes a piece of it and
\* leaves a suffix that can be cut for the others.
LEMMA CutOneMore ==
  ASSUME NEW pat, NEW s, IsSeq(pat), IsSeq(s),
         NEW n \in 1..Len(pat), NEW k \in 1..Len(s) + 1
  PROVE  Cuts(pat, s, n, k) # {}
           <=> \E j \in 1..Len(s) + 1 : /\ Piece(pat, s, Len(pat) + 1 - n, k, j)
                                        /\ Cuts(pat, s, n - 1, j) # {}
<1> DEFINE N == Len(pat)
           L == Len(s)
           a == N + 1 - n
<1>1. /\ N \in Nat /\ L \in Nat /\ a \in 1..N /\ N + 1 - (n - 1) = a + 1
      /\ a + 1 \in a + 1..N + 1 /\ a \in a..N /\ a + 1 <= N + 1
  BY DEF IsSeq
<1> HIDE DEF N, L, a
<1>2. ASSUME NEW cut \in Cuts(pat, s, n, k)
      PROVE  /\ cut[a + 1] \in 1..L + 1
             /\ Piece(pat, s, a, k, cut[a + 1])
             /\ Cuts(pat, s, n - 1, cut[a + 1]) # {}
  <2>1. /\ cut \in [a..N + 1 -> 1..L + 1] /\ cut[a] = k /\ cut[N + 1] = L + 1
        /\ \A i \in a..N : Piece(pat, s, i, cut[i], cut[i + 1])
    BY DEF Cuts, N, L, a
  <2> DEFINE rest == [i \in a + 1..N + 1 |-> cut[i]]
  <2>2. rest \in [a + 1..N + 1 -> 1..L + 1] /\ rest[a + 1] = cut[a + 1] /\ rest[N + 1] = L + 1
    BY <1>1, <2>1
  <2>3. \A i \in a + 1..N : Piece(pat, s, i, rest[i], rest[i + 1])
    <3>1. \A i \in a + 1..N : i \in a..N /\ rest[i] = cut[i] /\ rest[i + 1] = cut[i + 1]
      BY <1>1
    <3> HIDE DEF rest
    <3> QED
      BY <3>1, <2>1
  <2>4. rest \in Cuts(pat, s, n - 1, cut[a + 1])
    <3> HIDE DEF rest
    <3> QED
      BY <1>1, <2>2, <2>3 DEF Cuts, N, L
  <2> QED
    BY <1>1, <2>1, <2>4
<1>3. ASSUME NEW j \in 1..L + 1, Piece(pat, s, a, k, j), NEW rest \in Cuts(pat, s, n - 1, j)
      PROVE  Cuts(pat, s, n, k) # {}
  <2>1. /\ rest \in [a + 1..N + 1 -> 1..L + 1] /\ rest[a + 1] = j /\ rest[N + 1] = L + 1
        /\ \A i \in a + 1..N : Piece(pat, s, i, rest[i], rest[i + 1])
    BY <1>1 DEF Cuts, N, L
  <2> DEFINE cut == [i \in a..N + 1 |-> IF i = a THEN k ELSE rest[i]]
  <2>2. cut \in [a..N + 1 -> 1..L + 1] /\ cut[a] = k /\ cut[a + 1] = j /\ cut[N + 1] = L + 1
    <3>1. \A i \in a..N + 1 : i # a => i \in a + 1..N + 1
      BY <1>1
    <3>2. k \in 1..L + 1
      BY DEF L
    <3> QED
      BY <1>1, <2>1, <3>1, <3>2
  <2>3. \A i \in a..N : Piece(pat, s, i, cut[i], cut[i + 1])
    <3>1. \A i \in a + 1..N : i \in a..N /\ cut[i] = rest[i] /\ cut[i + 1] = rest[i + 1]
      BY <1>1
    <3>2. \A i \in a..N : i = a \/ i \in a + 1..N
      BY <1>1
    <3> HIDE DEF cut
    <3> QED
      BY <1>3, <2>1, <2>2, <3>1, <3>2
  <2>4. cut \in Cuts(pat, s, n, k)
    <3> HIDE DEF cut
    <3> QED
      BY <2>2, <2>3 DEF Cuts, N, L, a
  <2> QED
    BY <2>4
<1> QED
  BY <1>2, <1>3 DEF N, L, a

\* matchRunes finds a match if and only if there is a way to cut the text.
LEMMA GlobFits ==
  ASSUME NEW pat, NEW s, IsSeq(pat), IsSeq(s)
  PROVE  MatchGlob(pat, s) <=> Fits(pat, s)
<1> DEFINE N == Len(pat)
           L == Len(s)
<1>1. N \in Nat /\ L \in Nat
  BY DEF IsSeq
<1>2. PICK m \in [0..N -> SUBSET (1..L + 1)] :
        /\ m[0] = {L + 1}
        /\ \A n \in 1..N : m[n] = Starts(pat[N + 1 - n], m[n - 1], s)
        /\ MatchGlob(pat, s) <=> 1 \in m[N]
  BY GlobLoop
<1> DEFINE Good(n) == \A k \in 1..L + 1 : k \in m[n] <=> Cuts(pat, s, n, k) # {}
           S == {n \in 0..N : Good(n)}
<1>3. 0 \in S
  <2>1. ASSUME NEW k \in 1..L + 1, NEW cut \in Cuts(pat, s, 0, k)
        PROVE  k = L + 1
    BY <1>1 DEF Cuts
  <2>2. [i \in N + 1..N + 1 |-> L + 1] \in Cuts(pat, s, 0, L + 1)
    <3> DEFINE cut == [i \in N + 1..N + 1 |-> L + 1]
    <3>1. cut \in [N + 1..N + 1 -> 1..L + 1] /\ cut[N + 1] = L + 1 /\ N + 1 - 0 = N + 1
      BY <1>1
    <3>2. \A i \in N + 1..N : FALSE
      BY <1>1
    <3> HIDE DEF cut
    <3> QED
      BY <3>1, <3>2 DEF Cuts
  <2>3. Good(0)
    BY <1>1, <1>2, <2>1, <2>2
  <2> QED
    BY <1>1, <2>3
<1>4. ASSUME NEW n \in 1..N, n - 1 \in S
      PROVE  n \in S
  <2>1. m[n] = Starts(pat[N + 1 - n], m[n - 1], s) /\ m[n - 1] \subseteq 1..L + 1
    <3>1. n - 1 \in 0..N
      BY <1>1
    <3> QED
      BY <1>2, <3>1
  <2>2. ASSUME NEW k \in 1..L + 1
        PROVE  k \in m[n] <=> \E j \in 1..L + 1 : Piece(pat, s, N + 1 - n, k, j) /\ j \in m[n - 1]
    BY <1>1, <2>1 DEF Starts, Piece
  <2>3. ASSUME NEW k \in 1..L + 1
        PROVE  Cuts(pat, s, n, k) # {}
                 <=> \E j \in 1..L + 1 : Piece(pat, s, N + 1 - n, k, j) /\ j \in m[n - 1]
    <3>1. \A j \in 1..L + 1 : j \in m[n - 1] <=> Cuts(pat, s, n - 1, j) # {}
      BY <1>4
    <3> QED
      BY <3>1, CutOneMore
  <2>4. Good(n)
    BY <2>2, <2>3
  <2> QED
    BY <1>1, <2>4
<1>5. Good(N)
  <2>1. 0..N \subseteq S
    <3> HIDE DEF S, N
    <3> QED
      BY <1>1, <1>3, <1>4, InductionUpTo
  <2> QED
    BY <1>1, <2>1
<1>6. 1 \in m[N] <=> Cuts(pat, s, N, 1) # {}
  BY <1>1, <1>5
<1>7. Fits(pat, s) <=> Cuts(pat, s, N, 1) # {}
  <2>1. N + 1 - N = 1
    BY <1>1
  <2> QED
    BY <2>1 DEF Fits, Cuts, Piece
<1> QED
  BY <1>2, <1>6, <1>7

-----------------------------------------------------------------------------
(* Wildmats. *)

IsWildmat(w) == IsSeq(w) /\ \A i \in DOMAIN w : IsSeq(w[i].glob)

\* What is matched after each pattern.
LEMMA MatchLoop ==
  ASSUME NEW w, NEW s, IsSeq(w)
  PROVE  \E f \in [0..Len(w) -> BOOLEAN] :
           /\ f[0] = FALSE
           /\ \A i \in 1..Len(w) : f[i] = Scan(f[i - 1], w[i], s)
           /\ Match(w, s) = f[Len(w)]
<1> DEFINE N == Len(w)
           turn == [i \in 1..N |-> [b \in BOOLEAN |-> Scan(b, w[i], s)]]
           Body(f) == [i \in 0..N |-> IF i = 0 THEN FALSE ELSE Scan(f[i - 1], w[i], s)]
           after == CHOOSE f : f = Body(f)
<1>1. N \in Nat
  BY DEF IsSeq
<1>2. \A b \in BOOLEAN : \A p : Scan(b, p, s) \in BOOLEAN
  BY DEF Scan
<1>3. turn \in [1..N -> [BOOLEAN -> BOOLEAN]]
  <2> HIDE DEF N
  <2> QED
    BY <1>2
<1>4. PICK f \in [0..N -> BOOLEAN] : f[0] = FALSE /\ \A i \in 1..N : f[i] = turn[i][f[i - 1]]
  <2>1. Runs(BOOLEAN, FALSE, N, turn) # {}
    <3>1. FALSE \in BOOLEAN
      OBVIOUS
    <3> HIDE DEF N, turn
    <3> QED
      BY <1>1, <1>3, <3>1, LoopDefined
  <2> QED
    BY <2>1 DEF Runs
<1>5. f = Body(f)
  <2>1. \A i \in 1..N : f[i - 1] \in BOOLEAN
    BY <1>1, <1>4
  <2>2. \A i \in 1..N : f[i] = Scan(f[i - 1], w[i], s)
    BY <2>1, <1>4
  <2>3. \A i \in 0..N : i # 0 => i \in 1..N
    BY <1>1
  <2> QED
    BY <2>2, <2>3, <1>4
<1>6. after = Body(after)
  BY <1>5
<1>7. after[0] = FALSE /\ \A i \in 1..N : after[i] = Scan(after[i - 1], w[i], s)
  <2>1. 0 \in 0..N /\ \A i \in 1..N : i \in 0..N /\ i # 0
    BY <1>1
  <2> HIDE DEF after
  <2> QED
    BY <1>6, <2>1
<1>8. after \in [0..N -> BOOLEAN]
  <2> DEFINE S == {i \in 0..N : after[i] \in BOOLEAN}
  <2>1. 0 \in S
    <3>1. 0 \in 0..N /\ FALSE \in BOOLEAN
      BY <1>1
    <3> HIDE DEF after
    <3> QED
      BY <1>7, <3>1
  <2>2. ASSUME NEW i \in 1..N, i - 1 \in S
        PROVE  i \in S
    <3>1. after[i - 1] \in BOOLEAN /\ i \in 0..N
      BY <2>2
    <3> HIDE DEF after
    <3> QED
      BY <1>2, <1>7, <3>1
  <2>3. 0..N \subseteq S
    <3> HIDE DEF S, N
    <3> QED
      BY <1>1, <2>1, <2>2, InductionUpTo
  <2> HIDE DEF after
  <2> QED
    BY <1>6, <2>3
<1>9. Match(w, s) = after[N]
  BY DEF Match, Loop
<1> QED
  <2> HIDE DEF after
  <2> QED
    BY <1>7, <1>8, <1>9

\* The last pattern that fits decides.
LEMMA MatchWants ==
  ASSUME NEW w, NEW s, IsWildmat(w), IsSeq(s)
  PROVE  Match(w, s) <=> Wants(w, s)
<1> DEFINE N == Len(w)
           Upto(k) == {i \in 1..k : i \in Matching(w, s)}
           Decided(k) == \E i \in Upto(k) : w[i].mark = "" /\ \A j \in Upto(k) : j <= i
<1>1. N \in Nat /\ DOMAIN w = 1..N /\ \A i \in 1..N : IsSeq(w[i].glob)
  <2>1. N \in Nat /\ DOMAIN w = 1..N
    BY DEF IsWildmat, IsSeq
  <2> QED
    BY <2>1 DEF IsWildmat
<1>2. PICK f \in [0..N -> BOOLEAN] :
        /\ f[0] = FALSE
        /\ \A i \in 1..N : f[i] = Scan(f[i - 1], w[i], s)
        /\ Match(w, s) = f[N]
  BY MatchLoop DEF IsWildmat
<1> DEFINE S == {k \in 0..N : f[k] <=> Decided(k)}
<1>3. 0 \in S
  <2>1. Upto(0) = {} /\ 0 \in 0..N
    BY <1>1
  <2>2. ~Decided(0)
    <3> HIDE DEF Upto
    <3> QED
      BY <2>1
  <2> HIDE DEF Decided
  <2> QED
    BY <1>2, <2>1, <2>2
<1>4. ASSUME NEW k \in 1..N, k - 1 \in S
      PROVE  k \in S
  <2> k \in 0..N /\ f[k] \in BOOLEAN
    BY <1>1, <1>2
  <2>1. (w[k].glob # <<>> /\ MatchGlob(w[k].glob, s)) <=> k \in Matching(w, s)
    BY <1>1, GlobFits DEF Matching
  <2>2. f[k] = IF k \in Matching(w, s) THEN w[k].mark = "" ELSE f[k - 1]
    BY <1>2, <2>1 DEF Scan
  <2>3. CASE k \in Matching(w, s)
    <3>1. k \in Upto(k) /\ \A j \in Upto(k) : j <= k
      BY <1>1, <2>3
    <3>2. Decided(k) <=> w[k].mark = ""
      <4>1. ASSUME NEW i \in Upto(k), \A j \in Upto(k) : j <= i
            PROVE  i = k
        <5>1. k <= i /\ i <= k /\ i \in Int /\ k \in Int
          BY <3>1, <4>1
        <5> QED
          BY <5>1
      <4> QED
        BY <3>1, <4>1
    <3> HIDE DEF Decided
    <3> QED
      BY <2>2, <2>3, <3>2
  <2>4. CASE k \notin Matching(w, s)
    <3>1. Upto(k) = Upto(k - 1)
      BY <1>1, <2>4
    <3>2. Decided(k) <=> Decided(k - 1)
      <4> HIDE DEF Upto
      <4> QED
        BY <3>1
    <3>3. f[k - 1] <=> Decided(k - 1)
      BY <1>4
    <3> HIDE DEF Decided
    <3> QED
      BY <2>2, <2>4, <3>2, <3>3
  <2> QED
    BY <2>3, <2>4
<1>5. f[N] <=> Decided(N)
  <2>1. 0..N \subseteq S
    <3> HIDE DEF S, N
    <3> QED
      BY <1>1, <1>3, <1>4, InductionUpTo
  <2>2. N \in S
    <3> HIDE DEF S
    <3> QED
      BY <1>1, <2>1
  <2> HIDE DEF Decided
  <2> QED
    BY <2>2
<1>6. Upto(N) = Matching(w, s)
  BY <1>1 DEF Matching
<1>7. Decided(N) <=> Wants(w, s)
  <2> HIDE DEF Upto
  <2> QED
    BY <1>6 DEF Wants
<1> QED
  BY <1>2, <1>5, <1>7

\* A peer wants an article if some group is wanted and none is poisoned.
LEMMA GroupsDecide ==
  ASSUME NEW e, NEW groups, IsWildmat(e), \A i \in DOMAIN groups : IsSeq(groups[i])
  PROVE  LET w == IF e = <<>> THEN Everything ELSE e
             poison(g) == \E i \in Matching(w, g) : w[i].mark = "@"
         IN  GroupsWanted(e, groups) <=> /\ \E i \in DOMAIN groups : Wants(w, groups[i])
                                         /\ ~\E i \in DOMAIN groups : poison(groups[i])
<1> DEFINE w == IF e = <<>> THEN Everything ELSE e
<1>1. IsWildmat(w)
  <2>1. \A x : IsSeq(<<x>>) /\ DOMAIN <<x>> = 1..1 /\ <<x>>[1] = x
    BY DEF IsSeq, Range
  <2>2. IsWildmat(Everything)
    <3> DEFINE any == [mark |-> "", glob |-> <<"*">>]
    <3>1. IsSeq(<<"*">>) /\ IsSeq(<<any>>) /\ DOMAIN <<any>> = 1..1 /\ <<any>>[1] = any
      BY <2>1
    <3>2. any.glob = <<"*">> /\ \A i \in 1..1 : i = 1
      OBVIOUS
    <3> HIDE DEF any
    <3>3. IsWildmat(<<any>>)
      BY <3>1, <3>2 DEF IsWildmat
    <3> QED
      BY <3>3 DEF Everything, any
  <2> QED
    BY <2>2
<1> HIDE DEF w
<1>2. \A i \in DOMAIN groups : Match(w, groups[i]) <=> Wants(w, groups[i])
  BY <1>1, MatchWants
<1>3. ASSUME NEW g, IsSeq(g)
      PROVE  Poisoned(w, g) <=> \E i \in Matching(w, g) : w[i].mark = "@"
  <2>1. \A i \in DOMAIN w : MatchGlob(w[i].glob, g) <=> Fits(w[i].glob, g)
    BY <1>1, <1>3, GlobFits DEF IsWildmat
  <2> QED
    BY <2>1 DEF Poisoned, Matching
<1>4. GroupsWanted(e, groups) <=> /\ \A i \in DOMAIN groups : ~Poisoned(w, groups[i])
                                  /\ \E i \in DOMAIN groups : Match(w, groups[i])
  BY DEF GroupsWanted, MatchAny, w
<1> QED
  BY <1>2, <1>3, <1>4 DEF w

-----------------------------------------------------------------------------
(* Distributions and the Path. *)

LEMMA DistributionsDecide ==
  ASSUME NEW e, NEW a, \A i \in DOMAIN e : e[i].neg \in BOOLEAN
  PROVE  LET in == Tokens(e, FALSE)
             ex == Tokens(e, TRUE)
         IN  DistributionWanted(e, a) <=>
               \/ e = <<>> \/ a = <<>>
               \/ \E d \in Range(a) \ ({""} \union ex) : d \in in \/ in = {}
<1> DEFINE in == Tokens(e, FALSE)
           ex == Tokens(e, TRUE)
<1>1. ASSUME NEW d
      PROVE  TokenAllows(e, d) <=> d \notin ex /\ (d \in in \/ in = {})
  <2>1. d \in ex <=> \E i \in DOMAIN e : e[i].dist = d /\ e[i].neg
    BY DEF Tokens
  <2>2. d \in in <=> \E i \in DOMAIN e : e[i].dist = d /\ ~e[i].neg
    BY DEF Tokens
  <2>3. in = {} <=> \A i \in DOMAIN e : e[i].neg
    BY DEF Tokens
  <2> HIDE DEF in, ex
  <2>4. CASE \E i \in DOMAIN e : e[i].dist = d
    <3>1. TokenAllows(e, d) <=> \A i \in DOMAIN e : e[i].dist = d => ~e[i].neg
      BY <2>4 DEF TokenAllows, Range
    <3> QED
      BY <2>1, <2>2, <2>4, <3>1
  <2>5. CASE ~\E i \in DOMAIN e : e[i].dist = d
    <3>1. TokenAllows(e, d) <=> \A i \in DOMAIN e : e[i].neg
      BY <2>5 DEF TokenAllows, Range
    <3> QED
      BY <2>1, <2>2, <2>3, <2>5, <3>1
  <2> QED
    BY <2>4, <2>5
<1> HIDE DEF in, ex
<1>2. ASSUME NEW i \in DOMAIN a, a[i] # "", TokenAllows(e, a[i])
      PROVE  \E d \in Range(a) \ ({""} \union ex) : d \in in \/ in = {}
  <2>1. a[i] \in Range(a) \ ({""} \union ex) /\ (a[i] \in in \/ in = {})
    BY <1>1, <1>2 DEF Range
  <2> QED
    BY <2>1
<1>3. ASSUME NEW d \in Range(a) \ ({""} \union ex), d \in in \/ in = {}
      PROVE  \E i \in DOMAIN a : a[i] # "" /\ TokenAllows(e, a[i])
  <2>1. PICK i \in DOMAIN a : d = a[i]
    BY DEF Range
  <2>2. a[i] # "" /\ TokenAllows(e, a[i])
    BY <1>1, <1>3, <2>1
  <2> QED
    BY <2>2
<1>4. DistributionWanted(e, a) <=>
        e = <<>> \/ a = <<>> \/ \E d \in Range(a) \ ({""} \union ex) : d \in in \/ in = {}
  BY <1>2, <1>3 DEF DistributionWanted
<1> QED
  BY <1>4 DEF in, ex

LEMMA PathDecides ==
  ASSUME NEW e, NEW a
  PROVE  SkipPeer(e, a) <=>
           \/ e.host \in OwnHosts \union {""}
           \/ a \intersect (IF e.tokens = {} THEN {e.host} ELSE e.tokens) # {}
           \/ ~e.pathOnly /\ a \intersect {e.host, e.name} # {}
<1> DEFINE tokens == IF e.tokens = {} THEN {e.host} ELSE e.tokens
<1>1. a \intersect tokens # {} <=> \E t \in tokens : t \in a
  OBVIOUS
<1>2. e.host \in a /\ {e.host} = tokens => \E t \in tokens : t \in a
  OBVIOUS
<1>3. a \intersect {e.host, e.name} # {} <=> e.host \in a \/ e.name \in a
  OBVIOUS
<1> HIDE DEF tokens
<1> QED
  BY <1>1, <1>2, <1>3 DEF SkipPeer, tokens

-----------------------------------------------------------------------------
(* Flags. *)

FlagSet == [limit : [LimitKeys -> Int], control : {"any", "exclude", "only"},
            distrib : BOOLEAN, exist : BOOLEAN, pathOnly : BOOLEAN, only : SUBSET {"m", "u"}]

IsFlags(parts) == IsSeq(parts) /\ \A i \in DOMAIN parts : IsPart(parts[i])

LEMMA ACheckType == ASSUME NEW f \in FlagSet, NEW letter PROVE ACheck(f, letter) \in FlagSet
BY DEF ACheck, FlagSet

\* What the flags are after each letter of an A part.
LEMMA LetterLoop ==
  ASSUME NEW f \in FlagSet, NEW letters, IsSeq(letters)
  PROVE  \E g \in [0..Len(letters) -> FlagSet] :
           /\ g[0] = f
           /\ \A i \in 1..Len(letters) : g[i] = ACheck(g[i - 1], letters[i])
           /\ AChecks(f, letters) = g[Len(letters)]
<1> DEFINE N == Len(letters)
           turn == [i \in 1..N |-> [x \in FlagSet |-> ACheck(x, letters[i])]]
           Body(g) == [i \in 0..N |-> IF i = 0 THEN f ELSE ACheck(g[i - 1], letters[i])]
           after == CHOOSE g : g = Body(g)
<1>1. N \in Nat
  BY DEF IsSeq
<1>2. turn \in [1..N -> [FlagSet -> FlagSet]]
  <2> HIDE DEF N
  <2> QED
    BY ACheckType
<1>3. PICK g \in [0..N -> FlagSet] : g[0] = f /\ \A i \in 1..N : g[i] = turn[i][g[i - 1]]
  <2>1. Runs(FlagSet, f, N, turn) # {}
    <3> HIDE DEF N, turn
    <3> QED
      BY <1>1, <1>2, LoopDefined
  <2> QED
    BY <2>1 DEF Runs
<1>4. g = Body(g)
  <2>1. \A i \in 1..N : g[i - 1] \in FlagSet
    BY <1>1, <1>3
  <2>2. \A i \in 1..N : g[i] = ACheck(g[i - 1], letters[i])
    BY <2>1, <1>3
  <2>3. \A i \in 0..N : i # 0 => i \in 1..N
    BY <1>1
  <2> QED
    BY <2>2, <2>3, <1>3
<1>5. after = Body(after)
  BY <1>4
<1>6. after[0] = f /\ \A i \in 1..N : after[i] = ACheck(after[i - 1], letters[i])
  <2>1. 0 \in 0..N /\ \A i \in 1..N : i \in 0..N /\ i # 0
    BY <1>1
  <2> HIDE DEF after
  <2> QED
    BY <1>5, <2>1
<1>7. after \in [0..N -> FlagSet]
  <2> DEFINE S == {i \in 0..N : after[i] \in FlagSet}
  <2> HIDE DEF after
  <2>1. 0 \in S
    BY <1>1, <1>6
  <2>2. ASSUME NEW i \in 1..N, i - 1 \in S
        PROVE  i \in S
    <3>1. after[i - 1] \in FlagSet /\ i \in 0..N
      BY <2>2
    <3> QED
      BY <1>6, <3>1, ACheckType
  <2>3. 0..N \subseteq S
    <3> HIDE DEF S, N
    <3> QED
      BY <1>1, <2>1, <2>2, InductionUpTo
  <2> QED
    BY <1>5, <2>3
<1>8. AChecks(f, letters) = after[N]
  BY DEF AChecks, Loop
<1> QED
  <2> HIDE DEF after
  <2> QED
    BY <1>6, <1>7, <1>8

LEMMA FlagPartType ==
  ASSUME NEW f \in FlagSet, NEW part, IsPart(part)
  PROVE  FlagPart(f, part) \in FlagSet
<1>1. CASE part.key = "A"
  <2>1. IsSeq(part.operand) /\ Len(part.operand) \in 0..Len(part.operand)
    BY <1>1 DEF IsPart, IsSeq
  <2>2. AChecks(f, part.operand) \in FlagSet
    BY <2>1, LetterLoop
  <2> QED
    BY <1>1, <2>2 DEF FlagPart, Sets, LimitKeys
<1>2. CASE part.key = "N"
  BY <1>2 DEF FlagPart, Sets, LimitKeys, FlagSet
<1>3. CASE part.key \notin {"A", "N"}
  <2>1. part.key \in LimitKeys /\ part.operand \in Int \union {NotANumber, Bare}
    BY <1>3 DEF IsPart, LimitKeys
  <2>2. [f EXCEPT !.limit[part.key] = 1] \in FlagSet
    BY DEF FlagSet
  <2>3. part.operand \in Int => [f EXCEPT !.limit[part.key] = part.operand] \in FlagSet
    BY DEF FlagSet
  <2> QED
    BY <1>3, <2>1, <2>2, <2>3 DEF FlagPart, Sets
<1> QED
  BY <1>1, <1>2, <1>3

\* What the flags are after each part of the field.
LEMMA PartLoop ==
  ASSUME NEW parts, IsFlags(parts)
  PROVE  \E g \in [0..Len(parts) -> FlagSet] :
           /\ g[0] = NoFlags
           /\ \A i \in 1..Len(parts) : g[i] = FlagPart(g[i - 1], parts[i])
           /\ ParseFlags(parts) = g[Len(parts)]
<1> DEFINE N == Len(parts)
           turn == [i \in 1..N |-> [x \in FlagSet |-> FlagPart(x, parts[i])]]
           Body(g) == [i \in 0..N |-> IF i = 0 THEN NoFlags ELSE FlagPart(g[i - 1], parts[i])]
           after == CHOOSE g : g = Body(g)
<1>1. N \in Nat /\ \A i \in 1..N : IsPart(parts[i])
  <2>1. N \in Nat /\ DOMAIN parts = 1..N
    BY DEF IsFlags, IsSeq
  <2> QED
    BY <2>1 DEF IsFlags
<1>2. NoFlags \in FlagSet
  BY DEF NoFlags, FlagSet
<1>3. turn \in [1..N -> [FlagSet -> FlagSet]]
  <2> HIDE DEF N
  <2> QED
    BY <1>1, FlagPartType
<1>4. PICK g \in [0..N -> FlagSet] : g[0] = NoFlags /\ \A i \in 1..N : g[i] = turn[i][g[i - 1]]
  <2>1. Runs(FlagSet, NoFlags, N, turn) # {}
    <3> HIDE DEF N, turn
    <3> QED
      BY <1>1, <1>2, <1>3, LoopDefined
  <2> QED
    BY <2>1 DEF Runs
<1>5. g = Body(g)
  <2>1. \A i \in 1..N : g[i - 1] \in FlagSet
    BY <1>1, <1>4
  <2>2. \A i \in 1..N : g[i] = FlagPart(g[i - 1], parts[i])
    BY <2>1, <1>4
  <2>3. \A i \in 0..N : i # 0 => i \in 1..N
    BY <1>1
  <2> QED
    BY <2>2, <2>3, <1>4
<1>6. after = Body(after)
  BY <1>5
<1>7. after[0] = NoFlags /\ \A i \in 1..N : after[i] = FlagPart(after[i - 1], parts[i])
  <2>1. 0 \in 0..N /\ \A i \in 1..N : i \in 0..N /\ i # 0
    BY <1>1
  <2> HIDE DEF after
  <2> QED
    BY <1>6, <2>1
<1>8. after \in [0..N -> FlagSet]
  <2> DEFINE S == {i \in 0..N : after[i] \in FlagSet}
  <2> HIDE DEF after
  <2>1. 0 \in S
    BY <1>1, <1>2, <1>7
  <2>2. ASSUME NEW i \in 1..N, i - 1 \in S
        PROVE  i \in S
    <3>1. after[i - 1] \in FlagSet /\ i \in 0..N
      BY <2>2
    <3> QED
      BY <1>1, <1>7, <3>1, FlagPartType
  <2>3. 0..N \subseteq S
    <3> HIDE DEF S, N
    <3> QED
      BY <1>1, <2>1, <2>2, InductionUpTo
  <2> QED
    BY <1>6, <2>3
<1>9. ParseFlags(parts) = after[N]
  BY DEF ParseFlags, Loop
<1> QED
  <2> HIDE DEF after
  <2> QED
    BY <1>7, <1>8, <1>9

-----------------------------------------------------------------------------
(* The letters of one A part. *)

\* Letter k is the last c or C of the first n letters.
LastC(letters, n, k) ==
  /\ k \in 1..n /\ letters[k] \in {"c", "C"}
  /\ \A j \in 1..n : letters[j] \in {"c", "C"} => j <= k

\* What the letters make of the flags f: flags h.
Lettered(f, letters, n, h) ==
  /\ h.limit = f.limit /\ h.only = f.only
  /\ h.distrib <=> f.distrib \/ \E k \in 1..n : letters[k] = "d"
  /\ h.exist <=> f.exist \/ \E k \in 1..n : letters[k] = "e"
  /\ \/ h.control = f.control /\ \A k \in 1..n : letters[k] \notin {"c", "C"}
     \/ \E k \in 1..n : /\ LastC(letters, n, k)
                        /\ h.control = IF letters[k] = "c" THEN "exclude" ELSE "only"

LEMMA OneLetter ==
  ASSUME NEW f \in FlagSet, NEW letters, NEW n \in Nat, n # 0, NEW h \in FlagSet,
         Lettered(f, letters, n - 1, h)
  PROVE  Lettered(f, letters, n, ACheck(h, letters[n]))
<1> DEFINE c == letters[n]
           x == ACheck(h, c)
<1>1. x.limit = h.limit /\ x.only = h.only
  BY DEF ACheck, FlagSet
<1>2. /\ x.distrib <=> h.distrib \/ c = "d"
      /\ x.exist <=> h.exist \/ c = "e"
  BY DEF ACheck, FlagSet
<1>3. x.control = IF c = "c" THEN "exclude" ELSE IF c = "C" THEN "only" ELSE h.control
  BY DEF ACheck, FlagSet
<1>4. \A k : k \in 1..n <=> k \in 1..n - 1 \/ k = n
  OBVIOUS
<1> HIDE DEF x
<1>5. (\E k \in 1..n : letters[k] = "d") <=> c = "d" \/ \E k \in 1..n - 1 : letters[k] = "d"
  BY <1>4
<1>6. (\E k \in 1..n : letters[k] = "e") <=> c = "e" \/ \E k \in 1..n - 1 : letters[k] = "e"
  BY <1>4
<1>7. \/ x.control = f.control /\ \A k \in 1..n : letters[k] \notin {"c", "C"}
      \/ \E k \in 1..n : /\ LastC(letters, n, k)
                         /\ x.control = IF letters[k] = "c" THEN "exclude" ELSE "only"
  <2>1. CASE c \in {"c", "C"}
    <3>1. LastC(letters, n, n)
      BY <2>1 DEF LastC
    <3>2. x.control = IF c = "c" THEN "exclude" ELSE "only"
      BY <1>3, <2>1
    <3> QED
      BY <1>4, <3>1, <3>2
  <2>2. CASE c \notin {"c", "C"}
    <3>1. x.control = h.control
      BY <1>3, <2>2
    <3>2. \A k : LastC(letters, n - 1, k) => LastC(letters, n, k)
      BY <1>4, <2>2 DEF LastC
    <3> QED
      BY <1>4, <2>2, <3>1, <3>2 DEF Lettered
  <2> QED
    BY <2>1, <2>2
<1>8. Lettered(f, letters, n, x)
  BY <1>1, <1>2, <1>5, <1>6, <1>7 DEF Lettered
<1> QED
  BY <1>8 DEF x

LEMMA LettersDecide ==
  ASSUME NEW f \in FlagSet, NEW letters, IsSeq(letters)
  PROVE  Lettered(f, letters, Len(letters), AChecks(f, letters))
<1> DEFINE N == Len(letters)
<1>1. N \in Nat
  BY DEF IsSeq
<1>2. PICK g \in [0..N -> FlagSet] :
        /\ g[0] = f
        /\ \A i \in 1..N : g[i] = ACheck(g[i - 1], letters[i])
        /\ AChecks(f, letters) = g[N]
  BY LetterLoop
<1> DEFINE S == {i \in 0..N : Lettered(f, letters, i, g[i])}
<1>3. 0 \in S
  <2>1. \A k \in 1..0 : FALSE
    OBVIOUS
  <2>2. Lettered(f, letters, 0, f)
    BY <2>1 DEF Lettered
  <2> QED
    BY <1>1, <1>2, <2>2
<1>4. ASSUME NEW i \in 1..N, i - 1 \in S
      PROVE  i \in S
  <2>1. i \in Nat /\ i # 0 /\ i \in 0..N /\ g[i - 1] \in FlagSet /\ g[i] = ACheck(g[i - 1], letters[i])
    BY <1>1, <1>2
  <2>2. Lettered(f, letters, i - 1, g[i - 1])
    BY <1>4
  <2>3. Lettered(f, letters, i, g[i])
    <3> HIDE DEF N
    <3> QED
      BY <2>1, <2>2, OneLetter
  <2> QED
    BY <2>1, <2>3
<1>5. 0..N \subseteq S
  <2> HIDE DEF S, N
  <2> QED
    BY <1>1, <1>3, <1>4, InductionUpTo
<1> QED
  BY <1>1, <1>2, <1>5

-----------------------------------------------------------------------------
(* The parts of a flags field. *)

AHas(part, which) == part.key = "A" /\ \E k \in DOMAIN part.operand : part.operand[k] \in which

\* Of the first n parts, part i is the last with a c or C, and letter k the last one of it.
CPlace(parts, n, i, k) ==
  /\ i \in 1..n /\ parts[i].key = "A" /\ LastC(parts[i].operand, Len(parts[i].operand), k)
  /\ \A j \in i + 1..n : ~AHas(parts[j], {"c", "C"})

\* A part that sets the limit of key.
SetsKey(part, key) == part.key = key /\ Sets(part)

\* The limit after the first n parts.
Limited(parts, n, key, limit) ==
  \/ limit = 0 /\ \A i \in 1..n : ~SetsKey(parts[i], key)
  \/ \E i \in 1..n : /\ SetsKey(parts[i], key) /\ \A j \in 1..n : SetsKey(parts[j], key) => j <= i
                     /\ limit = IF parts[i].operand = Bare THEN 1 ELSE parts[i].operand

Controlled(parts, n, control) ==
  \/ control = "any" /\ \A i \in 1..n : ~AHas(parts[i], {"c", "C"})
  \/ \E i \in 1..n : \E k \in 1..Len(parts[i].operand) :
       /\ CPlace(parts, n, i, k)
       /\ control = IF parts[i].operand[k] = "c" THEN "exclude" ELSE "only"

Requires(part, word) == part.key = "N" /\ part.operand = word

\* What the first n parts make of the flags.
Parsed(parts, n, h) ==
  /\ \A key \in LimitKeys : Limited(parts, n, key, h.limit[key])
  /\ \A word \in {"m", "u"} : word \in h.only <=> \E i \in 1..n : Requires(parts[i], word)
  /\ h.distrib <=> \E i \in 1..n : AHas(parts[i], {"d"})
  /\ h.exist <=> \E i \in 1..n : AHas(parts[i], {"e"})
  /\ Controlled(parts, n, h.control)

\* A part that does not set a limit leaves it.
LEMMA LimitKept ==
  ASSUME NEW parts, NEW n \in Nat, n # 0, NEW key, NEW limit,
         Limited(parts, n - 1, key, limit), ~SetsKey(parts[n], key)
  PROVE  Limited(parts, n, key, limit)
<1>1. \A k : k \in 1..n <=> k \in 1..n - 1 \/ k = n
  OBVIOUS
<1> QED
  BY <1>1 DEF Limited

LEMMA LimitSet ==
  ASSUME NEW parts, NEW n \in Nat, n # 0, NEW key, SetsKey(parts[n], key)
  PROVE  Limited(parts, n, key, IF parts[n].operand = Bare THEN 1 ELSE parts[n].operand)
<1>1. n \in 1..n /\ \A j \in 1..n : j <= n
  OBVIOUS
<1> QED
  BY <1>1 DEF Limited

LEMMA ControlKept ==
  ASSUME NEW parts, NEW n \in Nat, n # 0, NEW control,
         Controlled(parts, n - 1, control), ~AHas(parts[n], {"c", "C"})
  PROVE  Controlled(parts, n, control)
<1>1. \A k : k \in 1..n <=> k \in 1..n - 1 \/ k = n
  OBVIOUS
<1>2. \A i \in 1..n - 1 : \A j \in i + 1..n : j \in i + 1..n - 1 \/ j = n
  OBVIOUS
<1>3. ASSUME NEW i \in 1..n - 1, NEW k, CPlace(parts, n - 1, i, k)
      PROVE  i \in 1..n /\ CPlace(parts, n, i, k)
  BY <1>1, <1>2, <1>3 DEF CPlace
<1>4. CASE control = "any" /\ \A i \in 1..n - 1 : ~AHas(parts[i], {"c", "C"})
  BY <1>1, <1>4 DEF Controlled
<1>5. CASE \E i \in 1..n - 1 : \E k \in 1..Len(parts[i].operand) :
             /\ CPlace(parts, n - 1, i, k)
             /\ control = IF parts[i].operand[k] = "c" THEN "exclude" ELSE "only"
  BY <1>3, <1>5 DEF Controlled
<1> QED
  BY <1>4, <1>5 DEF Controlled

LEMMA OnePart ==
  ASSUME NEW parts, IsFlags(parts), NEW n \in 1..Len(parts), NEW h \in FlagSet,
         Parsed(parts, n - 1, h)
  PROVE  Parsed(parts, n, FlagPart(h, parts[n]))
<1> DEFINE part == parts[n]
           x == FlagPart(h, part)
<1>1. n \in Nat /\ n # 0 /\ IsPart(part)
  BY DEF IsFlags, IsSeq
<1>2. \A k : k \in 1..n <=> k \in 1..n - 1 \/ k = n
  BY <1>1
<1>3. \A P : (\E i \in 1..n : i \in P) <=> n \in P \/ \E i \in 1..n - 1 : i \in P
  BY <1>2
<1>4. \A key \in LimitKeys : Limited(parts, n - 1, key, h.limit[key])
  BY DEF Parsed
<1>5. Controlled(parts, n - 1, h.control)
  BY DEF Parsed
<1> SUFFICES Parsed(parts, n, x)
  OBVIOUS
<1> HIDE DEF x
\* Each of the three ways for a part to say nothing about something.
<1>6. ASSUME x.limit = h.limit, \A key \in LimitKeys : ~SetsKey(part, key)
      PROVE  \A key \in LimitKeys : Limited(parts, n, key, x.limit[key])
  BY <1>1, <1>4, <1>6, LimitKept
<1>7. ASSUME x.only = h.only, part.key # "N"
      PROVE  \A word \in {"m", "u"} : word \in x.only <=> \E i \in 1..n : Requires(parts[i], word)
  BY <1>2, <1>7 DEF Parsed, Requires
<1>8. ASSUME x.distrib = h.distrib, x.exist = h.exist, x.control = h.control, part.key # "A"
      PROVE  /\ x.distrib <=> \E i \in 1..n : AHas(parts[i], {"d"})
             /\ x.exist <=> \E i \in 1..n : AHas(parts[i], {"e"})
             /\ Controlled(parts, n, x.control)
  <2>1. \A which : ~AHas(part, which)
    BY <1>8 DEF AHas
  <2>2. Controlled(parts, n, x.control)
    BY <1>1, <1>5, <1>8, <2>1, ControlKept
  <2> QED
    BY <1>2, <1>8, <2>1, <2>2 DEF Parsed
<1>9. CASE part.key = "A"
  <2> DEFINE letters == part.operand
             N == Len(letters)
  <2>1. IsSeq(letters) /\ N \in Nat /\ DOMAIN letters = 1..N
    BY <1>1, <1>9 DEF IsPart, IsSeq
  <2>2. x = AChecks(h, letters)
    BY <1>9 DEF FlagPart, Sets, LimitKeys, x
  <2>3. Lettered(h, letters, N, x)
    BY <2>1, <2>2, LettersDecide
  <2>4. \A key \in LimitKeys : ~SetsKey(part, key)
    BY <1>9 DEF SetsKey, Sets, LimitKeys
  <2>5. \A which : AHas(part, which) <=> \E k \in 1..N : letters[k] \in which
    BY <1>9, <2>1 DEF AHas
  <2>6. /\ x.distrib <=> \E i \in 1..n : AHas(parts[i], {"d"})
        /\ x.exist <=> \E i \in 1..n : AHas(parts[i], {"e"})
    BY <1>2, <2>3, <2>5 DEF Parsed, Lettered
  <2>7. Controlled(parts, n, x.control)
    <3>1. CASE x.control = h.control /\ \A k \in 1..N : letters[k] \notin {"c", "C"}
      <4>1. ~AHas(part, {"c", "C"})
        BY <2>5, <3>1
      <4> QED
        BY <1>1, <1>5, <3>1, <4>1, ControlKept
    <3>2. ASSUME NEW k \in 1..N, LastC(letters, N, k),
                 x.control = IF letters[k] = "c" THEN "exclude" ELSE "only"
          PROVE  Controlled(parts, n, x.control)
      <4>1. n \in 1..n /\ \A j \in n + 1..n : FALSE
        BY <1>1
      <4>2. CPlace(parts, n, n, k)
        BY <1>9, <3>2, <4>1 DEF CPlace
      <4> QED
        BY <3>2, <4>1, <4>2 DEF Controlled
    <3> QED
      BY <2>3, <3>1, <3>2 DEF Lettered
  <2>8. x.limit = h.limit /\ x.only = h.only
    BY <2>3 DEF Lettered
  <2> QED
    BY <1>6, <1>7, <1>9, <2>4, <2>6, <2>7, <2>8 DEF Parsed
<1>10. CASE part.key = "N"
  <2>1. /\ x.limit = h.limit /\ x.distrib = h.distrib /\ x.exist = h.exist
        /\ x.control = h.control
        /\ x.only = h.only \union ({part.operand} \intersect {"m", "u"})
    BY <1>10 DEF FlagPart, Sets, LimitKeys, FlagSet, x
  <2>2. \A key \in LimitKeys : ~SetsKey(part, key)
    BY <1>10 DEF SetsKey, Sets, LimitKeys
  <2>3. \A word \in {"m", "u"} : word \in x.only <=> \E i \in 1..n : Requires(parts[i], word)
    BY <1>2, <1>10, <2>1 DEF Parsed, Requires
  <2> QED
    BY <1>6, <1>8, <1>10, <2>1, <2>2, <2>3 DEF Parsed
<1>11. CASE part.key \notin {"A", "N"}
  <2>1. part.key \in LimitKeys /\ part.operand \in Int \union {NotANumber, Bare}
    BY <1>1, <1>11 DEF IsPart, LimitKeys
  <2>2. x = IF ~Sets(part) THEN h
            ELSE [h EXCEPT !.limit[part.key] = IF part.operand = Bare THEN 1 ELSE part.operand]
    BY <1>11 DEF FlagPart, x
  <2>4. /\ x.only = h.only /\ x.distrib = h.distrib /\ x.exist = h.exist
        /\ x.control = h.control
    BY <2>2 DEF FlagSet
  <2>5. \A key \in LimitKeys : Limited(parts, n, key, x.limit[key])
    <3>1. ASSUME NEW key \in LimitKeys, ~SetsKey(part, key)
          PROVE  Limited(parts, n, key, x.limit[key])
      <4>1. x.limit[key] = h.limit[key]
        <5>1. Sets(part) => key # part.key
          BY <3>1 DEF SetsKey
        <5> QED
          BY <2>1, <2>2, <5>1 DEF FlagSet
      <4> QED
        BY <1>1, <1>4, <3>1, <4>1, LimitKept
    <3>2. ASSUME NEW key \in LimitKeys, SetsKey(part, key)
          PROVE  Limited(parts, n, key, x.limit[key])
      <4>1. key = part.key /\ Sets(part)
        BY <3>2 DEF SetsKey
      <4>2. x.limit[key] = IF part.operand = Bare THEN 1 ELSE part.operand
        BY <2>1, <2>2, <4>1 DEF FlagSet
      <4> QED
        BY <1>1, <3>2, <4>2, LimitSet
    <3> QED
      BY <3>1, <3>2
  <2> QED
    BY <1>7, <1>8, <1>11, <2>4, <2>5 DEF Parsed
<1> QED
  BY <1>9, <1>10, <1>11

\* What ParseFlags makes of a field.
LEMMA FlagsParsed ==
  ASSUME NEW parts, IsFlags(parts)
  PROVE  ParseFlags(parts) \in FlagSet /\ Parsed(parts, Len(parts), ParseFlags(parts))
<1> DEFINE N == Len(parts)
<1>1. N \in Nat
  BY DEF IsFlags, IsSeq
<1>2. PICK g \in [0..N -> FlagSet] :
        /\ g[0] = NoFlags
        /\ \A i \in 1..N : g[i] = FlagPart(g[i - 1], parts[i])
        /\ ParseFlags(parts) = g[N]
  BY PartLoop
<1> DEFINE S == {i \in 0..N : Parsed(parts, i, g[i])}
<1>3. 0 \in S
  <2>1. \A k \in 1..0 : FALSE
    OBVIOUS
  <2>2. Parsed(parts, 0, NoFlags)
    BY <2>1 DEF Parsed, NoFlags, Limited, Controlled
  <2> QED
    BY <1>1, <1>2, <2>2
<1>4. ASSUME NEW i \in 1..N, i - 1 \in S
      PROVE  i \in S
  <2>1. i \in 0..N /\ g[i - 1] \in FlagSet /\ g[i] = FlagPart(g[i - 1], parts[i])
    BY <1>1, <1>2
  <2>2. Parsed(parts, i - 1, g[i - 1])
    BY <1>4
  <2>3. Parsed(parts, i, g[i])
    BY <2>1, <2>2, OnePart
  <2> QED
    BY <2>1, <2>3
<1>5. 0..N \subseteq S
  <2> HIDE DEF S, N
  <2> QED
    BY <1>1, <1>3, <1>4, InductionUpTo
<1> QED
  BY <1>1, <1>2, <1>5

\* The limit is the last well-formed operand.
LEMMA LimitDecides ==
  ASSUME NEW parts, IsFlags(parts), NEW key \in LimitKeys, NEW limit,
         Limited(parts, Len(parts), key, limit)
  PROVE  limit = LastLimit(parts, key)
<1> DEFINE ok(n) == n # NotANumber /\ (key \in {"<", ">"} => n > 0)
           is == {i \in DOMAIN parts : parts[i].key = key /\ ok(parts[i].operand)}
           last == CHOOSE i \in is : \A j \in is : j <= i
<1>1. DOMAIN parts = 1..Len(parts) /\ Len(parts) \in Nat
  BY DEF IsFlags, IsSeq
<1>2. \A i \in 1..Len(parts) : SetsKey(parts[i], key) <=> i \in is
  BY <1>1 DEF SetsKey, Sets
<1>3. LastLimit(parts, key) =
        IF is = {} THEN 0 ELSE IF parts[last].operand = Bare THEN 1 ELSE parts[last].operand
  BY DEF LastLimit
<1>4. is \subseteq 1..Len(parts)
  BY <1>1
<1> HIDE DEF is
<1>5. CASE limit = 0 /\ \A i \in 1..Len(parts) : ~SetsKey(parts[i], key)
  BY <1>2, <1>3, <1>4, <1>5
<1>6. ASSUME NEW i \in 1..Len(parts), SetsKey(parts[i], key),
             \A j \in 1..Len(parts) : SetsKey(parts[j], key) => j <= i,
             limit = IF parts[i].operand = Bare THEN 1 ELSE parts[i].operand
      PROVE  limit = LastLimit(parts, key)
  <2>1. i \in is /\ \A j \in is : j <= i
    BY <1>2, <1>4, <1>6
  <2>2. last \in is /\ \A j \in is : j <= last
    BY <2>1
  <2>3. last = i
    <3> HIDE DEF last
    <3>1. last \in Int /\ i \in Int /\ last <= i /\ i <= last
      BY <1>1, <1>4, <2>1, <2>2
    <3> QED
      BY <3>1
  <2> QED
    BY <1>3, <1>6, <2>1, <2>3
<1> QED
  BY <1>5, <1>6 DEF Limited

\* A letter is somewhere if it is at a place.
LEMMA PlacesAre ==
  ASSUME NEW parts, NEW which
  PROVE  /\ \A p \in Places(parts, which) :
              /\ p[1] \in DOMAIN parts /\ parts[p[1]].key = "A"
              /\ p[2] \in DOMAIN parts[p[1]].operand
              /\ parts[p[1]].operand[p[2]] \in which
         /\ \A i \in DOMAIN parts : \A k \in DOMAIN parts[i].operand :
              parts[i].key = "A" /\ parts[i].operand[k] \in which
                => <<i, k>> \in Places(parts, which)
<1> DEFINE In(i) == {<<i, j>> : j \in {k \in DOMAIN parts[i].operand : parts[i].operand[k] \in which}}
           A == {k \in DOMAIN parts : parts[k].key = "A"}
<1>1. Places(parts, which) = UNION {In(i) : i \in A}
  BY DEF Places
<1>2. ASSUME NEW i, NEW p \in In(i)
      PROVE  /\ p[1] = i /\ p[2] \in DOMAIN parts[i].operand
             /\ parts[i].operand[p[2]] \in which
  OBVIOUS
<1>3. ASSUME NEW i, NEW k \in DOMAIN parts[i].operand, parts[i].operand[k] \in which
      PROVE  <<i, k>> \in In(i)
  BY <1>3
<1> HIDE DEF In
<1>4. \A p \in Places(parts, which) : \E i \in A : p \in In(i)
  BY <1>1
<1>5. \A i \in A : \A p \in In(i) : p \in Places(parts, which)
  BY <1>1
<1> QED
  BY <1>2, <1>3, <1>4, <1>5

LEMMA LettersSomewhere ==
  ASSUME NEW parts, IsFlags(parts), NEW which
  PROVE  (\E i \in 1..Len(parts) : AHas(parts[i], which)) <=> Places(parts, which) # {}
<1>1. DOMAIN parts = 1..Len(parts)
  BY DEF IsFlags, IsSeq
<1>2. ASSUME NEW i \in 1..Len(parts), AHas(parts[i], which)
      PROVE  Places(parts, which) # {}
  BY <1>1, <1>2, PlacesAre DEF AHas
<1>3. ASSUME NEW p \in Places(parts, which)
      PROVE  p[1] \in 1..Len(parts) /\ AHas(parts[p[1]], which)
  BY <1>1, PlacesAre DEF AHas
<1> QED
  BY <1>2, <1>3

\* The last of the letters c and C decides about control messages.
LEMMA ControlDecides ==
  ASSUME NEW parts, IsFlags(parts), NEW control, Controlled(parts, Len(parts), control)
  PROVE  /\ control = "exclude" <=> LastOfC(parts, "c")
         /\ control = "only" <=> LastOfC(parts, "C")
<1> DEFINE N == Len(parts)
           C == Places(parts, {"c", "C"})
<1>1. /\ DOMAIN parts = 1..N /\ N \in Nat
      /\ \A i \in 1..N : parts[i].key = "A" =>
           /\ Len(parts[i].operand) \in Nat
           /\ DOMAIN parts[i].operand = 1..Len(parts[i].operand)
  <2>1. DOMAIN parts = 1..N /\ N \in Nat
    BY DEF IsFlags, IsSeq
  <2>2. \A i \in 1..N : parts[i].key = "A" => IsSeq(parts[i].operand)
    BY <2>1 DEF IsFlags, IsPart
  <2> QED
    BY <2>1, <2>2 DEF IsSeq
<1>2. \A letter \in {"c", "C"} : Places(parts, {letter}) \subseteq C
  <2> SUFFICES ASSUME NEW letter \in {"c", "C"}, NEW p \in Places(parts, {letter})
               PROVE  p \in C
    OBVIOUS
  <2>1. PICK i \in DOMAIN parts :
          /\ parts[i].key = "A"
          /\ \E k \in DOMAIN parts[i].operand : p = <<i, k>> /\ parts[i].operand[k] = letter
    BY DEF Places
  <2>2. PICK k \in DOMAIN parts[i].operand : p = <<i, k>> /\ parts[i].operand[k] = letter
    BY <2>1
  <2> QED
    BY <2>1, <2>2, PlacesAre
<1>3. CASE control = "any" /\ \A i \in 1..N : ~AHas(parts[i], {"c", "C"})
  <2>1. C = {}
    BY <1>3, LettersSomewhere
  <2> QED
    BY <1>2, <1>3, <2>1 DEF LastOfC
<1>4. ASSUME NEW i \in 1..N, NEW k \in 1..Len(parts[i].operand), CPlace(parts, N, i, k),
             control = IF parts[i].operand[k] = "c" THEN "exclude" ELSE "only"
      PROVE  /\ control = "exclude" <=> LastOfC(parts, "c")
             /\ control = "only" <=> LastOfC(parts, "C")
  <2> DEFINE letter == parts[i].operand[k]
             p == <<i, k>>
  <2>1. parts[i].key = "A" /\ letter \in {"c", "C"} /\ k \in DOMAIN parts[i].operand
    BY <1>1, <1>4 DEF CPlace, LastC
  <2>2. p \in Places(parts, {letter}) /\ p[1] = i /\ p[2] = k
    BY <1>1, <2>1, PlacesAre
  <2>3. ASSUME NEW q \in C
        PROVE  NotAfter(q, p)
    <3>1. /\ q[1] \in 1..N /\ parts[q[1]].key = "A"
          /\ q[2] \in DOMAIN parts[q[1]].operand
          /\ parts[q[1]].operand[q[2]] \in {"c", "C"}
      BY <1>1, PlacesAre
    <3>2. AHas(parts[q[1]], {"c", "C"})
      BY <3>1 DEF AHas
    <3>3. q[1] \notin i + 1..N
      BY <1>4, <3>2 DEF CPlace
    <3>4. q[1] < i \/ q[1] = i
      BY <1>1, <3>1, <3>3
    <3>5. q[1] = i => q[2] <= k
      BY <1>1, <1>4, <3>1 DEF CPlace, LastC
    <3> HIDE DEF p
    <3> QED
      BY <2>2, <3>4, <3>5 DEF NotAfter
  <2>4. LastOfC(parts, letter)
    <3> HIDE DEF p
    <3> QED
      BY <2>2, <2>3 DEF LastOfC
  <2>5. ASSUME NEW other \in {"c", "C"}, LastOfC(parts, other)
        PROVE  other = letter
    <3>1. PICK q \in Places(parts, {other}) : \A r \in C : NotAfter(r, q)
      BY <2>5 DEF LastOfC
    <3>2. q \in C /\ p \in C
      BY <1>2, <2>1, <2>2
    <3>3. /\ q[1] \in 1..N /\ q[2] \in DOMAIN parts[q[1]].operand /\ parts[q[1]].key = "A"
          /\ parts[q[1]].operand[q[2]] = other
      BY <1>1, PlacesAre
    <3>4. NotAfter(q, p) /\ NotAfter(p, q)
      BY <2>3, <3>1, <3>2
    <3>5. q[1] \in Int /\ q[2] \in Int /\ i \in Int /\ k \in Int
      BY <1>1, <1>4, <3>3
    <3> HIDE DEF p
    <3>6. q[1] = i /\ q[2] = k
      BY <2>2, <3>4, <3>5 DEF NotAfter
    <3> QED
      BY <3>3, <3>6
  <2> QED
    BY <1>4, <2>1, <2>4, <2>5
<1> QED
  BY <1>3, <1>4 DEF Controlled

LEMMA NamedType == ASSUME NEW parts, IsSeq(parts) PROVE Named(parts) \in Nat
<1>1. Len(parts) \in Nat /\ DOMAIN parts = 1..Len(parts)
  BY DEF IsSeq
<1>2. IsFiniteSet(1..Len(parts))
  BY <1>1, FS_Interval
<1>3. IsFiniteSet({i \in DOMAIN parts : parts[i] # ""})
  BY <1>1, <1>2, FS_Subset
<1> QED
  BY <1>3, FS_CardinalityType DEF Named

\* The flags allow what the field admits.
LEMMA FlagsDecide ==
  ASSUME NEW parts, IsFlags(parts), NEW v,
         IsSeq(v.groups), IsSeq(v.followup), IsSeq(v.hops), v.bytes \in Nat
  PROVE  Allows(ParseFlags(parts), v) <=> Admits(parts, v)
<1> DEFINE f == ParseFlags(parts)
           N == Len(parts)
           follow == FollowupGroups(v)
           G == Len(v.groups)
<1>1. f \in FlagSet /\ Parsed(parts, N, f)
  BY FlagsParsed
<1> HIDE DEF f
<1>2. \A key \in LimitKeys : f.limit[key] = LastLimit(parts, key) /\ f.limit[key] \in Int
  <2>1. \A key \in LimitKeys : Limited(parts, N, key, f.limit[key])
    BY <1>1 DEF Parsed
  <2>2. \A key \in LimitKeys : f.limit[key] \in Int
    BY <1>1 DEF FlagSet
  <2> QED
    BY <2>1, <2>2, LimitDecides
<1>3. /\ f.control = "exclude" <=> LastOfC(parts, "c")
      /\ f.control = "only" <=> LastOfC(parts, "C")
  BY <1>1, ControlDecides DEF Parsed
<1>4. /\ f.distrib <=> Places(parts, {"d"}) # {}
      /\ f.exist <=> Places(parts, {"e"}) # {}
  BY <1>1, LettersSomewhere DEF Parsed
<1>5. /\ f.only \subseteq {"m", "u"}
      /\ \A word \in {"m", "u"} :
           word \in f.only <=> \E i \in DOMAIN parts : parts[i].key = "N" /\ parts[i].operand = word
  <2>1. DOMAIN parts = 1..N
    BY DEF IsFlags, IsSeq
  <2> QED
    BY <1>1, <2>1 DEF Parsed, Requires, FlagSet
<1>6. /\ G \in Nat /\ Named(v.hops) \in Nat /\ Named(v.followup) \in Nat
  BY NamedType DEF IsSeq
<1>7. follow = IF v.followup = <<"poster">> THEN 0
               ELSE IF v.followup = <<>> THEN Len(v.groups) ELSE Named(v.followup)
  BY DEF FollowupGroups
<1>8. follow \in Nat /\ G + follow * follow \in Nat
  <2>1. follow \in Nat
    BY <1>6, <1>7
  <2> HIDE DEF follow, G
  <2> QED
    BY <1>6, <2>1
<1> HIDE DEF follow
<1>9. /\ (f.limit["<"] > 0 => v.bytes < f.limit["<"]) <=> AtMost(parts, "<", v.bytes + 1)
      /\ (f.limit[">"] > 0 => v.bytes > f.limit[">"])
           <=> (LastLimit(parts, ">") > 0 => v.bytes > LastLimit(parts, ">"))
  BY <1>2 DEF AtMost, LimitKeys
<1>10. \A key \in LimitKeys, n \in Nat : ~Exceeds(f, key, n) <=> AtMost(parts, key, n)
  BY <1>2 DEF Exceeds, AtMost
<1>11. /\ ~Exceeds(f, "G", G) <=> AtMost(parts, "G", G)
       /\ ~Exceeds(f, "U", follow) <=> AtMost(parts, "U", follow)
       /\ ~Exceeds(f, "C", G + follow * follow) <=> AtMost(parts, "C", G + follow * follow)
       /\ ~Exceeds(f, "H", Named(v.hops)) <=> AtMost(parts, "H", Named(v.hops))
  <2> HIDE DEF G
  <2> QED
    BY <1>6, <1>8, <1>10 DEF LimitKeys
<1> DEFINE known == v.groups # <<>> /\ \A i \in DOMAIN v.groups : v.groups[i] \in DOMAIN v.status
           Word(which) == \E i \in DOMAIN parts : parts[i].key = "N" /\ parts[i].operand = which
           Standing(m, u, e) ==
             /\ e \/ m \/ u => known
             /\ m => \A i \in DOMAIN v.groups : v.status[v.groups[i]] = "m"
             /\ u => \A i \in DOMAIN v.groups : v.status[v.groups[i]] # "m"
<1>12. ("m" \in f.only <=> Word("m")) /\ ("u" \in f.only <=> Word("u"))
  BY <1>5
<1>13. f.only # {} <=> Word("m") \/ Word("u")
  BY <1>5
<1>14. Allows(f, v) <=>
         /\ f.limit["<"] > 0 => v.bytes < f.limit["<"]
         /\ f.limit[">"] > 0 => v.bytes > f.limit[">"]
         /\ f.control = "exclude" => ~v.control
         /\ f.control = "only" => v.control
         /\ f.distrib => v.distributed
         /\ ~Exceeds(f, "G", G) /\ ~Exceeds(f, "U", follow)
         /\ ~Exceeds(f, "C", G + follow * follow) /\ ~Exceeds(f, "H", Named(v.hops))
         /\ f.exist \/ f.only # {} => known
         /\ "m" \in f.only => \A i \in DOMAIN v.groups : v.status[v.groups[i]] = "m"
         /\ "u" \in f.only => \A i \in DOMAIN v.groups : v.status[v.groups[i]] # "m"
  BY DEF Allows, follow
<1> HIDE DEF Word
<1>15. Admits(parts, v) <=>
         /\ AtMost(parts, "<", v.bytes + 1)
         /\ LastLimit(parts, ">") > 0 => v.bytes > LastLimit(parts, ">")
         /\ LastOfC(parts, "c") => ~v.control
         /\ LastOfC(parts, "C") => v.control
         /\ Places(parts, {"d"}) # {} => v.distributed
         /\ AtMost(parts, "G", G) /\ AtMost(parts, "U", follow)
         /\ AtMost(parts, "C", G + follow * follow) /\ AtMost(parts, "H", Named(v.hops))
         /\ Standing(Word("m"), Word("u"), Places(parts, {"e"}) # {})
  <2>1. ASSUME NEW m, NEW u, NEW e
        PROVE  (e \/ m \/ u => /\ v.groups # <<>>
                               /\ \A i \in DOMAIN v.groups :
                                    /\ v.groups[i] \in DOMAIN v.status
                                    /\ m => v.status[v.groups[i]] = "m"
                                    /\ u => v.status[v.groups[i]] # "m")
                 <=> Standing(m, u, e)
    OBVIOUS
  <2> QED
    BY <1>7, <2>1 DEF Admits, Word
<1>16. Allows(f, v) <=> Admits(parts, v)
  <2> HIDE DEF G
  <2> QED
    BY <1>3, <1>4, <1>9, <1>11, <1>12, <1>13, <1>14, <1>15
<1> QED
  BY <1>16 DEF f

-----------------------------------------------------------------------------

\* Every question asked is one of the questions.
Asked ==
  \/ question.of = "nothing"
  \/ \E q \in GlobQuestions : question = [of |-> "glob", entry |-> q[1], article |-> q[2]]
  \/ \E q \in PatternQuestions : question = [of |-> "patterns", entry |-> q[1], article |-> q[2]]
  \/ \E q \in DistribQuestions :
       question = [of |-> "distributions", entry |-> q[1], article |-> q[2]]
  \/ \E q \in FlagQuestions : question = [of |-> "flags", entry |-> q[1], article |-> q[2]]
  \/ \E q \in PathQuestions : question = [of |-> "path", entry |-> q[1], article |-> q[2]]

\* Wildmats, distributions, flags and the Path of a newsfeeds entry decide what they say of
\* every article, whatever the entry and the article.
THEOREM FilterDecisions == FiltersSpec => []FiltersDecide
<1>1. FiltersInit => Asked
  BY DEF FiltersInit, Asked
<1>2. Asked /\ [FiltersNext]_question => Asked'
  BY DEF FiltersNext, Ask, Asked
<1>3. Asked => FiltersDecide
  <2>1. CASE question.of = "nothing"
    BY <2>1 DEF FiltersDecide
  <2>2. ASSUME NEW q \in GlobQuestions,
               question = [of |-> "glob", entry |-> q[1], article |-> q[2]]
        PROVE  FiltersDecide
    BY <2>2, FiltersAssumption, GlobFits DEF FiltersDecide
  <2>3. ASSUME NEW q \in PatternQuestions,
               question = [of |-> "patterns", entry |-> q[1], article |-> q[2]]
        PROVE  FiltersDecide
    <3>1. IsWildmat(q[1]) /\ \A i \in DOMAIN q[2] : IsSeq(q[2][i])
      BY FiltersAssumption DEF IsWildmat
    <3> QED
      BY <2>3, <3>1, GroupsDecide DEF FiltersDecide
  <2>4. ASSUME NEW q \in DistribQuestions,
               question = [of |-> "distributions", entry |-> q[1], article |-> q[2]]
        PROVE  FiltersDecide
    BY <2>4, FiltersAssumption, DistributionsDecide DEF FiltersDecide
  <2>5. ASSUME NEW q \in FlagQuestions,
               question = [of |-> "flags", entry |-> q[1], article |-> q[2]]
        PROVE  FiltersDecide
    <3>1. IsFlags(q[1])
      BY FiltersAssumption DEF IsFlags
    <3> QED
      BY <2>5, <3>1, FiltersAssumption, FlagsDecide DEF FiltersDecide
  <2>6. ASSUME NEW q \in PathQuestions,
               question = [of |-> "path", entry |-> q[1], article |-> q[2]]
        PROVE  FiltersDecide
    BY <2>6, PathDecides DEF FiltersDecide
  <2> QED
    BY <2>1, <2>2, <2>3, <2>4, <2>5, <2>6 DEF Asked
<1> QED
  BY <1>1, <1>2, <1>3, PTL DEF FiltersSpec
=============================================================================
