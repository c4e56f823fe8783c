----------------------------- MODULE FeedQueue -----------------------------
(***************************************************************************)
(* The outbound feed: after an article is stored and its acceptance        *)
(* acknowledged, Offer puts one row per interested peer on the durable     *)
(* feed_queue; workers (the 5-second worker and one drain per Offer) claim *)
(* due rows under a 2-minute lease, deliver each over NNTP and complete it *)
(* or put it back for later.  The queue survives a crash; workers, offers  *)
(* in progress and acknowledgements do not.                                *)
(*                                                                         *)
(* Time is abstract: a row's next_attempt is either past (the row is in    *)
(* "due", and "before" orders those rows by it) or to come ("later") and   *)
(* arrives at any moment, so a lease can end under a slow worker: 32 rows  *)
(* at up to 15 seconds a network operation do not fit in 2 minutes.        *)
(* Attempt counts and last errors only shape the wait and are left out.    *)
(* An article is accepted once in a run and a deleted peer never returns   *)
(* under its id, so a row is identified by its peer and article.           *)
(***************************************************************************)
EXTENDS Integers, FiniteSets

CONSTANTS
  Ids,         \* articles
  Peers,       \* peer ids
  Workers,     \* concurrent calls of drainOnce
  Batch,       \* rows one claim takes (32)
  Enabled0,    \* peers enabled at first
  AdminPeers,  \* bound: peers the administrator changes
  MaxCrashes   \* bound: crashes of a run

ASSUME BatchAssumption   == Batch \in Nat \ {0}
ASSUME PeersAssumption   == Enabled0 \subseteq Peers /\ AdminPeers \subseteq Peers
ASSUME CrashesAssumption == MaxCrashes \in Nat

VARIABLES
  stored,    \* articles the store has
  offer,     \* per article: how far its Offer is
  peers,     \* peers rows
  enabled,   \* the enabled ones
  wanting,   \* peers whose patterns and flags take these articles
  due,       \* feed_queue rows <<peer, id>> whose next_attempt is past
  before,    \* pairs of due rows: the next_attempt of the first is the earlier one
  later,     \* feed_queue rows whose next_attempt is to come
  worker,    \* per worker: rows claimed, and the delivery in progress
  received,  \* <<peer, id>>: the peer stored the article
  excused,   \* history variable: rows the server need not deliver any more
  overrun,   \* history variable: <<worker, row>> whose lease ended while held
  crashes

adminVars == <<peers, enabled, wanting>>
queueVars == <<due, before, later>>
vars == <<stored, offer, adminVars, queueVars, worker, received, excused, overrun, crashes>>

Pairs == Peers \X Ids
None  == <<>>
Rows  == due \cup later
Resting == [batch |-> {}, row |-> None, step |-> "idle"]

\* r comes due, after all that are.
BecomesDue(r) ==
  /\ due' = due \cup {r}
  /\ before' = before \cup (due \X {r})

\* The rows S are no longer due.
NoLongerDue(S) ==
  /\ due' = due \ S
  /\ before' = {x \in before : x[1] \notin S /\ x[2] \notin S}

LeaveQueue(S) == NoLongerDue(S) /\ later' = later \ S

\* Reasons not to deliver that hold at the moment.
Excuse(r) == r[1] \notin enabled \cap wanting \/ r[2] \notin stored

NotOffered == [step |-> "none", left |-> {}]

Init ==
  /\ stored = {}
  /\ offer = [m \in Ids |-> NotOffered]
  /\ peers = Peers
  /\ enabled = Enabled0
  /\ wanting = Peers
  /\ due = {}
  /\ before = {}
  /\ later = {}
  /\ worker = [w \in Workers |-> Resting]
  /\ received = {}
  /\ excused = (Peers \ Enabled0) \X Ids
  /\ overrun = {}
  /\ crashes = 0

-----------------------------------------------------------------------------
(* A session stores an article, acknowledges it and offers it. *)

Accept(m) ==
  /\ offer[m].step = "none"
  /\ stored' = stored \cup {m}
  /\ offer' = [offer EXCEPT ![m].step = "stored"]
  /\ UNCHANGED <<adminVars, queueVars, worker, received, excused, overrun, crashes>>

\* Writing the reply fails, and the command returns before it offers the article; or
\* Offer cannot list the peers and gives up.
OfferLost(m) ==
  /\ offer[m].step = "stored"
  /\ offer' = [offer EXCEPT ![m].step = "lost"]
  /\ UNCHANGED <<stored, adminVars, queueVars, worker, received, excused, overrun, crashes>>

\* Listing the peers succeeds.
BeginOffer(m) ==
  /\ offer[m].step = "stored"
  /\ offer' = [offer EXCEPT ![m] = [step |-> "offering", left |-> enabled \cap wanting]]
  /\ UNCHANGED <<stored, adminVars, queueVars, worker, received, excused, overrun, crashes>>

\* One row, when the peer is still there; an error is logged and the peer passed over.
Enqueue(m, p) ==
  /\ p \in offer[m].left
  /\ offer' = [offer EXCEPT ![m].left = @ \ {p}]
  /\ \/ /\ p \in peers /\ <<p, m>> \notin Rows
        /\ BecomesDue(<<p, m>>)
        /\ excused' = IF Excuse(<<p, m>>) THEN excused \cup {<<p, m>>}
                                          ELSE excused \ {<<p, m>>}
     \/ UNCHANGED <<due, before, excused>>
  /\ UNCHANGED <<stored, adminVars, later, worker, received, overrun, crashes>>

EndOffer(m) ==
  /\ offer[m] = [step |-> "offering", left |-> {}]
  /\ offer' = [offer EXCEPT ![m].step = "offered"]
  /\ UNCHANGED <<stored, adminVars, queueVars, worker, received, excused, overrun, crashes>>

\* CancelMessageID and the purge delete the article and its rows in one transaction.
Withdraw(m) ==
  /\ m \in stored
  /\ stored' = stored \ {m}
  /\ LeaveQueue(Peers \X {m})
  /\ excused' = excused \cup (Peers \X {m})
  /\ UNCHANGED <<offer, adminVars, worker, received, overrun, crashes>>

\* Expiry deletes the article alone.
Expire(m) ==
  /\ m \in stored
  /\ stored' = stored \ {m}
  /\ excused' = excused \cup (Peers \X {m})
  /\ UNCHANGED <<offer, adminVars, queueVars, worker, received, overrun, crashes>>

-----------------------------------------------------------------------------
(* The workers. *)

\* The first Batch due rows.
FirstDue == {taken \in SUBSET due :
  /\ Cardinality(taken) = (IF Cardinality(due) < Batch THEN Cardinality(due) ELSE Batch)
  /\ \A r \in taken, q \in due \ taken : <<r, q>> \in before}

\* Mutation of Claim: no lease, the rows stay due.
ClaimWithoutLease(w) ==
  /\ worker[w] = Resting
  /\ due # {}
  /\ \E taken \in FirstDue : worker' = [worker EXCEPT ![w] = [Resting EXCEPT !.batch = taken]]
  /\ overrun' = {x \in overrun : x[1] # w}
  /\ UNCHANGED <<stored, offer, adminVars, queueVars, received, excused, crashes>>

\* The rows and their lease are taken in one statement.
Claim(w) ==
  /\ worker[w] = Resting
  /\ due # {}
  /\ \E taken \in FirstDue :
       /\ worker' = [worker EXCEPT ![w] = [Resting EXCEPT !.batch = taken]]
       /\ NoLongerDue(taken)
       /\ later' = later \cup taken
  /\ overrun' = {x \in overrun : x[1] # w}
  /\ UNCHANGED <<stored, offer, adminVars, received, excused, crashes>>

\* A row's next_attempt comes: a lease or a back-off is over.
ComesDue(r) ==
  /\ r \in later
  /\ later' = later \ {r}
  /\ BecomesDue(r)
  /\ overrun' = overrun \cup {<<w, r>> : w \in {v \in Workers : r \in worker[v].batch}}
  /\ UNCHANGED <<stored, offer, adminVars, worker, received, excused, crashes>>

Delivering(w, step) == worker[w].step = step
Proceed(w, step) == worker' = [worker EXCEPT ![w].step = step]

\* GetPeer, GetByMsgID and PeerWantsArticle.  (For a disabled peer deliver deletes the row
\* itself, and drainOnce does so again: one "complete" here.)
Look(w, r) ==
  /\ Delivering(w, "idle") /\ r \in worker[w].batch
  /\ \/ worker' = [worker EXCEPT ![w].row = r,
                                 ![w].step = IF Excuse(r) THEN "complete" ELSE "dial"]
     \/ worker' = [worker EXCEPT ![w].row = r, ![w].step = "fail"]
  /\ UNCHANGED <<stored, offer, adminVars, queueVars, received, excused, overrun, crashes>>

\* Mutation of TransferFails: an error counts as done.
TransferDropped(w) ==
  /\ Delivering(w, "dial")
  /\ Proceed(w, "complete")
  /\ UNCHANGED <<stored, offer, adminVars, queueVars, received, excused, overrun, crashes>>

\* No connection, no greeting, no authentication, a deferral, a broken transfer.
TransferFails(w) ==
  /\ Delivering(w, "dial")
  /\ Proceed(w, "fail")
  /\ UNCHANGED <<stored, offer, adminVars, queueVars, received, excused, overrun, crashes>>

\* The peer takes the article, but its answer is lost.
AnswerLost(w) ==
  /\ Delivering(w, "dial")
  /\ received' = received \cup {worker[w].row}
  /\ Proceed(w, "fail")
  /\ UNCHANGED <<stored, offer, adminVars, queueVars, excused, overrun, crashes>>

\* 235 or 239.
Transferred(w) ==
  /\ Delivering(w, "dial")
  /\ received' = received \cup {worker[w].row}
  /\ Proceed(w, "complete")
  /\ UNCHANGED <<stored, offer, adminVars, queueVars, excused, overrun, crashes>>

\* 435, 437, 438 or 439: the peer has the article or does not want it.
Refused(w) ==
  /\ Delivering(w, "dial")
  /\ excused' = IF worker[w].row \in received THEN excused ELSE excused \cup {worker[w].row}
  /\ Proceed(w, "complete")
  /\ UNCHANGED <<stored, offer, adminVars, queueVars, received, overrun, crashes>>

\* The row is dealt with; the worker goes on with the next one.
Next1(w) ==
  LET left == worker[w].batch \ {worker[w].row}
  IN  /\ worker' = [worker EXCEPT ![w] = [Resting EXCEPT !.batch = left]]
      /\ overrun' = overrun \ {<<w, worker[w].row>>}

\* Mutation of CompleteFeed: only a row under a lease is deleted.
CompleteLeased(w) ==
  /\ Delivering(w, "complete")
  /\ later' = later \ {worker[w].row}
  /\ Next1(w)
  /\ UNCHANGED <<stored, offer, adminVars, due, before, received, excused, crashes>>

CompleteFeed(w) ==
  /\ Delivering(w, "complete")
  /\ LeaveQueue({worker[w].row})
  /\ Next1(w)
  /\ UNCHANGED <<stored, offer, adminVars, received, excused, crashes>>

FailFeed(w) ==
  /\ Delivering(w, "fail")
  /\ NoLongerDue({worker[w].row})
  /\ later' = later \cup (Rows \cap {worker[w].row})
  /\ Next1(w)
  /\ UNCHANGED <<stored, offer, adminVars, received, excused, crashes>>

\* The database refuses either statement; the error is dropped, the row keeps its lease.
SettleFails(w) ==
  /\ worker[w].step \in {"complete", "fail"}
  /\ Next1(w)
  /\ UNCHANGED <<stored, offer, adminVars, queueVars, received, excused, crashes>>

-----------------------------------------------------------------------------
(* The administrator. *)

SetEnabled(p, on) ==
  /\ p \in peers
  /\ enabled' = IF on THEN enabled \cup {p} ELSE enabled \ {p}
  /\ excused' = IF on THEN excused ELSE excused \cup ({p} \X Ids)
  /\ UNCHANGED <<stored, offer, peers, wanting, queueVars, worker, received, overrun, crashes>>

SetWanting(p, on) ==
  /\ p \in peers
  /\ wanting' = IF on THEN wanting \cup {p} ELSE wanting \ {p}
  /\ excused' = IF on THEN excused ELSE excused \cup ({p} \X Ids)
  /\ UNCHANGED <<stored, offer, peers, enabled, queueVars, worker, received, overrun, crashes>>

\* The rows of the peer go with it.
DeletePeer(p) ==
  /\ p \in peers
  /\ peers' = peers \ {p}
  /\ enabled' = enabled \ {p}
  /\ LeaveQueue({p} \X Ids)
  /\ excused' = excused \cup ({p} \X Ids)
  /\ UNCHANGED <<stored, offer, wanting, worker, received, overrun, crashes>>

FlushFeedQueue(ps) ==
  /\ LeaveQueue(ps \X Ids)
  /\ excused' = excused \cup (Rows \cap (ps \X Ids))
  /\ UNCHANGED <<stored, offer, adminVars, worker, received, overrun, crashes>>

\* Workers and offers in progress are gone; tables are not.
Crash ==
  /\ crashes < MaxCrashes
  /\ crashes' = crashes + 1
  /\ worker' = [w \in Workers |-> Resting]
  /\ offer' = [m \in Ids |-> IF offer[m].step \in {"stored", "offering"}
                             THEN [step |-> "lost", left |-> {}] ELSE offer[m]]
  /\ overrun' = {}
  /\ UNCHANGED <<stored, adminVars, queueVars, received, excused>>

-----------------------------------------------------------------------------
OfferStep(m) ==
  \/ Accept(m) \/ OfferLost(m) \/ BeginOffer(m) \/ EndOffer(m)
  \/ \E p \in Peers : Enqueue(m, p)

Answered(w) == Transferred(w) \/ Refused(w)

WorkerStep(w) ==
  \/ Claim(w)
  \/ \E r \in worker[w].batch : Look(w, r)
  \/ TransferFails(w) \/ AnswerLost(w) \/ Answered(w)
  \/ CompleteFeed(w) \/ FailFeed(w) \/ SettleFails(w)

AdminStep(p) ==
  \/ \E on \in BOOLEAN : SetEnabled(p, on) \/ SetWanting(p, on)
  \/ DeletePeer(p)
  \/ FlushFeedQueue({p})

Next ==
  \/ \E m \in Ids : OfferStep(m) \/ Withdraw(m) \/ Expire(m)
  \/ \E w \in Workers : WorkerStep(w)
  \/ \E r \in Pairs : ComesDue(r)
  \/ \E p \in AdminPeers : AdminStep(p)
  \/ FlushFeedQueue(Peers)
  \/ Crash

Spec == Init /\ [][Next]_vars

\* The worker loop runs; time passes; a peer that is dialled again and again answers
\* now and then, and so does the database.
LookAndDial(w, r) == Look(w, r) /\ worker'[w].step # "fail"

Fairness ==
  /\ \A w \in Workers :
       /\ WF_vars(Claim(w))
       /\ WF_vars(WorkerStep(w) /\ ~Claim(w))
       /\ \A r \in Pairs : SF_vars(LookAndDial(w, r))
       /\ \A r \in Pairs : SF_vars(worker[w].row = r /\ Answered(w))
       /\ \A r \in Pairs : SF_vars(worker[w].row = r /\ CompleteFeed(w))
  /\ \A r \in Pairs : WF_vars(ComesDue(r))

\* A session that goes on acknowledges and offers.
OfferFairness == \A m \in Ids : WF_vars(OfferStep(m) /\ offer[m].step # "none")

FairSpec == Spec /\ Fairness /\ OfferFairness

-----------------------------------------------------------------------------
(* Properties. *)

WorkerStates ==
  [batch : SUBSET Pairs, row : Pairs \cup {None},
   step : {"idle", "dial", "complete", "fail"}]

\* Types, and a row is on the queue once.
TypeOK ==
  /\ stored \subseteq Ids
  /\ offer \in [Ids -> [step : {"none", "stored", "offering", "offered", "lost"},
                        left : SUBSET Peers]]
  /\ peers \subseteq Peers /\ enabled \subseteq peers /\ wanting \subseteq Peers
  /\ due \subseteq Pairs /\ before \subseteq due \X due
  /\ later \subseteq Pairs \ due
  /\ worker \in [Workers -> WorkerStates]
  /\ received \subseteq Pairs
  /\ excused \subseteq Pairs
  /\ overrun \subseteq Workers \X Pairs
  /\ crashes \in 0..MaxCrashes

\* Two workers deliver the same row at once only when the lease of one of them ran out:
\* the claim hides a row from every other worker for the time of the lease.
OneDeliveryPerLease ==
  \A v, w \in Workers : v # w =>
    \A r \in worker[v].batch \cap worker[w].batch : <<v, r>> \in overrun \/ <<w, r>> \in overrun

\* The feed keeps the promise of Delivery: no row leaves the queue, by whichever worker,
\* crash or late answer, before its peer has the article or something excused it.
Promise == INSTANCE Delivery WITH owed <- Rows, has <- received

KeepsPromise == Promise!Spec

\* Every row is dealt with, however many deliveries fail, leases end, answers get lost and
\* crashes happen, as long as the peer answers again and again.
QueueDrains == \A r \in Pairs : (r \in Rows) ~> (r \notin Rows)

\* feed.go:33 "Feeder offers newly accepted articles to configured peers via durable
\* queue": an accepted article is offered, unless it is gone before.
AcceptedIsOffered ==
  \A m \in Ids : (m \in stored) ~> (offer[m].step = "offered" \/ m \notin stored)
=============================================================================
