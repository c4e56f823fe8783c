------------------------------- MODULE Intake -------------------------------
(***************************************************************************)
(* How articles come in over NNTP: sessions that run POST, IHAVE, CHECK    *)
(* and TAKETHIS concurrently, each a chain of checks against the gates,    *)
(* the article, the Message-ID history and the store, while the            *)
(* administrator closes and opens the gates.  Each store call is one step; *)
(* between two of them everything else may happen.                         *)
(*                                                                         *)
(* A reply is named by what it tells the client: "ok" (240, 235, 239),     *)
(* "want" (238), "reject" (437, 438, 439, 441: do not try again), "defer"  *)
(* (431, 436), "auth" (480, 502), "fail" (403).  The invitation to send    *)
(* the article (335, 340) is not a final reply and is left out.            *)
(*                                                                         *)
(* What the checks of an article find is part of the article chosen.  Left *)
(* to other modules: numbers and overview rows (ArticleStore), the offer   *)
(* after the reply (FeedQueue), newgroup and its kin, the binary quota,    *)
(* the spool and statistics.                                               *)
(***************************************************************************)
EXTENDS Integers, Sequences, SequencesExt, FiniteSets, Gates

CONSTANTS
  Sessions,         \* client connections
  Ids,              \* Message-IDs
  Inputs,           \* articles clients send, records of Article
  Sends,            \* what each session may send: pairs of a command and an article
  UsersExist,       \* has the server any user?
  RememberRejects   \* limits.remember_rejects

Flaws == {"none", "malformed", "large", "filtered", "old", "unwanted", "banned", "nogroup"}
Article == [id : Ids, kind : {"plain", "cancel", "moderated"}, target : Ids, flaw : Flaws]

Commands == {"POST", "IHAVE", "CHECK", "TAKETHIS"}

ASSUME InputsAssumption   == Inputs \subseteq Article
ASSUME SendsAssumption    == Sends \in [Sessions -> SUBSET (Commands \X Inputs)]
ASSUME ConfigAssumption   == UsersExist \in BOOLEAN /\ RememberRejects \in BOOLEAN

VARIABLES
  mode, readersOn, peersOn,  \* the gates
  history, articles,         \* the store: ids remembered, articles stored
  mailed,                    \* ids mailed to a moderator
  session,                   \* per session: the command it runs
  accepted                   \* history variable: how often each id was stored
gates == <<mode, readersOn, peersOn>>
tables == <<history, articles, mailed, accepted>>
vars == <<gates, tables, session>>

NoCommand == [step |-> "idle"]
Ran(s, step) == session[s].step = step
Cmd(s) == session[s].cmd
Art(s) == session[s].art
IsPost(s) == Cmd(s) = "POST"

Init ==
  /\ mode = Running /\ readersOn = TRUE /\ peersOn = TRUE
  /\ history = {} /\ articles = {} /\ mailed = {}
  /\ session = [s \in Sessions |-> NoCommand]
  /\ accepted = [m \in Ids |-> 0]

-----------------------------------------------------------------------------
(* Replies. *)

\* The command goes on after writing rs (no reply when rs is empty).
GoOn(s, step, rs) ==
  session' = [session EXCEPT ![s].step = step, ![s].replies = @ \o rs]

\* Mutation of Finish: the session does not wait for the next command.
FinishIdle(s, r) == GoOn(s, "idle", <<r>>)

\* The command returns after writing r.
Finish(s, r) == GoOn(s, "done", <<r>>)

\* What each command answers when it cannot decide, when its peer may not transfer, and when
\* a store call fails: TAKETHIS has no code for "later", and only IHAVE has one for "not you".
Defer(s) == IF Cmd(s) = "TAKETHIS" THEN "reject" ELSE "defer"
Forbid(s) == IF Cmd(s) = "IHAVE" THEN "auth" ELSE "reject"
Failure(s) == IF IsPost(s) THEN "fail" ELSE Defer(s)

Remember(ids) == history' = history \cup ids

\* An error of this RememberMessageID is logged or dropped, and the command goes on.
TryRemember(m) == Remember({m}) \/ UNCHANGED history
RememberReject(s) == IF RememberRejects THEN TryRemember(Art(s).id) ELSE UNCHANGED history

-----------------------------------------------------------------------------
(* A command arrives. *)

Begin(s, cmd, art) ==
  /\ Ran(s, "idle")
  /\ session' = [session EXCEPT ![s] =
       [step |-> IF cmd = "TAKETHIS" THEN "read" ELSE "gates",
        cmd |-> cmd, art |-> art, replies |-> <<>>, open |-> TRUE, own |-> FALSE]]
  /\ UNCHANGED <<gates, tables>>

\* requirePostAuth and refuseAccept return what writing their refusal returned: nil.
\* Who is logged in is not modelled: where users exist, either may be the case.
PostGates(s) ==
  /\ Ran(s, "gates") /\ IsPost(s)
  /\ \E auth \in {<<>>, <<"auth">>} :
     LET paused == IF AcceptArticles(mode) THEN <<>> ELSE <<"reject">>
     IN  /\ auth # <<>> => UsersExist
         /\ session' = [session EXCEPT
           ![s].step    = IF AcceptReaders(readersOn) THEN "read" ELSE "done",
           ![s].replies = auth \o (IF AcceptReaders(readersOn) THEN paused ELSE <<"auth">>),
           ![s].open    = AcceptArticles(mode)]
  /\ UNCHANGED <<gates, tables>>

\* Mutation of OpenToPeers: refuseAccept is not called.
OpenUnlessThrottled == AcceptPeers(mode, peersOn)

OpenToPeers == AcceptPeers(mode, peersOn) /\ AcceptArticles(mode)

\* beginPeerTransfer: a peer is forbidden the transfer, also when ListPeers fails and its host
\* is not in the configuration, or it is not logged in.
PeerGates(s) ==
  /\ Ran(s, "gates") /\ ~IsPost(s)
  /\ \E answer \in IF OpenToPeers THEN {"go on", "auth", Forbid(s)} ELSE {Defer(s)} :
       session' = [session EXCEPT
         ![s].step    = IF answer # "go on" THEN "done"
                        ELSE IF Cmd(s) = "TAKETHIS" THEN "screen" ELSE "known",
         ![s].replies = IF answer = "go on" THEN <<>> ELSE <<answer>>,
         ![s].open    = AcceptArticles(mode)]
  /\ UNCHANGED <<gates, tables>>

\* Mutation of Known: the command goes on after refusing an article it has.
KnownFallsThrough(s) ==
  /\ Ran(s, "known")
  /\ GoOn(s, "read", IF Art(s).id \in history THEN <<"reject">> ELSE <<>>)
  /\ UNCHANGED <<gates, tables>>

\* HasMessageID before the article is sent.
Known(s) ==
  /\ Ran(s, "known")
  /\ \/ Art(s).id \in history /\ Finish(s, "reject")
     \/ Art(s).id \notin history /\ IF Cmd(s) = "CHECK" THEN Finish(s, "want")
                                                         ELSE GoOn(s, "read", <<>>)
  /\ UNCHANGED <<gates, tables>>

\* ReadArticle; IHAVE and TAKETHIS remember the id of an article that is too large.
Read(s) ==
  /\ Ran(s, "read")
  /\ IF Art(s).flaw = "large"
     THEN /\ Finish(s, "reject")
          /\ IF IsPost(s) THEN UNCHANGED history ELSE RememberReject(s)
     ELSE /\ GoOn(s, IF Cmd(s) = "TAKETHIS" THEN "gates" ELSE "screen", <<>>)
          /\ UNCHANGED history
  /\ UNCHANGED <<gates, articles, mailed, accepted>>

-----------------------------------------------------------------------------
(* The article. *)

\* filterArticle and checkCutoff reply, and POST goes on, perhaps to fail at the bans.
PostScreen(s) ==
  /\ Ran(s, "screen") /\ IsPost(s)
  /\ CASE Art(s).flaw = "malformed" -> Finish(s, "reject") /\ UNCHANGED history
       [] Art(s).flaw \in {"filtered", "old"} -> /\ RememberReject(s)
                                                 /\ \/ GoOn(s, "control", <<"reject">>)
                                                    \/ GoOn(s, "done", <<"reject", "fail">>)
       [] Art(s).flaw = "banned" -> Finish(s, "reject") /\ TryRemember(Art(s).id)
       [] OTHER -> GoOn(s, "control", <<>>) /\ UNCHANGED history
  /\ UNCHANGED <<gates, articles, mailed, accepted>>

PeerScreen(s) ==
  /\ Ran(s, "screen") /\ ~IsPost(s)
  /\ CASE Art(s).flaw \in {"malformed", "filtered", "old", "unwanted"} ->
            Finish(s, "reject") /\ RememberReject(s)
       [] Art(s).flaw = "banned" -> Finish(s, "reject") /\ TryRemember(Art(s).id)
       [] OTHER -> GoOn(s, "control", <<>>) /\ UNCHANGED history
  /\ UNCHANGED <<gates, articles, mailed, accepted>>

\* handleControl: the target of a cancel goes and is remembered.
Control(s) ==
  /\ Ran(s, "control")
  /\ IF Art(s).kind = "cancel"
     THEN /\ GoOn(s, "cancelled", <<>>)
          /\ Remember({Art(s).target})
          /\ articles' = articles \ {Art(s).target}
     ELSE /\ GoOn(s, IF IsPost(s) THEN "moderate" ELSE "dup", <<>>)
          /\ UNCHANGED <<history, articles>>
  /\ UNCHANGED <<gates, mailed, accepted>>

\* The cancel itself is remembered, and not stored.
RememberCancel(s) ==
  /\ Ran(s, "cancelled")
  /\ Finish(s, "ok")
  /\ TryRemember(Art(s).id)
  /\ UNCHANGED <<gates, articles, mailed, accepted>>

\* Mutation of Moderate: mailed, and stored as well.
MailAndStore(s) ==
  /\ Ran(s, "moderate")
  /\ mailed' = IF Art(s).kind = "moderated" THEN mailed \cup {Art(s).id} ELSE mailed
  /\ GoOn(s, "dup", <<>>)
  /\ UNCHANGED <<gates, history, articles, accepted>>

\* submitModerated.
Moderate(s) ==
  /\ Ran(s, "moderate")
  /\ IF Art(s).kind = "moderated"
     THEN \/ Art(s).id \notin history /\ mailed' = mailed \cup {Art(s).id} /\ Finish(s, "ok")
          \/ Finish(s, "reject") /\ UNCHANGED mailed
     ELSE GoOn(s, "dup", <<>>) /\ UNCHANGED mailed
  /\ UNCHANGED <<gates, history, articles, accepted>>

Dup(s) ==
  /\ Ran(s, "dup")
  /\ IF Art(s).id \in history THEN Finish(s, "reject") ELSE GoOn(s, "store", <<>>)
  /\ UNCHANGED <<gates, tables>>

-----------------------------------------------------------------------------
(* Store.Post and what its outcomes are answered with. *)

\* Mutation of StoreDuplicate: a duplicate is a success.
DuplicateIsFine(s) ==
  /\ Ran(s, "store")
  /\ Art(s).id \in history
  /\ Finish(s, "ok")
  /\ UNCHANGED <<gates, tables>>

StoreDuplicate(s) ==
  /\ Ran(s, "store")
  /\ Art(s).id \in history
  /\ Finish(s, "reject")
  /\ UNCHANGED <<gates, tables>>

StoreNoGroup(s) ==
  /\ Ran(s, "store")
  /\ Art(s).flaw = "nogroup" /\ Art(s).id \notin history
  /\ Finish(s, "reject")
  /\ IF IsPost(s) THEN UNCHANGED history ELSE RememberReject(s)
  /\ UNCHANGED <<gates, articles, mailed, accepted>>

\* Mutation of Store: the transaction relies on the check before it.
StoreUnchecked(s) ==
  /\ Ran(s, "store")
  /\ Art(s).flaw # "nogroup"
  /\ Remember({Art(s).id})
  /\ articles' = articles \cup {Art(s).id}
  /\ accepted' = [accepted EXCEPT ![Art(s).id] = @ + 1]
  /\ session' = [session EXCEPT ![s].step = "ack", ![s].own = TRUE]
  /\ UNCHANGED <<gates, mailed>>

Store(s) ==
  /\ Ran(s, "store")
  /\ Art(s).id \notin history
  /\ Art(s).flaw # "nogroup"
  /\ Remember({Art(s).id})
  /\ articles' = articles \cup {Art(s).id}
  /\ accepted' = [accepted EXCEPT ![Art(s).id] = @ + 1]
  /\ session' = [session EXCEPT ![s].step = "ack", ![s].own = TRUE]
  /\ UNCHANGED <<gates, mailed>>

Acknowledge(s) ==
  /\ Ran(s, "ack")
  /\ Finish(s, "ok")
  /\ UNCHANGED <<gates, tables>>

EndCommand(s) ==
  /\ Ran(s, "done")
  /\ session' = [session EXCEPT ![s] = NoCommand]
  /\ UNCHANGED <<gates, tables>>

\* A store call of the step fails: nothing is changed (a transaction is rolled back).
Unavailable(s) ==
  /\ session[s].step \in {"gates", "known", "screen", "control", "moderate", "dup", "store"}
  /\ Ran(s, "screen") => Art(s).flaw \in {"none", "banned", "nogroup"}
                                            \cup IF IsPost(s) THEN {"unwanted"} ELSE {}
  /\ IF Ran(s, "gates")
     THEN (IsPost(s) \/ OpenToPeers) /\ Finish(s, "fail")
     ELSE Finish(s, Failure(s))
  /\ UNCHANGED <<gates, tables>>

\* The client goes away while it sends an article or before its reply.
Disconnect(s) ==
  /\ session[s].step \in {"read", "ack"}
  /\ session' = [session EXCEPT ![s] = NoCommand]
  /\ UNCHANGED <<gates, tables>>

-----------------------------------------------------------------------------
(* The administrator, and a restart. *)

Order(m) == mode' = m /\ UNCHANGED <<readersOn, peersOn, tables, session>>
SetReaders(on) == readersOn' = on /\ UNCHANGED <<mode, peersOn, tables, session>>
SetPeers(on) == peersOn' = on /\ UNCHANGED <<mode, readersOn, tables, session>>

Restart ==
  /\ mode' = Running /\ readersOn' = TRUE /\ peersOn' = TRUE
  /\ session' = [s \in Sessions |-> NoCommand]
  /\ UNCHANGED tables

-----------------------------------------------------------------------------
SessionStep(s) ==
  \/ \E c \in Sends[s] : Begin(s, c[1], c[2])
  \/ PostGates(s) \/ PeerGates(s) \/ Known(s) \/ Read(s)
  \/ PostScreen(s) \/ PeerScreen(s) \/ Control(s) \/ RememberCancel(s) \/ Moderate(s) \/ Dup(s)
  \/ StoreDuplicate(s) \/ StoreNoGroup(s) \/ Store(s) \/ Unavailable(s)
  \/ Acknowledge(s) \/ EndCommand(s) \/ Disconnect(s)

Admin ==
  \/ \E m \in AcceptanceModes : Order(m)
  \/ \E on \in BOOLEAN : SetReaders(on) \/ SetPeers(on)

Next == (\E s \in Sessions : SessionStep(s)) \/ Admin \/ Restart

Spec == Init /\ [][Next]_vars

-----------------------------------------------------------------------------
(* Properties. *)

Replies == {"ok", "want", "reject", "defer", "auth", "fail"}

Steps == {"gates", "known", "read", "screen", "control", "cancelled", "moderate", "dup",
          "store", "ack", "done"}

InCommand == [step : Steps, cmd : Commands, art : Inputs, replies : Seq(Replies),
              open : BOOLEAN, own : BOOLEAN]

\* Types.
TypeOK ==
  /\ mode \in AcceptanceModes /\ readersOn \in BOOLEAN /\ peersOn \in BOOLEAN
  /\ history \subseteq Ids /\ articles \subseteq Ids /\ mailed \subseteq Ids
  /\ session \in [Sessions -> {NoCommand} \cup InCommand]
  /\ accepted \in [Ids -> Nat]

Done(s) == Ran(s, "done")
Active(s) == ~Ran(s, "idle")

\* session.go:1074: after a final status line "callers must stop the command; Serve must
\* not write a second response".  Of the commands peers use, and the sender's state machine
\* relies on it: one status per CHECK, TAKETHIS or IHAVE, and the command ends with it.
PeersOneFinalReply ==
  \A s \in Sessions : Active(s) /\ ~IsPost(s) =>
    (Done(s) <=> Len(session[s].replies) = 1) /\ Len(session[s].replies) <= 1

\* mode.go:99: Pause "refuses new article accepts while keeping connections up": a command
\* whose gate check met a pause or a throttle stores nothing.  (A command already past its
\* gate check when the pause begins may still store.)
PauseRefusesArticles ==
  \A s \in Sessions : Active(s) /\ ~session[s].open => ~session[s].own

\* The same of the commands peers use.
PauseRefusesTransfers ==
  \A s \in Sessions : Active(s) /\ ~IsPost(s) /\ ~session[s].open => ~session[s].own

\* However many peers and readers send an article at the same time, all of them having
\* been told that it is wanted, it is stored once, also after it was cancelled.
StoredOnce == \A m \in Ids : accepted[m] <= 1

\* "ok" is never said of an ordinary article that this command did not store: a client that
\* is told so may forget its copy.
AcknowledgedIsStored ==
  \A s \in Sessions : Done(s) /\ Art(s).kind = "plain" /\ "ok" \in ToSet(session[s].replies)
    => session[s].own

\* README.md:39 "Unapproved posts to moderated groups are mailed to the moderator and not
\* stored."
MailedIsNotStored ==
  \A s \in Sessions : Active(s) /\ IsPost(s) /\ Art(s).kind = "moderated" => ~session[s].own
=============================================================================
