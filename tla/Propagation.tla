---------------------------- MODULE Propagation ----------------------------
(***************************************************************************)
(* One article on its way to one server: each of its senders has a row for *)
(* it on its own feed queue and delivers it over a connection of its own,  *)
(* with CHECK and TAKETHIS or with IHAVE; the server that receives it is   *)
(* the Intake module, which takes each command of a sender apart and may   *)
(* close its gates, fail or restart at any point.  What happens to a row   *)
(* of which the sender knows the outcome is FeedQueue's; here it is what   *)
(* the sender makes of the answers of the receiver.                        *)
(***************************************************************************)
EXTENDS Sequences, SequencesExt

CONSTANTS
  Links,      \* senders, each with a connection
  Streaming,  \* those that the receiver offers STREAMING (CAPABILITIES)
  Carried     \* the article, a record of Intake's Article

ASSUME LinksAssumption   == Streaming \subseteq Links
\* An ordinary article that the receiver has no reason to refuse.
ASSUME CarriedAssumption == Carried.kind = "plain" /\ Carried.flaw = "none"

VARIABLES
  row,         \* per sender: is its queue row there
  awaits,      \* per sender: what it waits for
  turnedAway,  \* history: senders whose last command was refused without a decision on the article
  bMode, bReadersOn, bPeersOn, bHistory, bArticles, bMailed, bSession, bAccepted  \* Intake's

rowVars == <<row, awaits, turnedAway>>
receiverVars == <<bMode, bReadersOn, bPeersOn, bHistory, bArticles, bMailed, bSession, bAccepted>>
propagationVars == <<rowVars, receiverVars>>

Receiver ==
  INSTANCE Intake WITH
    Sessions <- Links, Ids <- {Carried.id}, Inputs <- {Carried},
    Sends <- [s \in Links |-> {"CHECK", "TAKETHIS", "IHAVE"} \X {Carried}],
    UsersExist <- TRUE, RememberRejects <- TRUE,
    mode <- bMode, readersOn <- bReadersOn, peersOn <- bPeersOn,
    history <- bHistory, articles <- bArticles, mailed <- bMailed,
    session <- bSession, accepted <- bAccepted

PropagationInit ==
  /\ row = [s \in Links |-> "due"]
  /\ awaits = [s \in Links |-> "nothing"]
  /\ turnedAway = {}
  /\ Receiver!Init

-----------------------------------------------------------------------------
(* A sender. *)

Sends(s, command) ==
  /\ Receiver!Begin(s, command, Carried)
  /\ awaits' = [awaits EXCEPT ![s] = "answer"]
  /\ turnedAway' = turnedAway \ {s}
  /\ UNCHANGED row

\* streamingTransfer, or ihaveTransfer where the receiver does not offer streaming.
OffersArticle(s) ==
  /\ row[s] = "due" /\ awaits[s] = "nothing"
  /\ Sends(s, IF s \in Streaming THEN "CHECK" ELSE "IHAVE")

SendsArticle(s) == awaits[s] = "turn" /\ Sends(s, "TAKETHIS")

\* Mutation of Concludes: a deferred CHECK ends the row as a refused one does.
ConcludesAnyCheck(command, answer) ==
  answer \in {"ok", "reject"} \cup IF command = "CHECK" THEN {"defer"} ELSE {}

\* Does an answer end the row?
Concludes(command, answer) == answer \in {"ok", "reject"}

\* The answer to a command: go on, complete the row or put it back (FailFeed).
HearsAnswer(s) ==
  LET answer == Last(bSession[s].replies)
      done   == Concludes(bSession[s].cmd, answer)
  IN  /\ awaits[s] = "answer" /\ Receiver!Done(s)
      /\ row' = [row EXCEPT ![s] = IF done THEN "gone" ELSE @]
      /\ awaits' = [awaits EXCEPT ![s] = IF answer = "want" THEN "turn" ELSE "nothing"]
      /\ Receiver!EndCommand(s)
      /\ UNCHANGED turnedAway

\* No answer comes in time, or the connection breaks: the row is put back.
GivesUp(s) ==
  /\ awaits[s] # "nothing"
  /\ awaits' = [awaits EXCEPT ![s] = "nothing"]
  /\ UNCHANGED <<row, turnedAway, receiverVars>>

-----------------------------------------------------------------------------
(* The receiver. *)

\* TAKETHIS refuses where CHECK and IHAVE defer, and CHECK at open gates when the sender may
\* not transfer: neither says anything of the article.
Undecided(s) ==
  \/ bSession[s].cmd = "TAKETHIS"
  \/ bSession[s].cmd = "CHECK" /\ bSession[s].step = "gates" /\ Receiver!OpenToPeers

\* The gates answer, or a store call fails.
TurnsAway(s) ==
  /\ Receiver!PeerGates(s) \/ Receiver!Unavailable(s)
  /\ turnedAway' = IF Undecided(s) /\ bSession'[s].replies = <<"reject">>
                   THEN turnedAway \union {s} ELSE turnedAway
  /\ UNCHANGED <<row, awaits>>

Handles(s) ==
  /\ \/ Receiver!Known(s) \/ Receiver!Read(s) \/ Receiver!PeerScreen(s)
     \/ Receiver!Control(s) \/ Receiver!Dup(s)
     \/ Receiver!StoreDuplicate(s) \/ Receiver!Store(s) \/ Receiver!Acknowledge(s)
     \/ Receiver!Disconnect(s) /\ awaits[s] # "answer"
     \/ Receiver!EndCommand(s) /\ awaits[s] # "answer"
  /\ UNCHANGED rowVars

\* A restart of the receiver breaks the connections.
GatesMove ==
  \/ /\ \/ \E m \in Receiver!AcceptanceModes : Receiver!Order(m)
        \/ \E on \in BOOLEAN : Receiver!SetPeers(on)
     /\ UNCHANGED rowVars
  \/ /\ Receiver!Restart
     /\ awaits' = [s \in Links |-> "nothing"]
     /\ UNCHANGED <<row, turnedAway>>

PropagationNext ==
  \/ \E s \in Links :
       \/ OffersArticle(s) \/ SendsArticle(s) \/ HearsAnswer(s) \/ GivesUp(s)
       \/ TurnsAway(s) \/ Handles(s)
  \/ GatesMove

PropagationSpec == PropagationInit /\ [][PropagationNext]_propagationVars

-----------------------------------------------------------------------------

\* A sender keeps its row until the receiver knows the article, through pauses, failed
\* statements, lost answers and restarts on the way.  The exceptions are of senders that
\* stream, which take 438 and 439 for a refusal of the article: a TAKETHIS that could not be
\* decided is answered 439 where "try again later" is meant (session.go:1063 and 1169-1201),
\* and a CHECK or TAKETHIS of a peer that may not transfer, or whose ListPeers failed, 438 or
\* 439 (session.go:1030, 1063 and 1106).  A CHECK met by closed gates or by a failing store
\* loses nothing, and IHAVE never does.
LostOnlyByStreaming ==
  \A s \in Links :
    row[s] = "gone" => Carried.id \in bHistory \/ (s \in Streaming /\ s \in turnedAway)
=============================================================================
