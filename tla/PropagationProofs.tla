------------------------- MODULE PropagationProofs -------------------------
(* Propagation for any number of senders, streaming or not. *)
EXTENDS Propagation, TLAPS

Replies == Receiver!Replies

Command == [step : Receiver!Steps, cmd : {"CHECK", "TAKETHIS", "IHAVE"}, art : {Carried},
            replies : {<<>>} \union {<<a>> : a \in Replies}, open : BOOLEAN, own : BOOLEAN]

\* An answer that ends a row has a reason; only CHECK asks for the article.
Justified(s, cmd, a, history, away) ==
  /\ a \in {"ok", "reject"} => Carried.id \in history \/ (cmd # "IHAVE" /\ s \in away)
  /\ a = "want" => cmd = "CHECK"

\* What is said of a command before it ends, so that its one answer is justified.
CommandInv(s) ==
  LET r == bSession[s]
  IN  r.step # "idle" =>
        /\ r \in Command
        /\ r.cmd # "IHAVE" => s \in Streaming
        /\ r.step = "ack" => Carried.id \in bHistory
        /\ r.step # "done" => r.replies = <<>>
        /\ r.step = "done" => \E a \in Replies : r.replies = <<a>> /\ Justified(s, r.cmd, a, bHistory, turnedAway)

PropagationInv ==
  /\ row \in [Links -> {"due", "gone"}]
  /\ awaits \in [Links -> {"nothing", "answer", "turn"}]
  /\ bSession \in [Links -> {Receiver!NoCommand} \union Command]
  /\ \A s \in Links : CommandInv(s)
  /\ \A s \in Links : awaits[s] = "turn" => s \in Streaming
  /\ \A s \in Links : row[s] = "gone" => awaits[s] = "nothing"
  /\ LostOnlyByStreaming

LEMMA InitPropagationInv == PropagationInit => PropagationInv
BY DEF PropagationInit, PropagationInv, CommandInv, LostOnlyByStreaming, Receiver!Init,
       Receiver!NoCommand

-----------------------------------------------------------------------------
(* Commands at the receiver. *)

\* One command moves to r; nothing is forgotten.
LEMMA CommandMoves ==
  ASSUME PropagationInv, NEW s \in Links, NEW r \in Command,
         bSession' = [bSession EXCEPT ![s] = r],
         bHistory \subseteq bHistory', turnedAway \subseteq turnedAway', UNCHANGED <<row, awaits>>,
         r.step # "idle",
         r.cmd = bSession[s].cmd, bSession[s].step # "idle",
         r.step = "ack" => Carried.id \in bHistory',
         r.step # "done" => r.replies = <<>>,
         r.step = "done" => \E a \in Replies : r.replies = <<a>> /\ Justified(s, r.cmd, a, bHistory', turnedAway')
  PROVE  PropagationInv'
<1>1. bSession' \in [Links -> {Receiver!NoCommand} \union Command]
  BY DEF PropagationInv
<1>2. CommandInv(s)'
  BY DEF PropagationInv, CommandInv
<1>3. ASSUME NEW t \in Links, t # s
      PROVE  CommandInv(t)'
  <2>1. bSession'[t] = bSession[t] /\ CommandInv(t)
    BY <1>3 DEF PropagationInv
  <2> QED
    BY <2>1 DEF CommandInv, Justified
<1>4. LostOnlyByStreaming'
  BY DEF PropagationInv, LostOnlyByStreaming
<1> QED
  BY <1>1, <1>2, <1>3, <1>4 DEF PropagationInv

LEMMA CommandGoesOn ==
  ASSUME PropagationInv, NEW s \in Links, bSession[s].step \notin {"idle", "done"},
         NEW step \in Receiver!Steps \ {"done", "ack"}, Receiver!GoOn(s, step, <<>>),
         bHistory \subseteq bHistory', UNCHANGED rowVars
  PROVE  PropagationInv'
<1> DEFINE r == [bSession[s] EXCEPT !.step = step]
<1>1. bSession[s] \in Command /\ bSession[s].replies = <<>>
  BY DEF PropagationInv, CommandInv
<1>2. r \in Command /\ r.step = step /\ r.replies = <<>> /\ r.cmd = bSession[s].cmd /\ r.step # "idle"
  BY <1>1 DEF Command, Receiver!Steps
<1>3. bSession' = [bSession EXCEPT ![s] = r]
  <2>1. <<>> \o <<>> = <<>>
    OBVIOUS
  <2>2. [bSession[s] EXCEPT !.step = step, !.replies = @ \o <<>>] = r
    BY <1>1, <2>1 DEF Command
  <2> QED
    BY <2>2 DEF Receiver!GoOn, PropagationInv
<1> QED
  BY <1>2, <1>3, CommandMoves DEF rowVars

LEMMA CommandEnds ==
  ASSUME PropagationInv, NEW s \in Links, bSession[s].step \notin {"idle", "done"},
         NEW a \in Replies, Receiver!Finish(s, a), Justified(s, bSession[s].cmd, a, bHistory', turnedAway'),
         bHistory \subseteq bHistory', turnedAway \subseteq turnedAway', UNCHANGED <<row, awaits>>
  PROVE  PropagationInv'
<1> DEFINE r == [bSession[s] EXCEPT !.step = "done", !.replies = <<a>>]
<1>1. bSession[s] \in Command /\ bSession[s].replies = <<>>
  BY DEF PropagationInv, CommandInv
<1>2. /\ r \in Command /\ r.step = "done" /\ r.replies = <<a>> /\ r.cmd = bSession[s].cmd
      /\ "done" \notin {"idle", "ack"}
  BY <1>1 DEF Command, Receiver!Steps
<1>3. bSession' = [bSession EXCEPT ![s] = r]
  <2>1. <<>> \o <<a>> = <<a>>
    OBVIOUS
  <2>2. [bSession[s] EXCEPT !.step = "done", !.replies = @ \o <<a>>] = r
    BY <1>1, <2>1 DEF Command
  <2> QED
    BY <2>2 DEF Receiver!Finish, Receiver!GoOn, PropagationInv
<1>4. Justified(s, r.cmd, a, bHistory', turnedAway')
  BY <1>2
<1> HIDE DEF r
<1> QED
  BY <1>2, <1>3, <1>4, CommandMoves

\* A session is idle again.
LEMMA CommandLeaves ==
  ASSUME PropagationInv, NEW s \in Links, bSession' = [bSession EXCEPT ![s] = Receiver!NoCommand],
         bHistory \subseteq bHistory', turnedAway \subseteq turnedAway',
         row' \in [Links -> {"due", "gone"}], awaits' \in [Links -> {"nothing", "answer", "turn"}],
         \A t \in Links : awaits'[t] = "turn" => t \in Streaming,
         \A t \in Links : row'[t] = "gone" => awaits'[t] = "nothing",
         LostOnlyByStreaming'
  PROVE  PropagationInv'
<1>1. bSession' \in [Links -> {Receiver!NoCommand} \union Command]
  BY DEF PropagationInv
<1>2. CommandInv(s)'
  BY DEF PropagationInv, CommandInv, Receiver!NoCommand
<1>3. ASSUME NEW t \in Links, t # s
      PROVE  CommandInv(t)'
  <2>1. bSession'[t] = bSession[t] /\ CommandInv(t)
    BY <1>3 DEF PropagationInv
  <2> QED
    BY <2>1 DEF CommandInv, Justified
<1> QED
  BY <1>1, <1>2, <1>3 DEF PropagationInv

-----------------------------------------------------------------------------
(* The actions. *)

LEMMA SendsKeeps ==
  ASSUME PropagationInv, NEW s \in Links, OffersArticle(s) \/ SendsArticle(s)
  PROVE  PropagationInv'
<1>1. PICK command \in {"CHECK", "TAKETHIS", "IHAVE"} :
        Sends(s, command) /\ (command # "IHAVE" => s \in Streaming)
  BY DEF OffersArticle, SendsArticle, PropagationInv
<1> DEFINE r == [step |-> IF command = "TAKETHIS" THEN "read" ELSE "gates", cmd |-> command,
                 art |-> Carried, replies |-> <<>>, open |-> TRUE, own |-> FALSE]
<1>2. r \in Command /\ bSession' = [bSession EXCEPT ![s] = r] /\ bHistory' = bHistory
  BY <1>1 DEF Sends, Receiver!Begin, Receiver!tables, Command, Receiver!Steps
<1>3. bSession' \in [Links -> {Receiver!NoCommand} \union Command]
  BY <1>2 DEF PropagationInv
<1>4. CommandInv(s)'
  BY <1>1, <1>2 DEF PropagationInv, CommandInv
<1>6. /\ awaits' = [awaits EXCEPT ![s] = "answer"] /\ UNCHANGED row
      /\ turnedAway' = turnedAway \ {s} /\ row[s] # "gone"
  BY <1>1 DEF Sends, OffersArticle, SendsArticle, PropagationInv
<1>5. ASSUME NEW t \in Links, t # s
      PROVE  CommandInv(t)'
  <2>1. /\ bSession'[t] = bSession[t] /\ CommandInv(t) /\ bHistory' = bHistory
        /\ t \in turnedAway <=> t \in turnedAway'
    BY <1>2, <1>5, <1>6 DEF PropagationInv
  <2> QED
    BY <2>1 DEF CommandInv, Justified
<1>7. LostOnlyByStreaming'
  BY <1>2, <1>6 DEF PropagationInv, LostOnlyByStreaming
<1> QED
  BY <1>3, <1>4, <1>5, <1>6, <1>7 DEF PropagationInv

LEMMA HearsKeeps ==
  ASSUME PropagationInv, NEW s \in Links, HearsAnswer(s)
  PROVE  PropagationInv'
<1>1. PICK a \in Replies : bSession[s].replies = <<a>> /\ Justified(s, bSession[s].cmd, a, bHistory, turnedAway)
  BY DEF HearsAnswer, Receiver!Done, Receiver!Ran, PropagationInv, CommandInv
<1>2. Last(bSession[s].replies) = a
  BY <1>1 DEF Last
<1>3. bSession[s].step = "done" /\ (bSession[s].cmd # "IHAVE" => s \in Streaming)
  BY DEF HearsAnswer, Receiver!Done, Receiver!Ran, PropagationInv, CommandInv
<1>4. /\ bSession' = [bSession EXCEPT ![s] = Receiver!NoCommand]
      /\ UNCHANGED <<bHistory, turnedAway>>
      /\ row' = [row EXCEPT ![s] = IF a \in {"ok", "reject"} THEN "gone" ELSE @]
      /\ awaits' = [awaits EXCEPT ![s] = IF a = "want" THEN "turn" ELSE "nothing"]
  BY <1>2 DEF HearsAnswer, Receiver!EndCommand, Receiver!tables, Concludes
<1>5. LostOnlyByStreaming'
  BY <1>1, <1>3, <1>4 DEF PropagationInv, LostOnlyByStreaming, Justified
<1>6. \A t \in Links : awaits'[t] = "turn" => t \in Streaming
  BY <1>1, <1>3, <1>4 DEF PropagationInv, Justified
<1>7. \A t \in Links : row'[t] = "gone" => awaits'[t] = "nothing"
  <2>1. row[s] # "gone"
    BY DEF HearsAnswer, PropagationInv
  <2> QED
    BY <1>4, <2>1 DEF PropagationInv
<1> QED
  BY <1>4, <1>5, <1>6, <1>7, CommandLeaves DEF PropagationInv

LEMMA TurnsAwayKeeps ==
  ASSUME PropagationInv, NEW s \in Links, TurnsAway(s)
  PROVE  PropagationInv'
<1>1. /\ turnedAway \subseteq turnedAway' /\ UNCHANGED <<row, awaits, bHistory>>
      /\ bSession[s].replies = <<>> /\ bSession[s] \in Command
      /\ bSession[s].step \notin {"idle", "done"}
      /\ Undecided(s) /\ bSession'[s].replies = <<"reject">> => s \in turnedAway'
  BY DEF TurnsAway, Receiver!Ran, Receiver!PeerGates, Receiver!Unavailable, Receiver!tables,
         PropagationInv, CommandInv
<1>2. CASE Receiver!PeerGates(s)
  <2>1. PICK answer \in IF Receiver!OpenToPeers THEN {"go on", "auth", Receiver!Forbid(s)}
                                               ELSE {Receiver!Defer(s)} :
          bSession' = [bSession EXCEPT
            ![s].step    = IF answer # "go on" THEN "done"
                           ELSE IF bSession[s].cmd = "TAKETHIS" THEN "screen" ELSE "known",
            ![s].replies = IF answer = "go on" THEN <<>> ELSE <<answer>>,
            ![s].open    = Receiver!AcceptArticles(bMode)]
    BY <1>2 DEF Receiver!PeerGates, Receiver!Cmd
  <2>2. CASE answer = "go on"
    <3> DEFINE r == [bSession[s] EXCEPT
                       !.step = IF bSession[s].cmd = "TAKETHIS" THEN "screen" ELSE "known",
                       !.replies = <<>>, !.open = Receiver!AcceptArticles(bMode)]
    <3>1. bSession' = [bSession EXCEPT ![s] = r]
      BY <1>1, <2>1, <2>2 DEF PropagationInv
    <3>2. r \in Command /\ r.step \notin {"idle", "ack", "done"} /\ r.replies = <<>> /\ r.cmd = bSession[s].cmd
      BY <1>1 DEF Command, Receiver!Steps, Receiver!AcceptArticles
    <3> HIDE DEF r
    <3> QED
      BY <1>1, <3>1, <3>2, CommandMoves
  <2>3. CASE answer # "go on"
    <3> DEFINE r == [bSession[s] EXCEPT !.step = "done", !.replies = <<answer>>,
                                        !.open = Receiver!AcceptArticles(bMode)]
    <3>1. bSession' = [bSession EXCEPT ![s] = r]
      BY <1>1, <2>1, <2>3 DEF PropagationInv
    <3>2. answer \in {"auth", "reject", "defer"} /\ answer \in Replies
      BY <2>1, <2>3 DEF Replies, Receiver!Replies, Receiver!Forbid, Receiver!Defer
    <3>3. r \in Command /\ r.step = "done" /\ r.replies = <<answer>> /\ r.cmd = bSession[s].cmd
      BY <1>1, <3>2 DEF Command, Receiver!Steps, Receiver!AcceptArticles
    <3>4. bSession'[s] = r
      BY <3>1 DEF PropagationInv
    <3>5. answer = "reject" => bSession[s].cmd # "IHAVE" /\ Undecided(s)
      <4>1. bSession[s].cmd \in {"CHECK", "TAKETHIS", "IHAVE"} /\ bSession[s].step = "gates"
        BY <1>1, <1>2 DEF Command, Receiver!PeerGates, Receiver!Ran
      <4>2. CASE Receiver!OpenToPeers
        BY <2>1, <2>3, <4>1, <4>2 DEF Receiver!Forbid, Receiver!Cmd, Undecided
      <4>3. CASE ~Receiver!OpenToPeers
        BY <2>1, <4>1, <4>3 DEF Receiver!Defer, Receiver!Cmd, Undecided
      <4> QED
        BY <4>2, <4>3
    <3>6. answer = "reject" => bSession'[s].replies = <<"reject">>
      BY <3>3, <3>4
    <3>7. Justified(s, r.cmd, answer, bHistory', turnedAway')
      BY <1>1, <3>2, <3>3, <3>5, <3>6 DEF Justified
    <3> HIDE DEF r
    <3> QED
      BY <1>1, <3>1, <3>2, <3>3, <3>7, CommandMoves
  <2> QED
    BY <2>2, <2>3
<1>3. CASE Receiver!Unavailable(s)
  <2>1. PICK a \in {"fail", "reject", "defer"} :
          Receiver!Finish(s, a) /\ (a = "reject" => bSession[s].cmd = "TAKETHIS")
    BY <1>1, <1>3 DEF Receiver!Unavailable, Receiver!Failure, Receiver!Defer, Receiver!IsPost,
                      Receiver!Cmd, Command
  <2>2. bSession'[s].replies = <<a>>
    <3>1. <<>> \o <<a>> = <<a>>
      OBVIOUS
    <3> QED
      BY <1>1, <2>1, <3>1 DEF Receiver!Finish, Receiver!GoOn, PropagationInv, Command
  <2>3. a \in Replies /\ Justified(s, bSession[s].cmd, a, bHistory', turnedAway')
    BY <1>1, <2>1, <2>2 DEF Replies, Receiver!Replies, Justified, Undecided
  <2> QED
    BY <1>1, <2>1, <2>3, CommandEnds
<1> QED
  BY <1>2, <1>3 DEF TurnsAway

\* A command of which the receiver says something now.
LEMMA Answers ==
  ASSUME PropagationInv, NEW s \in Links, bSession[s].step \notin {"idle", "done"},
         NEW a \in Replies, Receiver!Finish(s, a), bHistory \subseteq bHistory', UNCHANGED rowVars,
         a \in {"ok", "reject"} => Carried.id \in bHistory', a = "want" => bSession[s].cmd = "CHECK"
  PROVE  PropagationInv'
BY CommandEnds DEF Justified, rowVars

LEMMA HandlesKeeps ==
  ASSUME PropagationInv, NEW s \in Links, Handles(s)
  PROVE  PropagationInv'
<1> DEFINE step == bSession[s].step
<1>1. UNCHANGED rowVars
  BY DEF Handles
<1>2. step # "idle" => bSession[s] \in Command /\ Receiver!Art(s) = Carried /\ ~Receiver!IsPost(s)
  BY DEF PropagationInv, CommandInv, Command, Receiver!Art, Receiver!IsPost, Receiver!Cmd
<1> USE DEF Receiver!Ran, Receiver!tables, Receiver!gates
<1>5. CASE Receiver!Known(s)
  <2>1. step \notin {"idle", "done"} /\ bHistory' = bHistory
    BY <1>5 DEF Receiver!Known
  <2>2. CASE Carried.id \in bHistory /\ Receiver!Finish(s, "reject")
    BY <1>1, <2>1, <2>2, Answers DEF Replies, Receiver!Replies
  <2>3. CASE bSession[s].cmd = "CHECK" /\ Receiver!Finish(s, "want")
    BY <1>1, <2>1, <2>3, Answers DEF Replies, Receiver!Replies
  <2>4. CASE Receiver!GoOn(s, "read", <<>>)
    BY <1>1, <2>1, <2>4, CommandGoesOn DEF Receiver!Steps
  <2> QED
    BY <1>2, <1>5, <2>1, <2>2, <2>3, <2>4 DEF Receiver!Known, Receiver!Cmd
<1>6. CASE Receiver!Read(s) \/ Receiver!PeerScreen(s)
  <2>1. step \in {"read", "screen"} /\ Carried.flaw = "none" /\ Receiver!Art(s) = Carried
    BY <1>2, <1>6, CarriedAssumption DEF Receiver!Read, Receiver!PeerScreen
  <2>2. PICK next \in {"gates", "screen", "control"} : Receiver!GoOn(s, next, <<>>)
    BY <1>6, <2>1 DEF Receiver!Read, Receiver!PeerScreen
  <2>3. bHistory' = bHistory
    BY <1>6, <2>1 DEF Receiver!Read, Receiver!PeerScreen
  <2> QED
    BY <1>1, <2>1, <2>2, <2>3, CommandGoesOn DEF Receiver!Steps
<1>7. CASE Receiver!Control(s)
  <2>1. step = "control" /\ Receiver!GoOn(s, "dup", <<>>) /\ bHistory' = bHistory
    BY <1>2, <1>7, CarriedAssumption DEF Receiver!Control
  <2> QED
    BY <1>1, <2>1, CommandGoesOn DEF Receiver!Steps
<1>8. CASE Receiver!Dup(s) \/ Receiver!StoreDuplicate(s)
  <2>1. step \in {"dup", "store"} /\ bHistory' = bHistory
    BY <1>8 DEF Receiver!Dup, Receiver!StoreDuplicate
  <2>2. CASE Carried.id \in bHistory /\ Receiver!Finish(s, "reject")
    BY <1>1, <2>1, <2>2, Answers DEF Replies, Receiver!Replies
  <2>3. CASE Receiver!GoOn(s, "store", <<>>)
    BY <1>1, <2>1, <2>3, CommandGoesOn DEF Receiver!Steps
  <2> QED
    BY <1>2, <1>8, <2>1, <2>2, <2>3 DEF Receiver!Dup, Receiver!StoreDuplicate
<1>9. CASE Receiver!Store(s)
  <2> DEFINE r == [bSession[s] EXCEPT !.step = "ack", !.own = TRUE]
  <2>1. /\ step = "store" /\ bHistory' = bHistory \union {Carried.id}
        /\ bSession[s] \in Command /\ bSession[s].replies = <<>>
    BY <1>2, <1>9 DEF Receiver!Store, Receiver!Remember, PropagationInv, CommandInv
  <2>2. bSession' = [bSession EXCEPT ![s] = r]
    BY <1>9, <2>1 DEF Receiver!Store, PropagationInv
  <2>3. r \in Command /\ r.step = "ack" /\ r.replies = <<>> /\ r.cmd = bSession[s].cmd
    BY <2>1 DEF Command, Receiver!Steps
  <2> HIDE DEF r
  <2> QED
    BY <1>1, <2>1, <2>2, <2>3, CommandMoves DEF rowVars
<1>10. CASE Receiver!Acknowledge(s)
  <2>1. step = "ack" /\ Receiver!Finish(s, "ok") /\ bHistory' = bHistory /\ Carried.id \in bHistory
    BY <1>10 DEF Receiver!Acknowledge, PropagationInv, CommandInv
  <2> QED
    BY <1>1, <2>1, Answers DEF Replies, Receiver!Replies
<1>11. CASE Receiver!Disconnect(s) \/ Receiver!EndCommand(s)
  <2>1. bSession' = [bSession EXCEPT ![s] = Receiver!NoCommand] /\ bHistory' = bHistory
    BY <1>11 DEF Receiver!Disconnect, Receiver!EndCommand
  <2>2. LostOnlyByStreaming'
    BY <1>1, <2>1 DEF rowVars, PropagationInv, LostOnlyByStreaming
  <2> QED
    BY <1>1, <2>1, <2>2, CommandLeaves DEF rowVars, PropagationInv
<1> QED
  BY <1>5, <1>6, <1>7, <1>8, <1>9, <1>10, <1>11 DEF Handles

LEMMA OthersKeep ==
  ASSUME PropagationInv, GatesMove \/ (\E s \in Links : GivesUp(s)) \/ UNCHANGED propagationVars
  PROVE  PropagationInv'
<1>1. /\ UNCHANGED <<row, turnedAway, bHistory>>
      /\ awaits' \in [Links -> {"nothing", "answer", "turn"}]
      /\ \A t \in Links : awaits'[t] \in {awaits[t], "nothing"}
  BY DEF GatesMove, GivesUp, propagationVars, rowVars, receiverVars, Receiver!Order,
         Receiver!SetPeers, Receiver!Restart, Receiver!tables, PropagationInv
<1>2. bSession' = bSession \/ bSession' = [s \in Links |-> Receiver!NoCommand]
  BY DEF GatesMove, GivesUp, propagationVars, receiverVars, Receiver!Order, Receiver!SetPeers,
         Receiver!Restart
<1>3. \A s \in Links : CommandInv(s)'
  <2>1. CASE bSession' = bSession
    BY <1>1, <2>1 DEF PropagationInv, CommandInv
  <2>2. CASE bSession' = [s \in Links |-> Receiver!NoCommand]
    BY <2>2 DEF CommandInv, Receiver!NoCommand
  <2> QED
    BY <1>2, <2>1, <2>2
<1>4. LostOnlyByStreaming'
  BY <1>1 DEF PropagationInv, LostOnlyByStreaming
<1> QED
  BY <1>1, <1>2, <1>3, <1>4 DEF PropagationInv

-----------------------------------------------------------------------------

\* With any number of senders, an article that one of them no longer has to deliver is known
\* to the receiver, or its last CHECK or TAKETHIS was turned away with an answer that means
\* "never": as not permitted, or from a TAKETHIS that could not be decided (session.go:1030 and
\* 1063).  No pause, failure, broken connection or restart loses it otherwise.
THEOREM OnlyStreamingLoses == PropagationSpec => []LostOnlyByStreaming
<1>1. PropagationInit => PropagationInv
  BY InitPropagationInv
<1>2. PropagationInv /\ [PropagationNext]_propagationVars => PropagationInv'
  BY SendsKeeps, HearsKeeps, TurnsAwayKeeps, HandlesKeeps, OthersKeep DEF PropagationNext
<1>3. PropagationInv => LostOnlyByStreaming
  BY DEF PropagationInv
<1> QED
  BY <1>1, <1>2, <1>3, PTL DEF PropagationSpec
=============================================================================
