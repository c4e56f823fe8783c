---------------------------- MODULE IntakeProofs ----------------------------
(***************************************************************************)
(* Proofs about Intake, for any sessions, articles and Message-IDs: how    *)
(* the commands change the tables and their own record, that an article is *)
(* stored once, and what a command's record says at every point of it.     *)
(***************************************************************************)
EXTENDS Intake, SequenceTheorems, TLAPS

-----------------------------------------------------------------------------
(* Replies. *)

LEMMA AppendedReplies ==
  ASSUME NEW q \in Seq(Replies), NEW rs \in Seq(Replies)
  PROVE  /\ q \o rs \in Seq(Replies)
         /\ Len(q \o rs) = Len(q) + Len(rs)
         /\ ToSet(q \o rs) = ToSet(q) \cup ToSet(rs)
<1>1. /\ q \o rs \in Seq(Replies)
      /\ Len(q \o rs) = Len(q) + Len(rs)
      /\ \A i \in 1..Len(q) + Len(rs) :
           (q \o rs)[i] = IF i <= Len(q) THEN q[i] ELSE rs[i - Len(q)]
  BY ConcatProperties
<1>2. /\ DOMAIN q = 1..Len(q) /\ DOMAIN rs = 1..Len(rs)
      /\ DOMAIN (q \o rs) = 1..Len(q) + Len(rs)
      /\ Len(q) \in Nat /\ Len(rs) \in Nat
  BY <1>1, LenProperties
<1>3. ToSet(q \o rs) \subseteq ToSet(q) \cup ToSet(rs)
  <2> SUFFICES ASSUME NEW i \in 1..Len(q) + Len(rs)
               PROVE  (q \o rs)[i] \in ToSet(q) \cup ToSet(rs)
    BY <1>2 DEF ToSet
  <2>1. CASE i <= Len(q)
    BY <1>1, <1>2, <2>1 DEF ToSet
  <2>2. CASE ~(i <= Len(q))
    <3>1. i - Len(q) \in 1..Len(rs) /\ (q \o rs)[i] = rs[i - Len(q)]
      BY <1>1, <1>2, <2>2
    <3> QED
      BY <1>2, <3>1 DEF ToSet
  <2> QED
    BY <2>1, <2>2
<1>4. ToSet(q) \subseteq ToSet(q \o rs)
  <2> SUFFICES ASSUME NEW i \in 1..Len(q)
               PROVE  q[i] \in ToSet(q \o rs)
    BY <1>2 DEF ToSet
  <2>1. i \in 1..Len(q) + Len(rs) /\ (q \o rs)[i] = q[i]
    BY <1>1, <1>2
  <2> QED
    BY <1>2, <2>1 DEF ToSet
<1>5. ToSet(rs) \subseteq ToSet(q \o rs)
  <2> SUFFICES ASSUME NEW i \in 1..Len(rs)
               PROVE  rs[i] \in ToSet(q \o rs)
    BY <1>2 DEF ToSet
  <2>1. Len(q) + i \in 1..Len(q) + Len(rs) /\ (q \o rs)[Len(q) + i] = rs[i]
    BY <1>1, <1>2
  <2> QED
    BY <1>2, <2>1 DEF ToSet
<1> QED
  BY <1>1, <1>3, <1>4, <1>5

LEMMA NoReply == <<>> \in Seq(Replies) /\ Len(<<>>) = 0 /\ ToSet(<<>>) = {}
BY DEF ToSet

LEMMA OneReply ==
  ASSUME NEW r \in Replies
  PROVE  <<r>> \in Seq(Replies) /\ Len(<<r>>) = 1 /\ ToSet(<<r>>) = {r}
<1>1. <<r>> \in Seq(Replies) /\ Len(<<r>>) = 1 /\ DOMAIN <<r>> = 1..1 /\ <<r>>[1] = r
  OBVIOUS
<1> QED
  BY <1>1 DEF ToSet

LEMMA RepliesNamed ==
  ASSUME NEW s \in Sessions
  PROVE  /\ Defer(s) \in Replies \ {"ok"} /\ Failure(s) \in Replies \ {"ok"}
         /\ Forbid(s) \in Replies \ {"ok"}
         /\ {"auth", "reject", "fail"} \subseteq Replies \ {"ok"}
         /\ "go on" \notin {Defer(s), Forbid(s)}
BY DEF Defer, Failure, Forbid, Replies

LEMMA TwoReplies ==
  ASSUME NEW a \in Replies, NEW b \in Replies
  PROVE  <<a, b>> \in Seq(Replies) /\ ToSet(<<a, b>>) = {a, b}
<1>1. <<a, b>> \in Seq(Replies) /\ DOMAIN <<a, b>> = 1..2 /\ <<a, b>>[1] = a /\ <<a, b>>[2] = b
  OBVIOUS
<1> QED
  BY <1>1 DEF ToSet

-----------------------------------------------------------------------------
(* What a command's record says at every point of the command.  The properties of a *)
(* finished command rest on what holds before it finishes: "ok" comes last, and only  *)
(* a command that is about to say it owns a stored article.                           *)

Sound(r) ==
  r.step # "idle" =>
    /\ r.own => r.step \in {"ack", "done"}
    /\ r.step = "ack" => r.own
    /\ r.step = "cancelled" => r.art.kind = "cancel"
    /\ "ok" \in ToSet(r.replies) => r.step = "done" /\ (r.own \/ r.art.kind # "plain")
    /\ r.cmd # "POST" =>
         IF r.step = "done" THEN Len(r.replies) = 1 ELSE r.replies = <<>> /\ r.open
    /\ r.cmd # "POST" /\ ~r.open => ~r.own
    /\ r.cmd = "POST" /\ r.art.kind = "moderated" =>
         r.step \notin {"dup", "store", "ack"} /\ ~r.own

IntakeInv == TypeOK /\ \A s \in Sessions : Sound(session[s])

\* One command moves, and its record stays sound.
Advance(s) ==
  /\ session' \in [Sessions -> {NoCommand} \cup InCommand]
  /\ \A t \in Sessions \ {s} : session'[t] = session[t]
  /\ Sound(session'[s])

LEMMA IdleHasNoCommand ==
  ASSUME TypeOK, NEW s \in Sessions, ~Ran(s, "idle")
  PROVE  session[s] \in InCommand
BY DEF TypeOK, Ran, NoCommand

LEMMA SetRecord ==
  ASSUME TypeOK, NEW s \in Sessions, NEW r \in {NoCommand} \cup InCommand, Sound(r),
         session' = [session EXCEPT ![s] = r]
  PROVE  Advance(s)
BY DEF TypeOK, Advance

LEMMA Stops ==
  ASSUME TypeOK, NEW s \in Sessions, session' = [session EXCEPT ![s] = NoCommand]
  PROVE  Advance(s)
BY SetRecord DEF Sound, NoCommand

LEMMA GoOnRecord ==
  ASSUME TypeOK, NEW s \in Sessions, session[s] \in InCommand,
         NEW step \in Steps, NEW rs \in Seq(Replies), GoOn(s, step, rs)
  PROVE  \E r \in InCommand :
           /\ session' = [session EXCEPT ![s] = r]
           /\ r.step = step /\ r.replies = session[s].replies \o rs
           /\ r.cmd = Cmd(s) /\ r.art = Art(s)
           /\ r.open = session[s].open /\ r.own = session[s].own
<1> DEFINE r == [session[s] EXCEPT !.step = step, !.replies = @ \o rs]
<1>1. session[s].replies \o rs \in Seq(Replies)
  BY AppendedReplies DEF InCommand
<1>2. r \in InCommand
  BY <1>1 DEF InCommand
<1>3. session' = [session EXCEPT ![s] = r]
  BY DEF GoOn, TypeOK
<1>4. /\ r.step = step /\ r.replies = session[s].replies \o rs
      /\ r.cmd = Cmd(s) /\ r.art = Art(s)
      /\ r.open = session[s].open /\ r.own = session[s].own
  BY DEF InCommand, Cmd, Art
<1> QED
  BY <1>2, <1>3, <1>4

\* A command goes on without "ok", and without any reply to a peer.
LEMMA GoesOn ==
  ASSUME IntakeInv, NEW s \in Sessions, session[s].step \notin {"idle", "ack", "done"},
         NEW step \in Steps \ {"ack"}, NEW rs \in Seq(Replies), GoOn(s, step, rs),
         "ok" \notin ToSet(rs),
         ~IsPost(s) => rs = <<>> /\ step # "done",
         step = "cancelled" => Art(s).kind = "cancel",
         step \in {"dup", "store"} => ~(IsPost(s) /\ Art(s).kind = "moderated")
  PROVE  Advance(s)
<1>1. session[s] \in InCommand /\ Sound(session[s]) /\ TypeOK
  BY IdleHasNoCommand DEF IntakeInv, Ran
<1>2. PICK r \in InCommand :
        /\ session' = [session EXCEPT ![s] = r]
        /\ r.step = step /\ r.replies = session[s].replies \o rs
        /\ r.cmd = Cmd(s) /\ r.art = Art(s)
        /\ r.open = session[s].open /\ r.own = session[s].own
  BY <1>1, GoOnRecord
<1>3. ToSet(r.replies) = ToSet(session[s].replies) \cup ToSet(rs)
  BY <1>1, <1>2, AppendedReplies DEF InCommand
<1>4. "ok" \notin ToSet(session[s].replies) /\ ~session[s].own
  BY <1>1 DEF Sound
<1>5. r.cmd # "POST" => r.replies = <<>> /\ r.open
  <2> SUFFICES ASSUME r.cmd # "POST"
               PROVE  r.replies = <<>> /\ r.open
    OBVIOUS
  <2>1. session[s].replies = <<>> /\ session[s].open /\ rs = <<>>
    BY <1>1, <1>2 DEF Sound, Cmd, IsPost
  <2>2. <<>> \o <<>> = <<>>
    OBVIOUS
  <2> QED
    BY <1>2, <2>1, <2>2
<1>6. Sound(r)
  BY <1>2, <1>3, <1>4, <1>5 DEF Sound, IsPost
<1> QED
  BY <1>1, <1>2, <1>6, SetRecord

\* A command returns after its reply; "ok" only of its own article or of no ordinary one.
LEMMA Finishes ==
  ASSUME IntakeInv, NEW s \in Sessions, session[s].step \notin {"idle", "done"},
         NEW reply \in Replies, Finish(s, reply),
         reply = "ok" => session[s].own \/ Art(s).kind # "plain"
  PROVE  Advance(s)
<1>1. session[s] \in InCommand /\ Sound(session[s]) /\ TypeOK
  BY IdleHasNoCommand DEF IntakeInv, Ran
<1>2. <<reply>> \in Seq(Replies) /\ Len(<<reply>>) = 1 /\ ToSet(<<reply>>) = {reply}
  BY OneReply
<1>3. PICK r \in InCommand :
        /\ session' = [session EXCEPT ![s] = r]
        /\ r.step = "done" /\ r.replies = session[s].replies \o <<reply>>
        /\ r.cmd = Cmd(s) /\ r.art = Art(s)
        /\ r.open = session[s].open /\ r.own = session[s].own
  <2> DEFINE rs == <<reply>>
  <2>1. GoOn(s, "done", rs) /\ "done" \in Steps /\ rs \in Seq(Replies)
    BY <1>2 DEF Finish, Steps
  <2> HIDE DEF rs
  <2>2. \E r \in InCommand :
          /\ session' = [session EXCEPT ![s] = r]
          /\ r.step = "done" /\ r.replies = session[s].replies \o rs
          /\ r.cmd = Cmd(s) /\ r.art = Art(s)
          /\ r.open = session[s].open /\ r.own = session[s].own
    BY <1>1, <2>1, GoOnRecord
  <2> QED
    BY <2>2 DEF rs
<1>4. /\ ToSet(r.replies) = ToSet(session[s].replies) \cup {reply}
      /\ Len(r.replies) = Len(session[s].replies) + 1
  BY <1>1, <1>2, <1>3, AppendedReplies DEF InCommand
<1>5. "ok" \notin ToSet(session[s].replies)
  BY <1>1 DEF Sound
<1>6. r.cmd # "POST" => Len(r.replies) = 1 /\ r.open
  BY <1>1, <1>3, <1>4, NoReply DEF Sound, Cmd
<1>7. r.cmd = "POST" /\ r.art.kind = "moderated" => ~r.own
  BY <1>1, <1>3 DEF Sound, Cmd, Art
<1>8. Sound(r)
  BY <1>3, <1>4, <1>5, <1>6, <1>7 DEF Sound
<1> QED
  BY <1>1, <1>3, <1>8, SetRecord

-----------------------------------------------------------------------------
(* The actions of a session. *)

LEMMA BeginAdvances ==
  ASSUME IntakeInv, NEW s \in Sessions, NEW cmd \in Commands, NEW art \in Inputs,
         Begin(s, cmd, art)
  PROVE  Advance(s)
<1> DEFINE r == [step |-> IF cmd = "TAKETHIS" THEN "read" ELSE "gates",
                 cmd |-> cmd, art |-> art, replies |-> <<>>, open |-> TRUE, own |-> FALSE]
<1>1. r \in InCommand
  BY NoReply DEF InCommand, Steps
<1>2. Sound(r)
  BY NoReply DEF Sound
<1>3. session' = [session EXCEPT ![s] = r]
  BY DEF Begin
<1> QED
  BY <1>1, <1>2, <1>3, SetRecord DEF IntakeInv

LEMMA PostGatesAdvances ==
  ASSUME IntakeInv, NEW s \in Sessions, PostGates(s)
  PROVE  Advance(s)
<1>1. Ran(s, "gates") /\ IsPost(s) /\ session[s] \in InCommand /\ Sound(session[s]) /\ TypeOK
  BY IdleHasNoCommand DEF PostGates, IntakeInv, Ran
<1>2. PICK auth \in {<<>>, <<"auth">>} :
        session' = [session EXCEPT
          ![s].step    = IF AcceptReaders(readersOn) THEN "read" ELSE "done",
          ![s].replies = auth \o (IF AcceptReaders(readersOn)
                                  THEN IF AcceptArticles(mode) THEN <<>> ELSE <<"reject">>
                                  ELSE <<"auth">>),
          ![s].open    = AcceptArticles(mode)]
  BY DEF PostGates
<1> DEFINE refusal == IF AcceptReaders(readersOn)
                      THEN IF AcceptArticles(mode) THEN <<>> ELSE <<"reject">>
                      ELSE <<"auth">>
           step == IF AcceptReaders(readersOn) THEN "read" ELSE "done"
           r == [session[s] EXCEPT !.step = step, !.replies = auth \o refusal,
                                   !.open = AcceptArticles(mode)]
<1>3. /\ auth \in Seq(Replies) /\ refusal \in Seq(Replies)
      /\ "ok" \notin ToSet(auth) /\ "ok" \notin ToSet(refusal)
  <2>1. \A no \in {"auth", "reject"} : <<no>> \in Seq(Replies) /\ "ok" \notin ToSet(<<no>>)
    BY OneReply DEF Replies
  <2>2. auth \in {<<>>, <<"auth">>, <<"reject">>} /\ refusal \in {<<>>, <<"auth">>, <<"reject">>}
    OBVIOUS
  <2> QED
    BY <2>1, <2>2, NoReply
<1>4. auth \o refusal \in Seq(Replies) /\ "ok" \notin ToSet(auth \o refusal)
  BY <1>3, AppendedReplies
<1>5. r \in InCommand
  BY <1>1, <1>4 DEF InCommand, Steps, AcceptArticles
<1>6. Sound(r)
  <2>1. /\ r.step = step /\ r.replies = auth \o refusal /\ r.cmd = "POST"
        /\ r.art = session[s].art /\ r.own = session[s].own
    BY <1>1 DEF InCommand, IsPost, Cmd
  <2>2. ~session[s].own
    BY <1>1 DEF Sound, Ran
  <2> QED
    BY <1>4, <2>1, <2>2 DEF Sound
<1>7. session' = [session EXCEPT ![s] = r]
  BY <1>1, <1>2 DEF TypeOK
<1> QED
  BY <1>1, <1>5, <1>6, <1>7, SetRecord

LEMMA PeerGatesAdvances ==
  ASSUME IntakeInv, NEW s \in Sessions, PeerGates(s)
  PROVE  Advance(s)
<1>1. /\ Ran(s, "gates") /\ ~IsPost(s) /\ session[s] \in InCommand
      /\ Sound(session[s]) /\ TypeOK
  BY IdleHasNoCommand DEF PeerGates, IntakeInv, Ran
<1>2. PICK answer \in IF OpenToPeers THEN {"go on", "auth", Forbid(s)} ELSE {Defer(s)} :
        session' = [session EXCEPT
          ![s].step    = IF answer # "go on" THEN "done"
                         ELSE IF Cmd(s) = "TAKETHIS" THEN "screen" ELSE "known",
          ![s].replies = IF answer = "go on" THEN <<>> ELSE <<answer>>,
          ![s].open    = AcceptArticles(mode)]
  BY DEF PeerGates
<1> DEFINE step == IF answer # "go on" THEN "done"
                   ELSE IF Cmd(s) = "TAKETHIS" THEN "screen" ELSE "known"
           rs == IF answer = "go on" THEN <<>> ELSE <<answer>>
           r == [session[s] EXCEPT !.step = step, !.replies = rs, !.open = AcceptArticles(mode)]
<1>3. /\ rs \in Seq(Replies) /\ "ok" \notin ToSet(rs)
      /\ answer = "go on" => rs = <<>> /\ AcceptArticles(mode)
      /\ answer # "go on" => Len(rs) = 1
  <2>1. CASE answer = "go on"
    BY <2>1, NoReply, RepliesNamed DEF OpenToPeers
  <2>2. CASE answer # "go on"
    <3>1. answer \in Replies \ {"ok"}
      BY <2>2, RepliesNamed
    <3> QED
      BY <2>2, <3>1, OneReply
  <2> QED
    BY <2>1, <2>2
<1>4. /\ step \in {"done", "screen", "known"}
      /\ step = "done" <=> answer # "go on"
  OBVIOUS
<1>5. r \in InCommand
  BY <1>1, <1>3, <1>4 DEF InCommand, Steps, AcceptArticles
<1>6. Sound(r)
  <2>1. /\ r.step = step /\ r.replies = rs /\ r.cmd # "POST"
        /\ r.own = session[s].own /\ r.open = AcceptArticles(mode)
    BY <1>1 DEF InCommand, IsPost, Cmd
  <2>2. ~session[s].own
    BY <1>1 DEF Sound, Ran
  <2>3. IF step = "done" THEN Len(rs) = 1 ELSE rs = <<>> /\ AcceptArticles(mode)
    BY <1>3, <1>4
  <2> HIDE DEF r, rs, step
  <2> QED
    BY <1>3, <1>4, <2>1, <2>2, <2>3 DEF Sound
<1>7. session' = [session EXCEPT ![s] = r]
  BY <1>1, <1>2 DEF TypeOK
<1> QED
  BY <1>1, <1>5, <1>6, <1>7, SetRecord

LEMMA StoreAdvances ==
  ASSUME IntakeInv, NEW s \in Sessions, Store(s)
  PROVE  Advance(s)
<1>1. Ran(s, "store") /\ session[s] \in InCommand /\ Sound(session[s]) /\ TypeOK
  BY IdleHasNoCommand DEF Store, IntakeInv, Ran
<1> DEFINE r == [session[s] EXCEPT !.step = "ack", !.own = TRUE]
<1>2. r \in InCommand
  BY <1>1 DEF InCommand, Steps
<1>3. /\ r.step = "ack" /\ r.own /\ r.cmd = session[s].cmd /\ r.art = session[s].art
      /\ r.replies = session[s].replies /\ r.open = session[s].open
  BY <1>1 DEF InCommand
<1>4. Sound(r)
  BY <1>1, <1>3 DEF Sound, Ran
<1>5. session' = [session EXCEPT ![s] = r]
  BY <1>1 DEF Store, TypeOK
<1> QED
  BY <1>1, <1>2, <1>4, <1>5, SetRecord

\* The other actions go on, or return after a reply.
LEMMA ActionAdvances ==
  ASSUME IntakeInv, NEW s \in Sessions,
         \/ Known(s) \/ Read(s) \/ PostScreen(s) \/ PeerScreen(s) \/ Control(s)
         \/ RememberCancel(s) \/ Moderate(s) \/ Dup(s)
         \/ StoreDuplicate(s) \/ StoreNoGroup(s) \/ Unavailable(s) \/ Acknowledge(s)
  PROVE  Advance(s)
<1> DEFINE Going == {"gates", "known", "read", "screen", "control", "cancelled", "moderate",
                     "dup", "store"}
<1>1. /\ \A r \in Replies : <<r>> \in Seq(Replies) /\ ToSet(<<r>>) = {r}
      /\ <<>> \in Seq(Replies) /\ ToSet(<<>>) = {}
  BY NoReply, OneReply
<1>2. {"ok", "want", "reject", "fail", Failure(s)} \subseteq Replies /\ Failure(s) # "ok"
  BY RepliesNamed DEF Replies
<1>3. ASSUME session[s].step \in Going, NEW reply \in Replies \ {"ok"}, Finish(s, reply)
      PROVE  Advance(s)
  BY <1>3, Finishes
<1>4. ASSUME session[s].step \in Going, NEW step \in {"read", "gates", "screen", "control"},
             GoOn(s, step, <<>>)
      PROVE  Advance(s)
  BY <1>1, <1>4, GoesOn DEF Steps
<1>5. ASSUME Known(s) PROVE Advance(s)
  BY <1>2, <1>3, <1>4, <1>5 DEF Known, Ran
<1>6. ASSUME Read(s) PROVE Advance(s)
  BY <1>2, <1>3, <1>4, <1>6 DEF Read, Ran
<1>7. ASSUME PostScreen(s) PROVE Advance(s)
  <2>1. GoOn(s, "control", <<"reject">>) => Advance(s)
    <3>1. <<"reject">> \in Seq(Replies) /\ "ok" \notin ToSet(<<"reject">>)
      BY <1>1, <1>2
    <3>2. "control" \in Steps \ {"ack", "done"} /\ session[s].step = "screen" /\ IsPost(s)
      BY <1>7 DEF PostScreen, Ran, Steps
    <3> DEFINE rs == <<"reject">>
    <3> HIDE DEF rs
    <3>3. rs \in Seq(Replies) /\ "ok" \notin ToSet(rs)
      BY <3>1 DEF rs
    <3>4. GoOn(s, "control", rs) => Advance(s)
      BY <3>2, <3>3, GoesOn
    <3> QED
      BY <3>4 DEF rs
  <2>2. GoOn(s, "done", <<"reject", "fail">>) => Advance(s)
    <3>2. "done" \in Steps \ {"ack"} /\ session[s].step = "screen" /\ IsPost(s)
      BY <1>7 DEF PostScreen, Ran, Steps
    <3> DEFINE rs == <<"reject", "fail">>
    <3>3. rs \in Seq(Replies) /\ "ok" \notin ToSet(rs)
      BY <1>2, TwoReplies
    <3> HIDE DEF rs
    <3>4. GoOn(s, "done", rs) => Advance(s)
      BY <3>2, <3>3, GoesOn
    <3> QED
      BY <3>4 DEF rs
  <2> QED
    BY <1>2, <1>3, <1>4, <1>7, <2>1, <2>2 DEF PostScreen, Ran
<1>8. ASSUME PeerScreen(s) PROVE Advance(s)
  BY <1>2, <1>3, <1>4, <1>8 DEF PeerScreen, Ran
<1>9. ASSUME Control(s) PROVE Advance(s)
  <2>1. Ran(s, "control")
    BY <1>9 DEF Control
  <2>2. ASSUME Art(s).kind = "cancel", GoOn(s, "cancelled", <<>>)
        PROVE  Advance(s)
    BY <1>1, <2>1, <2>2, GoesOn DEF Ran, Steps
  <2>3. ASSUME IsPost(s), GoOn(s, "moderate", <<>>)
        PROVE  Advance(s)
    BY <1>1, <2>1, <2>3, GoesOn DEF Ran, Steps
  <2>4. ASSUME ~IsPost(s), GoOn(s, "dup", <<>>)
        PROVE  Advance(s)
    BY <1>1, <2>1, <2>4, GoesOn DEF Ran, Steps
  <2> QED
    BY <1>9, <2>2, <2>3, <2>4 DEF Control
<1>10. ASSUME RememberCancel(s) PROVE Advance(s)
  <2>1. Art(s).kind = "cancel" /\ session[s].step = "cancelled" /\ Finish(s, "ok")
    BY <1>10 DEF RememberCancel, Ran, IntakeInv, Sound, Art
  <2> QED
    BY <1>2, <2>1, Finishes
<1>11. ASSUME Moderate(s) PROVE Advance(s)
  <2>1. Ran(s, "moderate")
    BY <1>11 DEF Moderate
  <2>2. ASSUME Art(s).kind = "moderated", Finish(s, "ok")
        PROVE  Advance(s)
    BY <1>2, <2>1, <2>2, Finishes DEF Ran
  <2>3. ASSUME Art(s).kind # "moderated", GoOn(s, "dup", <<>>)
        PROVE  Advance(s)
    BY <1>1, <2>1, <2>3, GoesOn DEF Ran, Steps
  <2> QED
    BY <1>2, <1>3, <1>11, <2>1, <2>2, <2>3 DEF Moderate, Ran
<1>12. ASSUME Dup(s) PROVE Advance(s)
  <2>1. Ran(s, "dup") /\ ~(IsPost(s) /\ Art(s).kind = "moderated")
    BY <1>12 DEF Dup, Ran, IntakeInv, Sound, IsPost, Cmd, Art
  <2>2. GoOn(s, "store", <<>>) => Advance(s)
    BY <1>1, <2>1, GoesOn DEF Ran, Steps
  <2> QED
    BY <1>2, <1>3, <1>12, <2>1, <2>2 DEF Dup, Ran
<1>13. ASSUME StoreDuplicate(s) \/ StoreNoGroup(s) PROVE Advance(s)
  BY <1>2, <1>3, <1>13 DEF StoreDuplicate, StoreNoGroup, Ran
<1>14. ASSUME Unavailable(s) PROVE Advance(s)
  BY <1>2, <1>3, <1>14 DEF Unavailable, Ran
<1>15. ASSUME Acknowledge(s) PROVE Advance(s)
  <2>1. session[s].own /\ session[s].step = "ack" /\ Finish(s, "ok")
    BY <1>15 DEF Acknowledge, Ran, IntakeInv, Sound
  <2> QED
    BY <1>2, <2>1, Finishes
<1> QED
  BY <1>5, <1>6, <1>7, <1>8, <1>9, <1>10, <1>11, <1>12, <1>13, <1>14, <1>15

-----------------------------------------------------------------------------
(* The tables. *)

\* All but Store.Post leave the acceptances alone, and nothing is forgotten.
TablesGrow ==
  /\ history \subseteq history' /\ history' \subseteq Ids
  /\ articles' \subseteq Ids /\ mailed' \subseteq Ids
  /\ UNCHANGED <<gates, accepted>>

LEMMA InputIds ==
  ASSUME TypeOK, NEW s \in Sessions, ~Ran(s, "idle")
  PROVE  Art(s).id \in Ids /\ Art(s).target \in Ids
BY IdleHasNoCommand, InputsAssumption DEF InCommand, Art, Article

LEMMA ActionTables ==
  ASSUME TypeOK, NEW s \in Sessions,
         \/ Known(s) \/ Read(s) \/ PostScreen(s) \/ PeerScreen(s) \/ Control(s)
         \/ RememberCancel(s) \/ Moderate(s) \/ Dup(s)
         \/ StoreDuplicate(s) \/ StoreNoGroup(s) \/ Unavailable(s) \/ Acknowledge(s)
         \/ PostGates(s) \/ PeerGates(s) \/ EndCommand(s) \/ Disconnect(s)
  PROVE  TablesGrow
<1> USE DEF TypeOK, TablesGrow, gates, tables, Remember, TryRemember, RememberReject
<1>1. CASE Known(s) \/ Dup(s) \/ StoreDuplicate(s) \/ Unavailable(s) \/ Acknowledge(s)
  BY <1>1 DEF Known, Dup, StoreDuplicate, Unavailable, Acknowledge
<1>2. CASE PostGates(s) \/ PeerGates(s) \/ EndCommand(s) \/ Disconnect(s)
  BY <1>2 DEF PostGates, PeerGates, EndCommand, Disconnect
<1>3. CASE Read(s) \/ PostScreen(s) \/ PeerScreen(s)
  <2>1. Art(s).id \in Ids
    BY <1>3, InputIds DEF Read, PostScreen, PeerScreen, Ran
  <2> QED
    BY <1>3, <2>1 DEF Read, PostScreen, PeerScreen
<1>4. CASE Control(s) \/ RememberCancel(s) \/ Moderate(s) \/ StoreNoGroup(s)
  <2>1. Art(s).id \in Ids /\ Art(s).target \in Ids
    BY <1>4, InputIds DEF Control, RememberCancel, Moderate, StoreNoGroup, Ran
  <2> QED
    BY <1>4, <2>1 DEF Control, RememberCancel, Moderate, StoreNoGroup
<1> QED
  BY <1>1, <1>2, <1>3, <1>4

\* What a step does: a command moves and the tables grow, a command stores an article, or
\* the administrator or a restart sets the gates.
LEMMA NextShapes ==
  ASSUME IntakeInv, [Next]_vars
  PROVE  \/ \E s \in Sessions : Advance(s) /\ (TablesGrow \/ Store(s))
         \/ /\ session' \in {session, [s \in Sessions |-> NoCommand]}
            /\ mode' \in AcceptanceModes /\ readersOn' \in BOOLEAN /\ peersOn' \in BOOLEAN
            /\ UNCHANGED tables
<1>0. TypeOK
  BY DEF IntakeInv
<1>1. ASSUME NEW s \in Sessions, SessionStep(s)
      PROVE  Advance(s) /\ (TablesGrow \/ Store(s))
  <2>1. ASSUME NEW c \in Sends[s], Begin(s, c[1], c[2])
        PROVE  Advance(s) /\ TablesGrow
    <3>1. c[1] \in Commands /\ c[2] \in Inputs
      BY SendsAssumption
    <3> QED
      BY <1>0, <2>1, <3>1, BeginAdvances DEF Begin, TablesGrow, TypeOK, gates, tables
  <2>2. CASE Store(s)
    BY <2>2, StoreAdvances
  <2>3. CASE PostGates(s) \/ PeerGates(s)
    BY <1>0, <2>3, PostGatesAdvances, PeerGatesAdvances, ActionTables
  <2>4. CASE EndCommand(s) \/ Disconnect(s)
    BY <1>0, <2>4, Stops, ActionTables DEF EndCommand, Disconnect
  <2>5. CASE \/ Known(s) \/ Read(s) \/ PostScreen(s) \/ PeerScreen(s) \/ Control(s)
             \/ RememberCancel(s) \/ Moderate(s) \/ Dup(s)
             \/ StoreDuplicate(s) \/ StoreNoGroup(s) \/ Unavailable(s) \/ Acknowledge(s)
    BY <1>0, <2>5, ActionAdvances, ActionTables
  <2> QED
    BY <1>1, <2>1, <2>2, <2>3, <2>4, <2>5 DEF SessionStep
<1>2. CASE Admin
  BY <1>0, <1>2 DEF Admin, Order, SetReaders, SetPeers, TypeOK
<1>3. CASE Restart
  BY <1>3 DEF Restart, AcceptanceModes
<1>4. CASE UNCHANGED vars
  BY <1>0, <1>4 DEF vars, gates, TypeOK
<1> QED
  BY <1>1, <1>2, <1>3, <1>4 DEF Next

-----------------------------------------------------------------------------
(* Theorems. *)

LEMMA InitIntakeInv == Init => IntakeInv
BY DEF Init, IntakeInv, TypeOK, Sound, NoCommand, AcceptanceModes

LEMMA NextIntakeInv == IntakeInv /\ [Next]_vars => IntakeInv'
<1> SUFFICES ASSUME IntakeInv, [Next]_vars
             PROVE  IntakeInv'
  OBVIOUS
<1>1. ASSUME NEW s \in Sessions, Advance(s)
      PROVE  /\ session' \in [Sessions -> {NoCommand} \cup InCommand]
             /\ \A t \in Sessions : Sound(session'[t])
  BY <1>1 DEF Advance, IntakeInv
<1>2. ASSUME TablesGrow
      PROVE  /\ mode' \in AcceptanceModes /\ readersOn' \in BOOLEAN /\ peersOn' \in BOOLEAN
             /\ history' \subseteq Ids /\ articles' \subseteq Ids /\ mailed' \subseteq Ids
             /\ accepted' \in [Ids -> Nat]
  BY <1>2 DEF TablesGrow, gates, IntakeInv, TypeOK
<1>3. ASSUME NEW s \in Sessions, Store(s)
      PROVE  /\ mode' \in AcceptanceModes /\ readersOn' \in BOOLEAN /\ peersOn' \in BOOLEAN
             /\ history' \subseteq Ids /\ articles' \subseteq Ids /\ mailed' \subseteq Ids
             /\ accepted' \in [Ids -> Nat]
  <2>1. TypeOK /\ Art(s).id \in Ids
    BY <1>3, InputIds DEF IntakeInv, Store, Ran
  <2> QED
    BY <1>3, <2>1 DEF Store, Remember, gates, TypeOK
<1>4. CASE \E s \in Sessions : Advance(s) /\ (TablesGrow \/ Store(s))
  BY <1>1, <1>2, <1>3, <1>4 DEF IntakeInv, TypeOK
<1>5. CASE /\ session' \in {session, [s \in Sessions |-> NoCommand]}
           /\ mode' \in AcceptanceModes /\ readersOn' \in BOOLEAN /\ peersOn' \in BOOLEAN
           /\ UNCHANGED tables
  <2>1. Sound(NoCommand)
    BY DEF Sound, NoCommand
  <2> QED
    BY <1>5, <2>1 DEF IntakeInv, TypeOK, tables
<1> QED
  BY <1>4, <1>5, NextShapes

LEMMA IntakeInvariant == Spec => []IntakeInv
<1>1. Init => IntakeInv
  BY InitIntakeInv
<1>2. IntakeInv /\ [Next]_vars => IntakeInv'
  BY NextIntakeInv
<1> QED
  BY <1>1, <1>2, PTL DEF Spec

\* The gates, the tables and every session's command keep their types.
THEOREM IntakeTypeCorrect == Spec => []TypeOK
<1>1. IntakeInv => TypeOK
  BY DEF IntakeInv
<1> QED
  BY <1>1, IntakeInvariant, PTL

\* "ok" (240, 235, 239) is said of an ordinary article only by the command that stored it.
THEOREM OkMeansStored == Spec => []AcknowledgedIsStored
<1>1. IntakeInv => AcknowledgedIsStored
  BY DEF IntakeInv, Sound, AcknowledgedIsStored, Done, Ran, Art
<1> QED
  BY <1>1, IntakeInvariant, PTL

\* A POST of an unapproved article to a moderated group (submitModerated) stores nothing.
THEOREM ModeratedNeverStored == Spec => []MailedIsNotStored
<1>1. IntakeInv => MailedIsNotStored
  BY DEF IntakeInv, Sound, MailedIsNotStored, Active, Ran, Art, IsPost, Cmd
<1> QED
  BY <1>1, IntakeInvariant, PTL

\* CHECK, TAKETHIS and IHAVE send one final status, and stop with it (replied).
THEOREM PeersHearOnce == Spec => []PeersOneFinalReply
<1>1. IntakeInv => PeersOneFinalReply
  <2> SUFFICES ASSUME IntakeInv, NEW s \in Sessions, Active(s), ~IsPost(s)
               PROVE  /\ Done(s) <=> Len(session[s].replies) = 1
                      /\ Len(session[s].replies) <= 1
    BY DEF PeersOneFinalReply
  <2>1. CASE Done(s)
    <3>1. Len(session[s].replies) = 1
      BY <2>1 DEF IntakeInv, Sound, Active, Done, Ran, IsPost, Cmd
    <3> QED
      BY <2>1, <3>1
  <2>2. CASE ~Done(s)
    <3>1. session[s].replies = <<>>
      BY <2>2 DEF IntakeInv, Sound, Active, Done, Ran, IsPost, Cmd
    <3>2. Len(session[s].replies) = 0
      BY <3>1, NoReply
    <3> QED
      BY <2>2, <3>2
  <2> QED
    BY <2>1, <2>2
<1> QED
  BY <1>1, IntakeInvariant, PTL

\* A transfer whose gate check (beginPeerTransfer) met a pause or throttle stores nothing.
THEOREM PausedTransfersStoreNothing == Spec => []PauseRefusesTransfers
<1>1. IntakeInv => PauseRefusesTransfers
  BY DEF IntakeInv, Sound, PauseRefusesTransfers, Active, Ran, IsPost, Cmd
<1> QED
  BY <1>1, IntakeInvariant, PTL

\* An id that was accepted is remembered, so the transaction refuses it from then on.
AcceptedIsRemembered ==
  \A m \in Ids : accepted[m] <= 1 /\ (accepted[m] = 1 => m \in history)

\* However many sessions send one article at once, Store.Post stores it once.
THEOREM AcceptedOnce == Spec => []StoredOnce
<1>1. Init => AcceptedIsRemembered
  BY DEF Init, AcceptedIsRemembered
<1>2. IntakeInv /\ AcceptedIsRemembered /\ [Next]_vars => AcceptedIsRemembered'
  <2> SUFFICES ASSUME IntakeInv, AcceptedIsRemembered, [Next]_vars
               PROVE  AcceptedIsRemembered'
    OBVIOUS
  <2>1. CASE history \subseteq history' /\ UNCHANGED accepted
    BY <2>1 DEF AcceptedIsRemembered
  <2>2. ASSUME NEW s \in Sessions, Store(s)
        PROVE  AcceptedIsRemembered'
    <3>1. accepted \in [Ids -> Nat]
      BY DEF IntakeInv, TypeOK
    <3>2. \A m \in Ids : m \notin history => accepted[m] = 0
      BY <3>1 DEF AcceptedIsRemembered
    <3>3. /\ Art(s).id \notin history /\ history' = history \cup {Art(s).id}
          /\ accepted' = [accepted EXCEPT ![Art(s).id] = @ + 1]
      BY <2>2 DEF Store, Remember
    <3> QED
      BY <3>1, <3>2, <3>3 DEF AcceptedIsRemembered
  <2> QED
    BY <2>1, <2>2, NextShapes DEF TablesGrow, tables
<1>3. AcceptedIsRemembered => StoredOnce
  BY DEF AcceptedIsRemembered, StoredOnce
<1> QED
  BY <1>1, <1>2, <1>3, IntakeInvariant, PTL DEF Spec
=============================================================================
