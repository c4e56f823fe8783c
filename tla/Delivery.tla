------------------------------ MODULE Delivery ------------------------------
(***************************************************************************)
(* What the outbound feed promises: an article owed to a peer stays owed   *)
(* until the peer has it or something excuses the server from sending it   *)
(* (the peer refused it, is disabled or gone, no longer wants it; the      *)
(* article is gone; the administrator emptied the queue).  A peer may be   *)
(* sent an article twice, and never one that was not owed to it.           *)
(***************************************************************************)
CONSTANTS Pairs  \* <<peer, article>>

VARIABLES owed, has, excused
vars == <<owed, has, excused>>

Init == owed = {} /\ has = {} /\ excused \subseteq Pairs

\* A new debt; an excuse of before does not hold against it unless it still applies.
Owe(r) ==
  /\ r \notin owed
  /\ owed' = owed \cup {r}
  /\ excused' \in {excused \ {r}, excused \cup {r}}
  /\ has' = has

Deliver(r) ==
  /\ r \in owed \cup has \cup excused
  /\ has' = has \cup {r}
  /\ UNCHANGED <<owed, excused>>

Release ==
  /\ owed' \subseteq owed
  /\ excused \subseteq excused' /\ excused' \subseteq Pairs
  /\ owed \ owed' \subseteq has \cup excused'
  /\ has' = has

Next == (\E r \in Pairs : Owe(r) \/ Deliver(r)) \/ Release

Spec == Init /\ [][Next]_vars
=============================================================================
