----------------------------- MODULE MCStoreTxn -----------------------------
(* Mixes of transactions for StoreTxn. *)
EXTENDS StoreTxn, TLC

CONSTANTS ga, gb, m1, m2

MCGroups == {ga, gb}
MCMsgIds == {m1, m2}

PostTo(id, list) == [op |-> "post", id |-> id, list |-> list]
Cancel(id)       == [op |-> "cancel", id |-> id, list |-> <<>>]

\* Crossposts in opposite orders, one that lists a group twice, the same article from two
\* peers, and two cancels of it.
Crossing ==
  <<PostTo(m1, <<ga, gb>>), PostTo(m1, <<ga, gb>>), PostTo(m2, <<gb, ga, gb>>),
    Cancel(m1), Cancel(m1)>>

PostAndCancel == <<PostTo(m1, <<ga>>), Cancel(m1)>>
=============================================================================
