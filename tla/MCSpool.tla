------------------------------ MODULE MCSpool ------------------------------
(* Articles for small instances of Spool. *)
EXTENDS Spool

\* One article crossposted to a group that may be banned; one with ">From " in its body,
\* which quotes the Message-ID of the other.
MCGroupsOf == [m \in {"x", "y"} |-> IF m = "x" THEN {"bin", "misc"} ELSE {"misc"}]
MCQuotedIn == [m \in {"x", "y"} |-> IF m = "x" THEN {} ELSE {"x"}]
MCDepth    == [m \in {"x", "y"} |-> IF m = "x" THEN 0 ELSE 1]
=============================================================================
