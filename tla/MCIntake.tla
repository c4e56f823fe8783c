------------------------------ MODULE MCIntake ------------------------------
(* Articles and sessions for small instances of Intake. *)
EXTENDS Intake, TLC

CONSTANTS m1, m2, s1, s2

MCIds == {m1, m2}

Art1(id, kind, target, flaw) == [id |-> id, kind |-> kind, target |-> target, flaw |-> flaw]

Plain1      == Art1(m1, "plain", m1, "none")
Filtered2   == Art1(m2, "plain", m2, "filtered")
Moderated1  == Art1(m1, "moderated", m1, "none")
Cancel1     == Art1(m2, "cancel", m1, "none")
Flawed(f)   == Art1(m2, "plain", m2, f)

Racing  == {Plain1, Cancel1, Moderated1}
Flawed2 == {Flawed(f) : f \in Flaws \ {"none", "old"}}  \* "old" is treated as "filtered"
All     == Racing \cup Flawed2
Few     == {Plain1, Filtered2}

\* One client sends some of everything, the other the same article, or its cancel.
Rivals ==
  [s \in {s1, s2} |->
     IF s = s1 THEN ({"POST"} \X (Racing \cup {Flawed(f) : f \in {"filtered", "nogroup"}}))
                    \cup ({"TAKETHIS"} \X ({Plain1} \cup Flawed2))
                    \cup ({"IHAVE", "CHECK"} \X {Plain1})
               ELSE {<<"IHAVE", Plain1>>, <<"POST", Cancel1>>}]

OnePoster == [s \in {s1} |-> {"POST"} \X Few]
=============================================================================
