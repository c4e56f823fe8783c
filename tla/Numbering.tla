----------------------------- MODULE Numbering -----------------------------
(***************************************************************************)
(* What a store promises about the article numbers of its newsgroups, and  *)
(* what newsreaders build on: they keep the numbers they have seen (RFC    *)
(* 3977, 6.1.1).  Articles are appended above the high water mark, with    *)
(* nothing between it and the first of them, and withdrawn from anywhere;  *)
(* no article comes under a number that was passed; the low water mark     *)
(* only moves up, and never above an article, except that a withdrawal may *)
(* lose it: it then says nothing until it is found again.  A newsgroup     *)
(* that was deleted and made again begins anew.                            *)
(*                                                                         *)
(* One step may touch several newsgroups: a crosspost, a purge.            *)
(***************************************************************************)
EXTENDS Naturals

CONSTANT Newsgroups

VARIABLES
  carried,          \* the newsgroups there are
  numbers,          \* of each newsgroup, the numbers of its articles
  lowMark, highMark,
  astray            \* the newsgroups whose low water mark is lost

vars == <<carried, numbers, lowMark, highMark, astray>>

Init ==
  /\ carried \in SUBSET Newsgroups
  /\ numbers = [g \in Newsgroups |-> {}]
  /\ lowMark = [g \in Newsgroups |-> 0] /\ highMark = [g \in Newsgroups |-> 0]
  /\ astray = {}

\* The first article of a newsgroup sets its low water mark.
Appends(g) ==
  /\ highMark'[g] > highMark[g]
  /\ numbers'[g] = numbers[g] \union (highMark[g] + 1 .. highMark'[g])
  /\ lowMark'[g] = IF lowMark[g] = 0 THEN highMark[g] + 1 ELSE lowMark[g]
  /\ g \in astray' <=> g \in astray

\* Perhaps none.
Withdraws(g) ==
  /\ highMark'[g] = highMark[g]
  /\ numbers'[g] \subseteq numbers[g]
  /\ lowMark'[g] \in 1..highMark[g] \/ lowMark'[g] = highMark[g]
  /\ g \notin astray' => /\ \A n \in numbers'[g] : lowMark'[g] <= n
                         /\ g \notin astray => lowMark[g] <= lowMark'[g]

Blank(g) ==
  /\ numbers'[g] = {} /\ lowMark'[g] = 0 /\ highMark'[g] = 0
  /\ g \notin astray'

Next ==
  /\ carried' \in SUBSET Newsgroups /\ astray' \in SUBSET Newsgroups
  /\ \A g \in Newsgroups :
       IF g \in carried /\ g \in carried' THEN Appends(g) \/ Withdraws(g) ELSE Blank(g)

Spec == Init /\ [][Next]_vars
=============================================================================
