---------------------------- MODULE PeerFilters ----------------------------
(***************************************************************************)
(* Which articles a peer is offered: wildmats over the newsgroups, the     *)
(* distributions, the flags and the Path of its newsfeeds entry.  Each is  *)
(* a function of an entry and an article, translated as the loop it is and *)
(* compared with what it decides, for every question of a small set.       *)
(*                                                                         *)
(* A string is a sequence of characters where a wildmat looks into it and  *)
(* a value otherwise; a field is the sequence of its parts, trimmed and    *)
(* split.  Left out: the flag Af, since no article of the queue is marked  *)
(* as filtered, and the letters ParseFlags stores and nothing reads.       *)
(***************************************************************************)
EXTENDS Integers, FiniteSets, Sequences, Functions

CONSTANTS
  GlobQuestions,      \* pairs of a glob and a text
  PatternQuestions,   \* pairs of a wildmat, a sequence of patterns, and the newsgroups
  DistribQuestions,   \* pairs of the tokens of an entry and the header of an article
  FlagQuestions,      \* pairs of the parts of a flags field and an article
  PathQuestions,      \* pairs of a peer and the hops of a Path
  OwnHosts,           \* Hostname and Pathhost of this server
  NotANumber, Bare    \* the operand of a part that has another, or none

IsSeq(x) == x \in Seq(Range(x))

LimitKeys == {"<", ">", "C", "G", "H", "U"}
\* A part of a flags field has a key and an operand: the letters of A, the word of N, a number.
IsPart(part) ==
  CASE part.key = "A" -> IsSeq(part.operand)
    [] part.key = "N" -> TRUE
    [] part.key = "H" -> part.operand \in Int \union {NotANumber, Bare}
    [] OTHER -> part.key \in LimitKeys /\ part.operand \in Int \union {NotANumber}

ASSUME FiltersAssumption ==
  /\ \A q \in GlobQuestions : IsSeq(q[1]) /\ IsSeq(q[2])
  /\ \A q \in PatternQuestions :
       /\ IsSeq(q[1]) /\ \A i \in DOMAIN q[1] : IsSeq(q[1][i].glob)
       /\ \A i \in DOMAIN q[2] : IsSeq(q[2][i])
  /\ \A q \in DistribQuestions : \A i \in DOMAIN q[1] : q[1][i].neg \in BOOLEAN
  /\ \A q \in FlagQuestions :
       /\ IsSeq(q[1]) /\ \A i \in DOMAIN q[1] : IsPart(q[1][i])
       /\ IsSeq(q[2].groups) /\ IsSeq(q[2].followup) /\ IsSeq(q[2].hops)
       /\ q[2].bytes \in Nat
  /\ Bare # NotANumber /\ Bare \notin Int

VARIABLE question     \* what the functions were last asked

\* for _, x := range seq: what the turns of a loop make of what there was before it.
Loop(turn(_, _), first, seq) ==
  LET after[i \in 0..Len(seq)] == IF i = 0 THEN first ELSE turn(after[i - 1], seq[i])
  IN  after[Len(seq)]

-----------------------------------------------------------------------------
(* Wildmats. *)

\* The suffixes of s, by where they begin, that a character of a glob and the rest of the
\* glob match, when the rest alone matches those in ends.
Starts(c, ends, s) ==
  {k \in 1..Len(s) + 1 :
     IF c = "*" THEN \E j \in k..Len(s) + 1 : j \in ends
                ELSE k <= Len(s) /\ c \in {"?", s[k]} /\ k + 1 \in ends}

\* matchRunes calls itself with the rest of the glob and of the text: the last n characters
\* of the glob match the suffixes matched[n].
MatchGlob(pat, s) ==
  LET matched[n \in 0..Len(pat)] ==
        IF n = 0 THEN {Len(s) + 1} ELSE Starts(pat[Len(pat) + 1 - n], matched[n - 1], s)
  IN  1 \in matched[Len(pat)]

\* Mutation of Scan: the first pattern that matches decides, not the last.
ScanFirst(matched, p, s) == matched \/ (p.mark = "" /\ p.glob # <<>> /\ MatchGlob(p.glob, s))

\* One turn of the loop of Match: "!" and "@" take back what earlier patterns matched.
Scan(matched, p, s) ==
  IF p.glob # <<>> /\ MatchGlob(p.glob, s) THEN p.mark = "" ELSE matched

Match(wildmat, s) == Loop(LAMBDA matched, p : Scan(matched, p, s), FALSE, wildmat)

MatchAny(wildmat, groups) == \E i \in DOMAIN groups : Match(wildmat, groups[i])

Poisoned(wildmat, s) ==
  \E i \in DOMAIN wildmat :
    wildmat[i].mark = "@" /\ wildmat[i].glob # <<>> /\ MatchGlob(wildmat[i].glob, s)

Everything == <<[mark |-> "", glob |-> <<"*">>]>>

GroupsWanted(patterns, groups) ==
  LET wildmat == IF patterns = <<>> THEN Everything ELSE patterns IN
    /\ \A i \in DOMAIN groups : ~Poisoned(wildmat, groups[i])
    /\ MatchAny(wildmat, groups)

-----------------------------------------------------------------------------
(* Distributions: a token is a distribution, which "!" may exclude. *)

\* A token found to exclude d ends the loop; if none is about d, all must be exclusions.
TokenAllows(tokens, d) ==
  LET same == {t \in Range(tokens) : t.dist = d}
  IN  IF same = {} THEN \A t \in Range(tokens) : t.neg
                   ELSE \A t \in same : ~t.neg

\* A header with separators and no distribution allows nothing.
DistributionWanted(tokens, header) ==
  \/ tokens = <<>> \/ header = <<>>
  \/ \E i \in DOMAIN header : header[i] # "" /\ TokenAllows(tokens, header[i])

-----------------------------------------------------------------------------
(* Flags. *)

NoFlags == [limit |-> [k \in LimitKeys |-> 0],
            control |-> "any", distrib |-> FALSE, exist |-> FALSE, pathOnly |-> FALSE,
            only |-> {}]

\* parseAChecks, and one letter of it.
ACheck(f, letter) ==
  CASE letter = "c" -> [f EXCEPT !.control = "exclude"]
    [] letter = "C" -> [f EXCEPT !.control = "only"]
    [] letter = "d" -> [f EXCEPT !.distrib = TRUE]
    [] letter = "e" -> [f EXCEPT !.exist = TRUE]
    [] letter \in {"p", "P"} -> [f EXCEPT !.pathOnly = TRUE]
    [] OTHER -> f

AChecks(f, letters) == Loop(ACheck, f, letters)

\* A size of 0 or less is no size; any number is a limit of the others, and 0 or less lifts it.
Sets(part) ==
  /\ part.key \in LimitKeys /\ part.operand # NotANumber
  /\ part.key \in {"<", ">"} => part.operand > 0

FlagPart(f, part) ==
  CASE part.key = "A" -> AChecks(f, part.operand)
    [] part.key = "N" -> [f EXCEPT !.only = @ \union ({part.operand} \intersect {"m", "u"})]
    [] Sets(part) ->
         [f EXCEPT !.limit[part.key] = IF part.operand = Bare THEN 1 ELSE part.operand]
    [] OTHER -> f

ParseFlags(parts) == Loop(FlagPart, NoFlags, parts)

\* How many parts of a split header are not empty.
Named(parts) == Cardinality({i \in DOMAIN parts : parts[i] # ""})

FollowupGroups(v) ==
  CASE v.followup = <<>> -> Len(v.groups)
    [] v.followup = <<"poster">> -> 0
    [] OTHER -> Named(v.followup)

Exceeds(f, key, n) == f.limit[key] > 0 /\ n > f.limit[key]

\* status of an article's groups: those that exist, with whether they are moderated.
Allows(f, v) ==
  LET follow == FollowupGroups(v)
      known  == v.groups # <<>> /\ \A i \in DOMAIN v.groups : v.groups[i] \in DOMAIN v.status
  IN  /\ f.limit["<"] > 0 => v.bytes < f.limit["<"]
      /\ f.limit[">"] > 0 => v.bytes > f.limit[">"]
      /\ f.control = "exclude" => ~v.control
      /\ f.control = "only" => v.control
      /\ f.distrib => v.distributed
      /\ ~Exceeds(f, "G", Len(v.groups))
      /\ ~Exceeds(f, "U", follow)
      /\ ~Exceeds(f, "C", Len(v.groups) + follow * follow)
      /\ ~Exceeds(f, "H", Named(v.hops))
      /\ f.exist \/ f.only # {} => known
      /\ "m" \in f.only => \A i \in DOMAIN v.groups : v.status[v.groups[i]] = "m"
      /\ "u" \in f.only => \A i \in DOMAIN v.groups : v.status[v.groups[i]] # "m"

-----------------------------------------------------------------------------
(* The Path: a peer that an article has passed is skipped, and one without a host. *)

SkipPeer(p, hops) ==
  LET tokens == IF p.tokens = {} THEN {p.host} ELSE p.tokens IN
    \/ p.host = "" \/ p.host \in OwnHosts
    \/ \E t \in tokens : t \in hops
    \/ ~p.pathOnly /\ (p.host \in hops \/ p.name \in hops)
    \/ p.pathOnly /\ p.host \in hops /\ {p.host} = tokens

-----------------------------------------------------------------------------

FiltersInit == question = [of |-> "nothing"]

Ask(kind, questions) ==
  /\ question.of = "nothing"
  /\ \E q \in questions : question' = [of |-> kind, entry |-> q[1], article |-> q[2]]

FiltersNext ==
  \/ Ask("glob", GlobQuestions)
  \/ Ask("patterns", PatternQuestions)
  \/ Ask("distributions", DistribQuestions)
  \/ Ask("flags", FlagQuestions)
  \/ Ask("path", PathQuestions)

FiltersSpec == FiltersInit /\ [][FiltersNext]_question

-----------------------------------------------------------------------------
(* What they decide, without their loops. *)

\* A text fits a glob if it can be cut into a piece for each of the glob's characters.
Fits(pat, s) ==
  \E cut \in [1..Len(pat) + 1 -> 1..Len(s) + 1] :
    /\ cut[1] = 1 /\ cut[Len(pat) + 1] = Len(s) + 1
    /\ \A i \in 1..Len(pat) :
         IF pat[i] = "*" THEN cut[i] <= cut[i + 1]
         ELSE cut[i + 1] = cut[i] + 1 /\ pat[i] \in {"?", s[cut[i]]}

Matching(wildmat, s) == {i \in DOMAIN wildmat : wildmat[i].glob # <<>> /\ Fits(wildmat[i].glob, s)}
Wants(wildmat, s) ==
  \E i \in Matching(wildmat, s) :
    wildmat[i].mark = "" /\ \A j \in Matching(wildmat, s) : j <= i

Tokens(tokens, neg) == {tokens[i].dist : i \in {j \in DOMAIN tokens : tokens[j].neg = neg}}

\* The last well-formed operand of a limit in a flags field, 0 if it has none.
LastLimit(parts, key) ==
  LET ok(n) == n # NotANumber /\ (key \in {"<", ">"} => n > 0)
      is == {i \in DOMAIN parts : parts[i].key = key /\ ok(parts[i].operand)}
  IN  IF is = {} THEN 0
      ELSE LET n == parts[CHOOSE i \in is : \A j \in is : j <= i].operand
           IN  IF n = Bare THEN 1 ELSE n

AtMost(parts, key, n) == LastLimit(parts, key) > 0 => n <= LastLimit(parts, key)

\* Where some letter of which stands: in which A part, and where in it.
Places(parts, which) ==
  UNION {{<<i, j>> : j \in {k \in DOMAIN parts[i].operand : parts[i].operand[k] \in which}} :
           i \in {k \in DOMAIN parts : parts[k].key = "A"}}
NotAfter(p, q) == p[1] < q[1] \/ (p[1] = q[1] /\ p[2] <= q[2])

\* Of the letters c and C, the last one is letter.
LastOfC(parts, letter) ==
  \E p \in Places(parts, {letter}) : \A q \in Places(parts, {"c", "C"}) : NotAfter(q, p)

Admits(parts, v) ==
  LET follow == IF v.followup = <<"poster">> THEN 0
                ELSE IF v.followup = <<>> THEN Len(v.groups) ELSE Named(v.followup)
      N(which) == \E i \in DOMAIN parts : parts[i].key = "N" /\ parts[i].operand = which
      A(letter) == Places(parts, {letter}) # {}
  IN  /\ AtMost(parts, "<", v.bytes + 1)
      /\ LastLimit(parts, ">") > 0 => v.bytes > LastLimit(parts, ">")
      /\ LastOfC(parts, "c") => ~v.control
      /\ LastOfC(parts, "C") => v.control
      /\ A("d") => v.distributed
      /\ AtMost(parts, "G", Len(v.groups)) /\ AtMost(parts, "U", follow)
      /\ AtMost(parts, "C", Len(v.groups) + follow * follow)
      /\ AtMost(parts, "H", Named(v.hops))
      /\ A("e") \/ N("m") \/ N("u") =>
           /\ v.groups # <<>>
           /\ \A i \in DOMAIN v.groups :
                /\ v.groups[i] \in DOMAIN v.status
                /\ N("m") => v.status[v.groups[i]] = "m"
                /\ N("u") => v.status[v.groups[i]] # "m"

\* However its entry is written and ordered, a peer is offered what the entry says: the last
\* pattern that matches a newsgroup decides, a poisoned group takes the article with it, a
\* distribution that is excluded is never let in by another token for it, the last operand of
\* a limit and the last of Ac and AC win, and an article that passed the peer is not offered.
FiltersDecide ==
  LET e == question.entry
      a == question.article
  IN  CASE question.of = "glob" -> MatchGlob(e, a) <=> Fits(e, a)
        [] question.of = "patterns" ->
             LET w == IF e = <<>> THEN Everything ELSE e
                 poison(g) == \E i \in Matching(w, g) : w[i].mark = "@"
             IN  GroupsWanted(e, a) <=> /\ \E i \in DOMAIN a : Wants(w, a[i])
                                        /\ ~\E i \in DOMAIN a : poison(a[i])
        [] question.of = "distributions" ->
             LET in == Tokens(e, FALSE)
                 ex == Tokens(e, TRUE)
             IN  DistributionWanted(e, a) <=>
                   \/ e = <<>> \/ a = <<>>
                   \/ \E d \in Range(a) \ ({""} \union ex) : d \in in \/ in = {}
        [] question.of = "flags" -> Allows(ParseFlags(e), a) <=> Admits(e, a)
        [] question.of = "path" ->
             SkipPeer(e, a) <=>
               \/ e.host \in OwnHosts \union {""}
               \/ a \intersect (IF e.tokens = {} THEN {e.host} ELSE e.tokens) # {}
               \/ ~e.pathOnly /\ a \intersect {e.host, e.name} # {}
        [] OTHER -> TRUE
=============================================================================
