------------------------------ MODULE Accounts ------------------------------
(***************************************************************************)
(* The accounts of the web portal and the session cookies they are given.  *)
(* A cookie names an account's id and the generation of its sessions;      *)
(* whatever ends the sessions adds one to the generation.  A request reads *)
(* its account once, at its start, and works with that row; an             *)
(* administrator's change of an account reads the whole row in one         *)
(* statement and writes the whole row back in another.  Requests run       *)
(* concurrently, and the command line creates accounts beside them.        *)
(*                                                                         *)
(* A password is the word itself and whether an administrator gave it out. *)
(***************************************************************************)
EXTENDS Naturals, FiniteSets

CONSTANTS
  Names, Words,   \* user names, and the words of passwords
  Requests,       \* concurrent requests to the portal
  Patches,        \* what PATCH /api/users may ask for
  MaxId, MaxGen,  \* bounds on the accounts ever created, on their generations
  MaxCookies,     \* and on the cookies at a time
  NoUser

\* A patch leaves a field out, the empty set, or gives it one value.
Optional(S) == {{}} \union {{x} : x \in S}

Passwords == [word : Words, given : BOOLEAN]
AllPatches == [password : Optional([word : Words, given : {TRUE}]),
               admin : Optional(BOOLEAN), disabled : Optional(BOOLEAN)]
UserRows == [id : 1..MaxId, password : Passwords, admin : BOOLEAN, disabled : BOOLEAN,
         must : BOOLEAN, gen : 0..MaxGen]

ASSUME AccountsAssumption ==
  MaxId \in Nat /\ MaxGen \in Nat /\ NoUser \notin UserRows /\ Patches \subseteq AllPatches

VARIABLES
  users,          \* table users, by name
  nextId,         \* its sequence of ids
  cookies,        \* the cookies browsers hold
  changes,        \* of each id, how often its password was changed
  req             \* what each request has read

accountVars == <<users, nextId, cookies, changes, req>>

NotRequested == [step |-> "idle"]

AccountsInit ==
  /\ users = [n \in Names |-> NoUser]
  /\ nextId = 1
  /\ cookies = {}
  /\ changes = [i \in 1..MaxId |-> 0]
  /\ req = [r \in Requests |-> NotRequested]

Known == {n \in Names : users[n] # NoUser}

\* A cookie opens the session of the account with its id unless the account is gone or
\* disabled, or the generation has moved on.
Opens(c, u) == u # NoUser /\ u.id = c.id /\ ~u.disabled /\ u.gen = c.gen

\* The browsers get a cookie for the row u.
Seal(u) ==
  /\ cookies' = cookies \union {[id |-> u.id, gen |-> u.gen, at |-> changes'[u.id]]}
  /\ Cardinality(cookies') <= MaxCookies

-----------------------------------------------------------------------------
(* Creating accounts. *)

NewUser(w, given, admin, must) ==
  [id |-> nextId, password |-> [word |-> w, given |-> given], admin |-> admin,
   disabled |-> FALSE, must |-> must, gen |-> 0]

\* INSERT INTO users; the name is unique.
CreateUser(n, u) ==
  /\ n \notin Known
  /\ nextId <= MaxId
  /\ users' = [users EXCEPT ![n] = u]
  /\ nextId' = nextId + 1
  /\ UNCHANGED changes

\* POST /api/setup counts the users, reads the form, and creates an administrator.
SetupCounts(r) ==
  /\ req[r] = NotRequested
  /\ Known = {}
  /\ req' = [req EXCEPT ![r] = [step |-> "setup"]]
  /\ UNCHANGED <<users, nextId, cookies, changes>>

SetupCreates(r, n, w) ==
  /\ req[r].step = "setup"
  /\ CreateUser(n, NewUser(w, FALSE, TRUE, FALSE))
  /\ Seal(users'[n])
  /\ req' = [req EXCEPT ![r] = NotRequested]

\* openusenet user add, in a process of its own, and the first administrator that the
\* server creates as it starts.
CommandLineAdds(n, w, admin) ==
  /\ CreateUser(n, NewUser(w, TRUE, admin, TRUE))
  /\ UNCHANGED <<cookies, req>>

BootstrapAdmin(n, w) ==
  /\ Known = {}
  /\ CommandLineAdds(n, w, TRUE)

-----------------------------------------------------------------------------
(* Sessions. *)

\* POST /api/login reads the row of the name, checks it, and seals a cookie for it.
Login(n) ==
  /\ n \in Known
  /\ ~users[n].disabled
  /\ UNCHANGED changes
  /\ Seal(users[n])
  /\ UNCHANGED <<users, nextId, req>>

\* A cookie's time runs out, or its browser logs out.
CookieEnds(c) ==
  /\ cookies' = cookies \ {c}
  /\ UNCHANGED <<users, nextId, changes, req>>

\* withAuth finds the account of the request's cookie and hands the row to the handler.
Authorize(r, c, n) ==
  /\ req[r] = NotRequested
  /\ Opens(c, users[n])
  /\ req' = [req EXCEPT ![r] = [step |-> "acting", name |-> n, who |-> users[n]]]
  /\ UNCHANGED <<users, nextId, cookies, changes>>

\* The handlers only administrators reach, and nobody who must change a password first.
MayAdminister(r) == req[r].step = "acting" /\ req[r].who.admin /\ ~req[r].who.must

\* The request is refused, fails, or its client goes away.
Abandon(r) ==
  /\ req[r] # NotRequested
  /\ req' = [req EXCEPT ![r] = NotRequested]
  /\ UNCHANGED <<users, nextId, cookies, changes>>

-----------------------------------------------------------------------------
(* Changing accounts. *)

\* Mutation of NextGen: a new password leaves the sessions open.
SameGen(u) == u.gen

NextGen(u) == u.gen + 1

\* POST /api/me/password: the current password is checked against the row that withAuth
\* read (the user knows it); one statement writes the new one, and a new cookie is sealed
\* from what it returns, which the browser gets unless the reply is lost.
ChangePassword(r, w) ==
  LET n == req[r].name IN
  /\ req[r].step = "acting"
  /\ n \in Known
  /\ users[n].gen < MaxGen
  /\ users' = [users EXCEPT ![n].password = [word |-> w, given |-> FALSE],
                            ![n].must = FALSE, ![n].gen = NextGen(users[n])]
  /\ changes' = [changes EXCEPT ![users[n].id] = @ + 1]
  /\ Seal(users'[n]) \/ UNCHANGED cookies
  /\ req' = [req EXCEPT ![r] = NotRequested]
  /\ UNCHANGED nextId

AdminCreates(r, n, w, admin) ==
  /\ MayAdminister(r)
  /\ CreateUser(n, NewUser(w, TRUE, admin, TRUE))
  /\ req' = [req EXCEPT ![r] = NotRequested]
  /\ UNCHANGED cookies

Or(new, old) == CHOOSE x \in (IF new = {} THEN {old} ELSE new) : TRUE

\* UpdateUser's first statement reads the row and the changes are applied to it; how far
\* the sessions move on is decided by what was read.
PatchReads(r, n, p) ==
  LET u == users[n]
      reset == p.password # {}
      stops == p.disabled = {TRUE} /\ ~u.disabled
  IN
  /\ MayAdminister(r)
  /\ n \in Known
  /\ req' = [req EXCEPT ![r] =
       [step |-> "patching", name |-> n, reset |-> reset,
        row |-> [u EXCEPT !.password = Or(p.password, @), !.admin = Or(p.admin, @),
                          !.disabled = Or(p.disabled, @), !.must = @ \/ reset],
        bump |-> (IF reset THEN 1 ELSE 0) + (IF stops THEN 1 ELSE 0)]]
  /\ UNCHANGED <<users, nextId, cookies, changes>>

\* Mutation of Written: must_change_password is written only with a new password.
WrittenMustApart(u, q) ==
  [q.row EXCEPT !.id = u.id, !.gen = u.gen + q.bump, !.must = IF q.reset THEN TRUE ELSE u.must]

\* Every column read before is written, over whatever the row of that name holds now.
Written(u, q) == [q.row EXCEPT !.id = u.id, !.gen = u.gen + q.bump]

PatchWrites(r) ==
  LET q == req[r]
      n == q.name
  IN
  /\ q.step = "patching"
  /\ IF n \in Known
     THEN /\ users[n].gen + q.bump <= MaxGen
          /\ users' = [users EXCEPT ![n] = Written(users[n], q)]
          /\ changes' = IF q.reset THEN [changes EXCEPT ![users[n].id] = @ + 1] ELSE changes
     ELSE UNCHANGED <<users, changes>>
  /\ req' = [req EXCEPT ![r] = NotRequested]
  /\ UNCHANGED <<nextId, cookies>>

\* The own account is refused by the name as it was sent, and the store takes blanks off it:
\* with one in front, the own account goes as well.
DeleteUser(r, n) ==
  /\ MayAdminister(r)
  /\ n \in Known
  /\ users' = [users EXCEPT ![n] = NoUser]
  /\ req' = [req EXCEPT ![r] = NotRequested]
  /\ UNCHANGED <<nextId, cookies, changes>>

AccountsNext ==
  \/ \E r \in Requests :
       \/ SetupCounts(r)
       \/ \E n \in Names, w \in Words : SetupCreates(r, n, w)
       \/ \E c \in cookies, n \in Names : Authorize(r, c, n)
       \/ Abandon(r)
       \/ \E w \in Words : ChangePassword(r, w)
       \/ \E n \in Names, w \in Words, admin \in BOOLEAN : AdminCreates(r, n, w, admin)
       \/ \E n \in Names, p \in Patches : PatchReads(r, n, p)
       \/ PatchWrites(r)
       \/ \E n \in Names : DeleteUser(r, n)
  \/ \E n \in Names, w \in Words, admin \in BOOLEAN : CommandLineAdds(n, w, admin)
  \/ \E n \in Names, w \in Words : BootstrapAdmin(n, w)
  \/ \E n \in Names : Login(n)
  \/ \E c \in cookies : CookieEnds(c)

AccountsSpec == AccountsInit /\ [][AccountsNext]_accountVars

-----------------------------------------------------------------------------

RequestStates ==
  {NotRequested, [step |-> "setup"]}
    \union [step : {"acting"}, name : Names, who : UserRows]
    \union [step : {"patching"}, name : Names, reset : BOOLEAN, row : UserRows, bump : 0..2]

\* The types of the accounts, the cookies and the requests under way.
AccountsTypeOK ==
  /\ users \in [Names -> UserRows \union {NoUser}]
  /\ nextId \in 1..(MaxId + 1)
  /\ cookies \subseteq [id : 1..MaxId, gen : 0..MaxGen, at : 0..MaxGen]
  /\ changes \in [1..MaxId -> 0..MaxGen]
  /\ req \in [Requests -> RequestStates]

\* A password that an administrator gave out must be changed, and one the user chose must
\* not, although an administrator's change writes back columns that it read before the user
\* changed the password: the password and the obligation always come from the same row.
GivenPasswordsMustChange ==
  \A n \in Known : users[n].must = users[n].password.given

\* Once a password was changed, by its user or by an administrator, no cookie sealed before
\* opens the account again, whichever older row an administrator's change writes back.
PasswordChangeEndsSessions ==
  \A n \in Names, c \in cookies : Opens(c, users[n]) => c.at = changes[c.id]
=============================================================================
