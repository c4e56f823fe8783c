--------------------------- MODULE PortalProofs -----------------------------
(*************************************************************************)
(* What is proved of the parts that administrators and users of the web  *)
(* portal work with: Accounts, GroupAdmin and WebPosting, each for every *)
(* value of its constants.                                               *)
(*************************************************************************)
EXTENDS Accounts, GroupAdmin, WebPosting, TLAPS

-----------------------------------------------------------------------------
(* Accounts: what the tables and the cookies satisfy.                      *)

TableTypes ==
  /\ users \in [Names -> UserRows \union {NoUser}]
  /\ nextId \in 1..(MaxId + 1)
  /\ cookies \subseteq [id : 1..MaxId, gen : 0..MaxGen, at : 0..MaxGen]
  /\ changes \in [1..MaxId -> 0..MaxGen]

\* An id names one account, was given by the sequence, and was not given again.
IdsAreOwn ==
  /\ \A n \in Known : users[n].id < nextId
  /\ \A n, o \in Known : users[n].id = users[o].id => n = o
  /\ \A c \in cookies : c.id < nextId

\* A generation ends with each change of the password, and maybe at other times; a cookie of
\* the generation an account is in was sealed since the last change.
GenerationsKeepUp ==
  /\ \A i \in 1..MaxId : i >= nextId => changes[i] = 0
  /\ \A n \in Known : changes[users[n].id] <= users[n].gen
  /\ \A n \in Known, c \in cookies :
       users[n].id = c.id =>
         c.gen <= users[n].gen /\ (c.gen = users[n].gen => c.at = changes[c.id])

TableInv == TableTypes /\ IdsAreOwn /\ GenerationsKeepUp /\ GivenPasswordsMustChange

\* The row a patch will write has password and obligation of one row, and a new password
\* comes with a new generation.
RequestInv ==
  /\ req \in [Requests -> RequestStates]
  /\ \A r \in Requests :
       req[r].step = "patching" =>
         /\ req[r].row.must = req[r].row.password.given
         /\ req[r].reset => req[r].bump >= 1

AccountsInv == TableInv /\ RequestInv

LEMMA InitAccountsInv == AccountsInit => AccountsInv
BY AccountsAssumption
DEF AccountsInit, AccountsInv, TableInv, TableTypes, IdsAreOwn, GenerationsKeepUp,
    GivenPasswordsMustChange, Known, RequestInv, RequestStates, NotRequested

LEMMA KnownRows == ASSUME TableTypes, NEW n \in Known PROVE users[n] \in UserRows /\ n \in Names
BY DEF TableTypes, Known

-----------------------------------------------------------------------------
(* The tables. *)

LEMMA CreateKeeps ==
  ASSUME TableInv, NEW n \in Names, NEW u \in UserRows, CreateUser(n, u),
         u.id = nextId, u.gen = 0, u.must = u.password.given,
         cookies' \subseteq cookies \union {[id |-> u.id, gen |-> u.gen, at |-> changes[u.id]]}
  PROVE  TableInv'
<1> USE DEF TableInv
<1>1. /\ n \notin Known /\ nextId \in 1..MaxId /\ changes' = changes
      /\ nextId' = nextId + 1 /\ users' = [users EXCEPT ![n] = u]
  BY AccountsAssumption DEF CreateUser, TableTypes
<1>2. Known' = Known \union {n} /\ users'[n] = u /\ \A o \in Known : users'[o] = users[o]
  BY <1>1, AccountsAssumption DEF Known, TableTypes
<1>3. changes[u.id] = 0
  BY <1>1 DEF GenerationsKeepUp
<1>4. TableTypes'
  BY <1>1, <1>3, AccountsAssumption DEF TableTypes, UserRows
<1>5. \A o \in Known : users[o].id \in 1..MaxId /\ users[o].id < nextId
  BY KnownRows DEF IdsAreOwn, UserRows
<1>6. \A c \in cookies' : \/ c \in cookies /\ c.id \in 1..MaxId /\ c.id < nextId
                          \/ c.id = nextId /\ c.gen = 0 /\ c.at = 0
  BY <1>3 DEF TableTypes, IdsAreOwn
<1>7. IdsAreOwn'
  BY <1>1, <1>2, <1>5, <1>6 DEF IdsAreOwn
<1>8. GenerationsKeepUp'
  <2>1. \A i \in 1..MaxId : i >= nextId' => changes'[i] = 0
    BY <1>1 DEF GenerationsKeepUp
  <2>2. \A o \in Known' : changes'[users'[o].id] <= users'[o].gen
    BY <1>1, <1>2, <1>3 DEF GenerationsKeepUp
  <2>3. ASSUME NEW o \in Known', NEW c \in cookies', users'[o].id = c.id
        PROVE  c.gen <= users'[o].gen /\ (c.gen = users'[o].gen => c.at = changes'[c.id])
    <3>1. CASE o = n
      BY <1>1, <1>2, <1>3, <1>6, <2>3, <3>1
    <3>2. CASE o \in Known /\ o # n
      BY <1>1, <1>2, <1>5, <1>6, <2>3, <3>2 DEF GenerationsKeepUp
    <3> QED
      BY <1>2, <3>1, <3>2
  <2> QED
    BY <2>1, <2>2, <2>3 DEF GenerationsKeepUp
<1>9. GivenPasswordsMustChange'
  BY <1>2 DEF GivenPasswordsMustChange
<1> QED
  BY <1>4, <1>7, <1>8, <1>9

\* A cookie that is dropped, or one sealed for the row as it is.
LEMMA CookiesKeep ==
  ASSUME TableInv, UNCHANGED <<users, nextId, changes>>,
         \/ cookies' \subseteq cookies
         \/ \E n \in Known : cookies' = cookies \union
              {[id |-> users[n].id, gen |-> users[n].gen, at |-> changes[users[n].id]]}
  PROVE  TableInv'
<1> USE DEF TableInv
<1>1. Known' = Known /\ GivenPasswordsMustChange'
  BY DEF Known, GivenPasswordsMustChange
<1>2. CASE cookies' \subseteq cookies
  BY <1>1, <1>2 DEF TableTypes, IdsAreOwn, GenerationsKeepUp
<1>3. ASSUME NEW n \in Known, cookies' = cookies \union
               {[id |-> users[n].id, gen |-> users[n].gen, at |-> changes[users[n].id]]}
      PROVE  TableInv'
  <2>1. users[n] \in UserRows /\ changes[users[n].id] \in 0..MaxGen
    BY KnownRows DEF TableTypes, UserRows
  <2>2. TableTypes'
    BY <1>3, <2>1 DEF TableTypes, UserRows
  <2>3. IdsAreOwn'
    BY <1>1, <1>3 DEF IdsAreOwn
  <2>4. GenerationsKeepUp'
    <3>1. ASSUME NEW o \in Known, NEW c \in cookies', users[o].id = c.id, c \notin cookies
          PROVE  c.gen <= users[o].gen /\ c.at = changes[c.id]
      <4>1. o = n /\ c.gen = users[n].gen /\ c.at = changes[users[n].id]
        BY <1>3, <3>1 DEF IdsAreOwn
      <4> QED
        BY <4>1, <2>1, <3>1 DEF UserRows
    <3> QED
      BY <1>1, <3>1 DEF GenerationsKeepUp
  <2> QED
    BY <1>1, <2>2, <2>3, <2>4
<1> QED
  BY <1>2, <1>3

\* An account's row is replaced by one of the same id: the generation may move on, and does
\* when the password is changed.
LEMMA ReplaceKeeps ==
  ASSUME TableInv, NEW n \in Known, NEW u \in UserRows, NEW pw \in BOOLEAN,
         users' = [users EXCEPT ![n] = u], nextId' = nextId,
         changes' = (IF pw THEN [changes EXCEPT ![users[n].id] = @ + 1] ELSE changes),
         u.id = users[n].id, u.gen >= users[n].gen, pw => u.gen > users[n].gen,
         u.must = u.password.given,
         cookies' \subseteq cookies \union {[id |-> u.id, gen |-> u.gen, at |-> changes'[u.id]]},
         cookies' = cookies \/ pw
  PROVE  TableInv'
<1> USE DEF TableInv
<1>1. users[n] \in UserRows /\ n \in Names /\ u.id \in 1..MaxId /\ users[n].gen \in 0..MaxGen
  BY KnownRows DEF UserRows
<1>2. Known' = Known /\ users'[n] = u /\ \A o \in Known \ {n} : users'[o] = users[o]
  BY <1>1, AccountsAssumption DEF Known, TableTypes
<1>3. /\ changes'[u.id] = changes[u.id] + (IF pw THEN 1 ELSE 0)
      /\ \A i \in 1..MaxId : i # u.id => changes'[i] = changes[i]
      /\ changes[u.id] \in 0..MaxGen /\ changes[u.id] <= users[n].gen
  BY <1>1 DEF TableTypes, GenerationsKeepUp
<1>4. changes'[u.id] <= u.gen /\ changes'[u.id] \in 0..MaxGen /\ u.gen \in 0..MaxGen
  BY <1>1, <1>3, AccountsAssumption DEF UserRows
<1>5. TableTypes'
  <2>1. changes' \in [1..MaxId -> 0..MaxGen]
    BY <1>1, <1>3, <1>4 DEF TableTypes
  <2> QED
    BY <2>1, <1>1, <1>4 DEF TableTypes
<1>6. \A o \in Known : users'[o].id = users[o].id
  BY <1>2
<1>7. \A c \in cookies' : \/ c \in cookies
                          \/ c.id = u.id /\ c.gen = u.gen /\ c.at = changes'[u.id]
  OBVIOUS
<1>8. IdsAreOwn'
  BY <1>2, <1>6, <1>7 DEF IdsAreOwn
<1>9. GenerationsKeepUp'
  <2>1. \A i \in 1..MaxId : i >= nextId' => changes'[i] = 0
    <3>1. u.id < nextId /\ nextId \in Nat
      BY DEF IdsAreOwn, TableTypes
    <3> QED
      BY <1>1, <1>3, <3>1 DEF GenerationsKeepUp
  <2>2. ASSUME NEW o \in Known
        PROVE  changes'[users'[o].id] <= users'[o].gen
    <3>1. CASE o = n
      BY <1>2, <1>4, <3>1
    <3>2. CASE o # n
      <4>1. users[o].id # u.id /\ users[o].id \in 1..MaxId
        BY <3>2, KnownRows DEF IdsAreOwn, UserRows
      <4> QED
        BY <1>2, <1>3, <3>2, <4>1 DEF GenerationsKeepUp
    <3> QED
      BY <3>1, <3>2
  <2>3. ASSUME NEW o \in Known, NEW c \in cookies', users'[o].id = c.id
        PROVE  c.gen <= users'[o].gen /\ (c.gen = users'[o].gen => c.at = changes'[c.id])
    <3>1. CASE o = n
      <4>1. CASE c \in cookies
        <5>1. c.gen \in 0..MaxGen /\ c.gen <= users[n].gen
              /\ (c.gen = users[n].gen => c.at = changes[c.id])
          BY <2>3, <3>1, <4>1, <1>2 DEF GenerationsKeepUp, TableTypes
        <5> QED
          BY <5>1, <1>1, <1>2, <1>3, <1>4, <2>3, <3>1
      <4>2. CASE c \notin cookies
        BY <4>2, <1>2, <1>4, <1>7, <3>1
      <4> QED
        BY <4>1, <4>2
    <3>2. CASE o # n
      <4>1. users[o].id # u.id /\ users'[o] = users[o] /\ users[o].id \in 1..MaxId
        BY <1>2, <3>2, KnownRows DEF IdsAreOwn, UserRows
      <4>2. c \in cookies
        BY <1>7, <2>3, <4>1
      <4> QED
        BY <1>3, <2>3, <4>1, <4>2 DEF GenerationsKeepUp
    <3> QED
      BY <3>1, <3>2
  <2> QED
    BY <1>2, <2>1, <2>2, <2>3 DEF GenerationsKeepUp
<1>10. GivenPasswordsMustChange'
  BY <1>2 DEF GivenPasswordsMustChange
<1> QED
  BY <1>5, <1>8, <1>9, <1>10

LEMMA DeleteKeeps ==
  ASSUME TableInv, NEW n \in Known, users' = [users EXCEPT ![n] = NoUser],
         UNCHANGED <<nextId, cookies, changes>>
  PROVE  TableInv'
<1>1. Known' = Known \ {n} /\ \A o \in Known' : users'[o] = users[o]
  BY DEF Known, TableInv, TableTypes
<1>2. Known \subseteq Names /\ Known' \subseteq Known
  BY <1>1 DEF Known
<1>3. TableTypes'
  BY DEF TableInv, TableTypes
<1>4. IdsAreOwn'
  BY <1>1, <1>2 DEF TableInv, IdsAreOwn
<1>5. GenerationsKeepUp'
  BY <1>1, <1>2 DEF TableInv, GenerationsKeepUp
<1>6. GivenPasswordsMustChange'
  BY <1>1, <1>2 DEF TableInv, GivenPasswordsMustChange
<1> QED
  BY <1>3, <1>4, <1>5, <1>6 DEF TableInv

-----------------------------------------------------------------------------
(* The requests. *)

LEMMA RequestKeeps ==
  ASSUME RequestInv, NEW r \in Requests, NEW q \in RequestStates,
         req' = [req EXCEPT ![r] = q],
         q.step = "patching" => /\ q.row.must = q.row.password.given
                                /\ q.reset => q.bump >= 1
  PROVE  RequestInv'
BY DEF RequestInv

LEMMA RequestEndKeeps ==
  ASSUME RequestInv, NEW r \in Requests, req' = [req EXCEPT ![r] = NotRequested]
  PROVE  RequestInv'
<1>1. NotRequested \in RequestStates /\ NotRequested.step # "patching"
  BY DEF RequestStates, NotRequested
<1> QED
  BY <1>1, RequestKeeps

LEMMA PatchingRow ==
  ASSUME RequestInv, NEW r \in Requests, req[r].step = "patching"
  PROVE  req[r] \in [step : {"patching"}, name : Names, reset : BOOLEAN, row : UserRows,
                     bump : 0..2]
BY DEF RequestInv, RequestStates, NotRequested

LEMMA ActingRow ==
  ASSUME RequestInv, NEW r \in Requests, req[r].step = "acting"
  PROVE  req[r].name \in Names
BY DEF RequestInv, RequestStates, NotRequested

\* A field that is given has one value, and keeps its type.
LEMMA OrGives ==
  ASSUME NEW S, NEW new \in Optional(S), NEW old
  PROVE  IF new = {} THEN Or(new, old) = old ELSE Or(new, old) \in S /\ new = {Or(new, old)}
BY DEF Optional, Or

LEMMA PatchReadsKeeps ==
  ASSUME AccountsInv, NEW r \in Requests, NEW n \in Names, NEW p \in Patches,
         PatchReads(r, n, p)
  PROVE  RequestInv'
<1> DEFINE u == users[n]
           reset == p.password # {}
           stops == p.disabled = {TRUE} /\ ~u.disabled
           row == [u EXCEPT !.password = Or(p.password, @), !.admin = Or(p.admin, @),
                            !.disabled = Or(p.disabled, @), !.must = @ \/ reset]
           bump == (IF reset THEN 1 ELSE 0) + (IF stops THEN 1 ELSE 0)
           q == [step |-> "patching", name |-> n, reset |-> reset, row |-> row, bump |-> bump]
<1>1. n \in Known /\ req' = [req EXCEPT ![r] = q]
  BY DEF PatchReads
<1>2. u \in UserRows /\ u.must = u.password.given
  BY <1>1, KnownRows DEF AccountsInv, TableInv, GivenPasswordsMustChange
<1>3. p \in AllPatches
  BY AccountsAssumption
<1>4. /\ Or(p.password, u.password) \in Passwords
      /\ IF reset THEN Or(p.password, u.password).given = TRUE
                  ELSE Or(p.password, u.password) = u.password
  <2>1. p.password \in Optional([word : Words, given : {TRUE}])
    BY <1>3 DEF AllPatches
  <2>2. IF p.password = {} THEN Or(p.password, u.password) = u.password
                           ELSE Or(p.password, u.password) \in [word : Words, given : {TRUE}]
    <3> DEFINE S == [word : Words, given : {TRUE}]
    <3>1. p.password \in Optional(S)
      BY <2>1
    <3> HIDE DEF S
    <3>2. IF p.password = {} THEN Or(p.password, u.password) = u.password
                             ELSE Or(p.password, u.password) \in S
      BY <3>1, OrGives
    <3> QED
      BY <3>2 DEF S
  <2> QED
    BY <1>2, <2>2 DEF UserRows, Passwords
<1>5. Or(p.admin, u.admin) \in BOOLEAN /\ Or(p.disabled, u.disabled) \in BOOLEAN
  BY <1>2, <1>3, OrGives DEF AllPatches, UserRows
<1>6. row \in UserRows
  BY <1>2, <1>4, <1>5 DEF UserRows
<1>7. row.must = row.password.given
  BY <1>2, <1>4 DEF UserRows
<1>8. bump \in 0..2 /\ (reset => bump >= 1)
  <2> HIDE DEF reset, stops
  <2> QED
    OBVIOUS
<1>9. q \in RequestStates
  BY <1>6, <1>8 DEF RequestStates
<1> QED
  <2> HIDE DEF row, bump, reset
  <2> QED
    BY <1>1, <1>7, <1>8, <1>9, RequestKeeps DEF AccountsInv

-----------------------------------------------------------------------------
(* The steps. *)

LEMMA NewUserRow ==
  ASSUME TableTypes, nextId <= MaxId, NEW w \in Words, NEW given \in BOOLEAN,
         NEW admin \in BOOLEAN
  PROVE  /\ NewUser(w, given, admin, given) \in UserRows
         /\ NewUser(w, given, admin, given).id = nextId
         /\ NewUser(w, given, admin, given).gen = 0
BY AccountsAssumption DEF NewUser, UserRows, Passwords, TableTypes

LEMMA CreatesKeep ==
  ASSUME AccountsInv, NEW n \in Names, NEW w \in Words, NEW admin \in BOOLEAN,
         \/ CommandLineAdds(n, w, admin) \/ BootstrapAdmin(n, w)
         \/ \E r \in Requests : SetupCreates(r, n, w) \/ AdminCreates(r, n, w, admin)
  PROVE  AccountsInv'
<1>1. ASSUME NEW a \in BOOLEAN, CreateUser(n, NewUser(w, TRUE, a, TRUE)), cookies' = cookies
      PROVE  TableInv'
  <2>1. TableInv /\ nextId <= MaxId /\ TRUE = NewUser(w, TRUE, a, TRUE).must
        /\ NewUser(w, TRUE, a, TRUE).password.given = TRUE
    BY <1>1 DEF AccountsInv, CreateUser, NewUser
  <2> QED
    BY <1>1, <2>1, NewUserRow, CreateKeeps DEF TableInv
<1>2. ASSUME NEW r \in Requests, SetupCreates(r, n, w)
      PROVE  AccountsInv'
  <2> DEFINE u == NewUser(w, FALSE, TRUE, FALSE)
  <2>1. /\ TableInv /\ nextId <= MaxId /\ CreateUser(n, u) /\ u.must = u.password.given
        /\ users'[n] = u /\ changes' = changes
    BY <1>2 DEF AccountsInv, TableInv, TableTypes, SetupCreates, CreateUser, NewUser
  <2>2. cookies' = cookies \union {[id |-> u.id, gen |-> u.gen, at |-> changes[u.id]]}
    BY <1>2, <2>1 DEF SetupCreates, Seal
  <2>3. u \in UserRows /\ u.id = nextId /\ u.gen = 0
    BY <2>1, NewUserRow DEF TableInv
  <2>4. TableInv'
    <3> HIDE DEF u
    <3> QED
      BY <2>1, <2>2, <2>3, CreateKeeps
  <2> QED
    BY <1>2, <2>4, RequestEndKeeps DEF SetupCreates, AccountsInv
<1>3. ASSUME NEW r \in Requests, AdminCreates(r, n, w, admin)
      PROVE  AccountsInv'
  BY <1>1, <1>3, RequestEndKeeps DEF AdminCreates, AccountsInv
<1>4. ASSUME NEW a \in BOOLEAN, CommandLineAdds(n, w, a)
      PROVE  AccountsInv'
  BY <1>1, <1>4 DEF CommandLineAdds, AccountsInv, RequestInv
<1> QED
  BY <1>2, <1>3, <1>4 DEF BootstrapAdmin

LEMMA ChangePasswordKeeps ==
  ASSUME AccountsInv, NEW r \in Requests, NEW w \in Words, ChangePassword(r, w)
  PROVE  AccountsInv'
<1> DEFINE n == req[r].name
           u == [users[n] EXCEPT !.password = [word |-> w, given |-> FALSE], !.must = FALSE,
                                 !.gen = NextGen(users[n])]
<1>1. n \in Known /\ users[n] \in UserRows /\ n \in Names
  BY KnownRows DEF ChangePassword, AccountsInv, TableInv
<1>2. users' = [users EXCEPT ![n] = u]
  BY <1>1 DEF ChangePassword, AccountsInv, TableInv, TableTypes
<1>3. /\ u \in UserRows /\ u.id = users[n].id /\ u.gen > users[n].gen
      /\ u.must = u.password.given
  <2>1. users[n].gen < MaxGen /\ NextGen(users[n]) = users[n].gen + 1
    BY DEF ChangePassword, NextGen
  <2>2. NextGen(users[n]) \in 0..MaxGen /\ NextGen(users[n]) > users[n].gen
    BY <1>1, <2>1, AccountsAssumption DEF UserRows
  <2>3. [word |-> w, given |-> FALSE] \in Passwords
    BY DEF Passwords
  <2> QED
    BY <1>1, <2>2, <2>3 DEF UserRows
<1>4. changes' = [changes EXCEPT ![users[n].id] = @ + 1] /\ nextId' = nextId
  BY DEF ChangePassword
<1>5. users'[n] = u
  BY <1>1, <1>2 DEF AccountsInv, TableInv, TableTypes
<1>6. cookies' \subseteq cookies \union {[id |-> u.id, gen |-> u.gen, at |-> changes'[u.id]]}
  BY <1>5 DEF ChangePassword, Seal
<1>7. TableInv'
  <2> HIDE DEF u, n
  <2>1. u.gen >= users[n].gen
    BY <1>1, <1>3 DEF UserRows
  <2> QED
    BY <1>1, <1>2, <1>3, <1>4, <1>6, <2>1, ReplaceKeeps DEF AccountsInv
<1> QED
  BY <1>7, RequestEndKeeps DEF ChangePassword, AccountsInv

LEMMA PatchWritesKeeps ==
  ASSUME AccountsInv, NEW r \in Requests, PatchWrites(r)
  PROVE  AccountsInv'
<1> DEFINE q == req[r]
           n == q.name
           u == Written(users[n], q)
<1>1. q \in [step : {"patching"}, name : Names, reset : BOOLEAN, row : UserRows, bump : 0..2]
  BY PatchingRow DEF PatchWrites, AccountsInv
<1>2. q.row.must = q.row.password.given /\ (q.reset => q.bump >= 1)
  BY DEF PatchWrites, AccountsInv, RequestInv
<1>3. RequestInv'
  BY RequestEndKeeps DEF PatchWrites, AccountsInv
<1>4. CASE n \notin Known
  <2>1. UNCHANGED <<users, nextId, cookies, changes>>
    BY <1>4 DEF PatchWrites
  <2> QED
    BY <1>3, <2>1, CookiesKeep DEF AccountsInv
<1>5. CASE n \in Known
  <2>1. users[n] \in UserRows /\ users[n].gen + q.bump <= MaxGen
    BY <1>5, KnownRows DEF PatchWrites, AccountsInv, TableInv
  <2>2. u \in UserRows /\ u.id = users[n].id /\ u.gen = users[n].gen + q.bump
        /\ u.must = u.password.given
    <3>1. q.bump \in 0..2 /\ q.row \in UserRows
      BY <1>1
    <3>2. users[n].gen + q.bump \in 0..MaxGen /\ users[n].id \in 1..MaxId
      BY <2>1, <3>1, AccountsAssumption DEF UserRows
    <3>3. u = [q.row EXCEPT !.id = users[n].id, !.gen = users[n].gen + q.bump]
      BY DEF Written
    <3> HIDE DEF q, n, u
    <3> QED
      BY <1>2, <3>1, <3>2, <3>3 DEF UserRows
  <2>3. u.gen >= users[n].gen /\ (q.reset => u.gen > users[n].gen) /\ q.reset \in BOOLEAN
    BY <1>1, <1>2, <2>1, <2>2 DEF UserRows
  <2>4. /\ users' = [users EXCEPT ![n] = u] /\ nextId' = nextId /\ cookies' = cookies
        /\ changes' = (IF q.reset THEN [changes EXCEPT ![users[n].id] = @ + 1] ELSE changes)
    BY <1>5 DEF PatchWrites
  <2>5. TableInv'
    <3> HIDE DEF u, n, q
    <3> QED
      BY <1>5, <2>2, <2>3, <2>4, ReplaceKeeps DEF AccountsInv
  <2> QED
    BY <1>3, <2>5 DEF AccountsInv
<1> QED
  BY <1>4, <1>5

LEMMA RequestsKeep ==
  ASSUME AccountsInv, NEW r \in Requests,
         \/ SetupCounts(r) \/ Abandon(r)
         \/ \E c \in cookies, n \in Names : Authorize(r, c, n)
         \/ \E n \in Names, p \in Patches : PatchReads(r, n, p)
  PROVE  AccountsInv'
<1>1. UNCHANGED <<users, nextId, cookies, changes>>
  BY DEF SetupCounts, Abandon, Authorize, PatchReads
<1>2. TableInv'
  BY <1>1, CookiesKeep DEF AccountsInv
<1>3. CASE SetupCounts(r)
  <2> DEFINE q == [step |-> "setup"]
  <2>1. q \in RequestStates /\ q.step # "patching"
    BY DEF RequestStates
  <2>2. req' = [req EXCEPT ![r] = q] /\ RequestInv
    BY <1>3 DEF SetupCounts, AccountsInv
  <2> HIDE DEF q
  <2> QED
    BY <1>2, <2>1, <2>2, RequestKeeps DEF AccountsInv
<1>4. ASSUME NEW c \in cookies, NEW n \in Names, Authorize(r, c, n)
      PROVE  RequestInv'
  <2>1. n \in Known /\ users[n] \in UserRows
    BY <1>4 DEF Authorize, Opens, Known, AccountsInv, TableInv, TableTypes
  <2> DEFINE q == [step |-> "acting", name |-> n, who |-> users[n]]
  <2>2. q \in RequestStates /\ q.step # "patching"
    BY <2>1 DEF RequestStates
  <2>3. req' = [req EXCEPT ![r] = q] /\ RequestInv
    BY <1>4 DEF Authorize, AccountsInv
  <2> HIDE DEF q
  <2> QED
    BY <2>2, <2>3, RequestKeeps
<1>5. CASE Abandon(r)
  BY <1>2, <1>5, RequestEndKeeps DEF Abandon, AccountsInv
<1> QED
  BY <1>2, <1>3, <1>4, <1>5, PatchReadsKeeps DEF AccountsInv

LEMMA NextAccountsInv == AccountsInv /\ [AccountsNext]_accountVars => AccountsInv'
<1> SUFFICES ASSUME AccountsInv, [AccountsNext]_accountVars
             PROVE  AccountsInv'
  OBVIOUS
<1>1. ASSUME NEW n \in Names, Login(n)
      PROVE  AccountsInv'
  BY <1>1, CookiesKeep DEF Login, Seal, AccountsInv, RequestInv
<1>2. ASSUME NEW c \in cookies, CookieEnds(c)
      PROVE  AccountsInv'
  <2>1. cookies' \subseteq cookies /\ UNCHANGED <<users, nextId, changes, req>>
    BY <1>2 DEF CookieEnds
  <2> QED
    BY <2>1, CookiesKeep DEF AccountsInv, RequestInv
<1>3. ASSUME NEW r \in Requests, NEW n \in Names, DeleteUser(r, n)
      PROVE  AccountsInv'
  BY <1>3, DeleteKeeps, RequestEndKeeps DEF DeleteUser, AccountsInv
<1>4. CASE UNCHANGED accountVars
  BY <1>4, CookiesKeep DEF accountVars, AccountsInv, RequestInv
<1> QED
  BY <1>1, <1>2, <1>3, <1>4, CreatesKeep, RequestsKeep, ChangePasswordKeeps, PatchWritesKeeps
  DEF AccountsNext

-----------------------------------------------------------------------------

\* Whichever requests run at the same time, and although UpdateUser (postgres_auth.go:91)
\* writes back columns it read in a statement before, password and obligation to change it
\* always come from one row.
THEOREM MustChangeFollowsPassword == AccountsSpec => []GivenPasswordsMustChange
<1>1. AccountsInv => GivenPasswordsMustChange
  BY DEF AccountsInv, TableInv
<1> QED
  BY <1>1, InitAccountsInv, NextAccountsInv, PTL DEF AccountsSpec

\* No cookie outlives a change of the password: UpdateUser adds to the generation the row has
\* when it writes, not to the one it read.
THEOREM SessionsEndWithPassword == AccountsSpec => []PasswordChangeEndsSessions
<1>1. AccountsInv => PasswordChangeEndsSessions
  <2> SUFFICES ASSUME AccountsInv, NEW n \in Names, NEW c \in cookies, Opens(c, users[n])
               PROVE  c.at = changes[c.id]
    BY DEF PasswordChangeEndsSessions
  <2> QED
    BY DEF AccountsInv, TableInv, GenerationsKeepUp, Known, Opens
<1> QED
  BY <1>1, InitAccountsInv, NextAccountsInv, PTL DEF AccountsSpec

\* Accounts, cookies and requests keep their types: a patch writes a row of the table even
\* where the account it read was deleted and made again (postgres_auth.go:91).
THEOREM AccountsTypeCorrect == AccountsSpec => []AccountsTypeOK
<1>1. AccountsInv => AccountsTypeOK
  BY DEF AccountsInv, TableInv, TableTypes, RequestInv, AccountsTypeOK
<1> QED
  BY <1>1, InitAccountsInv, NextAccountsInv, PTL DEF AccountsSpec

-----------------------------------------------------------------------------
(* GroupAdmin: the list of groups and its origins.                         *)

\* What checkgroups has left of a message are entries of the message.
EntriesLeft ==
  \A s \in ControlSessions :
    control[s].step = "apply" => control[s].left \subseteq DOMAIN control[s].msg.entries

\* RmgroupStands is inductive together with the types: they say that a row has an origin,
\* which imports look at, and that the group a session is about to insert is a group.
GroupInv == GroupTypeOK /\ EntriesLeft /\ RmgroupStands

LEMMA InitGroupInv == GroupInit => GroupInv
BY DEF GroupInit, GroupInv, GroupTypeOK, EntriesLeft, RmgroupStands, NoControl, ControlSteps

-----------------------------------------------------------------------------
(* The statements that write rows. *)

Rows == [ActiveGroups -> ActiveRows \union {NoRow}]

LEMMA DisabledKeeps ==
  ASSUME GroupInv, NEW g \in ActiveGroups, active' = Disabled(g),
         removed' = removed \/ removed' = removed \union {g}
  PROVE  active' \in Rows /\ removed' \subseteq ActiveGroups /\ RmgroupStands'
BY DEF GroupInv, GroupTypeOK, RmgroupStands, Disabled, ActiveRows, ActiveStatuses, Rows

LEMMA AskedForKeeps ==
  ASSUME GroupInv, NEW g \in ActiveGroups, NEW status \in ActiveStatuses,
         ApplyControlGroup(g, status) \/ EnsureActive(g, status)
  PROVE  active' \in Rows /\ removed' \subseteq ActiveGroups /\ RmgroupStands'
BY DEF GroupInv, GroupTypeOK, RmgroupStands, ApplyControlGroup, EnsureActive, ActiveRows, Rows

\* An import leaves alone what an rmgroup wrote: its origin is "control".
LEMMA ImportKeeps ==
  ASSUME GroupInv, NEW list \in IscLists, IscImport(list)
  PROVE  GroupInv'
<1>1. active' \in Rows
  BY GroupsAssumption DEF GroupInv, GroupTypeOK, IscImport, ActiveRows, Rows
<1>2. ASSUME NEW g \in removed
      PROVE  active'[g] = [status |-> "n", origin |-> "control"]
  <2>1. g \in ActiveGroups /\ active[g] = [status |-> "n", origin |-> "control"]
    BY DEF GroupInv, GroupTypeOK, RmgroupStands
  <2>2. ~Importable(g)
    BY <2>1, GroupsAssumption DEF Importable, Listed, ActiveRows, ActiveStatuses
  <2> QED
    BY <2>1, <2>2 DEF IscImport
<1> QED
  BY <1>1, <1>2 DEF IscImport, GroupInv, GroupTypeOK, EntriesLeft, RmgroupStands, Rows

-----------------------------------------------------------------------------
(* Control messages. *)

LEMMA RmgroupKeeps ==
  ASSUME GroupInv, NEW s \in ControlSessions,
         (\E g \in ActiveGroups : RmgroupUpdates(s, g)) \/ RmgroupInserts(s)
  PROVE  GroupInv'
<1>1. ASSUME NEW g \in ActiveGroups, RmgroupUpdates(s, g)
      PROVE  GroupInv'
  <2>1. control' \in [ControlSessions -> ControlSteps] /\ EntriesLeft'
    BY <1>1 DEF RmgroupUpdates, GroupInv, GroupTypeOK, EntriesLeft, ControlSteps
  <2>2. CASE Listed(g)
    BY <1>1, <2>1, <2>2, DisabledKeeps
    DEF RmgroupUpdates, GroupInv, GroupTypeOK, Rows
  <2>3. CASE ~Listed(g)
    BY <1>1, <2>1, <2>3 DEF RmgroupUpdates, GroupInv, GroupTypeOK, RmgroupStands
  <2> QED
    BY <2>2, <2>3
<1>2. CASE RmgroupInserts(s)
  <2>1. control[s].group \in ActiveGroups
    BY <1>2 DEF RmgroupInserts, GroupInv, GroupTypeOK, ControlSteps
  <2>2. control' \in [ControlSessions -> ControlSteps] /\ EntriesLeft'
    BY <1>2 DEF RmgroupInserts, GroupInv, GroupTypeOK, EntriesLeft, ControlSteps, NoControl
  <2> QED
    BY <1>2, <2>1, <2>2, DisabledKeeps
    DEF RmgroupInserts, DisabledUnknown, GroupInv, GroupTypeOK, Rows
<1> QED
  BY <1>1, <1>2

\* The steps of checkgroups that only read.
LEMMA CheckgroupsReadsKeep ==
  ASSUME GroupInv, NEW s \in ControlSessions,
         \/ \E msg \in Checkgroups : CheckgroupsBegins(s, msg)
         \/ CheckgroupsLists(s) \/ ControlEnds(s)
  PROVE  GroupInv'
<1>1. ASSUME NEW msg \in Checkgroups, CheckgroupsBegins(s, msg)
      PROVE  control' \in [ControlSessions -> ControlSteps] /\ EntriesLeft'
  <2>1. [step |-> "apply", msg |-> msg, left |-> DOMAIN msg.entries] \in ControlSteps
    BY GroupsAssumption DEF ControlSteps
  <2> QED
    BY <1>1, <2>1 DEF CheckgroupsBegins, GroupInv, GroupTypeOK, EntriesLeft
<1>2. ASSUME CheckgroupsLists(s)
      PROVE  control' \in [ControlSessions -> ControlSteps] /\ EntriesLeft'
  <2>1. control[s].msg \in Checkgroups
    BY <1>2 DEF CheckgroupsLists, GroupInv, GroupTypeOK, ControlSteps
  <2>2. Unmentioned(control[s].msg) \subseteq ActiveGroups
    BY <2>1, GroupsAssumption DEF Unmentioned
  <2>3. [step |-> "disable", left |-> Unmentioned(control[s].msg)] \in ControlSteps
    BY <2>2 DEF ControlSteps
  <2> QED
    BY <1>2, <2>3 DEF CheckgroupsLists, GroupInv, GroupTypeOK, EntriesLeft
<1>3. ASSUME ControlEnds(s)
      PROVE  control' \in [ControlSessions -> ControlSteps] /\ EntriesLeft'
  BY <1>3 DEF ControlEnds, GroupInv, GroupTypeOK, EntriesLeft, ControlSteps, NoControl
<1>4. UNCHANGED <<active, seeding, removed>>
  BY DEF CheckgroupsBegins, CheckgroupsLists, ControlEnds
<1> QED
  BY <1>1, <1>2, <1>3, <1>4 DEF GroupInv, GroupTypeOK, RmgroupStands

\* The steps of checkgroups that write a row.
LEMMA CheckgroupsWritesKeep ==
  ASSUME GroupInv, NEW s \in ControlSessions,
         \/ \E g \in ActiveGroups : CheckgroupsApplies(s, g) \/ CheckgroupsDisables(s, g)
         \/ CheckgroupsInserts(s)
  PROVE  GroupInv'
<1>1. ASSUME NEW g \in ActiveGroups, CheckgroupsApplies(s, g)
      PROVE  GroupInv'
  <2>1. /\ control[s] \in [step : {"apply"}, msg : Checkgroups, left : SUBSET ActiveGroups]
        /\ g \in DOMAIN control[s].msg.entries
    BY <1>1 DEF CheckgroupsApplies, GroupInv, GroupTypeOK, EntriesLeft, ControlSteps
  <2>2. [control[s] EXCEPT !.left = @ \ {g}] \in ControlSteps
    BY <2>1 DEF ControlSteps
  <2>3. control' \in [ControlSessions -> ControlSteps] /\ EntriesLeft'
    BY <1>1, <2>1, <2>2 DEF CheckgroupsApplies, GroupInv, GroupTypeOK, EntriesLeft
  <2>4. control[s].msg.entries[g] \in ActiveStatuses
    BY <2>1, GroupsAssumption
  <2> QED
    BY <1>1, <2>3, <2>4, AskedForKeeps
    DEF CheckgroupsApplies, GroupInv, GroupTypeOK, Rows
<1>2. ASSUME NEW g \in ActiveGroups, CheckgroupsDisables(s, g)
      PROVE  GroupInv'
  <2>1. control[s] \in [step : {"disable"}, left : SUBSET ActiveGroups]
    BY <1>2 DEF CheckgroupsDisables, GroupInv, GroupTypeOK, ControlSteps
  <2>2. /\ [control[s] EXCEPT !.left = @ \ {g}] \in ControlSteps
        /\ [step |-> "restore", group |-> g, left |-> control[s].left] \in ControlSteps
    BY <2>1 DEF ControlSteps
  <2>3. control' \in [ControlSessions -> ControlSteps] /\ EntriesLeft'
    <3>1. PICK step \in ControlSteps : /\ control' = [control EXCEPT ![s] = step]
                                      /\ step.step # "apply"
      BY <1>2, <2>1, <2>2 DEF CheckgroupsDisables
    <3> QED
      BY <3>1 DEF GroupInv, GroupTypeOK, EntriesLeft
  <2>4. CASE Listed(g)
    BY <1>2, <2>3, <2>4, DisabledKeeps
    DEF CheckgroupsDisables, GroupInv, GroupTypeOK, Rows
  <2>5. CASE ~Listed(g)
    BY <1>2, <2>3, <2>5 DEF CheckgroupsDisables, GroupInv, GroupTypeOK, RmgroupStands
  <2> QED
    BY <2>4, <2>5
<1>3. CASE CheckgroupsInserts(s)
  <2>1. control[s] \in [step : {"restore"}, group : ActiveGroups, left : SUBSET ActiveGroups]
    BY <1>3 DEF CheckgroupsInserts, GroupInv, GroupTypeOK, ControlSteps
  <2>2. [step |-> "disable", left |-> control[s].left \ {control[s].group}] \in ControlSteps
    BY <2>1 DEF ControlSteps
  <2>3. control' \in [ControlSessions -> ControlSteps] /\ EntriesLeft'
    BY <1>3, <2>1, <2>2 DEF CheckgroupsInserts, GroupInv, GroupTypeOK, EntriesLeft
  <2> QED
    BY <1>3, <2>1, <2>3, DisabledKeeps
    DEF CheckgroupsInserts, DisabledUnknown, GroupInv, GroupTypeOK, Rows
<1> QED
  BY <1>1, <1>2, <1>3

-----------------------------------------------------------------------------

LEMMA NextGroupInv == GroupInv /\ [GroupNext]_activeVars => GroupInv'
<1> SUFFICES ASSUME GroupInv, [GroupNext]_activeVars
             PROVE  GroupInv'
  OBVIOUS
<1>1. ASSUME NEW s \in ControlSessions, NEW g \in ActiveGroups, NEW status \in {"y", "m"},
             NewgroupApplied(s, g, status)
      PROVE  GroupInv'
  BY <1>1, AskedForKeeps
  DEF NewgroupApplied, ActiveStatuses, GroupInv, GroupTypeOK, EntriesLeft, Rows
<1>2. ASSUME NEW g \in ActiveGroups, NEW status \in ActiveStatuses, AdminEnsures(g, status)
      PROVE  GroupInv'
  BY <1>2, AskedForKeeps DEF AdminEnsures, GroupInv, GroupTypeOK, EntriesLeft, Rows
<1>3. ASSUME NEW g \in ActiveGroups, DeletesGroup(g)
      PROVE  GroupInv'
  BY <1>3 DEF DeletesGroup, GroupInv, GroupTypeOK, EntriesLeft, RmgroupStands
<1>4. ASSUME NEW g \in BuiltinGroups, SeedMisses(g)
      PROVE  GroupInv'
  BY <1>4 DEF SeedMisses, GroupInv, GroupTypeOK, EntriesLeft, RmgroupStands
<1>5. ASSUME NEW g \in BuiltinGroups, SeedEnsures(g)
      PROVE  GroupInv'
  <2>1. g \in ActiveGroups /\ "y" \in ActiveStatuses
    BY GroupsAssumption DEF ActiveStatuses
  <2>2. CASE EnsureActive(g, "y")
    BY <1>5, <2>1, <2>2, AskedForKeeps
    DEF SeedEnsures, GroupInv, GroupTypeOK, EntriesLeft, Rows
  <2>3. CASE UNCHANGED <<active, removed>>
    BY <1>5, <2>3 DEF SeedEnsures, GroupInv, GroupTypeOK, EntriesLeft, RmgroupStands
  <2> QED
    BY <1>5, <2>2, <2>3 DEF SeedEnsures
<1>6. CASE UNCHANGED activeVars
  BY <1>6 DEF activeVars, GroupInv, GroupTypeOK, EntriesLeft, RmgroupStands
<1> QED
  BY <1>1, <1>2, <1>3, <1>4, <1>5, <1>6, RmgroupKeeps, CheckgroupsReadsKeep,
     CheckgroupsWritesKeep, ImportKeeps
  DEF GroupNext

\* Whatever control messages, imports, administrators and starts do at the same time, a group
\* that an rmgroup removed stays disabled until it is asked for by name or deleted: the row
\* that DisableControlGroup (postgres.go:289) writes is one no import may write.
THEOREM RemovedStaysRemoved == GroupSpec => []RmgroupStands
<1>1. GroupInv => RmgroupStands
  BY DEF GroupInv
<1> QED
  BY <1>1, InitGroupInv, NextGroupInv, PTL DEF GroupSpec

\* The list of groups, and the steps a control message has come to, keep their types: between
\* its statements a session goes on with groups of the list only (postgres.go:275-300).
THEOREM GroupTypeCorrect == GroupSpec => []GroupTypeOK
<1>1. GroupInv => GroupTypeOK
  BY DEF GroupInv
<1> QED
  BY <1>1, InitGroupInv, NextGroupInv, PTL DEF GroupSpec

-----------------------------------------------------------------------------
(* WebPosting: the quota and moderation.                                   *)

Header == Seq(WebGroups) \ {<<>>}

\* What a request may be at.
WebStates ==
  {NoRequest}
    \union [step : {"moderation", "charge", "store"}, groups : Header, turned : SUBSET WebGroups]
    \union [step : {"charging"}, groups : Header, turned : SUBSET WebGroups, count : 0..DailyLimit]
    \union [step : {"note", "limit", "alert", "newalert"}, groups : Header,
            turned : SUBSET WebGroups, used : SUBSET WebGroups]

Charging(r) == webPost[r].step = "charging"
Locks(r) == Charging(r) /\ webPost[r].count > 0
FoundNone(r) == Charging(r) /\ webPost[r].count = 0

\* A request that has locked the user's row has read what is in it, and is alone. As long as
\* only one has found no row, there is none yet.
ChargesSound ==
  /\ \A r \in PostRequests : Charging(r) => webPost[r].count < DailyLimit
  /\ \A r \in PostRequests : Locks(r) => webPost[r].count = quota
  /\ \A r, s \in PostRequests : Locks(r) /\ Locks(s) => r = s
  /\ \A r \in PostRequests : FoundNone(r) => unlocked >= 1
  /\ unlocked <= 1 =>
       \A r, s \in PostRequests : FoundNone(r) => quota = 0 /\ (FoundNone(s) => r = s)

\* Between its check and its Post a request knows of the groups that became moderated since.
ModerationKnown ==
  \A r \in PostRequests :
    webPost[r].step \in {"charge", "charging", "store"} =>
      \A g \in ToSet(webPost[r].groups) : wg[g].status = "m" => g \in webPost[r].turned

WebInv ==
  /\ WebTypeOK
  /\ webPost \in [PostRequests -> WebStates]
  /\ ChargesSound
  /\ QuotaCountsPosts
  /\ ModerationKnown

LEMMA InitWebInv == WebInit => WebInv
BY WebAssumption
DEF WebInit, WebInv, WebModes, WebTypeOK, WebStates, NoRequest, ChargesSound, Charging, Locks, FoundNone, QuotaCountsPosts,
    ModerationKnown

LEMMA HeaderFacts ==
  ASSUME NEW header \in Header
  PROVE  /\ header[1] \in WebGroups /\ header[1] \in ToSet(header)
         /\ Tail(header) \in Seq(WebGroups)
         /\ ToSet(header) \subseteq WebGroups
BY DEF Header, ToSet

-----------------------------------------------------------------------------
(* The quota's row. *)

\* A request reads the count, and locks the row if there is one.
LEMMA ReadingKeeps ==
  ASSUME WebInv, NEW r \in PostRequests, QuotaReads(r)
  PROVE  WebInv'
<1> USE WebAssumption
<1>1. /\ webPost[r].step = "charge" /\ ~RowLocked
      /\ UNCHANGED <<wg, openAlerts, resolving, quota, charged>>
      /\ unlocked' = IF quota = 0 /\ unlocked < 2 THEN unlocked + 1 ELSE unlocked
  BY DEF QuotaReads
<1>2. webPost[r] \in [step : {"moderation", "charge", "store"}, groups : Header, turned : SUBSET WebGroups]
  BY <1>1 DEF WebInv, WebStates, NoRequest
<1>3. CASE quota >= DailyLimit
  <2>1. webPost' = [webPost EXCEPT ![r] = NoRequest]
    BY <1>3 DEF QuotaReads, Ends
  <2>2. unlocked' = unlocked
    BY <1>1, <1>3
  <2> QED
    BY <1>1, <2>1, <2>2
    DEF WebInv, WebTypeOK, WebStates, NoRequest, ChargesSound, Charging, Locks, FoundNone, QuotaCountsPosts, ModerationKnown
<1>4. CASE quota < DailyLimit
  <2> DEFINE post == [step |-> "charging", groups |-> webPost[r].groups,
                      turned |-> webPost[r].turned, count |-> quota]
  <2>1. webPost' = [webPost EXCEPT ![r] = post]
    BY <1>4 DEF QuotaReads, WebInv, WebTypeOK
  <2>2. post \in WebStates
    BY <1>2, <1>4 DEF WebStates, WebInv, WebTypeOK
  <2>3. webPost' \in [PostRequests -> WebStates] /\ webPost'[r] = post
        /\ \A s \in PostRequests \ {r} : webPost'[s] = webPost[s]
    BY <2>1, <2>2 DEF WebInv
  <2>4. unlocked' \in 0..2 /\ unlocked' >= unlocked /\ (quota = 0 => unlocked' >= 1)
        /\ (quota = 0 /\ unlocked' <= 1 => unlocked = 0)
    BY <1>1 DEF WebInv, WebTypeOK
  <2>5. WebTypeOK'
    BY <1>1, <2>3, <2>4 DEF WebInv, WebTypeOK
  <2>6. ChargesSound'
    <3>1. \A s \in PostRequests \ {r} : ~Locks(s) /\ (Charging(s)' <=> Charging(s))
                                      /\ (Locks(s)' <=> Locks(s)) /\ (FoundNone(s)' <=> FoundNone(s))
      BY <1>1, <2>3 DEF RowLocked, Charging, Locks, FoundNone
    <3>2. webPost'[r].count = quota /\ quota' = quota /\ (Locks(r)' => quota > 0) /\ (FoundNone(r)' => quota = 0)
      BY <1>1, <2>3 DEF Locks, FoundNone
    <3>3. \A s \in PostRequests : Charging(s)' => webPost'[s].count < DailyLimit
      BY <1>4, <2>3, <3>1, <3>2 DEF WebInv, ChargesSound
    <3>4. \A s \in PostRequests : FoundNone(s)' => unlocked' >= 1
      BY <2>4, <3>1, <3>2 DEF WebInv, WebTypeOK, ChargesSound
    <3>5. ASSUME unlocked' <= 1, NEW s \in PostRequests, FoundNone(s)'
          PROVE  quota' = 0 /\ \A t \in PostRequests : FoundNone(t)' => s = t
      BY <2>4, <3>1, <3>2, <3>5 DEF WebInv, WebTypeOK, ChargesSound
    <3> QED
      BY <2>3, <3>1, <3>2, <3>3, <3>4, <3>5 DEF ChargesSound
  <2>7. QuotaCountsPosts'
    BY <1>1, <2>4 DEF WebInv, QuotaCountsPosts, WebTypeOK
  <2>8. ModerationKnown'
    BY <1>1, <2>3 DEF WebInv, ModerationKnown
  <2> QED
    BY <2>3, <2>5, <2>6, <2>7, <2>8 DEF WebInv
<1> QED
  BY <1>3, <1>4 DEF WebInv, WebTypeOK

\* A request writes the count it read plus one: no other has the row locked, and if only one
\* found no row, it is this one.
LEMMA WritingKeeps ==
  ASSUME WebInv, NEW r \in PostRequests, QuotaWrites(r)
  PROVE  WebInv'
<1> USE WebAssumption
<1> DEFINE post == [step |-> "store", groups |-> webPost[r].groups, turned |-> webPost[r].turned]
<1>1. /\ webPost[r].step = "charging" /\ (webPost[r].count > 0 \/ ~RowLocked)
      /\ charged < MaxCharged
      /\ quota' = webPost[r].count + 1 /\ charged' = charged + 1
      /\ webPost' = [webPost EXCEPT ![r] = post]
      /\ UNCHANGED <<wg, openAlerts, resolving, unlocked>>
  BY DEF QuotaWrites
<1>2. webPost[r] \in [step : {"charging"}, groups : Header, turned : SUBSET WebGroups,
                      count : 0..DailyLimit]
  BY <1>1 DEF WebInv, WebStates, NoRequest
<1>3. webPost' \in [PostRequests -> WebStates] /\ webPost'[r] = post
      /\ \A s \in PostRequests \ {r} : webPost'[s] = webPost[s]
  BY <1>1, <1>2 DEF WebInv, WebStates
<1>4. quota' \in 0..DailyLimit /\ quota' > 0 /\ charged' \in 0..MaxCharged
  BY <1>1, <1>2 DEF WebInv, ChargesSound, Charging, WebTypeOK
<1>5. \A s \in PostRequests \ {r} : ~Locks(s)
  BY <1>1, <1>2 DEF WebInv, ChargesSound, Charging, Locks, FoundNone, RowLocked
<1>6. unlocked <= 1 => quota' = charged' /\ \A s \in PostRequests \ {r} : ~FoundNone(s)
  BY <1>1, <1>2 DEF WebInv, ChargesSound, Charging, Locks, FoundNone, QuotaCountsPosts, WebTypeOK
<1>7. WebTypeOK'
  BY <1>1, <1>3, <1>4 DEF WebInv, WebTypeOK
<1>8. ChargesSound'
  BY <1>1, <1>3, <1>4, <1>5, <1>6 DEF WebInv, ChargesSound, Charging, Locks, FoundNone
<1>9. QuotaCountsPosts' /\ ModerationKnown'
  BY <1>1, <1>3, <1>4, <1>6 DEF WebInv, QuotaCountsPosts, ModerationKnown
<1> QED
  BY <1>3, <1>7, <1>8, <1>9 DEF WebInv

-----------------------------------------------------------------------------
(* The other steps of a request, and administrators. *)

\* A request moves to a step at which it does not hold the quota's row.
LEMMA RequestMoves ==
  ASSUME WebInv, NEW r \in PostRequests, NEW post \in WebStates,
         webPost' = [webPost EXCEPT ![r] = post], post.step # "charging",
         post.step \in {"charge", "store"} =>
           \A g \in ToSet(post.groups) : wg[g].status = "m" => g \in post.turned,
         wg' \in [WebGroups -> [status : {"y", "m", "n"}, mode : WebModes]],
         \A g \in WebGroups : wg'[g].status = wg[g].status,
         openAlerts' \in [WebGroups -> 0..MaxOpen],
         UNCHANGED <<resolving, quota, charged, unlocked>>
  PROVE  WebInv'
<1>1. webPost' \in [PostRequests -> WebStates] /\ webPost'[r] = post
      /\ \A s \in PostRequests \ {r} : webPost'[s] = webPost[s]
  BY DEF WebInv
<1>2. post.step \in {"idle", "moderation", "charge", "store", "note", "limit", "alert", "newalert"}
  BY DEF WebStates, NoRequest
<1>3. WebTypeOK'
  BY <1>1, <1>2 DEF WebInv, WebTypeOK
<1>4. ChargesSound' /\ QuotaCountsPosts'
  BY <1>1 DEF WebInv, ChargesSound, Charging, Locks, FoundNone, QuotaCountsPosts
<1>5. ModerationKnown'
  <2> SUFFICES ASSUME NEW s \in PostRequests, webPost'[s].step \in {"charge", "charging", "store"},
                      NEW g \in ToSet(webPost'[s].groups), wg'[g].status = "m"
               PROVE  g \in webPost'[s].turned
    BY DEF ModerationKnown
  <2>1. webPost'[s] \in WebStates /\ webPost'[s].groups \in Header
    BY <1>1 DEF WebStates, NoRequest
  <2>2. wg[g].status = "m"
    BY <2>1, HeaderFacts
  <2> QED
    BY <1>1, <2>2 DEF WebInv, ModerationKnown
<1> QED
  BY <1>1, <1>3, <1>4, <1>5 DEF WebInv

\* What the states of a request are at the steps that name them.
LEMMA StateFacts ==
  ASSUME WebInv, NEW r \in PostRequests
  PROVE  /\ webPost[r].step \in {"moderation", "charge", "store"} =>
              webPost[r] \in [step : {"moderation", "charge", "store"}, groups : Header, turned : SUBSET WebGroups]
         /\ webPost[r].step \in {"note", "limit", "alert", "newalert"} =>
              webPost[r] \in [step : {"note", "limit", "alert", "newalert"}, groups : Header,
                              turned : SUBSET WebGroups, used : SUBSET WebGroups]
         /\ webPost[r] # NoRequest => webPost[r].step # "idle" /\ webPost[r].turned \in SUBSET WebGroups
BY DEF WebInv, WebStates, NoRequest

LEMMA CheckingKeeps ==
  ASSUME WebInv, NEW r \in PostRequests,
         (\E header \in PostHeaders : CheckWanted(r, header)) \/ CheckModeration(r) \/ StorePost(r)
         \/ RequestEnds(r)
  PROVE  WebInv'
<1> USE WebAssumption
<1>0. NoRequest \in WebStates /\ NoRequest.step = "idle"
  BY DEF WebStates, NoRequest
<1>1. ASSUME NEW header \in PostHeaders, CheckWanted(r, header) PROVE WebInv'
  <2> DEFINE post == [step |-> "moderation", groups |-> header, turned |-> {}]
  <2>1. post \in WebStates
    BY DEF WebStates, Header
  <2> QED
    BY <1>1, <2>1, RequestMoves DEF CheckWanted, WebInv, WebTypeOK
<1>2. CASE CheckModeration(r)
  <2>1. CASE Target(webPost[r].groups) = {}
    <3> DEFINE post == [webPost[r] EXCEPT !.step = "charge"]
    <3>1. post \in WebStates /\ post.step = "charge" /\ post.groups = webPost[r].groups
      BY <1>2, StateFacts DEF CheckModeration, WebStates
    <3>2. \A g \in ToSet(post.groups) : wg[g].status # "m"
      BY <2>1, <3>1 DEF Target
    <3> QED
      BY <1>2, <2>1, <3>1, <3>2, RequestMoves DEF CheckModeration, Goes, WebInv, WebTypeOK
  <2>2. CASE Target(webPost[r].groups) # {}
    BY <1>0, <1>2, <2>2, RequestMoves DEF CheckModeration, Ends, WebInv, WebTypeOK
  <2> QED
    BY <2>1, <2>2
<1>3. CASE StorePost(r)
  <2> DEFINE used == {g \in ToSet(webPost[r].groups) : wg[g].status # "n"}
             post == [step |-> "note", groups |-> webPost[r].groups, turned |-> webPost[r].turned,
                      used |-> used]
  <2>1. webPost[r].groups \in Header
    BY <1>3, StateFacts DEF StorePost
  <2>2. post \in WebStates /\ post.step = "note"
    BY <1>3, <2>1, StateFacts, HeaderFacts DEF StorePost, WebStates
  <2>3. webPost' = [webPost EXCEPT ![r] = NoRequest] \/ webPost' = [webPost EXCEPT ![r] = post]
    BY <1>3 DEF StorePost, Ends
  <2> QED
    BY <1>0, <1>3, <2>2, <2>3, RequestMoves DEF StorePost, WebInv, WebTypeOK
<1>4. CASE RequestEnds(r)
  BY <1>0, <1>4, RequestMoves DEF RequestEnds, Ends, WebInv, WebTypeOK
<1> QED
  BY <1>1, <1>2, <1>3, <1>4

LEMMA NotingKeeps ==
  ASSUME WebInv, NEW r \in PostRequests,
         NoteReads(r) \/ NoteLimits(r) \/ AlertFound(r) \/ AlertInserted(r)
  PROVE  WebInv'
<1> USE WebAssumption
<1> DEFINE here == webPost[r]
           Noting == [step : {"note", "limit", "alert", "newalert"}, groups : Header,
                      turned : SUBSET WebGroups, used : SUBSET WebGroups]
           Ending == webPost' = [webPost EXCEPT ![r] = NoRequest]
           Moving == \E post \in Noting : webPost' = [webPost EXCEPT ![r] = post]
           Group == wg' \in [WebGroups -> [status : {"y", "m", "n"}, mode : WebModes]]
                    /\ \A g \in WebGroups : wg'[g].status = wg[g].status
<1>0. ASSUME Ending \/ Moving, Group, UNCHANGED <<resolving, quota, charged, unlocked>>,
             openAlerts' \in [WebGroups -> 0..MaxOpen]
      PROVE  WebInv'
  <2>1. CASE Ending
    <3>1. NoRequest \in WebStates /\ NoRequest.step = "idle"
      BY DEF WebStates, NoRequest
    <3> QED
      BY <1>0, <2>1, <3>1, RequestMoves
  <2>2. ASSUME NEW post \in Noting, webPost' = [webPost EXCEPT ![r] = post] PROVE WebInv'
    BY <1>0, <2>2, RequestMoves DEF WebStates
  <2> QED
    BY <1>0, <2>1, <2>2
<1>1. here \in Noting /\ here.groups[1] \in WebGroups
  BY StateFacts, HeaderFacts DEF NoteReads, NoteLimits, AlertFound, AlertInserted
<1>2. \A step \in {"note", "limit", "alert", "newalert"} : [here EXCEPT !.step = step] \in Noting
  BY <1>1
<1>3. ASSUME Tail(here.groups) # <<>>
      PROVE  /\ [here EXCEPT !.groups = Tail(here.groups)] \in Noting
             /\ [here EXCEPT !.step = "note", !.groups = Tail(here.groups)] \in Noting
  BY <1>1, <1>3, HeaderFacts DEF Header
<1>4. Noted(r) => Ending \/ Moving
  BY <1>3 DEF Noted, Ends, WebInv
<1>5. wg' = wg \/ (\E g \in WebGroups : wg[g].mode # "whitelist" /\ wg' = [wg EXCEPT ![g].mode = "auto"]) => Group
  <2>1. wg \in [WebGroups -> [status : {"y", "m", "n"}, mode : WebModes]] /\ "auto" \in WebModes
    BY DEF WebInv, WebTypeOK, WebModes
  <2> QED
    BY <2>1
<1>6. CASE NoteReads(r)
  <2>1. Ending \/ Moving
    BY <1>2, <1>3, <1>6 DEF NoteReads, Goes, Ends
  <2>2. Group /\ UNCHANGED <<openAlerts, resolving, quota, charged, unlocked>>
    BY <1>5, <1>6 DEF NoteReads
  <2>3. openAlerts' \in [WebGroups -> 0..MaxOpen]
    BY <2>2 DEF WebInv, WebTypeOK
  <2> QED
    BY <1>0, <2>1, <2>2, <2>3
<1>7. CASE NoteLimits(r)
  <2>1. Moving
    BY <1>2, <1>7 DEF NoteLimits, Goes
  <2>2. Group /\ UNCHANGED <<openAlerts, resolving, quota, charged, unlocked>>
    BY <1>1, <1>5, <1>7 DEF NoteLimits, Limited
  <2>3. openAlerts' \in [WebGroups -> 0..MaxOpen]
    BY <2>2 DEF WebInv, WebTypeOK
  <2> QED
    BY <1>0, <2>1, <2>2, <2>3
<1>8. CASE AlertFound(r)
  <2>1. Ending \/ Moving
    BY <1>2, <1>4, <1>8 DEF AlertFound, Goes
  <2>2. Group /\ UNCHANGED <<openAlerts, resolving, quota, charged, unlocked>>
    BY <1>5, <1>8 DEF AlertFound
  <2>3. openAlerts' \in [WebGroups -> 0..MaxOpen]
    BY <2>2 DEF WebInv, WebTypeOK
  <2> QED
    BY <1>0, <2>1, <2>2, <2>3
<1>9. CASE AlertInserted(r)
  <2>1. Ending \/ Moving
    BY <1>4, <1>9 DEF AlertInserted
  <2>2. Group /\ UNCHANGED <<resolving, quota, charged, unlocked>>
    BY <1>5, <1>9 DEF AlertInserted
  <2>3. openAlerts' \in [WebGroups -> 0..MaxOpen]
    BY <1>1, <1>9 DEF AlertInserted, WebInv, WebTypeOK
  <2> QED
    BY <1>0, <2>1, <2>2, <2>3
<1> QED
  BY <1>6, <1>7, <1>8, <1>9

LEMMA AdministratorsKeep ==
  ASSUME WebInv,
         \/ \E x \in WebStatuses : SetStatus(x[1], x[2])
         \/ \E g \in FloodGroups : ResolveRow(g) \/ ResolveAlert(g)
  PROVE  WebInv'
<1> USE WebAssumption
<1> DEFINE RowTypes == [status : {"y", "m", "n"}, mode : WebModes]
<1>0. wg \in [WebGroups -> RowTypes] /\ Unset \in WebModes /\ "blocked" \in WebModes /\ "whitelist" \in WebModes
  BY DEF WebInv, WebTypeOK, WebModes
<1>1. ASSUME NEW g \in WebGroups, NEW status \in {"y", "m", "n"}, SetStatus(g, status)
      PROVE  WebInv'
  <2>1. wg' = [wg EXCEPT ![g].status = status] /\ wg' \in [WebGroups -> RowTypes]
    BY <1>0, <1>1 DEF SetStatus
  <2>2. \A r \in PostRequests :
          /\ webPost'[r] \in WebStates /\ webPost'[r].step = webPost[r].step
          /\ webPost'[r].step = "charging" => webPost'[r].count = webPost[r].count
          /\ webPost'[r].step # "idle" =>
               /\ webPost'[r].groups = webPost[r].groups
               /\ webPost'[r].turned = webPost[r].turned \union (IF status = "m" THEN {g} ELSE {})
    BY <1>1 DEF SetStatus, WebInv, WebStates, NoRequest
  <2>3. webPost' \in [PostRequests -> WebStates]
    <3>1. webPost' = webPost \/ \E F \in {webPost'} : F = [r \in PostRequests |-> F[r]]
      BY <1>1 DEF SetStatus
    <3> QED
      BY <2>2, <3>1 DEF WebInv
  <2>4. WebTypeOK'
    BY <1>1, <2>1, <2>2 DEF SetStatus, WebInv, WebTypeOK
  <2>5. ChargesSound' /\ QuotaCountsPosts'
    BY <1>1, <2>2 DEF SetStatus, WebInv, ChargesSound, Charging, Locks, FoundNone, QuotaCountsPosts
  <2>6. ModerationKnown'
    BY <1>0, <2>1, <2>2 DEF WebInv, ModerationKnown
  <2> QED
    BY <2>3, <2>4, <2>5, <2>6 DEF WebInv
<1>2. ASSUME NEW g \in WebGroups, ResolveRow(g) PROVE WebInv'
  <2>1. /\ wg' \in [WebGroups -> RowTypes]
        /\ \A h \in WebGroups : wg'[h].status = wg[h].status \/ wg'[h].status = "n"
    BY <1>0, <1>2 DEF ResolveRow
  <2>2. \A r \in PostRequests : webPost[r].step \in {"charge", "charging", "store"} =>
          ToSet(webPost[r].groups) \subseteq WebGroups
    BY HeaderFacts DEF WebInv, WebStates, NoRequest
  <2>3. ModerationKnown'
    BY <1>2, <2>1, <2>2 DEF ResolveRow, WebInv, ModerationKnown
  <2> QED
    BY <1>2, <2>1, <2>3
    DEF ResolveRow, WebInv, WebTypeOK, ChargesSound, Charging, Locks, FoundNone, QuotaCountsPosts
<1>3. ASSUME NEW g \in WebGroups, ResolveAlert(g) PROVE WebInv'
  <2>1. openAlerts' \in [WebGroups -> 0..MaxOpen]
    <3>1. openAlerts \in [WebGroups -> 0..MaxOpen]
      BY DEF WebInv, WebTypeOK
    <3>2. (IF openAlerts[g] > 0 THEN openAlerts[g] - 1 ELSE 0) \in 0..MaxOpen
      BY <3>1
    <3> QED
      BY <1>3, <3>1, <3>2 DEF ResolveAlert
  <2>2. WebTypeOK'
    BY <1>3, <2>1 DEF ResolveAlert, WebInv, WebTypeOK
  <2> QED
    BY <1>3, <2>2
    DEF ResolveAlert, WebInv, ChargesSound, Charging, Locks, FoundNone, QuotaCountsPosts, ModerationKnown
<1> QED
  BY <1>1, <1>2, <1>3

LEMMA NextWebInv == ASSUME WebInv, [WebNext]_webVars PROVE WebInv'
<1>1. CASE UNCHANGED webVars
  BY <1>1
  DEF webVars, WebInv, WebTypeOK, ChargesSound, Charging, Locks, FoundNone, QuotaCountsPosts,
      ModerationKnown
<1> QED
  BY <1>1, ReadingKeeps, WritingKeeps, CheckingKeeps, NotingKeeps, AdministratorsKeep DEF WebNext

-----------------------------------------------------------------------------
(* The theorems. *)

\* Groups, alerts, the quota and the requests under way hold what they may hold.
THEOREM WebTypeCorrect == WebSpec => []WebTypeOK
<1>1. WebInv => WebTypeOK
  BY DEF WebInv
<1> QED
  BY <1>1, InitWebInv, NextWebInv, PTL DEF WebSpec

\* The binary quota never passes its limit, and counts every post that passed it, unless several
\* first posts of the day found no row to lock (ConsumeBinaryPostQuota).
THEOREM QuotaCounts == WebSpec => []QuotaCountsPosts
<1>1. WebInv => QuotaCountsPosts
  BY DEF WebInv
<1> QED
  BY <1>1, InitWebInv, NextWebInv, PTL DEF WebSpec

\* A post that is stored unapproved in a moderated group passed the check of posting.Accept
\* before the group became moderated.
THEOREM UnapprovedRacedOnly == WebSpec => UnapprovedOnlyByRace
<1>1. ASSUME WebInv, [WebNext]_webVars
      PROVE  [\A r \in PostRequests :
                webPost[r].step = "store" /\ webPost'[r].step = "note" =>
                  \A g \in webPost'[r].used : wg[g].status = "m" => g \in webPost[r].turned]_webVars
  <2> SUFFICES ASSUME WebNext, NEW r \in PostRequests, webPost[r].step = "store",
                      webPost'[r].step = "note"
               PROVE  \A g \in webPost'[r].used : wg[g].status = "m" => g \in webPost[r].turned
    BY <1>1
  <2>1. StorePost(r)
    <3> DEFINE Elsewhere(s) == \E post : webPost' = [webPost EXCEPT ![s] = post]
    <3>1. ASSUME NEW s \in PostRequests,
                 \/ (\E header \in PostHeaders : CheckWanted(s, header)) \/ CheckModeration(s)
                 \/ QuotaReads(s) \/ QuotaWrites(s) \/ NoteReads(s) \/ NoteLimits(s)
                 \/ AlertFound(s) \/ AlertInserted(s) \/ RequestEnds(s)
          PROVE  FALSE
      <4>1. Elsewhere(s)
        BY <3>1 DEF CheckWanted, CheckModeration, QuotaReads, QuotaWrites, NoteReads, NoteLimits,
                    AlertFound, AlertInserted, RequestEnds, Goes, Ends, Noted
      <4>2. s = r
        BY <1>1, <4>1 DEF WebInv
      <4> QED
        BY <1>1, <3>1, <4>2
        DEF CheckWanted, CheckModeration, QuotaReads, QuotaWrites, NoteReads, NoteLimits, AlertFound,
            AlertInserted, RequestEnds, Ends, NoRequest, WebInv
    <3>2. ASSUME NEW x \in WebStatuses, SetStatus(x[1], x[2]) PROVE FALSE
      <4>1. webPost'[r] = webPost[r] \/ webPost'[r] = NoRequest
            \/ webPost'[r] = [webPost[r] EXCEPT !.turned = @ \union {x[1]}]
        BY <3>2 DEF SetStatus
      <4> QED
        BY <1>1, <4>1, StateFacts DEF NoRequest
    <3>3. ASSUME NEW g \in FloodGroups, ResolveRow(g) \/ ResolveAlert(g) PROVE FALSE
      BY <3>3 DEF ResolveRow, ResolveAlert
    <3>4. \E s \in PostRequests : StorePost(s)
      BY <3>1, <3>2, <3>3 DEF WebNext
    <3> QED
      BY <1>1, <3>4 DEF StorePost, Ends, WebInv
  <2>2. webPost'[r].used \subseteq ToSet(webPost[r].groups)
    BY <1>1, <2>1 DEF StorePost, Ends, NoRequest, WebInv
  <2> QED
    BY <1>1, <2>2 DEF WebInv, ModerationKnown
<1> QED
  BY <1>1, InitWebInv, NextWebInv, PTL DEF WebSpec, UnapprovedOnlyByRace
=============================================================================
