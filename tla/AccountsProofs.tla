--------------------------- MODULE AccountsProofs ---------------------------
(***************************************************************************)
(* Theorems about module Accounts, for every instance: any number of       *)
(* requests and usernames, any lifetimes, all failures and any number of   *)
(* restarts.                                                               *)
(***************************************************************************)
EXTENDS Accounts, FiniteSetTheorems, WellFoundedInduction, TLAPS

-----------------------------------------------------------------------------
Issuing == {"issue", "sweep_access", "sweep_sessions", "insert_access", "insert_session"}
Revoking == {"revoke_access", "revoke_sessions"}
Admitted == {"find_user", "count"}

Public == {"register", "login", "refresh"}

\* What each place of a request says of it.
Fits(r) ==
    /\ r.at = "idle" => r = NoRequest
    /\ r.at = "insert_user" => r.kind = "register"
    /\ r.at \in Admitted => r.kind = "login"
    /\ r.at = "delete_session" => r.kind = "refresh"
    /\ r.at \in Revoking \cup {"update_hash"} <=> r.kind = "reset"
    /\ r.at \in Issuing => r.kind \in Public
    /\ r.kind = "login" => r.password # 0
    /\ r.kind = "register" => r.password = 1

\* The rows it names exist.
Points(r) ==
    /\ r.account \in DOMAIN accounts \cup {None}
    /\ r.at \in Issuing \cup Revoking \cup {"delete_session", "update_hash"} => r.account # None
    /\ r.cookie \in DOMAIN tokens \cup {None}
    /\ r.kind = "refresh" <=> r.cookie # None
    /\ r.at = "insert_session" => r.token \in DOMAIN tokens
    /\ r.now <= clock

ToReset == {q \in Procs : request[q].at = "update_hash"}

\* The migration adds the column, its companion and the index in this order.
Prefix(k) == {Migration[i] : i \in 1 .. k}

ServerOK ==
    /\ boot \in {"down", "migrating", "up"} /\ cut \in BOOLEAN
    /\ \E k \in 0 .. 3 : schema = Prefix(k) /\ (boot = "migrating" => k < 3)

UsersOK ==
    /\ accounts \in Seq(Account) /\ registration \in BOOLEAN
    /\ settled \in Seq(Nat) /\ Len(settled) = Len(accounts)

TokensOK ==
    /\ tokens \in Seq(Token) /\ access \subseteq DOMAIN tokens /\ sessions \subseteq DOMAIN tokens
    /\ \A t \in DOMAIN tokens : tokens[t].account \in DOMAIN accounts /\ tokens[t].login \in DOMAIN tokens
    /\ forked \subseteq DOMAIN tokens /\ ended \subseteq DOMAIN tokens

Entry == [count : Nat, since : -1 .. MaxTime]

\* A window that has begun did so in the past.
Began(e, now) == e.since <= now /\ (e = Fresh \/ e.since >= 0)

GuardOK ==
    /\ attempts \in [Names -> Entry]
    /\ \A n \in Names : Began(attempts[n], clock)
    /\ misses \in [Names -> [0 .. MaxTime -> Nat]]

BoundsOK ==
    /\ clock \in 0 .. MaxTime /\ served \in 0 .. MaxRequests /\ resets \in 0 .. MaxResets
    /\ resets + Cardinality(ToReset) <= MaxResets

RequestsOK ==
    \A p \in Procs : Fits(request[p]) /\ Points(request[p])

Typed == ServerOK /\ UsersOK /\ TokensOK /\ GuardOK /\ BoundsOK /\ request \in [Procs -> Request] /\ RequestsOK

\* The index is there whenever requests are served, unless it never will be.
Indexed ==
    ~cut => /\ boot = "up" => schema = Range(Migration)
            /\ boot = "down" => schema = {} \/ schema = Range(Migration)
            /\ \A p \in Procs : request[p].at # "idle" => boot = "up"

\* Where a login lives: in a session, or in a request that has used one up.
Carries(p, l) ==
    LET r == request[p] IN
    \/ r.at = "insert_session" /\ tokens[r.token].login = l
    \/ r.at \in Issuing \ {"insert_session"} /\ r.cookie # None /\ tokens[r.cookie].login = l

OnePlace ==
    \A l \in DOMAIN tokens \ forked :
        /\ \A t, u \in Live(l) : t = u
        /\ \A p, q \in Procs : Carries(p, l) /\ Carries(q, l) => p = q
        /\ \A p \in Procs : Carries(p, l) => Live(l) = {}
        /\ l \in ended => Live(l) = {} /\ \A p \in Procs : ~Carries(p, l)

\* What was issued is valid.
Valid ==
    \A t \in DOMAIN tokens : ~tokens[t].revoked =>
        /\ clock < tokens[t].at + AccessTTL => t \in access
        /\ tokens[t].given /\ clock < tokens[t].at + RefreshTTL => tokens[t].used \/ t \in sessions

\* The password a request's tokens are issued under.
PasswordOf(q) ==
    IF request[q].cookie = None THEN request[q].password ELSE tokens[request[q].cookie].password

Resets(p, a) == request[p].account = a /\ request[p].at \in Revoking

\* An account's password is its last, also while it is being set.
Ascending ==
    \A a \in DOMAIN accounts :
        /\ accounts[a].password <= resets + 1
        /\ settled[a] <= accounts[a].password
        /\ \A p \in Procs : Resets(p, a) =>
              request[p].password # 0 /\ request[p].password <= accounts[a].password

Issues(q) == request[q].account # None /\ request[q].kind \in Public

LateInFlight ==
    \A q \in Procs : Issues(q) /\ ~request[q].late =>
        /\ settled[request[q].account] <= PasswordOf(q)
        /\ \A p \in Procs : Resets(p, request[q].account) => request[p].password <= PasswordOf(q)

Inserted ==
    /\ \A q \in Procs : request[q].at = "insert_session" =>
          LET t == tokens[request[q].token] IN
          /\ t.account = request[q].account /\ t.password = PasswordOf(q)
          /\ t.late => request[q].late
    /\ \A p, q \in Procs :
          request[p].at = "insert_session" /\ request[q].at = "insert_session" /\ request[p].token = request[q].token
             => p = q
    /\ \A q \in Procs : request[q].kind = "refresh" => tokens[request[q].cookie].account = request[q].account

StaleInAccess ==
    \A p \in Procs : request[p].at = "revoke_sessions" =>
        \A t \in access : tokens[t].account = request[p].account /\ ~tokens[t].late =>
            request[p].password <= tokens[t].password

Overtaken == Ascending /\ LateInFlight /\ Inserted /\ StaleInAccess /\ StaleOnlyByOverlap

InWindow(n, w) ==
    {q \in Procs : request[q].at \in Admitted /\ request[q].name = n /\ request[q].now = w}

Guarded ==
    \A n \in Names :
        /\ attempts[n] = Fresh => \A w \in 0 .. MaxTime : misses[n][w] = 0
        /\ attempts[n] # Fresh =>
              /\ misses[n][attempts[n].since] <= attempts[n].count
              /\ \A w \in 0 .. MaxTime : w > attempts[n].since => misses[n][w] = 0
              /\ \A q \in Procs : request[q].at \in Admitted /\ request[q].name = n => request[q].now <= attempts[n].since
        /\ \A w \in 0 .. MaxTime :
              misses[n][w] + Cardinality(InWindow(n, w)) <= MaxFails + Cardinality(Procs) - 1

-----------------------------------------------------------------------------
(***************************************************************************)
(* The server and its migration.                                           *)
(***************************************************************************)
LEMMA MigrationIs ==
    /\ Len(Migration) = 3 /\ DOMAIN Migration = 1 .. 3
    /\ Migration[1] = "username" /\ Migration[2] = "password_hash" /\ Migration[3] = "ux_principals_username"
BY DEF Migration, Columns

LEMMA NextPrefix == \A k \in 0 .. 2 : Prefix(k) \cup {Migration[k + 1]} = Prefix(k + 1)
BY DEF Prefix

LEMMA PrefixZero == Prefix(0) = {}
BY DEF Prefix

LEMMA PrefixOne == Prefix(1) = {"username"}
BY MigrationIs DEF Prefix

LEMMA PrefixTwo == Prefix(2) = {"username", "password_hash"}
<1>1. Prefix(2) = Prefix(1) \cup {Migration[2]}
  BY NextPrefix
<1>2. QED
  BY <1>1, PrefixOne, MigrationIs

LEMMA PrefixAll == Prefix(3) = Range(Migration)
BY MigrationIs DEF Prefix, Range

LEMMA PrefixThree == Prefix(3) = {"username", "password_hash", "ux_principals_username"}
<1>1. Prefix(3) = Prefix(2) \cup {Migration[3]}
  BY NextPrefix
<1>2. QED
  BY <1>1, PrefixTwo, MigrationIs

LEMMA FourCases == \A k \in 0 .. 3 : k = 0 \/ k = 1 \/ k = 2 \/ k = 3
OBVIOUS

LEMMA PrefixSize == \A k \in 0 .. 3 : Cardinality(Prefix(k)) = k
<1>1. Cardinality(Prefix(0)) = 0 /\ IsFiniteSet(Prefix(0))
  BY PrefixZero, FS_EmptySet
<1>2. Cardinality(Prefix(1)) = 1 /\ IsFiniteSet(Prefix(1))
  BY PrefixOne, FS_Singleton
<1>3. Cardinality(Prefix(2)) = 2 /\ IsFiniteSet(Prefix(2))
  <2>1. Prefix(2) = Prefix(1) \cup {"password_hash"} /\ "password_hash" \notin Prefix(1)
    BY PrefixOne, PrefixTwo
  <2>2. QED
    BY <1>2, <2>1, FS_AddElement
<1>4. Cardinality(Prefix(3)) = 3
  <2>1. Prefix(3) = Prefix(2) \cup {"ux_principals_username"} /\ "ux_principals_username" \notin Prefix(2)
    BY PrefixTwo, PrefixThree
  <2>2. QED
    BY <1>3, <2>1, FS_AddElement
<1>5. QED
  BY <1>1, <1>2, <1>3, <1>4, FourCases

LEMMA PrefixWithin == \A k \in 0 .. 3 : Prefix(k) \subseteq Range(Migration)
<1>1. Prefix(0) \subseteq Prefix(3) /\ Prefix(1) \subseteq Prefix(3) /\ Prefix(2) \subseteq Prefix(3)
  BY PrefixZero, PrefixOne, PrefixTwo, PrefixThree
<1>2. QED
  BY <1>1, PrefixAll, FourCases

LEMMA PrefixNamed == \A k \in 0 .. 3 : "username" \in Prefix(k) <=> k # 0
<1>1. "username" \notin Prefix(0) /\ "username" \in Prefix(1) /\ "username" \in Prefix(2) /\ "username" \in Prefix(3)
  BY PrefixZero, PrefixOne, PrefixTwo, PrefixThree
<1>2. QED
  BY <1>1, FourCases

\* Only starting and stopping the server changes it and its schema.
LEMMA ServerFrame ==
    ASSUME [Next]_vars PROVE Start \/ Migrate \/ Crash \/ UNCHANGED <<server, cut>>
<1>1. ASSUME NEW p \in Procs, Arrive(p) PROVE UNCHANGED <<server, cut>>
  BY <1>1 DEF Arrive, RegistrationEnabled, FindUser, Check, FindSession, Logout, DisablePrincipal, SetRegistration
<1>2. ASSUME NEW p \in Procs, Serve(p) PROVE UNCHANGED <<server, cut>>
  BY <1>2 DEF Serve, CreateBrowserUser, BrowserUser, Fail, Success, Issue, SweepAccess, SweepSessions,
     InsertAccess, InsertSession, IssueFails, DeleteSession, UpdateHash, RevokeAccess, RevokeSessions, ResetFails
<1>3. QED
  BY <1>1, <1>2 DEF Next, Tick, vars

\* Its migration goes on where it is, and is done with the index.
LEMMA MigrateTo ==
    ASSUME Migrate, NEW k \in 0 .. 2, schema = Prefix(k)
    PROVE  schema' = Prefix(k + 1) /\ boot' = IF k = 2 THEN "up" ELSE "migrating"
<1>0. k \in 0 .. 3 /\ k + 1 \in 0 .. 3
  OBVIOUS
<1>1. schema' = Prefix(k + 1)
  BY <1>0, PrefixSize, NextPrefix DEF Migrate
<1>2. Cardinality(schema') = k + 1
  BY <1>0, <1>1, PrefixSize
<1>3. QED
  BY <1>1, <1>2, MigrationIs DEF Migrate

LEMMA ServerKept ==
    ASSUME ServerOK, [Next]_vars PROVE ServerOK'
<1>1. PICK k \in 0 .. 3 : schema = Prefix(k) /\ (boot = "migrating" => k < 3)
  BY DEF ServerOK
<1>2. CASE UNCHANGED <<server, cut>>
  BY <1>2 DEF ServerOK, server
<1>3. CASE Start
  <2>1. "username" \notin schema => k = 0
    BY <1>1, PrefixNamed
  <2>2. QED
    BY <1>1, <1>3, <2>1 DEF ServerOK, Start
<1>4. CASE Migrate
  <2>1. k \in 0 .. 2 /\ boot = "migrating"
    BY <1>1, <1>4 DEF Migrate
  <2>2. schema' = Prefix(k + 1) /\ boot' = IF k = 2 THEN "up" ELSE "migrating"
    BY <1>1, <1>4, <2>1, MigrateTo
  <2>3. QED
    BY <1>4, <2>1, <2>2 DEF ServerOK, Migrate
<1>5. CASE Crash
  BY <1>1, <1>5 DEF ServerOK, Crash
<1>6. QED
  BY <1>2, <1>3, <1>4, <1>5, ServerFrame

-----------------------------------------------------------------------------
(***************************************************************************)
(* Accounts.                                                               *)
(***************************************************************************)
LEMMA LeastOf ==
    ASSUME NEW T \in SUBSET Nat, T # {}
    PROVE  Min(T) \in T
<1>1. IsWellFoundedOn(OpToRel(<, Nat), Nat)
  BY NatLessThanWellFounded
<1>2. PICK n \in T : \A m \in T : ~ (<<m, n>> \in OpToRel(<, Nat))
  BY <1>1, WFMin
<1>3. \A m \in T : ~ (m < n)
  BY <1>2 DEF OpToRel
<1>4. \A m \in T : n <= m
  BY <1>3
<1>5. QED
  BY <1>4 DEF Min

LEMMA GreaterOf ==
    ASSUME NEW a \in Nat, NEW b \in Nat
    PROVE  Max({a, b}) = IF a >= b THEN a ELSE b
<1>1. \E x \in {a, b} : \A y \in {a, b} : x >= y
  OBVIOUS
<1>2. Max({a, b}) \in {a, b} /\ \A y \in {a, b} : Max({a, b}) >= y
  BY <1>1 DEF Max
<1>3. QED
  BY <1>2

\* A sequence with one element replaced.
LEMMA Replaced ==
    ASSUME NEW S, NEW s \in Seq(S), NEW i \in DOMAIN s, NEW e \in S, NEW t, t = [s EXCEPT ![i] = e]
    PROVE  /\ t \in Seq(S) /\ Len(t) = Len(s)
           /\ \A j \in DOMAIN s : t[j] = IF j = i THEN e ELSE s[j]
OBVIOUS

\* A row found by name is one.
LEMMA RowFound ==
    ASSUME accounts \in Seq(Account), NEW n
    PROVE  RowOf(n) # None => RowOf(n) \in DOMAIN accounts /\ accounts[RowOf(n)].name = n
<1>1. RowsOf(n) \in SUBSET Nat
  BY DEF RowsOf
<1>2. RowsOf(n) # {} => Min(RowsOf(n)) \in RowsOf(n)
  BY <1>1, LeastOf
<1>3. QED
  BY <1>2 DEF RowOf, RowsOf

LEMMA CountOfToReset ==
    IsFiniteSet(ToReset) /\ Cardinality(ToReset) \in Nat
<1>1. ToReset \in SUBSET Procs
  BY DEF ToReset
<1>2. QED
  BY <1>1, AccountsAssumption, FS_Subset, FS_CardinalityType

\* A password can still be set while a reset that has found its account waits.
LEMMA NewPassword ==
    ASSUME BoundsOK, NEW p \in Procs, request[p].at = "update_hash"
    PROVE  resets + 1 \in 0 .. MaxResets /\ resets + 2 \in Passwords
<1>1. p \in ToReset
  BY DEF ToReset
<1>2. Cardinality(ToReset) # 0
  BY <1>1, CountOfToReset, FS_EmptySet
<1>3. resets + 1 <= MaxResets
  BY <1>2, CountOfToReset, AccountsAssumption DEF BoundsOK
<1>4. QED
  BY <1>3, AccountsAssumption DEF BoundsOK, Passwords

\* What changes the accounts and their passwords.
LEMMA UsersFrame ==
    ASSUME [Next]_vars
    PROVE  \/ \E p \in Procs : CreateBrowserUser(p) \/ UpdateHash(p) \/ RevokeSessions(p) \/ SetRegistration(p)
           \/ \E p \in Procs : \E a \in DOMAIN accounts : DisablePrincipal(p, a)
           \/ UNCHANGED <<users, settled>>
<1>1. ASSUME NEW p \in Procs, Arrive(p)
      PROVE SetRegistration(p) \/ (\E a \in DOMAIN accounts : DisablePrincipal(p, a)) \/ UNCHANGED <<users, settled>>
  BY <1>1 DEF Arrive, RegistrationEnabled, FindUser, Check, FindSession, Logout
<1>2. ASSUME NEW p \in Procs, Serve(p)
      PROVE CreateBrowserUser(p) \/ UpdateHash(p) \/ RevokeSessions(p) \/ UNCHANGED <<users, settled>>
  BY <1>2 DEF Serve, BrowserUser, Fail, Success, Issue, SweepAccess, SweepSessions,
     InsertAccess, InsertSession, IssueFails, DeleteSession, RevokeAccess, ResetFails
<1>3. QED
  BY <1>1, <1>2 DEF Next, Start, Migrate, Crash, Tick, vars

LEMMA UsersKept ==
    ASSUME Typed, [Next]_vars
    PROVE  UsersOK' /\ DOMAIN accounts \subseteq DOMAIN accounts'
<1>0. /\ accounts \in Seq(Account) /\ registration \in BOOLEAN /\ settled \in Seq(Nat) /\ Len(settled) = Len(accounts)
      /\ request \in [Procs -> Request]
  BY DEF Typed, UsersOK
<1>1. CASE UNCHANGED <<users, settled>>
  BY <1>0, <1>1 DEF UsersOK, users
<1>2. ASSUME NEW p \in Procs, CreateBrowserUser(p) PROVE UsersOK' /\ DOMAIN accounts \subseteq DOMAIN accounts'
  <2>1. request[p].name \in Names /\ request[p].password \in Passwords
    BY <1>0, <1>2 DEF Typed, RequestsOK, Fits, CreateBrowserUser, At, Request
  <2>2. [name |-> request[p].name, password |-> request[p].password, disabled |-> FALSE] \in Account
    BY <2>1 DEF Account
  <2>3. CASE UNCHANGED <<accounts, settled>>
    BY <1>0, <1>2, <2>3 DEF UsersOK, CreateBrowserUser
  <2>4. CASE /\ accounts' = Append(accounts, [name |-> request[p].name, password |-> request[p].password, disabled |-> FALSE])
             /\ settled' = Append(settled, 0)
    <3>1. accounts' \in Seq(Account) /\ Len(accounts') = Len(accounts) + 1
      BY <1>0, <2>2, <2>4
    <3>2. settled' \in Seq(Nat) /\ Len(settled') = Len(settled) + 1
      BY <1>0, <2>4
    <3>3. QED
      BY <1>0, <1>2, <3>1, <3>2 DEF UsersOK, CreateBrowserUser
  <2>5. QED
    BY <1>2, <2>3, <2>4 DEF CreateBrowserUser
<1>3. ASSUME NEW p \in Procs, UpdateHash(p) PROVE UsersOK' /\ DOMAIN accounts \subseteq DOMAIN accounts'
  <2>1. resets + 2 \in Passwords
    BY <1>3, NewPassword DEF Typed, UpdateHash
  <2> DEFINE a == request[p].account
             e == [accounts[a] EXCEPT !.password = resets + 2]
  <2>a. a \in DOMAIN accounts
    BY <1>3 DEF Typed, RequestsOK, Points, UpdateHash
  <2>d. accounts[a] \in Account
    BY <1>0, <2>a
  <2>b. e \in Account
    BY <2>1, <2>d DEF Account
  <2>c. accounts' = [accounts EXCEPT ![a] = e]
    BY <1>3 DEF UpdateHash
  <2>2. accounts' \in Seq(Account) /\ Len(accounts') = Len(accounts)
    BY <1>0, <2>a, <2>b, <2>c, Replaced
  <2>3. registration' = registration /\ settled' = settled
    BY <1>3 DEF UpdateHash
  <2>4. QED
    BY <1>0, <2>2, <2>3 DEF UsersOK
<1>4. ASSUME NEW p \in Procs, RevokeSessions(p) PROVE UsersOK' /\ DOMAIN accounts \subseteq DOMAIN accounts'
  <2> DEFINE a == request[p].account
  <2>1. a \in DOMAIN settled /\ request[p].password \in Nat
    BY <1>0, <1>4 DEF Typed, RequestsOK, Points, RevokeSessions, Request, Passwords, Issuing, Revoking
  <2>a. settled[a] \in Nat
    BY <1>0, <2>1
  <2>2. Max({settled[a], request[p].password}) \in Nat
    BY <2>a, <2>1, GreaterOf
  <2>b. settled' = [settled EXCEPT ![a] = Max({settled[a], request[p].password})]
    BY <1>4 DEF RevokeSessions
  <2>3. settled' \in Seq(Nat) /\ Len(settled') = Len(settled)
    BY <1>0, <2>1, <2>2, <2>b, Replaced
  <2>4. QED
    BY <1>0, <1>4, <2>3 DEF UsersOK, RevokeSessions, users
<1>5. ASSUME NEW p \in Procs, SetRegistration(p) PROVE UsersOK' /\ DOMAIN accounts \subseteq DOMAIN accounts'
  BY <1>0, <1>5 DEF UsersOK, SetRegistration
<1>6. ASSUME NEW p \in Procs, NEW a \in DOMAIN accounts, DisablePrincipal(p, a)
      PROVE UsersOK' /\ DOMAIN accounts \subseteq DOMAIN accounts'
  <2> DEFINE e == [accounts[a] EXCEPT !.disabled = TRUE]
  <2>c. accounts[a] \in Account
    BY <1>0
  <2>a. e \in Account
    BY <2>c DEF Account
  <2>b. accounts' = [accounts EXCEPT ![a] = e]
    BY <1>6 DEF DisablePrincipal
  <2>1. accounts' \in Seq(Account) /\ Len(accounts') = Len(accounts)
    BY <1>0, <2>a, <2>b, Replaced
  <2>2. QED
    BY <1>0, <1>6, <2>1 DEF UsersOK, DisablePrincipal
<1>7. QED
  BY <1>1, <1>2, <1>3, <1>4, <1>5, <1>6, UsersFrame

-----------------------------------------------------------------------------
(***************************************************************************)
(* Tokens.                                                                 *)
(***************************************************************************)
LEMMA TokensFrame ==
    ASSUME [Next]_vars
    PROVE  \/ \E p \in Procs : SweepAccess(p) \/ SweepSessions(p) \/ InsertAccess(p) \/ InsertSession(p)
                               \/ DeleteSession(p) \/ RevokeAccess(p) \/ RevokeSessions(p)
           \/ \E p \in Procs : \E t \in Given : Logout(p, t)
           \/ UNCHANGED <<issued, logins>>
<1>1. ASSUME NEW p \in Procs, Arrive(p)
      PROVE (\E t \in Given : Logout(p, t)) \/ UNCHANGED <<issued, logins>>
  BY <1>1 DEF Arrive, RegistrationEnabled, FindUser, Check, FindSession, DisablePrincipal, SetRegistration
<1>2. ASSUME NEW p \in Procs, Serve(p)
      PROVE \/ SweepAccess(p) \/ SweepSessions(p) \/ InsertAccess(p) \/ InsertSession(p)
            \/ DeleteSession(p) \/ RevokeAccess(p) \/ RevokeSessions(p)
            \/ UNCHANGED <<issued, logins>>
  BY <1>2 DEF Serve, CreateBrowserUser, BrowserUser, Fail, Success, Issue, IssueFails, UpdateHash, ResetFails
<1>3. QED
  BY <1>1, <1>2 DEF Next, Start, Migrate, Crash, Tick, vars

\* What no step changes in a token's row, and what it does.
Same(t) ==
    /\ tokens'[t].account = tokens[t].account /\ tokens'[t].at = tokens[t].at
    /\ tokens'[t].login = tokens[t].login /\ tokens'[t].password = tokens[t].password

\* A row whose marks are changed.
LEMMA RowChanged ==
    ASSUME tokens \in Seq(Token), NEW u \in DOMAIN tokens, NEW r \in Token,
           tokens' = [tokens EXCEPT ![u] = r],
           r.account = tokens[u].account, r.at = tokens[u].at, r.login = tokens[u].login,
           r.password = tokens[u].password
    PROVE  /\ tokens' \in Seq(Token) /\ Len(tokens') = Len(tokens)
           /\ \A t \in DOMAIN tokens : Same(t) /\ tokens'[t] = IF t = u THEN r ELSE tokens[t]
<1>1. /\ tokens' \in Seq(Token) /\ Len(tokens') = Len(tokens)
      /\ \A t \in DOMAIN tokens : tokens'[t] = IF t = u THEN r ELSE tokens[t]
  BY Replaced
<1>2. QED
  BY <1>1 DEF Same

KeepsRows ==
    /\ tokens' \in Seq(Token) /\ Len(tokens') = Len(tokens)
    /\ \A t \in DOMAIN tokens : Same(t)

LEMMA InsertSessionKeepsRows ==
    ASSUME Typed, NEW p \in Procs, InsertSession(p)
    PROVE  /\ KeepsRows
           /\ \A t \in DOMAIN tokens :
                /\ t # request[p].token => tokens'[t] = tokens[t]
                /\ tokens'[t].used = tokens[t].used /\ tokens'[t].revoked = tokens[t].revoked
           /\ tokens'[request[p].token].late = request[p].late
<1> DEFINE u == request[p].token
<1>1. tokens \in Seq(Token) /\ u \in DOMAIN tokens /\ request[p].late \in BOOLEAN
  BY DEF Typed, TokensOK, RequestsOK, Points, InsertSession, Request
<1>2. PICK reached \in BOOLEAN : tokens' = [tokens EXCEPT ![u].given = reached, ![u].late = request[p].late]
  BY DEF InsertSession
<1>3. PICK r : r = [tokens[u] EXCEPT !.given = reached, !.late = request[p].late]
  OBVIOUS
<1>4. tokens[u] \in Token
  BY <1>1
<1>5. /\ r \in Token /\ r.account = tokens[u].account /\ r.at = tokens[u].at /\ r.login = tokens[u].login
      /\ r.password = tokens[u].password /\ r.used = tokens[u].used /\ r.revoked = tokens[u].revoked
      /\ r.late = request[p].late
  BY <1>1, <1>3, <1>4 DEF Token
<1>6. tokens' = [tokens EXCEPT ![u] = r]
  BY <1>1, <1>2, <1>3, <1>4 DEF Token
<1>7. KeepsRows /\ \A t \in DOMAIN tokens : tokens'[t] = IF t = u THEN r ELSE tokens[t]
  BY <1>1, <1>5, <1>6, RowChanged DEF KeepsRows
<1>8. QED
  BY <1>1, <1>5, <1>7

\* A session that is used up or logged out.
LEMMA UsedKeepsRows ==
    ASSUME Typed, NEW t \in DOMAIN tokens, NEW b \in BOOLEAN, tokens' = [tokens EXCEPT ![t].used = b]
    PROVE  /\ KeepsRows
           /\ \A u \in DOMAIN tokens :
                /\ u # t => tokens'[u] = tokens[u]
                /\ tokens'[u].given = tokens[u].given /\ tokens'[u].revoked = tokens[u].revoked
                /\ tokens'[u].late = tokens[u].late
           /\ tokens'[t].used = b
<1>1. tokens \in Seq(Token) /\ tokens[t] \in Token
  BY DEF Typed, TokensOK
<1>2. PICK r : r = [tokens[t] EXCEPT !.used = b]
  OBVIOUS
<1>3. /\ r \in Token /\ r.account = tokens[t].account /\ r.at = tokens[t].at /\ r.login = tokens[t].login
      /\ r.password = tokens[t].password /\ r.given = tokens[t].given /\ r.revoked = tokens[t].revoked
      /\ r.late = tokens[t].late /\ r.used = b
  BY <1>1, <1>2 DEF Token
<1>4. tokens' = [tokens EXCEPT ![t] = r]
  BY <1>2
<1>5. KeepsRows /\ \A u \in DOMAIN tokens : tokens'[u] = IF u = t THEN r ELSE tokens[u]
  BY <1>1, <1>3, <1>4, RowChanged DEF KeepsRows
<1>6. QED
  BY <1>3, <1>5

LEMMA RevokedKeepsRows ==
    ASSUME Typed, NEW a, tokens' = Revoked(a)
    PROVE  /\ KeepsRows
           /\ \A t \in DOMAIN tokens :
                /\ tokens'[t].given = tokens[t].given /\ tokens'[t].used = tokens[t].used
                /\ tokens'[t].late = tokens[t].late
                /\ tokens[t].revoked \/ tokens[t].account = a => tokens'[t].revoked
                /\ tokens'[t].revoked => tokens[t].revoked \/ tokens[t].account = a
<1>1. tokens \in Seq(Token) /\ DOMAIN tokens = 1 .. Len(tokens) /\ Len(tokens) \in Nat
  BY DEF Typed, TokensOK
<1> DEFINE r(t) == [tokens[t] EXCEPT !.revoked = @ \/ tokens[t].account = a]
<1>2. \A t \in DOMAIN tokens :
         /\ r(t) \in Token /\ r(t).account = tokens[t].account /\ r(t).at = tokens[t].at
         /\ r(t).login = tokens[t].login /\ r(t).password = tokens[t].password
         /\ r(t).given = tokens[t].given /\ r(t).used = tokens[t].used /\ r(t).late = tokens[t].late
         /\ r(t).revoked = (tokens[t].revoked \/ tokens[t].account = a)
  <2> SUFFICES ASSUME NEW t \in DOMAIN tokens
               PROVE  /\ r(t) \in Token /\ r(t).account = tokens[t].account /\ r(t).at = tokens[t].at
                      /\ r(t).login = tokens[t].login /\ r(t).password = tokens[t].password
                      /\ r(t).given = tokens[t].given /\ r(t).used = tokens[t].used /\ r(t).late = tokens[t].late
                      /\ r(t).revoked = (tokens[t].revoked \/ tokens[t].account = a)
    OBVIOUS
  <2>1. tokens[t] \in Token
    BY <1>1
  <2>2. PICK b \in BOOLEAN : b = (tokens[t].revoked \/ tokens[t].account = a)
    BY <2>1 DEF Token
  <2>3. r(t) = [tokens[t] EXCEPT !.revoked = b]
    BY <2>2
  <2> HIDE DEF r
  <2>4. QED
    BY <2>1, <2>2, <2>3 DEF Token
<1>3. tokens' = [t \in 1 .. Len(tokens) |-> r(t)]
  BY <1>1 DEF Revoked
<1> HIDE DEF r
<1>4. tokens' \in Seq(Token) /\ Len(tokens') = Len(tokens)
  BY <1>1, <1>2, <1>3
<1>5. \A t \in DOMAIN tokens : tokens'[t] = r(t)
  BY <1>1, <1>3
<1>6. \A t \in DOMAIN tokens : Same(t)
  BY <1>2, <1>5 DEF Same
<1>7. QED
  BY <1>2, <1>4, <1>5, <1>6 DEF KeepsRows

\* The one step that adds a row.
LEMMA InsertAccessAdds ==
    ASSUME Typed, NEW p \in Procs, InsertAccess(p)
    PROVE  LET t == Len(tokens) + 1  r == request[p] IN
           /\ tokens' \in Seq(Token) /\ Len(tokens') = t
           /\ \A u \in DOMAIN tokens : tokens'[u] = tokens[u]
           /\ t \in DOMAIN tokens' /\ t \notin DOMAIN tokens /\ DOMAIN tokens' = DOMAIN tokens \cup {t}
           /\ tokens'[t].account = r.account /\ tokens'[t].at = r.now /\ tokens'[t].late = r.late
           /\ tokens'[t].login = (IF r.cookie = None THEN t ELSE tokens[r.cookie].login)
           /\ tokens'[t].password = PasswordOf(p)
           /\ ~tokens'[t].given /\ ~tokens'[t].used /\ ~tokens'[t].revoked
<1> DEFINE r == request[p]
<1>1. PICK t : t = Len(tokens) + 1
  OBVIOUS
<1>2. tokens \in Seq(Token) /\ Len(tokens) \in Nat /\ r \in Request /\ t \in Nat
  BY <1>1 DEF Typed, TokensOK
<1>3. PICK login : login = IF r.cookie = None THEN t ELSE tokens[r.cookie].login
  OBVIOUS
<1>4. r.at = "insert_access" /\ r.kind \in Public /\ (r.kind = "refresh" <=> r.cookie # None)
      /\ (r.cookie # None => r.cookie \in DOMAIN tokens) /\ (r.kind \in {"register", "login"} => r.password # 0)
  BY DEF InsertAccess, Typed, RequestsOK, Fits, Points, Issuing
<1>5. login \in Nat /\ PasswordOf(p) \in Passwords
  <2>1. CASE r.cookie = None
    BY <1>2, <1>3, <1>4, <2>1 DEF Public, PasswordOf, Request
  <2>2. CASE r.cookie # None
    <3>1. tokens[r.cookie] \in Token
      BY <1>2, <1>4, <2>2
    <3>2. QED
      BY <1>3, <2>2, <3>1 DEF PasswordOf, Token
  <2>3. QED
    BY <2>1, <2>2
<1>6. PICK row : row = [account |-> r.account, at |-> r.now, late |-> r.late, login |-> login,
                        password |-> PasswordOf(p), given |-> FALSE, used |-> FALSE, revoked |-> FALSE]
  OBVIOUS
<1>7. row \in Token
  BY <1>2, <1>5, <1>6 DEF Token, Request
<1>8. tokens' = Append(tokens, row)
  BY <1>1, <1>3, <1>6 DEF InsertAccess, PasswordOf
<1>9. /\ tokens' \in Seq(Token) /\ Len(tokens') = t /\ tokens'[t] = row
      /\ \A u \in DOMAIN tokens : tokens'[u] = tokens[u]
      /\ t \in DOMAIN tokens' /\ t \notin DOMAIN tokens /\ DOMAIN tokens' = DOMAIN tokens \cup {t}
  BY <1>1, <1>2, <1>7, <1>8
<1>10. /\ row.account = r.account /\ row.at = r.now /\ row.late = r.late /\ row.login = login
       /\ row.password = PasswordOf(p) /\ ~row.given /\ ~row.used /\ ~row.revoked
  BY <1>6
<1>11. QED
  BY <1>1, <1>3, <1>9, <1>10

\* Every other step keeps the rows.
LEMMA RowsKept ==
    ASSUME Typed, [Next]_vars, ~ \E p \in Procs : InsertAccess(p)
    PROVE  KeepsRows
<1>0. tokens \in Seq(Token) /\ request \in [Procs -> Request]
  BY DEF Typed, TokensOK
<1>1. CASE UNCHANGED tokens
  BY <1>0, <1>1 DEF KeepsRows, Same
<1>2. ASSUME NEW p \in Procs, InsertSession(p) PROVE KeepsRows
  BY <1>2, InsertSessionKeepsRows
<1>3. ASSUME NEW p \in Procs, DeleteSession(p) PROVE KeepsRows
  <2>1. PICK t : t = request[p].cookie
    OBVIOUS
  <2>2. t \in DOMAIN tokens /\ tokens' = [tokens EXCEPT ![t].used = TRUE]
    BY <1>3, <2>1 DEF Typed, RequestsOK, Points, DeleteSession, At
  <2>3. QED
    BY <2>2, UsedKeepsRows
<1>4. ASSUME NEW p \in Procs, NEW t \in Given, Logout(p, t) PROVE KeepsRows
  <2>1. tokens[t] \in Token
    BY <1>0 DEF Given
  <2>2. PICK b \in BOOLEAN : b = (tokens[t].used \/ t \in sessions)
    BY <2>1 DEF Token
  <2>3. t \in DOMAIN tokens /\ tokens' = [tokens EXCEPT ![t].used = b]
    BY <1>4, <2>2 DEF Logout, Given
  <2>4. QED
    BY <2>3, UsedKeepsRows
<1>5. ASSUME NEW p \in Procs, RevokeAccess(p) \/ RevokeSessions(p) PROVE KeepsRows
  <2>1. tokens' = Revoked(request[p].account)
    BY <1>5 DEF RevokeAccess, RevokeSessions
  <2>2. QED
    BY <2>1, RevokedKeepsRows
<1>6. QED
  BY <1>1, <1>2, <1>3, <1>4, <1>5, TokensFrame DEF SweepAccess, SweepSessions, issued

LEMMA TokensKept ==
    ASSUME Typed, [Next]_vars
    PROVE  TokensOK' /\ Len(tokens) <= Len(tokens') /\ \A t \in DOMAIN tokens : Same(t)
<1>0. /\ tokens \in Seq(Token) /\ access \subseteq DOMAIN tokens /\ sessions \subseteq DOMAIN tokens
      /\ \A t \in DOMAIN tokens : tokens[t].account \in DOMAIN accounts /\ tokens[t].login \in DOMAIN tokens
      /\ forked \subseteq DOMAIN tokens /\ ended \subseteq DOMAIN tokens
      /\ DOMAIN accounts \subseteq DOMAIN accounts'
  BY UsersKept DEF Typed, TokensOK
<1>1. ASSUME NEW p \in Procs, InsertAccess(p)
      PROVE  TokensOK' /\ Len(tokens) <= Len(tokens') /\ \A t \in DOMAIN tokens : Same(t)
  <2>1. PICK t : t = Len(tokens) + 1
    OBVIOUS
  <2>a. /\ tokens' \in Seq(Token) /\ Len(tokens') = t
        /\ \A u \in DOMAIN tokens : tokens'[u] = tokens[u]
        /\ DOMAIN tokens' = DOMAIN tokens \cup {t}
        /\ tokens'[t].account = request[p].account
        /\ tokens'[t].login = (IF request[p].cookie = None THEN t ELSE tokens[request[p].cookie].login)
    BY <1>1, <2>1, InsertAccessAdds
  <2>b. Len(tokens) <= Len(tokens')
    <3>1. Len(tokens) \in Nat
      BY <1>0
    <3>2. QED
      BY <2>1, <2>a, <3>1
  <2>2. /\ tokens' \in Seq(Token) /\ Len(tokens') = t /\ Len(tokens) <= Len(tokens')
        /\ \A u \in DOMAIN tokens : tokens'[u] = tokens[u]
        /\ DOMAIN tokens' = DOMAIN tokens \cup {t}
        /\ tokens'[t].account = request[p].account
        /\ tokens'[t].login = (IF request[p].cookie = None THEN t ELSE tokens[request[p].cookie].login)
    BY <2>a, <2>b
  <2>3. request[p].account \in DOMAIN accounts /\ request[p].cookie \in DOMAIN tokens \cup {None}
    BY <1>1 DEF Typed, RequestsOK, Points, InsertAccess, Issuing
  <2>4. access' = access \cup {t} /\ sessions' = sessions /\ forked' = forked /\ ended' = ended
    BY <1>1, <2>1 DEF InsertAccess, logins
  <2>5. \A u \in DOMAIN tokens' : tokens'[u].account \in DOMAIN accounts' /\ tokens'[u].login \in DOMAIN tokens'
    BY <1>0, <2>2, <2>3
  <2>6. TokensOK'
    BY <1>0, <2>2, <2>4, <2>5 DEF TokensOK
  <2>7. QED
    BY <2>2, <2>6 DEF Same
<1>2. CASE ~ \E p \in Procs : InsertAccess(p)
  <2>1. KeepsRows
    BY <1>2, RowsKept
  <2>2. access' \subseteq DOMAIN tokens /\ sessions' \subseteq DOMAIN tokens
        /\ forked' \subseteq DOMAIN tokens /\ ended' \subseteq DOMAIN tokens
    <3>1. CASE UNCHANGED <<issued, logins>>
      BY <1>0, <3>1 DEF issued, logins
    <3>2. ASSUME NEW p \in Procs, SweepAccess(p) \/ SweepSessions(p)
          PROVE access' \subseteq DOMAIN tokens /\ sessions' \subseteq DOMAIN tokens
                /\ forked' \subseteq DOMAIN tokens /\ ended' \subseteq DOMAIN tokens
      BY <1>0, <3>2 DEF SweepAccess, SweepSessions, logins
    <3>3. ASSUME NEW p \in Procs, InsertSession(p)
          PROVE access' \subseteq DOMAIN tokens /\ sessions' \subseteq DOMAIN tokens
                /\ forked' \subseteq DOMAIN tokens /\ ended' \subseteq DOMAIN tokens
      <4>1. request[p].token \in DOMAIN tokens
        BY <3>3 DEF Typed, RequestsOK, Points, InsertSession
      <4>2. QED
        BY <1>0, <3>3, <4>1 DEF InsertSession, logins
    <3>4. ASSUME NEW p \in Procs, DeleteSession(p)
          PROVE access' \subseteq DOMAIN tokens /\ sessions' \subseteq DOMAIN tokens
                /\ forked' \subseteq DOMAIN tokens /\ ended' \subseteq DOMAIN tokens
      <4>1. request[p].cookie \in DOMAIN tokens
        BY <3>4 DEF Typed, RequestsOK, Points, DeleteSession, At
      <4>2. QED
        BY <1>0, <3>4, <4>1 DEF DeleteSession
    <3>5. ASSUME NEW p \in Procs, RevokeAccess(p) \/ RevokeSessions(p)
          PROVE access' \subseteq DOMAIN tokens /\ sessions' \subseteq DOMAIN tokens
                /\ forked' \subseteq DOMAIN tokens /\ ended' \subseteq DOMAIN tokens
      BY <1>0, <3>5 DEF RevokeAccess, RevokeSessions, OfOthers, logins
    <3>6. ASSUME NEW p \in Procs, NEW t \in Given, Logout(p, t)
          PROVE access' \subseteq DOMAIN tokens /\ sessions' \subseteq DOMAIN tokens
                /\ forked' \subseteq DOMAIN tokens /\ ended' \subseteq DOMAIN tokens
      BY <1>0, <3>6 DEF Logout, Given
    <3>7. QED
      BY <1>2, <3>1, <3>2, <3>3, <3>4, <3>5, <3>6, TokensFrame
  <2>3. DOMAIN tokens' = DOMAIN tokens /\ Len(tokens') = Len(tokens) /\ Len(tokens) \in Nat
    BY <1>0, <2>1 DEF KeepsRows
  <2>4. \A t \in DOMAIN tokens' : tokens'[t].account \in DOMAIN accounts' /\ tokens'[t].login \in DOMAIN tokens'
    BY <1>0, <2>1, <2>3 DEF KeepsRows, Same
  <2>5. TokensOK'
    BY <2>1, <2>2, <2>3, <2>4 DEF TokensOK, KeepsRows
  <2>6. QED
    BY <2>1, <2>3, <2>5 DEF KeepsRows
<1>3. QED
  BY <1>1, <1>2

-----------------------------------------------------------------------------
(***************************************************************************)
(* The clock and the guard.                                                *)
(***************************************************************************)
LEMMA ClockKept ==
    ASSUME Typed, [Next]_vars
    PROVE  clock' \in 0 .. MaxTime /\ served' \in 0 .. MaxRequests /\ clock <= clock'
<1>0. clock \in 0 .. MaxTime /\ served \in 0 .. MaxRequests
  BY DEF Typed, BoundsOK
<1>1. CASE Tick
  BY <1>0, <1>1, AccountsAssumption DEF Tick
<1>2. CASE Start \/ Migrate \/ Crash \/ UNCHANGED vars
  BY <1>0, <1>2, AccountsAssumption DEF Start, Migrate, Crash, bounds, vars
<1>3. ASSUME NEW p \in Procs, Arrive(p)
      PROVE clock' \in 0 .. MaxTime /\ served' \in 0 .. MaxRequests /\ clock <= clock'
  <2>1. Begin(p) /\ clock' = clock
    BY <1>3 DEF Arrive, RegistrationEnabled, FindUser, Check, FindSession, Logout, DisablePrincipal, SetRegistration
  <2>2. QED
    BY <1>0, <2>1, AccountsAssumption DEF Begin
<1>4. ASSUME NEW p \in Procs, Serve(p)
      PROVE clock' \in 0 .. MaxTime /\ served' \in 0 .. MaxRequests /\ clock <= clock'
  <2>1. clock' = clock /\ served' = served
    BY <1>4 DEF Serve, CreateBrowserUser, BrowserUser, Fail, Success, Issue, SweepAccess, SweepSessions,
       InsertAccess, InsertSession, IssueFails, DeleteSession, UpdateHash, RevokeAccess, RevokeSessions,
       ResetFails, bounds
  <2>2. QED
    BY <1>0, <2>1
<1>5. QED
  BY <1>1, <1>2, <1>3, <1>4 DEF Next

LEMMA GuardFrame ==
    ASSUME [Next]_vars
    PROVE  \/ Crash
           \/ \E p \in Procs : Fail(p) \/ Success(p)
           \/ \E p \in Procs : \E n \in Names : \E w \in 1 .. (resets + 1) : Check(p, n, w)
           \/ UNCHANGED <<attempts, misses>>
<1>1. ASSUME NEW p \in Procs, Arrive(p)
      PROVE (\E n \in Names : \E w \in 1 .. (resets + 1) : Check(p, n, w)) \/ UNCHANGED <<attempts, misses>>
  BY <1>1 DEF Arrive, RegistrationEnabled, FindUser, FindSession, Logout, DisablePrincipal, SetRegistration
<1>2. ASSUME NEW p \in Procs, Serve(p) PROVE Fail(p) \/ Success(p) \/ UNCHANGED <<attempts, misses>>
  BY <1>2 DEF Serve, CreateBrowserUser, BrowserUser, Issue, SweepAccess, SweepSessions,
     InsertAccess, InsertSession, IssueFails, DeleteSession, UpdateHash, RevokeAccess, RevokeSessions, ResetFails
<1>3. QED
  BY <1>1, <1>2 DEF Next, Start, Migrate, Tick, vars

\* What the guard keeps of a name after a check.
LEMMA CheckedIs ==
    ASSUME Typed, NEW n \in Names
    PROVE  /\ attempts[n] \in Entry
           /\ Checked(attempts[n]) \in Entry /\ Began(Checked(attempts[n]), clock)
           /\ Checked(attempts[n]).since \in 0 .. clock
           /\ Checked(attempts[n]) = attempts[n] \/ Checked(attempts[n]) = [count |-> 0, since |-> clock]
<1>1. attempts[n] \in Entry /\ Began(attempts[n], clock) /\ clock \in 0 .. MaxTime
  BY DEF Typed, GuardOK, BoundsOK
<1>2. PICK e : e = [count |-> 0, since |-> clock]
  OBVIOUS
<1>3. e \in Entry /\ Began(e, clock) /\ e.since \in 0 .. clock
  BY <1>1, <1>2 DEF Entry, Began
<1>4. Checked(attempts[n]) = e \/ (Checked(attempts[n]) = attempts[n] /\ attempts[n] # Fresh)
  BY <1>2 DEF Checked
<1>5. attempts[n] # Fresh => attempts[n].since \in 0 .. clock
  BY <1>1 DEF Entry, Began
<1>6. QED
  BY <1>1, <1>2, <1>3, <1>4, <1>5

LEMMA GuardKept ==
    ASSUME Typed, [Next]_vars
    PROVE  GuardOK'
<1>c. /\ attempts \in [Names -> Entry] /\ misses \in [Names -> [0 .. MaxTime -> Nat]]
      /\ \A n \in Names : Began(attempts[n], clock)
      /\ clock \in 0 .. MaxTime
  BY DEF Typed, GuardOK, BoundsOK
<1>d. clock' \in 0 .. MaxTime /\ clock <= clock'
  BY ClockKept
<1>e. Fresh \in Entry /\ \A now \in Nat : Began(Fresh, now)
  BY AccountsAssumption DEF Entry, Fresh, Began
<1>f. NoMisses \in [0 .. MaxTime -> Nat]
  BY DEF NoMisses
<1>0. /\ attempts \in [Names -> Entry] /\ misses \in [Names -> [0 .. MaxTime -> Nat]]
      /\ \A n \in Names : Began(attempts[n], clock)
      /\ clock \in 0 .. MaxTime /\ clock' \in 0 .. MaxTime /\ clock <= clock'
      /\ Fresh \in Entry /\ (\A now \in Nat : Began(Fresh, now)) /\ NoMisses \in [0 .. MaxTime -> Nat]
  BY <1>c, <1>d, <1>e, <1>f
<1>a. \A n \in Names : attempts[n] \in Entry /\ attempts[n].since \in -1 .. MaxTime /\ attempts[n].count \in Nat
  BY <1>0 DEF Entry
<1>b. ASSUME attempts' \in [Names -> Entry], \A n \in Names : Began(attempts'[n], clock'),
             misses' \in [Names -> [0 .. MaxTime -> Nat]]
      PROVE  GuardOK'
  BY <1>b DEF GuardOK
<1>1. CASE UNCHANGED <<attempts, misses>>
  <2>1. \A n \in Names : Began(attempts[n], clock')
    BY <1>0, <1>a DEF Began
  <2>2. QED
    BY <1>0, <1>1, <1>b, <2>1
<1>2. CASE Crash
  <2>1. \A n \in Names : attempts'[n] = Fresh /\ misses'[n] = NoMisses
    BY <1>2 DEF Crash
  <2>2. attempts' \in [Names -> Entry] /\ misses' \in [Names -> [0 .. MaxTime -> Nat]]
    BY <1>0, <1>2 DEF Crash
  <2>3. QED
    BY <1>0, <1>b, <2>1, <2>2
<1>3. ASSUME NEW p \in Procs, NEW n \in Names, NEW w \in 1 .. (resets + 1), Check(p, n, w) PROVE GuardOK'
  <2>1. attempts' = [attempts EXCEPT ![n] = Checked(attempts[n])] /\ misses' = misses /\ clock' = clock
    BY <1>3 DEF Check
  <2>2. Checked(attempts[n]) \in Entry /\ Began(Checked(attempts[n]), clock)
    BY CheckedIs
  <2>3. QED
    BY <1>0, <1>b, <2>1, <2>2
<1>4. ASSUME NEW p \in Procs, Fail(p) PROVE GuardOK'
  <2>0. PICK n \in Names : n = request[p].name
    BY DEF Typed, Request
  <2>1. PICK e : e = IF attempts[n] = Fresh THEN [count |-> 1, since |-> clock]
                     ELSE [count |-> attempts[n].count + 1, since |-> attempts[n].since]
    OBVIOUS
  <2>2. e \in Entry /\ Began(e, clock)
    <3>1. CASE attempts[n] = Fresh
      BY <1>0, <2>1, <3>1 DEF Entry, Began
    <3>2. CASE attempts[n] # Fresh
      <4>1. attempts[n] \in Entry /\ Began(attempts[n], clock) /\ e = [count |-> attempts[n].count + 1, since |-> attempts[n].since]
        BY <1>0, <2>1, <3>2
      <4>2. e.since = attempts[n].since /\ e \in Entry
        BY <4>1 DEF Entry
      <4>3. QED
        BY <1>a, <3>2, <4>1, <4>2 DEF Began
    <3>3. QED
      BY <3>1, <3>2
  <2>e. clock' = clock
    BY <1>4 DEF Fail, bounds
  <2>f. attempts' = [attempts EXCEPT ![n] = IF attempts[n] = Fresh THEN [count |-> 1, since |-> clock]
                         ELSE [count |-> attempts[n].count + 1, since |-> attempts[n].since]]
    BY <1>4, <2>0 DEF Fail
  <2>3. attempts' = [attempts EXCEPT ![n] = e] /\ clock' = clock
    BY <2>1, <2>e, <2>f
  <2>a. PICK now \in 0 .. MaxTime : now = request[p].now
    <3>1. request[p].now \in Nat /\ request[p].now <= clock
      BY DEF Typed, RequestsOK, Points, Request
    <3>2. clock \in Nat /\ clock <= MaxTime /\ MaxTime \in Nat
      BY <1>0, AccountsAssumption
    <3>3. QED
      BY <3>1, <3>2
  <2>b. misses' = [misses EXCEPT ![n] = [misses[n] EXCEPT ![now] = misses[n][now] + 1]]
    BY <1>4, <2>0, <2>a DEF Fail
  <2>g. misses[n] \in [0 .. MaxTime -> Nat]
    BY <1>0
  <2>h. misses[n][now] \in Nat
    BY <2>g
  <2>c. misses[n] \in [0 .. MaxTime -> Nat] /\ misses[n][now] + 1 \in Nat
    BY <2>g, <2>h
  <2>d. [misses[n] EXCEPT ![now] = misses[n][now] + 1] \in [0 .. MaxTime -> Nat]
    BY <2>c
  <2>4. misses' \in [Names -> [0 .. MaxTime -> Nat]]
    BY <1>0, <2>b, <2>d
  <2>5. QED
    BY <1>0, <1>b, <2>2, <2>3, <2>4
<1>5. ASSUME NEW p \in Procs, Success(p) PROVE GuardOK'
  <2>1. request[p].name \in Names
    BY DEF Typed, Request
  <2>2. attempts' = [attempts EXCEPT ![request[p].name] = Fresh] /\ clock' = clock
        /\ misses' = [misses EXCEPT ![request[p].name] = NoMisses]
    BY <1>5 DEF Success, bounds
  <2>3. QED
    BY <1>0, <1>b, <2>1, <2>2
<1>6. QED
  BY <1>1, <1>2, <1>3, <1>4, <1>5, GuardFrame

-----------------------------------------------------------------------------
(***************************************************************************)
(* Requests.                                                               *)
(***************************************************************************)
LEMMA NoRequestIs ==
    /\ NoRequest \in Request /\ Fits(NoRequest)
    /\ NoRequest.at = "idle" /\ NoRequest.kind = "none" /\ NoRequest.account = None /\ NoRequest.cookie = None
    /\ NoRequest.now = 0 /\ NoRequest.password = 0 /\ ~NoRequest.late
<1>1. (CHOOSE n \in Names : TRUE) \in Names
  BY AccountsAssumption
<1>2. NoRequest \in Request
  BY <1>1 DEF NoRequest, Request, Places, Kinds, None
<1>3. QED
  BY <1>2 DEF NoRequest, Fits, Admitted, Revoking, Issuing, None

\* What a request points to stays.
LEMMA PointsKept ==
    ASSUME Typed, [Next]_vars, NEW r, Points(r), r.now \in Nat
    PROVE  Points(r)'
<1>1. /\ Len(tokens) <= Len(tokens') /\ tokens \in Seq(Token) /\ tokens' \in Seq(Token)
      /\ DOMAIN accounts \subseteq DOMAIN accounts'
  BY TokensKept, UsersKept DEF TokensOK, Typed
<1>2. DOMAIN tokens \subseteq DOMAIN tokens'
  BY <1>1
<1>3. clock <= clock' /\ clock \in Nat /\ clock' \in Nat
  BY ClockKept DEF Typed, BoundsOK
<1>4. QED
  BY <1>1, <1>2, <1>3 DEF Points

\* What a step makes of the request that takes it, UpdateHash apart.
Becomes(p, r) ==
    /\ request' = [request EXCEPT ![p] = r]
    /\ r \in Request /\ Fits(r) /\ Points(r)'

LEMMA Finishes ==
    ASSUME Typed, [Next]_vars, NEW p \in Procs, Finish(p)
    PROVE  Becomes(p, NoRequest)
<1>1. Points(NoRequest)
  BY NoRequestIs DEF Points, Typed, BoundsOK, Issuing, Revoking
<1>2. PICK r : r = NoRequest
  OBVIOUS
<1>3. Points(r)'
  BY <1>1, <1>2, NoRequestIs, PointsKept
<1>4. QED
  BY <1>2, <1>3, NoRequestIs DEF Finish, Becomes

LEMMA Arrives ==
    ASSUME Typed, [Next]_vars, NEW p \in Procs, Arrive(p)
    PROVE  UNCHANGED request \/ \E r : Becomes(p, r)
<1>0. /\ accounts \in Seq(Account) /\ tokens \in Seq(Token) /\ clock \in Nat /\ clock \in 0 .. MaxTime
      /\ resets \in 0 .. MaxResets
      /\ \A t \in DOMAIN tokens : tokens[t].account \in DOMAIN accounts
  BY DEF Typed, UsersOK, TokensOK, BoundsOK
<1>1. ASSUME NEW n \in Names, RegistrationEnabled(p, n) PROVE UNCHANGED request \/ \E r : Becomes(p, r)
  <2>1. PICK r : r = [NoRequest EXCEPT !.at = "insert_user", !.kind = "register", !.name = n, !.password = 1]
    OBVIOUS
  <2>a. 1 \in Passwords
    BY AccountsAssumption DEF Passwords
  <2>b. r \in Request /\ r.at = "insert_user" /\ r.kind = "register" /\ r.password = 1 /\ r.account = None
        /\ r.cookie = None /\ r.now = 0
    BY <2>1, <2>a, NoRequestIs DEF Request, Places, Kinds
  <2>2. r \in Request /\ Fits(r) /\ Points(r) /\ r.now \in Nat
    BY <1>0, <2>b DEF Fits, Points, Admitted, Issuing, Revoking, Public
  <2>3. Points(r)'
    BY <2>2, PointsKept
  <2>4. QED
    BY <1>1, <2>1, <2>2, <2>3 DEF RegistrationEnabled, Continue, Becomes
<1>2. ASSUME NEW n \in Names, FindUser(p, n) PROVE UNCHANGED request \/ \E r : Becomes(p, r)
  <2>0. CASE RowOf(n) = None
    BY <1>2, <2>0 DEF FindUser
  <2>a. CASE RowOf(n) # None
    <3>1. PICK r : r = [NoRequest EXCEPT !.at = "update_hash", !.kind = "reset", !.account = RowOf(n)]
      OBVIOUS
    <3>2. RowOf(n) \in DOMAIN accounts /\ RowOf(n) \in Nat
      BY <1>0, <2>a, RowFound
    <3>a. r \in Request /\ r.at = "update_hash" /\ r.kind = "reset" /\ r.account = RowOf(n)
          /\ r.cookie = None /\ r.now = 0
      BY <3>1, <3>2, NoRequestIs DEF Request, Places, Kinds
    <3>3. r \in Request /\ Fits(r) /\ Points(r) /\ r.now \in Nat
      BY <1>0, <2>a, <3>2, <3>a DEF Fits, Points, Admitted, Issuing, Revoking, Public
    <3>4. Points(r)'
      BY <3>3, PointsKept
    <3>5. QED
      BY <1>2, <2>a, <3>1, <3>3, <3>4 DEF FindUser, Continue, Becomes
  <2>b. QED
    BY <2>0, <2>a
<1>3. ASSUME NEW n \in Names, NEW w \in 1 .. (resets + 1), Check(p, n, w)
      PROVE UNCHANGED request \/ \E r : Becomes(p, r)
  <2>1. PICK e : e = Checked(attempts[n])
    OBVIOUS
  <2>2. e.since \in 0 .. clock
    BY <2>1, CheckedIs
  <2>3. attempts'[n] = e
    BY <1>3, <2>1 DEF Check, Typed, GuardOK
  <2>4. CASE ~ (e.count < MaxFails)
    BY <1>3, <2>3, <2>4 DEF Check
  <2>5. CASE e.count < MaxFails
    <3>1. PICK r : r = [NoRequest EXCEPT !.at = "find_user", !.kind = "login", !.name = n, !.password = w,
                            !.now = e.since]
      OBVIOUS
    <3>2. e.since \in Nat /\ e.since <= clock
      BY <1>0, <2>2
    <3>3. w \in Passwords /\ w # 0
      BY <1>0, AccountsAssumption DEF Passwords
    <3>a. r \in Request /\ r.at = "find_user" /\ r.kind = "login" /\ r.password = w /\ r.account = None
          /\ r.cookie = None /\ r.now = e.since
      BY <3>1, <3>2, <3>3, NoRequestIs DEF Request, Places, Kinds
    <3>4. r \in Request /\ Fits(r) /\ Points(r) /\ r.now \in Nat
      BY <1>0, <3>2, <3>3, <3>a DEF Fits, Points, Admitted, Issuing, Revoking, Public
    <3>5. Points(r)'
      BY <3>4, PointsKept
    <3>6. QED
      BY <1>3, <2>3, <2>5, <3>1, <3>4, <3>5 DEF Check, Continue, Becomes
  <2>6. QED
    BY <2>4, <2>5
<1>4. ASSUME NEW t \in Given, FindSession(p, t) PROVE UNCHANGED request \/ \E r : Becomes(p, r)
  <2>0. t \in DOMAIN tokens /\ tokens[t] \in Token /\ tokens[t].account \in DOMAIN accounts /\ t \in Nat /\ t # None
    BY <1>0 DEF Given, None
  <2>1. PICK late \in BOOLEAN : late = (tokens[t].late \/ Resetting(tokens[t].account))
    BY <2>0 DEF Token, Resetting
  <2>2. PICK r : r = [NoRequest EXCEPT !.at = "delete_session", !.kind = "refresh", !.cookie = t,
                          !.account = tokens[t].account, !.late = late]
    OBVIOUS
  <2>3. tokens[t].account \in Nat /\ tokens[t].account # None
    BY <1>0, <2>0 DEF None
  <2>a. r \in Request /\ r.at = "delete_session" /\ r.kind = "refresh" /\ r.account = tokens[t].account
        /\ r.cookie = t /\ r.now = 0
    BY <2>0, <2>2, <2>3, NoRequestIs DEF Request, Places, Kinds
  <2>4. r \in Request /\ Fits(r) /\ Points(r) /\ r.now \in Nat
    BY <1>0, <2>0, <2>3, <2>a DEF Fits, Points, Admitted, Issuing, Revoking, Public
  <2>5. Points(r)'
    BY <2>4, PointsKept
  <2>6. QED
    BY <1>4, <2>1, <2>2, <2>4, <2>5 DEF FindSession, Continue, Becomes
<1>5. QED
  BY <1>1, <1>2, <1>3, <1>4 DEF Arrive, Logout, DisablePrincipal, SetRegistration

\* A request that goes on with another statement keeps what it holds.
LEMMA GoesTo ==
    ASSUME Typed, [Next]_vars, NEW p \in Procs, NEW place \in Places, Goto(p, place),
           \/ /\ request[p].at \in Issuing \cup {"delete_session"}
              /\ place \in Issuing \ {"insert_session"}
           \/ /\ request[p].at = "count" /\ place = "issue" /\ request[p].account # None
           \/ /\ request[p].at \in Revoking /\ place \in Revoking
    PROVE  \E r : Becomes(p, r) /\ r = [request[p] EXCEPT !.at = place]
<1>1. PICK r : r = [request[p] EXCEPT !.at = place]
  OBVIOUS
<1>2. request[p] \in Request /\ Fits(request[p]) /\ Points(request[p])
  BY DEF Typed, RequestsOK
<1>3. r \in Request /\ r.now \in Nat
  BY <1>1, <1>2 DEF Request
<1>4. /\ r.at = place /\ r.kind = request[p].kind /\ r.password = request[p].password
      /\ r.account = request[p].account /\ r.cookie = request[p].cookie /\ r.now = request[p].now
  BY <1>1, <1>2 DEF Request
<1>5. Fits(r)
  BY <1>2, <1>4 DEF Fits, Issuing, Revoking, Admitted, Public
<1>6. Points(r)
  BY <1>2, <1>4 DEF Points, Issuing, Revoking
<1>7. Points(r)'
  BY <1>3, <1>6, PointsKept
<1>8. request' = [request EXCEPT ![p] = r]
  BY <1>1, <1>2 DEF Goto, Typed
<1>9. QED
  BY <1>1, <1>3, <1>5, <1>7, <1>8 DEF Becomes

LEMMA Serves ==
    ASSUME Typed, [Next]_vars, NEW p \in Procs, Serve(p), ~UpdateHash(p)
    PROVE  \E r : Becomes(p, r)
<1>0. /\ accounts \in Seq(Account) /\ tokens \in Seq(Token) /\ clock \in Nat
      /\ request \in [Procs -> Request] /\ request[p] \in Request /\ Fits(request[p]) /\ Points(request[p])
  BY DEF Typed, UsersOK, TokensOK, BoundsOK, RequestsOK
<1>1. CASE Finish(p)
  BY <1>1, Finishes
<1>2. CASE CreateBrowserUser(p)
  <2>1. CASE Finish(p)
    BY <2>1, <1>1
  <2>2. CASE ~Finish(p)
    <3>1. PICK a : a = Len(accounts')
      OBVIOUS
    <3>2. PICK r : r = [request[p] EXCEPT !.at = "issue", !.account = a]
      OBVIOUS
    <3>3. request' = [request EXCEPT ![p] = r] /\ request[p].at = "insert_user" /\ request[p].kind = "register"
      BY <1>0, <1>2, <2>2, <3>1, <3>2 DEF CreateBrowserUser, At
    <3>a. \E e : accounts' = Append(accounts, e)
      BY <1>2, <2>2 DEF CreateBrowserUser
    <3>b. accounts' \in Seq(Account)
      BY UsersKept DEF UsersOK
    <3>4. a \in DOMAIN accounts' /\ a \in Nat /\ a # None
      BY <1>0, <3>1, <3>a, <3>b DEF None
    <3>5. r \in Request /\ r.at = "issue" /\ r.kind = "register" /\ r.password = request[p].password
          /\ r.account = a /\ r.cookie = request[p].cookie /\ r.now = request[p].now
      BY <1>0, <3>2, <3>3, <3>4 DEF Request, Places
    <3>6. Fits(r)
      BY <1>0, <3>3, <3>5 DEF Fits, Issuing, Revoking, Admitted, Public
    <3>c. tokens' = tokens /\ clock' = clock
      BY <1>2 DEF CreateBrowserUser, issued, bounds
    <3>7. Points(r)'
      BY <1>0, <3>3, <3>4, <3>5, <3>c DEF Points, Issuing, Revoking
    <3>8. QED
      BY <3>3, <3>5, <3>6, <3>7 DEF Becomes
  <2>3. QED
    BY <2>1, <2>2
<1>3. CASE BrowserUser(p)
  <2>1. CASE Finish(p)
    BY <2>1, <1>1
  <2>2. CASE ~Finish(p)
    <3>1. PICK a : a = IF RowOf(request[p].name) # None /\ accounts[RowOf(request[p].name)].password = request[p].password
                       THEN RowOf(request[p].name) ELSE None
      OBVIOUS
    <3>2. PICK r : r = [request[p] EXCEPT !.at = "count", !.account = a]
      OBVIOUS
    <3>3. request' = [request EXCEPT ![p] = r] /\ request[p].at = "find_user" /\ request[p].kind = "login"
      BY <1>0, <1>3, <2>2, <3>1, <3>2 DEF BrowserUser, At
    <3>4. a \in DOMAIN accounts \cup {None} /\ a \in Nat
      BY <1>0, <3>1, RowFound DEF None
    <3>5. r \in Request /\ r.at = "count" /\ r.kind = "login" /\ r.password = request[p].password
          /\ r.account = a /\ r.cookie = request[p].cookie /\ r.now = request[p].now /\ r.now \in Nat
      BY <1>0, <3>2, <3>3, <3>4 DEF Request, Places
    <3>6. Fits(r)
      BY <1>0, <3>3, <3>5 DEF Fits, Issuing, Revoking, Admitted, Public
    <3>7. Points(r)
      BY <1>0, <3>3, <3>4, <3>5 DEF Points, Issuing, Revoking
    <3>8. Points(r)'
      BY <3>5, <3>7, PointsKept
    <3>9. QED
      BY <3>3, <3>5, <3>6, <3>8 DEF Becomes
  <2>3. QED
    BY <2>1, <2>2
<1>4. CASE Success(p) \/ DeleteSession(p) \/ SweepAccess(p) \/ SweepSessions(p) \/ RevokeAccess(p)
  <2>1. PICK place \in {"issue", "sweep_sessions", "insert_access", "revoke_sessions"} :
            /\ Goto(p, place)
            /\ \/ request[p].at = "count" /\ place = "issue" /\ request[p].account # None
               \/ request[p].at \in Issuing \cup {"delete_session"} /\ place \in Issuing \ {"insert_session"}
               \/ request[p].at \in Revoking /\ place \in Revoking
    BY <1>4 DEF Success, DeleteSession, SweepAccess, SweepSessions, RevokeAccess, At, Issuing, Revoking
  <2>2. place \in Places
    BY DEF Places
  <2>3. QED
    BY <2>1, <2>2, GoesTo
<1>5. CASE Issue(p)
  <2>1. PICK now : now = clock
    OBVIOUS
  <2>2. PICK r : r = [request[p] EXCEPT !.at = "sweep_access", !.now = now]
    OBVIOUS
  <2>3. request' = [request EXCEPT ![p] = r] /\ request[p].at = "issue"
    BY <1>0, <1>5, <2>1, <2>2 DEF Issue
  <2>4. r \in Request /\ r.at = "sweep_access" /\ r.kind = request[p].kind /\ r.password = request[p].password
        /\ r.account = request[p].account /\ r.cookie = request[p].cookie /\ r.now = now /\ r.now \in Nat
    BY <1>0, <2>1, <2>2 DEF Request, Places
  <2>5. Fits(r)
    BY <1>0, <2>3, <2>4 DEF Fits, Issuing, Revoking, Admitted, Public
  <2>6. Points(r)
    BY <1>0, <2>1, <2>3, <2>4 DEF Points, Issuing, Revoking
  <2>7. Points(r)'
    BY <2>4, <2>6, PointsKept
  <2>8. QED
    BY <2>3, <2>4, <2>5, <2>7 DEF Becomes
<1>6. CASE InsertAccess(p)
  <2>1. PICK t : t = Len(tokens) + 1
    OBVIOUS
  <2>2. PICK r : r = [request[p] EXCEPT !.at = "insert_session", !.token = t]
    OBVIOUS
  <2>3. request' = [request EXCEPT ![p] = r] /\ request[p].at = "insert_access"
    BY <1>0, <1>6, <2>1, <2>2 DEF InsertAccess
  <2>4. t \in DOMAIN tokens'
    BY <1>6, <2>1, InsertAccessAdds
  <2>a. t \in Nat
    BY <1>0, <2>1
  <2>5. r \in Request /\ r.at = "insert_session" /\ r.kind = request[p].kind /\ r.password = request[p].password
        /\ r.account = request[p].account /\ r.cookie = request[p].cookie /\ r.now = request[p].now /\ r.token = t
    BY <1>0, <2>a, <2>2 DEF Request, Places
  <2>6. Fits(r)
    BY <1>0, <2>3, <2>5 DEF Fits, Issuing, Revoking, Admitted, Public
  <2>b. request[p].now \in Nat
    BY <1>0 DEF Request
  <2>c. PICK r0 : r0 = request[p]
    OBVIOUS
  <2>d. Points(r0)'
    BY <1>0, <2>b, <2>c, PointsKept
  <2>7. Points(r)'
    BY <2>3, <2>4, <2>5, <2>c, <2>d DEF Points, Issuing, Revoking
  <2>8. QED
    BY <2>3, <2>5, <2>6, <2>7 DEF Becomes
<1>7. QED
  BY <1>1, <1>2, <1>3, <1>4, <1>5, <1>6
     DEF Serve, Fail, InsertSession, IssueFails, RevokeSessions, ResetFails

\* What a step does to the requests.
LEMMA StepOf ==
    ASSUME Typed, [Next]_vars
    PROVE  \/ UNCHANGED request
           \/ Crash
           \/ \E p \in Procs : UpdateHash(p)
           \/ \E p \in Procs : \E r : Becomes(p, r) /\ (Arrive(p) \/ Serve(p))
BY Arrives, Serves DEF Next, Start, Migrate, Tick, vars

\* A reset marks those about to issue tokens for the account, and goes on.
LEMMA UpdateHashMarks ==
    ASSUME Typed, NEW p \in Procs, UpdateHash(p)
    PROVE  /\ request' \in [Procs -> Request]
           /\ \A q \in Procs \ {p} :
                /\ request'[q] = request[q] \/ request'[q] = [request[q] EXCEPT !.late = TRUE]
                /\ request'[q].late <=>
                     request[q].late \/ (request[q].account = request[p].account /\ request[q].kind \in Public)
                /\ request'[q].at = request[q].at /\ request'[q].kind = request[q].kind
                /\ request'[q].name = request[q].name /\ request'[q].password = request[q].password
                /\ request'[q].account = request[q].account /\ request'[q].cookie = request[q].cookie
                /\ request'[q].now = request[q].now /\ request'[q].token = request[q].token
           /\ request'[p].at = "revoke_access" /\ request'[p].kind = "reset"
           /\ request'[p].password = resets + 2 /\ request'[p].password \in Passwords
           /\ request'[p].account = request[p].account /\ request'[p].cookie = request[p].cookie
           /\ request'[p].now = request[p].now
<1>1. /\ request \in [Procs -> Request] /\ request[p].kind = "reset" /\ resets + 2 \in Passwords
  BY NewPassword DEF Typed, RequestsOK, Fits, UpdateHash
<1>2. ASSUME NEW q \in Procs \ {p}
      PROVE  /\ request'[q] = request[q] \/ request'[q] = [request[q] EXCEPT !.late = TRUE]
             /\ request'[q] \in Request
             /\ request'[q].late <=>
                  request[q].late \/ (request[q].account = request[p].account /\ request[q].kind \in Public)
             /\ request'[q].at = request[q].at /\ request'[q].kind = request[q].kind
             /\ request'[q].name = request[q].name /\ request'[q].password = request[q].password
             /\ request'[q].account = request[q].account /\ request'[q].cookie = request[q].cookie
             /\ request'[q].now = request[q].now /\ request'[q].token = request[q].token
  <2>1. request[q] \in Request
    BY <1>1
  <2>2. PICK r : r = [request[q] EXCEPT !.late = TRUE]
    OBVIOUS
  <2>3. /\ r \in Request /\ r.late /\ r.at = request[q].at /\ r.kind = request[q].kind
        /\ r.name = request[q].name /\ r.password = request[q].password
        /\ r.account = request[q].account /\ r.cookie = request[q].cookie
        /\ r.now = request[q].now /\ r.token = request[q].token
    BY <2>1, <2>2 DEF Request
  <2>4. request'[q] = IF request[q].account = request[p].account /\ request[q].kind \in Public THEN r ELSE request[q]
    BY <2>2 DEF UpdateHash, Public
  <2>5. QED
    BY <2>1, <2>2, <2>3, <2>4
<1>3. PICK r : r = [request[p] EXCEPT !.at = "revoke_access", !.password = resets + 2]
  OBVIOUS
<1>4. request'[p] = r
  BY <1>3 DEF UpdateHash
<1>5. /\ r \in Request /\ r.at = "revoke_access" /\ r.kind = "reset" /\ r.password = resets + 2
      /\ r.account = request[p].account /\ r.cookie = request[p].cookie /\ r.now = request[p].now
  BY <1>1, <1>3 DEF Request, Places
<1>6. request' \in [Procs -> Request]
  <2>1. \A q \in Procs : request'[q] \in Request
    BY <1>2, <1>4, <1>5
  <2>2. request' = [q \in Procs |-> request'[q]]
    BY DEF UpdateHash
  <2>3. QED
    BY <2>1, <2>2, Zenon
<1>7. QED
  BY <1>1, <1>2, <1>4, <1>5, <1>6

LEMMA UpdateHashOthers ==
    ASSUME Typed, NEW p \in Procs, UpdateHash(p), NEW q \in Procs, q # p
    PROVE  /\ request'[q].at = request[q].at /\ request'[q].kind = request[q].kind
           /\ request'[q].name = request[q].name /\ request'[q].password = request[q].password
           /\ request'[q].account = request[q].account /\ request'[q].cookie = request[q].cookie
           /\ request'[q].now = request[q].now /\ request'[q].token = request[q].token
<1>1. q \in Procs \ {p}
  OBVIOUS
<1>2. QED
  BY <1>1, UpdateHashMarks

LEMMA RequestsKept ==
    ASSUME Typed, [Next]_vars
    PROVE  request' \in [Procs -> Request] /\ RequestsOK'
<1>0. request \in [Procs -> Request] /\ RequestsOK
  BY DEF Typed
<1>1. ASSUME NEW q \in Procs PROVE Points(request[q])'
        \/ request'[q] # request[q]
  <2>1. PICK r : r = request[q]
    OBVIOUS
  <2>2. Points(r) /\ r.now \in Nat
    BY <1>0, <2>1 DEF RequestsOK, Request
  <2>3. Points(r)'
    BY <2>2, PointsKept
  <2>4. QED
    BY <2>1, <2>3 DEF Points
<1>2. CASE UNCHANGED request
  BY <1>0, <1>1, <1>2 DEF RequestsOK, Fits
<1>3. CASE Crash
  <2>1. \A q \in Procs : request'[q] = NoRequest
    BY <1>3 DEF Crash
  <2>2. request' \in [Procs -> Request]
    BY <1>3, NoRequestIs DEF Crash
  <2>3. clock' \in Nat
    BY ClockKept
  <2>4. QED
    BY <2>1, <2>2, <2>3, NoRequestIs DEF RequestsOK, Points, Issuing, Revoking, Fits
<1>4. ASSUME NEW p \in Procs, NEW r, Becomes(p, r) PROVE request' \in [Procs -> Request] /\ RequestsOK'
  <2>1. request' \in [Procs -> Request] /\ request'[p] = r /\ \A q \in Procs \ {p} : request'[q] = request[q]
    BY <1>0, <1>4 DEF Becomes
  <2>2. \A q \in Procs : Fits(request'[q])
    BY <1>0, <1>4, <2>1 DEF Becomes, RequestsOK
  <2>3. \A q \in Procs : Points(request[q])'
    BY <1>1, <1>4, <2>1 DEF Becomes, Points
  <2>4. QED
    BY <2>1, <2>2, <2>3 DEF RequestsOK, Fits
<1>5. ASSUME NEW p \in Procs, UpdateHash(p) PROVE request' \in [Procs -> Request] /\ RequestsOK'
  <2>1. /\ tokens' = tokens /\ clock' = clock /\ DOMAIN accounts \subseteq DOMAIN accounts'
        /\ request[p].at = "update_hash"
    BY <1>5, UsersKept DEF UpdateHash, issued
  <2>2. ASSUME NEW q \in Procs PROVE Fits(request'[q]) /\ Points(request[q])'
    <3>1. Fits(request[q]) /\ Points(request[q])
      BY <1>0 DEF RequestsOK
    <3>2. CASE q = p
      BY <1>5, <2>1, <3>1, <3>2, UpdateHashMarks DEF Fits, Points, Issuing, Revoking, Admitted
    <3>3. CASE q # p
      <4>1. /\ request'[q].at = request[q].at /\ request'[q].kind = request[q].kind
            /\ request'[q].password = request[q].password
            /\ request'[q].account = request[q].account /\ request'[q].cookie = request[q].cookie
            /\ request'[q].now = request[q].now /\ request'[q].token = request[q].token
        BY <1>5, <3>3, UpdateHashOthers
      <4>2. request[q].at = "idle" => request'[q] = request[q]
        <5>1. request[q].at = "idle" => request[q].kind = "none"
          BY <3>1, NoRequestIs DEF Fits
        <5>2. QED
          BY <1>5, <3>3, <5>1 DEF UpdateHash
      <4>3. QED
        BY <2>1, <3>1, <4>1, <4>2 DEF Fits, Points
    <3>4. QED
      BY <3>2, <3>3
  <2>3. QED
    BY <1>5, <2>2, UpdateHashMarks DEF RequestsOK, Fits
<1>6. QED
  BY <1>2, <1>3, <1>4, <1>5, StepOf

\* Who sets passwords.
LEMMA BoundsKept ==
    ASSUME Typed, [Next]_vars
    PROVE  BoundsOK'
<1>0. /\ resets \in 0 .. MaxResets /\ resets + Cardinality(ToReset) <= MaxResets
      /\ clock' \in 0 .. MaxTime /\ served' \in 0 .. MaxRequests
      /\ request \in [Procs -> Request] /\ request' \in [Procs -> Request]
  BY ClockKept, RequestsKept DEF Typed, BoundsOK
<1>a. IsFiniteSet(ToReset) /\ Cardinality(ToReset) \in Nat /\ MaxResets \in Nat
  BY CountOfToReset, AccountsAssumption
<1>1. ASSUME resets' = resets, ToReset' \subseteq ToReset PROVE BoundsOK'
  <2>1. Cardinality(ToReset') <= Cardinality(ToReset) /\ Cardinality(ToReset') \in Nat
    BY <1>a, <1>1, FS_Subset, FS_CardinalityType
  <2>2. resets' + Cardinality(ToReset') <= MaxResets
    BY <1>0, <1>1, <1>a, <2>1
  <2>3. QED
    BY <1>0, <1>1, <2>2 DEF BoundsOK
<1>2. CASE UNCHANGED <<request, resets>>
  BY <1>1, <1>2 DEF ToReset
<1>3. CASE Crash
  <2>1. ToReset' = {}
    BY <1>3, NoRequestIs DEF Crash, ToReset
  <2>2. resets' = resets
    BY <1>3 DEF Crash
  <2>3. QED
    BY <1>1, <2>1, <2>2
<1>4. ASSUME NEW p \in Procs, UpdateHash(p) PROVE BoundsOK'
  <2>a. request[p].at = "update_hash"
    BY <1>4 DEF UpdateHash
  <2>b. request'[p].at = "revoke_access" /\ \A q \in Procs \ {p} : request'[q].at = request[q].at
    BY <1>4, UpdateHashMarks
  <2>1. p \in ToReset /\ ToReset' = ToReset \ {p}
    BY <2>a, <2>b DEF ToReset
  <2>2. Cardinality(ToReset') = Cardinality(ToReset) - 1
    BY <1>a, <2>1, FS_RemoveElement
  <2>3. Cardinality(ToReset) # 0
    BY <1>a, <2>1, FS_EmptySet
  <2>4. resets' = resets + 1
    BY <1>4 DEF UpdateHash
  <2>5. QED
    BY <1>0, <1>a, <2>2, <2>3, <2>4 DEF BoundsOK
<1>5. ASSUME NEW p \in Procs, NEW n \in Names, FindUser(p, n) PROVE BoundsOK'
  <2>1. PICK S : S = {q \in Procs : request[q].kind = "reset"}
    OBVIOUS
  <2>2. ToReset \subseteq S /\ IsFiniteSet(S)
    <3>1. \A q \in ToReset : request[q].kind = "reset"
      BY DEF ToReset, Typed, RequestsOK, Fits
    <3>2. S \subseteq Procs
      BY <2>1
    <3>3. QED
      BY <2>1, <3>1, <3>2, FS_Subset, AccountsAssumption DEF ToReset
  <2>3. Cardinality(ToReset) <= Cardinality(S) /\ Cardinality(S) \in Nat
    BY <2>2, FS_Subset, FS_CardinalityType
  <2>4. resets' = resets /\ resets + Cardinality(S) < MaxResets
    BY <1>5, <2>1 DEF FindUser
  <2>5. ToReset' \subseteq ToReset \cup {p}
    BY <1>0, <1>5 DEF FindUser, Continue, ToReset
  <2>a. IsFiniteSet(ToReset \cup {p})
        /\ (Cardinality(ToReset \cup {p}) = Cardinality(ToReset) \/ Cardinality(ToReset \cup {p}) = Cardinality(ToReset) + 1)
    BY <1>a, FS_AddElement
  <2>6. IsFiniteSet(ToReset \cup {p}) /\ Cardinality(ToReset \cup {p}) <= Cardinality(ToReset) + 1
        /\ Cardinality(ToReset \cup {p}) \in Nat
    BY <1>a, <2>a
  <2>7. Cardinality(ToReset') <= Cardinality(ToReset \cup {p}) /\ Cardinality(ToReset') \in Nat
    BY <2>5, <2>6, FS_Subset, FS_CardinalityType
  <2>8. resets' + Cardinality(ToReset') <= MaxResets
    BY <1>0, <1>a, <2>3, <2>4, <2>6, <2>7
  <2>9. QED
    BY <1>0, <2>4, <2>8 DEF BoundsOK
<1>6. ASSUME NEW p \in Procs, Arrive(p) PROVE BoundsOK' \/ \E n \in Names : FindUser(p, n)
  <2>1. CASE UNCHANGED request
    <3>1. resets' = resets
      BY <1>6 DEF Arrive, RegistrationEnabled, FindUser, Check, FindSession, Logout, DisablePrincipal, SetRegistration
    <3>2. QED
      BY <1>2, <2>1, <3>1
  <2>2. CASE ~ UNCHANGED request
    <3>1. ASSUME NEW r \in Request, resets' = resets, request' = [request EXCEPT ![p] = r], r.at # "update_hash"
          PROVE  BoundsOK'
      <4>1. request'[p] = r /\ \A q \in Procs \ {p} : request'[q] = request[q]
        BY <1>0, <3>1
      <4>2. QED
        BY <1>1, <3>1, <4>1 DEF ToReset
    <3>2. ASSUME NEW n \in Names, RegistrationEnabled(p, n) PROVE BoundsOK'
      <4>1. PICK r : r = [NoRequest EXCEPT !.at = "insert_user", !.kind = "register", !.name = n, !.password = 1]
        OBVIOUS
      <4>a. 1 \in Passwords
        BY AccountsAssumption DEF Passwords
      <4>2. r \in Request /\ r.at # "update_hash"
        BY <4>1, <4>a, NoRequestIs DEF Request, Places, Kinds
      <4>3. resets' = resets /\ request' = [request EXCEPT ![p] = r]
        BY <2>2, <3>2, <4>1 DEF RegistrationEnabled, Continue
      <4>4. QED
        BY <3>1, <4>2, <4>3
    <3>3. ASSUME NEW n \in Names, NEW w \in 1 .. (resets + 1), Check(p, n, w) PROVE BoundsOK'
      <4>1. PICK r : Becomes(p, r)
        BY <1>6, <2>2, Arrives
      <4>2. r = [NoRequest EXCEPT !.at = "find_user", !.kind = "login", !.name = n, !.password = w,
                   !.now = attempts'[n].since]
        BY <1>0, <2>2, <3>3, <4>1 DEF Check, Continue, Becomes
      <4>3. r.at = "find_user"
        BY <4>2 DEF NoRequest
      <4>4. resets' = resets
        BY <3>3 DEF Check
      <4>5. QED
        BY <3>1, <4>1, <4>3, <4>4 DEF Becomes
    <3>4. ASSUME NEW t \in Given, FindSession(p, t) PROVE BoundsOK'
      <4>1. PICK r : Becomes(p, r)
        BY <1>6, <2>2, Arrives
      <4>2. r = [NoRequest EXCEPT !.at = "delete_session", !.kind = "refresh", !.cookie = t,
                   !.account = tokens[t].account, !.late = tokens[t].late \/ Resetting(tokens[t].account)]
        BY <1>0, <2>2, <3>4, <4>1 DEF FindSession, Continue, Becomes
      <4>3. r.at = "delete_session"
        BY <4>2 DEF NoRequest
      <4>4. resets' = resets
        BY <3>4 DEF FindSession
      <4>5. QED
        BY <3>1, <4>1, <4>3, <4>4 DEF Becomes
    <3>5. QED
      BY <1>6, <2>2, <3>2, <3>3, <3>4 DEF Arrive, Logout, DisablePrincipal, SetRegistration
  <2>3. QED
    BY <2>1, <2>2
<1>7. ASSUME NEW p \in Procs, Serve(p) PROVE BoundsOK'
  <2>1. CASE UpdateHash(p)
    BY <1>4, <2>1
  <2>2. CASE ~UpdateHash(p)
    <3>1. resets' = resets
      BY <1>7, <2>2 DEF Serve, CreateBrowserUser, BrowserUser, Fail, Success, Issue, SweepAccess, SweepSessions,
         InsertAccess, InsertSession, IssueFails, DeleteSession, RevokeAccess, RevokeSessions, ResetFails, bounds
    <3>2. request'[p].at # "update_hash"
      <4>1. CASE Finish(p)
        BY <1>0, <4>1, NoRequestIs DEF Finish
      <4>2. CASE \E place \in Places \ {"update_hash"} : Goto(p, place)
        BY <1>0, <4>2 DEF Goto, Request
      <4>3. CASE Issue(p)
        BY <1>0, <4>3 DEF Issue, Request
      <4>4. CASE InsertAccess(p)
        BY <1>0, <4>4 DEF InsertAccess, Request
      <4>5. CASE CreateBrowserUser(p) /\ ~Finish(p)
        BY <1>0, <4>5 DEF CreateBrowserUser, Request
      <4>6. CASE BrowserUser(p) /\ ~Finish(p)
        BY <1>0, <4>6 DEF BrowserUser, Request
      <4>7. /\ Success(p) \/ DeleteSession(p) => Goto(p, "issue")
            /\ SweepAccess(p) => Goto(p, "sweep_sessions")
            /\ SweepSessions(p) => Goto(p, "insert_access")
            /\ RevokeAccess(p) => Goto(p, "revoke_sessions")
            /\ Fail(p) \/ InsertSession(p) \/ IssueFails(p) \/ RevokeSessions(p) \/ ResetFails(p) => Finish(p)
        BY DEF Success, DeleteSession, SweepAccess, SweepSessions, RevokeAccess,
               Fail, InsertSession, IssueFails, RevokeSessions, ResetFails
      <4>8. {"issue", "sweep_sessions", "insert_access", "revoke_sessions"} \subseteq Places \ {"update_hash"}
        BY DEF Places
      <4>9. QED
        BY <1>7, <2>2, <4>1, <4>2, <4>3, <4>4, <4>5, <4>6, <4>7, <4>8 DEF Serve
    <3>3. \A q \in Procs \ {p} : request'[q] = request[q]
      BY <1>0, <1>7, <2>2, Serves DEF Becomes
    <3>4. QED
      BY <1>1, <3>1, <3>2, <3>3 DEF ToReset
  <2>3. QED
    BY <2>1, <2>2
<1>8. QED
  BY <1>2, <1>3, <1>5, <1>6, <1>7 DEF Next, Start, Migrate, Tick, bounds, vars

LEMMA TypesKept == ASSUME Typed, [Next]_vars PROVE Typed'
BY ServerKept, UsersKept, TokensKept, GuardKept, RequestsKept, BoundsKept DEF Typed

LEMMA TypesInit == Init => Typed
<1> SUFFICES ASSUME Init PROVE Typed
  OBVIOUS
<1> USE AccountsAssumption
<1>1. ServerOK
  <2>a. schema = {} /\ boot = "down" /\ cut = FALSE
    BY DEF Init
  <2>1. schema = Prefix(0)
    BY <2>a, PrefixZero, Zenon
  <2>2. boot = "down" /\ cut \in BOOLEAN
    BY <2>a
  <2>3. 0 \in 0 .. 3
    OBVIOUS
  <2>4. QED
    BY <2>1, <2>2, <2>3 DEF ServerOK
<1>2. UsersOK /\ TokensOK
  BY DEF Init, UsersOK, TokensOK
<1>3. GuardOK
  BY DEF Init, GuardOK, Entry, Fresh, Began, NoMisses
<1>4. ToReset = {} /\ \A p \in Procs : request[p] = NoRequest
  BY NoRequestIs DEF Init, ToReset
<1>5. BoundsOK
  BY <1>4, FS_EmptySet DEF Init, BoundsOK
<1>6. request \in [Procs -> Request] /\ RequestsOK
  BY <1>4, NoRequestIs DEF Init, RequestsOK, Points, Issuing, Revoking
<1>7. QED
  BY <1>1, <1>2, <1>3, <1>5, <1>6 DEF Typed

LEMMA TypedIsOK == Typed => TypeOK
<1> SUFFICES ASSUME Typed PROVE TypeOK
  OBVIOUS
<1>1. boot \in {"down", "migrating", "up"} /\ cut \in BOOLEAN /\ schema \subseteq Range(Migration)
  BY PrefixWithin DEF Typed, ServerOK
<1>2. accounts \in Seq(Account) /\ registration \in BOOLEAN /\ DOMAIN settled = DOMAIN accounts
  BY DEF Typed, UsersOK
<1>3. \A n \in Names : attempts[n].count \in Nat /\ attempts[n].since \in -1 .. MaxTime
  BY DEF Typed, GuardOK, Entry
<1>4. QED
  BY <1>1, <1>2, <1>3 DEF TypeOK, Typed, TokensOK, GuardOK, BoundsOK

LEMMA TypedAlways == Spec => []Typed
BY TypesInit, TypesKept, PTL DEF Spec

\* Every variable has its type, however the statements of requests interleave:
\* a password can be made for each reset, and the account, session and token a
\* request holds exist when it comes back to them.
THEOREM AccountsTypeCorrect == Spec => []TypeOK
BY TypedAlways, TypedIsOK, PTL

-----------------------------------------------------------------------------
(***************************************************************************)
(* One account per name: no request is served before the index is there,   *)
(* unless the first start was interrupted.                                 *)
(***************************************************************************)
LEMMA WaitsForServer ==
    ASSUME Typed, [Next]_vars
    PROVE  \A p \in Procs : request'[p].at # "idle" => request[p].at # "idle" \/ boot = "up"
<1>0. request \in [Procs -> Request] /\ RequestsOK
  BY DEF Typed
<1>1. CASE UNCHANGED request \/ Crash
  BY <1>1, NoRequestIs DEF Crash
<1>2. ASSUME NEW p \in Procs, UpdateHash(p)
      PROVE \A q \in Procs : request'[q].at # "idle" => request[q].at # "idle" \/ boot = "up"
  BY <1>2, UpdateHashMarks DEF UpdateHash
<1>3. ASSUME NEW p \in Procs, NEW r, Becomes(p, r), Arrive(p) \/ Serve(p)
      PROVE \A q \in Procs : request'[q].at # "idle" => request[q].at # "idle" \/ boot = "up"
  <2>1. \A q \in Procs \ {p} : request'[q] = request[q]
    BY <1>0, <1>3 DEF Becomes
  <2>2. Arrive(p) => boot = "up"
    BY DEF Arrive, RegistrationEnabled, FindUser, Check, FindSession, Logout, DisablePrincipal, SetRegistration, Begin
  <2>3. Serve(p) => request[p].at # "idle"
    BY DEF Serve, CreateBrowserUser, BrowserUser, Fail, Success, Issue, SweepAccess, SweepSessions,
       InsertAccess, InsertSession, IssueFails, DeleteSession, UpdateHash, RevokeAccess, RevokeSessions,
       ResetFails, At
  <2>4. QED
    BY <1>3, <2>1, <2>2, <2>3
<1>4. QED
  BY <1>1, <1>2, <1>3, StepOf

\* An interruption of the migration is not forgotten.
LEMMA CutKept ==
    ASSUME Typed, [Next]_vars, ~cut'
    PROVE  ~cut /\ (Crash => ~ (boot = "migrating" /\ schema # {}))
<1>1. ASSUME Crash PROVE ~cut /\ ~ (boot = "migrating" /\ schema # {})
  <2>1. cut' = (cut \/ (boot = "migrating" /\ schema # {}))
    BY <1>1 DEF Crash
  <2>2. QED
    BY <2>1, Zenon
<1>2. Start \/ Migrate \/ UNCHANGED <<server, cut>> => ~cut
  BY DEF Start, Migrate
<1>3. QED
  BY <1>1, <1>2, ServerFrame

LEMMA IndexedKept ==
    ASSUME Typed, Indexed, [Next]_vars
    PROVE  Indexed'
<1> SUFFICES ASSUME ~cut' PROVE Indexed'
  BY DEF Indexed
<1>0. ~cut /\ (Crash => boot # "migrating" \/ schema = {})
  BY CutKept
<1>1. /\ boot = "up" => schema = Range(Migration)
      /\ boot = "down" => schema = {} \/ schema = Range(Migration)
      /\ \A p \in Procs : request[p].at # "idle" => boot = "up"
  BY <1>0 DEF Indexed
<1>2. CASE UNCHANGED <<server, cut>>
  BY <1>1, <1>2, WaitsForServer DEF Indexed, server
<1>3. CASE Start
  <2>1. "username" \in schema => schema = Range(Migration)
    BY <1>1, <1>3 DEF Start
  <2>2. request' = request /\ schema' = schema /\ boot' = IF "username" \in schema THEN "up" ELSE "migrating"
    BY <1>3 DEF Start
  <2>3. \A p \in Procs : request[p].at = "idle"
    BY <1>1, <1>3 DEF Start
  <2>4. QED
    BY <2>1, <2>2, <2>3 DEF Indexed
<1>4. CASE Migrate
  <2>1. PICK k \in 0 .. 2 : schema = Prefix(k)
    BY <1>4 DEF Typed, ServerOK, Migrate
  <2>2. schema' = Prefix(k + 1) /\ boot' = IF k = 2 THEN "up" ELSE "migrating"
    BY <1>4, <2>1, MigrateTo
  <2>3. boot' = "up" => schema' = Range(Migration)
    BY <2>2, PrefixAll
  <2>4. request' = request /\ \A p \in Procs : request[p].at = "idle"
    BY <1>1, <1>4 DEF Migrate
  <2>5. QED
    BY <2>2, <2>3, <2>4 DEF Indexed
<1>5. CASE Crash
  <2>1. schema' = schema /\ boot' = "down" /\ \A p \in Procs : request'[p].at = "idle"
    BY <1>5, NoRequestIs DEF Crash
  <2>2. schema = {} \/ schema = Range(Migration)
    BY <1>0, <1>1, <1>5 DEF Crash, Typed, ServerOK
  <2>3. QED
    BY <2>1, <2>2 DEF Indexed
<1>6. QED
  BY <1>2, <1>3, <1>4, <1>5, ServerFrame

\* Names do not change, and one is added only if it is new.
LEMMA NamesKept ==
    ASSUME Typed, Indexed, OneAccountPerName, [Next]_vars
    PROVE  OneAccountPerName'
<1> SUFFICES ASSUME ~cut' PROVE OneAccountPerName'
  BY DEF OneAccountPerName
<1>0. accounts \in Seq(Account) /\ ~cut /\ \A a, b \in DOMAIN accounts : accounts[a].name = accounts[b].name => a = b
  BY CutKept DEF OneAccountPerName, Typed, UsersOK
<1>1. ASSUME DOMAIN accounts' = DOMAIN accounts, \A a \in DOMAIN accounts : accounts'[a].name = accounts[a].name
      PROVE  OneAccountPerName'
  BY <1>0, <1>1 DEF OneAccountPerName
<1>2. CASE UNCHANGED <<users, settled>>
  BY <1>1, <1>2 DEF users
<1>3. ASSUME NEW p \in Procs, CreateBrowserUser(p) PROVE OneAccountPerName'
  <2>1. CASE UNCHANGED accounts
    BY <1>1, <2>1
  <2>2. CASE ~ UNCHANGED accounts
    <3>1. boot = "up" /\ schema = Range(Migration)
      BY <1>0, <1>3 DEF Indexed, CreateBrowserUser, At
    <3>2. "ux_principals_username" \in schema
      BY <3>1, PrefixAll, PrefixThree
    <3>3. PICK n : n = request[p].name
      OBVIOUS
    <3>4. PICK row : row = [name |-> n, password |-> request[p].password, disabled |-> FALSE]
      OBVIOUS
    <3>5. accounts' = Append(accounts, row) /\ \A a \in DOMAIN accounts : accounts[a].name # n
      BY <1>3, <2>2, <3>2, <3>3, <3>4 DEF CreateBrowserUser
    <3>6. row.name = n
      BY <3>4
    <3>a. DOMAIN accounts' = DOMAIN accounts \cup {Len(accounts) + 1} /\ accounts'[Len(accounts) + 1] = row
          /\ \A a \in DOMAIN accounts : accounts'[a] = accounts[a]
      BY <1>0, <3>5
    <3>7. \A a, b \in DOMAIN accounts' : accounts'[a].name = accounts'[b].name => a = b
      BY <1>0, <3>5, <3>6, <3>a
    <3>8. QED
      BY <3>7 DEF OneAccountPerName
  <2>3. QED
    BY <2>1, <2>2
<1>4. ASSUME NEW p \in Procs, UpdateHash(p) PROVE OneAccountPerName'
  <2>1. PICK a : a = request[p].account
    OBVIOUS
  <2>2. PICK w : w = resets + 2
    OBVIOUS
  <2>3. accounts' = [accounts EXCEPT ![a] = [accounts[a] EXCEPT !.password = w]]
    BY <1>4, <2>1, <2>2 DEF UpdateHash
  <2>4. \A b \in DOMAIN accounts : accounts[b] \in Account
    BY <1>0
  <2>5. DOMAIN accounts' = DOMAIN accounts /\ \A b \in DOMAIN accounts : accounts'[b].name = accounts[b].name
    BY <1>0, <2>3, <2>4 DEF Account
  <2>6. QED
    BY <1>1, <2>5
<1>5. ASSUME NEW p \in Procs, NEW a \in DOMAIN accounts, DisablePrincipal(p, a) PROVE OneAccountPerName'
  <2>3. accounts' = [accounts EXCEPT ![a] = [accounts[a] EXCEPT !.disabled = TRUE]]
    BY <1>5 DEF DisablePrincipal
  <2>4. \A b \in DOMAIN accounts : accounts[b] \in Account
    BY <1>0
  <2>5. DOMAIN accounts' = DOMAIN accounts /\ \A b \in DOMAIN accounts : accounts'[b].name = accounts[b].name
    BY <1>0, <2>3, <2>4 DEF Account
  <2>6. QED
    BY <1>1, <2>5
<1>6. ASSUME NEW p \in Procs, RevokeSessions(p) \/ SetRegistration(p) PROVE OneAccountPerName'
  BY <1>1, <1>6 DEF RevokeSessions, SetRegistration, users
<1>7. QED
  BY <1>2, <1>3, <1>4, <1>5, <1>6, UsersFrame

\* A username belongs to one account, whatever registrations run together and
\* however often the server restarts, unless it stopped between the columns and
\* their index at its first start.
THEOREM NamesAreUnique == Spec => []OneAccountPerName
<1>1. Init => Typed /\ Indexed /\ OneAccountPerName
  <2> SUFFICES ASSUME Init PROVE Typed /\ Indexed /\ OneAccountPerName
    OBVIOUS
  <2>1. boot = "down" /\ schema = {} /\ accounts = <<>> /\ \A p \in Procs : request[p].at = "idle"
    BY NoRequestIs DEF Init
  <2>2. QED
    BY <2>1, TypesInit DEF Indexed, OneAccountPerName
<1>2. Typed /\ Indexed /\ OneAccountPerName /\ [Next]_vars => (Typed /\ Indexed /\ OneAccountPerName)'
  BY TypesKept, IndexedKept, NamesKept
<1>3. QED
  BY <1>1, <1>2, PTL DEF Spec

-----------------------------------------------------------------------------
(***************************************************************************)
(* What was given stays valid: a sweep's reading of the clock is never     *)
(* ahead of the clock.                                                     *)
(***************************************************************************)
Lasting(t) ==
    ~tokens[t].revoked =>
        /\ clock < tokens[t].at + AccessTTL => t \in access
        /\ tokens[t].given /\ clock < tokens[t].at + RefreshTTL => tokens[t].used \/ t \in sessions

LEMMA ValidKept ==
    ASSUME Typed, Valid, [Next]_vars
    PROVE  Valid'
<1>0. /\ tokens \in Seq(Token) /\ clock \in Nat /\ clock' \in Nat /\ clock <= clock'
      /\ AccessTTL \in Nat /\ RefreshTTL \in Nat
      /\ \A t \in DOMAIN tokens : tokens[t] \in Token /\ tokens[t].at \in Nat /\ Lasting(t)
      /\ access \subseteq DOMAIN tokens /\ sessions \subseteq DOMAIN tokens
  <2>1. tokens \in Seq(Token) /\ clock \in Nat /\ access \subseteq DOMAIN tokens /\ sessions \subseteq DOMAIN tokens
    BY DEF Typed, TokensOK, BoundsOK
  <2>2. \A t \in DOMAIN tokens : tokens[t] \in Token
    BY <2>1
  <2>3. \A t \in DOMAIN tokens : tokens[t].at \in Nat
    BY <2>2 DEF Token
  <2>4. clock' \in Nat /\ clock <= clock' /\ AccessTTL \in Nat /\ RefreshTTL \in Nat
    BY ClockKept, AccountsAssumption
  <2>5. QED
    BY <2>1, <2>2, <2>3, <2>4 DEF Valid, Lasting
\* Rows that keep what they say, and are in the same tables or are marked.
<1>a. ASSUME KeepsRows,
             \A t \in DOMAIN tokens :
                \/ tokens'[t].revoked
                \/ /\ tokens'[t].revoked = tokens[t].revoked
                   /\ t \in access => t \in access' \/ clock >= tokens[t].at + AccessTTL
                   /\ \/ tokens'[t].used \/ t \in sessions'
                      \/ /\ tokens'[t].given = tokens[t].given /\ tokens'[t].used = tokens[t].used
                         /\ t \in sessions => clock >= tokens[t].at + RefreshTTL
      PROVE  Valid'
  <2>1. DOMAIN tokens' = DOMAIN tokens
    BY <1>0, <1>a DEF KeepsRows
  <2>2. ASSUME NEW t \in DOMAIN tokens PROVE Lasting(t)'
    <3>1. PICK x \in Nat : x = tokens[t].at
      BY <1>0
    <3>2. tokens'[t].at = x
      BY <1>a, <3>1 DEF KeepsRows, Same
    <3>3. \A ttl \in Nat : clock' < x + ttl => clock < x + ttl /\ ~(clock >= x + ttl)
      BY <1>0, <3>1
    <3>4. Lasting(t) /\ clock' \in Nat /\ AccessTTL \in Nat /\ RefreshTTL \in Nat
      BY <1>0
    <3>5. ASSUME ~tokens'[t].revoked, clock' < x + AccessTTL PROVE t \in access'
      BY <1>a, <3>1, <3>3, <3>4, <3>5 DEF Lasting
    <3>6. ASSUME ~tokens'[t].revoked, tokens'[t].given, clock' < x + RefreshTTL
          PROVE  tokens'[t].used \/ t \in sessions'
      BY <1>a, <3>1, <3>3, <3>4, <3>6 DEF Lasting
    <3>7. QED
      BY <3>2, <3>5, <3>6 DEF Lasting
  <2>3. QED
    BY <2>1, <2>2 DEF Valid, Lasting
<1>1. CASE UNCHANGED <<issued, logins>>
  <2>1. KeepsRows
    BY <1>0, <1>1 DEF KeepsRows, Same, issued
  <2>2. QED
    BY <1>0, <1>1, <1>a, <2>1 DEF issued, Lasting
<1>2. ASSUME NEW p \in Procs, SweepAccess(p) PROVE Valid'
  <2>1. request[p].now \in Nat /\ request[p].now <= clock
    BY DEF Typed, RequestsOK, Points, Request
  <2>2. tokens' = tokens /\ sessions' = sessions /\ access' = {t \in access : tokens[t].at + AccessTTL > request[p].now}
    BY <1>2 DEF SweepAccess
  <2>3. KeepsRows
    BY <1>0, <2>2 DEF KeepsRows, Same
  <2>4. \A t \in access : t \in access' \/ clock >= tokens[t].at + AccessTTL
    BY <1>0, <2>1, <2>2
  <2>5. QED
    BY <1>0, <1>a, <2>2, <2>3, <2>4
<1>3. ASSUME NEW p \in Procs, SweepSessions(p) PROVE Valid'
  <2>1. request[p].now \in Nat /\ request[p].now <= clock
    BY DEF Typed, RequestsOK, Points, Request
  <2>2. tokens' = tokens /\ access' = access
        /\ sessions' = {t \in sessions : tokens[t].at + RefreshTTL > request[p].now}
    BY <1>3 DEF SweepSessions
  <2>3. KeepsRows
    BY <1>0, <2>2 DEF KeepsRows, Same
  <2>4. \A t \in sessions : t \in sessions' \/ clock >= tokens[t].at + RefreshTTL
    BY <1>0, <2>1, <2>2
  <2>5. QED
    BY <1>0, <1>a, <2>2, <2>3, <2>4
<1>4. ASSUME NEW p \in Procs, InsertAccess(p) PROVE Valid'
  <2>1. PICK t : t = Len(tokens) + 1
    OBVIOUS
  <2>2. /\ \A u \in DOMAIN tokens : tokens'[u] = tokens[u]
        /\ DOMAIN tokens' = DOMAIN tokens \cup {t} /\ ~tokens'[t].given
    BY <1>4, <2>1, InsertAccessAdds
  <2>3. access' = access \cup {t} /\ sessions' = sessions /\ clock' = clock
    BY <1>4, <2>1 DEF InsertAccess, bounds
  <2>4. \A u \in DOMAIN tokens : Lasting(u)'
    BY <1>0, <2>2, <2>3 DEF Lasting
  <2>5. Lasting(t)'
    BY <2>2, <2>3 DEF Lasting
  <2>6. QED
    BY <2>2, <2>4, <2>5 DEF Valid, Lasting
<1>5. ASSUME NEW p \in Procs, InsertSession(p) PROVE Valid'
  <2>1. /\ KeepsRows
        /\ \A t \in DOMAIN tokens :
              /\ t # request[p].token => tokens'[t] = tokens[t]
              /\ tokens'[t].revoked = tokens[t].revoked
    BY <1>5, InsertSessionKeepsRows
  <2>2. access' = access /\ sessions' = sessions \cup {request[p].token}
    BY <1>5 DEF InsertSession
  <2>3. QED
    BY <1>0, <1>a, <2>1, <2>2
<1>6. ASSUME NEW p \in Procs, DeleteSession(p) PROVE Valid'
  <2>1. PICK t : t = request[p].cookie
    OBVIOUS
  <2>2. t \in DOMAIN tokens /\ tokens' = [tokens EXCEPT ![t].used = TRUE]
        /\ access' = access /\ sessions' = sessions \ {t}
    BY <1>6, <2>1 DEF Typed, RequestsOK, Points, DeleteSession, At
  <2>3. /\ KeepsRows /\ tokens'[t].used /\ tokens'[t].revoked = tokens[t].revoked
        /\ \A u \in DOMAIN tokens : u # t => tokens'[u] = tokens[u]
    BY <2>2, UsedKeepsRows
  <2>4. QED
    BY <1>0, <1>a, <2>2, <2>3
<1>7. ASSUME NEW p \in Procs, NEW t \in Given, Logout(p, t) PROVE Valid'
  <2>0. t \in DOMAIN tokens
    BY DEF Given
  <2>1. PICK b \in BOOLEAN : b = (tokens[t].used \/ t \in sessions)
    BY <1>0, <2>0 DEF Token
  <2>2. tokens' = [tokens EXCEPT ![t].used = b] /\ access' = access /\ sessions' = sessions \ {t}
    BY <1>7, <2>1 DEF Logout
  <2>3. /\ KeepsRows /\ tokens'[t].used = b /\ tokens'[t].revoked = tokens[t].revoked
        /\ tokens'[t].given = tokens[t].given
        /\ \A u \in DOMAIN tokens : u # t => tokens'[u] = tokens[u]
    BY <2>0, <2>2, UsedKeepsRows
  <2>4. tokens'[t].used \/ (tokens'[t].used = tokens[t].used /\ t \notin sessions)
    <3>1. CASE b
      BY <2>3, <3>1
    <3>2. CASE ~b
      <4>1. ~tokens[t].used /\ t \notin sessions
        BY <2>1, <3>2
      <4>2. tokens[t].used \in BOOLEAN
        BY <1>0, <2>0 DEF Token
      <4>3. QED
        BY <2>3, <3>2, <4>1, <4>2
    <3>3. QED
      BY <3>1, <3>2
  <2>5. QED
    BY <1>0, <1>a, <2>0, <2>2, <2>3, <2>4
<1>8. ASSUME NEW p \in Procs, RevokeAccess(p) \/ RevokeSessions(p) PROVE Valid'
  <2>1. PICK a : a = request[p].account
    OBVIOUS
  <2>2. tokens' = Revoked(a) /\ OfOthers(access, a) \subseteq access' /\ OfOthers(sessions, a) \subseteq sessions'
    BY <1>8, <2>1 DEF RevokeAccess, RevokeSessions, OfOthers
  <2>3. /\ KeepsRows
        /\ \A t \in DOMAIN tokens :
             /\ tokens'[t].given = tokens[t].given /\ tokens'[t].used = tokens[t].used
             /\ tokens[t].revoked \/ tokens[t].account = a => tokens'[t].revoked
    BY <2>2, RevokedKeepsRows
  <2>4. \A t \in DOMAIN tokens : tokens[t].account # a =>
           (t \in access => t \in access') /\ (t \in sessions => t \in sessions')
    BY <2>2 DEF OfOthers
  <2>5. DOMAIN tokens' = DOMAIN tokens /\ clock' = clock
    BY <1>0, <1>8, <2>3 DEF KeepsRows, RevokeAccess, RevokeSessions, bounds
  <2>6. ASSUME NEW t \in DOMAIN tokens PROVE Lasting(t)'
    <3>1. tokens'[t].at = tokens[t].at
      BY <2>3 DEF KeepsRows, Same
    <3>2. QED
      BY <1>0, <2>3, <2>4, <2>5, <3>1 DEF Lasting
  <2>7. QED
    BY <2>5, <2>6 DEF Valid, Lasting
<1>9. QED
  BY <1>1, <1>2, <1>3, <1>4, <1>5, <1>6, <1>7, <1>8, TokensFrame

\* What a client was given lasts until it expires or is used, logged out or
\* reset, whatever other requests sweep and however late they do it.
THEOREM GrantsLast == Spec => []GrantedLast
<1>1. Init => Typed /\ Valid
  <2> SUFFICES ASSUME Init PROVE Typed /\ Valid
    OBVIOUS
  <2>1. tokens = <<>>
    BY DEF Init
  <2>2. QED
    BY <2>1, TypesInit DEF Valid
<1>2. Typed /\ Valid /\ [Next]_vars => (Typed /\ Valid)'
  BY TypesKept, ValidKept
<1>3. Typed /\ Valid => GrantedLast
  BY DEF Valid, GrantedLast, Given
<1>4. QED
  BY <1>1, <1>2, <1>3, PTL DEF Spec

-----------------------------------------------------------------------------
(***************************************************************************)
(* What each action makes of the request that takes it.                    *)
(***************************************************************************)
OthersWait(p) == \A q \in Procs \ {p} : request'[q] = request[q]

LEMMA ContinuesWith ==
    ASSUME Typed, NEW p \in Procs, NEW r, request' = [request EXCEPT ![p] = r]
    PROVE  request'[p] = r /\ OthersWait(p)
BY DEF Typed, OthersWait

LEMMA FinishIs ==
    ASSUME Typed, NEW p \in Procs, Finish(p)
    PROVE  request'[p] = NoRequest /\ OthersWait(p)
BY DEF Typed, Finish, OthersWait

LEMMA GotoIs ==
    ASSUME Typed, NEW p \in Procs, NEW place, Goto(p, place)
    PROVE  /\ OthersWait(p)
           /\ request'[p].at = place
           /\ request'[p].kind = request[p].kind /\ request'[p].name = request[p].name
           /\ request'[p].password = request[p].password /\ request'[p].account = request[p].account
           /\ request'[p].cookie = request[p].cookie /\ request'[p].now = request[p].now
           /\ request'[p].token = request[p].token /\ request'[p].late = request[p].late
<1>1. PICK r : r = [request[p] EXCEPT !.at = place]
  OBVIOUS
<1>2. request[p] \in Request /\ request' = [request EXCEPT ![p] = r]
  BY <1>1 DEF Typed, Goto
<1>3. /\ r.at = place /\ r.kind = request[p].kind /\ r.name = request[p].name
      /\ r.password = request[p].password /\ r.account = request[p].account
      /\ r.cookie = request[p].cookie /\ r.now = request[p].now
      /\ r.token = request[p].token /\ r.late = request[p].late
  BY <1>1, <1>2 DEF Request
<1>4. QED
  BY <1>2, <1>3, ContinuesWith

LEMMA RegistrationEnabledIs ==
    ASSUME Typed, NEW p \in Procs, NEW n \in Names, RegistrationEnabled(p, n), ~UNCHANGED request
    PROVE  /\ OthersWait(p) /\ request[p].at = "idle"
           /\ request'[p].at = "insert_user" /\ request'[p].kind = "register" /\ request'[p].name = n
           /\ request'[p].account = None /\ request'[p].cookie = None
<1>1. PICK r : r = [NoRequest EXCEPT !.at = "insert_user", !.kind = "register", !.name = n, !.password = 1]
  OBVIOUS
<1>2. request[p].at = "idle" /\ request' = [request EXCEPT ![p] = r]
  BY <1>1 DEF RegistrationEnabled, Continue, Begin
<1>3. r.at = "insert_user" /\ r.kind = "register" /\ r.name = n /\ r.account = None /\ r.cookie = None
  BY <1>1 DEF NoRequest
<1>4. QED
  BY <1>2, <1>3, ContinuesWith

LEMMA CheckIs ==
    ASSUME Typed, NEW p \in Procs, NEW n \in Names, NEW w, Check(p, n, w), ~UNCHANGED request
    PROVE  /\ OthersWait(p) /\ request[p].at = "idle"
           /\ request'[p].at = "find_user" /\ request'[p].kind = "login" /\ request'[p].name = n
           /\ request'[p].account = None /\ request'[p].cookie = None /\ ~request'[p].late
           /\ request'[p].now = attempts'[n].since /\ attempts'[n].count < MaxFails
<1>0. PICK since : since = attempts'[n].since
  OBVIOUS
<1>1. PICK r : r = [NoRequest EXCEPT !.at = "find_user", !.kind = "login", !.name = n, !.password = w, !.now = since]
  OBVIOUS
<1>2. request[p].at = "idle" /\ request' = [request EXCEPT ![p] = r] /\ attempts'[n].count < MaxFails
  BY <1>0, <1>1 DEF Check, Continue, Begin
<1>3. /\ r.at = "find_user" /\ r.kind = "login" /\ r.name = n /\ r.account = None /\ r.cookie = None
      /\ r.now = since /\ ~r.late
  BY <1>1 DEF NoRequest
<1>4. QED
  BY <1>0, <1>2, <1>3, ContinuesWith

LEMMA FindSessionIs ==
    ASSUME Typed, NEW p \in Procs, NEW t \in Given, FindSession(p, t), ~UNCHANGED request
    PROVE  /\ OthersWait(p) /\ request[p].at = "idle"
           /\ request'[p].at = "delete_session" /\ request'[p].kind = "refresh"
           /\ request'[p].cookie = t /\ request'[p].account = tokens[t].account
           /\ request'[p].late = (tokens[t].late \/ Resetting(tokens[t].account))
           /\ t \in sessions
<1>0. PICK a, b : a = tokens[t].account /\ b = (tokens[t].late \/ Resetting(tokens[t].account))
  OBVIOUS
<1>1. PICK r : r = [NoRequest EXCEPT !.at = "delete_session", !.kind = "refresh", !.cookie = t,
                        !.account = a, !.late = b]
  OBVIOUS
<1>2. request[p].at = "idle" /\ request' = [request EXCEPT ![p] = r] /\ t \in sessions
  BY <1>0, <1>1 DEF FindSession, Continue, Begin
<1>3. r.at = "delete_session" /\ r.kind = "refresh" /\ r.cookie = t /\ r.account = a /\ r.late = b
  BY <1>1 DEF NoRequest
<1>4. request'[p] = r /\ OthersWait(p)
  BY <1>2, ContinuesWith
<1>5. request'[p].late = (tokens[t].late \/ Resetting(tokens[t].account))
  BY <1>0, <1>3, <1>4, Zenon
<1>6. QED
  BY <1>0, <1>2, <1>3, <1>4, <1>5

LEMMA FindUserIs ==
    ASSUME Typed, NEW p \in Procs, NEW n \in Names, FindUser(p, n), ~UNCHANGED request
    PROVE  /\ OthersWait(p) /\ request[p].at = "idle"
           /\ request'[p].at = "update_hash" /\ request'[p].kind = "reset"
<1>0. PICK a : a = RowOf(n)
  OBVIOUS
<1>1. PICK r : r = [NoRequest EXCEPT !.at = "update_hash", !.kind = "reset", !.account = a]
  OBVIOUS
<1>2. request[p].at = "idle" /\ request' = [request EXCEPT ![p] = r]
  BY <1>0, <1>1 DEF FindUser, Continue, Begin
<1>3. r.at = "update_hash" /\ r.kind = "reset"
  BY <1>1 DEF NoRequest
<1>4. QED
  BY <1>2, <1>3, ContinuesWith

LEMMA CreateBrowserUserIs ==
    ASSUME Typed, NEW p \in Procs, CreateBrowserUser(p), ~Finish(p)
    PROVE  /\ OthersWait(p) /\ request[p].kind = "register" /\ request[p].at = "insert_user"
           /\ request'[p].at = "issue" /\ request'[p].kind = "register"
           /\ request'[p].account = Len(accounts) + 1 /\ request'[p].cookie = request[p].cookie
           /\ request'[p].password = request[p].password /\ request[p].password \in Passwords
           /\ accounts' = Append(accounts, [name |-> request[p].name, password |-> request[p].password, disabled |-> FALSE])
           /\ settled' = Append(settled, 0)
<1>0. accounts \in Seq(Account) /\ request[p] \in Request /\ Fits(request[p])
  BY DEF Typed, UsersOK, RequestsOK
<1>1. /\ accounts' = Append(accounts, [name |-> request[p].name, password |-> request[p].password, disabled |-> FALSE])
      /\ settled' = Append(settled, 0)
      /\ request[p].kind = "register" /\ request[p].at = "insert_user"
  BY DEF CreateBrowserUser, At
<1>a. PICK e : e = [name |-> request[p].name, password |-> request[p].password, disabled |-> FALSE]
  OBVIOUS
<1>b. accounts' = Append(accounts, e)
  BY <1>1, <1>a
<1>2. PICK a : a = Len(accounts) + 1
  OBVIOUS
<1>3. Len(accounts') = a
  <2>1. request[p].password \in Passwords
    BY <1>0, <1>1 DEF Fits, Request
  <2>2. e \in Account
    BY <1>0, <1>a, <2>1 DEF Account, Request
  <2>3. QED
    BY <1>0, <1>b, <1>2, <2>2
<1>4. PICK r : r = [request[p] EXCEPT !.at = "issue", !.account = a]
  OBVIOUS
<1>5. request' = [request EXCEPT ![p] = r]
  BY <1>0, <1>3, <1>4 DEF CreateBrowserUser, Typed
<1>6. /\ r.at = "issue" /\ r.kind = request[p].kind /\ r.password = request[p].password
      /\ r.account = a /\ r.cookie = request[p].cookie
  BY <1>0, <1>4 DEF Request
<1>7. request[p].password \in Passwords
  BY <1>0, <1>1 DEF Fits, Request
<1>8. QED
  BY <1>1, <1>2, <1>5, <1>6, <1>7, ContinuesWith

LEMMA BrowserUserIs ==
    ASSUME Typed, NEW p \in Procs, BrowserUser(p), ~Finish(p)
    PROVE  /\ OthersWait(p) /\ request[p].kind = "login" /\ request[p].at = "find_user"
           /\ request'[p].at = "count" /\ request'[p].kind = "login" /\ request'[p].name = request[p].name
           /\ request'[p].now = request[p].now /\ request'[p].cookie = request[p].cookie
           /\ request'[p].password = request[p].password /\ request'[p].late = request[p].late
           /\ request'[p].account # None =>
                 /\ request'[p].account \in DOMAIN accounts
                 /\ accounts[request'[p].account].password = request[p].password
<1>0. accounts \in Seq(Account) /\ request[p] \in Request
  BY DEF Typed, UsersOK
<1>1. PICK a : a = IF RowOf(request[p].name) # None /\ accounts[RowOf(request[p].name)].password = request[p].password
                   THEN RowOf(request[p].name) ELSE None
  OBVIOUS
<1>2. PICK r : r = [request[p] EXCEPT !.at = "count", !.account = a]
  OBVIOUS
<1>3. request' = [request EXCEPT ![p] = r] /\ request[p].at = "find_user" /\ request[p].kind = "login"
  BY <1>0, <1>1, <1>2 DEF BrowserUser, At, Typed
<1>4. a # None => a \in DOMAIN accounts /\ accounts[a].password = request[p].password
  BY <1>0, <1>1, RowFound
<1>5. /\ r.at = "count" /\ r.kind = request[p].kind /\ r.name = request[p].name /\ r.now = request[p].now
      /\ r.cookie = request[p].cookie /\ r.password = request[p].password /\ r.late = request[p].late /\ r.account = a
  BY <1>0, <1>2 DEF Request
<1>6. QED
  BY <1>3, <1>4, <1>5, ContinuesWith

LEMMA IssueIs ==
    ASSUME Typed, NEW p \in Procs, Issue(p)
    PROVE  /\ OthersWait(p) /\ request[p].at = "issue" /\ request'[p].at = "sweep_access"
           /\ request'[p].kind = request[p].kind /\ request'[p].account = request[p].account
           /\ request'[p].password = request[p].password
           /\ request'[p].cookie = request[p].cookie /\ request'[p].late = request[p].late
<1>0. request[p] \in Request
  BY DEF Typed
<1>1. PICK now : now = clock
  OBVIOUS
<1>2. PICK r : r = [request[p] EXCEPT !.at = "sweep_access", !.now = now]
  OBVIOUS
<1>3. request' = [request EXCEPT ![p] = r] /\ request[p].at = "issue"
  BY <1>0, <1>1, <1>2 DEF Issue, Typed
<1>4. /\ r.at = "sweep_access" /\ r.kind = request[p].kind /\ r.account = request[p].account
      /\ r.password = request[p].password /\ r.cookie = request[p].cookie /\ r.late = request[p].late
  BY <1>0, <1>2 DEF Request
<1>5. QED
  BY <1>3, <1>4, ContinuesWith

LEMMA InsertAccessIs ==
    ASSUME Typed, NEW p \in Procs, InsertAccess(p)
    PROVE  /\ OthersWait(p) /\ request[p].at = "insert_access" /\ request'[p].at = "insert_session"
           /\ request'[p].token = Len(tokens) + 1
           /\ request'[p].kind = request[p].kind /\ request'[p].account = request[p].account
           /\ request'[p].password = request[p].password
           /\ request'[p].cookie = request[p].cookie /\ request'[p].late = request[p].late
<1>0. request[p] \in Request
  BY DEF Typed
<1>1. PICK t : t = Len(tokens) + 1
  OBVIOUS
<1>2. PICK r : r = [request[p] EXCEPT !.at = "insert_session", !.token = t]
  OBVIOUS
<1>3. request' = [request EXCEPT ![p] = r] /\ request[p].at = "insert_access"
  BY <1>0, <1>1, <1>2 DEF InsertAccess, Typed
<1>4. /\ r.at = "insert_session" /\ r.token = t /\ r.kind = request[p].kind /\ r.account = request[p].account
      /\ r.password = request[p].password /\ r.cookie = request[p].cookie /\ r.late = request[p].late
  BY <1>0, <1>2 DEF Request
<1>5. QED
  BY <1>1, <1>3, <1>4, ContinuesWith

-----------------------------------------------------------------------------
(***************************************************************************)
(* One session per login: a login is in one place, and each action moves   *)
(* it.                                                                     *)
(***************************************************************************)
Alone(l) ==
    /\ \A t, u \in Live(l) : t = u
    /\ \A p, q \in Procs : Carries(p, l) /\ Carries(q, l) => p = q
    /\ \A p \in Procs : Carries(p, l) => Live(l) = {}
    /\ l \in ended => Live(l) = {} /\ \A p \in Procs : ~Carries(p, l)

\* A request after a step carries nothing new: it is where it was, or further
\* on with the cookie it had, or somewhere without.
Dropped(q) ==
    \/ request'[q].at \notin Issuing
    \/ request'[q].at # "insert_session" /\ request'[q].cookie = None
    \/ /\ request'[q].at = "insert_session" /\ request[q].at = "insert_session"
       /\ request'[q].token = request[q].token
    \/ /\ request'[q].at # "insert_session" /\ request[q].at \in Issuing \ {"insert_session"}
       /\ request'[q].cookie = request[q].cookie

LEMMA NothingNewCarried ==
    ASSUME Typed, [Next]_vars, ~ \E p \in Procs : InsertAccess(p) \/ DeleteSession(p)
    PROVE  \A q \in Procs : Dropped(q)
<1>0. \A q \in Procs : request[q].kind \in {"register", "login"} => request[q].cookie = None
  BY DEF Typed, RequestsOK, Points
<1>a. \A q \in Procs : request'[q] = request[q] => Dropped(q)
  BY DEF Dropped
<1>b. ASSUME NEW p \in Procs, OthersWait(p), Dropped(p) PROVE \A q \in Procs : Dropped(q)
  BY <1>a, <1>b DEF OthersWait
<1>1. CASE UNCHANGED request
  BY <1>a, <1>1
<1>2. CASE Crash
  BY <1>2, NoRequestIs DEF Crash, Dropped, Issuing
<1>3. ASSUME NEW p \in Procs, UpdateHash(p) PROVE \A q \in Procs : Dropped(q)
  <2>1. \A q \in Procs \ {p} : request'[q].at = request[q].at /\ request'[q].cookie = request[q].cookie
          /\ request'[q].token = request[q].token
    BY <1>3, UpdateHashMarks
  <2>2. request'[p].at = "revoke_access"
    BY <1>3, UpdateHashMarks
  <2>3. QED
    BY <2>1, <2>2 DEF Dropped, Issuing
<1>4. ASSUME NEW p \in Procs, Arrive(p), ~UNCHANGED request PROVE \A q \in Procs : Dropped(q)
  <2>1. OthersWait(p) /\ request'[p].at \notin Issuing
    BY <1>4, RegistrationEnabledIs, CheckIs, FindSessionIs, FindUserIs
       DEF Arrive, Logout, DisablePrincipal, SetRegistration, Issuing
  <2>2. QED
    BY <1>b, <2>1 DEF Dropped
<1>5. ASSUME NEW p \in Procs, Serve(p), ~UpdateHash(p) PROVE \A q \in Procs : Dropped(q)
  <2>1. CASE Finish(p)
    <3>1. OthersWait(p) /\ request'[p].at \notin Issuing
      BY <2>1, FinishIs, NoRequestIs DEF Issuing
    <3>2. QED
      BY <1>b, <3>1 DEF Dropped
  <2>2. CASE ~Finish(p) /\ CreateBrowserUser(p)
    <3>1. OthersWait(p) /\ request'[p].at = "issue" /\ request'[p].cookie = None
      BY <1>0, <2>2, CreateBrowserUserIs
    <3>2. QED
      BY <1>b, <3>1 DEF Dropped
  <2>8. CASE ~Finish(p) /\ BrowserUser(p)
    <3>1. OthersWait(p) /\ request'[p].at = "count"
      BY <2>8, BrowserUserIs
    <3>2. QED
      BY <1>b, <3>1 DEF Dropped, Issuing
  <2>3. CASE Issue(p)
    <3>1. /\ OthersWait(p) /\ request[p].at = "issue" /\ request'[p].at = "sweep_access"
          /\ request'[p].cookie = request[p].cookie
      BY <2>3, IssueIs
    <3>2. QED
      BY <1>b, <3>1 DEF Dropped, Issuing
  <2>4. CASE SweepAccess(p) \/ SweepSessions(p)
    <3>1. PICK place \in {"sweep_sessions", "insert_access"} :
              Goto(p, place) /\ request[p].at \in {"sweep_access", "sweep_sessions"}
      BY <2>4 DEF SweepAccess, SweepSessions
    <3>2. OthersWait(p) /\ request'[p].at = place /\ request'[p].cookie = request[p].cookie
      BY <3>1, GotoIs
    <3>3. QED
      BY <1>b, <3>1, <3>2 DEF Dropped, Issuing
  <2>5. CASE RevokeAccess(p)
    <3>1. OthersWait(p) /\ request'[p].at = "revoke_sessions"
      BY <2>5, GotoIs DEF RevokeAccess
    <3>2. QED
      BY <1>b, <3>1 DEF Dropped, Issuing
  <2>6. CASE Success(p)
    <3>1. OthersWait(p) /\ request'[p].at = "issue" /\ request'[p].cookie = None
      BY <1>0, <2>6, GotoIs DEF Success, At
    <3>2. QED
      BY <1>b, <3>1 DEF Dropped
  <2>7. QED
    BY <1>5, <2>1, <2>2, <2>3, <2>4, <2>5, <2>6, <2>8
       DEF Serve, Fail, InsertSession, IssueFails, RevokeSessions, ResetFails
<1>6. QED
  BY <1>1, <1>2, <1>3, <1>4, <1>5, StepOf

\* Where nothing new is carried and sessions are only taken away, every login
\* stays in one place.
LEMMA AloneKept ==
    ASSUME Typed, KeepsRows, \A q \in Procs : Dropped(q), sessions' \subseteq sessions,
           NEW l \in DOMAIN tokens, Alone(l), l \in ended' => l \in ended
    PROVE  Alone(l)'
<1>0. /\ tokens \in Seq(Token) /\ \A t \in DOMAIN tokens : tokens'[t].login = tokens[t].login
      /\ DOMAIN tokens' = DOMAIN tokens /\ sessions \subseteq DOMAIN tokens
  BY DEF Typed, TokensOK, KeepsRows, Same
<1>1. Live(l)' \subseteq Live(l)
  BY <1>0 DEF Live
<1>2. ASSUME NEW p \in Procs, Carries(p, l)' PROVE Carries(p, l)
  <2>1. /\ request[p].at = "insert_session" => request[p].token \in DOMAIN tokens
        /\ request[p].cookie # None => request[p].cookie \in DOMAIN tokens
    BY DEF Typed, RequestsOK, Points
  <2>2. CASE request'[p].at = "insert_session" /\ tokens'[request'[p].token].login = l
    <3>1. request[p].at = "insert_session" /\ request'[p].token = request[p].token
      BY <2>2 DEF Dropped, Issuing
    <3>2. QED
      BY <1>0, <2>1, <2>2, <3>1 DEF Carries
  <2>3. CASE /\ request'[p].at \in Issuing \ {"insert_session"} /\ request'[p].cookie # None
             /\ tokens'[request'[p].cookie].login = l
    <3>1. request[p].at \in Issuing \ {"insert_session"} /\ request'[p].cookie = request[p].cookie
      BY <2>3 DEF Dropped
    <3>2. QED
      BY <1>0, <2>1, <2>3, <3>1 DEF Carries
  <2>4. QED
    BY <1>2, <2>2, <2>3 DEF Carries
<1>3. QED
  BY <1>1, <1>2 DEF Alone

LEMMA OnePlaceKept ==
    ASSUME Typed, OnePlace, [Next]_vars
    PROVE  OnePlace'
<1>0. /\ tokens \in Seq(Token) /\ sessions \subseteq DOMAIN tokens /\ ended \subseteq DOMAIN tokens
      /\ forked \subseteq DOMAIN tokens
      /\ \A t \in DOMAIN tokens : tokens[t].login \in DOMAIN tokens
      /\ \A l \in DOMAIN tokens \ forked : Alone(l)
  BY DEF Typed, TokensOK, OnePlace, Alone
<1>p. \A q \in Procs :
        /\ request[q].at = "insert_session" => request[q].token \in DOMAIN tokens
        /\ request[q].cookie # None => request[q].cookie \in DOMAIN tokens
        /\ request[q].at = "delete_session" => request[q].cookie # None
  BY DEF Typed, RequestsOK, Points, Fits
<1>q. ASSUME \A l \in DOMAIN tokens' \ forked' : Alone(l)' PROVE OnePlace'
  BY <1>q DEF OnePlace, Alone
<1>1. ASSUME ~ \E p \in Procs : InsertAccess(p) \/ DeleteSession(p) \/ InsertSession(p),
             ~ \E p \in Procs : \E t \in Given : Logout(p, t)
      PROVE  OnePlace'
  <2>1. KeepsRows /\ \A q \in Procs : Dropped(q)
    BY <1>1, RowsKept, NothingNewCarried
  <2>2. sessions' \subseteq sessions /\ forked' = forked /\ ended' = ended
    BY <1>1, TokensFrame DEF SweepAccess, SweepSessions, RevokeAccess, RevokeSessions, OfOthers, issued, logins
  <2>3. DOMAIN tokens' = DOMAIN tokens
    BY <1>0, <2>1 DEF KeepsRows
  <2>4. QED
    BY <1>0, <1>q, <2>1, <2>2, <2>3, AloneKept
<1>2. ASSUME NEW p \in Procs, NEW t \in Given, Logout(p, t) PROVE OnePlace'
  <2>1. /\ sessions' = sessions \ {t} /\ forked' = forked /\ request' = request
        /\ ended' = IF t \in sessions THEN ended \cup {tokens[t].login} ELSE ended
    BY <1>2 DEF Logout
  <2>2. KeepsRows
    <3>1. ~ \E q \in Procs : InsertAccess(q)
      BY <2>1, InsertAccessIs
    <3>2. QED
      BY <3>1, RowsKept
  <2>3. DOMAIN tokens' = DOMAIN tokens /\ t \in DOMAIN tokens
        /\ \A u \in DOMAIN tokens : tokens'[u].login = tokens[u].login
    BY <1>0, <2>2 DEF KeepsRows, Same, Given
  <2>4. \A q \in Procs : Dropped(q)
    BY <2>1 DEF Dropped
  <2>5. ASSUME NEW l \in DOMAIN tokens \ forked PROVE Alone(l)'
    <3>1. CASE l \in ended' => l \in ended
      BY <1>0, <2>1, <2>2, <2>4, <2>5, <3>1, AloneKept
    <3>2. CASE t \in sessions /\ l = tokens[t].login
      <4>1. t \in Live(l) /\ Alone(l)
        BY <1>0, <2>5, <3>2 DEF Live
      <4>2. Live(l) = {t} /\ \A q \in Procs : ~Carries(q, l)
        BY <4>1 DEF Alone
      <4>3. Live(l)' = {}
        BY <1>0, <2>1, <2>3, <4>2 DEF Live
      <4>4. \A q \in Procs : ~Carries(q, l)'
        BY <1>p, <2>1, <2>3, <4>2 DEF Carries
      <4>5. QED
        BY <4>3, <4>4 DEF Alone
    <3>3. QED
      BY <2>1, <3>1, <3>2
  <2>6. QED
    BY <1>q, <2>1, <2>3, <2>5
<1>3. ASSUME NEW p \in Procs, DeleteSession(p) PROVE OnePlace'
  <2>1. PICK t : t = request[p].cookie
    OBVIOUS
  <2>2. /\ t \in DOMAIN tokens /\ sessions' = sessions \ {t} /\ ended' = ended
        /\ forked' = IF t \in sessions THEN forked ELSE forked \cup {tokens[t].login}
        /\ tokens' = [tokens EXCEPT ![t].used = TRUE]
        /\ request[p].at = "delete_session" /\ Goto(p, "issue")
    BY <1>3, <1>p, <2>1 DEF DeleteSession, At
  <2>3. KeepsRows
    BY <2>2, UsedKeepsRows
  <2>4. DOMAIN tokens' = DOMAIN tokens /\ \A u \in DOMAIN tokens : tokens'[u].login = tokens[u].login
    BY <1>0, <2>3 DEF KeepsRows, Same
  <2>5. OthersWait(p) /\ request'[p].at = "issue" /\ request'[p].cookie = t
    BY <2>1, <2>2, GotoIs
  <2>6. ASSUME NEW l \in DOMAIN tokens \ forked' PROVE Alone(l)'
    <3>1. \A q \in Procs \ {p} : Carries(q, l)' <=> Carries(q, l)
      BY <1>p, <2>4, <2>5 DEF Carries, OthersWait
    <3>a. t # None
      BY <1>0, <2>2 DEF None
    <3>2. Carries(p, l)' <=> l = tokens[t].login
      BY <2>2, <2>4, <2>5, <3>a DEF Carries, Issuing
    <3>3. Alone(l) /\ l \notin forked
      BY <1>0, <2>2, <2>6
    <3>4. CASE l # tokens[t].login
      <4>a. t \notin Live(l)
        BY <3>4 DEF Live
      <4>b. Live(l)' = Live(l) \ {t}
        BY <1>0, <2>2, <2>4 DEF Live
      <4>1. Live(l)' = Live(l)
        BY <4>a, <4>b
      <4>2. \A q \in Procs : Carries(q, l)' => Carries(q, l)
        BY <3>1, <3>2, <3>4
      <4>3. QED
        BY <2>2, <3>3, <4>1, <4>2 DEF Alone
    <3>5. CASE l = tokens[t].login
      <4>1. t \in sessions
        BY <2>2, <2>6, <3>5
      <4>2. t \in Live(l)
        BY <3>5, <4>1 DEF Live
      <4>3. Live(l) = {t} /\ l \notin ended /\ \A q \in Procs : ~Carries(q, l)
        BY <3>3, <4>2 DEF Alone
      <4>4. Live(l)' = {}
        BY <1>0, <2>2, <2>4, <4>3 DEF Live
      <4>5. \A q \in Procs : Carries(q, l)' => q = p
        BY <3>1, <4>3
      <4>6. QED
        BY <2>2, <4>3, <4>4, <4>5 DEF Alone
    <3>6. QED
      BY <3>4, <3>5
  <2>7. QED
    BY <1>q, <2>4, <2>6
<1>4. ASSUME NEW p \in Procs, InsertAccess(p) PROVE OnePlace'
  <2>1. PICK t : t = Len(tokens) + 1
    OBVIOUS
  <2>2. PICK c : c = request[p].cookie
    OBVIOUS
  <2>3. /\ \A u \in DOMAIN tokens : tokens'[u] = tokens[u]
        /\ t \notin DOMAIN tokens /\ DOMAIN tokens' = DOMAIN tokens \cup {t}
        /\ tokens'[t].login = (IF c = None THEN t ELSE tokens[c].login)
    BY <1>4, <2>1, <2>2, InsertAccessAdds
  <2>4. /\ OthersWait(p) /\ request[p].at = "insert_access" /\ request'[p].at = "insert_session"
        /\ request'[p].token = t /\ request'[p].cookie = c
    BY <1>4, <2>1, <2>2, InsertAccessIs
  <2>5. sessions' = sessions /\ forked' = forked /\ ended' = ended
    BY <1>4 DEF InsertAccess, logins
  <2>6. \A l : \A q \in Procs \ {p} : Carries(q, l)' <=> Carries(q, l)
    BY <1>p, <2>3, <2>4 DEF Carries, OthersWait
  <2>7. \A l : Carries(p, l)' <=> l = tokens'[t].login
    BY <2>4 DEF Carries
  <2>8. \A l : Live(l)' = Live(l)
    BY <1>0, <2>3, <2>5 DEF Live
  <2>9. c # None => Carries(p, tokens[c].login)
    BY <2>2, <2>4 DEF Carries, Issuing
  <2>10. ASSUME NEW l \in DOMAIN tokens \ forked PROVE Alone(l)'
    <3>1. Alone(l)
      BY <1>0
    <3>2. \A q \in Procs : Carries(q, l)' => Carries(q, l)
      BY <2>3, <2>6, <2>7, <2>9
    <3>3. QED
      BY <2>5, <2>8, <3>1, <3>2 DEF Alone
  <2>11. Alone(t)'
    <3>1. Live(t) = {}
      BY <1>0, <2>3 DEF Live
    <3>2. \A q \in Procs : ~Carries(q, t)
      BY <1>0, <1>p, <2>3 DEF Carries
    <3>3. \A q \in Procs : Carries(q, t)' => q = p
      BY <2>6, <3>2
    <3>4. t \notin ended'
      BY <1>0, <2>3, <2>5
    <3>5. QED
      BY <2>8, <3>1, <3>3, <3>4 DEF Alone
  <2>12. QED
    BY <1>q, <2>3, <2>5, <2>10, <2>11
<1>5. ASSUME NEW p \in Procs, InsertSession(p) PROVE OnePlace'
  <2>1. PICK t : t = request[p].token
    OBVIOUS
  <2>2. request[p].at = "insert_session" /\ t \in DOMAIN tokens /\ sessions' = sessions \cup {t}
        /\ forked' = forked /\ ended' = ended
    BY <1>5, <1>p, <2>1 DEF InsertSession, logins
  <2>3. KeepsRows
    BY <1>5, InsertSessionKeepsRows
  <2>4. DOMAIN tokens' = DOMAIN tokens /\ \A u \in DOMAIN tokens : tokens'[u].login = tokens[u].login
    BY <1>0, <2>3 DEF KeepsRows, Same
  <2>5. OthersWait(p) /\ request'[p].at = "idle"
    BY <1>5, FinishIs, NoRequestIs DEF InsertSession
  <2>6. ASSUME NEW l \in DOMAIN tokens \ forked PROVE Alone(l)'
    <3>1. \A q \in Procs \ {p} : Carries(q, l)' <=> Carries(q, l)
      BY <1>p, <2>4, <2>5 DEF Carries, OthersWait
    <3>2. ~Carries(p, l)' /\ (l = tokens[t].login => Carries(p, l)) /\ Alone(l)
      BY <1>0, <2>1, <2>2, <2>5, <2>6 DEF Carries, Issuing
    <3>3. CASE l # tokens[t].login
      <4>1. Live(l)' = Live(l)
        BY <1>0, <2>2, <2>4, <3>3 DEF Live
      <4>2. QED
        BY <2>2, <3>1, <3>2, <4>1 DEF Alone
    <3>4. CASE l = tokens[t].login
      <4>1. Live(l) = {} /\ l \notin ended /\ \A q \in Procs \ {p} : ~Carries(q, l)
        BY <3>2, <3>4 DEF Alone
      <4>2. Live(l)' = {t}
        BY <1>0, <2>2, <2>4, <3>4, <4>1 DEF Live
      <4>3. \A q \in Procs : ~Carries(q, l)'
        BY <3>1, <3>2, <4>1
      <4>4. QED
        BY <2>2, <4>1, <4>2, <4>3 DEF Alone
    <3>5. QED
      BY <3>3, <3>4
  <2>7. QED
    BY <1>q, <2>2, <2>4, <2>6
<1>6. QED
  BY <1>1, <1>2, <1>3, <1>4, <1>5

\* A login has one session at most however often it is refreshed, and none once
\* it was logged out, unless two requests used its cookie at the same time: a
\* request that has deleted a session is the only one that inserts the next.
THEOREM SessionsAreSingle == Spec => []OneSessionPerLogin
<1>1. Init => Typed /\ OnePlace
  <2> SUFFICES ASSUME Init PROVE Typed /\ OnePlace
    OBVIOUS
  <2>1. tokens = <<>>
    BY DEF Init
  <2>2. QED
    BY <2>1, TypesInit DEF OnePlace
<1>2. Typed /\ OnePlace /\ [Next]_vars => (Typed /\ OnePlace)'
  BY TypesKept, OnePlaceKept
<1>3. Typed /\ OnePlace => OneSessionPerLogin
  <2> SUFFICES ASSUME OnePlace, NEW l \in DOMAIN tokens \ forked
               PROVE  Cardinality(Live(l)) <= (IF l \in ended THEN 0 ELSE 1)
    BY DEF OneSessionPerLogin
  <2>1. (\A t, u \in Live(l) : t = u) /\ (l \in ended => Live(l) = {})
    BY DEF OnePlace
  <2>2. CASE Live(l) = {}
    <3>1. Cardinality(Live(l)) = 0
      BY <2>2, FS_EmptySet
    <3>2. QED
      BY <3>1
  <2>3. CASE Live(l) # {}
    <3>1. PICK t : Live(l) = {t}
      BY <2>1, <2>3
    <3>2. Cardinality(Live(l)) = 1
      BY <3>1, FS_Singleton
    <3>3. QED
      BY <2>1, <2>3, <3>2
  <2>4. QED
    BY <2>2, <2>3
<1>4. QED
  BY <1>1, <1>2, <1>3, PTL DEF Spec

-----------------------------------------------------------------------------
(***************************************************************************)
(* A password reset and the tokens issued under earlier passwords.         *)
(***************************************************************************)
LEMMA ResetsGrow ==
    ASSUME Typed, [Next]_vars, ~ \E p \in Procs : UpdateHash(p)
    PROVE  resets' = resets
<1>1. ASSUME NEW p \in Procs, Arrive(p) PROVE resets' = resets
  BY <1>1 DEF Arrive, RegistrationEnabled, FindUser, Check, FindSession, Logout, DisablePrincipal, SetRegistration
<1>2. ASSUME NEW p \in Procs, Serve(p), ~UpdateHash(p) PROVE resets' = resets
  BY <1>2 DEF Serve, CreateBrowserUser, BrowserUser, Fail, Success, Issue, SweepAccess, SweepSessions,
     InsertAccess, InsertSession, IssueFails, DeleteSession, RevokeAccess, RevokeSessions, ResetFails, bounds
<1>3. QED
  BY <1>1, <1>2 DEF Next, Start, Migrate, Crash, Tick, bounds, vars

\* A request that revokes was at it before, or has just set the password.
StillRevokes(q) ==
    request'[q].at \in Revoking =>
        /\ request[q].at \in Revoking
        /\ request'[q].account = request[q].account /\ request'[q].password = request[q].password
        /\ request'[q].at = "revoke_sessions" => request[q].at = "revoke_sessions" \/ RevokeAccess(q)

LEMMA RevokersKept ==
    ASSUME Typed, [Next]_vars, ~ \E p \in Procs : UpdateHash(p)
    PROVE  \A q \in Procs : StillRevokes(q)
<1>a. \A q \in Procs : request'[q] = request[q] => StillRevokes(q)
  BY DEF StillRevokes
<1>b. ASSUME NEW p \in Procs, OthersWait(p), StillRevokes(p) PROVE \A q \in Procs : StillRevokes(q)
  BY <1>a, <1>b DEF OthersWait
<1>c. ASSUME NEW p \in Procs, OthersWait(p), request'[p].at \notin Revoking PROVE \A q \in Procs : StillRevokes(q)
  BY <1>b, <1>c DEF StillRevokes
<1>1. CASE UNCHANGED request
  BY <1>a, <1>1
<1>2. CASE Crash
  BY <1>2, NoRequestIs DEF Crash, StillRevokes, Revoking
<1>3. ASSUME NEW p \in Procs, Arrive(p), ~UNCHANGED request PROVE \A q \in Procs : StillRevokes(q)
  <2>1. OthersWait(p) /\ request'[p].at \notin Revoking
    BY <1>3, RegistrationEnabledIs, CheckIs, FindSessionIs, FindUserIs
       DEF Arrive, Logout, DisablePrincipal, SetRegistration, Revoking
  <2>2. QED
    BY <1>c, <2>1
<1>4. ASSUME NEW p \in Procs, Serve(p), ~UpdateHash(p) PROVE \A q \in Procs : StillRevokes(q)
  <2>1. CASE Finish(p)
    BY <1>c, <2>1, FinishIs, NoRequestIs DEF Revoking
  <2>2. CASE CreateBrowserUser(p) /\ ~Finish(p)
    BY <1>c, <2>2, CreateBrowserUserIs DEF Revoking
  <2>3. CASE BrowserUser(p) /\ ~Finish(p)
    BY <1>c, <2>3, BrowserUserIs DEF Revoking
  <2>4. CASE Issue(p)
    BY <1>c, <2>4, IssueIs DEF Revoking
  <2>5. CASE InsertAccess(p)
    BY <1>c, <2>5, InsertAccessIs DEF Revoking
  <2>6. CASE Success(p) \/ DeleteSession(p) \/ SweepAccess(p) \/ SweepSessions(p)
    <3>1. PICK place \in {"issue", "sweep_sessions", "insert_access"} : Goto(p, place)
      BY <2>6 DEF Success, DeleteSession, SweepAccess, SweepSessions
    <3>2. QED
      BY <1>c, <3>1, GotoIs DEF Revoking
  <2>7. CASE RevokeAccess(p)
    <3>1. Goto(p, "revoke_sessions") /\ request[p].at = "revoke_access"
      BY <2>7 DEF RevokeAccess
    <3>2. StillRevokes(p) /\ OthersWait(p)
      BY <2>7, <3>1, GotoIs DEF StillRevokes, Revoking
    <3>3. QED
      BY <1>b, <3>2
  <2>8. QED
    BY <1>4, <2>1, <2>2, <2>3, <2>4, <2>5, <2>6, <2>7
       DEF Serve, Fail, InsertSession, IssueFails, RevokeSessions, ResetFails
<1>5. QED
  BY <1>1, <1>2, <1>3, <1>4, StepOf

\* A request that issues, or has just learnt for whom, is for the account and
\* the cookie or password it was for, and is late if it was.
StillFor(q) ==
    /\ request'[q].account = request[q].account /\ request'[q].cookie = request[q].cookie
    /\ request'[q].password = request[q].password
    /\ request[q].late => request'[q].late

StillIssues(q) ==
    Issues(q)' =>
        \/ CreateBrowserUser(q) /\ ~Finish(q)
        \/ BrowserUser(q) /\ ~Finish(q)
        \/ (\E t \in Given : FindSession(q, t)) /\ ~UNCHANGED request
        \/ Issues(q) /\ StillFor(q)

\* Where the row of a request is, its token's number is that of its own row.
StillInserts(q) ==
    request'[q].at = "insert_session" =>
        \/ InsertAccess(q)
        \/ request[q].at = "insert_session" /\ request'[q].token = request[q].token /\ StillFor(q)

LEMMA IssuersKept ==
    ASSUME Typed, [Next]_vars
    PROVE  \A q \in Procs : StillIssues(q) /\ StillInserts(q)
<1>a. \A q \in Procs : request'[q] = request[q] => StillIssues(q) /\ StillInserts(q)
  BY DEF StillIssues, StillInserts, StillFor, Issues
<1>b. ASSUME NEW p \in Procs, OthersWait(p), StillIssues(p), StillInserts(p)
      PROVE \A q \in Procs : StillIssues(q) /\ StillInserts(q)
  BY <1>a, <1>b DEF OthersWait
<1>c. ASSUME NEW p \in Procs, OthersWait(p), request'[p].at # "insert_session",
             request'[p].kind \notin Public \/ request'[p].account = None
      PROVE \A q \in Procs : StillIssues(q) /\ StillInserts(q)
  BY <1>b, <1>c DEF StillIssues, StillInserts, Issues
<1>1. CASE UNCHANGED request
  BY <1>a, <1>1
<1>2. CASE Crash
  BY <1>2, NoRequestIs DEF Crash, StillIssues, StillInserts, Issues, Public
<1>3. ASSUME NEW p \in Procs, UpdateHash(p) PROVE \A q \in Procs : StillIssues(q) /\ StillInserts(q)
  <2>1. request'[p].at = "revoke_access" /\ request'[p].kind = "reset"
    BY <1>3, UpdateHashMarks
  <2>2. \A q \in Procs \ {p} :
          /\ StillFor(q) /\ request'[q].at = request[q].at /\ request'[q].kind = request[q].kind
          /\ request'[q].token = request[q].token
    BY <1>3, UpdateHashMarks DEF StillFor
  <2>3. QED
    BY <2>1, <2>2 DEF StillIssues, StillInserts, StillFor, Issues, Public
<1>4. ASSUME NEW p \in Procs, Arrive(p), ~UNCHANGED request PROVE \A q \in Procs : StillIssues(q) /\ StillInserts(q)
  <2>1. ASSUME NEW t \in Given, FindSession(p, t) PROVE \A q \in Procs : StillIssues(q) /\ StillInserts(q)
    <3>1. OthersWait(p) /\ request'[p].at = "delete_session"
      BY <1>4, <2>1, FindSessionIs
    <3>2. StillIssues(p) /\ StillInserts(p)
      BY <1>4, <2>1, <3>1 DEF StillIssues, StillInserts
    <3>3. QED
      BY <1>b, <3>1, <3>2
  <2>2. ASSUME NEW n \in Names, RegistrationEnabled(p, n) \/ FindUser(p, n) \/ \E w \in 1 .. (resets + 1) : Check(p, n, w)
        PROVE \A q \in Procs : StillIssues(q) /\ StillInserts(q)
    BY <1>4, <1>c, <2>2, RegistrationEnabledIs, CheckIs, FindUserIs DEF Public
  <2>3. QED
    BY <1>4, <2>1, <2>2 DEF Arrive, Logout, DisablePrincipal, SetRegistration
<1>5. ASSUME NEW p \in Procs, Serve(p), ~UpdateHash(p) PROVE \A q \in Procs : StillIssues(q) /\ StillInserts(q)
  <2>1. CASE Finish(p)
    BY <1>c, <2>1, FinishIs, NoRequestIs DEF Public
  <2>2. CASE CreateBrowserUser(p) /\ ~Finish(p)
    BY <1>b, <2>2, CreateBrowserUserIs DEF StillIssues, StillInserts
  <2>3. CASE BrowserUser(p) /\ ~Finish(p)
    BY <1>b, <2>3, BrowserUserIs DEF StillIssues, StillInserts
  <2>4. CASE Issue(p)
    BY <1>b, <2>4, IssueIs DEF StillIssues, StillInserts, StillFor, Issues
  <2>5. CASE InsertAccess(p)
    BY <1>b, <2>5, InsertAccessIs DEF StillIssues, StillInserts, StillFor, Issues
  <2>6. CASE Success(p) \/ DeleteSession(p) \/ SweepAccess(p) \/ SweepSessions(p) \/ RevokeAccess(p)
    <3>1. PICK place \in {"issue", "sweep_sessions", "insert_access", "revoke_sessions"} : Goto(p, place)
      BY <2>6 DEF Success, DeleteSession, SweepAccess, SweepSessions, RevokeAccess
    <3>2. /\ OthersWait(p) /\ request'[p].at # "insert_session" /\ request'[p].kind = request[p].kind /\ StillFor(p)
      BY <3>1, GotoIs DEF StillFor
    <3>3. QED
      BY <1>b, <3>2 DEF StillIssues, StillInserts, StillFor, Issues
  <2>7. QED
    BY <1>5, <2>1, <2>2, <2>3, <2>4, <2>5, <2>6
       DEF Serve, Fail, InsertSession, IssueFails, RevokeSessions, ResetFails
<1>6. QED
  BY <1>1, <1>2, <1>3, <1>4, <1>5, StepOf

\* A registration that is done at once has added nothing.
LEMMA RefusedAddsNone ==
    ASSUME Typed, NEW p \in Procs, CreateBrowserUser(p), Finish(p)
    PROVE  UNCHANGED <<users, settled>>
<1>1. request'[p].at = "idle"
  BY FinishIs, NoRequestIs
<1>2. ASSUME request' = [request EXCEPT ![p].at = "issue", ![p].account = Len(accounts')] PROVE FALSE
  <2>1. PICK a : a = Len(accounts')
    OBVIOUS
  <2>2. PICK r : r = [request[p] EXCEPT !.at = "issue", !.account = a]
    OBVIOUS
  <2>3. request[p] \in Request /\ request' = [request EXCEPT ![p] = r]
    BY <1>2, <2>1, <2>2 DEF Typed
  <2>4. r.at = "issue"
    BY <2>2, <2>3 DEF Request
  <2>5. QED
    BY <1>1, <2>3, <2>4, ContinuesWith
<1>3. QED
  BY <1>2 DEF CreateBrowserUser, users

LEMMA Numbers ==
    ASSUME Typed
    PROVE  /\ accounts \in Seq(Account) /\ settled \in Seq(Nat) /\ DOMAIN settled = DOMAIN accounts
           /\ tokens \in Seq(Token) /\ resets \in Nat
           /\ \A a \in DOMAIN accounts : accounts[a] \in Account /\ accounts[a].password \in Nat /\ settled[a] \in Nat
           /\ \A t \in DOMAIN tokens : tokens[t] \in Token /\ tokens[t].password \in Nat /\ tokens[t].account \in DOMAIN accounts
           /\ \A q \in Procs : request[q].password \in Nat /\ PasswordOf(q) \in Nat
           /\ \A q \in Procs : Issues(q) => request[q].account \in DOMAIN accounts
           /\ \A q \in Procs : request[q].at \in Revoking =>
                 request[q].account \in DOMAIN accounts /\ request[q].kind = "reset"
<1>1. /\ accounts \in Seq(Account) /\ settled \in Seq(Nat) /\ DOMAIN settled = DOMAIN accounts
      /\ tokens \in Seq(Token) /\ resets \in Nat
      /\ \A t \in DOMAIN tokens : tokens[t].account \in DOMAIN accounts
  BY DEF Typed, UsersOK, TokensOK, BoundsOK
<1>2. \A a \in DOMAIN accounts : accounts[a] \in Account /\ accounts[a].password \in Nat /\ settled[a] \in Nat
  <2>1. \A a \in DOMAIN accounts : accounts[a] \in Account /\ settled[a] \in Nat
    BY <1>1
  <2>2. QED
    BY <2>1 DEF Account, Passwords
<1>3. \A t \in DOMAIN tokens : tokens[t] \in Token /\ tokens[t].password \in Nat
  <2>1. \A t \in DOMAIN tokens : tokens[t] \in Token
    BY <1>1
  <2>2. QED
    BY <2>1 DEF Token, Passwords
<1>4. \A q \in Procs : request[q].password \in Nat
  BY DEF Typed, Request, Passwords
<1>5. \A q \in Procs : request[q].cookie \in DOMAIN tokens \cup {None}
  BY DEF Typed, RequestsOK, Points
<1>6. \A q \in Procs : PasswordOf(q) \in Nat
  BY <1>3, <1>4, <1>5 DEF PasswordOf
<1>7. \A q \in Procs : Issues(q) => request[q].account \in DOMAIN accounts
  BY DEF Issues, Typed, RequestsOK, Points
<1>8. \A q \in Procs : request[q].at \in Revoking =>
          request[q].account \in DOMAIN accounts /\ request[q].kind = "reset"
  BY DEF Typed, RequestsOK, Points, Fits
<1>9. QED
  BY <1>1, <1>2, <1>3, <1>4, <1>6, <1>7, <1>8

\* What tokens are issued under does not change while they are.
LEMMA PasswordKept ==
    ASSUME Typed, [Next]_vars, NEW q \in Procs, StillFor(q)
    PROVE  PasswordOf(q)' = PasswordOf(q)
<1>1. request[q].cookie \in DOMAIN tokens \cup {None} /\ \A t \in DOMAIN tokens : tokens'[t].password = tokens[t].password
  BY TokensKept DEF Typed, RequestsOK, Points, Same
<1>2. QED
  BY <1>1 DEF StillFor, PasswordOf

LEMMA AscendingKept ==
    ASSUME Typed, Ascending, [Next]_vars
    PROVE  Ascending'
<1>0. /\ \A a \in DOMAIN accounts :
             /\ accounts[a].password <= resets + 1 /\ settled[a] <= accounts[a].password
             /\ \A p \in Procs : Resets(p, a) => request[p].password # 0 /\ request[p].password <= accounts[a].password
  BY DEF Ascending
<1>n. /\ accounts \in Seq(Account) /\ settled \in Seq(Nat) /\ DOMAIN settled = DOMAIN accounts /\ resets \in Nat
      /\ \A a \in DOMAIN accounts : accounts[a] \in Account /\ accounts[a].password \in Nat /\ settled[a] \in Nat
      /\ \A q \in Procs : request[q].password \in Nat
      /\ \A q \in Procs : request[q].at \in Revoking => request[q].account \in DOMAIN accounts
  BY Numbers
<1>1. ASSUME NEW p \in Procs, UpdateHash(p) PROVE Ascending'
  <2>1. PICK a : a = request[p].account
    OBVIOUS
  <2>2. PICK w : w = resets + 2
    OBVIOUS
  <2>3. a \in DOMAIN accounts
    BY <1>1, <2>1 DEF Typed, RequestsOK, Points, UpdateHash
  <2>4. accounts' = [accounts EXCEPT ![a] = [accounts[a] EXCEPT !.password = w]] /\ settled' = settled /\ resets' = resets + 1
    BY <1>1, <2>1, <2>2 DEF UpdateHash
  <2>5. DOMAIN accounts' = DOMAIN accounts /\ \A b \in DOMAIN accounts : accounts'[b].password = IF b = a THEN w ELSE accounts[b].password
    BY <1>n, <2>3, <2>4 DEF Account
  <2>6. request'[p].at = "revoke_access" /\ request'[p].password = w /\ request'[p].account = a
    BY <1>1, <2>1, <2>2, UpdateHashMarks
  <2>7. \A q \in Procs \ {p} : request'[q].at = request[q].at /\ request'[q].account = request[q].account
            /\ request'[q].password = request[q].password
    BY <1>1, UpdateHashMarks
  <2>8. ASSUME NEW b \in DOMAIN accounts
        PROVE  accounts'[b].password <= resets' + 1 /\ settled'[b] <= accounts'[b].password
    BY <1>0, <1>n, <2>2, <2>4, <2>5
  <2>9. ASSUME NEW b \in DOMAIN accounts, NEW q \in Procs, Resets(q, b)'
        PROVE  request'[q].password # 0 /\ request'[q].password <= accounts'[b].password
    <3>1. CASE q = p
      BY <1>n, <2>2, <2>5, <2>6, <2>9, <3>1 DEF Resets
    <3>2. CASE q # p
      <4>1. Resets(q, b) /\ request'[q].password = request[q].password
        BY <2>7, <2>9, <3>2 DEF Resets
      <4>2. PICK x, y \in Nat : x = request[q].password /\ y = accounts[b].password
        BY <1>n
      <4>3. x # 0 /\ x <= y /\ y <= resets + 1
        BY <1>0, <4>1, <4>2
      <4>4. x <= y /\ x <= w
        BY <1>n, <2>2, <4>2, <4>3
      <4>5. accounts'[b].password = w \/ accounts'[b].password = y
        BY <2>5, <4>2
      <4>6. request'[q].password = x
        BY <4>1, <4>2
      <4>7. QED
        BY <4>3, <4>4, <4>5, <4>6
    <3>3. QED
      BY <3>1, <3>2
  <2>10. QED
    BY <2>5, <2>8, <2>9 DEF Ascending
<1>2. CASE ~ \E p \in Procs : UpdateHash(p)
  <2>1. resets' = resets /\ \A q \in Procs : StillRevokes(q)
    BY <1>2, ResetsGrow, RevokersKept
  <2>a. ASSUME NEW p \in Procs, NEW a, Resets(p, a)'
        PROVE  /\ a \in DOMAIN accounts /\ request'[p].password = request[p].password
               /\ request[p].password # 0 /\ request[p].password <= accounts[a].password
    <3>1. Resets(p, a) /\ request'[p].password = request[p].password
      BY <2>1, <2>a DEF StillRevokes, Resets
    <3>2. a \in DOMAIN accounts
      BY <1>n, <3>1 DEF Resets
    <3>3. QED
      BY <1>0, <3>1, <3>2
  <2>b. ASSUME DOMAIN accounts' = DOMAIN accounts, settled' = settled,
               \A a \in DOMAIN accounts : accounts'[a].password = accounts[a].password
        PROVE  Ascending'
    BY <1>0, <2>1, <2>a, <2>b DEF Ascending
  <2>2. CASE UNCHANGED <<users, settled>>
    BY <2>2, <2>b DEF users
  <2>3. ASSUME NEW p \in Procs, NEW a \in DOMAIN accounts, DisablePrincipal(p, a) PROVE Ascending'
    <3>1. accounts' = [accounts EXCEPT ![a] = [accounts[a] EXCEPT !.disabled = TRUE]] /\ settled' = settled
      BY <2>3 DEF DisablePrincipal
    <3>2. DOMAIN accounts' = DOMAIN accounts /\ \A b \in DOMAIN accounts : accounts'[b].password = accounts[b].password
      BY <1>n, <3>1 DEF Account
    <3>3. QED
      BY <2>b, <3>1, <3>2
  <2>4. ASSUME NEW p \in Procs, SetRegistration(p) PROVE Ascending'
    BY <2>4, <2>b DEF SetRegistration
  <2>5. ASSUME NEW p \in Procs, RevokeSessions(p) PROVE Ascending'
    <3>1. PICK a : a = request[p].account
      OBVIOUS
    <3>2. a \in DOMAIN accounts /\ Resets(p, a)
      BY <1>n, <2>5, <3>1 DEF RevokeSessions, Resets, Revoking
    <3>3. PICK m : m = Max({settled[a], request[p].password})
      OBVIOUS
    <3>4. m <= accounts[a].password /\ m \in Nat
      <4>1. PICK x, y \in Nat : x = settled[a] /\ y = request[p].password
        BY <1>n, <3>2
      <4>2. x <= accounts[a].password /\ y <= accounts[a].password
        BY <1>0, <3>2, <4>1
      <4>3. m = IF x >= y THEN x ELSE y
        BY <3>3, <4>1, GreaterOf
      <4>4. QED
        BY <4>1, <4>2, <4>3
    <3>5. accounts' = accounts /\ settled' = [settled EXCEPT ![a] = m]
      BY <2>5, <3>1, <3>3 DEF RevokeSessions, users
    <3>6. \A b \in DOMAIN accounts : settled'[b] <= accounts'[b].password
      BY <1>0, <1>n, <3>4, <3>5
    <3>7. QED
      BY <1>0, <2>1, <2>a, <3>5, <3>6 DEF Ascending
  <2>6. ASSUME NEW p \in Procs, CreateBrowserUser(p) PROVE Ascending'
    <3>1. CASE Finish(p)
      <4>1. UNCHANGED <<users, settled>>
        BY <2>6, <3>1, RefusedAddsNone
      <4>2. QED
        BY <2>2, <4>1
    <3>2. CASE ~Finish(p)
      <4>1. PICK row : row = [name |-> request[p].name, password |-> request[p].password, disabled |-> FALSE]
        OBVIOUS
      <4>2. PICK n : n = Len(accounts) + 1
        OBVIOUS
      <4>3. accounts' = Append(accounts, row) /\ settled' = Append(settled, 0) /\ row.password = 1
        <5>1. request[p].password = 1
          BY <2>6, <3>2, CreateBrowserUserIs DEF Typed, RequestsOK, Fits
        <5>2. QED
          BY <2>6, <3>2, <4>1, <5>1, CreateBrowserUserIs
      <4>4. DOMAIN accounts' = DOMAIN accounts \cup {n} /\ accounts'[n] = row /\ \A b \in DOMAIN accounts : accounts'[b] = accounts[b]
        BY <1>n, <4>2, <4>3
      <4>5. settled'[n] = 0 /\ \A b \in DOMAIN accounts : settled'[b] = settled[b]
        <5>1. Len(settled) = Len(accounts)
          BY DEF Typed, UsersOK
        <5>2. QED
          BY <1>n, <4>2, <4>3, <5>1
      <4>6. n \notin DOMAIN accounts
        BY <1>n, <4>2
      <4>7. \A b \in DOMAIN accounts' : accounts'[b].password <= resets' + 1 /\ settled'[b] <= accounts'[b].password
        BY <1>0, <1>n, <2>1, <4>3, <4>4, <4>5
      <4>8. QED
        BY <1>0, <2>a, <4>4, <4>6, <4>7 DEF Ascending
    <3>3. QED
      BY <3>1, <3>2
  <2>7. QED
    BY <1>2, <2>2, <2>3, <2>4, <2>5, <2>6, UsersFrame
<1>3. QED
  BY <1>1, <1>2

\* A row becomes late, or ceases to be, only when its session is inserted.
LEMMA RowsLate ==
    ASSUME Typed, [Next]_vars
    PROVE  \A t \in DOMAIN tokens :
              \/ tokens'[t].late = tokens[t].late
              \/ \E p \in Procs : InsertSession(p) /\ request[p].token = t /\ tokens'[t].late = request[p].late
<1>0. tokens \in Seq(Token)
  BY DEF Typed, TokensOK
<1>1. CASE UNCHANGED tokens
  BY <1>1
<1>2. ASSUME NEW p \in Procs, InsertAccess(p) PROVE \A t \in DOMAIN tokens : tokens'[t].late = tokens[t].late
  BY <1>2, InsertAccessAdds
<1>3. ASSUME NEW p \in Procs, InsertSession(p)
      PROVE \A t \in DOMAIN tokens :
              \/ tokens'[t].late = tokens[t].late
              \/ request[p].token = t /\ tokens'[t].late = request[p].late
  BY <1>3, InsertSessionKeepsRows
<1>4. ASSUME NEW p \in Procs, DeleteSession(p) PROVE \A t \in DOMAIN tokens : tokens'[t].late = tokens[t].late
  <2>1. PICK t : t = request[p].cookie
    OBVIOUS
  <2>2. t \in DOMAIN tokens /\ tokens' = [tokens EXCEPT ![t].used = TRUE]
    BY <1>4, <2>1 DEF Typed, RequestsOK, Points, DeleteSession, At
  <2>3. QED
    BY <2>2, UsedKeepsRows
<1>5. ASSUME NEW p \in Procs, NEW t \in Given, Logout(p, t) PROVE \A u \in DOMAIN tokens : tokens'[u].late = tokens[u].late
  <2>1. tokens[t] \in Token
    BY <1>0 DEF Given
  <2>2. PICK b \in BOOLEAN : b = (tokens[t].used \/ t \in sessions)
    BY <2>1 DEF Token
  <2>3. t \in DOMAIN tokens /\ tokens' = [tokens EXCEPT ![t].used = b]
    BY <1>5, <2>2 DEF Logout, Given
  <2>4. QED
    BY <2>3, UsedKeepsRows
<1>6. ASSUME NEW p \in Procs, RevokeAccess(p) \/ RevokeSessions(p) PROVE \A t \in DOMAIN tokens : tokens'[t].late = tokens[t].late
  <2>1. tokens' = Revoked(request[p].account)
    BY <1>6 DEF RevokeAccess, RevokeSessions
  <2>2. QED
    BY <2>1, RevokedKeepsRows
<1>7. QED
  BY <1>1, <1>2, <1>3, <1>4, <1>5, <1>6, TokensFrame DEF SweepAccess, SweepSessions, issued

\* What is settled rises only to the password of a request that resets it.
LEMMA SettledIs ==
    ASSUME Typed, [Next]_vars, NEW a \in DOMAIN accounts
    PROVE  \/ settled'[a] = settled[a]
           \/ \E p \in Procs : RevokeSessions(p) /\ Resets(p, a) /\ settled'[a] = request[p].password
<1>n. settled \in Seq(Nat) /\ DOMAIN settled = DOMAIN accounts /\ Len(settled) = Len(accounts) /\ settled[a] \in Nat
  BY Numbers DEF Typed, UsersOK
<1>1. ASSUME NEW p \in Procs, CreateBrowserUser(p) PROVE settled'[a] = settled[a]
  BY <1>n, <1>1 DEF CreateBrowserUser
<1>2. ASSUME NEW p \in Procs, RevokeSessions(p)
      PROVE settled'[a] = settled[a] \/ (Resets(p, a) /\ settled'[a] = request[p].password)
  <2>1. PICK b : b = request[p].account
    OBVIOUS
  <2>2. PICK m : m = Max({settled[b], request[p].password})
    OBVIOUS
  <2>3. settled' = [settled EXCEPT ![b] = m] /\ request[p].at = "revoke_sessions"
    BY <1>2, <2>1, <2>2 DEF RevokeSessions
  <2>4. CASE a # b
    BY <1>n, <2>3, <2>4
  <2>5. CASE a = b
    <3>1. settled'[a] = m /\ Resets(p, a)
      BY <1>n, <2>1, <2>3, <2>5 DEF Resets, Revoking
    <3>2. m = settled[a] \/ m = request[p].password
      BY <1>n, <2>2, <2>5, GreaterOf, Numbers
    <3>3. QED
      BY <3>1, <3>2
  <2>6. QED
    BY <2>4, <2>5
<1>3. QED
  BY <1>1, <1>2, UsersFrame DEF UpdateHash, SetRegistration, DisablePrincipal

LEMMA LateInFlightKept ==
    ASSUME Typed, Ascending, LateInFlight, StaleOnlyByOverlap, [Next]_vars
    PROVE  LateInFlight'
<1>n. /\ tokens \in Seq(Token)
      /\ \A a \in DOMAIN accounts : accounts[a].password \in Nat /\ settled[a] \in Nat
      /\ \A t \in DOMAIN tokens : tokens[t] \in Token /\ tokens[t].account \in DOMAIN accounts
      /\ \A q \in Procs : request[q].password \in Nat /\ PasswordOf(q) \in Nat
      /\ \A q \in Procs : request[q].at \in Revoking => request[q].account \in DOMAIN accounts
      /\ \A q \in Procs : Issues(q) => request[q].account \in DOMAIN accounts
  BY Numbers
<1> SUFFICES ASSUME NEW q \in Procs, Issues(q)', ~request'[q].late
             PROVE  /\ settled'[request'[q].account] <= PasswordOf(q)'
                    /\ \A p \in Procs : Resets(p, request[q].account)' => request'[p].password <= PasswordOf(q)'
  BY DEF LateInFlight
<1>1. CASE CreateBrowserUser(q) /\ ~Finish(q)
  <2>1. PICK a : a = Len(accounts) + 1
    OBVIOUS
  <2>2. /\ OthersWait(q) /\ request'[q].at = "issue" /\ request'[q].account = a
        /\ settled' = Append(settled, 0)
    BY <1>1, <2>1, CreateBrowserUserIs
  <2>3. settled'[a] = 0 /\ a \notin DOMAIN accounts
    BY <2>1, <2>2 DEF Typed, UsersOK
  <2>4. \A p \in Procs : ~Resets(p, a)'
    BY <1>n, <2>2, <2>3 DEF Resets, OthersWait, Revoking
  <2>5. PasswordOf(q)' \in Nat
    <3>1. Typed'
      BY TypesKept
    <3>2. /\ tokens' \in Seq(Token) /\ request'[q].password \in Nat /\ request'[q].cookie \in DOMAIN tokens' \cup {None}
      <4>1. tokens' \in Seq(Token) /\ request'[q] \in Request /\ Points(request[q])'
        BY <3>1 DEF Typed, TokensOK, RequestsOK
      <4>2. request'[q].password \in Nat
        BY <4>1 DEF Request, Passwords
      <4>3. request'[q].cookie \in DOMAIN tokens' \cup {None}
        BY <4>1 DEF Points
      <4>4. QED
        BY <4>1, <4>2, <4>3
    <3>3. \A t \in DOMAIN tokens' : tokens'[t] \in Token
      BY <3>2
    <3>4. QED
      BY <3>2, <3>3 DEF PasswordOf, Token, Passwords
  <2>6. request'[q].account = a
    BY <2>2
  <2>7. settled'[request'[q].account] <= PasswordOf(q)'
    BY <2>3, <2>5, <2>6
  <2>8. QED
    BY <2>4, <2>6, <2>7 DEF Resets
<1>2. CASE BrowserUser(q) /\ ~Finish(q)
  <2>1. PICK a : a = request'[q].account
    OBVIOUS
  <2>2. /\ OthersWait(q) /\ request'[q].at = "count" /\ request[q].kind = "login"
        /\ request'[q].cookie = request[q].cookie /\ request'[q].password = request[q].password
        /\ a # None => a \in DOMAIN accounts /\ accounts[a].password = request[q].password
    BY <1>2, <2>1, BrowserUserIs
  <2>3. a \in DOMAIN accounts /\ accounts[a].password = request[q].password
    BY <2>1, <2>2 DEF Issues
  <2>4. request[q].cookie = None
    BY <2>2 DEF Typed, RequestsOK, Points
  <2>5. PasswordOf(q)' = request[q].password
    BY <2>2, <2>4 DEF PasswordOf
  <2>6. settled' = settled
    BY <1>2 DEF BrowserUser
  <2>7. \A p \in Procs : Resets(p, a)' => Resets(p, a) /\ request'[p].password = request[p].password
    BY <2>2 DEF Resets, OthersWait, Revoking
  <2>8. settled[a] <= accounts[a].password /\ \A p \in Procs : Resets(p, a) => request[p].password <= accounts[a].password
    BY <2>3 DEF Ascending
  <2>9. QED
    BY <2>1, <2>3, <2>5, <2>6, <2>7, <2>8 DEF Resets
<1>3. CASE (\E t \in Given : FindSession(q, t)) /\ ~UNCHANGED request
  <2>1. PICK t \in Given : FindSession(q, t)
    BY <1>3
  <2>2. PICK a : a = tokens[t].account
    OBVIOUS
  <2>3. /\ OthersWait(q) /\ request'[q].at = "delete_session" /\ request'[q].cookie = t /\ request'[q].account = a
        /\ request'[q].late = (tokens[t].late \/ Resetting(a)) /\ t \in sessions
    BY <1>3, <2>1, <2>2, FindSessionIs
  <2>4. ~tokens[t].late /\ ~Resetting(a)
    BY <2>3
  <2>5. t \in DOMAIN tokens /\ t # None
    BY <1>n DEF Given, None
  <2>6. settled' = settled /\ tokens' = tokens
    BY <2>1 DEF FindSession, issued
  <2>7. PasswordOf(q)' = tokens[t].password
    BY <2>3, <2>5, <2>6 DEF PasswordOf
  <2>8. a \in DOMAIN accounts /\ settled[a] \in Nat /\ tokens[t].password \in Nat
    BY <1>n, <2>2, <2>5, Numbers
  <2>9. settled[a] <= tokens[t].password
    BY <2>2, <2>3, <2>4, <2>8 DEF StaleOnlyByOverlap
  <2>10. \A p \in Procs : ~Resets(p, a)'
    BY <2>3, <2>4 DEF Resets, Resetting, OthersWait, Revoking
  <2>11. QED
    BY <2>3, <2>6, <2>7, <2>9, <2>10 DEF Resets
<1>4. CASE Issues(q) /\ StillFor(q)
  <2>1. PICK a : a = request[q].account
    OBVIOUS
  <2>2. PICK w : w = PasswordOf(q)
    OBVIOUS
  <2>3. PasswordOf(q)' = w /\ request'[q].account = a /\ ~request[q].late
    BY <1>4, <2>1, <2>2, PasswordKept DEF StillFor
  <2>4. a \in DOMAIN accounts /\ w \in Nat /\ settled[a] <= w /\ \A p \in Procs : Resets(p, a) => request[p].password <= w
    BY <1>n, <1>4, <2>1, <2>2, <2>3 DEF LateInFlight
  <2>5. settled'[a] <= w
    BY <2>4, SettledIs
  <2>6. ASSUME NEW p \in Procs, UpdateHash(p) PROVE \A r \in Procs : Resets(r, a)' => request'[r].password <= w
    <3>1. request'[p].kind = "reset" /\ request'[p].account = request[p].account
      BY <2>6, UpdateHashMarks
    <3>2. q # p
      BY <3>1 DEF Issues, Public
    <3>3. request[p].account # a
      BY <1>4, <2>1, <2>6, <3>2, UpdateHashMarks DEF Issues
    <3>4. \A r \in Procs \ {p} : request'[r].at = request[r].at /\ request'[r].account = request[r].account
              /\ request'[r].password = request[r].password
      BY <2>6, UpdateHashMarks
    <3>5. QED
      BY <2>4, <3>1, <3>3, <3>4 DEF Resets
  <2>7. ASSUME ~ \E p \in Procs : UpdateHash(p) PROVE \A r \in Procs : Resets(r, a)' => request'[r].password <= w
    <3>1. \A r \in Procs : StillRevokes(r)
      BY <2>7, RevokersKept
    <3>2. QED
      BY <2>4, <3>1 DEF StillRevokes, Resets
  <2>8. QED
    BY <2>3, <2>5, <2>6, <2>7 DEF Resets
<1>5. QED
  BY <1>1, <1>2, <1>3, <1>4, IssuersKept DEF StillIssues

LEMMA InsertedKept ==
    ASSUME Typed, Inserted, [Next]_vars
    PROVE  Inserted'
<1>n. /\ tokens \in Seq(Token) /\ Typed'
      /\ \A q \in Procs :
           /\ request[q].at = "insert_session" => request[q].token \in DOMAIN tokens
           /\ request[q].cookie \in DOMAIN tokens \cup {None}
           /\ request[q].kind = "refresh" <=> request[q].cookie # None
      /\ \A t \in DOMAIN tokens : Same(t)
  BY TypesKept, TokensKept DEF Typed, TokensOK, RequestsOK, Points
<1>1. ASSUME NEW q \in Procs, request'[q].at = "insert_session"
      PROVE  /\ tokens'[request'[q].token].account = request'[q].account
             /\ tokens'[request'[q].token].password = PasswordOf(q)'
             /\ tokens'[request'[q].token].late => request'[q].late
  <2>1. CASE InsertAccess(q)
    <3>1. PICK t : t = Len(tokens) + 1
      OBVIOUS
    <3>2. /\ request'[q].token = t /\ request'[q].account = request[q].account /\ request'[q].late = request[q].late
          /\ StillFor(q)
      BY <2>1, <3>1, InsertAccessIs DEF StillFor
    <3>3. /\ tokens'[t].account = request[q].account /\ tokens'[t].late = request[q].late
          /\ tokens'[t].password = PasswordOf(q)
      BY <2>1, <3>1, InsertAccessAdds
    <3>4. PasswordOf(q)' = PasswordOf(q)
      BY <3>2, PasswordKept
    <3>5. QED
      BY <3>2, <3>3, <3>4
  <2>2. CASE request[q].at = "insert_session" /\ request'[q].token = request[q].token /\ StillFor(q)
    <3>1. PICK t \in DOMAIN tokens : t = request[q].token
      BY <1>n, <2>2
    <3>2. /\ tokens[t].account = request[q].account /\ tokens[t].password = PasswordOf(q)
          /\ tokens[t].late => request[q].late
      BY <2>2, <3>1 DEF Inserted
    <3>3. PasswordOf(q)' = PasswordOf(q)
      BY <2>2, PasswordKept
    <3>4. tokens'[t].late = tokens[t].late
      <4>1. ASSUME NEW p \in Procs, InsertSession(p), request[p].token = t PROVE FALSE
        <5>1. request[p].at = "insert_session" /\ request'[p].at = "idle"
          BY <4>1, FinishIs, NoRequestIs DEF InsertSession
        <5>2. p = q
          BY <2>2, <3>1, <4>1, <5>1 DEF Inserted
        <5>3. QED
          BY <1>1, <5>1, <5>2
      <4>2. QED
        BY <4>1, RowsLate
    <3>5. QED
      BY <1>n, <2>2, <3>1, <3>2, <3>3, <3>4 DEF Same, StillFor
  <2>3. QED
    BY <1>1, <2>1, <2>2, IssuersKept DEF StillInserts
<1>2. ASSUME NEW p \in Procs, NEW q \in Procs, request'[p].at = "insert_session",
             request'[q].at = "insert_session", request'[p].token = request'[q].token
      PROVE  p = q
  <2>1. ASSUME NEW r \in Procs, NEW s \in Procs, InsertAccess(r), request'[s].at = "insert_session",
               request'[s].token = request'[r].token
        PROVE  r = s
    <3> SUFFICES ASSUME r # s PROVE FALSE
      OBVIOUS
    <3>1. request'[s] = request[s] /\ request'[r].token = Len(tokens) + 1
      BY <2>1, InsertAccessIs DEF OthersWait
    <3>2. request[s].at = "insert_session" /\ request[s].token = Len(tokens) + 1
      BY <2>1, <3>1
    <3>3. request[s].token \in DOMAIN tokens
      BY <1>n, <3>2
    <3>4. Len(tokens) + 1 \notin DOMAIN tokens
      BY <1>n
    <3>5. QED
      BY <3>2, <3>3, <3>4
  <2>2. CASE InsertAccess(p)
    BY <1>2, <2>1, <2>2
  <2>3. CASE InsertAccess(q)
    BY <1>2, <2>1, <2>3
  <2>4. CASE ~InsertAccess(p) /\ ~InsertAccess(q)
    <3>1. /\ request[p].at = "insert_session" /\ request'[p].token = request[p].token
          /\ request[q].at = "insert_session" /\ request'[q].token = request[q].token
      BY <1>2, <2>4, IssuersKept DEF StillInserts
    <3>2. QED
      BY <1>2, <3>1 DEF Inserted
  <2>5. QED
    BY <2>2, <2>3, <2>4
<1>3. ASSUME NEW q \in Procs, request'[q].kind = "refresh"
      PROVE  tokens'[request'[q].cookie].account = request'[q].account
  <2>1. /\ Fits(request'[q]) /\ request'[q] \in Request /\ request'[q].cookie # None
        /\ request'[q].at \in Issuing \cup {"delete_session"} => request'[q].account # None
    BY <1>n, <1>3 DEF Typed, RequestsOK, Points, Fits
  <2>2. request'[q].at \in Issuing \cup {"delete_session"}
    BY <1>3, <2>1, NoRequestIs DEF Fits, Request, Places, Issuing, Admitted, Revoking
  <2>3. Issues(q)'
    BY <1>3, <2>1, <2>2 DEF Issues, Public
  <2>4. CASE CreateBrowserUser(q) /\ ~Finish(q)
    BY <1>3, <2>4, CreateBrowserUserIs
  <2>5. CASE BrowserUser(q) /\ ~Finish(q)
    BY <1>3, <2>5, BrowserUserIs
  <2>6. CASE (\E t \in Given : FindSession(q, t)) /\ ~UNCHANGED request
    <3>1. PICK t \in Given : FindSession(q, t)
      BY <2>6
    <3>2. request'[q].cookie = t /\ request'[q].account = tokens[t].account
      BY <2>6, <3>1, FindSessionIs
    <3>3. t \in DOMAIN tokens
      BY DEF Given
    <3>4. QED
      BY <1>n, <3>2, <3>3 DEF Same
  <2>7. CASE Issues(q) /\ StillFor(q)
    <3>1. request'[q].cookie = request[q].cookie /\ request'[q].account = request[q].account
      BY <2>7 DEF StillFor
    <3>2. request[q].kind = "refresh" /\ request[q].cookie \in DOMAIN tokens
      BY <1>n, <2>1, <3>1
    <3>3. tokens[request[q].cookie].account = request[q].account
      BY <3>2 DEF Inserted
    <3>4. QED
      BY <1>n, <3>1, <3>2, <3>3 DEF Same
  <2>8. QED
    BY <2>3, <2>4, <2>5, <2>6, <2>7, IssuersKept DEF StillIssues
<1>4. QED
  BY <1>1, <1>2, <1>3 DEF Inserted

\* What a request inserts is stale only if the request is late.
LEMMA InsertedInTime ==
    ASSUME Typed, LateInFlight, NEW p \in Procs, request[p].at \in Issuing, ~request[p].late
    PROVE  /\ request[p].account \in DOMAIN accounts
           /\ settled[request[p].account] <= PasswordOf(p)
           /\ \A q \in Procs : Resets(q, request[p].account) => request[q].password <= PasswordOf(p)
<1>1. Issues(p)
  BY DEF Typed, RequestsOK, Points, Fits, Issues
<1>2. QED
  BY <1>1, Numbers DEF LateInFlight

LEMMA StaleInAccessKept ==
    ASSUME Typed, LateInFlight, Inserted, StaleInAccess, [Next]_vars
    PROVE  StaleInAccess'
<1>n. /\ tokens \in Seq(Token) /\ access \subseteq DOMAIN tokens /\ \A t \in DOMAIN tokens : Same(t)
  BY TokensKept DEF Typed, TokensOK
<1>1. ASSUME NEW p \in Procs, request'[p].at = "revoke_sessions" PROVE
         /\ request'[p].account = request[p].account /\ request'[p].password = request[p].password
         /\ request[p].at = "revoke_sessions" \/ RevokeAccess(p)
  <2>1. CASE \E q \in Procs : UpdateHash(q)
    <3>1. PICK q \in Procs : UpdateHash(q)
      BY <2>1
    <3>2. p # q
      BY <1>1, <3>1, UpdateHashMarks
    <3>3. QED
      BY <1>1, <3>1, <3>2, UpdateHashMarks
  <2>2. CASE ~ \E q \in Procs : UpdateHash(q)
    BY <1>1, <2>2, RevokersKept DEF StillRevokes, Revoking
  <2>3. QED
    BY <2>1, <2>2
<1>2. ASSUME NEW p \in Procs, request'[p].at = "revoke_sessions",
             NEW t \in access', tokens'[t].account = request'[p].account, ~tokens'[t].late
      PROVE  request'[p].password <= tokens'[t].password
  <2>1. /\ request'[p].account = request[p].account /\ request'[p].password = request[p].password
        /\ request[p].at = "revoke_sessions" \/ RevokeAccess(p)
    BY <1>1, <1>2
  <2>2. CASE RevokeAccess(p)
    <3>1. t \in access /\ tokens[t].account # request[p].account
      BY <1>2, <2>2 DEF RevokeAccess, OfOthers
    <3>2. QED
      BY <1>n, <1>2, <2>1, <3>1 DEF Same
  <2>3. CASE ~RevokeAccess(p) /\ t \in access
    <3>1. tokens[t].account = request[p].account /\ tokens'[t].password = tokens[t].password
      BY <1>n, <1>2, <2>1, <2>3 DEF Same
    <3>2. ~tokens[t].late
      <4>1. ASSUME NEW q \in Procs, InsertSession(q), request[q].token = t, tokens'[t].late = request[q].late
            PROVE ~tokens[t].late
        BY <1>2, <4>1 DEF Inserted, InsertSession
      <4>2. QED
        BY <1>n, <1>2, <2>3, <4>1, RowsLate
    <3>3. QED
      BY <2>1, <2>3, <3>1, <3>2 DEF StaleInAccess
  <2>4. CASE ~RevokeAccess(p) /\ t \notin access
    <3>1. PICK q \in Procs : InsertAccess(q)
      BY <1>2, <2>4, TokensFrame DEF SweepAccess, SweepSessions, InsertSession, DeleteSession, RevokeAccess, RevokeSessions,
         Logout, OfOthers, issued
    <3>2. t = Len(tokens) + 1 /\ request[q].at = "insert_access"
      BY <1>2, <2>4, <3>1 DEF InsertAccess
    <3>3. /\ tokens'[t].account = request[q].account /\ tokens'[t].late = request[q].late
          /\ tokens'[t].password = PasswordOf(q)
      BY <3>1, <3>2, InsertAccessAdds
    <3>4. Resets(p, request[q].account)
      BY <1>2, <2>1, <2>4, <3>3 DEF Resets, Revoking
    <3>5. request[p].password <= PasswordOf(q)
      BY <1>2, <3>2, <3>3, <3>4, InsertedInTime DEF Issuing
    <3>6. QED
      BY <2>1, <3>3, <3>5
  <2>5. QED
    BY <2>2, <2>3, <2>4
<1>3. QED
  BY <1>2 DEF StaleInAccess

LEMMA StaleKept ==
    ASSUME Typed, LateInFlight, Inserted, StaleInAccess, StaleOnlyByOverlap, [Next]_vars
    PROVE  StaleOnlyByOverlap'
<1>n. /\ tokens \in Seq(Token) /\ access \subseteq DOMAIN tokens /\ sessions \subseteq DOMAIN tokens
      /\ \A t \in DOMAIN tokens : Same(t)
      /\ \A t \in DOMAIN tokens : tokens[t].password \in Nat /\ tokens[t].account \in DOMAIN accounts
                                  /\ settled[tokens[t].account] \in Nat
  BY TokensKept, Numbers DEF Typed, TokensOK
<1>m. \A p \in Procs : PasswordOf(p) \in Nat
  BY Numbers
\* Nothing is settled in a step that issues.
<1>s. ASSUME NEW p \in Procs, InsertAccess(p) \/ InsertSession(p) PROVE settled' = settled
  BY <1>s DEF InsertAccess, InsertSession
<1>1. ASSUME NEW t \in access' \cup sessions', ~tokens'[t].late
      PROVE  settled'[tokens'[t].account] <= tokens'[t].password
  <2>1. CASE t \in access \cup sessions
    <3>1. PICK a \in DOMAIN accounts : a = tokens[t].account
      BY <1>n, <2>1
    <3>2. t \in DOMAIN tokens /\ tokens'[t].account = a /\ tokens'[t].password = tokens[t].password
      BY <1>n, <2>1, <3>1 DEF Same
    <3>3. ~tokens[t].late
      <4>1. ASSUME NEW q \in Procs, InsertSession(q), request[q].token = t, tokens'[t].late = request[q].late
            PROVE ~tokens[t].late
        BY <1>1, <4>1 DEF Inserted, InsertSession
      <4>2. QED
        BY <1>1, <3>2, <4>1, RowsLate
    <3>4. settled[a] <= tokens[t].password
      BY <1>n, <2>1, <3>1, <3>2, <3>3 DEF StaleOnlyByOverlap
    <3>5. CASE settled'[a] = settled[a]
      BY <3>2, <3>4, <3>5
    <3>6. ASSUME NEW p \in Procs, RevokeSessions(p), Resets(p, a), settled'[a] = request[p].password
          PROVE  settled'[a] <= tokens[t].password
      <4>1. request[p].account = a /\ request[p].at = "revoke_sessions"
        BY <3>6 DEF Resets, RevokeSessions
      <4>2. t \in access
        BY <1>1, <2>1, <3>1, <3>6, <4>1 DEF RevokeSessions, OfOthers
      <4>3. QED
        BY <3>1, <3>3, <3>6, <4>1, <4>2 DEF StaleInAccess
    <3>7. QED
      BY <3>2, <3>5, <3>6, SettledIs
  <2>2. CASE t \in access' \ (access \cup sessions)
    <3>1. PICK q \in Procs : InsertAccess(q)
      BY <2>2, TokensFrame DEF SweepAccess, SweepSessions, InsertSession, DeleteSession, RevokeAccess, RevokeSessions,
         Logout, OfOthers, issued
    <3>2. t = Len(tokens) + 1 /\ request[q].at = "insert_access"
      BY <2>2, <3>1 DEF InsertAccess
    <3>3. /\ tokens'[t].account = request[q].account /\ tokens'[t].late = request[q].late
          /\ tokens'[t].password = PasswordOf(q)
      BY <3>1, <3>2, InsertAccessAdds
    <3>4. QED
      BY <1>1, <1>s, <3>1, <3>2, <3>3, InsertedInTime DEF Issuing
  <2>3. CASE t \in sessions' \ (access \cup sessions)
    <3>1. PICK q \in Procs : InsertSession(q)
      BY <2>3, TokensFrame DEF SweepAccess, SweepSessions, InsertAccess, DeleteSession, RevokeAccess, RevokeSessions,
         Logout, OfOthers, issued
    <3>2. t = request[q].token /\ request[q].at = "insert_session"
      BY <2>3, <3>1 DEF InsertSession
    <3>3. t \in DOMAIN tokens /\ tokens[t].account = request[q].account /\ tokens[t].password = PasswordOf(q)
      BY <3>2 DEF Inserted, Typed, RequestsOK, Points
    <3>4. tokens'[t].late = request[q].late
      BY <3>1, <3>2, InsertSessionKeepsRows
    <3>5. QED
      BY <1>n, <1>1, <1>s, <3>1, <3>2, <3>3, <3>4, InsertedInTime DEF Issuing, Same
  <2>4. QED
    BY <1>1, <2>1, <2>2, <2>3
<1>2. Typed'
  BY TypesKept
<1>3. \A t \in access' \cup sessions' : settled'[tokens'[t].account] \in Nat /\ tokens'[t].password \in Nat
  <2>1. /\ tokens' \in Seq(Token) /\ access' \cup sessions' \subseteq DOMAIN tokens'
        /\ \A t \in DOMAIN tokens' : tokens'[t].account \in DOMAIN accounts'
        /\ settled' \in Seq(Nat) /\ accounts' \in Seq(Account) /\ Len(settled') = Len(accounts')
    BY <1>2 DEF Typed, TokensOK, UsersOK
  <2>2. \A t \in DOMAIN tokens' : tokens'[t] \in Token
    BY <2>1
  <2>3. \A t \in DOMAIN tokens' : tokens'[t].password \in Nat
    BY <2>2 DEF Token, Passwords
  <2>4. \A a \in DOMAIN accounts' : settled'[a] \in Nat
    BY <2>1
  <2>5. QED
    BY <2>1, <2>3, <2>4
<1>4. \A t \in access' \cup sessions' : tokens'[t].password < settled'[tokens'[t].account] => tokens'[t].late
  BY <1>1, <1>3
<1>5. QED
  BY <1>4 DEF StaleOnlyByOverlap

\* When a password reset has been answered, what was issued under an earlier
\* password is gone, except what requests issued that were under way while it
\* ran: a reset revokes every token it does not know to be overtaken.
THEOREM ResetsRevoke == Spec => []StaleOnlyByOverlap
<1>1. Init => Typed /\ Overtaken
  <2> SUFFICES ASSUME Init PROVE Typed /\ Overtaken
    OBVIOUS
  <2>1. /\ tokens = <<>> /\ accounts = <<>> /\ access = {} /\ sessions = {}
        /\ \A q \in Procs : request[q] = NoRequest
    BY DEF Init
  <2>2. Ascending /\ StaleOnlyByOverlap
    BY <2>1 DEF Ascending, StaleOnlyByOverlap
  <2>3. LateInFlight /\ Inserted /\ StaleInAccess
    BY <2>1, NoRequestIs DEF LateInFlight, Issues, Inserted, StaleInAccess
  <2>4. QED
    BY <2>2, <2>3, TypesInit DEF Overtaken
<1>2. Typed /\ Overtaken /\ [Next]_vars => (Typed /\ Overtaken)'
  BY TypesKept, AscendingKept, LateInFlightKept, InsertedKept, StaleInAccessKept, StaleKept DEF Overtaken
<1>3. QED
  BY <1>1, <1>2, PTL DEF Spec, Overtaken

-----------------------------------------------------------------------------
(***************************************************************************)
(* The login guard: the requests a window admits are counted as failed or  *)
(* still to be.                                                            *)
(***************************************************************************)
StillAdmitted(q) ==
    request'[q].at \in Admitted =>
        request[q].at \in Admitted /\ request'[q].name = request[q].name /\ request'[q].now = request[q].now

LEMMA AdmittedKept ==
    ASSUME Typed, [Next]_vars, NEW q \in Procs,
           UNCHANGED request \/ ~ \E n \in Names : \E w \in 1 .. (resets + 1) : Check(q, n, w)
    PROVE  StillAdmitted(q)
<1>a. request'[q] = request[q] => StillAdmitted(q)
  BY DEF StillAdmitted
<1>b. request'[q].at \notin Admitted => StillAdmitted(q)
  BY DEF StillAdmitted
<1>1. CASE UNCHANGED request
  BY <1>a, <1>1
<1>2. CASE Crash
  BY <1>2, <1>b, NoRequestIs DEF Crash, Admitted
<1>3. ASSUME NEW p \in Procs, UpdateHash(p) PROVE StillAdmitted(q)
  <2>1. CASE q = p
    <3>1. request'[q].at = "revoke_access"
      BY <1>3, <2>1, UpdateHashMarks
    <3>2. QED
      BY <1>b, <3>1 DEF Admitted
  <2>2. CASE q # p
    <3>1. request'[q].at = request[q].at /\ request'[q].name = request[q].name /\ request'[q].now = request[q].now
      BY <1>3, <2>2, UpdateHashOthers
    <3>2. QED
      BY <3>1 DEF StillAdmitted
  <2>3. QED
    BY <2>1, <2>2
<1>4. ASSUME NEW p \in Procs, NEW r, Becomes(p, r), p # q PROVE StillAdmitted(q)
  BY <1>a, <1>4, ContinuesWith DEF Becomes, OthersWait
<1>5. CASE Arrive(q) /\ ~UNCHANGED request
  <2>1. request'[q].at \notin Admitted
    BY <1>5, RegistrationEnabledIs, FindSessionIs, FindUserIs
       DEF Arrive, Logout, DisablePrincipal, SetRegistration, Admitted
  <2>2. QED
    BY <1>b, <2>1
<1>6. CASE Serve(q) /\ ~UpdateHash(q)
  <2>1. CASE Finish(q)
    BY <1>b, <2>1, FinishIs, NoRequestIs DEF Admitted
  <2>2. CASE CreateBrowserUser(q) /\ ~Finish(q)
    BY <1>b, <2>2, CreateBrowserUserIs DEF Admitted
  <2>3. CASE BrowserUser(q) /\ ~Finish(q)
    BY <2>3, BrowserUserIs DEF StillAdmitted, Admitted
  <2>4. CASE Issue(q)
    BY <1>b, <2>4, IssueIs DEF Admitted
  <2>5. CASE InsertAccess(q)
    BY <1>b, <2>5, InsertAccessIs DEF Admitted
  <2>6. CASE Success(q) \/ DeleteSession(q) \/ SweepAccess(q) \/ SweepSessions(q) \/ RevokeAccess(q)
    <3>1. PICK place \in {"issue", "sweep_sessions", "insert_access", "revoke_sessions"} : Goto(q, place)
      BY <2>6 DEF Success, DeleteSession, SweepAccess, SweepSessions, RevokeAccess
    <3>2. QED
      BY <1>b, <3>1, GotoIs DEF Admitted
  <2>7. QED
    BY <1>6, <2>1, <2>2, <2>3, <2>4, <2>5, <2>6
       DEF Serve, Fail, InsertSession, IssueFails, RevokeSessions, ResetFails
<1>7. QED
  BY <1>1, <1>2, <1>3, <1>4, <1>5, <1>6, StepOf

LEMMA WindowIsFinite ==
    ASSUME NEW n, NEW w
    PROVE  IsFiniteSet(InWindow(n, w)) /\ Cardinality(InWindow(n, w)) \in 0 .. Cardinality(Procs)
<1>1. InWindow(n, w) \subseteq Procs
  BY DEF InWindow
<1>2. Cardinality(Procs) \in Nat
  BY AccountsAssumption, FS_CardinalityType
<1>3. IsFiniteSet(InWindow(n, w)) /\ Cardinality(InWindow(n, w)) <= Cardinality(Procs)
      /\ Cardinality(InWindow(n, w)) \in Nat
  BY <1>1, AccountsAssumption, FS_Subset, FS_CardinalityType
<1>4. QED
  BY <1>2, <1>3

\* The same one step later.
LEMMA WindowIsFiniteNext ==
    ASSUME NEW n, NEW w
    PROVE  IsFiniteSet(InWindow(n, w)') /\ Cardinality(InWindow(n, w)') \in 0 .. Cardinality(Procs)
<1>1. InWindow(n, w)' \subseteq Procs
  BY DEF InWindow
<1>2. Cardinality(Procs) \in Nat
  BY AccountsAssumption, FS_CardinalityType
<1>3. IsFiniteSet(InWindow(n, w)') /\ Cardinality(InWindow(n, w)') <= Cardinality(Procs)
      /\ Cardinality(InWindow(n, w)') \in Nat
  BY <1>1, AccountsAssumption, FS_Subset, FS_CardinalityType
<1>4. QED
  BY <1>2, <1>3

Counts(n) ==
    /\ attempts[n] = Fresh => \A w \in 0 .. MaxTime : misses[n][w] = 0
    /\ attempts[n] # Fresh =>
          /\ misses[n][attempts[n].since] <= attempts[n].count
          /\ \A w \in 0 .. MaxTime : w > attempts[n].since => misses[n][w] = 0

Precedes(n) ==
    attempts[n] # Fresh =>
        \A q \in Procs : request[q].at \in Admitted /\ request[q].name = n => request[q].now <= attempts[n].since

Limited(n, w) == misses[n][w] + Cardinality(InWindow(n, w)) <= MaxFails + Cardinality(Procs) - 1

LEMMA GuardedIs == Guarded <=> \A n \in Names : Counts(n) /\ Precedes(n) /\ \A w \in 0 .. MaxTime : Limited(n, w)
BY DEF Guarded, Counts, Precedes, Limited

LEMMA GuardTypes ==
    ASSUME Typed
    PROVE  /\ attempts \in [Names -> Entry] /\ misses \in [Names -> [0 .. MaxTime -> Nat]]
           /\ clock \in 0 .. MaxTime /\ clock \in Nat /\ MaxFails \in Nat /\ MaxFails > 0 /\ Cardinality(Procs) \in Nat
           /\ \A n \in Names : attempts[n] \in Entry /\ attempts[n].count \in Nat /\ attempts[n].since \in Int
                               /\ attempts[n].since <= clock /\ (attempts[n] # Fresh => attempts[n].since \in 0 .. MaxTime)
           /\ \A n \in Names, w \in 0 .. MaxTime : misses[n][w] \in Nat
           /\ \A q \in Procs : request[q].name \in Names /\ request[q].now \in 0 .. MaxTime /\ request[q].now <= clock
<1>1. /\ attempts \in [Names -> Entry] /\ misses \in [Names -> [0 .. MaxTime -> Nat]]
      /\ clock \in 0 .. MaxTime /\ \A n \in Names : Began(attempts[n], clock)
  BY DEF Typed, GuardOK, BoundsOK
<1>2. MaxFails \in Nat /\ MaxFails > 0 /\ Cardinality(Procs) \in Nat /\ MaxTime \in Nat
  BY AccountsAssumption, FS_CardinalityType
<1>3. \A n \in Names : attempts[n] \in Entry
  BY <1>1
<1>4. \A n \in Names : attempts[n].count \in Nat /\ attempts[n].since \in -1 .. MaxTime
  BY <1>3 DEF Entry
<1>5. \A n \in Names, w \in 0 .. MaxTime : misses[n][w] \in Nat
  BY <1>1
<1>6. \A q \in Procs : request[q].name \in Names /\ request[q].now \in Nat /\ request[q].now <= clock
  BY DEF Typed, RequestsOK, Points, Request
<1>7. \A n \in Names : attempts[n].since <= clock /\ (attempts[n] # Fresh => attempts[n].since >= 0)
  BY <1>1 DEF Began
<1>8. QED
  BY <1>1, <1>2, <1>3, <1>4, <1>5, <1>6, <1>7

\* A step that counts nothing and admits nobody.
LEMMA GuardUntouched ==
    ASSUME Typed, Guarded, \A q \in Procs : StillAdmitted(q), NEW n \in Names,
           attempts'[n] = attempts[n], misses'[n] = misses[n]
    PROVE  (Counts(n) /\ Precedes(n) /\ \A w \in 0 .. MaxTime : Limited(n, w))'
<1>1. Counts(n) /\ Precedes(n) /\ \A w \in 0 .. MaxTime : Limited(n, w)
  BY GuardedIs
<1>2. Counts(n)' /\ Precedes(n)'
  BY <1>1 DEF Counts, Precedes, StillAdmitted
<1>3. ASSUME NEW w \in 0 .. MaxTime PROVE Limited(n, w)'
  <2>1. InWindow(n, w)' \subseteq InWindow(n, w)
    BY DEF InWindow, StillAdmitted
  <2>2. Cardinality(InWindow(n, w)') <= Cardinality(InWindow(n, w))
    BY <2>1, WindowIsFinite, FS_Subset
  <2>3. Cardinality(InWindow(n, w)') \in Nat /\ Cardinality(InWindow(n, w)) \in Nat
    BY WindowIsFinite, WindowIsFiniteNext
  <2>4. QED
    BY <1>1, <2>2, <2>3, GuardTypes DEF Limited
<1>4. QED
  BY <1>2, <1>3

LEMMA GuardedCheck ==
    ASSUME Typed, Guarded, [Next]_vars, NEW p \in Procs, NEW n \in Names, NEW v, Check(p, n, v), ~UNCHANGED request
    PROVE  Guarded'
<1>0. /\ attempts' = [attempts EXCEPT ![n] = Checked(attempts[n])] /\ misses' = misses /\ clock' = clock
  BY DEF Check
<1>1. PICK e : e = Checked(attempts[n])
  OBVIOUS
<1>2. /\ attempts'[n] = e /\ \A m \in Names \ {n} : attempts'[m] = attempts[m]
      /\ e \in Entry /\ e.since \in 0 .. clock
      /\ (e = attempts[n] /\ attempts[n] # Fresh) \/ e = [count |-> 0, since |-> clock]
  <2>1. e = Checked(attempts[n]) /\ Checked(attempts[n]) \in Entry /\ Checked(attempts[n]).since \in 0 .. clock
    BY <1>1, CheckedIs
  <2>2. Fresh.since = -1
    BY DEF Fresh
  <2>3. (e = attempts[n] /\ attempts[n] # Fresh) \/ e = [count |-> 0, since |-> clock]
    BY <1>1 DEF Checked
  <2>4. QED
    BY <1>0, <2>1, <2>3, GuardTypes
<1>3. /\ OthersWait(p) /\ request'[p].at = "find_user" /\ request'[p].name = n /\ request'[p].now = e.since /\ e.count < MaxFails
  BY <1>2, CheckIs
<1>4. ASSUME NEW m \in Names \ {n} PROVE (Counts(m) /\ Precedes(m) /\ \A w \in 0 .. MaxTime : Limited(m, w))'
  <2>1. Counts(m) /\ Precedes(m) /\ \A w \in 0 .. MaxTime : Limited(m, w)
    BY GuardedIs
  <2>2. \A q \in Procs : request'[q].at \in Admitted /\ request'[q].name = m => request'[q] = request[q]
    BY <1>3 DEF OthersWait
  <2>3. \A w \in 0 .. MaxTime : InWindow(m, w)' \subseteq InWindow(m, w)
    BY <2>2 DEF InWindow
  <2>4. Counts(m)' /\ Precedes(m)'
    BY <1>0, <1>2, <2>1, <2>2 DEF Counts, Precedes
  <2>5. ASSUME NEW w \in 0 .. MaxTime PROVE Limited(m, w)'
    <3>1. Cardinality(InWindow(m, w)') <= Cardinality(InWindow(m, w))
      BY <2>3, WindowIsFinite, FS_Subset
    <3>2. Cardinality(InWindow(m, w)') \in Nat /\ Cardinality(InWindow(m, w)) \in Nat
      BY WindowIsFinite, WindowIsFiniteNext
    <3>3. QED
      BY <1>0, <2>1, <3>1, <3>2, GuardTypes DEF Limited
  <2>6. QED
    BY <2>4, <2>5
<1>5. (Counts(n) /\ Precedes(n) /\ \A w \in 0 .. MaxTime : Limited(n, w))'
  <2>1. Counts(n) /\ Precedes(n) /\ \A w \in 0 .. MaxTime : Limited(n, w)
    BY GuardedIs
  <2>a. attempts[n] # Fresh => \A w \in 0 .. MaxTime : w > attempts[n].since => misses[n][w] = 0
    BY <2>1 DEF Counts
  \* a new window has no misses yet
  <2>2. e # attempts[n] \/ attempts[n] = Fresh => \A w \in 0 .. MaxTime : w >= clock => misses[n][w] = 0
    <3>1. CASE attempts[n] = Fresh
      BY <2>1, <3>1 DEF Counts
    <3>2. CASE e # attempts[n] /\ attempts[n] # Fresh
      <4>1. clock - attempts[n].since >= Window /\ Window \in Nat /\ Window > 0
        BY <1>1, <3>2, AccountsAssumption DEF Checked
      <4>2. clock > attempts[n].since
        BY <4>1, GuardTypes
      <4>3. QED
        BY <2>a, <3>2, <4>2, GuardTypes
    <3>3. QED
      BY <3>1, <3>2
  <2>3. e # Fresh
    BY <1>2 DEF Fresh
  <2>4. misses[n][e.since] <= e.count /\ \A w \in 0 .. MaxTime : w > e.since => misses[n][w] = 0
    <3>1. CASE e = attempts[n] /\ attempts[n] # Fresh
      BY <2>1, <3>1 DEF Counts
    <3>2. CASE ~ (e = attempts[n] /\ attempts[n] # Fresh)
      <4>1. e.since = clock /\ e.count = 0
        BY <1>2, <3>2
      <4>2. \A w \in 0 .. MaxTime : w >= clock => misses[n][w] = 0
        BY <2>2, <3>2
      <4>3. clock \in 0 .. MaxTime /\ clock >= clock /\ \A w \in 0 .. MaxTime : w > clock => w >= clock
        BY GuardTypes
      <4>4. misses[n][clock] = 0 /\ \A w \in 0 .. MaxTime : w > clock => misses[n][w] = 0
        BY <4>2, <4>3
      <4>5. QED
        BY <4>1, <4>4
    <3>3. QED
      BY <3>1, <3>2
  <2>5. Counts(n)'
    BY <1>0, <1>2, <2>3, <2>4 DEF Counts
  <2>6. \A q \in Procs \ {p} : request[q].at \in Admitted /\ request[q].name = n => request[q].now <= e.since
    <3>1. CASE e = attempts[n] /\ attempts[n] # Fresh
      BY <2>1, <3>1 DEF Precedes
    <3>2. CASE ~ (e = attempts[n] /\ attempts[n] # Fresh)
      <4>1. e.since = clock
        BY <1>2, <3>2
      <4>2. QED
        BY <4>1, GuardTypes
    <3>3. QED
      BY <3>1, <3>2
  <2>7. Precedes(n)'
    <3>1. e.since <= e.since
      BY <1>2, GuardTypes
    <3>2. QED
      BY <1>2, <1>3, <2>6, <3>1 DEF Precedes, OthersWait
  <2>8. ASSUME NEW w \in 0 .. MaxTime PROVE Limited(n, w)'
    <3>1. CASE w = e.since
      <4>1. Cardinality(InWindow(n, w)') \in 0 .. Cardinality(Procs)
        BY WindowIsFiniteNext
      <4>2. misses[n][w] <= e.count /\ e.count \in Nat /\ e.count < MaxFails /\ misses[n][w] \in Nat
        BY <1>2, <1>3, <2>4, <3>1, GuardTypes DEF Entry
      <4>3. QED
        BY <1>0, <4>1, <4>2, GuardTypes DEF Limited
    <3>2. CASE w # e.since
      <4>1. InWindow(n, w)' = InWindow(n, w)
        <5>1. p \notin InWindow(n, w)'
          BY <1>3, <3>2 DEF InWindow
        <5>2. request[p].at = "idle"
          BY CheckIs
        <5>3. p \notin InWindow(n, w)
          BY <5>2 DEF InWindow, Admitted
        <5>4. \A q \in Procs \ {p} : q \in InWindow(n, w)' <=> q \in InWindow(n, w)
          BY <1>3 DEF InWindow, OthersWait
        <5>5. InWindow(n, w)' \subseteq Procs /\ InWindow(n, w) \subseteq Procs
          BY DEF InWindow
        <5>6. QED
          BY <5>1, <5>3, <5>4, <5>5
      <4>2. QED
        BY <1>0, <2>1, <4>1 DEF Limited
    <3>3. QED
      BY <3>1, <3>2
  <2>9. QED
    BY <2>5, <2>7, <2>8
<1>6. \A m \in Names : (Counts(m) /\ Precedes(m) /\ \A w \in 0 .. MaxTime : Limited(m, w))'
  BY <1>4, <1>5
<1>7. QED
  BY <1>6 DEF Guarded, Counts, Precedes, Limited

LEMMA GuardedFail ==
    ASSUME Typed, Guarded, [Next]_vars, NEW p \in Procs, Fail(p)
    PROVE  Guarded'
<1>1. PICK n \in Names, v \in 0 .. MaxTime : n = request[p].name /\ v = request[p].now /\ v <= clock
  BY GuardTypes
<1>2. PICK e : e = IF attempts[n] = Fresh THEN [count |-> 1, since |-> clock]
                   ELSE [count |-> attempts[n].count + 1, since |-> attempts[n].since]
  OBVIOUS
<1>3. attempts' = [attempts EXCEPT ![n] = e] /\ clock' = clock /\ request[p].at = "count"
  <2>1. clock' = clock /\ request[p].at = "count"
    BY DEF Fail, bounds, At
  <2>2. attempts' = [attempts EXCEPT ![n] = IF attempts[n] = Fresh THEN [count |-> 1, since |-> clock]
                         ELSE [count |-> attempts[n].count + 1, since |-> attempts[n].since]]
    BY <1>1 DEF Fail
  <2>3. QED
    BY <1>2, <2>1, <2>2
<1>4. PICK f : f = [misses[n] EXCEPT ![v] = misses[n][v] + 1]
  OBVIOUS
<1>5. misses' = [misses EXCEPT ![n] = f]
  BY <1>1, <1>4 DEF Fail
<1>6. /\ attempts'[n] = e /\ misses'[n] = f
      /\ \A m \in Names \ {n} : attempts'[m] = attempts[m] /\ misses'[m] = misses[m]
      /\ \A w \in 0 .. MaxTime : f[w] = IF w = v THEN misses[n][v] + 1 ELSE misses[n][w]
  <2>1. misses[n] \in [0 .. MaxTime -> Nat]
    BY GuardTypes
  <2>2. QED
    BY <1>3, <1>4, <1>5, <2>1, GuardTypes
<1>7. OthersWait(p) /\ request'[p].at = "idle"
  BY FinishIs, NoRequestIs DEF Fail
<1>8. \A q \in Procs : StillAdmitted(q)
  BY <1>7 DEF StillAdmitted, OthersWait, Admitted
<1>9. ASSUME NEW m \in Names \ {n} PROVE (Counts(m) /\ Precedes(m) /\ \A w \in 0 .. MaxTime : Limited(m, w))'
  BY <1>6, <1>8, GuardUntouched
<1>10. (Counts(n) /\ Precedes(n) /\ \A w \in 0 .. MaxTime : Limited(n, w))'
  <2>1. Counts(n) /\ Precedes(n) /\ \A w \in 0 .. MaxTime : Limited(n, w)
    BY GuardedIs
  <2>2. p \in InWindow(n, v)
    BY <1>1, <1>3 DEF InWindow, Admitted
  <2>3. e # Fresh /\ e.since \in 0 .. MaxTime /\ v <= e.since
    <3>1. CASE attempts[n] = Fresh
      BY <1>1, <1>2, <3>1, GuardTypes DEF Fresh
    <3>2. CASE attempts[n] # Fresh
      <4>1. e.count = attempts[n].count + 1 /\ e.since = attempts[n].since
        BY <1>2, <3>2
      <4>2. v <= attempts[n].since
        BY <1>1, <1>3, <2>1, <3>2 DEF Precedes, Admitted
      <4>3. QED
        BY <3>2, <4>1, <4>2, GuardTypes DEF Fresh
    <3>3. QED
      BY <3>1, <3>2
  <2>4. f[e.since] <= e.count /\ \A w \in 0 .. MaxTime : w > e.since => f[w] = 0
    <3>1. CASE attempts[n] = Fresh
      <4>1. e.count = 1 /\ e.since = clock /\ \A w \in 0 .. MaxTime : misses[n][w] = 0
        BY <1>2, <2>1, <3>1 DEF Counts
      <4>2. clock \in 0 .. MaxTime /\ v <= clock /\ misses[n][v] = 0
        BY <1>1, <4>1, GuardTypes
      <4>3. f[clock] <= 1
        BY <1>6, <4>1, <4>2
      <4>4. \A w \in 0 .. MaxTime : w > clock => w # v
        BY <1>1, <4>2
      <4>5. \A w \in 0 .. MaxTime : w > clock => f[w] = 0
        BY <1>6, <4>1, <4>4
      <4>6. QED
        BY <4>1, <4>3, <4>5
    <3>2. CASE attempts[n] # Fresh
      <4>1. e.count = attempts[n].count + 1 /\ e.since = attempts[n].since
        BY <1>2, <3>2
      <4>2. misses[n][e.since] <= attempts[n].count /\ \A w \in 0 .. MaxTime : w > e.since => misses[n][w] = 0
        BY <2>1, <3>2, <4>1 DEF Counts
      <4>3. misses[n][e.since] \in Nat /\ attempts[n].count \in Nat
        BY <2>3, GuardTypes
      <4>4. f[e.since] <= e.count
        BY <1>6, <2>3, <4>1, <4>2, <4>3
      <4>5. \A w \in 0 .. MaxTime : w > e.since => w # v
        BY <1>1, <2>3
      <4>6. QED
        BY <1>6, <4>2, <4>4, <4>5
    <3>3. QED
      BY <3>1, <3>2
  <2>5. Counts(n)'
    BY <1>6, <2>3, <2>4 DEF Counts
  <2>6. Precedes(n)'
    <3>1. ASSUME NEW q \in Procs, request'[q].at \in Admitted, request'[q].name = n
          PROVE  request'[q].now <= e.since
      <4>1. request'[q] = request[q]
        BY <1>7, <3>1 DEF OthersWait, Admitted
      <4>2. CASE attempts[n] = Fresh
        BY <1>2, <4>1, <4>2, GuardTypes
      <4>3. CASE attempts[n] # Fresh
        <5>1. e.since = attempts[n].since
          BY <1>2, <4>3
        <5>2. QED
          BY <2>1, <3>1, <4>1, <4>3, <5>1 DEF Precedes
      <4>4. QED
        BY <4>2, <4>3
    <3>2. QED
      BY <1>6, <3>1 DEF Precedes
  <2>7. ASSUME NEW w \in 0 .. MaxTime PROVE Limited(n, w)'
    <3>0. /\ Limited(n, w) /\ misses[n][w] \in Nat
          /\ Cardinality(InWindow(n, w)) \in Nat /\ Cardinality(InWindow(n, w)') \in Nat
          /\ MaxFails + Cardinality(Procs) - 1 \in Int
      BY <2>1, GuardTypes, WindowIsFinite, WindowIsFiniteNext
    <3>1. InWindow(n, w)' \subseteq InWindow(n, w) \ {p}
      BY <1>7, <1>8 DEF InWindow, StillAdmitted, Admitted
    <3>2. IsFiniteSet(InWindow(n, w)) /\ IsFiniteSet(InWindow(n, w) \ {p})
      BY WindowIsFinite, FS_RemoveElement
    <3>3. Cardinality(InWindow(n, w)') <= Cardinality(InWindow(n, w) \ {p})
      BY <3>1, <3>2, FS_Subset
    <3>4. CASE w = v
      <4>1. Cardinality(InWindow(n, w) \ {p}) = Cardinality(InWindow(n, w)) - 1
        BY <2>2, <3>2, <3>4, FS_RemoveElement
      <4>2. misses'[n][w] = misses[n][w] + 1
        BY <1>6, <3>4
      <4>3. QED
        BY <3>0, <3>3, <4>1, <4>2 DEF Limited
    <3>5. CASE w # v
      <4>1. Cardinality(InWindow(n, w)') <= Cardinality(InWindow(n, w))
        BY <3>1, <3>2, FS_Subset
      <4>2. misses'[n][w] = misses[n][w]
        BY <1>6, <3>5
      <4>3. QED
        BY <3>0, <4>1, <4>2 DEF Limited
    <3>6. QED
      BY <3>4, <3>5
  <2>8. QED
    BY <2>5, <2>6, <2>7
<1>11. \A m \in Names : (Counts(m) /\ Precedes(m) /\ \A w \in 0 .. MaxTime : Limited(m, w))'
  BY <1>9, <1>10
<1>12. QED
  BY <1>11 DEF Guarded, Counts, Precedes, Limited

\* A name without failures.
LEMMA GuardReset ==
    ASSUME Typed, NEW n \in Names, attempts'[n] = Fresh, misses'[n] = NoMisses
    PROVE  (Counts(n) /\ Precedes(n) /\ \A w \in 0 .. MaxTime : Limited(n, w))'
<1>1. \A w \in 0 .. MaxTime : misses'[n][w] = 0
  BY DEF NoMisses
<1>2. Counts(n)' /\ Precedes(n)'
  BY <1>1 DEF Counts, Precedes
<1>3. ASSUME NEW w \in 0 .. MaxTime PROVE Limited(n, w)'
  <2>1. Cardinality(InWindow(n, w)') \in 0 .. Cardinality(Procs)
    BY WindowIsFiniteNext
  <2>2. MaxFails \in Nat \ {0} /\ Cardinality(Procs) \in Nat
    BY GuardTypes
  <2>3. misses'[n][w] = 0
    BY <1>1
  <2>4. misses'[n][w] + Cardinality(InWindow(n, w)') <= MaxFails + Cardinality(Procs) - 1
    BY <2>1, <2>2, <2>3
  <2>5. QED
    BY <2>4 DEF Limited
<1>4. QED
  BY <1>2, <1>3

LEMMA GuardedKept ==
    ASSUME Typed, Guarded, [Next]_vars
    PROVE  Guarded'
<1>a. ASSUME \A n \in Names : (Counts(n) /\ Precedes(n) /\ \A w \in 0 .. MaxTime : Limited(n, w))'
      PROVE  Guarded'
  BY <1>a DEF Guarded, Counts, Precedes, Limited
<1>1. CASE Crash
  BY <1>1, <1>a, GuardReset DEF Crash
<1>2. ASSUME NEW p \in Procs, NEW n \in Names, NEW w \in 1 .. (resets + 1), Check(p, n, w), ~UNCHANGED request
      PROVE  Guarded'
  BY <1>2, GuardedCheck
<1>3. ASSUME NEW p \in Procs, Fail(p) PROVE Guarded'
  BY <1>3, GuardedFail
<1>4. CASE /\ UNCHANGED request \/ ~ \E p \in Procs : \E n \in Names : \E w \in 1 .. (resets + 1) : Check(p, n, w)
           /\ ~ \E p \in Procs : Fail(p)
  <2>0. \A q \in Procs : StillAdmitted(q)
    BY <1>4, AdmittedKept
  <2>1. ASSUME NEW p \in Procs, Success(p) PROVE Guarded'
    <3>1. PICK n \in Names : n = request[p].name
      BY GuardTypes
    <3>2. attempts' = [attempts EXCEPT ![n] = Fresh] /\ misses' = [misses EXCEPT ![n] = NoMisses]
      BY <2>1, <3>1 DEF Success
    <3>3. /\ attempts'[n] = Fresh /\ misses'[n] = NoMisses
          /\ \A m \in Names \ {n} : attempts'[m] = attempts[m] /\ misses'[m] = misses[m]
      BY <3>2, GuardTypes
    <3>4. \A m \in Names : (Counts(m) /\ Precedes(m) /\ \A w \in 0 .. MaxTime : Limited(m, w))'
      BY <2>0, <3>3, GuardReset, GuardUntouched
    <3>5. QED
      BY <1>a, <3>4
  <2>2. CASE UNCHANGED <<attempts, misses>>
    <3>1. \A m \in Names : (Counts(m) /\ Precedes(m) /\ \A w \in 0 .. MaxTime : Limited(m, w))'
      BY <2>0, <2>2, GuardUntouched
    <3>2. QED
      BY <1>a, <3>1
  <2>3. ASSUME NEW p \in Procs, NEW n \in Names, NEW w \in 1 .. (resets + 1), Check(p, n, w), UNCHANGED request
        PROVE  Guarded'
    <3>0. attempts' = [attempts EXCEPT ![n] = Checked(attempts[n])] /\ misses' = misses
      BY <2>3 DEF Check
    <3>1. \A m \in Names \ {n} : attempts'[m] = attempts[m] /\ misses'[m] = misses[m]
      BY <3>0, GuardTypes
    <3>2. attempts'[n] = attempts[n]
      <4>1. attempts'[n] = Checked(attempts[n]) /\ attempts[n] \in Entry
        BY <3>0, GuardTypes
      <4>2. ~ (attempts'[n].count < MaxFails)
        <5>1. ASSUME attempts'[n].count < MaxFails PROVE FALSE
          <6>1. request[p].at = "idle"
            BY <2>3 DEF Check, Begin
          <6>2. PICK since : since = attempts'[n].since
            OBVIOUS
          <6>3. PICK r : r = [NoRequest EXCEPT !.at = "find_user", !.kind = "login", !.name = n, !.password = w, !.now = since]
            OBVIOUS
          <6>4. request' = [request EXCEPT ![p] = r]
            BY <2>3, <5>1, <6>2, <6>3 DEF Check, Continue
          <6>5. r.at = "find_user"
            BY <6>3 DEF NoRequest
          <6>6. request'[p].at = "find_user"
            BY <6>4, <6>5, ContinuesWith
          <6>7. QED
            BY <2>3, <6>1, <6>6
        <5>2. QED
          BY <5>1
      <4>3. Checked(attempts[n]) # [count |-> 0, since |-> clock]
        BY <4>1, <4>2, GuardTypes
      <4>4. QED
        BY <4>1, <4>3, CheckedIs
    <3>3. \A m \in Names : (Counts(m) /\ Precedes(m) /\ \A v \in 0 .. MaxTime : Limited(m, v))'
      BY <2>0, <3>0, <3>1, <3>2, GuardUntouched
    <3>4. QED
      BY <1>a, <3>3
  <2>4. QED
    BY <1>1, <1>4, <2>1, <2>2, <2>3, GuardFrame
<1>5. QED
  BY <1>2, <1>3, <1>4

\* At most MaxFails verifications that one window admits fail, and those of the
\* other requests that passed the check before the last was counted: every
\* failure a window admits is counted in it, also when several requests overlap,
\* and a new window starts after every request the old one admitted.
THEOREM GuardCounts == Spec => []GuardHolds
<1>1. Init => Typed /\ Guarded
  <2> SUFFICES ASSUME Init PROVE Typed /\ Guarded
    OBVIOUS
  <2>1. Typed
    BY TypesInit
  <2>2. /\ \A n \in Names : attempts[n] = Fresh /\ misses[n] = NoMisses
        /\ \A q \in Procs : request[q].at = "idle"
    BY NoRequestIs DEF Init
  <2>3. ASSUME NEW n \in Names, NEW w \in 0 .. MaxTime PROVE misses[n][w] = 0 /\ Limited(n, w)
    <3>1. misses[n][w] = 0
      BY <2>2 DEF NoMisses
    <3>2. InWindow(n, w) = {}
      BY <2>2 DEF InWindow, Admitted
    <3>3. Cardinality(InWindow(n, w)) = 0
      BY <3>2, FS_EmptySet
    <3>4. QED
      BY <2>1, <3>1, <3>3, GuardTypes DEF Limited
  <2>4. \A n \in Names : Counts(n) /\ Precedes(n)
    BY <2>2, <2>3 DEF Counts, Precedes
  <2>5. QED
    BY <2>1, <2>3, <2>4, GuardedIs
<1>2. Typed /\ Guarded /\ [Next]_vars => (Typed /\ Guarded)'
  BY TypesKept, GuardedKept
<1>3. Typed /\ Guarded => GuardHolds
  <2> SUFFICES ASSUME Typed, Guarded, NEW n \in Names, NEW w \in 0 .. MaxTime
               PROVE  misses[n][w] <= MaxFails + Cardinality(Procs) - 1
    BY DEF GuardHolds
  <2>1. Limited(n, w) /\ Cardinality(InWindow(n, w)) \in Nat /\ misses[n][w] \in Nat
    BY GuardedIs, WindowIsFinite, GuardTypes
  <2>2. QED
    BY <2>1, GuardTypes DEF Limited
<1>4. QED
  BY <1>1, <1>2, <1>3, PTL DEF Spec

=============================================================================
