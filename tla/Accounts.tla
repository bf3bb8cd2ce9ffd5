------------------------------ MODULE Accounts ------------------------------
(***************************************************************************)
(* Browser accounts: registration, login, the rotation of sessions,        *)
(* logout, the administrator's password reset and the login guard          *)
(* (src/src/api/browser_auth.rs, the tables in src/src/system.rs, the      *)
(* principal endpoints in src/src/api/admin.rs, LoginGuard in              *)
(* src/src/api/mod.rs), from the migration at the first start on.          *)
(*                                                                         *)
(* No handler uses a transaction: every statement on the system database   *)
(* and every critical section of the guard is a step.  A password is a     *)
(* number and verifying it is comparing it; passwords set by a reset are   *)
(* new.  The access token and the session issued together have one number  *)
(* and differ in which table holds it; a client sends the cookies of one   *)
(* answer together, so the CSRF token is always the right one.             *)
(***************************************************************************)
EXTENDS Integers, Sequences, FiniteSets, SequencesExt

CONSTANTS
    Procs,         \* request handlers
    Names,         \* usernames
    AccessTTL,     \* lifetime of an access token
    RefreshTTL,    \* lifetime of a session
    Window,        \* LoginGuard: how long failures are counted
    MaxFails,      \* LoginGuard: failures in a window
    Faults,        \* statements that may fail: "issue", "reset"
    MaxTime,       \* bound: the clock
    MaxRequests,   \* bound: requests served, each restart of the server counting as one
    MaxResets      \* bound: passwords the administrator sets

ASSUME AccountsAssumption ==
    /\ IsFiniteSet(Procs) /\ Names # {}
    /\ Faults \subseteq {"issue", "reset"}
    /\ AccessTTL \in Nat /\ RefreshTTL \in Nat /\ Window \in Nat \ {0} /\ MaxFails \in Nat \ {0}
    /\ MaxTime \in Nat /\ MaxRequests \in Nat /\ MaxResets \in Nat

None == 0      \* no account, no token

Passwords == 1 .. (MaxResets + 1)

\* Those of more than one statement; logout, disable and set_registration are one.
Kinds == {"none", "register", "login", "refresh", "reset"}

\* Where a request is: before the statement or critical section of that name.
Places == {"idle", "insert_user", "find_user", "count", "delete_session",
           "issue", "sweep_access", "sweep_sessions", "insert_access", "insert_session",
           "update_hash", "revoke_access", "revoke_sessions"}

VARIABLES
    boot,          \* "down", "migrating" or "up"
    schema,        \* what the migration added to the table principals
    accounts,      \* the rows of principals with a username, in order of insertion
    registration,  \* whether registration is open to the public
    access,        \* browser_access_tokens
    sessions,      \* browser_sessions
    tokens,        \* what each token's row says, and ghosts about it
    attempts,      \* LoginGuard
    clock,
    request,       \* what each process is doing
    served,        \* requests and restarts so far
    resets,        \* passwords set so far
    forked,        \* ghost: logins whose cookie two requests used at the same time
    ended,         \* ghost: logins that were logged out
    settled,       \* ghost: last password of each account whose reset was answered
    misses,        \* ghost: failed verifications by the window that admitted them,
                   \* since one succeeded or a restart
    cut            \* ghost: the migration was interrupted

server == <<boot, schema>>
users == <<accounts, registration>>
issued == <<access, sessions, tokens>>
bounds == <<clock, served, resets>>
logins == <<forked, ended>>
vars == <<server, users, issued, attempts, request, bounds, logins, settled, misses, cut>>

NoRequest ==
    [at |-> "idle", kind |-> "none", name |-> CHOOSE n \in Names : TRUE, password |-> 0,
     account |-> None, cookie |-> None, now |-> 0, token |-> None, late |-> FALSE]

NoMisses == [w \in 0 .. MaxTime |-> 0]

Fresh == [count |-> 0, since |-> -1]   \* the guard has no entry

Init ==
    /\ boot = "down" /\ schema = {} /\ cut = FALSE
    /\ accounts = <<>> /\ registration \in BOOLEAN
    /\ access = {} /\ sessions = {} /\ tokens = <<>>
    /\ attempts = [n \in Names |-> Fresh]
    /\ request = [p \in Procs |-> NoRequest]
    /\ clock = 0 /\ served = 0 /\ resets = 0
    /\ forked = {} /\ ended = {} /\ settled = <<>>
    /\ misses = [n \in Names |-> NoMisses]

-----------------------------------------------------------------------------
(* Starting the server: init_schema. *)

\* What the migration of principals adds, one statement each.
Columns == <<"username", "password_hash">>
Migration == Append(Columns, "ux_principals_username")

\* It runs if there is no column username, as at the first start ever; whether
\* the rest is there is not looked at.
Start ==
    /\ boot = "down"
    /\ boot' = IF "username" \in schema THEN "up" ELSE "migrating"
    /\ UNCHANGED <<schema, users, issued, attempts, request, bounds, logins, settled, misses, cut>>

Migrate ==
    /\ boot = "migrating"
    /\ schema' = schema \cup {Migration[Cardinality(schema) + 1]}
    /\ boot' = IF Cardinality(schema') = Len(Migration) THEN "up" ELSE "migrating"
    /\ UNCHANGED <<users, issued, attempts, request, bounds, logins, settled, misses, cut>>

\* The tables are on disk, the guard's counters and the requests are not.
Crash ==
    /\ boot # "down" /\ boot' = "down"
    /\ served < MaxRequests /\ served' = served + 1
    /\ request' = [p \in Procs |-> NoRequest]
    /\ attempts' = [n \in Names |-> Fresh] /\ misses' = [n \in Names |-> NoMisses]
    /\ cut' = (cut \/ (boot = "migrating" /\ schema # {}))
    /\ UNCHANGED <<schema, users, issued, clock, resets, logins, settled>>

Tick ==
    /\ clock < MaxTime /\ clock' = clock + 1
    /\ UNCHANGED <<server, users, issued, attempts, request, served, resets, logins, settled, misses, cut>>

-----------------------------------------------------------------------------
(* Requests. *)

Goto(p, place) == request' = [request EXCEPT ![p].at = place]
Finish(p) == request' = [request EXCEPT ![p] = NoRequest]

\* A request begins with its first statement.
Begin(p) ==
    /\ boot = "up" /\ request[p].at = "idle"
    /\ served < MaxRequests /\ served' = served + 1

Continue(p, r) == request' = [request EXCEPT ![p] = r]

At(p, k, place) == request[p].kind = k /\ request[p].at = place

\* The row a SELECT by username gives: the oldest that is not disabled.
RowsOf(n) == {a \in DOMAIN accounts : accounts[a].name = n /\ ~accounts[a].disabled}
RowOf(n) == IF RowsOf(n) = {} THEN None ELSE Min(RowsOf(n))

-----------------------------------------------------------------------------
(* register: registration_enabled, create_browser_user, issue_browser_tokens *)

RegistrationEnabled(p, n) ==
    /\ Begin(p)
    /\ IF registration
       THEN Continue(p, [NoRequest EXCEPT !.at = "insert_user", !.kind = "register", !.name = n, !.password = 1])
       ELSE UNCHANGED request
    /\ UNCHANGED <<server, users, issued, attempts, clock, resets, logins, settled, misses, cut>>

\* A name that is taken is a conflict, if the unique index is there to say so.
CreateBrowserUser(p) ==
    LET r == request[p]
        taken == "ux_principals_username" \in schema /\ \E a \in DOMAIN accounts : accounts[a].name = r.name
    IN  /\ At(p, "register", "insert_user")
        /\ IF taken \/ "password_hash" \notin schema
           THEN Finish(p) /\ UNCHANGED <<accounts, settled>>
           ELSE /\ accounts' = Append(accounts, [name |-> r.name, password |-> r.password, disabled |-> FALSE])
                /\ settled' = Append(settled, 0)
                /\ request' = [request EXCEPT ![p].at = "issue", ![p].account = Len(accounts')]
        /\ UNCHANGED <<server, registration, issued, attempts, bounds, logins, misses, cut>>

-----------------------------------------------------------------------------
(* login: LoginGuard.check, browser_user, LoginGuard.fail or success *)

\* (mistaken) every check starts a window
CheckedAnew(e) == [count |-> 0, since |-> clock]

\* An entry whose window is over starts a new one.
Checked(e) == IF e = Fresh \/ clock - e.since >= Window THEN [count |-> 0, since |-> clock] ELSE e

Check(p, n, w) ==
    /\ Begin(p)
    /\ attempts' = [attempts EXCEPT ![n] = Checked(@)]
    /\ IF attempts'[n].count < MaxFails
       THEN Continue(p, [NoRequest EXCEPT !.at = "find_user", !.kind = "login", !.name = n, !.password = w,
                             !.now = attempts'[n].since])
       ELSE UNCHANGED request
    /\ UNCHANGED <<server, users, issued, clock, resets, logins, settled, misses, cut>>

\* (Until tokens are issued, now is the start of the window that admitted the
\* login, a ghost.)  The id is kept if the hash read with it verifies the password.
BrowserUser(p) ==
    LET r == request[p]
        a == RowOf(r.name)
        verified == a # None /\ accounts[a].password = r.password
    IN  /\ At(p, "login", "find_user")
        /\ IF "password_hash" \notin schema THEN Finish(p)
           ELSE request' = [request EXCEPT ![p].at = "count", ![p].account = IF verified THEN a ELSE None]
        /\ UNCHANGED <<server, users, issued, attempts, bounds, logins, settled, misses, cut>>

Fail(p) ==
    LET n == request[p].name IN
    /\ At(p, "login", "count") /\ request[p].account = None
    /\ attempts' = [attempts EXCEPT ![n] = IF @ = Fresh THEN [count |-> 1, since |-> clock]
                                           ELSE [count |-> @.count + 1, since |-> @.since]]
    /\ misses' = [misses EXCEPT ![n][request[p].now] = @ + 1]
    /\ Finish(p)
    /\ UNCHANGED <<server, users, issued, bounds, logins, settled, cut>>

\* (mistaken) what the verification says is not looked at
SuccessAnyway(p) ==
    LET n == request[p].name IN
    /\ At(p, "login", "count")
    /\ attempts' = [attempts EXCEPT ![n] = Fresh]
    /\ misses' = [misses EXCEPT ![n] = NoMisses]
    /\ Goto(p, "issue")
    /\ UNCHANGED <<server, users, issued, bounds, logins, settled, cut>>

Success(p) ==
    LET n == request[p].name IN
    /\ At(p, "login", "count") /\ request[p].account # None
    /\ attempts' = [attempts EXCEPT ![n] = Fresh]
    /\ misses' = [misses EXCEPT ![n] = NoMisses]
    /\ Goto(p, "issue")
    /\ UNCHANGED <<server, users, issued, bounds, logins, settled, cut>>

-----------------------------------------------------------------------------
(* issue_browser_tokens: the clock is read once; four statements *)

Issue(p) ==
    /\ request[p].at = "issue"
    /\ request' = [request EXCEPT ![p].at = "sweep_access", ![p].now = clock]
    /\ UNCHANGED <<server, users, issued, attempts, bounds, logins, settled, misses, cut>>

SweepAccess(p) ==
    /\ request[p].at = "sweep_access"
    /\ access' = {t \in access : tokens[t].at + AccessTTL > request[p].now}
    /\ Goto(p, "sweep_sessions")
    /\ UNCHANGED <<server, users, sessions, tokens, attempts, bounds, logins, settled, misses, cut>>

\* (mistaken) what is about to expire goes too
SweepSessionsEarly(p) ==
    /\ request[p].at = "sweep_sessions"
    /\ sessions' = {t \in sessions : tokens[t].at + RefreshTTL > request[p].now + 1}
    /\ Goto(p, "insert_access")
    /\ UNCHANGED <<server, users, access, tokens, attempts, bounds, logins, settled, misses, cut>>

SweepSessions(p) ==
    /\ request[p].at = "sweep_sessions"
    /\ sessions' = {t \in sessions : tokens[t].at + RefreshTTL > request[p].now}
    /\ Goto(p, "insert_access")
    /\ UNCHANGED <<server, users, access, tokens, attempts, bounds, logins, settled, misses, cut>>

InsertAccess(p) ==
    LET r == request[p]
        t == Len(tokens) + 1
        old == r.cookie
    IN  /\ r.at = "insert_access"
        /\ tokens' = Append(tokens,
             [account |-> r.account, at |-> r.now, late |-> r.late,
              login |-> IF old = None THEN t ELSE tokens[old].login,
              password |-> IF old = None THEN r.password ELSE tokens[old].password,
              given |-> FALSE, used |-> FALSE, revoked |-> FALSE])
        /\ access' = access \cup {t}
        /\ request' = [request EXCEPT ![p].at = "insert_session", ![p].token = t]
        /\ UNCHANGED <<server, users, sessions, attempts, bounds, logins, settled, misses, cut>>

\* The answer may not reach the client.
InsertSession(p) ==
    LET r == request[p] IN
    /\ r.at = "insert_session"
    /\ sessions' = sessions \cup {r.token}
    /\ \E reached \in BOOLEAN :
            tokens' = [tokens EXCEPT ![r.token].given = reached, ![r.token].late = r.late]
    /\ Finish(p)
    /\ UNCHANGED <<server, users, access, attempts, bounds, logins, settled, misses, cut>>

\* No connection from the pool, or SQLite refuses: the answer is an error, what
\* was done before stays done.
IssueFails(p) ==
    /\ "issue" \in Faults
    /\ request[p].at \in {"issue", "sweep_access", "sweep_sessions", "insert_access", "insert_session"}
    /\ Finish(p)
    /\ UNCHANGED <<server, users, issued, attempts, bounds, logins, settled, misses, cut>>

-----------------------------------------------------------------------------
(* refresh: rotate_browser_session.  It reads the clock just before the        *)
(* SELECT, one step here.                                                      *)

Given == {t \in DOMAIN tokens : tokens[t].given}

Resetting(a) ==
    \E q \in Procs : request[q].account = a /\ request[q].at \in {"revoke_access", "revoke_sessions"}

FindSession(p, t) ==
    LET a == tokens[t].account IN
    /\ Begin(p)
    /\ IF t \in sessions /\ tokens[t].at + RefreshTTL > clock
       THEN Continue(p, [NoRequest EXCEPT !.at = "delete_session", !.kind = "refresh", !.cookie = t,
                             !.account = a, !.late = tokens[t].late \/ Resetting(a)])
       ELSE UNCHANGED request
    /\ UNCHANGED <<server, users, issued, attempts, clock, resets, logins, settled, misses, cut>>

\* (mistaken) the old session stays
DeleteSessionForgotten(p) ==
    /\ At(p, "refresh", "delete_session")
    /\ Goto(p, "issue")
    /\ UNCHANGED <<server, users, issued, attempts, bounds, logins, settled, misses, cut>>

\* How many rows the DELETE removed is not looked at.
DeleteSession(p) ==
    LET t == request[p].cookie IN
    /\ At(p, "refresh", "delete_session")
    /\ sessions' = sessions \ {t}
    /\ tokens' = [tokens EXCEPT ![t].used = TRUE]
    /\ forked' = IF t \in sessions THEN forked ELSE forked \cup {tokens[t].login}
    /\ Goto(p, "issue")
    /\ UNCHANGED <<server, users, access, attempts, bounds, ended, settled, misses, cut>>

\* logout: the session goes, its access token stays until it expires.
Logout(p, t) ==
    /\ Begin(p)
    /\ sessions' = sessions \ {t}
    /\ tokens' = [tokens EXCEPT ![t].used = @ \/ t \in sessions]
    /\ ended' = IF t \in sessions THEN ended \cup {tokens[t].login} ELSE ended
    /\ UNCHANGED <<server, users, access, attempts, request, clock, resets, forked, settled, misses, cut>>

-----------------------------------------------------------------------------
(* The administrator: reset_browser_password, delete_principal (which only  *)
(* disables) and set_registration                                           *)

FindUser(p, n) ==
    /\ resets + Cardinality({q \in Procs : request[q].kind = "reset"}) < MaxResets
    /\ Begin(p)
    /\ IF RowOf(n) = None THEN UNCHANGED request
       ELSE Continue(p, [NoRequest EXCEPT !.at = "update_hash", !.kind = "reset", !.account = RowOf(n)])
    /\ UNCHANGED <<server, users, issued, attempts, clock, resets, logins, settled, misses, cut>>

\* Requests that are about to issue tokens for the account are late now (ghost).
UpdateHash(p) ==
    LET a == request[p].account
        w == resets + 2
    IN  /\ request[p].at = "update_hash"
        /\ resets' = resets + 1
        /\ accounts' = [accounts EXCEPT ![a].password = w]
        /\ request' = [q \in Procs |->
                IF q = p THEN [request[p] EXCEPT !.at = "revoke_access", !.password = w]
                ELSE IF request[q].account = a /\ request[q].kind \in {"register", "login", "refresh"}
                THEN [request[q] EXCEPT !.late = TRUE] ELSE request[q]]
        /\ UNCHANGED <<server, registration, issued, attempts, clock, served, logins, settled, misses, cut>>

\* What is left when the rows of an account are deleted.
OfOthers(rows, a) == {t \in rows : tokens[t].account # a}

Revoked(a) == [t \in DOMAIN tokens |-> [tokens[t] EXCEPT !.revoked = @ \/ tokens[t].account = a]]

RevokeAccess(p) ==
    /\ request[p].at = "revoke_access"
    /\ access' = OfOthers(access, request[p].account)
    /\ tokens' = Revoked(request[p].account)
    /\ Goto(p, "revoke_sessions")
    /\ UNCHANGED <<server, users, sessions, attempts, bounds, logins, settled, misses, cut>>

\* (mistaken) the sessions stay
RevokeSessionsForgotten(p) ==
    LET a == request[p].account IN
    /\ request[p].at = "revoke_sessions"
    /\ tokens' = Revoked(a)
    /\ settled' = [settled EXCEPT ![a] = Max({@, request[p].password})]
    /\ Finish(p)
    /\ UNCHANGED <<server, users, access, sessions, attempts, bounds, logins, misses, cut>>

RevokeSessions(p) ==
    LET a == request[p].account IN
    /\ request[p].at = "revoke_sessions"
    /\ sessions' = OfOthers(sessions, a)
    /\ tokens' = Revoked(a)
    /\ settled' = [settled EXCEPT ![a] = Max({@, request[p].password})]
    /\ Finish(p)
    /\ UNCHANGED <<server, users, access, attempts, bounds, logins, misses, cut>>

\* A statement of the reset fails; the password may be changed already.
ResetFails(p) ==
    /\ "reset" \in Faults
    /\ request[p].at \in {"update_hash", "revoke_access", "revoke_sessions"}
    /\ Finish(p)
    /\ UNCHANGED <<server, users, issued, attempts, bounds, logins, settled, misses, cut>>

DisablePrincipal(p, a) ==
    /\ Begin(p)
    /\ accounts' = [accounts EXCEPT ![a].disabled = TRUE]
    /\ UNCHANGED <<server, registration, issued, attempts, request, clock, resets, logins, settled, misses, cut>>

SetRegistration(p) ==
    /\ Begin(p)
    /\ registration' = ~registration
    /\ UNCHANGED <<server, accounts, issued, attempts, request, clock, resets, logins, settled, misses, cut>>

-----------------------------------------------------------------------------
\* What clients and the administrator send.
Arrive(p) ==
    \/ \E n \in Names :
          \/ RegistrationEnabled(p, n) \/ FindUser(p, n)
          \/ \E w \in 1 .. (resets + 1) : Check(p, n, w)
    \/ \E t \in Given : FindSession(p, t) \/ Logout(p, t)
    \/ \E a \in DOMAIN accounts : DisablePrincipal(p, a)
    \/ SetRegistration(p)

Serve(p) ==
    \/ CreateBrowserUser(p) \/ BrowserUser(p) \/ Fail(p) \/ Success(p)
    \/ Issue(p) \/ SweepAccess(p) \/ SweepSessions(p) \/ InsertAccess(p) \/ InsertSession(p)
    \/ IssueFails(p) \/ DeleteSession(p)
    \/ UpdateHash(p) \/ RevokeAccess(p) \/ RevokeSessions(p) \/ ResetFails(p)

Next ==
    \/ Start \/ Migrate \/ Crash \/ Tick
    \/ \E p \in Procs : Arrive(p) \/ Serve(p)

Spec == Init /\ [][Next]_vars

-----------------------------------------------------------------------------
Account == [name : Names, password : Passwords, disabled : BOOLEAN]

Token == [account : Nat, at : Nat, late : BOOLEAN, login : Nat, password : Passwords,
          given : BOOLEAN, used : BOOLEAN, revoked : BOOLEAN]

Request == [at : Places, kind : Kinds, name : Names, password : Passwords \cup {0},
            account : Nat, cookie : Nat, now : Nat, token : Nat, late : BOOLEAN]

\* Every variable has its type; in particular every row of the two token tables
\* belongs to an account.
TypeOK ==
    /\ boot \in {"down", "migrating", "up"} /\ schema \subseteq Range(Migration) /\ cut \in BOOLEAN
    /\ accounts \in Seq(Account) /\ registration \in BOOLEAN
    /\ tokens \in Seq(Token) /\ access \subseteq DOMAIN tokens /\ sessions \subseteq DOMAIN tokens
    /\ \A t \in DOMAIN tokens : tokens[t].account \in DOMAIN accounts
    /\ \A n \in Names : attempts[n].count \in Nat /\ attempts[n].since \in -1 .. MaxTime
    /\ request \in [Procs -> Request]
    /\ clock \in 0 .. MaxTime /\ served \in 0 .. MaxRequests /\ resets \in 0 .. MaxResets
    /\ forked \subseteq DOMAIN tokens /\ ended \subseteq DOMAIN tokens
    /\ DOMAIN settled = DOMAIN accounts
    /\ misses \in [Names -> [0 .. MaxTime -> Nat]]

\* A username belongs to one account, unless the first start was interrupted
\* between the columns and their index: no later start makes it.
OneAccountPerName ==
    ~cut => \A a, b \in DOMAIN accounts : accounts[a].name = accounts[b].name => a = b

Live(l) == {t \in sessions : tokens[t].login = l}

\* A login has one session at most however often it is refreshed, and none once
\* it was logged out, unless two requests used its cookie at the same time.
OneSessionPerLogin ==
    \A l \in DOMAIN tokens \ forked : Cardinality(Live(l)) <= (IF l \in ended THEN 0 ELSE 1)

\* When a password reset has been answered, what the account was issued under
\* an earlier password is gone, except what requests issued that were under way
\* while it ran.
StaleOnlyByOverlap ==
    \A t \in access \cup sessions :
        tokens[t].password < settled[tokens[t].account] => tokens[t].late

\* What a client was given stays valid until it expires or is used, logged out
\* or reset: no other request sweeps it away, however late its clock reading.
GrantedLast ==
    \A t \in Given : ~tokens[t].revoked =>
        /\ clock < tokens[t].at + AccessTTL => t \in access
        /\ clock < tokens[t].at + RefreshTTL => tokens[t].used \/ t \in sessions

\* At most MaxFails verifications of a name that one window admits fail, and
\* those of the other requests that passed the check before the last was counted.
GuardHolds ==
    \A n \in Names, w \in 0 .. MaxTime : misses[n][w] <= MaxFails + Cardinality(Procs) - 1
=============================================================================
