-------------------------- MODULE IdentitySessions --------------------------
(***************************************************************************)
(* Accounts, sessions and recovery tokens: apps/api/src/talaqi/identity    *)
(* (service.py, repository.py, routes.py) with the account deletion of     *)
(* lifecycle.py.                                                           *)
(*                                                                         *)
(* Every request is one transaction at READ COMMITTED, modelled statement  *)
(* by statement: it reads what is committed when the statement starts,     *)
(* locks the rows it writes until it commits, and waits for a row another  *)
(* request holds.  It judges and stamps rows by a reading of the clock     *)
(* that is older than the wait.  A statement that writes many rows only    *)
(* reaches the rows of its own snapshot.  What a request has written is    *)
(* shown when it commits: until then the locks keep every other request    *)
(* away from it.                                                           *)
(*                                                                         *)
(* Left out: a failed login (its counter is rolled back with the 401), the *)
(* client's CSRF secret and the signature of the cookies (a request is     *)
(* modelled once they match), MFA factors, and the e-mails (EmailDelivery).*)
(***************************************************************************)
EXTENDS Naturals, FiniteSets, TLC, Relation

CONSTANTS
    Users, SessionIds, TokenIds,
    Requests,         \* the transactions that may be open at once
    None,             \* no row: neither a user, nor a session, nor a token
    SessionLife,      \* 30 days (REFRESH_LIFETIME_SECONDS)
    TokenLife,        \* an hour or a day, by kind
    RecoveryWindow,   \* DELETION_RECOVERY_WINDOW, 30 days
    Retention,        \* REVOKED_SESSION_RETENTION, 90 days
    MaxTime,          \* Bound: the clock stops there
    MaxRequests       \* Bound: requests, runs of the cleanup and rulings of moderators

ASSUME IdentityAssumption ==
    /\ {SessionLife, TokenLife, RecoveryWindow, Retention, MaxTime, MaxRequests}
         \subseteq Nat
    /\ None \notin Users \cup SessionIds \cup TokenIds
    /\ IsFiniteSet(Users \cup SessionIds \cup TokenIds \cup Requests)

VARIABLES
    users,      \* talaqi.users: status, e-mail verified, credentials, deletion request
    sessions,   \* talaqi.sessions: the rows that exist
    tokens,     \* talaqi.auth_tokens: the rows that exist
    reqs,       \* the open transaction of each request
    now,
    begun       \* how much of MaxRequests is used

idVars == <<users, sessions, tokens, reqs, now, begun>>

Kinds == {"email_verification", "password_reset"}
Never == MaxTime + 1          \* a time stamp that is NULL
Times == 0..MaxTime

Accounts == [status : {"absent", "active", "suspended", "deleted"}, verified : BOOLEAN,
             password : {"set", "erased"}, deletion : Times \cup {Never}]

SessionRows == [user : Users, family : SessionIds, expires : Nat,
                revoked : Times \cup {Never}, rotated : BOOLEAN]

TokenRows == [user : Users, kind : Kinds, expires : Nat, used : BOOLEAN]

Authenticated == {"logout", "revoke_one", "revoke_all", "delete_account", "keep_account", "reset"}
Operations == Authenticated \cup {"login", "refresh", "replay", "verify", "recovery", "cleanup"}

\* The row that the next statement of a transaction writes, or what it does.
Steps == {"touch", "target", "token", "user", "revoke", "revoking", "commit"}

Rows == Users \cup SessionIds \cup TokenIds

\* What a transaction remembers between two statements.
Transactions == [op : Operations, step : Steps, user : Users \cup {None},
                 session : SessionIds \cup {None}, target : SessionIds \cup {None},
                 token : TokenIds \cup {None}, kind : Kinds, at : Times,
                 snapshot : SUBSET Rows, held : SUBSET Rows]

Idle == [op |-> "idle"]
Open(op, step) == [op |-> op, step |-> step, user |-> None, session |-> None,
                   target |-> None, token |-> None, kind |-> "password_reset",
                   at |-> now, snapshot |-> {}, held |-> {}]

\* One type invariant.  Rows keep their shape: a session that was rotated is
\* revoked, a family belongs to one account, and an account that was erased is
\* one that asked for it.
IdTypeOK ==
    /\ users \in [Users -> Accounts]
    /\ DOMAIN sessions \subseteq SessionIds /\ DOMAIN tokens \subseteq TokenIds
    /\ \A s \in DOMAIN sessions : sessions[s] \in SessionRows
    /\ \A t \in DOMAIN tokens : tokens[t] \in TokenRows
    /\ \A r \in Requests : reqs[r] \in Transactions \cup {Idle}
    /\ now \in Times /\ begun \in 0..MaxRequests
    /\ \A s \in DOMAIN sessions : sessions[s].rotated => sessions[s].revoked # Never
    /\ \A s, q \in DOMAIN sessions :
         sessions[s].family = sessions[q].family => sessions[s].user = sessions[q].user
    /\ \A u \in Users : users[u].status = "deleted" => users[u].deletion # Never

----------------------------------------------------------------------------
(* Rows, locks and waiting. *)

Active(u) == users[u].status = "active"

\* A session that requests are answered for (its account is checked apart).
Live(s, at) == /\ s \in DOMAIN sessions
               /\ sessions[s].revoked = Never /\ sessions[s].expires > at

\* What a request that waits may have read off the clock.
Readings == 0..now

SessionsOf(u) == {s \in DOMAIN sessions : sessions[s].user = u}
FamilyOf(s) == {q \in DOMAIN sessions : sessions[q].family = sessions[s].family}
TokensOf(U) == {t \in DOMAIN tokens : tokens[t].user \in U}

ExpiredTokens(at) == {t \in DOMAIN tokens : tokens[t].expires < at}
StaleSessions(at) == {s \in DOMAIN sessions :
    sessions[s].revoked + Retention < at /\ sessions[s].expires < at}

\* The rows that the cleanup removes with the accounts U.
Removed(U, at) == TokensOf(U) \cup ExpiredTokens(at) \cup StaleSessions(at)

\* Nobody but r holds any of these rows.
Free(rows, r) == \A q \in Requests \ {r} : reqs[q] # Idle => reqs[q].held \cap rows = {}

\* The rows that the next statement of r writes.
Wants(r) == {x \in Rows :
    \/ reqs[r].step = "touch" /\ x = reqs[r].session
    \/ reqs[r].step = "target" /\ x = reqs[r].target
    \/ reqs[r].step = "token" /\ x = reqs[r].token
    \/ reqs[r].step = "user" /\ x = reqs[r].user
    \/ reqs[r].step = "revoking" /\ x \in reqs[r].snapshot
    \/ reqs[r].op = "cleanup" /\ x \in Removed(reqs[r].snapshot, reqs[r].at)}

\* A row that references an account is inserted once nobody holds the account
\* FOR UPDATE, as only the cleanup does; a plain UPDATE of it is no obstacle.
References(r) == IF reqs[r].op \in {"refresh", "recovery"} THEN {reqs[r].user} ELSE {}

WaitsFor(r, q) ==
    /\ r # q /\ reqs[r] # Idle /\ reqs[q] # Idle
    /\ \/ reqs[q].held \cap Wants(r) # {}
       \/ reqs[q].op = "cleanup" /\ reqs[q].held \cap References(r) # {}

CanGo(r) == \A q \in Requests : ~WaitsFor(r, q)

\* PostgreSQL undoes a transaction that waits for itself.
Deadlocked(r) ==
    TransitiveClosure([p, q \in Requests |-> WaitsFor(p, q)], Requests)[r, r]

At(r, op, step) == reqs[r] # Idle /\ reqs[r].op = op /\ reqs[r].step = step
Begin(r, transaction) ==
    /\ begun < MaxRequests /\ begun' = begun + 1
    /\ reqs[r] = Idle /\ reqs' = [reqs EXCEPT ![r] = transaction]
Continue(r, step, rows) == reqs' = [reqs EXCEPT ![r].step = step, ![r].held = @ \cup rows]
End(r) == reqs' = [reqs EXCEPT ![r] = Idle]

\* INSERT.
Inserted(table, id, row) ==
    [x \in DOMAIN table \cup {id} |-> IF x = id THEN row ELSE table[x]]

Init ==
    /\ users = [u \in Users |-> [status |-> "absent", verified |-> FALSE,
                                 password |-> "set", deletion |-> Never]]
    /\ sessions = << >> /\ tokens = << >>
    /\ reqs = [r \in Requests |-> Idle]
    /\ now = 0 /\ begun = 0

----------------------------------------------------------------------------
(* Sessions: login, the check that every request makes, and rotation. *)

\* create_user: ON CONFLICT (lower(email)) DO NOTHING, and the account as it is then.
WithAccount(u) ==
    IF users[u].status = "absent" THEN [users EXCEPT ![u].status = "active"] ELSE users

\* register: the answer is the same whether the account is new or not.
Register(u) ==
    /\ users' = WithAccount(u)
    /\ UNCHANGED <<sessions, tokens, reqs, now, begun>>

\* Ids are not given twice, nor while a request remembers one.
NewIds(Ids, used) == Ids \ (used \cup UNION {
    IF reqs[r] = Idle THEN {} ELSE reqs[r].snapshot \cup {reqs[r].session, reqs[r].target} :
    r \in Requests})
NewSessionIds == NewIds(SessionIds, DOMAIN sessions \cup
                                    {sessions[s].family : s \in DOMAIN sessions})

SessionRow(u, family, at) == [user |-> u, family |-> family, expires |-> at + SessionLife,
                              revoked |-> Never, rotated |-> FALSE]

\* login: the account is read and the password verified, which takes a while...
StartLogin(r, u) ==
    /\ Active(u) /\ users[u].password = "set"
    /\ Begin(r, [Open("login", "user") EXCEPT !.user = u])
    /\ UNCHANGED <<users, sessions, tokens, now>>

\* ...then the failed logins are cleared and a session starts a family of its own.
Login(r, s) ==
    /\ At(r, "login", "user") /\ CanGo(r) /\ s \in NewSessionIds
    /\ sessions' = Inserted(sessions, s, SessionRow(reqs[r].user, s, reqs[r].at))
    /\ End(r) /\ UNCHANGED <<users, tokens, now, begun>>

\* require_access: the session and the account are read...
Authenticate(r, s, op, target, t) ==
    /\ op \in Authenticated
    /\ Live(s, now) /\ Active(sessions[s].user)
    /\ IF op = "logout" THEN target = s
       ELSE IF op = "revoke_one" THEN target \in SessionsOf(sessions[s].user) ELSE target = None
    /\ IF op = "reset" THEN t \in DOMAIN tokens ELSE t = None
    /\ Begin(r, [Open(op, "touch") EXCEPT
                  !.user = sessions[s].user, !.session = s, !.target = target, !.token = t])
    /\ UNCHANGED <<users, sessions, tokens, now>>

\* Mutant: the last use is written apart, and the session is not locked.
TouchedApart(r) == {}
\* touch_session locks the session until the request ends.
Touched(r) == {reqs[r].session}

\* verify_csrf reads the session again, after the wait for its row.
StillLive(r) ==
    Live(reqs[r].session, now) /\ sessions[reqs[r].session].user = reqs[r].user

FirstStep(op) ==
    CASE op \in {"logout", "revoke_one"} -> "target"
      [] op = "revoke_all" -> "revoke"
      [] op = "reset" -> "token"
      [] op \in {"delete_account", "keep_account"} -> "user"

\* ...the last use is written and the CSRF secret checked, and the clock read
\* by which the rest of the request goes.
Touch(r) ==
    /\ reqs[r] # Idle /\ reqs[r].step = "touch" /\ CanGo(r)
    /\ IF StillLive(r)
       THEN reqs' = [reqs EXCEPT ![r].step = FirstStep(reqs[r].op),
                                 ![r].held = Touched(r), ![r].at = now]
       ELSE End(r)
    /\ UNCHANGED <<users, sessions, tokens, now, begun>>

\* Mutant: the session is read without FOR UPDATE.
LockableAtOnce(s, r) == TRUE
Lockable(s, r) == Free({s}, r)

\* Mutant: a revoked session may be rotated.
RotatableOnceRevoked(s, at) == sessions[s].expires > at /\ Active(sessions[s].user)
Rotatable(s, at) == Live(s, at) /\ Active(sessions[s].user)

\* rotate: the row of the presented token is locked and is the current one...
StartRefresh(r, s, at) ==
    /\ s \in DOMAIN sessions /\ Lockable(s, r) /\ Rotatable(s, at)
    /\ Begin(r, [Open("refresh", "commit") EXCEPT
                  !.user = sessions[s].user, !.session = s, !.at = at, !.held = {s}])
    /\ UNCHANGED <<users, sessions, tokens, now>>

\* The session that follows s, in its family and of its account.
Replacement(r, s) == SessionRow(reqs[r].user, sessions[s].family, reqs[r].at)

Superseded(row, at) == [row EXCEPT !.rotated = TRUE, !.revoked = at]

\* ...and is replaced by another of its family.
Rotate(r, q) ==
    /\ At(r, "refresh", "commit") /\ CanGo(r) /\ q \in NewSessionIds
    /\ LET s == reqs[r].session IN
         sessions' = Inserted([sessions EXCEPT ![s] = Superseded(@, reqs[r].at)], q, Replacement(r, s))
    /\ End(r) /\ UNCHANGED <<users, tokens, now, begun>>

\* rotate: the presented token was rotated before.
DetectReplay(r, s, at) ==
    /\ s \in DOMAIN sessions /\ Lockable(s, r)
    /\ sessions[s].rotated
    /\ Begin(r, [Open("replay", "revoke") EXCEPT
                  !.user = sessions[s].user, !.session = s, !.at = at, !.held = {s}])
    /\ UNCHANGED <<users, sessions, tokens, now>>

----------------------------------------------------------------------------
(* Revocation. *)

Revoked(S, at) == [s \in DOMAIN sessions |->
    IF s \in S /\ sessions[s].revoked = Never
    THEN [sessions[s] EXCEPT !.revoked = at] ELSE sessions[s]]

\* revoke_session: a session that was revoked keeps its time and its reason.
Logout(r) ==
    /\ At(r, "logout", "target") /\ CanGo(r)
    /\ sessions' = Revoked({reqs[r].target}, reqs[r].at)
    /\ End(r) /\ UNCHANGED <<users, tokens, now, begun>>

\* revoke_owned_session: one that was revoked is not found.
RevokeOwned(r) ==
    /\ At(r, "revoke_one", "target") /\ CanGo(r)
    /\ sessions' = Revoked({reqs[r].target} \cap SessionsOf(reqs[r].user), reqs[r].at)
    /\ End(r) /\ UNCHANGED <<users, tokens, now, begun>>

Scope(r) ==
    IF reqs[r].op = "replay" THEN FamilyOf(reqs[r].session)
    ELSE {s \in SessionsOf(reqs[r].user) :
            reqs[r].op = "delete_account" => sessions[s].revoked = Never}

\* The rows that the statement will write are those that exist when it starts.
StartRevoking(r) ==
    /\ reqs[r] # Idle /\ reqs[r].step = "revoke"
    /\ reqs' = [reqs EXCEPT ![r].step = "revoking", ![r].snapshot = Scope(r)]
    /\ UNCHANGED <<users, sessions, tokens, now, begun>>

\* The last statement of a logout everywhere, of a replay, of a password reset
\* and of a request to delete the account, with all that the request wrote;
\* persist_replay_revocation commits before the replay is answered with an error.
Revoke(r) ==
    /\ reqs[r] # Idle /\ reqs[r].step = "revoking" /\ CanGo(r)
    /\ LET q == reqs[r] IN
       /\ sessions' = Revoked(q.snapshot, q.at)
       /\ users' = IF q.op = "delete_account" /\ users[q.user].deletion = Never
                   THEN [users EXCEPT ![q.user].deletion = q.at]
                   ELSE IF q.op = "reset" THEN [users EXCEPT ![q.user].password = "set"]
                   ELSE users
       /\ tokens' = IF q.op = "reset" THEN [tokens EXCEPT ![q.token].used = TRUE] ELSE tokens
    /\ End(r) /\ UNCHANGED <<now, begun>>

\* A transaction in a deadlock is undone.
RollBack(r) ==
    /\ Deadlocked(r)
    /\ End(r) /\ UNCHANGED <<users, sessions, tokens, now, begun>>

----------------------------------------------------------------------------
(* Recovery tokens. *)

Unused(u, kind) == {t \in TokensOf({u}) : tokens[t].kind = kind /\ ~tokens[t].used}

\* request_recovery: the tokens of the kind that are still good are written off...
StartRecovery(r, u, kind, at) ==
    /\ Active(u) /\ Free(Unused(u, kind), r)
    /\ Begin(r, [Open("recovery", "commit") EXCEPT !.user = u,
                  !.kind = kind, !.at = at, !.snapshot = Unused(u, kind), !.held = Unused(u, kind)])
    /\ UNCHANGED <<users, sessions, tokens, now>>

\* ...and a new one is stored.
StoreToken(r, t) ==
    /\ At(r, "recovery", "commit") /\ CanGo(r) /\ t \in NewIds(TokenIds, DOMAIN tokens)
    /\ tokens' = Inserted([x \in DOMAIN tokens |->
                        IF x \in reqs[r].snapshot THEN [tokens[x] EXCEPT !.used = TRUE] ELSE tokens[x]],
                      t, [user |-> reqs[r].user, kind |-> reqs[r].kind,
                          expires |-> reqs[r].at + TokenLife, used |-> FALSE])
    /\ End(r) /\ UNCHANGED <<users, sessions, now, begun>>

\* What a confirmation asks of its token, once it holds the row.
Redeemable(t, op, at) ==
    /\ t \in DOMAIN tokens
    /\ tokens[t].kind = (IF op = "reset" THEN "password_reset" ELSE "email_verification")
    /\ ~tokens[t].used /\ tokens[t].expires > at
    /\ Active(tokens[t].user)

\* Mutant: the token is read without FOR UPDATE.
TokenFreeAlways(t, r) == TRUE
TokenFree(t, r) == Free({t}, r)

\* _consume_recovery_token, of somebody who has no session...
ConfirmToken(r, t, op, at) ==
    /\ op \in {"verify", "reset"} /\ TokenFree(t, r) /\ Redeemable(t, op, at)
    /\ Begin(r, [Open(op, "user") EXCEPT
                  !.user = tokens[t].user, !.token = t, !.at = at, !.held = {t}])
    /\ UNCHANGED <<users, sessions, tokens, now>>

\* ...and of somebody who has one, perhaps to another account.
LockToken(r) ==
    /\ At(r, "reset", "token") /\ TokenFree(reqs[r].token, r)
    /\ LET t == reqs[r].token IN
         IF Redeemable(t, "reset", reqs[r].at)
         THEN reqs' = [reqs EXCEPT ![r].step = "user", ![r].user = tokens[t].user,
                                   ![r].held = @ \cup {t}]
         ELSE End(r)
    /\ UNCHANGED <<users, sessions, tokens, now, begun>>

\* confirm_verification: neither statement asks for the status of the account.
Verify(r) ==
    /\ At(r, "verify", "user") /\ CanGo(r)
    /\ users' = [users EXCEPT ![reqs[r].user].verified = TRUE]
    /\ tokens' = [t \in DOMAIN tokens |->
                    IF t = reqs[r].token THEN [tokens[t] EXCEPT !.used = TRUE] ELSE tokens[t]]
    /\ End(r) /\ UNCHANGED <<sessions, now, begun>>

\* confirm_password_reset: the new password is written and all sessions follow.
ResetPassword(r) ==
    /\ At(r, "reset", "user") /\ CanGo(r)
    /\ Continue(r, "revoke", {reqs[r].user})
    /\ UNCHANGED <<users, sessions, tokens, now, begun>>

----------------------------------------------------------------------------
(* Deletion of the account, and its cleanup. *)

DeleteAccount(r) ==
    /\ At(r, "delete_account", "user") /\ CanGo(r)
    /\ IF Active(reqs[r].user) THEN Continue(r, "revoke", {reqs[r].user}) ELSE End(r)
    /\ UNCHANGED <<users, sessions, tokens, now, begun>>

Recoverable(u, at) == users[u].deletion # Never /\ users[u].deletion + RecoveryWindow > at

\* cancel_deletion: whether it is too late is judged by the clock as it was
\* before the wait for the account, not by what it shows now.
KeepAccount(r) ==
    /\ At(r, "keep_account", "user") /\ CanGo(r)
    /\ LET u == reqs[r].user IN
         users' = IF Active(u) /\ Recoverable(u, reqs[r].at)
                  THEN [users EXCEPT ![u].deletion = Never] ELSE users
    /\ End(r) /\ UNCHANGED <<sessions, tokens, now, begun>>

Due(u) == Active(u) /\ users[u].deletion + RecoveryWindow <= now

\* anonymize_due takes the due accounts that nobody holds (SKIP LOCKED)...
StartCleanup(r) ==
    /\ LET due == {u \in Users : Due(u) /\ Free({u}, r)} IN
       /\ due \cup Removed(due, now) # {}
       /\ Begin(r, [Open("cleanup", "commit") EXCEPT
                     !.snapshot = due, !.held = due])
    /\ UNCHANGED <<users, sessions, tokens, now>>

\* ...erases them with their tokens; cleanup_expired_credentials removes the rest.
Erase(r) ==
    /\ At(r, "cleanup", "commit") /\ CanGo(r)
    /\ users' = [u \in Users |-> IF u \in reqs[r].snapshot
                   THEN [users[u] EXCEPT !.status = "deleted", !.verified = FALSE,
                                         !.password = "erased"] ELSE users[u]]
    /\ LET gone == Removed(reqs[r].snapshot, reqs[r].at) IN
       /\ tokens' = [t \in DOMAIN tokens \ gone |-> tokens[t]]
       /\ sessions' = [s \in DOMAIN sessions \ gone |-> sessions[s]]
    /\ End(r) /\ UNCHANGED <<now, begun>>

\* apply_target_action of a moderator, who holds only the row of the account.
Moderate(u, status) ==
    /\ Free({u}, None) /\ users[u].status \in {"active", "suspended"} \ {status}
    /\ users' = [users EXCEPT ![u].status = status]
    /\ begun < MaxRequests /\ begun' = begun + 1
    /\ UNCHANGED <<sessions, tokens, reqs, now>>

Tick ==
    /\ now < MaxTime
    /\ now' = now + 1
    /\ UNCHANGED <<users, sessions, tokens, reqs, begun>>

Next ==
    \/ \E r \in Requests :
         \/ \E u \in Users : StartLogin(r, u)
         \/ \E u \in Users, kind \in Kinds, at \in Readings : StartRecovery(r, u, kind, at)
         \/ \E s \in SessionIds : Login(r, s) \/ Rotate(r, s)
         \/ \E s \in SessionIds, at \in Readings : StartRefresh(r, s, at) \/ DetectReplay(r, s, at)
         \/ \E s \in DOMAIN sessions, op \in Authenticated,
               target \in SessionIds \cup {None}, t \in TokenIds \cup {None} :
              Authenticate(r, s, op, target, t)
         \/ \E t \in TokenIds : StoreToken(r, t)
         \/ \E t \in TokenIds, op \in {"verify", "reset"}, at \in Readings : ConfirmToken(r, t, op, at)
         \/ Touch(r) \/ Logout(r) \/ RevokeOwned(r) \/ StartRevoking(r) \/ Revoke(r) \/ RollBack(r)
         \/ LockToken(r) \/ Verify(r) \/ ResetPassword(r)
         \/ DeleteAccount(r) \/ KeepAccount(r) \/ StartCleanup(r) \/ Erase(r)
    \/ \E u \in Users : Register(u)
    \/ \E u \in Users, status \in {"active", "suspended"} : Moderate(u, status)
    \/ Tick

Spec == Init /\ [][Next]_idVars

----------------------------------------------------------------------------
(* Properties. *)

\* A family is one device: however its refreshes race, at most one of its
\* sessions is not revoked.
OneLivePerFamily ==
    \A s \in DOMAIN sessions : \A q \in FamilyOf(s) :
      sessions[s].revoked = Never /\ sessions[q].revoked = Never => s = q

\* The revocation that r writes commits in this step.
Revokes(r) ==
    reqs[r] # Idle /\ reqs[r].step \in {"target", "revoking"} /\ reqs'[r] = Idle /\ ~Deadlocked(r)

\* No session of s's device is live after this step.
DeviceEnds(s) == \A q \in DOMAIN sessions' :
    sessions'[q].family = sessions[s].family => sessions'[q].revoked # Never

\* Who logs out, here or everywhere, or asks for the deletion of the account
\* ends his own device: the refresh that his browser has under way can not
\* bring it back, although the statement that revokes the sessions does not
\* see the rows that others insert meanwhile.
OwnDeviceEnds ==
    [][\A r \in Requests :
         Revokes(r) /\ reqs[r].op \in {"logout", "revoke_all", "delete_account"}
           => DeviceEnds(reqs[r].session)]_idVars

\* A replay ends the family of the token presented, as the plan has it.  The
\* service breaks it: the replayed token is an old one, and a refresh of the
\* current one that commits while the statement waits leaves its replacement.
ReplayEndsFamily ==
    [][\A r \in Requests :
         Revokes(r) /\ reqs[r].op = "replay" => DeviceEnds(reqs[r].session)]_idVars

\* A request that changes something acts for a session that nobody has revoked
\* meanwhile, however long it waited for a row.
ActsWhileLive ==
    \A r \in Requests :
      reqs[r] # Idle /\ reqs[r].op \in Authenticated /\ reqs[r].session # None /\ reqs[r].step # "touch"
        => /\ reqs[r].session \in DOMAIN sessions
           /\ sessions[reqs[r].session].revoked = Never

\* A token is consumed once: while one confirmation is at work its token is
\* unused, and no other confirmation works with it.
TokenConsumedOnce ==
    \A r \in Requests :
      reqs[r] # Idle /\ reqs[r].token # None /\ reqs[r].step \in {"user", "revoke", "revoking"}
        => /\ ~tokens[reqs[r].token].used
           /\ \A q \in Requests \ {r} :
                reqs[q] # Idle /\ reqs[q].step \in {"user", "revoke", "revoking"}
                  => reqs[q].token # reqs[r].token

\* An erased account stays erased: no confirmation that was under way verifies
\* its e-mail or gives it a password again, and its requests are at an end.
ErasedForGood ==
    \A u \in Users : users[u].status = "deleted" =>
      /\ ~users[u].verified /\ users[u].password = "erased"
      /\ users[u].deletion + RecoveryWindow <= now

\* Sessions, families, accounts and the requests that act for them agree.
IdInv ==
    /\ IdTypeOK
    /\ OneLivePerFamily
    /\ ActsWhileLive
    /\ ErasedForGood

\* A family whose sessions are all revoked stays so: no refresh that was under
\* way when the last of them was revoked brings the family back.
FamilyStep ==
    \A s \in DOMAIN sessions :
      (\A q \in FamilyOf(s) : sessions[q].revoked # Never)
        => \A q \in DOMAIN sessions' :
             sessions'[q].family = sessions[s].family => sessions'[q].revoked # Never

\* A deletion is not put off by asking again.  It is taken back only by a
\* request that looked at the clock before it was due, however long that
\* request then waited, and not once a cleanup has taken the account.
DeletionStep ==
    \A u \in Users : users[u].deletion \notin {Never, users'[u].deletion} =>
      /\ \E r \in Requests : /\ At(r, "keep_account", "user") /\ reqs'[r] = Idle
                            /\ reqs[r].user = u /\ Recoverable(u, reqs[r].at)
      /\ \A r \in Requests : reqs[r] # Idle /\ reqs[r].op = "cleanup" => u \notin reqs[r].snapshot

\* What has come to its end stays there: a device that was logged out, and an
\* account that the cleanup has taken.
EndIsFinal == [][FamilyStep /\ DeletionStep]_idVars

=============================================================================
