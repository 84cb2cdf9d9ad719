---------------------------- MODULE IdentityProofs ----------------------------
(***************************************************************************)
(* Theorems about accounts, sessions and recovery tokens, for every number *)
(* of accounts, sessions, tokens and requests at once: one live session    *)
(* per device, a token consumed once, devices that end with a logout, and  *)
(* accounts that are erased for good.                                      *)
(***************************************************************************)
EXTENDS IdentitySessions, TLAPS

\* The steps of a confirmation once it has its token.
Redeeming == {"user", "revoke", "revoking"}

\* The requests that end the session they act for.
Ending == {"logout", "revoke_all", "delete_account"}

\* What a transaction works with, and what of it it holds.
Shape(v) ==
    /\ v.op = "cleanup" => v.step = "commit" /\ v.snapshot \subseteq v.held
    /\ v.op \in Ending => v.session \in SessionIds
    /\ v.op = "logout" => v.step \in {"touch", "target"} /\ v.target = v.session
    /\ v.op \in {"revoke_all", "delete_account"} => v.step # "target"
    /\ v.op \in {"revoke_all", "delete_account"} /\ v.step = "revoking" => v.session \in v.snapshot
    /\ v.op # "cleanup" => v.user \in Users
    /\ v.op = "refresh" => v.session \in v.held
    /\ v.op = "recovery" => v.step = "commit" /\ v.snapshot \subseteq v.held
    /\ v.token # None <=> v.op \in {"verify", "reset"}
    /\ v.token # None /\ v.step \in Redeeming => v.token \in v.held
    /\ v.step = "touch" => v.op \in Authenticated
    /\ v.op \in Authenticated /\ v.session # None /\ v.step # "touch" => v.session \in v.held

\* What a transaction has found of the rows it holds is still so: a refresh its
\* session, a request that acts the session it acts for, a confirmation its
\* token and an account that is not erased, a cleanup the accounts that are due.
Stands(v, us, ss, ts, time) ==
    /\ v \in Transactions /\ Shape(v)
    /\ v.op = "refresh" =>
         v.session \in DOMAIN ss /\ ss[v.session].user = v.user /\ ss[v.session].revoked = Never
    /\ v.op \in Authenticated /\ v.session # None /\ v.step # "touch" =>
         v.session \in DOMAIN ss /\ ss[v.session].revoked = Never
    /\ v.op \in Ending /\ v.step # "touch" => ss[v.session].user = v.user
    /\ v.token # None /\ v.step \in Redeeming =>
         /\ v.token \in DOMAIN ts /\ ~ts[v.token].used /\ ts[v.token].user = v.user
         /\ us[v.user].status # "deleted"
    /\ v.op = "cleanup" => \A u \in Users \cap v.snapshot :
         us[u].deletion # Never /\ us[u].deletion + RecoveryWindow <= time

\* Transactions hold their rows apart from each other, and each stands.
RequestsStand ==
    /\ DOMAIN reqs = Requests
    /\ \A r \in Requests : reqs[r] = Idle \/ Stands(reqs[r], users, sessions, tokens, now)
    /\ \A r, q \in Requests : r # q /\ reqs[r] # Idle /\ reqs[q] # Idle
                                => reqs[r].held \cap reqs[q].held = {}

\* An account that is erased is one whose days of grace are over.
AccountsOK(us, time) ==
    /\ us \in [Users -> Accounts]
    /\ \A u \in Users : us[u].status = "deleted" =>
         /\ us[u].deletion # Never /\ us[u].deletion + RecoveryWindow <= time
         /\ ~us[u].verified /\ us[u].password = "erased"

\* A family is of one account and has one session that is not revoked.
FamiliesOK(ss) ==
    /\ DOMAIN ss \subseteq SessionIds
    /\ \A s \in DOMAIN ss : ss[s] \in SessionRows /\ (ss[s].rotated => ss[s].revoked # Never)
    /\ \A s, q \in DOMAIN ss : ss[s].family = ss[q].family =>
         /\ ss[s].user = ss[q].user
         /\ ss[s].revoked = Never /\ ss[q].revoked = Never => s = q

TokensOK(ts) == DOMAIN ts \subseteq TokenIds /\ \A t \in DOMAIN ts : ts[t] \in TokenRows

\* The inductive invariant.
IndInv ==
    /\ now \in Times /\ begun \in 0..MaxRequests
    /\ AccountsOK(users, now)
    /\ FamiliesOK(sessions)
    /\ TokensOK(tokens)
    /\ RequestsStand

\* The invariant is kept, and what has come to its end stays there.
Goes == IndInv' /\ FamilyStep /\ DeletionStep

-----------------------------------------------------------------------------
LEMMA ConstantsAreNumbers ==
    /\ SessionLife \in Nat /\ TokenLife \in Nat /\ RecoveryWindow \in Nat /\ Retention \in Nat
    /\ MaxTime \in Nat /\ MaxRequests \in Nat /\ Never \in Nat
    /\ None \notin Users /\ None \notin SessionIds /\ None \notin TokenIds
BY IdentityAssumption DEF Never

LEMMA TimesAreNumbers ==
    \A t \in Times : t \in Nat /\ t # Never /\ t < Never
BY ConstantsAreNumbers DEF Times, Never

LEMMA ReadingsAreTimes ==
    ASSUME now \in Times
    PROVE  Readings \subseteq Times
BY ConstantsAreNumbers DEF Readings, Times

LEMMA RequestForm ==
    ASSUME IndInv, NEW r \in Requests, reqs[r] # Idle
    PROVE  Stands(reqs[r], users, sessions, tokens, now) /\ reqs[r] \in Transactions /\ Shape(reqs[r])
BY DEF IndInv, RequestsStand, Stands

\* A statement that may go on touches no row that somebody else holds.
LEMMA GoingIsApart ==
    ASSUME NEW r \in Requests, reqs[r] # Idle, CanGo(r), NEW q \in Requests \ {r}, reqs[q] # Idle
    PROVE  reqs[q].held \cap Wants(r) = {}
BY DEF CanGo, WaitsFor

LEMMA WantsForm ==
    ASSUME NEW r \in Requests
    PROVE  /\ reqs[r].step = "touch" => Rows \cap {reqs[r].session} \subseteq Wants(r)
           /\ reqs[r].step = "target" => Rows \cap {reqs[r].target} \subseteq Wants(r)
           /\ reqs[r].step = "user" => Rows \cap {reqs[r].user} \subseteq Wants(r)
           /\ reqs[r].step = "revoking" => Rows \cap reqs[r].snapshot \subseteq Wants(r)
           /\ reqs[r].op = "cleanup" => Rows \cap Removed(reqs[r].snapshot, reqs[r].at) \subseteq Wants(r)
BY DEF Wants

-----------------------------------------------------------------------------
(***************************************************************************)
(* What other requests have found is left alone.                           *)
(***************************************************************************)
Kept(held, f, g) == \A x \in held \cap DOMAIN f : x \in DOMAIN g /\ g[x] = f[x]

\* The deletions that were asked for of the accounts held.
DeletionsKept(held, us, vs) == \A u \in Users \cap held :
    us[u].deletion # Never => vs[u].deletion = us[u].deletion

\* No deletion that was asked for is moved...
Unmoved == DeletionsKept(Users, users, users')

\* ...or one is taken back in time, and not one that another request relies on.
DeletionsMove(r) ==
    /\ DeletionStep
    /\ \A q \in Requests \ {r} : reqs[q] # Idle => DeletionsKept(reqs[q].held, users, users')

\* A family without a live session stays without one.
FamiliesKept(ss, tt) == \A s \in DOMAIN ss :
    (\A q \in DOMAIN ss : ss[q].family = ss[s].family => ss[q].revoked # Never)
      => \A q \in DOMAIN tt : tt[q].family = ss[s].family => tt[q].revoked # Never

LEMMA StandsOn ==
    ASSUME NEW v, NEW us, NEW ss, NEW ts, NEW time, Stands(v, us, ss, ts, time),
           NEW vs, NEW tt, NEW ws, NEW later,
           us \in [Users -> Accounts], time \in Nat, later \in Nat, time <= later,
           Kept(v.held, ss, tt), Kept(v.held, ts, ws), DeletionsKept(v.held, us, vs),
           v.token # None /\ v.step \in Redeeming => vs[v.user].status # "deleted"
    PROVE  Stands(v, vs, tt, ws, later)
<1>1. v \in Transactions /\ Shape(v)
  BY DEF Stands
<1>2. v.op = "refresh" =>
        v.session \in DOMAIN tt /\ tt[v.session].user = v.user /\ tt[v.session].revoked = Never
  BY <1>1 DEF Stands, Shape, Kept
<1>3. v.op \in Authenticated /\ v.session # None /\ v.step # "touch" =>
        v.session \in DOMAIN tt /\ tt[v.session].revoked = Never
  BY <1>1 DEF Stands, Shape, Kept
<1>6. v.op \in Ending /\ v.step # "touch" => tt[v.session].user = v.user
  <2> SUFFICES ASSUME v.op \in Ending, v.step # "touch" PROVE tt[v.session].user = v.user
    OBVIOUS
  <2>1. v.op \in Authenticated /\ v.session # None
    BY <1>1, ConstantsAreNumbers DEF Shape, Ending, Authenticated
  <2> QED BY <1>1, <2>1 DEF Stands, Shape, Kept
<1>4. v.token # None /\ v.step \in Redeeming =>
        /\ v.token \in DOMAIN ws /\ ~ws[v.token].used /\ ws[v.token].user = v.user
        /\ vs[v.user].status # "deleted"
  BY <1>1 DEF Stands, Shape, Kept
<1>5. ASSUME v.op = "cleanup", NEW u \in Users \cap v.snapshot
      PROVE  vs[u].deletion # Never /\ vs[u].deletion + RecoveryWindow <= later
  <2>1. us[u].deletion # Never /\ us[u].deletion + RecoveryWindow <= time /\ vs[u].deletion = us[u].deletion
    BY <1>1, <1>5 DEF Stands, Shape, DeletionsKept
  <2>2. us[u].deletion \in Nat
    BY ConstantsAreNumbers, TimesAreNumbers DEF Accounts
  <2> QED BY <2>1, <2>2, ConstantsAreNumbers
<1> QED BY <1>1, <1>2, <1>3, <1>4, <1>5, <1>6 DEF Stands

\* One request goes on or ends, and the others stand as they did.
LEMMA OneGoesOn ==
    ASSUME IndInv, NEW r \in Requests, NEW x, reqs' = [reqs EXCEPT ![r] = x],
           \/ x = Idle
           \/ /\ Stands(x, users', sessions', tokens', now')
              /\ \A q \in Requests \ {r} : reqs[q] # Idle => reqs[q].held \cap x.held = {},
           \A q \in Requests \ {r} :
              reqs[q] # Idle => Stands(reqs[q], users', sessions', tokens', now')
    PROVE  RequestsStand'
<1>1. DOMAIN reqs' = Requests /\ reqs'[r] = x /\ \A q \in Requests \ {r} : reqs'[q] = reqs[q]
  BY DEF IndInv, RequestsStand
<1>2. \A q \in Requests : reqs'[q] = Idle \/ Stands(reqs'[q], users', sessions', tokens', now')
  BY <1>1
<1>3. ASSUME NEW p \in Requests, NEW q \in Requests, p # q, reqs'[p] # Idle, reqs'[q] # Idle
      PROVE  reqs'[p].held \cap reqs'[q].held = {}
  <2>1. CASE p = r
    BY <1>1, <1>3, <2>1
  <2>2. CASE q = r
    BY <1>1, <1>3, <2>2
  <2>3. CASE p # r /\ q # r
    BY <1>1, <1>3, <2>3 DEF IndInv, RequestsStand
  <2> QED BY <2>1, <2>2, <2>3
<1> QED BY <1>1, <1>2, <1>3 DEF RequestsStand

\* A step that only changes the memory of a request.
LEMMA QuietStep ==
    ASSUME IndInv, NEW r \in Requests, NEW x, reqs' = [reqs EXCEPT ![r] = x],
           UNCHANGED <<users, sessions, tokens, now>>, begun' \in 0..MaxRequests,
           \/ x = Idle
           \/ /\ Stands(x, users, sessions, tokens, now)
              /\ \A q \in Requests \ {r} : reqs[q] # Idle => reqs[q].held \cap x.held = {}
    PROVE  Goes
<1>1. \A q \in Requests \ {r} : reqs[q] # Idle => Stands(reqs[q], users', sessions', tokens', now')
  BY DEF IndInv, RequestsStand
<1>2. RequestsStand'
  BY <1>1, OneGoesOn
<1>3. IndInv'
  BY <1>2 DEF IndInv
<1>4. FamilyStep
  BY DEF FamilyStep, FamilyOf
<1>5. DeletionStep
  BY DEF DeletionStep
<1> QED BY <1>3, <1>4, <1>5 DEF Goes

\* A statement that writes and ends its transaction.
LEMMA LastStep ==
    ASSUME IndInv, NEW r \in Requests, reqs' = [reqs EXCEPT ![r] = Idle],
           now' = now, begun' = begun,
           AccountsOK(users', now), DeletionsMove(r),
           FamiliesOK(sessions'), FamiliesKept(sessions, sessions'), TokensOK(tokens'),
           \A q \in Requests \ {r} : reqs[q] # Idle =>
              /\ Kept(reqs[q].held, sessions, sessions')
              /\ Kept(reqs[q].held, tokens, tokens')
              /\ reqs[q].token # None /\ reqs[q].step \in Redeeming =>
                    users'[reqs[q].user].status # "deleted"
    PROVE  Goes
<1>1. now \in Nat /\ users \in [Users -> Accounts]
  BY TimesAreNumbers DEF IndInv, AccountsOK
<1>2. ASSUME NEW q \in Requests \ {r}, reqs[q] # Idle
      PROVE  Stands(reqs[q], users', sessions', tokens', now')
  BY <1>1, <1>2, RequestForm, StandsOn DEF DeletionsMove
<1>3. RequestsStand'
  BY <1>2, OneGoesOn
<1>4. IndInv'
  BY <1>3 DEF IndInv
<1>5. FamilyStep
  BY DEF FamilyStep, FamilyOf, FamiliesKept
<1>6. DeletionStep
  BY DEF DeletionsMove
<1> QED BY <1>4, <1>5, <1>6 DEF Goes

-----------------------------------------------------------------------------
(***************************************************************************)
(* Transactions that begin.                                                *)
(***************************************************************************)
LEMMA Begins ==
    ASSUME IndInv, NEW r \in Requests, NEW x, Begin(r, x), UNCHANGED <<users, sessions, tokens, now>>,
           Stands(x, users, sessions, tokens, now), Free(x.held, r)
    PROVE  Goes
<1>1. reqs' = [reqs EXCEPT ![r] = x] /\ begun' \in 0..MaxRequests
  BY ConstantsAreNumbers DEF Begin, IndInv
<1>2. \A q \in Requests \ {r} : reqs[q] # Idle => reqs[q].held \cap x.held = {}
  BY DEF Free
<1> QED BY <1>1, <1>2, QuietStep

LEMMA StartLoginGoes ==
    ASSUME IndInv, NEW r \in Requests, NEW u \in Users, StartLogin(r, u)
    PROVE  Goes
<1> DEFINE x == [Open("login", "user") EXCEPT !.user = u]
<1>1. /\ x \in Transactions /\ x.op = "login" /\ x.step = "user" /\ x.user = u /\ x.held = {}
      /\ x.token = None /\ x.session = None
  BY ReadingsAreTimes DEF IndInv, Open, Transactions, Operations, Steps, Rows, Kinds
<1>2. Begin(r, x) /\ UNCHANGED <<users, sessions, tokens, now>>
  BY DEF StartLogin
<1> HIDE DEF x
<1>3. Stands(x, users, sessions, tokens, now) /\ Free(x.held, r)
  BY <1>1 DEF Stands, Shape, Ending, Authenticated, Free
<1> QED BY <1>2, <1>3, Begins

LEMMA AuthenticateGoes ==
    ASSUME IndInv, NEW r \in Requests, NEW s, NEW op, NEW target \in SessionIds \cup {None},
           NEW t, Authenticate(r, s, op, target, t)
    PROVE  Goes
<1> DEFINE x == [Open(op, "touch") EXCEPT !.user = sessions[s].user, !.session = s,
                                          !.target = target, !.token = t]
<1>1. /\ s \in SessionIds /\ sessions[s].user \in Users /\ op \in Authenticated
      /\ t \in TokenIds \cup {None} /\ (t # None <=> op = "reset")
      /\ op = "logout" => target = s
  BY ConstantsAreNumbers DEF Authenticate, Live, IndInv, FamiliesOK, TokensOK, SessionRows
<1>2. /\ x \in Transactions /\ x.op = op /\ x.step = "touch" /\ x.user = sessions[s].user
      /\ x.held = {} /\ x.token = t
      /\ x.session = s /\ x.target = target
  BY <1>1, ReadingsAreTimes DEF IndInv, Open, Transactions, Operations, Steps, Rows, Kinds
<1>3. Begin(r, x) /\ UNCHANGED <<users, sessions, tokens, now>>
  BY DEF Authenticate
<1> HIDE DEF x
<1>4. Stands(x, users, sessions, tokens, now) /\ Free(x.held, r)
  BY <1>1, <1>2 DEF Stands, Shape, Ending, Authenticated, Redeeming, Free
<1> QED BY <1>3, <1>4, Begins

LEMMA StartRefreshGoes ==
    ASSUME IndInv, NEW r \in Requests, NEW s \in SessionIds, NEW at \in Readings, StartRefresh(r, s, at)
    PROVE  Goes
<1> DEFINE x == [Open("refresh", "commit") EXCEPT !.user = sessions[s].user, !.session = s, !.at = at, !.held = {s}]
<1>1. s \in DOMAIN sessions /\ sessions[s].user \in Users /\ sessions[s].revoked = Never
  BY DEF StartRefresh, Rotatable, Live, IndInv, FamiliesOK, SessionRows
<1>2. /\ x \in Transactions /\ x.op = "refresh" /\ x.step = "commit" /\ x.user = sessions[s].user
      /\ x.held = {s} /\ x.token = None /\ x.session = s
  BY <1>1, ReadingsAreTimes DEF IndInv, Open, Transactions, Operations, Steps, Rows, Kinds
<1>3. Begin(r, x) /\ UNCHANGED <<users, sessions, tokens, now>> /\ Free({s}, r)
  BY DEF StartRefresh, Lockable
<1> HIDE DEF x
<1>4. Stands(x, users, sessions, tokens, now)
  BY <1>1, <1>2 DEF Stands, Shape, Ending, Authenticated
<1> QED BY <1>2, <1>3, <1>4, Begins

LEMMA DetectReplayGoes ==
    ASSUME IndInv, NEW r \in Requests, NEW s \in SessionIds, NEW at \in Readings, DetectReplay(r, s, at)
    PROVE  Goes
<1> DEFINE x == [Open("replay", "revoke") EXCEPT !.user = sessions[s].user, !.session = s, !.at = at, !.held = {s}]
<1>1. s \in DOMAIN sessions /\ sessions[s].user \in Users
  BY DEF DetectReplay, IndInv, FamiliesOK, SessionRows
<1>2. /\ x \in Transactions /\ x.op = "replay" /\ x.step = "revoke" /\ x.user = sessions[s].user
      /\ x.held = {s} /\ x.token = None
  BY <1>1, ReadingsAreTimes DEF IndInv, Open, Transactions, Operations, Steps, Rows, Kinds
<1>3. Begin(r, x) /\ UNCHANGED <<users, sessions, tokens, now>> /\ Free({s}, r)
  BY DEF DetectReplay, Lockable
<1> HIDE DEF x
<1>4. Stands(x, users, sessions, tokens, now)
  BY <1>1, <1>2 DEF Stands, Shape, Ending, Authenticated
<1> QED BY <1>2, <1>3, <1>4, Begins

LEMMA StartRecoveryGoes ==
    ASSUME IndInv, NEW r \in Requests, NEW u \in Users, NEW kind \in Kinds, NEW at \in Readings, StartRecovery(r, u, kind, at)
    PROVE  Goes
<1> DEFINE good == Unused(u, kind)
           x == [Open("recovery", "commit") EXCEPT !.user = u, !.kind = kind, !.at = at,
                                                   !.snapshot = good, !.held = good]
<1>1. good \in SUBSET Rows
  BY DEF Unused, TokensOf, IndInv, TokensOK, Rows
<1>2. Begin(r, x) /\ UNCHANGED <<users, sessions, tokens, now>> /\ Free(good, r)
  BY DEF StartRecovery
<1> HIDE DEF good
<1>3. /\ x \in Transactions /\ x.op = "recovery" /\ x.step = "commit" /\ x.user = u
      /\ x.held = good /\ x.snapshot = good /\ x.token = None
  BY <1>1, ReadingsAreTimes DEF IndInv, Open, Transactions, Operations, Steps, Rows, Kinds
<1> HIDE DEF x
<1>4. Stands(x, users, sessions, tokens, now)
  BY <1>3 DEF Stands, Shape, Ending, Authenticated
<1> QED BY <1>2, <1>3, <1>4, Begins

LEMMA ConfirmTokenGoes ==
    ASSUME IndInv, NEW r \in Requests, NEW t \in TokenIds, NEW op, NEW at \in Readings, ConfirmToken(r, t, op, at)
    PROVE  Goes
<1> DEFINE x == [Open(op, "user") EXCEPT !.user = tokens[t].user, !.token = t, !.at = at, !.held = {t}]
<1>1. /\ op \in {"verify", "reset"} /\ t # None
      /\ t \in DOMAIN tokens /\ tokens[t].user \in Users /\ ~tokens[t].used
      /\ users[tokens[t].user].status # "deleted"
  BY ConstantsAreNumbers DEF ConfirmToken, Redeemable, Active, IndInv, TokensOK, TokenRows
<1>2. /\ x \in Transactions /\ x.op = op /\ x.step = "user" /\ x.user = tokens[t].user
      /\ x.held = {t} /\ x.token = t /\ x.session = None
  BY <1>1, ReadingsAreTimes DEF IndInv, Open, Transactions, Operations, Authenticated, Steps, Rows, Kinds
<1>3. Begin(r, x) /\ UNCHANGED <<users, sessions, tokens, now>> /\ Free({t}, r)
  BY DEF ConfirmToken, TokenFree
<1> HIDE DEF x
<1>4. Stands(x, users, sessions, tokens, now)
  BY <1>1, <1>2 DEF Stands, Shape, Ending, Authenticated
<1> QED BY <1>2, <1>3, <1>4, Begins

LEMMA StartCleanupGoes ==
    ASSUME IndInv, NEW r \in Requests, StartCleanup(r)
    PROVE  Goes
<1> DEFINE due == {u \in Users : Due(u) /\ Free({u}, r)}
           x == [Open("cleanup", "commit") EXCEPT !.snapshot = due, !.held = due]
<1>1. due \in SUBSET Rows /\ Free(due, r)
  BY DEF Rows, Free
<1>2. \A u \in due : users[u].deletion # Never /\ users[u].deletion + RecoveryWindow <= now
  <2> SUFFICES ASSUME NEW u \in Users, users[u].deletion + RecoveryWindow <= now
               PROVE  users[u].deletion # Never
    BY DEF Due
  <2>1. users[u].deletion \in Nat /\ now < Never /\ now \in Nat
    <3>1. users[u].deletion \in Times \cup {Never}
      BY DEF IndInv, AccountsOK, Accounts
    <3> QED BY <3>1, ConstantsAreNumbers, TimesAreNumbers DEF IndInv
  <2> QED BY <2>1, ConstantsAreNumbers
<1>3. Begin(r, x) /\ UNCHANGED <<users, sessions, tokens, now>>
  BY DEF StartCleanup
<1> HIDE DEF due
<1>4. /\ x \in Transactions /\ x.op = "cleanup" /\ x.step = "commit"
      /\ x.held = due /\ x.snapshot = due /\ x.token = None
  BY <1>1, ReadingsAreTimes DEF IndInv, Open, Transactions, Operations, Steps, Rows, Kinds
<1> HIDE DEF x
<1>5. Stands(x, users, sessions, tokens, now)
  BY <1>2, <1>4 DEF Stands, Shape, Ending, Authenticated
<1> QED BY <1>1, <1>3, <1>4, <1>5, Begins

-----------------------------------------------------------------------------
(***************************************************************************)
(* Transactions that go on.                                                *)
(***************************************************************************)
LEMMA GoesOn ==
    ASSUME IndInv, NEW r \in Requests, reqs[r] # Idle, NEW x, reqs' = [reqs EXCEPT ![r] = x],
           UNCHANGED <<users, sessions, tokens, now, begun>>,
           Stands(x, users, sessions, tokens, now), NEW more, x.held = reqs[r].held \cup more,
           Free(more, r)
    PROVE  Goes
<1>1. \A q \in Requests \ {r} : reqs[q] # Idle => reqs[q].held \cap x.held = {}
  BY DEF Free, IndInv, RequestsStand
<1>2. begun' \in 0..MaxRequests
  BY DEF IndInv
<1> QED BY <1>1, <1>2, QuietStep

LEMMA ContinueForm ==
    ASSUME NEW r \in DOMAIN reqs, NEW step, NEW rows, Continue(r, step, rows)
    PROVE  reqs' = [reqs EXCEPT ![r] = [reqs[r] EXCEPT !.step = step, !.held = @ \cup rows]]
BY DEF Continue

LEMMA GivesUp ==
    ASSUME IndInv, NEW r \in Requests, End(r), UNCHANGED <<users, sessions, tokens, now, begun>>
    PROVE  Goes
BY QuietStep DEF End, IndInv

LEMMA TouchGoes ==
    ASSUME IndInv, NEW r \in Requests, Touch(r)
    PROVE  Goes
<1> DEFINE s == reqs[r].session
           x == [reqs[r] EXCEPT !.step = FirstStep(reqs[r].op), !.held = {s}, !.at = now]
<1>1. reqs[r] # Idle /\ reqs[r].step = "touch" /\ CanGo(r)
      /\ UNCHANGED <<users, sessions, tokens, now, begun>>
  BY DEF Touch
<1>2. CASE ~StillLive(r)
  BY <1>1, <1>2, GivesUp DEF Touch
<1>3. CASE StillLive(r)
  <2>1. reqs[r] \in Transactions /\ Shape(reqs[r]) /\ reqs[r].op \in Authenticated
    BY <1>1, RequestForm DEF Shape
  <2>2. /\ s \in DOMAIN sessions /\ s \in Rows /\ sessions[s].revoked = Never
        /\ sessions[s].user = reqs[r].user
    BY <1>3 DEF StillLive, Live, IndInv, FamiliesOK, Rows
  <2>3. Free({s}, r)
    BY <1>1, <2>2, GoingIsApart, WantsForm DEF Free
  <2>4. /\ FirstStep(reqs[r].op) \in {"target", "revoke", "token", "user"}
        /\ reqs[r].op # "reset" => FirstStep(reqs[r].op) # "token"
        /\ reqs[r].op = "reset" => FirstStep(reqs[r].op) = "token"
        /\ reqs[r].op = "logout" => FirstStep(reqs[r].op) = "target"
        /\ reqs[r].op \in {"revoke_all", "delete_account"} => FirstStep(reqs[r].op) # "target"
    BY <2>1 DEF FirstStep, Authenticated
  <2>5. reqs' = [reqs EXCEPT ![r] = x]
    BY <1>1, <1>3 DEF Touch, Touched, IndInv, RequestsStand
  <2>6. /\ x \in Transactions /\ x.op = reqs[r].op /\ x.step = FirstStep(reqs[r].op)
        /\ x.user = reqs[r].user /\ x.session = s /\ x.token = reqs[r].token
        /\ x.held = {s} /\ x.snapshot = reqs[r].snapshot
        /\ x.target = reqs[r].target
    BY <2>1, <2>2, <2>4 DEF IndInv, Transactions, Steps
  <2> HIDE DEF x
  <2>7. Shape(x)
    BY <2>1, <2>4, <2>6 DEF Shape, Ending, Authenticated, Redeeming
  <2>8. Stands(x, users, sessions, tokens, now)
    BY <2>1, <2>2, <2>4, <2>6, <2>7 DEF Stands, Shape, Ending, Authenticated, Redeeming
  <2>9. begun' \in 0..MaxRequests /\ \A q \in Requests \ {r} : reqs[q] # Idle => reqs[q].held \cap x.held = {}
    BY <1>1, <2>3, <2>6 DEF Free, IndInv
  <2> QED BY <1>1, <2>5, <2>8, <2>9, QuietStep
<1> QED BY <1>2, <1>3

LEMMA StartRevokingGoes ==
    ASSUME IndInv, NEW r \in Requests, StartRevoking(r)
    PROVE  Goes
<1> DEFINE scope == Scope(r)
           x == [reqs[r] EXCEPT !.step = "revoking", !.snapshot = scope]
<1>1. /\ reqs[r] # Idle /\ reqs[r].step = "revoke"
      /\ UNCHANGED <<users, sessions, tokens, now, begun>>
  BY DEF StartRevoking
<1>2. Stands(reqs[r], users, sessions, tokens, now) /\ reqs[r] \in Transactions /\ Shape(reqs[r])
  BY <1>1, RequestForm
<1>3. scope \in SUBSET Rows
  BY DEF Scope, FamilyOf, SessionsOf, IndInv, FamiliesOK, Rows
<1>4. reqs' = [reqs EXCEPT ![r] = x]
  BY DEF StartRevoking, IndInv, RequestsStand
<1> HIDE DEF scope
<1>5. /\ x \in Transactions /\ x.op = reqs[r].op /\ x.step = "revoking" /\ x.user = reqs[r].user
      /\ x.session = reqs[r].session /\ x.token = reqs[r].token /\ x.held = reqs[r].held
      /\ x.snapshot = scope
  BY <1>2, <1>3 DEF Transactions, Steps
<1> HIDE DEF x
<1>6. Shape(x)
  <2>1. reqs[r].op \in {"revoke_all", "delete_account"} => reqs[r].session \in scope
    <3> SUFFICES ASSUME reqs[r].op \in {"revoke_all", "delete_account"}
                 PROVE  reqs[r].session \in scope
      OBVIOUS
    <3>1. reqs[r].op \in Ending /\ reqs[r].op \in Authenticated /\ reqs[r].session # None
      BY <1>2, ConstantsAreNumbers DEF Ending, Authenticated, Shape
    <3>2. /\ reqs[r].session \in DOMAIN sessions /\ sessions[reqs[r].session].revoked = Never
          /\ sessions[reqs[r].session].user = reqs[r].user
      BY <1>1, <1>2, <3>1 DEF Stands
    <3> QED BY <3>2 DEF scope, Scope, SessionsOf
  <2>2. reqs[r].op # "logout"
    BY <1>1, <1>2 DEF Shape
  <2> QED BY <1>1, <1>2, <1>5, <2>1, <2>2 DEF Shape, Redeeming
<1>7. Stands(x, users, sessions, tokens, now)
  BY <1>1, <1>2, <1>5, <1>6 DEF Stands, Shape, Redeeming
<1>8. x.held = reqs[r].held \cup {} /\ Free({}, r)
  BY <1>5 DEF Free
<1> QED BY <1>1, <1>4, <1>7, <1>8, GoesOn

\* A transaction that takes the row of its account.
LEMMA TakesUser ==
    ASSUME IndInv, NEW r \in Requests, reqs[r] # Idle, reqs[r].step = "user", CanGo(r),
           reqs[r].op \in {"reset", "delete_account"},
           Continue(r, "revoke", {reqs[r].user}), UNCHANGED <<users, sessions, tokens, now, begun>>
    PROVE  Goes
<1> DEFINE u == reqs[r].user
           x == [reqs[r] EXCEPT !.step = "revoke", !.held = @ \cup {u}]
<1>1. Stands(reqs[r], users, sessions, tokens, now) /\ reqs[r] \in Transactions /\ Shape(reqs[r])
  BY RequestForm
<1>2. u \in Users /\ u \in Rows
  BY <1>1 DEF Shape, Rows
<1>3. Free({u}, r)
  BY <1>2, GoingIsApart, WantsForm DEF Free
<1>4. reqs' = [reqs EXCEPT ![r] = x]
  BY ContinueForm DEF IndInv, RequestsStand
<1>5. /\ x \in Transactions /\ x.op = reqs[r].op /\ x.step = "revoke" /\ x.user = reqs[r].user
      /\ x.session = reqs[r].session /\ x.token = reqs[r].token /\ x.held = reqs[r].held \cup {u}
      /\ x.target = reqs[r].target /\ x.snapshot = reqs[r].snapshot
  BY <1>1, <1>2 DEF Transactions, Steps
<1> HIDE DEF x
<1>6. Shape(x)
  BY <1>1, <1>5 DEF Shape, Redeeming
<1>7. Stands(x, users, sessions, tokens, now)
  BY <1>1, <1>5, <1>6 DEF Stands, Shape, Redeeming
<1> QED BY <1>3, <1>4, <1>5, <1>7, GoesOn

LEMMA ResetPasswordGoes ==
    ASSUME IndInv, NEW r \in Requests, ResetPassword(r)
    PROVE  Goes
BY TakesUser DEF ResetPassword, At

LEMMA DeleteAccountGoes ==
    ASSUME IndInv, NEW r \in Requests, DeleteAccount(r)
    PROVE  Goes
BY TakesUser, GivesUp DEF DeleteAccount, At

LEMMA LockTokenGoes ==
    ASSUME IndInv, NEW r \in Requests, LockToken(r)
    PROVE  Goes
<1> DEFINE t == reqs[r].token
           x == [reqs[r] EXCEPT !.step = "user", !.user = tokens[t].user, !.held = @ \cup {t}]
<1>1. /\ reqs[r] # Idle /\ reqs[r].op = "reset" /\ reqs[r].step = "token" /\ Free({t}, r)
      /\ UNCHANGED <<users, sessions, tokens, now, begun>>
  BY DEF LockToken, At, TokenFree
<1>2. CASE ~Redeemable(t, "reset", reqs[r].at)
  BY <1>1, <1>2, GivesUp DEF LockToken
<1>3. CASE Redeemable(t, "reset", reqs[r].at)
  <2>1. Stands(reqs[r], users, sessions, tokens, now) /\ reqs[r] \in Transactions /\ Shape(reqs[r])
    BY <1>1, RequestForm
  <2>2. /\ t \in DOMAIN tokens /\ ~tokens[t].used /\ tokens[t].user \in Users /\ t \in Rows
        /\ users[tokens[t].user].status # "deleted"
    BY <1>3 DEF Redeemable, Active, IndInv, TokensOK, TokenRows, Rows
  <2>3. reqs' = [reqs EXCEPT ![r].step = "user", ![r].user = tokens[t].user, ![r].held = @ \cup {t}]
    BY <1>1, <1>3 DEF LockToken
  <2>4. reqs' = [reqs EXCEPT ![r] = x]
    BY <2>3 DEF IndInv, RequestsStand
  <2>5. /\ x \in Transactions /\ x.op = "reset" /\ x.step = "user" /\ x.user = tokens[t].user
        /\ x.session = reqs[r].session /\ x.token = t /\ x.held = reqs[r].held \cup {t}
        /\ x.snapshot = reqs[r].snapshot
    BY <1>1, <2>1, <2>2 DEF Transactions, Steps
  <2> HIDE DEF x
  <2>6. Shape(x)
    BY <1>1, <2>1, <2>2, <2>5 DEF Shape, Ending, Redeeming
  <2>7. Stands(x, users, sessions, tokens, now)
    BY <1>1, <2>1, <2>2, <2>5, <2>6 DEF Stands, Ending
  <2> QED BY <1>1, <2>4, <2>5, <2>7, GoesOn
<1> QED BY <1>2, <1>3

LEMMA RollBackGoes ==
    ASSUME IndInv, NEW r \in Requests, RollBack(r)
    PROVE  Goes
BY GivesUp DEF RollBack

-----------------------------------------------------------------------------
(***************************************************************************)
(* Statements that write sessions.                                         *)
(***************************************************************************)
LEMMA RevokedForm ==
    ASSUME IndInv, NEW S, NEW at \in Times
    PROVE  /\ DOMAIN Revoked(S, at) = DOMAIN sessions
           /\ FamiliesOK(Revoked(S, at)) /\ FamiliesKept(sessions, Revoked(S, at))
           /\ \A s \in S \cap DOMAIN sessions : Revoked(S, at)[s].revoked # Never
           /\ \A s \in DOMAIN sessions \ S : Revoked(S, at)[s] = sessions[s]
           /\ \A s \in DOMAIN sessions :
                /\ Revoked(S, at)[s].family = sessions[s].family
                /\ sessions[s].revoked # Never => Revoked(S, at)[s].revoked # Never
<1>1. DOMAIN Revoked(S, at) = DOMAIN sessions /\ FamiliesOK(sessions)
  BY DEF Revoked, IndInv
<1>2. ASSUME NEW s \in DOMAIN sessions
      PROVE  /\ Revoked(S, at)[s] \in SessionRows
             /\ Revoked(S, at)[s].user = sessions[s].user /\ Revoked(S, at)[s].family = sessions[s].family
             /\ Revoked(S, at)[s].rotated = sessions[s].rotated
             /\ Revoked(S, at)[s].revoked # Never <=> (sessions[s].revoked # Never \/ s \in S)
             /\ s \notin S => Revoked(S, at)[s] = sessions[s]
  <2>1. sessions[s] \in SessionRows
    BY <1>1 DEF FamiliesOK
  <2>2. CASE s \in S /\ sessions[s].revoked = Never
    <3>1. Revoked(S, at)[s] = [sessions[s] EXCEPT !.revoked = at]
      BY <2>2 DEF Revoked
    <3> QED BY <1>1, <2>1, <2>2, <3>1, TimesAreNumbers DEF SessionRows
  <2>3. CASE ~(s \in S /\ sessions[s].revoked = Never)
    <3>1. Revoked(S, at)[s] = sessions[s]
      BY <2>3 DEF Revoked
    <3> QED BY <2>1, <2>3, <3>1
  <2> QED BY <2>2, <2>3
<1>3. FamiliesOK(Revoked(S, at))
  BY <1>1, <1>2 DEF FamiliesOK
<1>4. FamiliesKept(sessions, Revoked(S, at))
  BY <1>1, <1>2 DEF FamiliesKept
<1> QED BY <1>1, <1>2, <1>3, <1>4

\* A new session joins a family in which no session is left.
LEMMA Joins ==
    ASSUME NEW ss, FamiliesOK(ss), NEW s \in SessionIds, s \notin DOMAIN ss, NEW row \in SessionRows,
           ~row.rotated,
           \A q \in DOMAIN ss : ss[q].family = row.family => ss[q].user = row.user /\ ss[q].revoked # Never
    PROVE  FamiliesOK(Inserted(ss, s, row))
<1> DEFINE tt == Inserted(ss, s, row)
<1>1. DOMAIN tt = DOMAIN ss \cup {s} /\ tt[s] = row /\ \A q \in DOMAIN ss : tt[q] = ss[q]
  BY DEF Inserted
<1> HIDE DEF tt
<1>2. \A p, q \in DOMAIN tt : tt[p].family = tt[q].family =>
        /\ tt[p].user = tt[q].user
        /\ tt[p].revoked = Never /\ tt[q].revoked = Never => p = q
  BY <1>1 DEF FamiliesOK
<1>3. DOMAIN tt \subseteq SessionIds
      /\ \A q \in DOMAIN tt : tt[q] \in SessionRows /\ (tt[q].rotated => tt[q].revoked # Never)
  BY <1>1 DEF FamiliesOK
<1>4. FamiliesOK(tt)
  BY <1>2, <1>3 DEF FamiliesOK
<1> QED BY <1>4 DEF tt

LEMMA NewSession ==
    ASSUME NEW s \in NewSessionIds
    PROVE  s \in SessionIds /\ s \notin DOMAIN sessions /\ \A q \in DOMAIN sessions : sessions[q].family # s
BY DEF NewSessionIds, NewIds

LEMMA SessionRowForm ==
    ASSUME NEW u \in Users, NEW family \in SessionIds, NEW at \in Times
    PROVE  /\ SessionRow(u, family, at) \in SessionRows /\ ~SessionRow(u, family, at).rotated
           /\ SessionRow(u, family, at).user = u /\ SessionRow(u, family, at).family = family
<1>1. at + SessionLife \in Nat
  BY ConstantsAreNumbers, TimesAreNumbers
<1> QED BY <1>1 DEF SessionRow, SessionRows

LEMMA UnmovedIsKept ==
    ASSUME Unmoved
    PROVE  \A r \in Requests : DeletionsMove(r)
BY DEF Unmoved, DeletionsMove, DeletionsKept, DeletionStep

\* What nobody writes is kept.
LEMMA AccountsRest ==
    ASSUME IndInv, users' = users
    PROVE  /\ AccountsOK(users', now) /\ \A r \in Requests : DeletionsMove(r)
           /\ \A q \in Requests : reqs[q] # Idle /\ reqs[q].token # None /\ reqs[q].step \in Redeeming
                 => users'[reqs[q].user].status # "deleted"
<1>1. \A q \in Requests : reqs[q] # Idle /\ reqs[q].token # None /\ reqs[q].step \in Redeeming
        => users[reqs[q].user].status # "deleted"
  BY RequestForm DEF Stands
<1> QED BY <1>1 DEF IndInv, DeletionsMove, DeletionsKept, DeletionStep

LEMMA TokensRest ==
    ASSUME IndInv, tokens' = tokens
    PROVE  TokensOK(tokens') /\ \A held : Kept(held, tokens, tokens')
BY DEF IndInv, Kept

LEMMA SessionsRest ==
    ASSUME IndInv, sessions' = sessions
    PROVE  /\ FamiliesOK(sessions') /\ FamiliesKept(sessions, sessions')
           /\ \A held : Kept(held, sessions, sessions')
BY DEF IndInv, Kept, FamiliesKept

LEMMA LoginGoes ==
    ASSUME IndInv, NEW r \in Requests, NEW s \in SessionIds, Login(r, s)
    PROVE  Goes
<1> DEFINE row == SessionRow(reqs[r].user, s, reqs[r].at)
<1>1. /\ reqs[r] # Idle /\ reqs[r].op = "login" /\ s \in NewSessionIds
      /\ sessions' = Inserted(sessions, s, row)
      /\ reqs' = [reqs EXCEPT ![r] = Idle] /\ UNCHANGED <<users, tokens, now, begun>>
  BY DEF Login, At, End
<1>2. reqs[r].user \in Users /\ reqs[r].at \in Times
  BY <1>1, RequestForm DEF Shape, Transactions
<1>3. row \in SessionRows /\ ~row.rotated /\ row.user = reqs[r].user /\ row.family = s
  BY <1>2, SessionRowForm
<1> HIDE DEF row
<1>4. s \notin DOMAIN sessions /\ \A q \in DOMAIN sessions : sessions[q].family # s
  BY <1>1, NewSession
<1>5. FamiliesOK(sessions')
  BY <1>1, <1>3, <1>4, Joins DEF IndInv
<1>6. /\ DOMAIN sessions' = DOMAIN sessions \cup {s} /\ sessions'[s] = row
      /\ \A q \in DOMAIN sessions : sessions'[q] = sessions[q]
  BY <1>1, <1>4 DEF Inserted
<1>7. FamiliesKept(sessions, sessions')
  BY <1>3, <1>4, <1>6 DEF FamiliesKept
<1>8. \A held : Kept(held, sessions, sessions')
  BY <1>6 DEF Kept
<1> QED BY <1>1, <1>5, <1>7, <1>8, AccountsRest, TokensRest, LastStep

LEMMA RotateGoes ==
    ASSUME IndInv, NEW r \in Requests, NEW q \in SessionIds, Rotate(r, q)
    PROVE  Goes
<1> DEFINE s == reqs[r].session
           row == Replacement(r, s)
           ss == [sessions EXCEPT ![s] = Superseded(sessions[s], reqs[r].at)]
<1>1. /\ reqs[r] # Idle /\ reqs[r].op = "refresh" /\ q \in NewSessionIds
      /\ sessions' = Inserted(ss, q, row)
      /\ reqs' = [reqs EXCEPT ![r] = Idle] /\ UNCHANGED <<users, tokens, now, begun>>
  BY DEF Rotate, At, End
<1>2. /\ reqs[r].user \in Users /\ s \in reqs[r].held
      /\ s \in DOMAIN sessions /\ sessions[s].user = reqs[r].user /\ sessions[s].revoked = Never
  BY <1>1, RequestForm DEF Shape, Stands
<1>3. FamiliesOK(sessions) /\ reqs[r].at \in Times /\ reqs[r].at # Never
  BY <1>1, RequestForm, TimesAreNumbers DEF IndInv, Transactions
<1>4. sessions[s] \in SessionRows /\ sessions[s].family \in SessionIds
  BY <1>2, <1>3 DEF FamiliesOK, SessionRows
<1>5. row \in SessionRows /\ ~row.rotated /\ row.user = reqs[r].user /\ row.family = sessions[s].family
  BY <1>2, <1>3, <1>4, SessionRowForm DEF Replacement
<1> HIDE DEF row
<1>6. /\ Superseded(sessions[s], reqs[r].at) \in SessionRows
      /\ Superseded(sessions[s], reqs[r].at).revoked # Never
      /\ Superseded(sessions[s], reqs[r].at).user = sessions[s].user
      /\ Superseded(sessions[s], reqs[r].at).family = sessions[s].family
  BY <1>3, <1>4 DEF Superseded, SessionRows
<1>7. /\ DOMAIN ss = DOMAIN sessions /\ ss[s] = Superseded(sessions[s], reqs[r].at)
      /\ \A p \in DOMAIN sessions : p # s => ss[p] = sessions[p]
  BY <1>2
<1> HIDE DEF ss
<1>8. FamiliesOK(ss)
  BY <1>2, <1>3, <1>6, <1>7 DEF FamiliesOK
<1>9. q \notin DOMAIN sessions
  BY <1>1, NewSession
<1>10. \A p \in DOMAIN ss : ss[p].family = row.family => ss[p].user = row.user /\ ss[p].revoked # Never
  BY <1>2, <1>3, <1>5, <1>6, <1>7 DEF FamiliesOK
<1>11. FamiliesOK(sessions')
  BY <1>1, <1>5, <1>7, <1>8, <1>9, <1>10, Joins
<1>12. /\ DOMAIN sessions' = DOMAIN sessions \cup {q} /\ sessions'[q] = row
       /\ \A p \in DOMAIN sessions : p # s => sessions'[p] = sessions[p]
       /\ sessions'[s] = Superseded(sessions[s], reqs[r].at)
  <2>1. /\ DOMAIN Inserted(ss, q, row) = DOMAIN ss \cup {q} /\ Inserted(ss, q, row)[q] = row
        /\ \A p \in DOMAIN ss : Inserted(ss, q, row)[p] = ss[p]
    BY <1>7, <1>9 DEF Inserted
  <2> QED BY <1>1, <1>2, <1>7, <2>1
<1>13. FamiliesKept(sessions, sessions')
  BY <1>2, <1>5, <1>6, <1>12 DEF FamiliesKept
<1>14. ASSUME NEW p \in Requests \ {r}, reqs[p] # Idle
       PROVE  Kept(reqs[p].held, sessions, sessions')
  <2>1. s \notin reqs[p].held
    BY <1>1, <1>2, <1>14 DEF IndInv, RequestsStand
  <2> QED BY <1>12, <2>1 DEF Kept
<1> QED BY <1>1, <1>11, <1>13, <1>14, AccountsRest, TokensRest, LastStep

\* A statement that revokes sessions it may write.
LEMMA RevokesWhatItWants ==
    ASSUME IndInv, NEW r \in Requests, reqs[r] # Idle, CanGo(r), NEW S, Rows \cap S \subseteq Wants(r),
           sessions' = Revoked(S, reqs[r].at)
    PROVE  /\ FamiliesOK(sessions') /\ FamiliesKept(sessions, sessions')
           /\ \A q \in Requests \ {r} : reqs[q] # Idle => Kept(reqs[q].held, sessions, sessions')
<1>1. DOMAIN sessions \subseteq Rows
  BY DEF IndInv, FamiliesOK, Rows
<1>2. \A q \in Requests \ {r} : reqs[q] # Idle => reqs[q].held \cap Wants(r) = {}
  BY GoingIsApart
<1>5. reqs[r].at \in Times
  BY RequestForm DEF Transactions
<1>3. \A s \in DOMAIN sessions \ S : sessions'[s] = sessions[s]
  BY <1>5, RevokedForm
<1>4. DOMAIN sessions' = DOMAIN sessions /\ FamiliesOK(sessions') /\ FamiliesKept(sessions, sessions')
  BY <1>5, RevokedForm
<1> QED BY <1>1, <1>2, <1>3, <1>4 DEF Kept

LEMMA LogoutGoes ==
    ASSUME IndInv, NEW r \in Requests, Logout(r)
    PROVE  Goes
<1>1. /\ reqs[r] # Idle /\ reqs[r].step = "target" /\ CanGo(r)
      /\ sessions' = Revoked({reqs[r].target}, reqs[r].at)
      /\ reqs' = [reqs EXCEPT ![r] = Idle] /\ UNCHANGED <<users, tokens, now, begun>>
  BY DEF Logout, At, End
<1>2. Rows \cap {reqs[r].target} \subseteq Wants(r)
  BY <1>1, WantsForm
<1>3. /\ FamiliesOK(sessions') /\ FamiliesKept(sessions, sessions')
      /\ \A q \in Requests \ {r} : reqs[q] # Idle => Kept(reqs[q].held, sessions, sessions')
  BY <1>1, <1>2, RevokesWhatItWants
<1> QED BY <1>1, <1>3, AccountsRest, TokensRest, LastStep

LEMMA RevokeOwnedGoes ==
    ASSUME IndInv, NEW r \in Requests, RevokeOwned(r)
    PROVE  Goes
<1> DEFINE S == {reqs[r].target} \cap SessionsOf(reqs[r].user)
<1>1. /\ reqs[r] # Idle /\ reqs[r].step = "target" /\ CanGo(r)
      /\ sessions' = Revoked(S, reqs[r].at)
      /\ reqs' = [reqs EXCEPT ![r] = Idle] /\ UNCHANGED <<users, tokens, now, begun>>
  BY DEF RevokeOwned, At, End
<1>2. Rows \cap S \subseteq Wants(r)
  BY <1>1, WantsForm
<1> HIDE DEF S
<1>3. /\ FamiliesOK(sessions') /\ FamiliesKept(sessions, sessions')
      /\ \A q \in Requests \ {r} : reqs[q] # Idle => Kept(reqs[q].held, sessions, sessions')
  BY <1>1, <1>2, RevokesWhatItWants
<1> QED BY <1>1, <1>3, AccountsRest, TokensRest, LastStep

\* The accounts when one of them changes.
LEMMA OneAccount ==
    ASSUME IndInv, NEW u \in Users, NEW row \in Accounts, users' = [users EXCEPT ![u] = row],
           row.status = "deleted" =>
              /\ row.deletion # Never /\ row.deletion + RecoveryWindow <= now
              /\ ~row.verified /\ row.password = "erased",
           row.status = "deleted" => users[u].status = "deleted"
    PROVE  /\ AccountsOK(users', now)
           /\ (users[u].deletion # Never => row.deletion = users[u].deletion)
                => \A r \in Requests : DeletionsMove(r)
           /\ \A q \in Requests : reqs[q] # Idle /\ reqs[q].token # None /\ reqs[q].step \in Redeeming
                 => users'[reqs[q].user].status # "deleted"
<1>1. users \in [Users -> Accounts]
  BY DEF IndInv, AccountsOK
<1>2. \A v \in Users : users'[v] = IF v = u THEN row ELSE users[v]
  BY <1>1
<1>3. AccountsOK(users', now)
  BY <1>1, <1>2 DEF IndInv, AccountsOK
<1>4. (users[u].deletion # Never => row.deletion = users[u].deletion)
        => \A r \in Requests : DeletionsMove(r)
  BY <1>2, UnmovedIsKept DEF Unmoved, DeletionsKept
<1>5. ASSUME NEW q \in Requests, reqs[q] # Idle, reqs[q].token # None, reqs[q].step \in Redeeming
      PROVE  users'[reqs[q].user].status # "deleted"
  <2>1. users[reqs[q].user].status # "deleted" /\ reqs[q].user \in Users
    BY <1>5, RequestForm DEF Stands, Shape
  <2> QED BY <1>2, <2>1
<1> QED BY <1>3, <1>4, <1>5

\* The tokens when the one a request holds is used.
LEMMA OneToken ==
    ASSUME IndInv, NEW r \in Requests, reqs[r] # Idle, reqs[r].token \in reqs[r].held,
           DOMAIN tokens' = DOMAIN tokens,
           \A t \in DOMAIN tokens :
              tokens'[t] = IF t = reqs[r].token THEN [tokens[t] EXCEPT !.used = TRUE] ELSE tokens[t]
    PROVE  /\ TokensOK(tokens')
           /\ \A q \in Requests \ {r} : reqs[q] # Idle => Kept(reqs[q].held, tokens, tokens')
<1>1. TokensOK(tokens')
  BY DEF IndInv, TokensOK, TokenRows
<1>2. \A q \in Requests \ {r} : reqs[q] # Idle => reqs[r].token \notin reqs[q].held
  BY DEF IndInv, RequestsStand
<1> QED BY <1>1, <1>2 DEF Kept

LEMMA RevokeGoes ==
    ASSUME IndInv, NEW r \in Requests, Revoke(r)
    PROVE  Goes
<1> DEFINE v == reqs[r]
<1>1. /\ reqs[r] # Idle /\ reqs[r].step = "revoking" /\ CanGo(r)
      /\ sessions' = Revoked(reqs[r].snapshot, reqs[r].at)
      /\ users' = IF v.op = "delete_account" /\ users[v.user].deletion = Never
                  THEN [users EXCEPT ![v.user].deletion = v.at]
                  ELSE IF v.op = "reset" THEN [users EXCEPT ![v.user].password = "set"]
                  ELSE users
      /\ tokens' = IF v.op = "reset" THEN [tokens EXCEPT ![v.token].used = TRUE] ELSE tokens
      /\ reqs' = [reqs EXCEPT ![r] = Idle] /\ UNCHANGED <<now, begun>>
  BY DEF Revoke, End
<1>2. Rows \cap reqs[r].snapshot \subseteq Wants(r)
  BY <1>1, WantsForm
<1>3. Stands(v, users, sessions, tokens, now) /\ v \in Transactions /\ Shape(v) /\ v.user \in Users
  <2>1. Stands(v, users, sessions, tokens, now) /\ v \in Transactions /\ Shape(v)
    BY <1>1, RequestForm
  <2> QED BY <1>1, <2>1 DEF Shape
<1>4. users[v.user] \in Accounts /\ v.at \in Times
  BY <1>3 DEF IndInv, AccountsOK, Transactions
<1>5. /\ AccountsOK(users', now) /\ DeletionsMove(r)
      /\ \A q \in Requests : reqs[q] # Idle /\ reqs[q].token # None /\ reqs[q].step \in Redeeming
            => users'[reqs[q].user].status # "deleted"
  <2>1. CASE v.op = "delete_account" /\ users[v.user].deletion = Never
    <3> DEFINE row == [users[v.user] EXCEPT !.deletion = v.at]
    <3>1. users' = [users EXCEPT ![v.user] = row]
      BY <1>1, <2>1
    <3>2. row \in Accounts /\ row.status = users[v.user].status
      BY <1>4 DEF Accounts
    <3>3. users[v.user].status # "deleted"
      BY <1>3, <2>1 DEF IndInv, AccountsOK
    <3> HIDE DEF row, v
    <3> QED BY <1>3, <2>1, <3>1, <3>2, <3>3, OneAccount
  <2>2. CASE v.op = "reset"
    <3> DEFINE row == [users[v.user] EXCEPT !.password = "set"]
    <3>1. users' = [users EXCEPT ![v.user] = row]
      BY <1>1, <2>2
    <3>2. row \in Accounts /\ row.status = users[v.user].status /\ row.deletion = users[v.user].deletion
      BY <1>4 DEF Accounts
    <3>3. users[v.user].status # "deleted"
      BY <1>1, <1>3, <2>2 DEF Stands, Shape, Redeeming
    <3> HIDE DEF row, v
    <3> QED BY <1>3, <2>2, <3>1, <3>2, <3>3, OneAccount
  <2>3. CASE users' = users
    BY <2>3, AccountsRest
  <2> QED BY <1>1, <2>1, <2>2, <2>3
<1>6. TokensOK(tokens') /\ \A q \in Requests \ {r} : reqs[q] # Idle => Kept(reqs[q].held, tokens, tokens')
  <2>1. CASE v.op = "reset"
    <3>1. v.token \in v.held
      BY <1>1, <1>3, <2>1 DEF Shape, Redeeming
    <3>2. tokens' = [tokens EXCEPT ![v.token].used = TRUE]
      BY <1>1, <2>1
    <3>3. DOMAIN tokens' = DOMAIN tokens
          /\ \A t \in DOMAIN tokens :
               tokens'[t] = IF t = v.token THEN [tokens[t] EXCEPT !.used = TRUE] ELSE tokens[t]
      BY <3>2
    <3> QED BY <1>1, <3>1, <3>3, OneToken
  <2>2. CASE v.op # "reset"
    BY <1>1, <2>2, TokensRest
  <2> QED BY <2>1, <2>2
<1> HIDE DEF v
<1> QED BY <1>1, <1>2, <1>5, <1>6, RevokesWhatItWants, LastStep

-----------------------------------------------------------------------------
(***************************************************************************)
(* Statements that write tokens and accounts.                              *)
(***************************************************************************)
LEMMA StoreTokenGoes ==
    ASSUME IndInv, NEW r \in Requests, NEW t \in TokenIds, StoreToken(r, t)
    PROVE  Goes
<1> DEFINE row == [user |-> reqs[r].user, kind |-> reqs[r].kind, expires |-> reqs[r].at + TokenLife, used |-> FALSE]
           old(x) == IF x \in reqs[r].snapshot THEN [tokens[x] EXCEPT !.used = TRUE] ELSE tokens[x]
<1>1. /\ reqs[r] # Idle /\ reqs[r].op = "recovery" /\ t \notin DOMAIN tokens
      /\ tokens' = Inserted([x \in DOMAIN tokens |-> old(x)], t, row)
      /\ reqs' = [reqs EXCEPT ![r] = Idle] /\ UNCHANGED <<users, sessions, now, begun>>
  BY DEF StoreToken, At, End, NewIds
<1>2. /\ reqs[r].user \in Users /\ reqs[r].kind \in Kinds /\ reqs[r].snapshot \subseteq reqs[r].held
      /\ reqs[r].at \in Times
  BY <1>1, RequestForm DEF Shape, Transactions
<1>3. row \in TokenRows
  <2>1. reqs[r].at + TokenLife \in Nat
    BY <1>2, ConstantsAreNumbers, TimesAreNumbers
  <2> QED BY <1>2, <2>1 DEF TokenRows
<1>4. \A x \in DOMAIN tokens : tokens[x] \in TokenRows /\ old(x) \in TokenRows
  BY DEF IndInv, TokensOK, TokenRows
<1>5. \A x \in DOMAIN tokens \ reqs[r].snapshot : old(x) = tokens[x]
  OBVIOUS
<1> HIDE DEF row, old
<1>6. /\ DOMAIN tokens' = DOMAIN tokens \cup {t} /\ tokens'[t] = row
      /\ \A x \in DOMAIN tokens : tokens'[x] = old(x)
  BY <1>1 DEF Inserted
<1>7. TokensOK(tokens')
  BY <1>3, <1>4, <1>6 DEF IndInv, TokensOK
<1>8. ASSUME NEW q \in Requests \ {r}, reqs[q] # Idle
      PROVE  Kept(reqs[q].held, tokens, tokens')
  <2>1. reqs[q].held \cap reqs[r].snapshot = {}
    BY <1>1, <1>2, <1>8 DEF IndInv, RequestsStand
  <2> QED BY <1>5, <1>6, <2>1 DEF Kept
<1> QED BY <1>1, <1>7, <1>8, AccountsRest, SessionsRest, LastStep

LEMMA VerifyGoes ==
    ASSUME IndInv, NEW r \in Requests, Verify(r)
    PROVE  Goes
<1> DEFINE u == reqs[r].user
           row == [users[u] EXCEPT !.verified = TRUE]
<1>1. /\ reqs[r] # Idle /\ reqs[r].op = "verify" /\ reqs[r].step = "user"
      /\ users' = [users EXCEPT ![u] = row]
      /\ tokens' = [t \in DOMAIN tokens |->
                      IF t = reqs[r].token THEN [tokens[t] EXCEPT !.used = TRUE] ELSE tokens[t]]
      /\ reqs' = [reqs EXCEPT ![r] = Idle] /\ UNCHANGED <<sessions, now, begun>>
  BY DEF Verify, At, End
<1>2. u \in Users /\ reqs[r].token \in reqs[r].held /\ users[u].status # "deleted"
  BY <1>1, RequestForm DEF Stands, Shape, Redeeming
<1>3. row \in Accounts /\ row.status = users[u].status /\ row.deletion = users[u].deletion
  <2>1. users[u] \in Accounts
    BY <1>2 DEF IndInv, AccountsOK
  <2> QED BY <2>1 DEF Accounts
<1> HIDE DEF row
<1>4. /\ AccountsOK(users', now) /\ DeletionsMove(r)
      /\ \A q \in Requests : reqs[q] # Idle /\ reqs[q].token # None /\ reqs[q].step \in Redeeming
            => users'[reqs[q].user].status # "deleted"
  <2> HIDE DEF u
  <2> QED BY <1>1, <1>2, <1>3, OneAccount
<1>5. TokensOK(tokens') /\ \A q \in Requests \ {r} : reqs[q] # Idle => Kept(reqs[q].held, tokens, tokens')
  <2>1. DOMAIN tokens' = DOMAIN tokens
        /\ \A t \in DOMAIN tokens :
             tokens'[t] = IF t = reqs[r].token THEN [tokens[t] EXCEPT !.used = TRUE] ELSE tokens[t]
    BY <1>1
  <2> QED BY <1>1, <1>2, <2>1, OneToken
<1> QED BY <1>1, <1>4, <1>5, SessionsRest, LastStep

LEMMA KeepAccountGoes ==
    ASSUME IndInv, NEW r \in Requests, KeepAccount(r)
    PROVE  Goes
<1> DEFINE u == reqs[r].user
           row == [users[u] EXCEPT !.deletion = Never]
<1>1. /\ reqs[r] # Idle /\ At(r, "keep_account", "user") /\ CanGo(r)
      /\ users' = IF Active(u) /\ Recoverable(u, reqs[r].at)
                  THEN [users EXCEPT ![u] = row] ELSE users
      /\ reqs' = [reqs EXCEPT ![r] = Idle] /\ UNCHANGED <<sessions, tokens, now, begun>>
  BY DEF KeepAccount, At, End
<1>2. u \in Users /\ users[u] \in Accounts /\ users \in [Users -> Accounts]
  <2>1. u \in Users
    BY <1>1, RequestForm DEF At, Shape
  <2> QED BY <2>1 DEF IndInv, AccountsOK
<1>3. row \in Accounts /\ row.status = users[u].status
  BY <1>2 DEF Accounts
<1> HIDE DEF row
<1>4. /\ AccountsOK(users', now) /\ DeletionsMove(r)
      /\ \A q \in Requests : reqs[q] # Idle /\ reqs[q].token # None /\ reqs[q].step \in Redeeming
            => users'[reqs[q].user].status # "deleted"
  <2>1. CASE Active(u) /\ Recoverable(u, reqs[r].at)
    <3>1. users[u].status # "deleted"
      BY <2>1 DEF Active
    <3>2. users' = [users EXCEPT ![u] = row]
      BY <1>1, <2>1
    <3>3. \A q \in Requests \ {r} : reqs[q] # Idle => u \notin reqs[q].held
      <4>1. u \in Wants(r)
        BY <1>1, <1>2, WantsForm DEF At, Rows
      <4> QED BY <1>1, <4>1, GoingIsApart
    <3>4. \A v \in Users \ {u} : users'[v] = users[v]
      BY <1>2, <3>2
    <3>5. \A q \in Requests : reqs[q] # Idle /\ reqs[q].op = "cleanup" => u \notin reqs[q].snapshot
      BY <1>1, <3>3, RequestForm DEF At, Shape
    <3>6. reqs'[r] = Idle
      BY <1>1 DEF IndInv, RequestsStand
    <3>7. DeletionsMove(r)
      BY <1>1, <2>1, <3>3, <3>4, <3>5, <3>6 DEF DeletionsMove, DeletionsKept, DeletionStep
    <3> HIDE DEF u
    <3> QED BY <1>2, <1>3, <3>1, <3>2, <3>7, OneAccount
  <2>2. CASE users' = users
    BY <2>2, AccountsRest
  <2> QED BY <1>1, <2>1, <2>2
<1> QED BY <1>1, <1>4, SessionsRest, TokensRest, LastStep

LEMMA EraseGoes ==
    ASSUME IndInv, NEW r \in Requests, Erase(r)
    PROVE  Goes
<1> DEFINE S == reqs[r].snapshot
           gone == Removed(S, reqs[r].at)
           erased(u) == [users[u] EXCEPT !.status = "deleted", !.verified = FALSE, !.password = "erased"]
<1>1. /\ reqs[r] # Idle /\ reqs[r].op = "cleanup" /\ CanGo(r)
      /\ users' = [u \in Users |-> IF u \in S THEN erased(u) ELSE users[u]]
      /\ tokens' = [t \in DOMAIN tokens \ gone |-> tokens[t]]
      /\ sessions' = [s \in DOMAIN sessions \ gone |-> sessions[s]]
      /\ reqs' = [reqs EXCEPT ![r] = Idle] /\ UNCHANGED <<now, begun>>
  BY DEF Erase, At, End
<1>2. \A u \in Users \cap S : users[u].deletion # Never /\ users[u].deletion + RecoveryWindow <= now
  BY <1>1, RequestForm DEF Stands
<1>3. \A u \in Users : users[u] \in Accounts
  BY DEF IndInv, AccountsOK
<1>4. ASSUME NEW u \in Users
      PROVE  /\ erased(u) \in Accounts /\ erased(u).status = "deleted" /\ ~erased(u).verified
             /\ erased(u).password = "erased" /\ erased(u).deletion = users[u].deletion
  BY <1>3 DEF Accounts
<1> HIDE DEF erased
<1>5. AccountsOK(users', now)
  BY <1>1, <1>2, <1>3, <1>4 DEF IndInv, AccountsOK
<1>6. DeletionsMove(r)
  BY <1>1, <1>4, UnmovedIsKept DEF Unmoved, DeletionsKept
<1>7. \A q \in Requests \ {r} : reqs[q] # Idle => reqs[q].held \cap gone = {}
  <2>1. gone \subseteq Rows
    BY DEF Removed, TokensOf, ExpiredTokens, StaleSessions, IndInv, TokensOK, FamiliesOK, Rows
  <2>2. gone \subseteq Wants(r)
    BY <1>1, <2>1, WantsForm
  <2> QED BY <1>1, <2>2, GoingIsApart
<1>8. TokensOf(S) \subseteq gone
  BY DEF Removed
<1> HIDE DEF gone
<1>9. ASSUME NEW q \in Requests \ {r}, reqs[q] # Idle, reqs[q].token # None, reqs[q].step \in Redeeming
      PROVE  users'[reqs[q].user].status # "deleted"
  <2>1. /\ reqs[q].user \in Users /\ users[reqs[q].user].status # "deleted"
        /\ reqs[q].token \in reqs[q].held
        /\ reqs[q].token \in DOMAIN tokens /\ tokens[reqs[q].token].user = reqs[q].user
    BY <1>9, RequestForm DEF Stands, Shape
  <2>2. reqs[q].user \notin S
    BY <1>7, <1>8, <1>9, <2>1 DEF TokensOf
  <2> QED BY <1>1, <2>1, <2>2
<1>10. FamiliesOK(sessions') /\ FamiliesKept(sessions, sessions')
  BY <1>1 DEF IndInv, FamiliesOK, FamiliesKept
<1>11. TokensOK(tokens')
  BY <1>1 DEF IndInv, TokensOK
<1>12. ASSUME NEW q \in Requests \ {r}, reqs[q] # Idle
       PROVE  Kept(reqs[q].held, sessions, sessions') /\ Kept(reqs[q].held, tokens, tokens')
  BY <1>1, <1>7, <1>12 DEF Kept
<1> QED BY <1>1, <1>5, <1>6, <1>9, <1>10, <1>11, <1>12, LastStep

\* Steps that concern no request.
LEMMA OutsideStep ==
    ASSUME IndInv, UNCHANGED <<sessions, tokens, reqs>>, now' \in Times, now <= now',
           begun' \in 0..MaxRequests, AccountsOK(users', now'),
           \A u \in Users : users'[u].deletion = users[u].deletion
                            /\ (users'[u].status = "deleted" => users[u].status = "deleted")
    PROVE  Goes
<1>1. now \in Nat /\ now' \in Nat /\ users \in [Users -> Accounts]
  BY TimesAreNumbers DEF IndInv, AccountsOK
<1>2. ASSUME NEW q \in Requests, reqs[q] # Idle
      PROVE  Stands(reqs[q], users', sessions', tokens', now')
  <2>1. Stands(reqs[q], users, sessions, tokens, now) /\ Shape(reqs[q])
    BY <1>2, RequestForm
  <2>2. DeletionsKept(reqs[q].held, users, users') /\ Kept(reqs[q].held, sessions, sessions')
        /\ Kept(reqs[q].held, tokens, tokens')
    BY DEF DeletionsKept, Kept
  <2>3. reqs[q].token # None /\ reqs[q].step \in Redeeming => users'[reqs[q].user].status # "deleted"
    BY <2>1 DEF Stands, Shape, Redeeming, Authenticated
  <2> QED BY <1>1, <2>1, <2>2, <2>3, StandsOn
<1>3. IndInv'
  BY <1>2 DEF IndInv, RequestsStand
<1>4. FamilyStep
  BY DEF FamilyStep, FamilyOf
<1>5. DeletionStep
  BY DEF DeletionStep
<1> QED BY <1>3, <1>4, <1>5 DEF Goes

LEMMA RegisterGoes ==
    ASSUME IndInv, NEW u \in Users, Register(u)
    PROVE  Goes
<1>1. users \in [Users -> Accounts] /\ now \in Times /\ now <= now
  BY TimesAreNumbers DEF IndInv, AccountsOK
<1>2. users' = users \/ users' = [users EXCEPT ![u].status = "active"]
  BY DEF Register, WithAccount
<1>3. \A v \in Users : /\ users'[v] \in Accounts
                       /\ users'[v].deletion = users[v].deletion
                       /\ users'[v] = users[v] \/ users'[v].status = "active"
  BY <1>1, <1>2 DEF Accounts
<1>4. users' \in [Users -> Accounts]
  BY <1>1, <1>2, <1>3
<1>5. AccountsOK(users', now)
  BY <1>3, <1>4 DEF IndInv, AccountsOK
<1> QED BY <1>1, <1>3, <1>5, OutsideStep DEF Register, IndInv

LEMMA ModerateGoes ==
    ASSUME IndInv, NEW u \in Users, NEW status \in {"active", "suspended"}, Moderate(u, status)
    PROVE  Goes
<1>1. users \in [Users -> Accounts] /\ now \in Times /\ now <= now
  BY TimesAreNumbers DEF IndInv, AccountsOK
<1>2. users' = [users EXCEPT ![u].status = status] /\ begun' \in 0..MaxRequests
  BY ConstantsAreNumbers DEF Moderate, IndInv
<1>3. \A v \in Users : /\ users'[v] \in Accounts
                       /\ users'[v].deletion = users[v].deletion
                       /\ users'[v] = users[v] \/ users'[v].status \in {"active", "suspended"}
  BY <1>1, <1>2 DEF Accounts
<1>4. users' \in [Users -> Accounts]
  BY <1>1, <1>2, <1>3
<1>5. AccountsOK(users', now)
  BY <1>3, <1>4 DEF IndInv, AccountsOK
<1> QED BY <1>1, <1>2, <1>3, <1>5, OutsideStep DEF Moderate

LEMMA TickGoes ==
    ASSUME IndInv, Tick
    PROVE  Goes
<1>1. now' \in Times /\ now <= now' /\ users' = users /\ begun' \in 0..MaxRequests
  BY ConstantsAreNumbers DEF Tick, IndInv, Times
<1>2. AccountsOK(users', now')
  <2>1. \A u \in Users : users[u].deletion \in Nat
    BY ConstantsAreNumbers, TimesAreNumbers DEF IndInv, AccountsOK, Accounts
  <2>2. now \in Nat /\ now' \in Nat
    BY <1>1, TimesAreNumbers DEF IndInv
  <2> QED BY <1>1, <2>1, <2>2, ConstantsAreNumbers DEF IndInv, AccountsOK
<1> QED BY <1>1, <1>2, OutsideStep DEF Tick

-----------------------------------------------------------------------------
(***************************************************************************)
(* The theorems.                                                           *)
(***************************************************************************)
LEMMA InitInv == Init => IndInv
<1> SUFFICES ASSUME Init PROVE IndInv
  OBVIOUS
<1>1. now \in Times /\ begun \in 0..MaxRequests
  BY ConstantsAreNumbers DEF Init, Times
<1>2. AccountsOK(users, now)
  BY DEF Init, AccountsOK, Accounts
<1>3. DOMAIN sessions = {} /\ DOMAIN tokens = {}
  BY DEF Init
<1>4. FamiliesOK(sessions) /\ TokensOK(tokens)
  BY <1>3 DEF FamiliesOK, TokensOK
<1>5. RequestsStand
  BY DEF Init, RequestsStand
<1> QED BY <1>1, <1>2, <1>4, <1>5 DEF IndInv

LEMMA StepGoes ==
    ASSUME IndInv, [Next]_idVars
    PROVE  Goes
<1>1. ASSUME NEW r \in Requests, NEW u \in Users,
             StartLogin(r, u) \/ \E kind \in Kinds, at \in Readings : StartRecovery(r, u, kind, at)
      PROVE  Goes
  BY <1>1, StartLoginGoes, StartRecoveryGoes
<1>2. ASSUME NEW r \in Requests, NEW s \in SessionIds,
             Login(r, s) \/ Rotate(r, s)
             \/ \E at \in Readings : StartRefresh(r, s, at) \/ DetectReplay(r, s, at)
      PROVE  Goes
  BY <1>2, LoginGoes, RotateGoes, StartRefreshGoes, DetectReplayGoes
<1>3. ASSUME NEW r \in Requests, NEW s \in DOMAIN sessions, NEW op \in Authenticated,
             NEW target \in SessionIds \cup {None}, NEW t \in TokenIds \cup {None},
             Authenticate(r, s, op, target, t)
      PROVE  Goes
  BY <1>3, AuthenticateGoes
<1>4. ASSUME NEW r \in Requests, NEW t \in TokenIds,
             StoreToken(r, t) \/ \E op \in {"verify", "reset"}, at \in Readings : ConfirmToken(r, t, op, at)
      PROVE  Goes
  BY <1>4, StoreTokenGoes, ConfirmTokenGoes
<1>5. ASSUME NEW r \in Requests,
             Touch(r) \/ Logout(r) \/ RevokeOwned(r) \/ StartRevoking(r) \/ Revoke(r) \/ RollBack(r)
      PROVE  Goes
  BY <1>5, TouchGoes, LogoutGoes, RevokeOwnedGoes, StartRevokingGoes, RevokeGoes, RollBackGoes
<1>6. ASSUME NEW r \in Requests,
             \/ LockToken(r) \/ Verify(r) \/ ResetPassword(r)
             \/ DeleteAccount(r) \/ KeepAccount(r) \/ StartCleanup(r) \/ Erase(r)
      PROVE  Goes
  BY <1>6, LockTokenGoes, VerifyGoes, ResetPasswordGoes, DeleteAccountGoes, KeepAccountGoes,
     StartCleanupGoes, EraseGoes
<1>7. ASSUME NEW u \in Users, Register(u) \/ \E status \in {"active", "suspended"} : Moderate(u, status)
      PROVE  Goes
  BY <1>7, RegisterGoes, ModerateGoes
<1>8. CASE Tick
  BY <1>8, TickGoes
<1>9. CASE UNCHANGED idVars
  <2>1. IndInv'
    BY <1>9 DEF idVars, IndInv, RequestsStand
  <2>2. FamilyStep /\ DeletionStep
    BY <1>9 DEF idVars, FamilyStep, FamilyOf, DeletionStep
  <2> QED BY <2>1, <2>2 DEF Goes
<1> QED BY <1>1, <1>2, <1>3, <1>4, <1>5, <1>6, <1>7, <1>8, <1>9 DEF Next

LEMMA Invariant == Spec => []IndInv
<1>1. IndInv /\ [Next]_idVars => IndInv'
  BY StepGoes DEF Goes
<1> QED BY <1>1, InitInv, PTL DEF Spec

\* Sessions, families, accounts and the requests that act for them agree: a
\* device has one live session however its refreshes race, nobody acts for a
\* session that was revoked, and an erased account stays erased.
THEOREM OneSessionPerDevice == Spec => []IdInv
<1> SUFFICES ASSUME IndInv PROVE IdInv
  BY Invariant, PTL
<1>1. \A r \in Requests : reqs[r] # Idle => Stands(reqs[r], users, sessions, tokens, now)
  BY DEF IndInv, RequestsStand
<1>2. OneLivePerFamily
  BY DEF OneLivePerFamily, FamilyOf, IndInv, FamiliesOK
<1>3. ActsWhileLive
  BY <1>1 DEF ActsWhileLive, Stands
<1>4. ErasedForGood
  BY DEF ErasedForGood, IndInv, AccountsOK
<1>5. IdTypeOK
  <2>1. \A r \in Requests : reqs[r] \in Transactions \cup {Idle}
    BY <1>1 DEF Stands
  <2> QED BY <2>1 DEF IdTypeOK, IndInv, AccountsOK, FamiliesOK, TokensOK
<1> QED BY <1>2, <1>3, <1>4, <1>5 DEF IdInv

\* While one confirmation is at work its token is unused and its own.
THEOREM ConsumedOnce == Spec => []TokenConsumedOnce
<1> SUFFICES ASSUME IndInv PROVE TokenConsumedOnce
  BY Invariant, PTL
<1>1. ASSUME NEW r \in Requests, reqs[r] # Idle, reqs[r].token # None, reqs[r].step \in Redeeming
      PROVE  ~tokens[reqs[r].token].used /\ reqs[r].token \in reqs[r].held
  BY <1>1, RequestForm DEF Stands, Shape
<1>2. ASSUME NEW r \in Requests, NEW q \in Requests \ {r}, reqs[r] # Idle, reqs[q] # Idle,
             reqs[r].token # None, reqs[r].step \in Redeeming, reqs[q].step \in Redeeming
      PROVE  reqs[q].token # reqs[r].token
  BY <1>1, <1>2 DEF IndInv, RequestsStand
<1> QED BY <1>1, <1>2 DEF TokenConsumedOnce, Redeeming

\* A device that was logged out and an account whose days are over stay so.
THEOREM EndsAreFinal == Spec => EndIsFinal
<1>1. IndInv /\ [Next]_idVars => [FamilyStep /\ DeletionStep]_idVars
  BY StepGoes DEF Goes
<1> QED BY <1>1, Invariant, PTL DEF Spec, EndIsFinal

\* Only its own last statement, or a deadlock, ends a request that revokes.
LEMMA RevocationEnds ==
    ASSUME IndInv, Next, NEW r \in Requests, reqs[r] # Idle, reqs[r].step \in {"target", "revoking"},
           reqs'[r] = Idle
    PROVE  Logout(r) \/ RevokeOwned(r) \/ Revoke(r) \/ RollBack(r)
<1>1. DOMAIN reqs = Requests
  BY DEF IndInv, RequestsStand
<1>2. ASSUME NEW q \in Requests, q # r, NEW x, reqs' = [reqs EXCEPT ![q] = x]
      PROVE  FALSE
  BY <1>1, <1>2
<1>3. ASSUME NEW q \in Requests, NEW x, Begin(q, x) PROVE FALSE
  BY <1>2, <1>3 DEF Begin
<1>4. ASSUME NEW q \in Requests, End(q) PROVE q = r
  BY <1>2, <1>4 DEF End
<1>5. ASSUME NEW q \in Requests, NEW step \in {"target", "revoke", "token", "user"}, NEW rows,
             Continue(q, step, rows), reqs[q].step \notin {"target", "revoking"}
      PROVE  FALSE
  BY <1>1, <1>5 DEF Continue
<1>6. ASSUME NEW q \in Requests, StartRevoking(q) PROVE FALSE
  BY <1>1, <1>6 DEF StartRevoking
<1>7. ASSUME UNCHANGED reqs PROVE FALSE
  BY <1>7
<1>8. ASSUME NEW q \in Requests, Touch(q) PROVE FALSE
  <2>1. CASE End(q)
    BY <1>4, <1>8, <2>1 DEF Touch
  <2>2. CASE ~End(q)
    BY <1>1, <1>8, <2>2 DEF Touch
  <2> QED BY <2>1, <2>2
<1>9. ASSUME NEW q \in Requests, LockToken(q) PROVE FALSE
  <2>1. reqs[q].step = "token"
    BY <1>9 DEF LockToken, At
  <2> QED BY <1>1, <1>9, <2>1 DEF LockToken, End
<1>10. ASSUME NEW q \in Requests, ResetPassword(q) \/ DeleteAccount(q) PROVE FALSE
  BY <1>4, <1>5, <1>10 DEF ResetPassword, DeleteAccount, At
<1>11. ASSUME NEW q \in Requests,
              \/ Verify(q) \/ KeepAccount(q) \/ Erase(q)
              \/ \E s \in SessionIds : Login(q, s) \/ Rotate(q, s)
              \/ \E t \in TokenIds : StoreToken(q, t)
       PROVE  FALSE
  BY <1>4, <1>11 DEF Verify, KeepAccount, Erase, Login, Rotate, StoreToken, At
<1>12. ASSUME NEW q \in Requests, Logout(q) \/ RevokeOwned(q) \/ Revoke(q) \/ RollBack(q)
       PROVE  Logout(r) \/ RevokeOwned(r) \/ Revoke(r) \/ RollBack(r)
  BY <1>4, <1>12 DEF Logout, RevokeOwned, Revoke, RollBack
<1> QED BY <1>3, <1>6, <1>7, <1>8, <1>9, <1>10, <1>11, <1>12 DEF Next, StartLogin, StartRecovery,
        StartRefresh, DetectReplay, Authenticate, ConfirmToken, StartCleanup, Register, Moderate, Tick

\* Who ends his own session ends the device: the refresh that a browser has
\* under way finds it revoked, however the two requests race.
THEOREM DevicesEnd == Spec => OwnDeviceEnds
<1> DEFINE Ends == \A r \in Requests :
             Revokes(r) /\ reqs[r].op \in {"logout", "revoke_all", "delete_account"}
               => DeviceEnds(reqs[r].session)
<1>1. ASSUME IndInv, Next PROVE Ends
  <2> SUFFICES ASSUME NEW r \in Requests, Revokes(r), reqs[r].op \in Ending
               PROVE  DeviceEnds(reqs[r].session)
    BY DEF Ending
  <2> DEFINE s == reqs[r].session
  <2>1. /\ reqs[r] # Idle /\ reqs[r].step \in {"target", "revoking"}
        /\ Logout(r) \/ Revoke(r)
    BY <1>1, RevocationEnds DEF Revokes, RollBack, RevokeOwned, At, Ending
  <2>2. Stands(reqs[r], users, sessions, tokens, now) /\ Shape(reqs[r]) /\ reqs[r].at \in Times
    BY <1>1, <2>1, RequestForm DEF Transactions
  <2>3. s \in DOMAIN sessions /\ sessions[s].revoked = Never
    <3>1. reqs[r].op \in Authenticated /\ s # None /\ reqs[r].step # "touch"
      BY <2>1, <2>2, ConstantsAreNumbers DEF Shape, Ending, Authenticated
    <3> QED BY <2>2, <3>1 DEF Stands
  <2>4. PICK S : s \in S /\ sessions' = Revoked(S, reqs[r].at)
    <3>1. CASE Logout(r)
      BY <2>2, <3>1 DEF Logout, At, Shape
    <3>2. CASE Revoke(r)
      BY <2>2, <3>2 DEF Revoke, Shape, Ending
    <3> QED BY <2>1, <3>1, <3>2
  <2>5. /\ DOMAIN sessions' = DOMAIN sessions /\ sessions'[s].revoked # Never
        /\ \A q \in DOMAIN sessions :
             /\ sessions'[q].family = sessions[q].family
             /\ sessions[q].revoked # Never => sessions'[q].revoked # Never
    BY <1>1, <2>2, <2>3, <2>4, RevokedForm
  <2>6. \A q \in DOMAIN sessions :
          q # s /\ sessions[q].family = sessions[s].family => sessions[q].revoked # Never
    BY <1>1, <2>3 DEF IndInv, FamiliesOK
  <2> QED BY <2>5, <2>6 DEF DeviceEnds
<1>2. IndInv /\ [Next]_idVars => [Ends]_idVars
  BY <1>1
<1> QED BY <1>2, Invariant, PTL DEF Spec, OwnDeviceEnds

===============================================================================
