------------------------------ MODULE Idempotency ------------------------------
(***************************************************************************)
(* Retried mutations under an Idempotency-Key.  A request acquires the     *)
(* record of its key, performs its mutation and stores the response.  In a *)
(* shared session, as every route does it, the three are one database      *)
(* transaction: the record is locked (or its INSERT pending) until the     *)
(* transaction ends.  Otherwise IdempotencyRepository opens a transaction  *)
(* of its own for each call, and only the lease guards the mutation.       *)
(***************************************************************************)
EXTENDS Integers, FiniteSets

CONSTANTS
    Requests,      \* clients, each repeating one request until it is answered
    Keys, KeyOf,   \* actor, method, route and Idempotency-Key of a request
    HashOf,        \* request_hash of a request
    NoOne,
    SharedSessions, \* whether handlers pass their session on
    Lease,         \* lease_duration
    Retention,     \* expires_at - now
    MaxTime,       \* bound: the last instant of the clock
    MaxEffects,    \* bound: mutations ever committed
    MaxFaults      \* bound: mutations that fail or processes that die

ASSUME IdempotencyAssumption ==
    /\ KeyOf \in [Requests -> Keys]
    /\ NoOne \notin Requests
    /\ SharedSessions \subseteq BOOLEAN
    /\ Lease \in Nat \ {0}
    /\ Retention \in Nat /\ Retention >= Lease
    /\ {MaxTime, MaxEffects, MaxFaults} \subseteq Nat

VARIABLES
    shared,   \* the session is passed on; fixed for a behaviour
    rec,      \* idempotency_keys: one committed row for each key ever used
    holder,   \* the open transaction that has locked or inserted the row
    req,      \* what each request's handler has in memory
    effects,  \* committed mutations, in order of commit
    clock,
    faults

idemVars == <<shared, rec, holder, req, effects, clock, faults>>

Hashes == {HashOf[r] : r \in Requests}

EffectIds == 1..MaxEffects

NULL == 0    \* no response yet

\* response is the mutation whose result is stored; completed_at IS NOT NULL
\* exactly if there is one (ck_idempotency_response_shape).
Record == [hash : Hashes, response : EffectIds \cup {NULL}, until : Nat, expires : Nat]

Stages == {"idle", "sent", "claimed", "mutated", "answered", "refused"}

\* result is the mutation that a session of its own has committed.
RequestState == [stage : Stages, now : Nat, result : EffectIds \cup {NULL},
                 answer : EffectIds \cup {NULL}]

Unsent == [stage |-> "idle", now |-> 0, result |-> NULL, answer |-> NULL]

Effect == [key : Keys, hash : Hashes, now : Nat, expires : Nat]

IdemTypeOK ==
    /\ shared \in SharedSessions
    /\ DOMAIN rec \subseteq Keys
    /\ rec \in [DOMAIN rec -> Record]
    /\ holder \in [Keys -> Requests \cup {NoOne}]
    /\ req \in [Requests -> RequestState]
    /\ DOMAIN effects = 1..Cardinality(DOMAIN effects)
    /\ DOMAIN effects \subseteq EffectIds
    /\ effects \in [DOMAIN effects -> Effect]
    /\ clock \in 1..(MaxTime + 1)
    /\ faults \in 0..MaxFaults
    /\ \A r \in Requests : req[r].answer # NULL <=> req[r].stage = "answered"
    /\ \A k \in Keys : holder[k] # NoOne => req[holder[k]].stage \in {"claimed", "mutated"}

IdemInit ==
    /\ shared \in SharedSessions
    /\ rec = [k \in {} |-> 0]
    /\ holder = [k \in Keys |-> NoOne]
    /\ req = [r \in Requests |-> Unsent]
    /\ effects = [n \in {} |-> 0]
    /\ clock = 1
    /\ faults = 0

At(r, stage) == [req EXCEPT ![r] = [@ EXCEPT !.stage = stage]]

\* The handler reads the clock before it waits for the row.
Send(r) ==
    /\ req[r].stage = "idle"
    /\ req' = [req EXCEPT ![r] = [Unsent EXCEPT !.stage = "sent", !.now = clock]]
    /\ UNCHANGED <<shared, rec, holder, effects, clock, faults>>

\* The response is lost on its way; the client repeats the request.
LoseResponse(r) ==
    /\ req[r].stage \in {"answered", "refused"}
    /\ req' = [req EXCEPT ![r] = Unsent]
    /\ UNCHANGED <<shared, rec, holder, effects, clock, faults>>

(***************************************************************************)
(* IdempotencyRepository.acquire, on the row as the request finds it once  *)
(* no other transaction holds it.                                          *)
(***************************************************************************)
\* Mutant: the end of the lease is taken for the end of the record.
ExpiredWithLease(r) == rec[KeyOf[r]].until <= req[r].now

Expired(r) == rec[KeyOf[r]].expires <= req[r].now

\* Mutant: the hash is not compared.
NeverConflicts(r) == FALSE

Conflicts(r) == rec[KeyOf[r]].hash # HashOf[r]

Completed(r) == rec[KeyOf[r]].response # NULL

\* Mutant: a claim is taken over at once.
NeverInProgress(r) == FALSE

InProgress(r) == ~Completed(r) /\ rec[KeyOf[r]].until > req[r].now

Found(r) == KeyOf[r] \in DOMAIN rec

Granted(r) ==
    Found(r) => Expired(r) \/ ~(Conflicts(r) \/ Completed(r) \/ InProgress(r))

\* The row of a fresh, renewed or reset claim, with what complete adds to it.
Claimed(r, response) ==
    [hash |-> HashOf[r], response |-> response,
     until |-> req[r].now + Lease, expires |-> req[r].now + Retention]

WithRow(k, row) == [q \in DOMAIN rec \cup {k} |-> IF q = k THEN row ELSE rec[q]]

Ready(r) == req[r].stage = "sent" /\ holder[KeyOf[r]] = NoOne

Acquire(r) ==
    /\ Ready(r)
    /\ Granted(r)
    /\ req' = At(r, "claimed")
    /\ IF shared
       THEN holder' = [holder EXCEPT ![KeyOf[r]] = r] /\ UNCHANGED rec
       ELSE rec' = WithRow(KeyOf[r], Claimed(r, NULL)) /\ UNCHANGED holder
    /\ UNCHANGED <<shared, effects, clock, faults>>

Replay(r) ==
    /\ Ready(r)
    /\ ~Granted(r)
    /\ ~Conflicts(r)
    /\ Completed(r)
    /\ req' = [req EXCEPT ![r] = [@ EXCEPT !.stage = "answered",
                                           !.answer = rec[KeyOf[r]].response]]
    /\ UNCHANGED <<shared, rec, holder, effects, clock, faults>>

\* idempotency_conflict
RefuseConflict(r) ==
    /\ Ready(r)
    /\ ~Granted(r)
    /\ Conflicts(r)
    /\ req' = At(r, "refused")
    /\ UNCHANGED <<shared, rec, holder, effects, clock, faults>>

\* idempotency_in_progress: the client tries again later.
RefuseInProgress(r) ==
    /\ Ready(r)
    /\ ~Granted(r)
    /\ ~Conflicts(r)
    /\ InProgress(r)
    /\ req' = [req EXCEPT ![r] = Unsent]
    /\ UNCHANGED <<shared, rec, holder, effects, clock, faults>>

(***************************************************************************)
(* The mutation and IdempotencyRepository.complete.                        *)
(***************************************************************************)
NextEffect == Cardinality(DOMAIN effects) + 1

WithEffect(r) ==
    [n \in DOMAIN effects \cup {NextEffect} |->
        IF n = NextEffect
        THEN [key |-> KeyOf[r], hash |-> HashOf[r], now |-> req[r].now,
              expires |-> req[r].now + Retention]
        ELSE effects[n]]

\* The mutation of a shared session is not visible before its commit.
Mutate(r) ==
    /\ req[r].stage = "claimed"
    /\ NextEffect \in EffectIds
    /\ IF shared
       THEN req' = At(r, "mutated") /\ UNCHANGED effects
       ELSE /\ req' = [req EXCEPT ![r] = [@ EXCEPT !.stage = "mutated", !.result = NextEffect]]
            /\ effects' = WithEffect(r)
    /\ UNCHANGED <<shared, rec, holder, clock, faults>>

\* The WHERE clause of complete, with completed_at = clock.  In a shared
\* session the row is the one this transaction has written itself.
ClaimCurrent(r) ==
    LET row == IF shared THEN Claimed(r, NULL) ELSE rec[KeyOf[r]]
    IN  /\ row.hash = HashOf[r]
        /\ row.until = req[r].now + Lease
        /\ row.until > clock
        /\ row.expires > clock
        /\ row.response = NULL

\* Mutant: an aborted transaction keeps its lock.
StillHeld(r) == holder

Released(r) == [k \in Keys |-> IF holder[k] = r THEN NoOne ELSE holder[k]]

\* The commit of a shared session makes mutation and response visible at once.
Complete(r) ==
    LET n == IF shared THEN NextEffect ELSE req[r].result
    IN  /\ req[r].stage = "mutated"
        /\ ClaimCurrent(r)
        /\ n \in EffectIds
        /\ effects' = IF shared THEN WithEffect(r) ELSE effects
        /\ rec' = WithRow(KeyOf[r], Claimed(r, n))
        /\ req' = [req EXCEPT ![r] = [@ EXCEPT !.stage = "answered", !.answer = n]]
        /\ holder' = Released(r)
        /\ UNCHANGED <<shared, clock, faults>>

\* IdempotencyClaimLostError; an open transaction is rolled back.
ClaimLost(r) ==
    /\ req[r].stage = "mutated"
    /\ ~ClaimCurrent(r)
    /\ req' = [req EXCEPT ![r] = Unsent]
    /\ holder' = Released(r)
    /\ UNCHANGED <<shared, rec, effects, clock, faults>>

\* The mutation raises or the process dies; an open transaction is rolled back.
Abort(r) ==
    /\ faults < MaxFaults
    /\ req[r].stage \in {"sent", "claimed", "mutated"}
    /\ req' = [req EXCEPT ![r] = Unsent]
    /\ holder' = Released(r)
    /\ faults' = faults + 1
    /\ UNCHANGED <<shared, rec, effects, clock>>

Tick ==
    /\ clock < MaxTime
    /\ clock' = clock + 1
    /\ UNCHANGED <<shared, rec, holder, req, effects, faults>>

Handle(r) ==
    \/ Acquire(r)
    \/ Replay(r)
    \/ RefuseConflict(r)
    \/ RefuseInProgress(r)
    \/ Mutate(r)
    \/ Complete(r)
    \/ ClaimLost(r)

IdemNext ==
    \/ \E r \in Requests : Send(r) \/ Handle(r) \/ LoseResponse(r) \/ Abort(r)
    \/ Tick

IdemSpec == IdemInit /\ [][IdemNext]_idemVars

\* Clients repeat a request that got no answer, handlers run, and the row
\* lock is granted to every transaction that waits for it.
IdemFairness ==
    \A r \in Requests : WF_idemVars(Send(r)) /\ SF_idemVars(Handle(r))

FairIdemSpec == IdemSpec /\ IdemFairness

-----------------------------------------------------------------------------
\* While the record of a key lives, its mutation is committed once: of two
\* mutations the routes commit under one key the later request was made after
\* the record of the earlier one had expired, whatever was retried or had died.
OncePerKey ==
    shared => \A i, j \in DOMAIN effects :
        i < j /\ effects[i].key = effects[j].key => effects[i].expires <= effects[j].now

\* Every answer a client gets is the result of a committed mutation for the
\* same key and the same request, and equal requests under a living record
\* get equal answers.
AnswersAgree ==
    /\ \A r \in Requests : req[r].answer # NULL =>
        /\ req[r].answer \in DOMAIN effects
        /\ effects[req[r].answer].key = KeyOf[r]
        /\ effects[req[r].answer].hash = HashOf[r]
    /\ \A r, q \in Requests :
        /\ KeyOf[r] = KeyOf[q]
        /\ {req[r].answer, req[q].answer} \subseteq EffectIds
        /\ req[r].answer < req[q].answer
        => effects[req[r].answer].expires <= effects[req[q].answer].now

\* A stored response is not replaced before it expires, also not by a holder
\* of an older claim that finishes late.
ResponseStep ==
    \A k \in DOMAIN rec : rec[k].response # NULL =>
        rec'[k].response = rec[k].response \/ rec[k].expires <= clock

\* Every step leaves the answers of a key in agreement, and the stored one
\* that later requests are given stands until its record expires.
AnswersStand == [][AnswersAgree' /\ ResponseStep]_idemVars

\* Two requests never work under living leases on one key.
AtWork(r) == req[r].stage \in {"claimed", "mutated"} /\ req[r].now + Lease > clock

OneLiveClaim ==
    \A r, q \in Requests : KeyOf[r] = KeyOf[q] /\ AtWork(r) /\ AtWork(q) => r = q

\* The table, its locks and the requests agree on who works on which key.
IdemInv == IdemTypeOK /\ OneLiveClaim

\* Nobody who keeps trying a route is left without a result or a refusal,
\* through dying handlers and lost claims, unless the bound on the mutations is met.
EveryRequestSettles ==
    \A r \in Requests : shared /\ req[r].stage = "sent" ~>
        \/ req[r].stage \in {"answered", "refused"}
        \/ NextEffect > MaxEffects

=============================================================================
