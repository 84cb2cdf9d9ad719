-------------------------- MODULE IdempotencyProofs --------------------------
(***************************************************************************)
(* Theorems about idempotency keys, for every set of requests and keys,    *)
(* every lease and retention: two requests never work on a key under       *)
(* living leases, the routes commit a mutation once per living record, and *)
(* the answers to equal requests agree.                                    *)
(***************************************************************************)
EXTENDS Idempotency, FiniteSetTheorems, TLAPS

Working(r) == req[r].stage \in {"claimed", "mutated"}

\* Requests carry the time of an earlier instant.
RequestsAreOld == \A r \in Requests : req[r].now <= clock

\* A lock is held by an open transaction of the routes, on its own key.
HoldersWork ==
    \A k \in Keys : holder[k] # NoOne =>
        shared /\ holder[k] \in Requests /\ Working(holder[k]) /\ KeyOf[holder[k]] = k

\* In a shared session a row is visible only with its response...
RowsAreAnswered == shared => \A k \in DOMAIN rec : rec[k].response # NULL

\* ...the request at work holds the lock, and what it found had expired...
WorkersHold ==
    shared => \A r \in Requests : Working(r) =>
        /\ holder[KeyOf[r]] = r
        /\ KeyOf[r] \in DOMAIN rec => rec[KeyOf[r]].expires <= req[r].now

\* ...and the row outlives every mutation committed under its key.
RowsOutlive ==
    shared => \A i \in DOMAIN effects :
        /\ effects[i].key \in DOMAIN rec
        /\ effects[i].expires <= rec[effects[i].key].expires

\* A record is kept for as long as the lease of its claim, and longer.
LeasesEndFirst == \A k \in DOMAIN rec : rec[k].until <= rec[k].expires

\* In a session of its own, the row shows the claim of a request at work or a
\* later one.
ClaimsAreShown ==
    ~shared => \A r \in Requests : Working(r) =>
        KeyOf[r] \in DOMAIN rec /\ req[r].now + Lease <= rec[KeyOf[r]].until

\* The inductive invariant.
IndInv ==
    /\ IdemTypeOK
    /\ RequestsAreOld
    /\ HoldersWork
    /\ RowsAreAnswered
    /\ WorkersHold
    /\ RowsOutlive
    /\ LeasesEndFirst
    /\ ClaimsAreShown
    /\ OneLiveClaim
    /\ OncePerKey

-----------------------------------------------------------------------------
(***************************************************************************)
(* What the actions do.                                                    *)
(***************************************************************************)
\* The request r is not, or no longer, at work, and holds no lock.
Leaves(r, q) ==
    /\ q \in RequestState /\ q.stage \notin {"claimed", "mutated"} /\ q.now <= clock
    /\ q.answer # NULL <=> q.stage = "answered"
    /\ req' = [req EXCEPT ![r] = q]
    /\ holder' = Released(r)
    /\ UNCHANGED <<shared, rec, effects, clock>>

\* Only a request at work holds a lock.
LEMMA NothingToRelease ==
    ASSUME IndInv, NEW r \in Requests, ~Working(r)
    PROVE  holder = Released(r)
<1>1. holder \in [Keys -> Requests \cup {NoOne}] /\ r # NoOne
  BY IdempotencyAssumption DEF IndInv, IdemTypeOK
<1>2. \A k \in Keys : holder[k] # r
  BY <1>1 DEF IndInv, HoldersWork
<1> QED BY <1>1, <1>2 DEF Released

\* The mutations are numbered without gaps.
LEMMA EffectsShape ==
    ASSUME IdemTypeOK
    PROVE  /\ NextEffect \in Nat \ {0} /\ NextEffect \notin DOMAIN effects
           /\ DOMAIN effects = 1..(NextEffect - 1)
           /\ \A i \in DOMAIN effects : i \in Nat /\ i < NextEffect
           /\ DOMAIN effects \cup {NextEffect} = 1..Cardinality(DOMAIN effects \cup {NextEffect})
<1> DEFINE N == Cardinality(DOMAIN effects)
<1>1. DOMAIN effects \subseteq 1..MaxEffects /\ DOMAIN effects = 1..N /\ MaxEffects \in Int
  BY IdempotencyAssumption DEF IdemTypeOK, EffectIds
<1>2. IsFiniteSet(DOMAIN effects)
  <2>1. IsFiniteSet(1..MaxEffects)
    BY <1>1, FS_Interval
  <2> QED BY <1>1, <2>1, FS_Subset
<1>3. N \in Nat
  BY <1>2, FS_CardinalityType
<1>4. NextEffect = N + 1
  BY DEF NextEffect
<1>5. DOMAIN effects \cup {N + 1} = 1..(N + 1)
  <2> HIDE DEF N
  <2> QED BY <1>1, <1>3
<1>6. Cardinality(1..(N + 1)) = N + 1
  BY <1>3, FS_Interval
<1> HIDE DEF N
<1>7. DOMAIN effects \cup {NextEffect} = 1..Cardinality(DOMAIN effects \cup {NextEffect})
  BY <1>4, <1>5, <1>6
<1>8. \A i \in DOMAIN effects : i \in Nat /\ i < NextEffect
  BY <1>1, <1>3, <1>4
<1>9. NextEffect \in Nat \ {0} /\ NextEffect - 1 = N
  BY <1>3, <1>4
<1>10. NextEffect \notin DOMAIN effects
  BY <1>8, <1>9
<1>11. DOMAIN effects = 1..(NextEffect - 1)
  BY <1>1, <1>9
<1> QED BY <1>7, <1>8, <1>9, <1>10, <1>11

LEMMA UnsentIsState == Unsent \in RequestState /\ Unsent.stage = "idle" /\ Unsent.now = 0 /\ Unsent.answer = NULL
BY DEF Unsent, RequestState, Stages, NULL

LEMMA LeavingForms ==
    ASSUME IndInv, NEW r \in Requests,
           \/ Send(r) \/ LoseResponse(r) \/ Replay(r) \/ RefuseConflict(r)
           \/ RefuseInProgress(r) \/ ClaimLost(r) \/ Abort(r)
    PROVE  (\E q \in RequestState : Leaves(r, q)) /\ faults' \in 0..MaxFaults
<1> USE DEF IndInv, IdemTypeOK
<1>0. req[r] \in RequestState /\ clock \in Nat /\ clock > 0 /\ req[r].now <= clock
  BY IdempotencyAssumption DEF RequestsAreOld
<1>1. ASSUME Send(r) PROVE \E q \in RequestState : Leaves(r, q)
  <2> DEFINE q == [Unsent EXCEPT !.stage = "sent", !.now = clock]
  <2>1. q \in RequestState /\ q.stage = "sent" /\ q.now = clock /\ q.answer = NULL
    BY <1>0 DEF Unsent, RequestState, Stages
  <2>2. req' = [req EXCEPT ![r] = q] /\ UNCHANGED <<shared, rec, holder, effects, clock>>
    BY <1>1 DEF Send
  <2>3. holder = Released(r)
    BY <1>1, NothingToRelease DEF Send, Working
  <2> HIDE DEF q
  <2>4. Leaves(r, q)
    BY <1>0, <2>1, <2>2, <2>3 DEF Leaves
  <2> QED BY <2>1, <2>4
<1>2. ASSUME LoseResponse(r) \/ RefuseInProgress(r) PROVE \E q \in RequestState : Leaves(r, q)
  <2>1. req' = [req EXCEPT ![r] = Unsent] /\ UNCHANGED <<shared, rec, holder, effects, clock>>
    BY <1>2 DEF LoseResponse, RefuseInProgress
  <2>2. holder = Released(r)
    BY <1>2, NothingToRelease DEF LoseResponse, RefuseInProgress, Ready, Working
  <2>3. Leaves(r, Unsent)
    BY <1>0, <2>1, <2>2, UnsentIsState DEF Leaves
  <2> QED BY <2>3, UnsentIsState
<1>3. ASSUME ClaimLost(r) \/ Abort(r) PROVE \E q \in RequestState : Leaves(r, q)
  <2>1. /\ req' = [req EXCEPT ![r] = Unsent] /\ holder' = Released(r)
        /\ UNCHANGED <<shared, rec, effects, clock>>
    BY <1>3 DEF ClaimLost, Abort
  <2>2. Leaves(r, Unsent)
    BY <1>0, <2>1, UnsentIsState DEF Leaves
  <2> QED BY <2>2, UnsentIsState
<1>4. ASSUME RefuseConflict(r) PROVE \E q \in RequestState : Leaves(r, q)
  <2> DEFINE q == [req[r] EXCEPT !.stage = "refused"]
  <2>1. req[r].stage = "sent" /\ req[r].answer = NULL
    BY <1>4 DEF RefuseConflict, Ready
  <2>2. q \in RequestState /\ q.stage = "refused" /\ q.now = req[r].now /\ q.answer = NULL
    BY <1>0, <2>1 DEF RequestState, Stages
  <2>3. req' = [req EXCEPT ![r] = q] /\ UNCHANGED <<shared, rec, holder, effects, clock>>
    BY <1>4 DEF RefuseConflict, At
  <2>4. holder = Released(r)
    BY <2>1, NothingToRelease DEF Working
  <2> HIDE DEF q
  <2>5. Leaves(r, q)
    BY <1>0, <2>2, <2>3, <2>4 DEF Leaves
  <2> QED BY <2>2, <2>5
<1>5. ASSUME Replay(r) PROVE \E q \in RequestState : Leaves(r, q)
  <2> DEFINE n == rec[KeyOf[r]].response
             q == [req[r] EXCEPT !.stage = "answered", !.answer = n]
  <2>1. /\ req[r].stage = "sent" /\ KeyOf[r] \in DOMAIN rec
        /\ n \in EffectIds \cup {NULL} /\ n # NULL
    BY <1>5 DEF Replay, Ready, Granted, Found, Completed, Record
  <2>2. q \in RequestState /\ q.stage = "answered" /\ q.now = req[r].now /\ q.answer = n
    BY <1>0, <2>1 DEF RequestState, Stages
  <2>3. req' = [req EXCEPT ![r] = q] /\ UNCHANGED <<shared, rec, holder, effects, clock>>
    BY <1>5 DEF Replay
  <2>4. holder = Released(r)
    BY <2>1, NothingToRelease DEF Working
  <2> HIDE DEF q, n
  <2>5. Leaves(r, q)
    BY <1>0, <2>1, <2>2, <2>3, <2>4 DEF Leaves
  <2> QED BY <2>2, <2>5
<1>6. faults' \in 0..MaxFaults
  BY IdempotencyAssumption DEF Send, LoseResponse, Replay, RefuseConflict, RefuseInProgress,
       ClaimLost, Abort
<1> QED BY <1>1, <1>2, <1>3, <1>4, <1>5, <1>6

-----------------------------------------------------------------------------
(***************************************************************************)
(* Every step keeps the invariant.                                         *)
(***************************************************************************)
LEMMA LeavesKeeps ==
    ASSUME IndInv, NEW r \in Requests, NEW q \in RequestState, Leaves(r, q),
           faults' \in 0..MaxFaults
    PROVE  IndInv'
<1> USE DEF IndInv, IdemTypeOK
<1>1. /\ q.stage \notin {"claimed", "mutated"} /\ q.now <= clock
      /\ q.answer # NULL <=> q.stage = "answered"
      /\ req' = [req EXCEPT ![r] = q]
      /\ holder' = Released(r)
      /\ UNCHANGED <<shared, rec, effects, clock>>
  BY DEF Leaves
<1>2. \A p \in Requests : req'[p] = (IF p = r THEN q ELSE req[p])
  BY <1>1
<1>3. \A k \in Keys : holder'[k] = (IF holder[k] = r THEN NoOne ELSE holder[k])
  BY <1>1 DEF Released
<1>4. \A p \in Requests : Working(p)' => p # r /\ Working(p) /\ req'[p] = req[p]
  BY <1>1, <1>2 DEF Working
<1>5. HoldersWork'
  <2> SUFFICES ASSUME NEW k \in Keys, holder'[k] # NoOne
               PROVE  /\ shared' /\ holder'[k] \in Requests /\ KeyOf[holder'[k]] = k
                      /\ req'[holder'[k]].stage \in {"claimed", "mutated"}
    BY DEF HoldersWork, Working
  <2>1. holder'[k] = holder[k] /\ holder[k] # r /\ holder[k] # NoOne
    BY <1>3
  <2>2. shared /\ holder[k] \in Requests /\ Working(holder[k]) /\ KeyOf[holder[k]] = k
    BY <2>1 DEF HoldersWork
  <2> QED BY <1>1, <1>2, <2>1, <2>2 DEF Working
<1>6. IdemTypeOK'
  <2>1. holder' \in [Keys -> Requests \cup {NoOne}]
    BY <1>1 DEF Released
  <2>2. req' \in [Requests -> RequestState]
    BY <1>1
  <2>3. \A p \in Requests : req'[p].answer # NULL <=> req'[p].stage = "answered"
    BY <1>1, <1>2
  <2>4. \A k \in Keys : holder'[k] # NoOne => req'[holder'[k]].stage \in {"claimed", "mutated"}
    BY <1>5 DEF HoldersWork, Working
  <2> QED BY <1>1, <2>1, <2>2, <2>3, <2>4
<1>7. RequestsAreOld'
  BY <1>1, <1>2 DEF RequestsAreOld
<1>8. RowsAreAnswered' /\ RowsOutlive' /\ LeasesEndFirst' /\ OncePerKey'
  BY <1>1 DEF RowsAreAnswered, RowsOutlive, LeasesEndFirst, OncePerKey
<1>9. WorkersHold'
  <2> SUFFICES ASSUME shared, NEW p \in Requests, Working(p)'
               PROVE  /\ holder'[KeyOf[p]] = p
                      /\ KeyOf[p] \in DOMAIN rec => rec[KeyOf[p]].expires <= req[p].now
    BY <1>1, <1>4 DEF WorkersHold, Working
  <2>1. p # r /\ Working(p) /\ KeyOf[p] \in Keys
    BY <1>4, IdempotencyAssumption
  <2> QED BY <1>3, <2>1 DEF WorkersHold
<1>10. ClaimsAreShown'
  BY <1>1, <1>4 DEF ClaimsAreShown, Working
<1>11. OneLiveClaim'
  BY <1>1, <1>4 DEF OneLiveClaim, AtWork, Working
<1> QED BY <1>5, <1>6, <1>7, <1>8, <1>9, <1>10, <1>11

\* Of two claims on one key the later found the lease of the earlier ended.
LEMMA AcquireKeeps ==
    ASSUME IndInv, NEW r \in Requests, Acquire(r)
    PROVE  IndInv'
<1> USE DEF IndInv, IdemTypeOK
<1> DEFINE k == KeyOf[r]
           q == [req[r] EXCEPT !.stage = "claimed"]
           row == Claimed(r, NULL)
<1>1. /\ k \in Keys /\ req[r] \in RequestState /\ clock \in Nat /\ r # NoOne
      /\ Lease \in Nat \ {0} /\ Retention \in Nat /\ Lease <= Retention
  BY IdempotencyAssumption
<1>2. /\ req[r].stage = "sent" /\ req[r].answer = NULL /\ holder[k] = NoOne
      /\ req[r].now \in Nat /\ req[r].now <= clock
  BY <1>1 DEF Acquire, Ready, RequestsAreOld, RequestState
<1>3. q \in RequestState /\ q.stage = "claimed" /\ q.now = req[r].now /\ q.answer = NULL
  BY <1>1, <1>2 DEF RequestState, Stages
<1>4. /\ row \in Record /\ row.until = req[r].now + Lease /\ row.expires = req[r].now + Retention
  BY <1>1, <1>2 DEF Claimed, Record, Hashes
<1>5. /\ req' = [req EXCEPT ![r] = q] /\ UNCHANGED <<shared, effects, clock, faults>>
      /\ shared => holder' = [holder EXCEPT ![k] = r] /\ rec' = rec
      /\ ~shared => rec' = WithRow(k, row) /\ holder' = holder
  BY DEF Acquire, At
<1>6. shared \in BOOLEAN
  BY IdempotencyAssumption
\* What the request finds: nothing, or a row that has expired, or a claim
\* whose lease has ended.
<1>7. k \in DOMAIN rec =>
        /\ rec[k].until \in Nat /\ rec[k].expires \in Nat /\ rec[k].until <= rec[k].expires
        /\ rec[k].until <= req[r].now
        /\ shared => rec[k].expires <= req[r].now
  <2> SUFFICES ASSUME k \in DOMAIN rec
               PROVE  /\ rec[k].until \in Nat /\ rec[k].expires \in Nat
                      /\ rec[k].until <= rec[k].expires /\ rec[k].until <= req[r].now
                      /\ shared => rec[k].expires <= req[r].now
    OBVIOUS
  <2>1. rec[k] \in Record /\ rec[k].until <= rec[k].expires
    BY DEF LeasesEndFirst
  <2>2. Expired(r) \/ ~(Conflicts(r) \/ Completed(r) \/ InProgress(r))
    BY DEF Acquire, Granted, Found
  <2>3. shared => Completed(r)
    BY DEF RowsAreAnswered, Completed
  <2>4. rec[k].until \in Nat /\ rec[k].expires \in Nat
    BY <2>1 DEF Record
  <2>5. CASE Expired(r)
    BY <1>2, <2>1, <2>4, <2>5 DEF Expired
  <2>6. CASE ~Completed(r) /\ ~InProgress(r)
    BY <1>2, <2>1, <2>3, <2>4, <2>6 DEF InProgress
  <2> QED BY <2>2, <2>5, <2>6
<1> HIDE DEF q, row
<1>8. \A p \in Requests : req'[p] = (IF p = r THEN q ELSE req[p])
  BY <1>5
<1>9. ~shared => DOMAIN rec' = DOMAIN rec \cup {k}
                 /\ \A j \in DOMAIN rec' : rec'[j] = (IF j = k THEN row ELSE rec[j])
  BY <1>5 DEF WithRow
<1>10. \A j \in Keys : holder'[j] = (IF shared /\ j = k THEN r ELSE holder[j])
  BY <1>1, <1>5, <1>6
<1>11. IdemTypeOK'
  <2>1. req' \in [Requests -> RequestState]
    BY <1>3, <1>5
  <2>2. DOMAIN rec' \subseteq Keys /\ rec' \in [DOMAIN rec' -> Record]
    <3>1. CASE shared
      BY <1>5, <3>1
    <3>2. CASE ~shared
      BY <1>1, <1>4, <1>5, <1>9, <3>2 DEF WithRow
    <3> QED BY <3>1, <3>2
  <2>3. holder' \in [Keys -> Requests \cup {NoOne}]
    BY <1>5, <1>6
  <2>4. \A p \in Requests : req'[p].answer # NULL <=> req'[p].stage = "answered"
    BY <1>3, <1>8
  <2>5. \A j \in Keys : holder'[j] # NoOne => req'[holder'[j]].stage \in {"claimed", "mutated"}
    BY <1>1, <1>3, <1>8, <1>10
  <2> QED BY <1>5, <2>1, <2>2, <2>3, <2>4, <2>5
<1>12. RequestsAreOld'
  BY <1>2, <1>3, <1>5, <1>8 DEF RequestsAreOld
<1>13. HoldersWork'
  <2> SUFFICES ASSUME NEW j \in Keys, holder'[j] # NoOne
               PROVE  /\ shared /\ holder'[j] \in Requests /\ KeyOf[holder'[j]] = j
                      /\ req'[holder'[j]].stage \in {"claimed", "mutated"}
    BY <1>5 DEF HoldersWork, Working
  <2>1. CASE shared /\ j = k
    BY <1>3, <1>8, <1>10, <2>1
  <2>2. CASE ~(shared /\ j = k)
    <3>1. holder'[j] = holder[j]
      BY <1>10, <2>2
    <3>2. /\ shared /\ holder[j] \in Requests /\ KeyOf[holder[j]] = j
          /\ req[holder[j]].stage \in {"claimed", "mutated"}
      BY <3>1 DEF HoldersWork, Working
    <3> QED BY <1>3, <1>8, <3>1, <3>2
  <2> QED BY <2>1, <2>2
<1>14. RowsAreAnswered' /\ RowsOutlive' /\ OncePerKey'
  <2>1. shared => rec' = rec /\ shared' = shared /\ effects' = effects
    BY <1>5
  <2> QED BY <1>5, <2>1 DEF RowsAreAnswered, RowsOutlive, OncePerKey
<1>15. LeasesEndFirst'
  <2>1. row.until <= row.expires
    BY <1>1, <1>2, <1>4
  <2>2. CASE shared
    BY <1>5, <2>2 DEF LeasesEndFirst
  <2>3. CASE ~shared
    BY <1>9, <2>1, <2>3 DEF LeasesEndFirst
  <2> QED BY <2>2, <2>3
<1>16. \A p \in Requests : Working(p)' /\ p # r => Working(p) /\ req'[p] = req[p]
  BY <1>8 DEF Working
<1>17. WorkersHold'
  <2> SUFFICES ASSUME shared, NEW p \in Requests, Working(p)'
               PROVE  /\ holder'[KeyOf[p]] = p
                      /\ KeyOf[p] \in DOMAIN rec => rec[KeyOf[p]].expires <= req'[p].now
    BY <1>5 DEF WorkersHold, Working
  <2>1. CASE p = r
    BY <1>1, <1>3, <1>7, <1>8, <1>10, <2>1
  <2>2. CASE p # r
    <3>1. /\ KeyOf[p] \in Keys /\ holder[KeyOf[p]] = p
          /\ KeyOf[p] \in DOMAIN rec => rec[KeyOf[p]].expires <= req[p].now
      BY <1>16, <2>2, IdempotencyAssumption DEF WorkersHold
    <3>2. KeyOf[p] # k /\ p # NoOne
      BY <1>2, <3>1, IdempotencyAssumption
    <3> QED BY <1>10, <1>16, <2>2, <3>1, <3>2
  <2> QED BY <2>1, <2>2
<1>18. ClaimsAreShown'
  <2> SUFFICES ASSUME ~shared, NEW p \in Requests, Working(p)'
               PROVE  KeyOf[p] \in DOMAIN rec' /\ req'[p].now + Lease <= rec'[KeyOf[p]].until
    BY <1>5 DEF ClaimsAreShown, Working
  <2>1. CASE p = r
    <3>1. KeyOf[p] \in DOMAIN rec' /\ rec'[KeyOf[p]] = row
      BY <1>9, <2>1
    <3>2. req'[p].now = req[r].now
      BY <1>3, <1>8, <2>1
    <3> QED BY <1>1, <1>2, <1>4, <3>1, <3>2
  <2>2. CASE p # r
    <3>1. /\ KeyOf[p] \in DOMAIN rec /\ req[p].now + Lease <= rec[KeyOf[p]].until
          /\ req'[p].now \in Nat /\ req'[p] = req[p]
      BY <1>16, <2>2 DEF ClaimsAreShown, RequestState
    <3>2. CASE KeyOf[p] = k
      <4>1. KeyOf[p] \in DOMAIN rec' /\ rec'[KeyOf[p]] = row
        BY <1>9, <3>2
      <4>2. rec[KeyOf[p]].until \in Nat /\ rec[KeyOf[p]].until <= req[r].now
        BY <1>7, <3>1, <3>2
      <4> QED BY <1>1, <1>2, <1>4, <3>1, <4>1, <4>2
    <3>3. CASE KeyOf[p] # k
      BY <1>9, <3>1, <3>3
    <3> QED BY <3>2, <3>3
  <2> QED BY <2>1, <2>2
<1>19. OneLiveClaim'
  \* Whoever else is at work on the key is so under a lease that has ended.
  <2>1. ASSUME NEW p \in Requests, p # r, KeyOf[p] = k, Working(p), req[p].now + Lease > clock
        PROVE  FALSE
    <3>1. CASE shared
      <4>1. holder[KeyOf[p]] = p
        BY <2>1, <3>1 DEF WorkersHold
      <4>2. p = NoOne
        BY <1>2, <2>1, <4>1
      <4> QED BY <4>2, IdempotencyAssumption
    <3>2. CASE ~shared
      <4>1. k \in DOMAIN rec /\ req[p].now + Lease <= rec[k].until /\ req[p].now \in Nat
        BY <2>1, <3>2 DEF ClaimsAreShown, RequestState
      <4> QED BY <1>1, <1>2, <1>7, <2>1, <4>1
    <3> QED BY <3>1, <3>2
  <2>2. \A p \in Requests : AtWork(p)' =>
          p = r \/ (Working(p) /\ AtWork(p) /\ req[p].now + Lease > clock)
    BY <1>5, <1>16 DEF AtWork, Working
  <2>3. ASSUME NEW p \in Requests, NEW o \in Requests, KeyOf[p] = KeyOf[o], AtWork(p)', AtWork(o)'
        PROVE  p = o
    BY <2>1, <2>2, <2>3 DEF OneLiveClaim
  <2> QED BY <2>3 DEF OneLiveClaim, AtWork
<1> QED BY <1>11, <1>12, <1>13, <1>14, <1>15, <1>17, <1>18, <1>19

LEMMA WithEffectShape ==
    ASSUME IndInv, NEW r \in Requests, NextEffect \in EffectIds
    PROVE  /\ DOMAIN WithEffect(r) = DOMAIN effects \cup {NextEffect}
           /\ DOMAIN WithEffect(r) = 1..Cardinality(DOMAIN WithEffect(r))
           /\ DOMAIN WithEffect(r) \subseteq EffectIds
           /\ WithEffect(r) \in [DOMAIN WithEffect(r) -> Effect]
           /\ WithEffect(r)[NextEffect] = [key |-> KeyOf[r], hash |-> HashOf[r], now |-> req[r].now,
                                          expires |-> req[r].now + Retention]
           /\ \A i \in DOMAIN effects : WithEffect(r)[i] = effects[i]
<1> USE DEF IndInv, IdemTypeOK
<1> DEFINE e == [key |-> KeyOf[r], hash |-> HashOf[r], now |-> req[r].now,
                 expires |-> req[r].now + Retention]
<1>1. e \in Effect
  <2>1. req[r].now \in Nat /\ Retention \in Nat /\ KeyOf[r] \in Keys /\ HashOf[r] \in Hashes
    BY IdempotencyAssumption DEF RequestState, Hashes
  <2> QED BY <2>1 DEF Effect
<1>2. WithEffect(r) = [n \in DOMAIN effects \cup {NextEffect} |->
                         IF n = NextEffect THEN e ELSE effects[n]]
  BY DEF WithEffect
<1>3. DOMAIN effects \cup {NextEffect} = 1..Cardinality(DOMAIN effects \cup {NextEffect})
      /\ NextEffect \notin DOMAIN effects
  BY EffectsShape
<1>4. DOMAIN WithEffect(r) = DOMAIN effects \cup {NextEffect}
  BY <1>2
<1> HIDE DEF e
<1>5. DOMAIN WithEffect(r) = 1..Cardinality(DOMAIN WithEffect(r))
  BY <1>3, <1>4
<1>6. WithEffect(r)[NextEffect] = e /\ \A i \in DOMAIN effects : WithEffect(r)[i] = effects[i]
  BY <1>2, <1>3
<1>7. WithEffect(r) \in [DOMAIN WithEffect(r) -> Effect]
  BY <1>1, <1>2, <1>4
<1> QED BY <1>4, <1>5, <1>6, <1>7 DEF e

LEMMA MutateKeeps ==
    ASSUME IndInv, NEW r \in Requests, Mutate(r)
    PROVE  IndInv'
<1> USE DEF IndInv, IdemTypeOK
<1>1. /\ req[r] \in RequestState /\ req[r].stage = "claimed" /\ req[r].answer = NULL
      /\ NextEffect \in EffectIds
      /\ UNCHANGED <<shared, rec, holder, clock, faults>>
      /\ shared => effects' = effects
      /\ ~shared => effects' = WithEffect(r)
  BY DEF Mutate
<1>2. PICK q \in RequestState :
        /\ req' = [req EXCEPT ![r] = q]
        /\ q.stage = "mutated" /\ q.now = req[r].now /\ q.answer = NULL
  <2> DEFINE m == [req[r] EXCEPT !.stage = "mutated"]
             o == [req[r] EXCEPT !.stage = "mutated", !.result = NextEffect]
  <2>1. m \in RequestState /\ m.stage = "mutated" /\ m.now = req[r].now /\ m.answer = NULL
    BY <1>1 DEF RequestState, Stages
  <2>2. o \in RequestState /\ o.stage = "mutated" /\ o.now = req[r].now /\ o.answer = NULL
    BY <1>1 DEF RequestState, Stages
  <2>3. req' = [req EXCEPT ![r] = m] \/ req' = [req EXCEPT ![r] = o]
    BY DEF Mutate, At
  <2> HIDE DEF m, o
  <2> QED BY <2>1, <2>2, <2>3
<1>3. \A p \in Requests : req'[p] = (IF p = r THEN q ELSE req[p])
  BY <1>2
<1>4. \A p \in Requests : req'[p].now = req[p].now /\ (Working(p)' <=> Working(p))
  BY <1>1, <1>2, <1>3 DEF Working
<1>5. IdemTypeOK'
  <2>1. /\ DOMAIN effects' = 1..Cardinality(DOMAIN effects') /\ DOMAIN effects' \subseteq EffectIds
        /\ effects' \in [DOMAIN effects' -> Effect]
    <3>1. CASE shared
      BY <1>1, <3>1
    <3>2. CASE ~shared
      BY <1>1, <3>2, WithEffectShape
    <3> QED BY <3>1, <3>2
  <2>2. \A p \in Requests : req'[p].answer # NULL <=> req'[p].stage = "answered"
    BY <1>2, <1>3
  <2>3. \A j \in Keys : holder'[j] # NoOne => req'[holder'[j]].stage \in {"claimed", "mutated"}
    BY <1>1, <1>4 DEF Working, HoldersWork
  <2> QED BY <1>1, <1>2, <2>1, <2>2, <2>3
<1>6. RequestsAreOld' /\ LeasesEndFirst' /\ RowsAreAnswered'
  BY <1>1, <1>4 DEF RequestsAreOld, LeasesEndFirst, RowsAreAnswered
<1>7. HoldersWork'
  BY <1>1, <1>4 DEF HoldersWork
<1>8. WorkersHold'
  BY <1>1, <1>4 DEF WorkersHold
<1>9. ClaimsAreShown'
  BY <1>1, <1>4 DEF ClaimsAreShown
<1>10. RowsOutlive' /\ OncePerKey'
  BY <1>1 DEF RowsOutlive, OncePerKey
<1>11. OneLiveClaim'
  BY <1>1, <1>4 DEF OneLiveClaim, AtWork, Working
<1> QED BY <1>5, <1>6, <1>7, <1>8, <1>9, <1>10, <1>11

\* The routes commit a mutation only over a record that had expired when its
\* request was made, and leave a record that outlives it.
LEMMA CompleteKeeps ==
    ASSUME IndInv, NEW r \in Requests, Complete(r)
    PROVE  IndInv'
<1> USE DEF IndInv, IdemTypeOK
<1> DEFINE k == KeyOf[r]
<1>1. PICK n \in EffectIds :
        /\ shared => n = NextEffect /\ effects' = WithEffect(r)
        /\ ~shared => effects' = effects
        /\ rec' = WithRow(k, Claimed(r, n))
        /\ req' = [req EXCEPT ![r] = [@ EXCEPT !.stage = "answered", !.answer = n]]
        /\ holder' = Released(r)
        /\ UNCHANGED <<shared, clock, faults>>
  BY DEF Complete
<1> DEFINE q == [req[r] EXCEPT !.stage = "answered", !.answer = n]
           row == Claimed(r, n)
<1>2. /\ k \in Keys /\ req[r] \in RequestState /\ clock \in Nat /\ r # NoOne
      /\ Lease \in Nat \ {0} /\ Retention \in Nat /\ Lease <= Retention
      /\ n # NULL /\ req[r].now \in Nat /\ req[r].now <= clock
  BY IdempotencyAssumption DEF RequestState, EffectIds, NULL, RequestsAreOld
<1>3. Working(r) /\ ClaimCurrent(r)
  BY DEF Complete, Working
<1>4. q \in RequestState /\ q.stage = "answered" /\ q.now = req[r].now /\ q.answer = n
  BY <1>2 DEF RequestState, Stages
<1>5. /\ row \in Record /\ row.until = req[r].now + Lease /\ row.expires = req[r].now + Retention
      /\ row.response = n
  BY <1>2 DEF Claimed, Record, Hashes
<1>6. ~shared => rec[k].until = req[r].now + Lease
  BY <1>3 DEF ClaimCurrent
<1>7. req' = [req EXCEPT ![r] = q]
  BY <1>1
<1> HIDE DEF q, row
<1>8. \A p \in Requests : req'[p] = (IF p = r THEN q ELSE req[p])
  BY <1>7
<1>9. /\ DOMAIN rec' = DOMAIN rec \cup {k}
      /\ \A j \in DOMAIN rec' : rec'[j] = (IF j = k THEN row ELSE rec[j])
  BY <1>1 DEF WithRow, row
<1>10. \A j \in Keys : holder'[j] = (IF holder[j] = r THEN NoOne ELSE holder[j])
  BY <1>1 DEF Released
<1>11. \A p \in Requests : Working(p)' => p # r /\ Working(p) /\ req'[p] = req[p]
  BY <1>4, <1>8 DEF Working
<1>12. HoldersWork'
  <2> SUFFICES ASSUME NEW j \in Keys, holder'[j] # NoOne
               PROVE  /\ shared' /\ holder'[j] \in Requests /\ KeyOf[holder'[j]] = j
                      /\ req'[holder'[j]].stage \in {"claimed", "mutated"}
    BY DEF HoldersWork, Working
  <2>1. holder'[j] = holder[j] /\ holder[j] # r /\ holder[j] # NoOne
    BY <1>10
  <2>2. shared /\ holder[j] \in Requests /\ Working(holder[j]) /\ KeyOf[holder[j]] = j
    BY <2>1 DEF HoldersWork
  <2> QED BY <1>1, <1>8, <2>1, <2>2 DEF Working
<1>13. IdemTypeOK'
  <2>1. /\ DOMAIN effects' = 1..Cardinality(DOMAIN effects') /\ DOMAIN effects' \subseteq EffectIds
        /\ effects' \in [DOMAIN effects' -> Effect]
    <3>1. CASE shared
      BY <1>1, <3>1, WithEffectShape
    <3>2. CASE ~shared
      BY <1>1, <3>2
    <3> QED BY <3>1, <3>2
  <2>2. DOMAIN rec' \subseteq Keys /\ rec' \in [DOMAIN rec' -> Record]
    <3>1. DOMAIN rec' \subseteq Keys /\ \A j \in DOMAIN rec' : rec'[j] \in Record
      BY <1>2, <1>5, <1>9
    <3>2. rec' = [j \in DOMAIN rec' |-> rec'[j]]
      BY <1>1 DEF WithRow
    <3> QED BY <3>1, <3>2
  <2>3. holder' \in [Keys -> Requests \cup {NoOne}]
    BY <1>1 DEF Released
  <2>4. \A p \in Requests : req'[p].answer # NULL <=> req'[p].stage = "answered"
    BY <1>2, <1>4, <1>8
  <2>5. \A j \in Keys : holder'[j] # NoOne => req'[holder'[j]].stage \in {"claimed", "mutated"}
    BY <1>12 DEF HoldersWork, Working
  <2>6. req' \in [Requests -> RequestState]
    BY <1>4, <1>7
  <2> QED BY <1>1, <2>1, <2>2, <2>3, <2>4, <2>5, <2>6
<1>14. RequestsAreOld'
  BY <1>1, <1>2, <1>4, <1>8 DEF RequestsAreOld
<1>15. RowsAreAnswered'
  BY <1>1, <1>2, <1>5, <1>9 DEF RowsAreAnswered
<1>16. WorkersHold'
  <2> SUFFICES ASSUME shared, NEW p \in Requests, Working(p)'
               PROVE  /\ holder'[KeyOf[p]] = p
                      /\ KeyOf[p] \in DOMAIN rec' => rec'[KeyOf[p]].expires <= req'[p].now
    BY <1>1 DEF WorkersHold, Working
  <2>1. p # r /\ Working(p) /\ req'[p] = req[p] /\ KeyOf[p] \in Keys
    BY <1>11, IdempotencyAssumption
  <2>2. /\ holder[KeyOf[p]] = p /\ holder[k] = r
        /\ KeyOf[p] \in DOMAIN rec => rec[KeyOf[p]].expires <= req[p].now
    BY <1>3, <2>1 DEF WorkersHold
  <2>3. KeyOf[p] # k
    BY <2>1, <2>2
  <2> QED BY <1>9, <1>10, <2>1, <2>2, <2>3
<1>17. LeasesEndFirst'
  <2>1. row.until <= row.expires
    BY <1>2, <1>5
  <2> QED BY <1>9, <2>1 DEF LeasesEndFirst
<1>18. ClaimsAreShown'
  <2> SUFFICES ASSUME ~shared, NEW p \in Requests, Working(p)'
               PROVE  KeyOf[p] \in DOMAIN rec' /\ req'[p].now + Lease <= rec'[KeyOf[p]].until
    BY <1>1 DEF ClaimsAreShown, Working
  <2>1. /\ KeyOf[p] \in DOMAIN rec /\ req[p].now + Lease <= rec[KeyOf[p]].until /\ req'[p] = req[p]
    BY <1>11 DEF ClaimsAreShown
  <2>2. CASE KeyOf[p] = k
    BY <1>5, <1>6, <1>9, <2>1, <2>2
  <2>3. CASE KeyOf[p] # k
    BY <1>9, <2>1, <2>3
  <2> QED BY <2>2, <2>3
<1>19. OneLiveClaim'
  <2>1. \A p \in Requests : AtWork(p)' => AtWork(p)
    BY <1>1, <1>11 DEF AtWork, Working
  <2> QED BY <2>1 DEF OneLiveClaim
<1>20. RowsOutlive' /\ OncePerKey'
  <2>1. CASE ~shared
    BY <1>1, <2>1 DEF RowsOutlive, OncePerKey
  <2>2. CASE shared
    <3> DEFINE m == NextEffect
    <3>1. /\ DOMAIN effects' = DOMAIN effects \cup {m}
          /\ effects'[m].key = k /\ effects'[m].now = req[r].now
          /\ effects'[m].expires = req[r].now + Retention
          /\ \A i \in DOMAIN effects : effects'[i] = effects[i]
      <4>1. effects' = WithEffect(r) /\ m \in EffectIds
        BY <1>1, <2>2
      <4>2. /\ DOMAIN WithEffect(r) = DOMAIN effects \cup {m}
            /\ WithEffect(r)[m] = [key |-> k, hash |-> HashOf[r], now |-> req[r].now,
                                   expires |-> req[r].now + Retention]
            /\ \A i \in DOMAIN effects : WithEffect(r)[i] = effects[i]
        BY <4>1, WithEffectShape
      <4> HIDE DEF m, k
      <4> QED BY <4>1, <4>2
    <3>2. m \in Nat /\ \A i \in DOMAIN effects : i \in Nat /\ i < m
      BY EffectsShape
    \* The record that was there had expired, so every earlier mutation of the key had.
    <3>3. \A i \in DOMAIN effects :
            effects[i].key = k => effects[i].expires \in Nat /\ effects[i].expires <= req[r].now
      <4> SUFFICES ASSUME NEW i \in DOMAIN effects, effects[i].key = k
                   PROVE  effects[i].expires \in Nat /\ effects[i].expires <= req[r].now
        OBVIOUS
      <4>1. k \in DOMAIN rec /\ effects[i].expires <= rec[k].expires
        BY <2>2 DEF RowsOutlive
      <4>2. rec[k].expires <= req[r].now
        BY <1>3, <2>2, <4>1 DEF WorkersHold
      <4>3. effects[i].expires \in Nat /\ rec[k].expires \in Nat
        BY <4>1 DEF Effect, Record
      <4> QED BY <1>2, <4>1, <4>2, <4>3
    <3> HIDE DEF m, k
    <3>4. RowsOutlive'
      <4> SUFFICES ASSUME NEW i \in DOMAIN effects'
                   PROVE  /\ effects'[i].key \in DOMAIN rec'
                          /\ effects'[i].expires <= rec'[effects'[i].key].expires
        BY DEF RowsOutlive
      <4>1. CASE i = m
        BY <1>2, <1>5, <1>9, <3>1, <4>1
      <4>2. CASE i \in DOMAIN effects /\ effects[i].key = k
        <5>1. effects'[i].key = k /\ effects'[i].expires <= req[r].now /\ effects'[i].expires \in Nat
          BY <3>1, <3>3, <4>2
        <5>2. k \in DOMAIN rec' /\ rec'[k].expires = req[r].now + Retention
          BY <1>5, <1>9
        <5> QED BY <1>2, <5>1, <5>2
      <4>3. CASE i \in DOMAIN effects /\ effects[i].key # k
        <5>1. effects[i].key \in DOMAIN rec /\ effects[i].expires <= rec[effects[i].key].expires
          BY <2>2, <4>3 DEF RowsOutlive
        <5> QED BY <1>9, <3>1, <4>3, <5>1
      <4> QED BY <3>1, <4>1, <4>2, <4>3
    <3>5. OncePerKey'
      <4> SUFFICES ASSUME NEW i \in DOMAIN effects', NEW j \in DOMAIN effects',
                          i < j, effects'[i].key = effects'[j].key
                   PROVE  effects'[i].expires <= effects'[j].now
        BY DEF OncePerKey
      <4>1. i \in DOMAIN effects
        BY <3>1, <3>2
      <4>2. CASE j = m
        BY <3>1, <3>3, <4>1, <4>2
      <4>3. CASE j \in DOMAIN effects
        BY <2>2, <3>1, <4>1, <4>3 DEF OncePerKey
      <4> QED BY <3>1, <4>2, <4>3
    <3> QED BY <3>4, <3>5
  <2> QED BY <2>1, <2>2
<1> QED BY <1>12, <1>13, <1>14, <1>15, <1>16, <1>17, <1>18, <1>19, <1>20

LEMMA TickKeeps == IndInv /\ Tick => IndInv'
<1> SUFFICES ASSUME IndInv, Tick PROVE IndInv'
  OBVIOUS
<1> USE DEF IndInv, IdemTypeOK
<1>1. /\ clock \in Nat /\ clock' = clock + 1 /\ clock' \in 1..(MaxTime + 1)
      /\ UNCHANGED <<shared, rec, holder, req, effects, faults>>
  BY IdempotencyAssumption DEF Tick
<1>2. \A p \in Requests : req[p].now \in Nat /\ Lease \in Nat
  BY IdempotencyAssumption DEF RequestState
<1>3. IdemTypeOK'
  BY <1>1
<1>4. RequestsAreOld'
  BY <1>1, <1>2 DEF RequestsAreOld
<1>5. HoldersWork' /\ WorkersHold' /\ ClaimsAreShown'
  BY <1>1 DEF HoldersWork, WorkersHold, ClaimsAreShown, Working
<1>6. RowsAreAnswered' /\ RowsOutlive' /\ LeasesEndFirst' /\ OncePerKey'
  BY <1>1 DEF RowsAreAnswered, RowsOutlive, LeasesEndFirst, OncePerKey
<1>7. OneLiveClaim'
  <2>1. \A p \in Requests : AtWork(p)' => AtWork(p)
    BY <1>1, <1>2 DEF AtWork
  <2> QED BY <2>1 DEF OneLiveClaim
<1> QED BY <1>3, <1>4, <1>5, <1>6, <1>7

LEMMA InitInv == IdemInit => IndInv
<1> SUFFICES ASSUME IdemInit PROVE IndInv
  OBVIOUS
<1>1. /\ shared \in SharedSessions /\ rec = [k \in {} |-> 0]
      /\ holder = [k \in Keys |-> NoOne]
      /\ req = [r \in Requests |-> Unsent]
      /\ effects = [n \in {} |-> 0] /\ clock = 1 /\ faults = 0
  BY DEF IdemInit
<1>2. DOMAIN effects = {} /\ DOMAIN rec = {}
  BY <1>1
<1>3. \A p \in Requests : ~Working(p) /\ ~AtWork(p) /\ req[p].now = 0 /\ req[p].answer = NULL
                          /\ req[p].stage = "idle"
  BY <1>1, UnsentIsState DEF Working, AtWork
<1>4. IdemTypeOK
  <2>1. DOMAIN effects = 1..Cardinality(DOMAIN effects)
    BY <1>2, FS_EmptySet
  <2>2. MaxTime \in Nat /\ MaxFaults \in Nat
    BY IdempotencyAssumption
  <2>3. rec \in [DOMAIN rec -> Record] /\ effects \in [DOMAIN effects -> Effect]
    BY <1>1, <1>2
  <2>4. req \in [Requests -> RequestState]
    BY <1>1, UnsentIsState
  <2>5. \A k \in Keys : holder[k] = NoOne
    BY <1>1
  <2>6. \A p \in Requests : req[p].answer # NULL <=> req[p].stage = "answered"
    BY <1>3
  <2>7. clock \in 1..(MaxTime + 1) /\ faults \in 0..MaxFaults
    BY <1>1, <2>2
  <2> QED BY <1>1, <1>2, <2>1, <2>3, <2>4, <2>5, <2>6, <2>7 DEF IdemTypeOK
<1>5. RequestsAreOld /\ WorkersHold /\ ClaimsAreShown /\ OneLiveClaim
  BY <1>1, <1>3 DEF RequestsAreOld, WorkersHold, ClaimsAreShown, OneLiveClaim
<1>6. HoldersWork /\ RowsAreAnswered /\ RowsOutlive /\ LeasesEndFirst /\ OncePerKey
  BY <1>1, <1>2 DEF HoldersWork, RowsAreAnswered, RowsOutlive, LeasesEndFirst, OncePerKey
<1> QED BY <1>4, <1>5, <1>6 DEF IndInv

LEMMA StepInv == IndInv /\ [IdemNext]_idemVars => IndInv'
<1> SUFFICES ASSUME IndInv, [IdemNext]_idemVars PROVE IndInv'
  OBVIOUS
<1>1. ASSUME NEW r \in Requests, Send(r) \/ Handle(r) \/ LoseResponse(r) \/ Abort(r)
      PROVE  IndInv'
  <2>1. CASE Acquire(r)
    BY <2>1, AcquireKeeps
  <2>2. CASE Mutate(r)
    BY <2>2, MutateKeeps
  <2>3. CASE Complete(r)
    BY <2>3, CompleteKeeps
  <2>4. CASE Send(r) \/ LoseResponse(r) \/ Replay(r) \/ RefuseConflict(r)
             \/ RefuseInProgress(r) \/ ClaimLost(r) \/ Abort(r)
    BY <2>4, LeavingForms, LeavesKeeps
  <2> QED BY <1>1, <2>1, <2>2, <2>3, <2>4 DEF Handle
<1>2. CASE Tick
  BY <1>2, TickKeeps
<1>3. CASE UNCHANGED idemVars
  BY <1>3 DEF idemVars, IndInv, IdemTypeOK, RequestsAreOld, HoldersWork, RowsAreAnswered,
       WorkersHold, RowsOutlive, LeasesEndFirst, ClaimsAreShown, OneLiveClaim, OncePerKey,
       Working, AtWork
<1> QED BY <1>1, <1>2, <1>3 DEF IdemNext

-----------------------------------------------------------------------------
(***************************************************************************)
(* The answers.                                                            *)
(***************************************************************************)
\* A mutation is remembered with the time until which its record was to live.
EffectsTimed == \A n \in DOMAIN effects : effects[n].expires = effects[n].now + Retention

\* A stored response is the result of a mutation that the record names.
ResponsesTell ==
    \A k \in DOMAIN rec : LET n == rec[k].response IN n # NULL =>
        /\ n \in DOMAIN effects
        /\ effects[n].key = k /\ effects[n].hash = rec[k].hash
        /\ effects[n].expires = rec[k].expires

\* An answer is the stored response or the result of an earlier record, which had
\* expired when the present one was claimed.
AnswersOfRow(r) ==
    LET n == req[r].answer  row == rec[KeyOf[r]] IN
    /\ KeyOf[r] \in DOMAIN rec
    /\ row.response = NULL => effects[n].expires + Lease <= row.until
    /\ row.response # NULL => \/ n = row.response
                              \/ /\ n < row.response
                                 /\ effects[n].expires <= effects[row.response].now

\* In a session of its own, what a request has committed is its own, ...
ResultsAreOwn ==
    ~shared => \A r \in Requests : req[r].stage = "mutated" =>
        LET n == req[r].result IN
        /\ n \in DOMAIN effects
        /\ effects[n].key = KeyOf[r] /\ effects[n].hash = HashOf[r]
        /\ effects[n].now = req[r].now

\* ...and is later than every answer of the key as long as its claim is current.
ResultsAreNew ==
    ~shared => \A r, q \in Requests :
        (/\ req[r].stage = "mutated" /\ KeyOf[q] = KeyOf[r] /\ req[q].answer # NULL
         /\ KeyOf[r] \in DOMAIN rec
         /\ rec[KeyOf[r]].until = req[r].now + Lease /\ rec[KeyOf[r]].response = NULL)
            => req[q].answer < req[r].result

AnswersInv ==
    /\ EffectsTimed /\ ResponsesTell /\ ResultsAreOwn /\ ResultsAreNew
    /\ \A r \in Requests : req[r].answer # NULL => AnswersOfRow(r)
    /\ AnswersAgree

\* What there is to know of the numbers in the tables.
LEMMA AnswerForm ==
    ASSUME IndInv
    PROVE  /\ \A p \in Requests : /\ req[p].answer # NULL => req[p].answer \in Nat \ {0}
                                  /\ req[p].answer \in EffectIds <=> req[p].answer # NULL
                                  /\ req[p].now \in Nat /\ KeyOf[p] \in Keys
           /\ \A n \in DOMAIN effects : effects[n].now \in Nat /\ effects[n].expires \in Nat
           /\ \A k \in DOMAIN rec : /\ rec[k].until \in Nat /\ rec[k].expires \in Nat
                                    /\ rec[k].response \in EffectIds \cup {NULL}
                                    /\ rec[k].response # NULL => rec[k].response \in Nat \ {0}
           /\ Lease \in Nat \ {0} /\ Retention \in Nat /\ clock \in Nat
<1>1. EffectIds \subseteq Nat \ {0} /\ NULL = 0 /\ clock \in Nat
  BY IdempotencyAssumption DEF EffectIds, NULL, IndInv, IdemTypeOK
<1>2. \A p \in Requests : req[p].answer \in EffectIds \cup {NULL} /\ req[p].now \in Nat
                          /\ KeyOf[p] \in Keys
  BY IdempotencyAssumption DEF IndInv, IdemTypeOK, RequestState
<1>3. \A n \in DOMAIN effects : effects[n].now \in Nat /\ effects[n].expires \in Nat
  BY DEF IndInv, IdemTypeOK, Effect
<1>4. \A k \in DOMAIN rec : /\ rec[k].until \in Nat /\ rec[k].expires \in Nat
                            /\ rec[k].response \in EffectIds \cup {NULL}
  BY DEF IndInv, IdemTypeOK, Record
<1> QED BY <1>1, <1>2, <1>3, <1>4, IdempotencyAssumption

\* A new answer, if any, is the stored response of its row, and nobody gets ahead.
Quiet ==
    /\ UNCHANGED <<shared, rec, effects>>
    /\ \A p \in Requests :
         /\ \/ req'[p].answer \in {req[p].answer, NULL}
            \/ /\ KeyOf[p] \in DOMAIN rec /\ rec[KeyOf[p]].response # NULL
               /\ req'[p].answer = rec[KeyOf[p]].response
               /\ rec[KeyOf[p]].hash = HashOf[p]
         /\ (~shared /\ req'[p].stage = "mutated") => req'[p] = req[p]

LEMMA QuietKeepsAnswers ==
    ASSUME IndInv, IndInv', AnswersInv, Quiet
    PROVE  AnswersInv'
<1> DEFINE Answered(p) == /\ KeyOf[p] \in DOMAIN rec /\ rec[KeyOf[p]].response # NULL
                          /\ req'[p].answer = rec[KeyOf[p]].response
                          /\ rec[KeyOf[p]].hash = HashOf[p]
           Same(p) == req'[p].answer = req[p].answer
<1>1. UNCHANGED <<shared, rec, effects>>
  BY DEF Quiet
<1>2. \A p \in Requests : req'[p].answer # NULL => Same(p) \/ Answered(p)
  BY DEF Quiet
<1>3. EffectsTimed' /\ ResponsesTell'
  BY <1>1 DEF AnswersInv, EffectsTimed, ResponsesTell
<1>4. ResultsAreOwn'
  BY <1>1 DEF AnswersInv, ResultsAreOwn, Quiet
<1>5. ResultsAreNew'
  <2> SUFFICES ASSUME ~shared, NEW r \in Requests, NEW q \in Requests,
                      req'[r].stage = "mutated", KeyOf[q] = KeyOf[r], req'[q].answer # NULL,
                      KeyOf[r] \in DOMAIN rec, rec[KeyOf[r]].until = req'[r].now + Lease,
                      rec[KeyOf[r]].response = NULL
               PROVE  req'[q].answer < req'[r].result
    BY <1>1 DEF ResultsAreNew
  <2>1. req'[r] = req[r]
    BY DEF Quiet
  <2>2. Same(q)
    BY <1>2
  <2> QED BY <2>1, <2>2 DEF AnswersInv, ResultsAreNew
<1>6. \A r \in Requests : req'[r].answer # NULL => AnswersOfRow(r)'
  <2> SUFFICES ASSUME NEW r \in Requests, req'[r].answer # NULL PROVE AnswersOfRow(r)'
    OBVIOUS
  <2>1. CASE Same(r)
    BY <1>1, <2>1 DEF AnswersInv, AnswersOfRow
  <2>2. CASE Answered(r)
    BY <1>1, <2>2 DEF AnswersOfRow
  <2> QED BY <1>2, <2>1, <2>2
<1>7. \A r \in Requests : req'[r].answer # NULL =>
        /\ req'[r].answer \in DOMAIN effects
        /\ effects[req'[r].answer].key = KeyOf[r]
        /\ effects[req'[r].answer].hash = HashOf[r]
  <2> SUFFICES ASSUME NEW r \in Requests, req'[r].answer # NULL
               PROVE  /\ req'[r].answer \in DOMAIN effects
                      /\ effects[req'[r].answer].key = KeyOf[r]
                      /\ effects[req'[r].answer].hash = HashOf[r]
    OBVIOUS
  <2>1. CASE Same(r)
    BY <2>1 DEF AnswersInv, AnswersAgree
  <2>2. CASE Answered(r)
    BY <2>2 DEF AnswersInv, ResponsesTell
  <2> QED BY <1>2, <2>1, <2>2
<1>8. ASSUME NEW r \in Requests, NEW q \in Requests, KeyOf[r] = KeyOf[q],
             req'[r].answer # NULL, req'[q].answer # NULL, req'[r].answer < req'[q].answer
      PROVE  effects[req'[r].answer].expires <= effects[req'[q].answer].now
  <2>1. CASE Same(r) /\ Same(q)
    BY <1>8, <2>1, AnswerForm DEF AnswersInv, AnswersAgree
  <2>2. CASE Same(r) /\ Answered(q)
    <3>1. AnswersOfRow(r)
      BY <1>8, <2>2 DEF AnswersInv
    <3>2. req[r].answer # rec[KeyOf[r]].response
      BY <1>8, <2>2, AnswerForm
    <3> QED BY <1>8, <2>2, <3>1, <3>2 DEF AnswersOfRow
  <2>3. CASE Answered(r) /\ Same(q)
    <3>1. AnswersOfRow(q)
      BY <1>8, <2>3 DEF AnswersInv
    <3>2. req[q].answer \in Nat /\ rec[KeyOf[q]].response \in Nat
      BY <1>8, <2>3, AnswerForm
    <3>3. req[q].answer <= rec[KeyOf[q]].response
      BY <1>8, <2>3, <3>1, <3>2 DEF AnswersOfRow
    <3> QED BY <1>8, <2>3, <3>2, <3>3
  <2>4. CASE Answered(r) /\ Answered(q)
    BY <1>8, <2>4, AnswerForm
  <2> QED BY <1>2, <1>8, <2>1, <2>2, <2>3, <2>4
<1>9. AnswersAgree'
  <2>1. \A r \in Requests : req'[r].answer \in EffectIds => req'[r].answer # NULL
    BY AnswerForm DEF EffectIds, NULL
  <2> HIDE DEF Same, Answered
  <2> QED BY <1>1, <1>7, <1>8, <2>1 DEF AnswersAgree
<1> QED BY <1>3, <1>4, <1>5, <1>6, <1>9 DEF AnswersInv

LEMMA QuietSteps ==
    ASSUME IndInv, [IdemNext]_idemVars,
           \A r \in Requests : ~Complete(r) /\ (Acquire(r) \/ Mutate(r) => shared)
    PROVE  Quiet
<1> USE DEF IndInv, IdemTypeOK
<1>1. CASE UNCHANGED idemVars \/ Tick
  BY <1>1 DEF idemVars, Tick, Quiet
<1>2. ASSUME NEW r \in Requests,
             Send(r) \/ LoseResponse(r) \/ RefuseInProgress(r) \/ ClaimLost(r) \/ Abort(r)
      PROVE  Quiet
  <2>1. /\ UNCHANGED <<shared, rec, effects>>
        /\ \/ req' = [req EXCEPT ![r] = Unsent]
           \/ req' = [req EXCEPT ![r] = [Unsent EXCEPT !.stage = "sent", !.now = clock]]
    BY <1>2 DEF Send, LoseResponse, RefuseInProgress, ClaimLost, Abort
  <2>2. req'[r].answer = NULL /\ req'[r].stage # "mutated"
    <3> DEFINE sent == [Unsent EXCEPT !.stage = "sent", !.now = clock]
    <3>1. /\ Unsent.answer = NULL /\ Unsent.stage # "mutated"
          /\ sent.answer = NULL /\ sent.stage # "mutated"
      BY DEF Unsent
    <3>2. req' = [req EXCEPT ![r] = Unsent] \/ req' = [req EXCEPT ![r] = sent]
      BY <2>1
    <3> HIDE DEF sent
    <3> QED BY <3>1, <3>2
  <2>3. \A p \in Requests \ {r} : req'[p] = req[p]
    BY <2>1
  <2> QED BY <2>1, <2>2, <2>3 DEF Quiet
<1>3. ASSUME NEW r \in Requests, RefuseConflict(r) \/ (shared /\ (Acquire(r) \/ Mutate(r)))
      PROVE  Quiet
  <2>1. PICK stage \in {"refused", "claimed", "mutated"} :
          /\ UNCHANGED <<shared, rec, effects>> /\ req' = At(r, stage)
          /\ stage = "mutated" => shared
    <3>1. CASE RefuseConflict(r)
      BY <3>1 DEF RefuseConflict
    <3>2. CASE shared /\ Acquire(r)
      BY <3>2 DEF Acquire
    <3>3. CASE shared /\ Mutate(r)
      BY <3>3 DEF Mutate
    <3> QED BY <1>3, <3>1, <3>2, <3>3
  <2>2. req'[r].answer = req[r].answer /\ req'[r].stage = stage
    BY <2>1 DEF At, RequestState
  <2>3. \A p \in Requests \ {r} : req'[p] = req[p]
    BY <2>1 DEF At
  <2> QED BY <2>1, <2>2, <2>3 DEF Quiet
<1>4. ASSUME NEW r \in Requests, Replay(r)
      PROVE  Quiet
  <2>1. /\ UNCHANGED <<shared, rec, effects>>
        /\ req' = [req EXCEPT ![r] = [@ EXCEPT !.stage = "answered",
                                               !.answer = rec[KeyOf[r]].response]]
        /\ KeyOf[r] \in DOMAIN rec /\ rec[KeyOf[r]].response # NULL
        /\ rec[KeyOf[r]].hash = HashOf[r]
    BY <1>4 DEF Replay, Granted, Found, Completed, Conflicts
  <2>2. req'[r].answer = rec[KeyOf[r]].response /\ req'[r].stage = "answered"
    BY <2>1 DEF RequestState
  <2>3. \A p \in Requests \ {r} : req'[p] = req[p]
    BY <2>1
  <2> QED BY <2>1, <2>2, <2>3 DEF Quiet
<1> QED BY <1>1, <1>2, <1>3, <1>4 DEF IdemNext, Handle


\* A claim in a session of its own is made over a row that has expired, or whose
\* lease has ended: what was answered under it is over by now.
LEMMA ClaimKeepsAnswers ==
    ASSUME IndInv, IndInv', AnswersInv, NEW r \in Requests, Acquire(r), ~shared
    PROVE  AnswersInv' /\ ResponseStep
<1> DEFINE k == KeyOf[r]
           row == Claimed(r, NULL)
<1>1. /\ UNCHANGED <<shared, effects, clock>> /\ req' = At(r, "claimed")
      /\ rec' = WithRow(k, row) /\ Granted(r) /\ req[r].stage = "sent"
  BY DEF Acquire, Ready
<1>2. /\ row.response = NULL /\ row.until = req[r].now + Lease
  BY DEF Claimed
<1>3. DOMAIN rec' = DOMAIN rec \cup {k}
      /\ \A j \in DOMAIN rec' : rec'[j] = (IF j = k THEN row ELSE rec[j])
  BY <1>1 DEF WithRow
<1>4. /\ \A p \in Requests : req'[p].answer = req[p].answer
      /\ \A p \in Requests \ {r} : req'[p] = req[p]
      /\ req'[r].stage = "claimed"
  BY <1>1 DEF At, IndInv, IdemTypeOK, RequestState
<1>5. k \in DOMAIN rec =>
        /\ rec[k].until <= req[r].now
        /\ rec[k].response # NULL => rec[k].expires <= req[r].now
  <2> SUFFICES ASSUME k \in DOMAIN rec
               PROVE  /\ rec[k].until <= req[r].now
                      /\ rec[k].response # NULL => rec[k].expires <= req[r].now
    OBVIOUS
  <2>1. /\ rec[k].until \in Nat /\ rec[k].expires \in Nat /\ req[r].now \in Nat
        /\ rec[k].until <= rec[k].expires
    BY AnswerForm DEF IndInv, LeasesEndFirst
  <2>2. CASE Expired(r)
    BY <2>1, <2>2 DEF Expired
  <2>3. CASE ~Completed(r) /\ ~InProgress(r)
    BY <2>1, <2>3 DEF Completed, InProgress
  <2> QED BY <1>1, <2>2, <2>3 DEF Granted, Found
<1>6. req[r].now \in Nat /\ req[r].now <= clock /\ clock \in Nat /\ Lease \in Nat \ {0}
  BY AnswerForm DEF IndInv, RequestsAreOld
<1> HIDE DEF k, row
<1>7. EffectsTimed'
  BY <1>1 DEF AnswersInv, EffectsTimed
<1>8. ResponsesTell'
  BY <1>1, <1>2, <1>3 DEF AnswersInv, ResponsesTell
<1>9. ResultsAreOwn'
  BY <1>1, <1>4 DEF AnswersInv, ResultsAreOwn
<1>10. ResultsAreNew'
  <2> SUFFICES ASSUME NEW p \in Requests, NEW q \in Requests,
                      req'[p].stage = "mutated", KeyOf[q] = KeyOf[p], req'[q].answer # NULL,
                      KeyOf[p] \in DOMAIN rec',
                      rec'[KeyOf[p]].until = req'[p].now + Lease, rec'[KeyOf[p]].response = NULL
               PROVE  req'[q].answer < req'[p].result
    BY DEF ResultsAreNew
  <2>1. p # r /\ req'[p] = req[p] /\ Working(p)
    BY <1>4 DEF Working
  <2>2. KeyOf[p] \in DOMAIN rec /\ req[p].now + Lease <= rec[KeyOf[p]].until
    BY <2>1 DEF IndInv, ClaimsAreShown
  <2>3. KeyOf[p] # k
    <3>1. SUFFICES ASSUME KeyOf[p] = k PROVE FALSE
      OBVIOUS
    <3>2. rec'[k].until = req[r].now + Lease
      BY <1>2, <1>3
    <3>3. req[p].now \in Nat /\ rec[k].until \in Nat /\ rec[k].until <= req[r].now
      BY <1>5, <2>2, <3>1, AnswerForm
    <3> QED BY <1>6, <2>1, <2>2, <3>1, <3>2, <3>3
  <2>4. rec'[KeyOf[p]] = rec[KeyOf[p]]
    BY <1>3, <2>2, <2>3
  <2> QED BY <1>4, <2>1, <2>2, <2>4 DEF AnswersInv, ResultsAreNew
<1>11. ASSUME NEW p \in Requests, req'[p].answer # NULL
       PROVE  AnswersOfRow(p)'
  <2>1. AnswersOfRow(p) /\ req'[p].answer = req[p].answer /\ req[p].answer # NULL
    BY <1>4, <1>11 DEF AnswersInv
  <2>2. CASE KeyOf[p] # k
    BY <1>1, <1>3, <2>1, <2>2 DEF AnswersOfRow
  <2>3. CASE KeyOf[p] = k
    <3> DEFINE n == req[p].answer
    <3>1. k \in DOMAIN rec /\ n \in DOMAIN effects
      BY <2>1, <2>3 DEF AnswersOfRow, AnswersInv, AnswersAgree
    <3>2. effects[n].expires \in Nat /\ rec[k].until \in Nat /\ rec[k].expires \in Nat
      BY <3>1, AnswerForm
    <3>3. effects[n].expires <= req[r].now
      <4>1. CASE rec[k].response = NULL
        BY <1>5, <1>6, <2>1, <2>3, <3>1, <3>2, <4>1 DEF AnswersOfRow
      <4>2. CASE rec[k].response # NULL
        <5> DEFINE m == rec[k].response
        <5>1. /\ m \in DOMAIN effects /\ effects[m].expires = rec[k].expires
              /\ effects[m].expires = effects[m].now + Retention
          BY <3>1, <4>2 DEF AnswersInv, ResponsesTell, EffectsTimed
        <5>2. effects[m].now \in Nat /\ Retention \in Nat
          BY <5>1, AnswerForm
        <5>3. rec[k].expires <= req[r].now
          BY <1>5, <3>1, <4>2
        <5>4. n = m \/ effects[n].expires <= effects[m].now
          BY <2>1, <2>3, <4>2 DEF AnswersOfRow
        <5> HIDE DEF n, m
        <5> QED BY <1>6, <3>2, <5>1, <5>2, <5>3, <5>4
      <4> QED BY <4>1, <4>2
    <3>4. k \in DOMAIN rec' /\ rec'[k].response = NULL /\ rec'[k].until = req[r].now + Lease
      BY <1>2, <1>3
    <3>5. effects'[n].expires + Lease <= rec'[k].until
      BY <1>1, <1>6, <3>2, <3>3, <3>4
    <3> QED BY <2>1, <2>3, <3>4, <3>5 DEF AnswersOfRow
  <2> QED BY <2>2, <2>3
<1>12. AnswersAgree'
  BY <1>1, <1>4 DEF AnswersInv, AnswersAgree
<1>13. ResponseStep
  <2> SUFFICES ASSUME NEW j \in DOMAIN rec, rec[j].response # NULL
               PROVE  rec'[j].response = rec[j].response \/ rec[j].expires <= clock
    BY DEF ResponseStep
  <2>1. CASE j # k
    BY <1>3, <2>1
  <2>2. CASE j = k
    BY <1>5, <1>6, <2>2, AnswerForm
  <2> QED BY <2>1, <2>2
<1> QED BY <1>7, <1>8, <1>9, <1>10, <1>11, <1>12, <1>13 DEF AnswersInv

\* A mutation that is committed by itself is later than everything answered.
LEMMA MutationKeepsAnswers ==
    ASSUME IndInv, IndInv', AnswersInv, NEW r \in Requests, Mutate(r), ~shared
    PROVE  AnswersInv'
<1> DEFINE m == NextEffect
<1>1. /\ UNCHANGED <<shared, rec, clock>> /\ effects' = WithEffect(r) /\ m \in EffectIds
      /\ req' = [req EXCEPT ![r] = [@ EXCEPT !.stage = "mutated", !.result = m]]
  BY DEF Mutate
<1>2. /\ \A p \in Requests : req'[p].answer = req[p].answer
      /\ \A p \in Requests \ {r} : req'[p] = req[p]
      /\ req'[r].result = m /\ req'[r].now = req[r].now
  BY <1>1 DEF IndInv, IdemTypeOK, RequestState
<1>3. /\ DOMAIN effects' = DOMAIN effects \cup {m}
      /\ effects'[m] = [key |-> KeyOf[r], hash |-> HashOf[r], now |-> req[r].now,
                        expires |-> req[r].now + Retention]
      /\ \A i \in DOMAIN effects : effects'[i] = effects[i]
  BY <1>1, WithEffectShape
<1>4. \A i \in DOMAIN effects : i \in Nat /\ i < m
  BY EffectsShape DEF IndInv
<1>5. \A p \in Requests : req[p].answer # NULL => req[p].answer \in DOMAIN effects
  BY DEF AnswersInv, AnswersAgree
<1>6. \A k \in DOMAIN rec : rec[k].response # NULL => rec[k].response \in DOMAIN effects
  BY DEF AnswersInv, ResponsesTell
<1> HIDE DEF m
<1>7. EffectsTimed'
  BY <1>3 DEF AnswersInv, EffectsTimed
<1>8. ResponsesTell'
  BY <1>1, <1>3, <1>6 DEF AnswersInv, ResponsesTell
<1>9. ResultsAreOwn'
  <2> SUFFICES ASSUME NEW p \in Requests, req'[p].stage = "mutated"
               PROVE  LET n == req'[p].result IN
                      /\ n \in DOMAIN effects'
                      /\ effects'[n].key = KeyOf[p] /\ effects'[n].hash = HashOf[p]
                      /\ effects'[n].now = req'[p].now
    BY DEF ResultsAreOwn
  <2>1. CASE p = r
    BY <1>2, <1>3, <2>1
  <2>2. CASE p # r
    BY <1>2, <1>3, <2>2 DEF AnswersInv, ResultsAreOwn
  <2> QED BY <2>1, <2>2
<1>10. ResultsAreNew'
  <2> SUFFICES ASSUME NEW p \in Requests, NEW q \in Requests,
                      req'[p].stage = "mutated", KeyOf[q] = KeyOf[p], req'[q].answer # NULL,
                      KeyOf[p] \in DOMAIN rec,
                      rec[KeyOf[p]].until = req'[p].now + Lease, rec[KeyOf[p]].response = NULL
               PROVE  req'[q].answer < req'[p].result
    BY <1>1 DEF ResultsAreNew
  <2>1. CASE p = r
    BY <1>2, <1>4, <1>5, <2>1
  <2>2. CASE p # r
    BY <1>2, <2>2 DEF AnswersInv, ResultsAreNew
  <2> QED BY <2>1, <2>2
<1>11. ASSUME NEW p \in Requests, req'[p].answer # NULL
       PROVE  AnswersOfRow(p)'
  <2>1. AnswersOfRow(p) /\ req'[p].answer = req[p].answer /\ req[p].answer \in DOMAIN effects
    BY <1>2, <1>5, <1>11 DEF AnswersInv
  <2> QED BY <1>1, <1>3, <1>6, <2>1 DEF AnswersOfRow
<1>12. AnswersAgree'
  <2>1. \A p \in Requests : req[p].answer \in EffectIds => req[p].answer \in DOMAIN effects
    BY <1>5, AnswerForm
  <2>2. \A p \in Requests : req'[p].answer # NULL =>
          /\ req'[p].answer \in DOMAIN effects'
          /\ effects'[req'[p].answer].key = KeyOf[p]
          /\ effects'[req'[p].answer].hash = HashOf[p]
    BY <1>2, <1>3, <1>5 DEF AnswersInv, AnswersAgree
  <2>3. ASSUME NEW p \in Requests, NEW q \in Requests, KeyOf[p] = KeyOf[q],
               {req'[p].answer, req'[q].answer} \subseteq EffectIds,
               req'[p].answer < req'[q].answer
        PROVE  effects'[req'[p].answer].expires <= effects'[req'[q].answer].now
    <3>1. effects'[req[p].answer] = effects[req[p].answer]
          /\ effects'[req[q].answer] = effects[req[q].answer]
      BY <1>2, <1>3, <2>1, <2>3
    <3> QED BY <1>2, <2>3, <3>1 DEF AnswersInv, AnswersAgree
  <2> QED BY <2>2, <2>3 DEF AnswersAgree
<1> QED BY <1>7, <1>8, <1>9, <1>10, <1>11, <1>12 DEF AnswersInv


\* What is stored is a later mutation than every answer of the key, whose records
\* had expired by then.
LEMMA CompletionKeepsAnswers ==
    ASSUME IndInv, IndInv', AnswersInv, NEW r \in Requests, Complete(r)
    PROVE  AnswersInv' /\ ResponseStep
<1> DEFINE k == KeyOf[r]
           n == IF shared THEN NextEffect ELSE req[r].result
           row == Claimed(r, n)
<1>1. /\ UNCHANGED <<shared, clock>> /\ effects' = IF shared THEN WithEffect(r) ELSE effects
      /\ rec' = WithRow(k, row) /\ n \in EffectIds
      /\ req' = [req EXCEPT ![r] = [@ EXCEPT !.stage = "answered", !.answer = n]]
      /\ req[r].stage = "mutated" /\ ClaimCurrent(r)
  BY DEF Complete
<1>2. /\ row.response = n /\ row.hash = HashOf[r] /\ row.until = req[r].now + Lease
      /\ row.expires = req[r].now + Retention
  BY DEF Claimed
<1>3. DOMAIN rec' = DOMAIN rec \cup {k}
      /\ \A j \in DOMAIN rec' : rec'[j] = (IF j = k THEN row ELSE rec[j])
  BY <1>1 DEF WithRow
<1>4. /\ \A p \in Requests \ {r} : req'[p] = req[p]
      /\ req'[r].answer = n /\ req'[r].stage = "answered"
  BY <1>1 DEF IndInv, IdemTypeOK, RequestState
<1>5. n \in Nat \ {0} /\ n # NULL
  BY <1>1, IdempotencyAssumption DEF EffectIds, NULL
<1>6. req[r].now \in Nat /\ req[r].now <= clock /\ clock \in Nat /\ Working(r)
  BY <1>1, AnswerForm DEF IndInv, RequestsAreOld, Working
<1>7. \A p \in Requests : req[p].answer # NULL => req[p].answer \in DOMAIN effects
  BY DEF AnswersInv, AnswersAgree
<1>8. \A j \in DOMAIN rec : rec[j].response # NULL => rec[j].response \in DOMAIN effects
  BY DEF AnswersInv, ResponsesTell
<1>9. /\ DOMAIN effects' = DOMAIN effects \cup {n}
      /\ effects'[n].key = k /\ effects'[n].hash = HashOf[r]
      /\ effects'[n].now = req[r].now /\ effects'[n].expires = req[r].now + Retention
      /\ \A i \in DOMAIN effects : effects'[i] = effects[i]
  <2>1. CASE shared
    <3>1. n = NextEffect /\ effects' = WithEffect(r)
      BY <1>1, <2>1
    <3>2. /\ DOMAIN WithEffect(r) = DOMAIN effects \cup {NextEffect}
          /\ WithEffect(r)[NextEffect] = [key |-> KeyOf[r], hash |-> HashOf[r],
                                          now |-> req[r].now, expires |-> req[r].now + Retention]
          /\ \A i \in DOMAIN effects : WithEffect(r)[i] = effects[i]
      BY <1>1, <3>1, WithEffectShape
    <3> HIDE DEF n
    <3> QED BY <3>1, <3>2
  <2>2. CASE ~shared
    <3>1. effects' = effects /\ n = req[r].result
      BY <1>1, <2>2
    <3> HIDE DEF n
    <3>2. /\ n \in DOMAIN effects
          /\ effects[n].key = k /\ effects[n].hash = HashOf[r] /\ effects[n].now = req[r].now
      BY <1>1, <2>2, <3>1 DEF AnswersInv, ResultsAreOwn
    <3>3. effects[n].expires = effects[n].now + Retention
      BY <3>2 DEF AnswersInv, EffectsTimed
    <3> QED BY <3>1, <3>2, <3>3
  <2> QED BY <2>1, <2>2
<1>10. ~shared => /\ k \in DOMAIN rec /\ rec[k].until = req[r].now + Lease
                  /\ rec[k].response = NULL
  BY <1>1, <1>6 DEF ClaimCurrent, IndInv, ClaimsAreShown
<1>11. (shared /\ k \in DOMAIN rec) => rec[k].expires <= req[r].now
  BY <1>6 DEF IndInv, WorkersHold
<1>12. ASSUME NEW q \in Requests, KeyOf[q] = k, req[q].answer # NULL
       PROVE  req[q].answer < n /\ effects[req[q].answer].expires <= req[r].now
  <2> DEFINE a == req[q].answer
  <2>1. a \in DOMAIN effects /\ effects[a].key = k
    BY <1>12 DEF AnswersInv, AnswersAgree
  <2>2. effects[a].expires \in Nat
    BY <2>1, AnswerForm
  <2>3. CASE shared
    <3>1. a < n
      BY <2>1, <2>3, EffectsShape DEF IndInv
    <3>2. k \in DOMAIN rec /\ effects[a].expires <= rec[k].expires
      BY <2>1, <2>3 DEF IndInv, RowsOutlive
    <3>3. rec[k].expires \in Nat /\ rec[k].expires <= req[r].now
      BY <1>11, <2>3, <3>2, AnswerForm
    <3> HIDE DEF a, n
    <3> QED BY <1>6, <2>2, <3>1, <3>2, <3>3 DEF a
  <2>4. CASE ~shared
    <3>1. a < n
      BY <1>1, <1>10, <1>12, <2>4 DEF AnswersInv, ResultsAreNew
    <3>2. effects[a].expires + Lease <= rec[k].until
      BY <1>10, <1>12, <2>4 DEF AnswersInv, AnswersOfRow
    <3>3. Lease \in Nat
      BY AnswerForm
    <3> HIDE DEF a, n
    <3> QED BY <1>6, <1>10, <2>2, <2>4, <3>1, <3>2, <3>3 DEF a
  <2> QED BY <2>3, <2>4
<1> HIDE DEF k, n, row
<1>13. EffectsTimed'
  BY <1>9 DEF AnswersInv, EffectsTimed
<1>14. ResponsesTell'
  <2> SUFFICES ASSUME NEW j \in DOMAIN rec', rec'[j].response # NULL
               PROVE  LET m == rec'[j].response IN
                      /\ m \in DOMAIN effects'
                      /\ effects'[m].key = j /\ effects'[m].hash = rec'[j].hash
                      /\ effects'[m].expires = rec'[j].expires
    BY DEF ResponsesTell
  <2>1. CASE j = k
    BY <1>2, <1>3, <1>9, <2>1
  <2>2. CASE j # k
    BY <1>3, <1>8, <1>9, <2>2 DEF AnswersInv, ResponsesTell
  <2> QED BY <2>1, <2>2
<1>15. ResultsAreOwn'
  <2> SUFFICES ASSUME ~shared, NEW p \in Requests, req'[p].stage = "mutated"
               PROVE  LET m == req'[p].result IN
                      /\ m \in DOMAIN effects'
                      /\ effects'[m].key = KeyOf[p] /\ effects'[m].hash = HashOf[p]
                      /\ effects'[m].now = req'[p].now
    BY <1>1 DEF ResultsAreOwn
  <2>1. p # r /\ req'[p] = req[p]
    BY <1>4
  <2> QED BY <1>9, <2>1 DEF AnswersInv, ResultsAreOwn
<1>16. ResultsAreNew'
  <2> SUFFICES ASSUME ~shared, NEW p \in Requests, NEW q \in Requests,
                      req'[p].stage = "mutated", KeyOf[q] = KeyOf[p], req'[q].answer # NULL,
                      KeyOf[p] \in DOMAIN rec',
                      rec'[KeyOf[p]].until = req'[p].now + Lease, rec'[KeyOf[p]].response = NULL
               PROVE  req'[q].answer < req'[p].result
    BY <1>1 DEF ResultsAreNew
  <2>1. KeyOf[p] # k
    BY <1>2, <1>3, <1>5
  <2>2. p # r /\ q # r /\ req'[p] = req[p] /\ req'[q] = req[q]
    BY <1>4, <2>1 DEF k
  <2> QED BY <1>3, <2>1, <2>2 DEF AnswersInv, ResultsAreNew
<1>17. ASSUME NEW p \in Requests, req'[p].answer # NULL
       PROVE  AnswersOfRow(p)'
  <2>1. CASE p = r
    BY <1>2, <1>3, <1>4, <1>5, <2>1 DEF AnswersOfRow, k
  <2>2. CASE p # r /\ KeyOf[p] = k
    <3>1. /\ k \in DOMAIN rec' /\ rec'[k].response = n
          /\ req'[p].answer = req[p].answer /\ req[p].answer \in DOMAIN effects
      BY <1>2, <1>3, <1>4, <1>7, <1>17, <2>2
    <3>2. req[p].answer < n /\ effects'[req[p].answer].expires <= effects'[n].now
      BY <1>9, <1>12, <1>17, <2>2, <3>1
    <3> QED BY <1>5, <2>2, <3>1, <3>2 DEF AnswersOfRow
  <2>3. CASE p # r /\ KeyOf[p] # k
    <3>1. AnswersOfRow(p) /\ req'[p].answer = req[p].answer /\ req[p].answer \in DOMAIN effects
      BY <1>4, <1>7, <1>17, <2>3 DEF AnswersInv
    <3>2. KeyOf[p] \in DOMAIN rec /\ KeyOf[p] \in DOMAIN rec' /\ rec'[KeyOf[p]] = rec[KeyOf[p]]
      BY <1>3, <2>3, <3>1 DEF AnswersOfRow
    <3> QED BY <1>8, <1>9, <3>1, <3>2 DEF AnswersOfRow
  <2> QED BY <2>1, <2>2, <2>3
<1>18. AnswersAgree'
  <2>1. \A p \in Requests : req'[p].answer # NULL =>
          /\ req'[p].answer \in DOMAIN effects'
          /\ effects'[req'[p].answer].key = KeyOf[p]
          /\ effects'[req'[p].answer].hash = HashOf[p]
    BY <1>4, <1>7, <1>9 DEF AnswersInv, AnswersAgree, k
  <2>2. ASSUME NEW p \in Requests, NEW q \in Requests, KeyOf[p] = KeyOf[q],
               {req'[p].answer, req'[q].answer} \subseteq EffectIds,
               req'[p].answer < req'[q].answer
        PROVE  effects'[req'[p].answer].expires <= effects'[req'[q].answer].now
    <3>1. \A o \in Requests \ {r} : req'[o].answer \in EffectIds =>
            /\ req'[o].answer = req[o].answer /\ req[o].answer # NULL
            /\ req[o].answer \in DOMAIN effects
            /\ effects'[req[o].answer] = effects[req[o].answer]
      BY <1>4, <1>7, <1>9, AnswerForm
    <3>2. CASE p # r /\ q # r
      BY <2>2, <3>1, <3>2 DEF AnswersInv, AnswersAgree
    <3>3. CASE p # r /\ q = r
      BY <1>4, <1>9, <1>12, <2>2, <3>1, <3>3 DEF k
    <3>4. CASE p = r
      <4>1. q # r
        BY <1>4, <1>5, <2>2, <3>4
      <4>2. req[q].answer < n /\ n < req[q].answer /\ req[q].answer \in Nat
        BY <1>4, <1>12, <2>2, <3>1, <3>4, <4>1, AnswerForm DEF k
      <4> QED BY <1>5, <4>2
    <3> QED BY <3>2, <3>3, <3>4
  <2> QED BY <2>1, <2>2 DEF AnswersAgree
<1>19. ResponseStep
  <2> SUFFICES ASSUME NEW j \in DOMAIN rec, rec[j].response # NULL
               PROVE  rec'[j].response = rec[j].response \/ rec[j].expires <= clock
    BY DEF ResponseStep
  <2>1. CASE j # k
    BY <1>3, <2>1
  <2>2. CASE j = k
    <3>1. shared /\ rec[j].expires <= req[r].now /\ rec[j].expires \in Nat
      BY <1>10, <1>11, <2>2, AnswerForm
    <3> QED BY <1>6, <3>1
  <2> QED BY <2>1, <2>2
<1> QED BY <1>13, <1>14, <1>15, <1>16, <1>17, <1>18, <1>19 DEF AnswersInv

LEMMA AnswersInvInit == IdemInit => AnswersInv
<1> SUFFICES ASSUME IdemInit PROVE AnswersInv
  OBVIOUS
<1>1. DOMAIN rec = {} /\ DOMAIN effects = {}
  BY DEF IdemInit
<1>2. \A p \in Requests : req[p].answer = NULL /\ req[p].answer \notin EffectIds
                          /\ req[p].stage = "idle"
  BY UnsentIsState DEF IdemInit, EffectIds, NULL
<1> QED BY <1>1, <1>2 DEF AnswersInv, EffectsTimed, ResponsesTell, ResultsAreOwn, ResultsAreNew,
         AnswersAgree

LEMMA AnswersStep ==
    ASSUME IndInv, IndInv', AnswersInv, [IdemNext]_idemVars
    PROVE  AnswersInv' /\ ResponseStep
<1>1. CASE \E r \in Requests : Complete(r)
  BY <1>1, CompletionKeepsAnswers
<1>2. CASE ~shared /\ \E r \in Requests : Acquire(r)
  BY <1>2, ClaimKeepsAnswers
<1>3. CASE ~shared /\ \E r \in Requests : Mutate(r)
  <2>1. rec' = rec
    BY <1>3 DEF Mutate
  <2> QED BY <1>3, <2>1, MutationKeepsAnswers DEF ResponseStep
<1>4. CASE \A r \in Requests : ~Complete(r) /\ (Acquire(r) \/ Mutate(r) => shared)
  <2>1. Quiet
    BY <1>4, QuietSteps
  <2> QED BY <2>1, QuietKeepsAnswers DEF Quiet, ResponseStep
<1> QED BY <1>1, <1>2, <1>3, <1>4

-----------------------------------------------------------------------------
LEMMA Invariant == IdemSpec => []IndInv
<1> QED BY InitInv, StepInv, PTL DEF IdemSpec

\* Two requests never work on one key under living leases, and the table, its
\* locks and the requests agree on who does: whatever the sets of requests and
\* keys, the lease and the retention, in the routes' shared sessions and in
\* sessions that acquire and complete open of their own.
THEOREM OneLeaseAtATime == IdemSpec => []IdemInv
<1>1. IndInv => IdemInv
  BY DEF IndInv, IdemInv
<1> QED BY <1>1, Invariant, PTL

\* The routes commit a mutation once while the record of its key lives, through
\* every order of retries, aborted transactions and lost claims.
THEOREM CommittedOnce == IdemSpec => []OncePerKey
<1>1. IndInv => OncePerKey
  BY DEF IndInv
<1> QED BY <1>1, Invariant, PTL

\* The answers under a key agree, and the stored one stands while its record
\* lives: also in sessions of their own, where a mutation may be committed whose
\* claim is lost, no such mutation is ever the answer to anybody.
THEOREM AnswersHold == IdemSpec => AnswersStand
<1>1. IndInv /\ IndInv' /\ AnswersInv /\ [IdemNext]_idemVars => AnswersInv' /\ ResponseStep
  BY AnswersStep
<1>2. AnswersInv' => AnswersAgree'
  BY DEF AnswersInv
<1>3. IdemSpec => []AnswersInv
  BY <1>1, AnswersInvInit, Invariant, PTL DEF IdemSpec
<1> QED BY <1>1, <1>2, <1>3, Invariant, PTL DEF IdemSpec, AnswersStand

=============================================================================
