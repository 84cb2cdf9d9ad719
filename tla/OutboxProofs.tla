----------------------------- MODULE OutboxProofs -----------------------------
(***************************************************************************)
(* Theorems about the outbox, for every set of messages and processes, any *)
(* assignment of worker ids, and every lease and retry delay: each row     *)
(* leaves one notification, in order until a delivery fails; a row is      *)
(* settled by the claim in force; and the outbox implements the contract   *)
(* of all queues.                                                          *)
(***************************************************************************)
EXTENDS OutboxQueue, TLAPS

\* A process works on a row of its batch, and completes what it has delivered.
HandsAreFull ==
    \A p \in Processes : run[p].stage # "next" =>
        /\ run[p].at \in InBatch(p)
        /\ run[p].stage = "complete" => notices[run[p].at] = 1

\* What is in a batch is or was a row these workers handle; it leaves the table
\* only after its notification.
BatchesAreHandled ==
    \A p \in Processes : \A e \in InBatch(p) :
        /\ e <= inserted
        /\ e \in DOMAIN rows => rows[e].msg \in Handled
        /\ e \notin DOMAIN rows => notices[e] = 1

\* Rows of other workers are neither claimed nor notified, nor is what has not
\* been inserted.
OthersAreLeftAlone ==
    /\ \A e \in EventIds : e > inserted => notices[e] = 0
    /\ \A e \in DOMAIN rows : rows[e].msg \notin Handled =>
        rows[e].status # "processing" /\ notices[e] = 0

\* Until an error every row is due from the time of its insertion, ...
DueFromTheStart ==
    errors = 0 =>
        /\ \A p \in Processes : run[p].stage # "failing"
        /\ \A e \in DOMAIN rows : rows[e].msg \in Handled =>
            /\ rows[e].available <= clock
            /\ rows[e].status \notin {"retryable_failed", "permanent_failed"}

\* ...so whatever precedes a claimed row has been notified.
PredecessorsFirst ==
    errors = 0 =>
        \A e, f \in DOMAIN rows :
            /\ f < e
            /\ {rows[e].msg, rows[f].msg} \subseteq Handled
            /\ Aggregate(f) = Aggregate(e)
            /\ \E p \in Processes : e \in InBatch(p)
            => notices[f] = 1

\* The inductive invariant.
IndInv ==
    /\ QueueTypeOK
    /\ HandsAreFull
    /\ BatchesAreHandled
    /\ OthersAreLeftAlone
    /\ DueFromTheStart
    /\ PredecessorsFirst
    /\ NotifiedExactlyOnce
    /\ NotifiedInOrder

-----------------------------------------------------------------------------
LEMMA BackoffIsTime ==
    ASSUME NEW n \in Nat, n > 0
    PROVE  Backoff(n) \in Nat /\ RetryMax \in Nat /\ RetryBase \in Nat
<1>1. RetryMax \in Nat /\ RetryBase \in Nat
  BY QueueAssumption
<1>2. \A k \in 0..10 : 2^k \in Nat
  <2> SUFFICES ASSUME NEW k \in 0..10 PROVE 2^k \in Nat
    OBVIOUS
  <2>1. \/ k = 0 \/ k = 1 \/ k = 2 \/ k = 3 \/ k = 4 \/ k = 5
        \/ k = 6 \/ k = 7 \/ k = 8 \/ k = 9 \/ k = 10
    OBVIOUS
  <2>2. /\ 2^0 \in Nat /\ 2^1 \in Nat /\ 2^2 \in Nat /\ 2^3 \in Nat /\ 2^4 \in Nat /\ 2^5 \in Nat
        /\ 2^6 \in Nat /\ 2^7 \in Nat /\ 2^8 \in Nat /\ 2^9 \in Nat /\ 2^10 \in Nat
    OBVIOUS
  <2> QED BY <2>1, <2>2
<1>3. AtMost(n - 1, 10) \in 0..10
  BY DEF AtMost
<1> DEFINE k == 2^AtMost(n - 1, 10)
<1>4. k \in Nat
  BY <1>2, <1>3
<1> HIDE DEF k
<1>5. RetryBase * k \in Nat
  BY <1>1, <1>4
<1>6. AtMost(RetryBase * k, RetryMax) \in Nat
  BY <1>1, <1>5 DEF AtMost
<1> QED BY <1>1, <1>6 DEF Backoff, k

\* What the constants are.
LEMMA ConstantsAreNumbers ==
    /\ Limit \in Nat /\ Lease \in Nat /\ Lease > 0 /\ MaxEvents \in Nat /\ MaxTime \in Nat
    /\ MaxCrashes \in Nat /\ MaxErrors \in Nat /\ MaxAttempts \in Nat
    /\ Nobody \notin Names /\ NameOf \in [Processes -> Names]
    /\ Foreign \cap Handled = {}
BY QueueAssumption

LEMMA IdleIsRun == Idle \in Run /\ Idle.stage = "next" /\ \A e \in EventIds : Idle.batch[e] = 0
BY DEF Idle, Run, Stages, NULL

LEMMA MovedOnIsRun ==
    ASSUME QueueTypeOK, NEW p \in Processes, NEW e \in EventIds
    PROVE  /\ MovedOn(p, e) \in Run
           /\ MovedOn(p, e).stage = "next"
           /\ \A f \in EventIds : MovedOn(p, e).batch[f] = (IF f = e THEN 0 ELSE run[p].batch[f])
<1>1. run[p] \in Run /\ run[p].batch \in [EventIds -> Nat]
  BY DEF QueueTypeOK, Run
<1> DEFINE b == [run[p].batch EXCEPT ![e] = 0]
<1>2. b \in [EventIds -> Nat] /\ \A f \in EventIds : b[f] = (IF f = e THEN 0 ELSE run[p].batch[f])
  BY <1>1
<1>3. MovedOn(p, e) = [run[p] EXCEPT !.batch = b, !.stage = "next", !.at = NULL, !.attempts = 0,
                                     !.until = NULL, !.seen = 0, !.fatal = FALSE]
  BY DEF MovedOn
<1> HIDE DEF b
<1>4. NULL \in Nat
  BY DEF NULL
<1>5. MovedOn(p, e) \in Run
  <2>1. run[p].now \in Nat /\ "next" \in Stages /\ FALSE \in BOOLEAN /\ 0 \in Nat
    BY <1>1 DEF Run, Stages
  <2>2. [now |-> run[p].now, batch |-> b, stage |-> "next", at |-> NULL, attempts |-> 0,
         until |-> NULL, seen |-> 0, fatal |-> FALSE] \in Run
    BY <1>2, <1>4, <2>1, Zenon DEF Run
  <2>3. MovedOn(p, e) = [now |-> run[p].now, batch |-> b, stage |-> "next", at |-> NULL,
                         attempts |-> 0, until |-> NULL, seen |-> 0, fatal |-> FALSE]
    BY <1>1, <1>3 DEF Run
  <2> QED BY <2>2, <2>3
<1>6. MovedOn(p, e).stage = "next" /\ MovedOn(p, e).batch = b
  BY <1>1, <1>3 DEF Run
<1> QED BY <1>2, <1>5, <1>6

-----------------------------------------------------------------------------
(***************************************************************************)
(* What the steps of a process do, except claiming and delivering: it goes *)
(* on with its batch, and settles at most the row in hand.                 *)
(***************************************************************************)
Settled(e, row) ==
    /\ rows[e].status = "processing"
    /\ rows' = [rows EXCEPT ![e] = row]
    /\ row.msg = rows[e].msg /\ row.owner = Nobody /\ row.until = NULL
    /\ row.status \in {"delivered", "retryable_failed", "permanent_failed"}
    /\ row.status = "delivered" => notices[e] = 1 /\ row.available = rows[e].available
    /\ row.status # "delivered" => errors' # 0

HandStep(p, q) ==
    /\ run' = [run EXCEPT ![p] = q]
    /\ \A f \in EventIds : q.batch[f] = 0 \/ q.batch[f] = run[p].batch[f]
    /\ q.stage # "next" => q.at \in EventIds /\ q.batch[q.at] > 0
    /\ q.stage = "complete" => notices[q.at] = 1
    /\ q.stage = "failing" => errors' # 0
    /\ errors' \in errors..MaxErrors /\ crashes' \in 0..MaxCrashes
    /\ UNCHANGED <<inserted, notices, clock>>
    /\ rows' = rows \/ \E e \in DOMAIN rows, row \in OutboxRow : Settled(e, row)

LEMMA HandKeeps ==
    ASSUME IndInv, NEW p \in Processes, NEW q \in Run, HandStep(p, q)
    PROVE  IndInv'
<1> USE DEF IndInv, QueueTypeOK
<1>1. /\ run' = [run EXCEPT ![p] = q]
      /\ errors' \in 0..MaxErrors /\ errors \in Nat /\ (errors' = 0 => errors = 0)
      /\ crashes' \in 0..MaxCrashes
      /\ inserted' = inserted /\ notices' = notices /\ clock' = clock
  BY ConstantsAreNumbers DEF HandStep
<1>2. \A o \in Processes : run'[o] = (IF o = p THEN q ELSE run[o])
  BY <1>1
<1>3. \A o \in Processes : InBatch(o)' \subseteq InBatch(o)
  BY <1>1, <1>2 DEF HandStep, InBatch
\* The table is what it was, but that a claimed row may be settled.
<1>4. /\ DOMAIN rows' = DOMAIN rows
      /\ rows' \in [DOMAIN rows -> OutboxRow]
      /\ \A e \in DOMAIN rows :
            \/ rows'[e] = rows[e]
            \/ /\ rows[e].status = "processing"
               /\ rows'[e].msg = rows[e].msg /\ rows'[e].owner = Nobody /\ rows'[e].until = NULL
               /\ rows'[e].status \in {"delivered", "retryable_failed", "permanent_failed"}
               /\ rows'[e].status = "delivered" =>
                    notices[e] = 1 /\ rows'[e].available = rows[e].available
               /\ rows'[e].status # "delivered" => errors' # 0
  <2>1. CASE rows' = rows
    BY <2>1
  <2>2. CASE \E e \in DOMAIN rows, row \in OutboxRow : Settled(e, row)
    <3>1. PICK e \in DOMAIN rows, row \in OutboxRow : Settled(e, row)
      BY <2>2
    <3>2. rows' = [rows EXCEPT ![e] = row]
      BY <3>1 DEF Settled
    <3>3. \A f \in DOMAIN rows : rows'[f] = (IF f = e THEN row ELSE rows[f])
      BY <3>2
    <3> QED BY <3>1, <3>2, <3>3 DEF Settled
  <2> QED BY <2>1, <2>2 DEF HandStep
<1>5. \A e \in DOMAIN rows : rows'[e].msg = rows[e].msg
  BY <1>4
<1>6. QueueTypeOK'
  <2>1. run' \in [Processes -> Run]
    BY <1>1
  <2>2. rows' \in [DOMAIN rows' -> OutboxRow] /\ DOMAIN rows' \subseteq 1..inserted'
    BY <1>1, <1>4
  <2>3. \A e \in DOMAIN rows' :
          /\ rows'[e].owner = Nobody <=> rows'[e].status # "processing"
          /\ rows'[e].until = NULL <=> rows'[e].status # "processing"
    BY <1>4
  <2> QED BY <1>1, <2>1, <2>2, <2>3
<1>7. HandsAreFull'
  <2> SUFFICES ASSUME NEW o \in Processes, run'[o].stage # "next"
               PROVE  /\ run'[o].at \in InBatch(o)'
                      /\ run'[o].stage = "complete" => notices[run'[o].at] = 1
    BY <1>1 DEF HandsAreFull
  <2>1. CASE o = p
    BY <1>2, <2>1 DEF HandStep, InBatch
  <2>2. CASE o # p
    BY <1>2, <2>2 DEF HandsAreFull, InBatch
  <2> QED BY <2>1, <2>2
<1>8. BatchesAreHandled'
  BY <1>1, <1>3, <1>4, <1>5 DEF BatchesAreHandled
<1>9. OthersAreLeftAlone'
  BY <1>1, <1>4 DEF OthersAreLeftAlone
<1>10. DueFromTheStart'
  <2> SUFFICES ASSUME errors' = 0
               PROVE  /\ \A o \in Processes : run'[o].stage # "failing"
                      /\ \A e \in DOMAIN rows' : rows'[e].msg \in Handled =>
                            /\ rows'[e].available <= clock
                            /\ rows'[e].status \notin {"retryable_failed", "permanent_failed"}
    BY <1>1 DEF DueFromTheStart
  <2>1. \A o \in Processes : run'[o].stage # "failing"
    BY <1>1, <1>2 DEF DueFromTheStart, HandStep
  <2>2. ASSUME NEW e \in DOMAIN rows', rows'[e].msg \in Handled
        PROVE  /\ rows'[e].available <= clock
               /\ rows'[e].status \notin {"retryable_failed", "permanent_failed"}
    BY <1>1, <1>4, <2>2 DEF DueFromTheStart
  <2> QED BY <2>1, <2>2
<1>11. PredecessorsFirst'
  BY <1>1, <1>3, <1>4, <1>5 DEF PredecessorsFirst, Aggregate
<1>12. NotifiedExactlyOnce'
  BY <1>1, <1>4 DEF NotifiedExactlyOnce
<1>13. NotifiedInOrder'
  BY <1>1, <1>4, <1>5 DEF NotifiedInOrder, InOrder, Aggregate
<1> QED BY <1>6, <1>7, <1>8, <1>9, <1>10, <1>11, <1>12, <1>13

LEMMA TakeUpForm ==
    ASSUME IndInv, NEW p \in Processes, NEW e \in EventIds, TakeUp(p, e) \/ Skip(p, e)
    PROVE  \E q \in Run : HandStep(p, q)
<1> USE DEF IndInv, QueueTypeOK
<1>1. /\ run[p] \in Run /\ e \in InBatch(p) /\ clock \in Nat /\ run[p].batch[e] > 0
      /\ UNCHANGED <<rows, inserted, notices, clock, crashes, errors>>
      /\ errors \in errors..MaxErrors
  BY ConstantsAreNumbers DEF TakeUp, Skip, InBatch
<1>2. CASE TakeUp(p, e)
  <2> DEFINE q == [run[p] EXCEPT !.stage = "deliver", !.at = e, !.seen = clock,
                                 !.attempts = rows[e].attempts, !.until = rows[e].until]
  <2>1. rows[e].attempts \in Nat /\ rows[e].until \in Nat /\ run[p].fatal \in BOOLEAN
    BY <1>1, <1>2 DEF TakeUp, ClaimStands, OutboxRow, Run
  <2>2. q \in Run /\ q.stage = "deliver" /\ q.at = e /\ q.batch = run[p].batch
    BY <1>1, <2>1 DEF Run, Stages
  <2>3. run' = [run EXCEPT ![p] = q]
    BY <1>2 DEF TakeUp
  <2> HIDE DEF q
  <2> QED BY <1>1, <2>2, <2>3 DEF HandStep
<1>3. CASE Skip(p, e)
  <2> DEFINE q == MovedOn(p, e)
  <2>1. run' = [run EXCEPT ![p] = q]
    BY <1>3 DEF Skip
  <2>2. q \in Run /\ q.stage = "next" /\ \A f \in EventIds : q.batch[f] = (IF f = e THEN 0 ELSE run[p].batch[f])
    BY MovedOnIsRun
  <2> HIDE DEF q
  <2> QED BY <1>1, <2>1, <2>2 DEF HandStep
<1> QED BY <1>2, <1>3

LEMMA FaultForm ==
    ASSUME IndInv, NEW p \in Processes, Fault(p)
    PROVE  \E q \in Run : HandStep(p, q)
<1> USE DEF IndInv, QueueTypeOK
<1>1. run[p] \in Run /\ clock \in Nat /\ errors \in Nat /\ crashes \in Nat
  BY ConstantsAreNumbers
<1>2. CASE Crash(p)
  <2>1. /\ run' = [run EXCEPT ![p] = Idle] /\ crashes' \in 0..MaxCrashes
        /\ UNCHANGED <<rows, inserted, notices, clock, errors>> /\ errors' \in errors..MaxErrors
    BY <1>1, <1>2, ConstantsAreNumbers DEF Crash
  <2> QED BY <2>1, IdleIsRun DEF HandStep
<1>3. ASSUME NEW e \in EventIds, NEW fatal \in BOOLEAN, Stumble(p, e, fatal)
      PROVE  \E q \in Run : HandStep(p, q)
  <2> DEFINE q == [run[p] EXCEPT !.stage = "failing", !.at = e, !.seen = clock, !.fatal = fatal]
  <2>1. /\ run' = [run EXCEPT ![p] = q] /\ e \in InBatch(p)
        /\ UNCHANGED <<rows, inserted, notices, clock, crashes>>
        /\ errors' \in errors..MaxErrors /\ errors' # 0
    BY <1>1, <1>3, ConstantsAreNumbers DEF Stumble
  <2>2. q \in Run /\ q.stage = "failing" /\ q.at = e /\ q.batch = run[p].batch
    BY <1>1 DEF Run, Stages
  <2> HIDE DEF q
  <2> QED BY <2>1, <2>2 DEF HandStep, InBatch
<1> QED BY <1>2, <1>3 DEF Fault

LEMMA RecordFailureForm ==
    ASSUME IndInv, NEW p \in Processes, NEW jitter \in 0..RetryBase, RecordFailure(p, jitter)
    PROVE  \E q \in Run : HandStep(p, q)
<1> USE DEF IndInv, QueueTypeOK
<1> DEFINE e == run[p].at
           n == run[p].batch[e]
           q == MovedOn(p, e)
<1>1. run[p] \in Run /\ run[p].stage = "failing" /\ errors # 0 /\ errors \in errors..MaxErrors
  BY ConstantsAreNumbers DEF RecordFailure, DueFromTheStart
<1>2. e \in EventIds /\ n \in Nat /\ n > 0 /\ run[p].now \in Nat
  BY <1>1 DEF HandsAreFull, InBatch, Run
<1>3. /\ q \in Run /\ q.stage = "next"
      /\ \A f \in EventIds : q.batch[f] = (IF f = e THEN 0 ELSE run[p].batch[f])
  BY <1>2, MovedOnIsRun
<1>4. /\ run' = [run EXCEPT ![p] = q]
      /\ UNCHANGED <<inserted, notices, clock, crashes, errors>>
  BY DEF RecordFailure
<1>5. rows' = rows \/ \E row \in OutboxRow : e \in DOMAIN rows /\ Settled(e, row)
  <2> DEFINE status == IF run[p].fatal \/ n >= MaxAttempts THEN "permanent_failed" ELSE "retryable_failed"
             t == run[p].now + Backoff(n) + jitter
             row == [Released(rows[e], status) EXCEPT !.available = t]
  <2>1. CASE Fenced(p, e, n, run[p].now + Lease)
    <3>1. e \in DOMAIN rows /\ rows[e] \in OutboxRow /\ rows[e].status = "processing"
      BY <2>1 DEF Fenced
    <3>2. t \in Nat
      BY <1>2, BackoffIsTime
    <3>3. status \in {"retryable_failed", "permanent_failed"}
      OBVIOUS
    <3>4. rows' = [rows EXCEPT ![e] = row]
      BY <2>1, <3>1 DEF RecordFailure
    <3> HIDE DEF status, t
    <3>5. row \in OutboxRow /\ row.msg = rows[e].msg /\ row.owner = Nobody /\ row.until = NULL
          /\ row.status = status
      BY <3>1, <3>2, <3>3 DEF Released, OutboxRow, Statuses, NULL
    <3> HIDE DEF row, e
    <3>6. Settled(e, row)
      BY <1>1, <1>4, <3>1, <3>3, <3>4, <3>5 DEF Settled
    <3> QED BY <3>1, <3>5, <3>6
  <2>2. CASE ~Fenced(p, e, n, run[p].now + Lease)
    BY <2>2 DEF RecordFailure
  <2> QED BY <2>1, <2>2
<1> HIDE DEF q, e
<1> QED BY <1>1, <1>3, <1>4, <1>5 DEF HandStep

LEMMA CompleteForm ==
    ASSUME IndInv, NEW p \in Processes, Complete(p)
    PROVE  \E q \in Run : HandStep(p, q)
<1> USE DEF IndInv, QueueTypeOK
<1> DEFINE e == run[p].at
<1>1. run[p] \in Run /\ run[p].stage = "complete" /\ clock \in Nat /\ errors \in Nat
  BY ConstantsAreNumbers DEF Complete
<1>2. e \in EventIds /\ run[p].batch[e] > 0 /\ notices[e] = 1 /\ run[p].seen \in Nat
      /\ run[p].attempts \in Nat /\ run[p].until \in Nat /\ run[p].fatal \in BOOLEAN
  BY <1>1 DEF HandsAreFull, InBatch, Run
<1>3. rows' = rows \/ \E row \in OutboxRow : e \in DOMAIN rows /\ Settled(e, row)
  <2> DEFINE row == [Released(rows[e], "delivered") EXCEPT !.processed = run[p].seen]
  <2>1. CASE Fenced(p, e, run[p].attempts, run[p].until)
    <3>1. e \in DOMAIN rows /\ rows[e] \in OutboxRow /\ rows[e].status = "processing"
      BY <2>1 DEF Fenced
    <3>2. rows' = [rows EXCEPT ![e] = row]
      BY <2>1, <3>1 DEF Complete
    <3>3. row \in OutboxRow /\ row.msg = rows[e].msg /\ row.owner = Nobody /\ row.until = NULL
          /\ row.status = "delivered" /\ row.available = rows[e].available
      BY <1>2, <3>1 DEF Released, OutboxRow, Statuses, NULL
    <3> HIDE DEF row, e
    <3>4. Settled(e, row)
      BY <1>2, <3>1, <3>2, <3>3 DEF Settled
    <3> QED BY <3>1, <3>3, <3>4
  <2>2. CASE ~Fenced(p, e, run[p].attempts, run[p].until)
    BY <2>2 DEF Complete
  <2> QED BY <2>1, <2>2
<1>4. /\ UNCHANGED <<inserted, notices, clock, crashes>>
      /\ errors' \in errors..MaxErrors
  BY <1>1, ConstantsAreNumbers DEF Complete
<1>5. CASE run' = [run EXCEPT ![p] = MovedOn(p, e)]
  <2>1. /\ MovedOn(p, e) \in Run /\ MovedOn(p, e).stage = "next"
        /\ \A f \in EventIds : MovedOn(p, e).batch[f] = (IF f = e THEN 0 ELSE run[p].batch[f])
    BY <1>2, MovedOnIsRun
  <2> DEFINE q == MovedOn(p, e)
  <2> HIDE DEF q, e
  <2>2. HandStep(p, q)
    BY <1>1, <1>3, <1>4, <1>5, <2>1 DEF HandStep, q
  <2> QED BY <2>1, <2>2 DEF q
<1>6. CASE /\ errors' = errors + 1
           /\ run' = [run EXCEPT ![p] = [@ EXCEPT !.stage = "failing", !.seen = clock]]
  <2> DEFINE q == [run[p] EXCEPT !.stage = "failing", !.seen = clock]
  <2>1. q \in Run /\ q.stage = "failing" /\ q.at = e /\ q.batch = run[p].batch
    BY <1>1 DEF Run, Stages
  <2>2. run' = [run EXCEPT ![p] = q]
    BY <1>6
  <2> HIDE DEF q, e
  <2>3. errors' # 0
    BY <1>1, <1>6
  <2> QED BY <1>1, <1>2, <1>3, <1>4, <2>1, <2>2, <2>3 DEF HandStep
<1> QED BY <1>5, <1>6 DEF Complete

-----------------------------------------------------------------------------
(***************************************************************************)
(* Every other step keeps the invariant.                                   *)
(***************************************************************************)
LEMMA EnqueueKeeps ==
    ASSUME IndInv, NEW m \in Messages, NEW t \in 1..MaxTime, Enqueue(m, t)
    PROVE  IndInv'
<1> USE DEF IndInv, QueueTypeOK
<1> DEFINE n == inserted + 1
           row == [msg |-> m, status |-> "pending", attempts |-> 0, available |-> t,
                   owner |-> Nobody, until |-> NULL, processed |-> NULL]
<1>1. /\ inserted \in Nat /\ n \in EventIds /\ inserted' = n /\ t \in Nat /\ n \notin DOMAIN rows
      /\ \A e \in DOMAIN rows : e \in Nat /\ e < n
      /\ UNCHANGED <<run, notices, clock, crashes, errors>>
      /\ rows' = [e \in DOMAIN rows \cup {n} |-> IF e = n THEN row ELSE rows[e]]
  BY ConstantsAreNumbers DEF Enqueue, EventIds
<1>2. row \in OutboxRow /\ row.msg = m /\ row.status = "pending" /\ row.available = t
      /\ row.owner = Nobody /\ row.until = NULL
  BY <1>1 DEF OutboxRow, Statuses, NULL
<1>3. m \in Handled => t = clock
  BY ConstantsAreNumbers DEF Enqueue
<1> HIDE DEF row
<1>4. /\ DOMAIN rows' = DOMAIN rows \cup {n} /\ rows'[n] = row
      /\ \A e \in DOMAIN rows : rows'[e] = rows[e]
  BY <1>1
<1>5. \A p \in Processes : InBatch(p)' = InBatch(p) /\ n \notin InBatch(p)
  BY <1>1 DEF InBatch, BatchesAreHandled
<1>6. QueueTypeOK'
  <2>1. DOMAIN rows' \subseteq 1..inserted' /\ inserted' \in 0..MaxEvents
    BY <1>1, <1>4, ConstantsAreNumbers DEF EventIds
  <2>2. rows' \in [DOMAIN rows' -> OutboxRow]
    BY <1>1, <1>2, <1>4
  <2>3. \A e \in DOMAIN rows' :
          /\ rows'[e].owner = Nobody <=> rows'[e].status # "processing"
          /\ rows'[e].until = NULL <=> rows'[e].status # "processing"
    BY <1>2, <1>4
  <2> QED BY <1>1, <2>1, <2>2, <2>3
<1>7. HandsAreFull'
  BY <1>1, <1>5 DEF HandsAreFull
<1>8. BatchesAreHandled'
  <2> SUFFICES ASSUME NEW p \in Processes, NEW e \in InBatch(p)
               PROVE  /\ e <= n
                      /\ e \in DOMAIN rows' => rows'[e].msg \in Handled
                      /\ e \notin DOMAIN rows' => notices[e] = 1
    BY <1>1, <1>5 DEF BatchesAreHandled
  <2>1. e \in EventIds /\ e <= inserted /\ e # n
    BY <1>5 DEF BatchesAreHandled, InBatch
  <2> QED BY <1>1, <1>4, <2>1 DEF BatchesAreHandled, EventIds
<1>9. OthersAreLeftAlone'
  <2>1. \A e \in EventIds : e > n => notices[e] = 0
    BY <1>1 DEF OthersAreLeftAlone, EventIds
  <2>2. notices[n] = 0
    BY <1>1 DEF OthersAreLeftAlone
  <2> QED BY <1>1, <1>2, <1>4, <2>1, <2>2 DEF OthersAreLeftAlone
<1>10. DueFromTheStart'
  BY <1>1, <1>2, <1>3, <1>4 DEF DueFromTheStart
<1>11. PredecessorsFirst'
  <2> SUFFICES ASSUME errors = 0, NEW e \in DOMAIN rows', NEW f \in DOMAIN rows', f < e,
                      {rows'[e].msg, rows'[f].msg} \subseteq Handled,
                      AggregateOf[rows'[f].msg] = AggregateOf[rows'[e].msg],
                      \E p \in Processes : e \in InBatch(p)
               PROVE  notices[f] = 1
    BY <1>1, <1>5 DEF PredecessorsFirst, Aggregate
  <2>1. e \in DOMAIN rows /\ f \in DOMAIN rows
    BY <1>1, <1>4, <1>5
  <2> QED BY <1>4, <2>1 DEF PredecessorsFirst, Aggregate
<1>12. NotifiedExactlyOnce'
  BY <1>1, <1>2, <1>4 DEF NotifiedExactlyOnce
<1>13. NotifiedInOrder'
  <2> SUFFICES ASSUME errors = 0, NEW e \in DOMAIN rows', NEW f \in DOMAIN rows', e < f,
                      {rows'[e].msg, rows'[f].msg} \subseteq Handled,
                      AggregateOf[rows'[e].msg] = AggregateOf[rows'[f].msg], notices[f] = 1
               PROVE  notices[e] = 1
    BY <1>1 DEF NotifiedInOrder, InOrder, Aggregate
  <2>1. notices[n] = 0
    BY <1>1 DEF OthersAreLeftAlone
  <2>2. e \in DOMAIN rows /\ f \in DOMAIN rows
    BY <1>1, <1>4, <2>1
  <2> QED BY <1>4, <2>2 DEF NotifiedInOrder, InOrder, Aggregate
<1> QED BY <1>6, <1>7, <1>8, <1>9, <1>10, <1>11, <1>12, <1>13

\* The worker of other rows, and the administrator who reopens a row.
LEMMA OutsidersKeep ==
    ASSUME IndInv, NEW e \in EventIds, ForeignSettles(e) \/ AdminRetry(e)
    PROVE  IndInv'
<1> USE DEF IndInv, QueueTypeOK
<1>1. /\ e \in DOMAIN rows /\ rows[e] \in OutboxRow /\ clock \in Nat
      /\ UNCHANGED <<inserted, run, notices, clock, crashes, errors>>
  BY ConstantsAreNumbers DEF ForeignSettles, AdminRetry
<1>2. PICK row \in OutboxRow :
        /\ rows' = [rows EXCEPT ![e] = row]
        /\ rows[e].status # "processing" /\ row.status \in {"pending", "delivered"}
        /\ row.msg = rows[e].msg /\ row.owner = rows[e].owner /\ row.until = rows[e].until
        /\ row.status = "delivered" => row.msg \notin Handled
        /\ row.msg \in Handled => errors # 0
  <2>1. CASE ForeignSettles(e)
    <3> DEFINE row == [rows[e] EXCEPT !.status = "delivered", !.processed = clock]
    <3>1. /\ row \in OutboxRow /\ row.status = "delivered" /\ row.msg = rows[e].msg
          /\ row.owner = rows[e].owner /\ row.until = rows[e].until
      BY <1>1 DEF OutboxRow, Statuses
    <3>2. rows' = [rows EXCEPT ![e] = row] /\ rows[e].msg \notin Handled
      BY <2>1, ConstantsAreNumbers DEF ForeignSettles
    <3>3. rows[e].status # "processing"
      BY <1>1, <3>2 DEF OthersAreLeftAlone
    <3> HIDE DEF row
    <3> QED BY <3>1, <3>2, <3>3
  <2>2. CASE AdminRetry(e)
    <3> DEFINE row == [rows[e] EXCEPT !.status = "pending", !.available = clock]
    <3>1. /\ row \in OutboxRow /\ row.status = "pending" /\ row.msg = rows[e].msg
          /\ row.owner = rows[e].owner /\ row.until = rows[e].until
      BY <1>1 DEF OutboxRow, Statuses
    <3>2. rows' = [rows EXCEPT ![e] = row] /\ rows[e].status = "permanent_failed"
      BY <2>2 DEF AdminRetry
    <3>3. rows[e].msg \in Handled => errors # 0
      BY <1>1, <3>2 DEF DueFromTheStart
    <3> HIDE DEF row
    <3> QED BY <3>1, <3>2, <3>3
  <2> QED BY <2>1, <2>2
<1>3. /\ DOMAIN rows' = DOMAIN rows /\ rows' \in [DOMAIN rows -> OutboxRow]
      /\ \A f \in DOMAIN rows : rows'[f] = (IF f = e THEN row ELSE rows[f])
  BY <1>1, <1>2
<1>4. \A f \in DOMAIN rows : rows'[f].msg = rows[f].msg
  BY <1>2, <1>3
<1>5. \A p \in Processes : InBatch(p)' = InBatch(p)
  BY <1>1 DEF InBatch
<1>6. QueueTypeOK'
  BY <1>1, <1>2, <1>3
<1>7. HandsAreFull' /\ BatchesAreHandled'
  BY <1>1, <1>3, <1>4, <1>5 DEF HandsAreFull, BatchesAreHandled
<1>8. OthersAreLeftAlone'
  BY <1>1, <1>2, <1>3, <1>4 DEF OthersAreLeftAlone
<1>9. DueFromTheStart'
  BY <1>1, <1>2, <1>3 DEF DueFromTheStart
<1>10. PredecessorsFirst' /\ NotifiedInOrder'
  BY <1>1, <1>3, <1>4, <1>5 DEF PredecessorsFirst, NotifiedInOrder, InOrder, Aggregate
<1>11. NotifiedExactlyOnce'
  BY <1>1, <1>2, <1>3 DEF NotifiedExactlyOnce
<1> QED BY <1>6, <1>7, <1>8, <1>9, <1>10, <1>11

LEMMA CleanupKeeps ==
    ASSUME IndInv, NEW before \in 1..MaxTime, CleanupDelivered(before)
    PROVE  IndInv'
<1> USE DEF IndInv, QueueTypeOK
<1> DEFINE old == {e \in DOMAIN rows : rows[e].status = "delivered" /\ rows[e].processed < before}
<1>1. /\ rows' = [e \in DOMAIN rows \ old |-> rows[e]]
      /\ UNCHANGED <<inserted, run, notices, clock, crashes, errors>>
  BY DEF CleanupDelivered
<1>2. /\ DOMAIN rows' = DOMAIN rows \ old /\ rows' \in [DOMAIN rows' -> OutboxRow]
      /\ \A e \in DOMAIN rows' : e \in DOMAIN rows /\ rows'[e] = rows[e]
      /\ \A e \in DOMAIN rows : e \notin DOMAIN rows' => rows[e].status = "delivered"
  BY <1>1
<1> HIDE DEF old
<1>3. \A p \in Processes : InBatch(p)' = InBatch(p)
  BY <1>1 DEF InBatch
<1>4. QueueTypeOK'
  BY <1>1, <1>2
<1>5. HandsAreFull'
  BY <1>1, <1>3 DEF HandsAreFull
<1>6. BatchesAreHandled'
  <2> SUFFICES ASSUME NEW p \in Processes, NEW e \in InBatch(p)
               PROVE  /\ e <= inserted
                      /\ e \in DOMAIN rows' => rows'[e].msg \in Handled
                      /\ e \notin DOMAIN rows' => notices[e] = 1
    BY <1>1, <1>3 DEF BatchesAreHandled
  <2>1. /\ e <= inserted
        /\ e \in DOMAIN rows => rows[e].msg \in Handled
        /\ e \notin DOMAIN rows => notices[e] = 1
    BY DEF BatchesAreHandled
  <2> QED BY <1>2, <2>1 DEF NotifiedExactlyOnce
<1>7. OthersAreLeftAlone' /\ DueFromTheStart'
  BY <1>1, <1>2 DEF OthersAreLeftAlone, DueFromTheStart
<1>8. PredecessorsFirst'
  BY <1>1, <1>2, <1>3 DEF PredecessorsFirst, Aggregate
<1>9. NotifiedExactlyOnce' /\ NotifiedInOrder'
  BY <1>1, <1>2 DEF NotifiedExactlyOnce, NotifiedInOrder, InOrder, Aggregate
<1> QED BY <1>4, <1>5, <1>6, <1>7, <1>8, <1>9

\* Nothing that is due and not delivered precedes a row that is claimed.
LEMMA ClaimKeeps ==
    ASSUME IndInv, NEW p \in Processes, Claim(p)
    PROVE  IndInv'
<1> USE DEF IndInv, QueueTypeOK
<1> DEFINE taken == ClaimBatch(clock)
           claimed(e) == [rows[e] EXCEPT !.status = "processing", !.attempts = @ + 1,
                                         !.owner = NameOf[p], !.until = clock + Lease]
           batch == [e \in EventIds |-> IF e \in taken THEN rows[e].attempts + 1 ELSE 0]
           q == [Idle EXCEPT !.now = clock, !.batch = batch]
<1>1. /\ rows' = [e \in DOMAIN rows |-> IF e \in taken THEN claimed(e) ELSE rows[e]]
      /\ run' = [run EXCEPT ![p] = q]
      /\ UNCHANGED <<inserted, notices, clock, crashes, errors>>
  BY DEF Claim
<1>2. /\ DOMAIN rows \subseteq EventIds /\ clock \in Nat /\ clock > 0 /\ Lease \in Nat
      /\ NameOf[p] \in Names /\ NameOf[p] # Nobody
  BY ConstantsAreNumbers DEF EventIds
<1>3. \A e \in taken :
        /\ e \in DOMAIN rows /\ rows[e].msg \in Handled /\ ~Blocked(e, clock)
        /\ rows[e].status # "delivered" /\ rows[e].available <= clock
  BY DEF ClaimBatch, Claimable
<1>4. \A e \in taken :
        /\ claimed(e) \in OutboxRow /\ claimed(e).msg = rows[e].msg
        /\ claimed(e).status = "processing" /\ claimed(e).owner = NameOf[p]
        /\ claimed(e).until # NULL /\ claimed(e).available = rows[e].available
  <2> SUFFICES ASSUME NEW e \in taken
               PROVE  /\ claimed(e) \in OutboxRow /\ claimed(e).msg = rows[e].msg
                      /\ claimed(e).status = "processing" /\ claimed(e).owner = NameOf[p]
                      /\ claimed(e).until # NULL /\ claimed(e).available = rows[e].available
    OBVIOUS
  <2> HIDE DEF taken
  <2>1. rows[e] \in OutboxRow
    BY <1>3
  <2>2. rows[e].attempts + 1 \in Nat /\ clock + Lease \in Nat /\ clock + Lease # NULL
    BY <1>2, <2>1 DEF OutboxRow, NULL
  <2>3. claimed(e) \in OutboxRow
    BY <1>2, <2>1, <2>2 DEF OutboxRow, Statuses
  <2>4. /\ claimed(e).msg = rows[e].msg /\ claimed(e).available = rows[e].available
        /\ claimed(e).status = "processing" /\ claimed(e).owner = NameOf[p]
        /\ claimed(e).until = clock + Lease
    BY <2>1 DEF OutboxRow
  <2> QED BY <2>2, <2>3, <2>4
<1>5. q \in Run /\ q.stage = "next" /\ \A e \in EventIds : q.batch[e] > 0 => e \in taken
  <2>1. batch \in [EventIds -> Nat]
    BY <1>3 DEF OutboxRow
  <2>2. \A e \in EventIds : batch[e] > 0 => e \in taken
    OBVIOUS
  <2> HIDE DEF batch
  <2>3. q \in Run /\ q.stage = "next" /\ q.batch = batch
    BY <1>2, <2>1, IdleIsRun DEF Run
  <2> QED BY <2>2, <2>3
<1> HIDE DEF taken, claimed, q
<1>6. /\ DOMAIN rows' = DOMAIN rows /\ rows' \in [DOMAIN rows -> OutboxRow]
      /\ \A e \in DOMAIN rows : rows'[e] = (IF e \in taken THEN claimed(e) ELSE rows[e])
  BY <1>1, <1>4
<1>7. \A e \in DOMAIN rows : rows'[e].msg = rows[e].msg
  BY <1>4, <1>6
<1>8. \A o \in Processes : run'[o] = (IF o = p THEN q ELSE run[o])
  BY <1>1
<1>9. \A o \in Processes : \A e \in InBatch(o)' : e \in EventIds /\ (e \in taken \/ e \in InBatch(o))
  BY <1>5, <1>8 DEF InBatch
<1>10. QueueTypeOK'
  <2>1. run' \in [Processes -> Run]
    BY <1>1, <1>5
  <2>2. \A e \in DOMAIN rows' :
          /\ rows'[e].owner = Nobody <=> rows'[e].status # "processing"
          /\ rows'[e].until = NULL <=> rows'[e].status # "processing"
    BY <1>2, <1>4, <1>6
  <2> QED BY <1>1, <1>6, <2>1, <2>2
<1>11. HandsAreFull'
  <2> SUFFICES ASSUME NEW o \in Processes, run'[o].stage # "next"
               PROVE  /\ run'[o].at \in InBatch(o)'
                      /\ run'[o].stage = "complete" => notices[run'[o].at] = 1
    BY <1>1 DEF HandsAreFull
  <2>1. o # p /\ run'[o] = run[o]
    BY <1>5, <1>8
  <2> QED BY <2>1 DEF HandsAreFull, InBatch
<1>12. BatchesAreHandled'
  <2> SUFFICES ASSUME NEW o \in Processes, NEW e \in InBatch(o)'
               PROVE  /\ e <= inserted
                      /\ e \in DOMAIN rows => rows'[e].msg \in Handled
                      /\ e \notin DOMAIN rows => notices[e] = 1
    BY <1>1, <1>6 DEF BatchesAreHandled
  <2>1. CASE e \in taken
    BY <1>3, <1>7, <2>1
  <2>2. CASE e \in InBatch(o)
    BY <1>7, <2>2 DEF BatchesAreHandled
  <2> QED BY <1>9, <2>1, <2>2
<1>13. OthersAreLeftAlone'
  BY <1>1, <1>3, <1>6, <1>7 DEF OthersAreLeftAlone
<1>14. DueFromTheStart'
  <2>1. \A o \in Processes : run'[o].stage = "failing" => run[o].stage = "failing"
    BY <1>5, <1>8
  <2> QED BY <1>1, <1>4, <1>6, <1>7, <2>1 DEF DueFromTheStart
<1>15. PredecessorsFirst'
  <2> SUFFICES ASSUME errors = 0, NEW e \in DOMAIN rows, NEW f \in DOMAIN rows, f < e,
                      {rows[e].msg, rows[f].msg} \subseteq Handled, Aggregate(f) = Aggregate(e),
                      NEW o \in Processes, e \in InBatch(o)'
               PROVE  notices[f] = 1
    BY <1>1, <1>6, <1>7 DEF PredecessorsFirst, Aggregate
  <2>1. CASE e \in taken
    <3>1. rows[f].available <= clock
      BY DEF DueFromTheStart
    <3>2. rows[f].status = "delivered"
      BY <1>3, <2>1, <3>1 DEF Blocked
    <3> QED BY <3>2 DEF NotifiedExactlyOnce
  <2>2. CASE e \in InBatch(o)
    BY <2>2 DEF PredecessorsFirst
  <2> QED BY <1>9, <2>1, <2>2
<1>16. NotifiedExactlyOnce'
  BY <1>1, <1>4, <1>6 DEF NotifiedExactlyOnce
<1>17. NotifiedInOrder'
  BY <1>1, <1>6, <1>7 DEF NotifiedInOrder, InOrder, Aggregate
<1> QED BY <1>10, <1>11, <1>12, <1>13, <1>14, <1>15, <1>16, <1>17

LEMMA DeliverKeeps ==
    ASSUME IndInv, NEW p \in Processes, Deliver(p)
    PROVE  IndInv'
<1> USE DEF IndInv, QueueTypeOK
<1> DEFINE e == run[p].at
           q == [run[p] EXCEPT !.stage = "complete", !.seen = clock]
<1>1. /\ run[p] \in Run /\ run[p].stage = "deliver" /\ clock \in Nat
      /\ run' = [run EXCEPT ![p] = q] /\ notices' = Projected(e)
      /\ UNCHANGED <<rows, inserted, clock, crashes, errors>>
  BY ConstantsAreNumbers DEF Deliver
<1>2. e \in EventIds /\ e \in InBatch(p)
  BY <1>1 DEF HandsAreFull, InBatch
<1>3. q \in Run /\ q.stage = "complete" /\ q.at = e /\ q.batch = run[p].batch
  BY <1>1 DEF Run, Stages
<1>4. /\ notices' \in [EventIds -> Nat] /\ notices'[e] = 1
      /\ \A f \in EventIds : f # e => notices'[f] = notices[f]
      /\ \A f \in EventIds : notices[f] = 1 => notices'[f] = 1
  <2>1. notices[e] = 0 \/ notices[e] = 1
    BY <1>2 DEF NotifiedExactlyOnce
  <2> QED BY <1>1, <1>2, <2>1 DEF Projected
<1> HIDE DEF e, q
<1>5. \A o \in Processes : run'[o] = (IF o = p THEN q ELSE run[o])
  BY <1>1
<1>6. \A o \in Processes : InBatch(o)' = InBatch(o)
  BY <1>1, <1>3, <1>5 DEF InBatch
<1>7. QueueTypeOK'
  BY <1>1, <1>3, <1>4
<1>8. HandsAreFull'
  <2> SUFFICES ASSUME NEW o \in Processes, run'[o].stage # "next"
               PROVE  /\ run'[o].at \in InBatch(o)
                      /\ run'[o].stage = "complete" => notices'[run'[o].at] = 1
    BY <1>6 DEF HandsAreFull
  <2>1. CASE o = p
    BY <1>2, <1>3, <1>4, <1>5, <2>1
  <2>2. CASE o # p
    BY <1>4, <1>5, <2>2 DEF HandsAreFull, InBatch
  <2> QED BY <2>1, <2>2
<1>9. BatchesAreHandled'
  BY <1>1, <1>4, <1>6 DEF BatchesAreHandled, InBatch
<1>10. OthersAreLeftAlone'
  <2>1. e <= inserted /\ (e \in DOMAIN rows => rows[e].msg \in Handled)
    BY <1>2 DEF BatchesAreHandled
  <2>2. DOMAIN rows \subseteq EventIds /\ inserted \in Nat /\ e \in Nat
    BY <1>2, ConstantsAreNumbers DEF EventIds
  <2>3. \A f \in EventIds : f > inserted => f # e
    BY <2>1, <2>2 DEF EventIds
  <2> QED BY <1>1, <1>4, <2>1, <2>2, <2>3 DEF OthersAreLeftAlone
<1>11. DueFromTheStart'
  <2>1. \A o \in Processes : run'[o].stage = "failing" => run[o].stage = "failing"
    BY <1>3, <1>5
  <2> QED BY <1>1, <2>1 DEF DueFromTheStart
<1>12. DOMAIN rows \subseteq EventIds
  BY ConstantsAreNumbers DEF EventIds
<1>13. PredecessorsFirst'
  BY <1>1, <1>4, <1>6, <1>12 DEF PredecessorsFirst, Aggregate
<1>14. NotifiedExactlyOnce'
  <2>1. \A f \in EventIds : notices'[f] <= 1
    BY <1>2, <1>4 DEF NotifiedExactlyOnce
  <2> QED BY <1>1, <1>4, <1>12, <2>1 DEF NotifiedExactlyOnce
<1>15. NotifiedInOrder'
  <2> SUFFICES ASSUME errors = 0, NEW g \in DOMAIN rows, NEW f \in DOMAIN rows, g < f,
                      {rows[g].msg, rows[f].msg} \subseteq Handled, Aggregate(g) = Aggregate(f),
                      notices'[f] = 1
               PROVE  notices'[g] = 1
    BY <1>1 DEF NotifiedInOrder, InOrder, Aggregate
  <2>1. CASE f = e
    <3>1. notices[g] = 1
      BY <1>2, <2>1 DEF PredecessorsFirst
    <3> QED BY <1>4, <1>12, <3>1
  <2>2. CASE f # e
    <3>1. notices[f] = 1
      BY <1>4, <1>12, <2>2
    <3>2. notices[g] = 1
      BY <3>1 DEF NotifiedInOrder, InOrder
    <3> QED BY <1>4, <1>12, <3>2
  <2> QED BY <2>1, <2>2
<1> QED BY <1>7, <1>8, <1>9, <1>10, <1>11, <1>13, <1>14, <1>15

LEMMA TickKeeps == IndInv /\ Tick => IndInv'
<1> SUFFICES ASSUME IndInv, Tick PROVE IndInv'
  OBVIOUS
<1> USE DEF IndInv, QueueTypeOK
<1>1. /\ clock \in Nat /\ clock' = clock + 1 /\ clock' \in 1..(MaxTime + 1)
      /\ UNCHANGED <<rows, inserted, run, notices, crashes, errors>>
  BY ConstantsAreNumbers DEF Tick
<1>2. QueueTypeOK'
  BY <1>1
<1>3. DueFromTheStart'
  <2>1. \A e \in DOMAIN rows : rows[e].available \in Nat
    BY DEF OutboxRow
  <2> QED BY <1>1, <2>1 DEF DueFromTheStart
<1>4. HandsAreFull' /\ BatchesAreHandled' /\ OthersAreLeftAlone' /\ PredecessorsFirst'
  BY <1>1 DEF HandsAreFull, BatchesAreHandled, OthersAreLeftAlone, PredecessorsFirst, InBatch, Aggregate
<1>5. NotifiedExactlyOnce' /\ NotifiedInOrder'
  BY <1>1 DEF NotifiedExactlyOnce, NotifiedInOrder, InOrder, Aggregate
<1> QED BY <1>2, <1>3, <1>4, <1>5

LEMMA InitInv == QueueInit => IndInv
<1> SUFFICES ASSUME QueueInit PROVE IndInv
  OBVIOUS
<1>1. /\ rows = [e \in {} |-> 0] /\ inserted = 0 /\ run = [p \in Processes |-> Idle]
      /\ notices = [e \in EventIds |-> 0] /\ clock = 1 /\ crashes = 0 /\ errors = 0
  BY DEF QueueInit
<1>2. DOMAIN rows = {} /\ (\A e \in EventIds : notices[e] = 0)
      /\ \A p \in Processes : run[p].stage = "next" /\ InBatch(p) = {}
  BY <1>1, IdleIsRun DEF InBatch
<1>3. QueueTypeOK
  BY <1>1, <1>2, IdleIsRun, ConstantsAreNumbers DEF QueueTypeOK
<1>4. HandsAreFull /\ BatchesAreHandled /\ OthersAreLeftAlone /\ DueFromTheStart /\ PredecessorsFirst
  BY <1>2 DEF HandsAreFull, BatchesAreHandled, OthersAreLeftAlone, DueFromTheStart, PredecessorsFirst
<1>5. NotifiedExactlyOnce /\ NotifiedInOrder
  BY <1>2 DEF NotifiedExactlyOnce, NotifiedInOrder, InOrder
<1> QED BY <1>3, <1>4, <1>5 DEF IndInv

\* A step of a process that is neither a claim nor a delivery.
LEMMA HandForms ==
    ASSUME IndInv, NEW p \in Processes, ProcessStep(p) \/ Fault(p)
    PROVE  Claim(p) \/ Deliver(p) \/ \E q \in Run : HandStep(p, q)
BY TakeUpForm, FaultForm, CompleteForm, RecordFailureForm DEF ProcessStep

LEMMA StepInv == IndInv /\ [QueueNext]_queueVars => IndInv'
<1> SUFFICES ASSUME IndInv, [QueueNext]_queueVars PROVE IndInv'
  OBVIOUS
<1>1. CASE \E m \in Messages, t \in 1..MaxTime : Enqueue(m, t)
  BY <1>1, EnqueueKeeps
<1>2. CASE \E e \in EventIds : ForeignSettles(e) \/ AdminRetry(e)
  BY <1>2, OutsidersKeep
<1>3. CASE \E before \in 1..MaxTime : CleanupDelivered(before)
  BY <1>3, CleanupKeeps
<1>4. CASE \E p \in Processes : ProcessStep(p) \/ Fault(p)
  BY <1>4, HandForms, ClaimKeeps, DeliverKeeps, HandKeeps
<1>5. CASE Tick
  BY <1>5, TickKeeps
<1>6. CASE UNCHANGED queueVars
  BY <1>6 DEF queueVars, IndInv, QueueTypeOK, HandsAreFull, BatchesAreHandled, OthersAreLeftAlone,
       DueFromTheStart, PredecessorsFirst, NotifiedExactlyOnce, NotifiedInOrder, InOrder,
       InBatch, Aggregate
<1> QED BY <1>1, <1>2, <1>3, <1>4, <1>5, <1>6 DEF QueueNext

-----------------------------------------------------------------------------
LEMMA Invariant == QueueSpec => []IndInv
<1> QED BY InitInv, StepInv, PTL DEF QueueSpec

\* Each row leaves one notification however often it is delivered, one that is
\* ticked off has left it, and until a delivery fails the notifications of an
\* aggregate come in the order of its rows: for any number of processes, with
\* or without worker ids of their own, and any lease.
THEOREM OnceAndInOrder == QueueSpec => []QueueInv
<1>1. IndInv => QueueInv
  BY DEF IndInv, QueueInv
<1> QED BY <1>1, Invariant, PTL

-----------------------------------------------------------------------------
(***************************************************************************)
(* The contract, row by row.                                               *)
(***************************************************************************)
\* A step of the contract for one row, without the names of its operations.
RowStep(e) ==
    \/ notices'[e] = notices[e] /\ PhaseOfRow(e)' = PhaseOfRow(e)
    \/ /\ notices'[e] = notices[e]
       /\ \/ PhaseOfRow(e) = "absent" /\ PhaseOfRow(e)' = "open"
          \/ PhaseOfRow(e) = "open" /\ PhaseOfRow(e)' = "claimed"
          \/ PhaseOfRow(e) = "claimed" /\ PhaseOfRow(e)' \in {"open", "abandoned"}
          \/ PhaseOfRow(e) = "claimed" /\ PhaseOfRow(e)' = "settled" /\ notices[e] = 1
          \/ PhaseOfRow(e) = "abandoned" /\ PhaseOfRow(e)' = "open"
          \/ PhaseOfRow(e) = "settled" /\ PhaseOfRow(e)' = "forgotten"
    \/ /\ notices[e] # 1 /\ notices'[e] = 1
       /\ PhaseOfRow(e) \notin {"absent", "settled", "forgotten"}
       /\ PhaseOfRow(e)' = PhaseOfRow(e)

LEMMA RowStepsAreContractSteps ==
    ASSUME NEW e \in EventIds, RowStep(e)
    PROVE  Contract!ItemStep(e)
BY DEF RowStep, Contract!ItemStep, Contract!Publish, Contract!Claim, Contract!Act, Contract!Settle,
       Contract!GiveBack, Contract!GiveUp, Contract!Reopen, Contract!Forget,
       Contract!Moves, Contract!Keeps

\* A row that is as it was, with its notification, takes no step.
LEMMA UntouchedRow ==
    ASSUME NEW e \in EventIds, notices'[e] = notices[e],
           e \in DOMAIN rows <=> e \in DOMAIN rows',
           e \in DOMAIN rows => rows'[e] = rows[e]
    PROVE  RowStep(e)
BY DEF RowStep, PhaseOfRow

\* A row keeps its message and goes from one status to another.
LEMMA ChangedRow ==
    ASSUME NEW e \in EventIds, e \in DOMAIN rows, e \in DOMAIN rows', notices'[e] = notices[e],
           rows'[e].msg = rows[e].msg,
           rows[e].msg \in Handled =>
              \/ /\ rows[e].status \in {"pending", "retryable_failed", "processing"}
                 /\ rows'[e].status = "processing"
              \/ /\ rows[e].status = "processing"
                 /\ rows'[e].status \in {"retryable_failed", "permanent_failed"}
              \/ rows[e].status = "processing" /\ rows'[e].status = "delivered" /\ notices[e] = 1
              \/ rows[e].status = "permanent_failed" /\ rows'[e].status = "pending"
    PROVE  RowStep(e)
BY DEF RowStep, PhaseOfRow, PhaseOf

LEMMA EnqueuedRow ==
    ASSUME IndInv, NEW m \in Messages, NEW t \in 1..MaxTime, Enqueue(m, t), NEW e \in EventIds
    PROVE  RowStep(e)
<1> USE DEF IndInv, QueueTypeOK
<1> DEFINE n == inserted + 1
<1>1. /\ inserted \in Nat /\ n \notin DOMAIN rows /\ DOMAIN rows' = DOMAIN rows \cup {n}
      /\ rows'[n].msg = m /\ rows'[n].status = "pending" /\ notices' = notices
      /\ \A f \in DOMAIN rows : rows'[f] = rows[f]
  BY DEF Enqueue
<1>2. CASE e = n
  <2>1. notices[e] = 0
    BY <1>1, <1>2 DEF OthersAreLeftAlone
  <2> QED BY <1>1, <1>2, <2>1 DEF RowStep, PhaseOfRow, PhaseOf
<1>3. CASE e # n
  BY <1>1, <1>3, UntouchedRow
<1> QED BY <1>2, <1>3

LEMMA OutsidersRow ==
    ASSUME IndInv, NEW f \in EventIds, ForeignSettles(f) \/ AdminRetry(f), NEW e \in EventIds
    PROVE  RowStep(e)
<1> USE DEF IndInv, QueueTypeOK
<1>1. f \in DOMAIN rows /\ rows[f] \in OutboxRow /\ notices' = notices
  BY DEF ForeignSettles, AdminRetry
<1>2. CASE ForeignSettles(f)
  <2> DEFINE row == [rows[f] EXCEPT !.status = "delivered", !.processed = clock]
  <2>1. row.msg = rows[f].msg /\ rows[f].msg \notin Handled
    BY <1>1, <1>2, ConstantsAreNumbers DEF ForeignSettles, OutboxRow
  <2>2. rows' = [rows EXCEPT ![f] = row]
    BY <1>2 DEF ForeignSettles
  <2> HIDE DEF row
  <2>3. CASE e = f
    BY <1>1, <2>1, <2>2, <2>3, ChangedRow
  <2>4. CASE e # f
    BY <1>1, <2>2, <2>4, UntouchedRow
  <2> QED BY <2>3, <2>4
<1>3. CASE AdminRetry(f)
  <2> DEFINE row == [rows[f] EXCEPT !.status = "pending", !.available = clock]
  <2>1. row.msg = rows[f].msg /\ row.status = "pending" /\ rows[f].status = "permanent_failed"
    BY <1>1, <1>3 DEF AdminRetry, OutboxRow
  <2>2. rows' = [rows EXCEPT ![f] = row]
    BY <1>3 DEF AdminRetry
  <2> HIDE DEF row
  <2>3. CASE e = f
    BY <1>1, <2>1, <2>2, <2>3, ChangedRow
  <2>4. CASE e # f
    BY <1>1, <2>2, <2>4, UntouchedRow
  <2> QED BY <2>3, <2>4
<1> QED BY <1>2, <1>3

LEMMA CleanedRow ==
    ASSUME IndInv, NEW before \in 1..MaxTime, CleanupDelivered(before), NEW e \in EventIds
    PROVE  RowStep(e)
<1> USE DEF IndInv, QueueTypeOK
<1>1. /\ notices' = notices /\ DOMAIN rows' \subseteq DOMAIN rows
      /\ \A f \in DOMAIN rows' : rows'[f] = rows[f]
      /\ \A f \in DOMAIN rows : f \notin DOMAIN rows' => rows[f].status = "delivered"
  BY DEF CleanupDelivered
<1>2. CASE e \in DOMAIN rows /\ e \notin DOMAIN rows'
  <2>1. rows[e].status = "delivered"
    BY <1>1, <1>2
  <2>2. rows[e].msg \in Handled => notices[e] = 1
    BY <1>2, <2>1 DEF NotifiedExactlyOnce
  <2>3. rows[e].msg \notin Handled => notices[e] = 0
    BY <1>2 DEF OthersAreLeftAlone
  <2> QED BY <1>1, <1>2, <2>1, <2>2, <2>3 DEF RowStep, PhaseOfRow, PhaseOf
<1>3. CASE e \in DOMAIN rows <=> e \in DOMAIN rows'
  BY <1>1, <1>3, UntouchedRow
<1> QED BY <1>1, <1>2, <1>3

\* What a claim does to each row.
LEMMA ClaimForm ==
    ASSUME IndInv, NEW p \in Processes, Claim(p)
    PROVE  /\ UNCHANGED notices /\ DOMAIN rows' = DOMAIN rows
           /\ \A e \in DOMAIN rows :
                \/ rows'[e] = rows[e]
                \/ /\ rows[e].status \in {"pending", "retryable_failed", "processing"}
                   /\ rows'[e].status = "processing" /\ rows'[e].msg = rows[e].msg
<1> USE DEF IndInv, QueueTypeOK
<1> DEFINE taken == ClaimBatch(clock)
           claimed(e) == [rows[e] EXCEPT !.status = "processing", !.attempts = @ + 1,
                                         !.owner = NameOf[p], !.until = clock + Lease]
<1>1. /\ rows' = [e \in DOMAIN rows |-> IF e \in taken THEN claimed(e) ELSE rows[e]]
      /\ UNCHANGED notices
  BY DEF Claim
<1>2. \A e \in taken : e \in DOMAIN rows
                       /\ rows[e].status \in {"pending", "retryable_failed", "processing"}
  BY DEF ClaimBatch, Claimable
<1>3. \A e \in DOMAIN rows : claimed(e).status = "processing" /\ claimed(e).msg = rows[e].msg
  BY DEF OutboxRow
<1> HIDE DEF taken, claimed
<1>4. \A e \in DOMAIN rows : rows'[e] = (IF e \in taken THEN claimed(e) ELSE rows[e])
  BY <1>1
<1> QED BY <1>1, <1>2, <1>3, <1>4

LEMMA DeliveredRow ==
    ASSUME IndInv, NEW p \in Processes, Deliver(p), NEW e \in EventIds
    PROVE  RowStep(e)
<1> USE DEF IndInv, QueueTypeOK
<1>1. rows' = rows /\ notices' = Projected(run[p].at) /\ run[p].at \in InBatch(p)
  BY DEF Deliver, HandsAreFull
<1>2. CASE e = run[p].at /\ notices[e] = 0
  <2>1. notices'[e] = 1
    BY <1>1, <1>2 DEF Projected
  <2>2. e \in DOMAIN rows /\ rows[e].msg \in Handled
    BY <1>1, <1>2 DEF BatchesAreHandled
  <2>3. rows[e].status # "delivered" /\ rows[e].status \in Statuses
    BY <1>2, <2>2 DEF NotifiedExactlyOnce, OutboxRow
  <2>4. PhaseOfRow(e) \in {"open", "claimed", "abandoned"}
    BY <2>2, <2>3 DEF PhaseOfRow, PhaseOf, Statuses
  <2>5. PhaseOfRow(e)' = PhaseOfRow(e)
    BY <1>1, <2>2 DEF PhaseOfRow
  <2> QED BY <1>2, <2>1, <2>4, <2>5 DEF RowStep
<1>3. CASE e # run[p].at \/ notices[e] # 0
  <2>1. notices'[e] = notices[e]
    BY <1>1, <1>3 DEF Projected
  <2> QED BY <1>1, <2>1, UntouchedRow
<1> QED BY <1>2, <1>3

LEMMA HandRow ==
    ASSUME IndInv, NEW p \in Processes, NEW q \in Run, HandStep(p, q), NEW e \in EventIds
    PROVE  RowStep(e)
<1> USE DEF IndInv, QueueTypeOK
<1>1. notices' = notices
  BY DEF HandStep
<1>2. CASE rows' = rows
  BY <1>1, <1>2, UntouchedRow
<1>3. ASSUME NEW f \in DOMAIN rows, NEW row \in OutboxRow, Settled(f, row)
      PROVE  RowStep(e)
  <2>1. rows' = [rows EXCEPT ![f] = row]
    BY <1>3 DEF Settled
  <2>2. CASE e = f
    BY <1>1, <1>3, <2>1, <2>2, ChangedRow DEF Settled
  <2>3. CASE e # f
    BY <1>1, <2>1, <2>3, UntouchedRow
  <2> QED BY <2>2, <2>3
<1> QED BY <1>2, <1>3 DEF HandStep

LEMMA EveryRowStep ==
    ASSUME IndInv, [QueueNext]_queueVars, NEW e \in EventIds
    PROVE  RowStep(e)
<1>1. CASE \E m \in Messages, t \in 1..MaxTime : Enqueue(m, t)
  BY <1>1, EnqueuedRow
<1>2. CASE \E f \in EventIds : ForeignSettles(f) \/ AdminRetry(f)
  BY <1>2, OutsidersRow
<1>3. CASE \E before \in 1..MaxTime : CleanupDelivered(before)
  BY <1>3, CleanedRow
<1>4. CASE \E p \in Processes : ProcessStep(p) \/ Fault(p)
  <2>1. ASSUME NEW p \in Processes, Claim(p) PROVE RowStep(e)
    BY <2>1, ClaimForm, UntouchedRow, ChangedRow
  <2> QED BY <1>4, <2>1, HandForms, DeliveredRow, HandRow
<1>5. CASE Tick \/ UNCHANGED queueVars
  BY <1>5, UntouchedRow DEF Tick, queueVars
<1> QED BY <1>1, <1>2, <1>3, <1>4, <1>5 DEF QueueNext

\* The outbox implements the contract of all queues: a row is ticked off only
\* after its notification, which is written once; it is claimed before it is
\* settled, and cleaned up only once it is settled.
THEOREM ImplementsContract == QueueSpec => QueueKeepsContract
<1>1. QueueInit => Contract!Init
  <2> SUFFICES ASSUME QueueInit PROVE Contract!Init
    OBVIOUS
  <2>1. DOMAIN rows = {} /\ \A e \in EventIds : notices[e] = 0
    BY DEF QueueInit
  <2>2. \A e \in EventIds : PhaseOfRow(e) = "absent" /\ (notices[e] = 1) = FALSE
    BY <2>1 DEF PhaseOfRow
  <2> QED BY <2>2 DEF Contract!Init
<1>2. IndInv /\ [QueueNext]_queueVars => [Contract!Next]_(Contract!contractVars)
  BY EveryRowStep, RowStepsAreContractSteps DEF Contract!Next
<1> QED BY <1>1, <1>2, Invariant, PTL DEF QueueSpec, QueueKeepsContract, Contract!Spec

-----------------------------------------------------------------------------
(***************************************************************************)
(* Settlements.                                                            *)
(***************************************************************************)
\* A step that leaves the claimed and the delivered rows alone settles nothing.
LEMMA NothingSettled ==
    ASSUME \A e \in DOMAIN rows : e \in DOMAIN rows' /\ rows[e].status \in {"processing", "delivered"}
              => rows'[e] = rows[e]
    PROVE  SettlementStep /\ DeliveredStep
BY DEF SettlementStep, DeliveredStep

LEMMA OutsidersSettleNothing ==
    ASSUME IndInv, NEW e \in EventIds, ForeignSettles(e) \/ AdminRetry(e)
    PROVE  SettlementStep /\ DeliveredStep
<1> USE DEF IndInv
<1>1. /\ e \in DOMAIN rows /\ rows[e].status # "processing" /\ rows[e].status # "delivered"
      /\ \A f \in DOMAIN rows : f # e => rows'[f] = rows[f]
  BY ConstantsAreNumbers DEF ForeignSettles, AdminRetry, OthersAreLeftAlone
<1> QED BY <1>1, NothingSettled

\* The row in hand is settled under the claim that its process made or read.
LEMMA CompleteSettles ==
    ASSUME IndInv, NEW p \in Processes, Complete(p)
    PROVE  SettlementStep /\ DeliveredStep
<1> USE DEF IndInv, QueueTypeOK
<1> DEFINE e == run[p].at
           row == [Released(rows[e], "delivered") EXCEPT !.processed = run[p].seen]
<1>1. run[p] \in Run /\ run[p].stage = "complete" /\ e \in EventIds
  BY DEF Complete, HandsAreFull, InBatch
<1>2. run'[p] # run[p]
  <2>1. CASE run' = [run EXCEPT ![p] = MovedOn(p, e)]
    BY <1>1, <2>1, MovedOnIsRun
  <2>2. CASE run' = [run EXCEPT ![p] = [@ EXCEPT !.stage = "failing", !.seen = clock]]
    <3>1. run'[p].stage = "failing"
      BY <1>1, <2>2 DEF Run
    <3> QED BY <1>1, <3>1
  <2> QED BY <2>1, <2>2 DEF Complete
<1>3. CASE Fenced(p, e, run[p].attempts, run[p].until)
  <2>1. /\ e \in DOMAIN rows /\ rows[e].status = "processing" /\ NameOf[p] = rows[e].owner
        /\ run[p].attempts = rows[e].attempts
    BY <1>3 DEF Fenced
  <2>2. rows' = [rows EXCEPT ![e] = row]
    BY <1>3, <2>1 DEF Complete
  <2> HIDE DEF row
  <2>3. \A f \in DOMAIN rows : f # e => rows'[f] = rows[f]
    BY <2>2
  <2> QED BY <1>1, <1>2, <2>1, <2>3 DEF SettlementStep, DeliveredStep
<1>4. CASE ~Fenced(p, e, run[p].attempts, run[p].until)
  BY <1>4, NothingSettled DEF Complete
<1> QED BY <1>3, <1>4

LEMMA RecordFailureSettles ==
    ASSUME IndInv, NEW p \in Processes, NEW jitter \in 0..RetryBase, RecordFailure(p, jitter)
    PROVE  SettlementStep /\ DeliveredStep
<1> USE DEF IndInv, QueueTypeOK
<1> DEFINE e == run[p].at
           n == run[p].batch[e]
           row == [Released(rows[e], IF run[p].fatal \/ n >= MaxAttempts
                                     THEN "permanent_failed" ELSE "retryable_failed")
                     EXCEPT !.available = run[p].now + Backoff(n) + jitter]
<1>1. run[p] \in Run /\ run[p].stage = "failing" /\ e \in EventIds
  BY DEF RecordFailure, HandsAreFull, InBatch
<1>2. run'[p] # run[p]
  <2>1. run'[p].stage = "next"
    BY <1>1, MovedOnIsRun DEF RecordFailure
  <2> QED BY <1>1, <2>1
<1>3. CASE Fenced(p, e, n, run[p].now + Lease)
  <2>1. /\ e \in DOMAIN rows /\ rows[e].status = "processing" /\ NameOf[p] = rows[e].owner
        /\ n = rows[e].attempts
    BY <1>3 DEF Fenced
  <2>2. rows' = [rows EXCEPT ![e] = row]
    BY <1>3, <2>1 DEF RecordFailure
  <2> HIDE DEF row
  <2>3. \A f \in DOMAIN rows : f # e => rows'[f] = rows[f]
    BY <2>2
  <2> QED BY <1>1, <1>2, <2>1, <2>3 DEF SettlementStep, DeliveredStep
<1>4. CASE ~Fenced(p, e, n, run[p].now + Lease)
  BY <1>4, NothingSettled DEF RecordFailure
<1> QED BY <1>3, <1>4

LEMMA StepSettles == IndInv /\ [QueueNext]_queueVars => SettlementStep /\ DeliveredStep
<1> SUFFICES ASSUME IndInv, [QueueNext]_queueVars PROVE SettlementStep /\ DeliveredStep
  OBVIOUS
<1>1. CASE \E m \in Messages, t \in 1..MaxTime : Enqueue(m, t)
  <2>1. \A e \in DOMAIN rows : rows'[e] = rows[e]
    BY <1>1 DEF Enqueue, IndInv, QueueTypeOK
  <2> QED BY <2>1, NothingSettled
<1>2. CASE \E e \in EventIds : ForeignSettles(e) \/ AdminRetry(e)
  BY <1>2, OutsidersSettleNothing
<1>3. CASE \E before \in 1..MaxTime : CleanupDelivered(before)
  <2>1. \A e \in DOMAIN rows : e \in DOMAIN rows' => rows'[e] = rows[e]
    BY <1>3 DEF CleanupDelivered
  <2> QED BY <2>1, NothingSettled
<1>4. ASSUME NEW p \in Processes, ProcessStep(p) \/ Fault(p)
      PROVE  SettlementStep /\ DeliveredStep
  <2>1. CASE Claim(p)
    BY <2>1, ClaimForm DEF SettlementStep, DeliveredStep
  <2>2. CASE Complete(p)
    BY <2>2, CompleteSettles
  <2>3. CASE \E jitter \in 0..RetryBase : RecordFailure(p, jitter)
    BY <2>3, RecordFailureSettles
  <2>4. CASE UNCHANGED rows
    BY <2>4, NothingSettled
  <2> QED BY <1>4, <2>1, <2>2, <2>3, <2>4 DEF ProcessStep, Fault, TakeUp, Skip, Deliver, Stumble, Crash
<1>5. CASE Tick \/ UNCHANGED queueVars
  BY <1>5, NothingSettled DEF Tick, queueVars
<1> QED BY <1>1, <1>2, <1>3, <1>4, <1>5 DEF QueueNext

\* A claimed row is settled by the claim in force only, however many processes
\* share a worker id and however long they sleep, and it stays as it was settled.
THEOREM SettledOnce == QueueSpec => SettledByItsClaim
BY Invariant, StepSettles, PTL DEF QueueSpec, SettledByItsClaim

=============================================================================
