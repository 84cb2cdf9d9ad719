------------------------------ MODULE CashExpiry ------------------------------
(***************************************************************************)
(* The registration desk together with the workers that end cash           *)
(* reservations.  Jobs are outbox rows of type registration.cash_expiry_due *)
(* written by the desk's own transactions; a worker claims the due ones    *)
(* under a lease, and takes each through a transaction of its own that     *)
(* expires the reservation, promotes the next member and completes the     *)
(* job.  Workers crash, stall past their lease and meet transient errors.  *)
(***************************************************************************)
EXTENDS EventDesk

CONSTANTS
    Workers,      \* processes that run a CashExpiryWorker
    Names,        \* worker ids (locked_by)
    NameOf,       \* the worker_id each process was started with; two may share one
    Nobody,       \* locked_by IS NULL
    Lease,        \* lease_duration
    RetryBase,    \* retry_base
    MaxAttempts,  \* max_attempts
    MaxFaults     \* bound: crashes and transient errors in a behaviour
                  \* (AdminRetry is bounded by MaxAttempts as well)

ASSUME ExpiryAssumption ==
    /\ NameOf \in [Workers -> Names]
    /\ Nobody \notin Names
    /\ MaxTime > 0
    /\ Lease \in Nat \ {0}
    /\ RetryBase \in Nat \ {0}
    /\ MaxAttempts \in Nat \ {0}
    /\ MaxFaults \in Nat

VARIABLES
    job,     \* the outbox row of each scheduled expiry
    run,     \* what each worker has in memory during run_once
    faults   \* crashes and transient errors so far

queueVars == <<job, run, faults>>
allVars == <<vars, queueVars>>

JobStatuses ==
    {"pending", "processing", "retryable_failed", "permanent_failed", "delivered"}

JobRow == [status : JobStatuses, attempts : Nat, available : Nat,
           owner : Names \cup {Nobody}, until : Nat]

\* batch maps each claimed job still to be handled to the attempt count its
\* claim returned; failing names the job whose error is to be recorded.
Idle == [current |-> 0, batch |-> [r \in {} |-> 0], failing |-> NULL]

ExpiryTypeOK ==
    /\ DOMAIN job = DOMAIN due
    /\ job \in [DOMAIN job -> JobRow]
    /\ DOMAIN run = Workers
    /\ \A w \in Workers :
        /\ run[w].current \in 0..MaxTime
        /\ DOMAIN run[w].batch \subseteq DOMAIN job
        /\ run[w].failing \in DOMAIN run[w].batch \cup {NULL}
    /\ faults \in 0..MaxFaults

NewJob(t) == [status |-> "pending", attempts |-> 0, available |-> t,
              owner |-> Nobody, until |-> NULL]

ExpiryInit ==
    /\ Init
    /\ job = [r \in {} |-> 0]
    /\ run = [w \in Workers |-> Idle]
    /\ faults = 0

\* The job rows after a desk transaction, with the changes it made to old ones.
JobsWith(changed) ==
    [r \in DOMAIN due' |-> IF r \in DOMAIN changed THEN changed[r] ELSE NewJob(due'[r])]

\* A worker that is through with job r: with its last one run_once returns.
Through(w, r) ==
    IF DOMAIN run[w].batch = {r} THEN Idle
    ELSE [run[w] EXCEPT !.batch = [q \in DOMAIN @ \ {r} |-> @[q]], !.failing = NULL]

(***************************************************************************)
(* CashExpiryWorker.run_once                                               *)
(***************************************************************************)
\* Mutant: a claim whose holder died is never taken over.
ClaimableUnclaimed(now) ==
    {r \in DOMAIN job :
        /\ job[r].status \in {"pending", "retryable_failed"}
        /\ job[r].available <= now
        /\ job[r].until <= now}

Claimable(now) ==
    {r \in DOMAIN job :
        /\ job[r].status \in {"pending", "retryable_failed", "processing"}
        /\ job[r].available <= now
        /\ job[r].until <= now}

\* One transaction claims everything that is due; the clock is read once and
\* serves the whole batch.
Claim(w) ==
    LET due_now == Claimable(clock)
    IN  /\ DOMAIN run[w].batch = {}
        /\ due_now # {}
        /\ job' = [r \in DOMAIN job |->
                     IF r \in due_now
                     THEN [job[r] EXCEPT !.status = "processing",
                                         !.attempts = @ + 1,
                                         !.owner = NameOf[w],
                                         !.until = clock + Lease]
                     ELSE job[r]]
        /\ run' = [run EXCEPT ![w] = [current |-> clock,
                                      batch |-> [r \in due_now |-> job[r].attempts + 1],
                                      failing |-> NULL]]
        /\ UNCHANGED <<vars, faults>>

\* Mutant: any unexpired claim will do.
ClaimStandsForAnyone(w, r) ==
    job[r].status = "processing" /\ job[r].until > run[w].current

\* lock_claimed asks for the worker id, and judges the lease by the clock reading
\* of the process's own claim.
ClaimStands(w, r) ==
    /\ job[r].status = "processing"
    /\ job[r].owner = NameOf[w]
    /\ job[r].until > run[w].current

Turn(w, r) == run[w].failing = NULL /\ r \in DOMAIN run[w].batch

\* A worker of another name took the job over: nothing is done.
SkipJob(w, r) ==
    /\ Turn(w, r)
    /\ ~ClaimStands(w, r)
    /\ run' = [run EXCEPT ![w] = Through(w, r)]
    /\ UNCHANGED <<vars, job, faults>>

\* Mutant: the update names the worker and forgets the job.
CompletedAllOfWorker(r) ==
    [q \in DOMAIN job |->
        IF job[q].owner = job[r].owner
        THEN [job[q] EXCEPT !.status = "delivered", !.owner = Nobody, !.until = NULL]
        ELSE job[q]]

Completed(r) ==
    [job EXCEPT ![r] = [@ EXCEPT !.status = "delivered", !.owner = Nobody, !.until = NULL]]

\* process() and complete() in one transaction: the reservation ends, or it
\* had ended before and the job is merely ticked off.
ProcessJob(w, r) ==
    /\ Turn(w, r)
    /\ ClaimStands(w, r)
    /\ run' = [run EXCEPT ![w] = Through(w, r)]
    /\ UNCHANGED faults
    /\ \/ reg[r].state # "cash_pending" /\ UNCHANGED vars /\ job' = Completed(r)
       \/ ExpireCash(r, run[w].current) /\ job' = JobsWith(Completed(r))

\* An exception rolls the transaction back: the event is not published, the
\* job is early, promotion raises, or the database fails for a moment.
ProcessRaises(w, r) ==
    /\ reg[r].state = "cash_pending"
    /\ \/ reg[r].cash_expires_at > run[w].current
       \/ event.status # "published"
       \/ PromotionRaises([reg EXCEPT ![r] = Moved(reg[r], "expired", NULL)],
                          run[w].current)

FailJob(w, r) ==
    /\ Turn(w, r)
    /\ ClaimStands(w, r)
    /\ run' = [run EXCEPT ![w].failing = r]
    /\ \/ ProcessRaises(w, r) /\ UNCHANGED faults
       \/ faults < MaxFaults /\ faults' = faults + 1
    /\ UNCHANGED <<vars, job>>

\* fail: the UPDATE asks for locked_by, and does nothing for a job that has
\* been claimed under another name or ended since.
Failed(w, r, permanent, retry_at) ==
    IF job[r].status = "processing" /\ job[r].owner = NameOf[w]
    THEN [job EXCEPT ![r] =
            [@ EXCEPT !.status = IF permanent THEN "permanent_failed" ELSE "retryable_failed",
                      !.available = retry_at, !.owner = Nobody, !.until = NULL]]
    ELSE job

\* _record_failure, a second transaction.
RecordFailure(w) ==
    LET r == run[w].failing
        n == run[w].batch[r]
    IN  /\ r # NULL
        /\ job' = Failed(w, r, n >= MaxAttempts, run[w].current + RetryBase * 2^(n - 1))
        /\ run' = [run EXCEPT ![w] = Through(w, r)]
        /\ UNCHANGED <<vars, faults>>

\* The process dies; its claims stay in the table until their lease ends.
Crash(w) ==
    /\ faults < MaxFaults
    /\ DOMAIN run[w].batch # {}
    /\ run' = [run EXCEPT ![w] = Idle]
    /\ faults' = faults + 1
    /\ UNCHANGED <<vars, job>>

\* OutboxRepository.retry_permanent_failure, by an administrator; the attempt
\* count stays, so the next error is final again.
AdminRetry(r) ==
    /\ r \in DOMAIN job
    /\ job[r].status = "permanent_failed"
    /\ job[r].attempts <= MaxAttempts
    /\ job' = [job EXCEPT ![r] = [@ EXCEPT !.status = "pending", !.available = clock]]
    /\ UNCHANGED <<vars, run, faults>>

\* Every other transaction of the desk; new reservations bring their jobs.
DeskStep ==
    /\ \/ \E u \in Users, at \in 1..MaxTime : Register(u, at) \/ Cancel(u, at)
       \/ \E r \in RegIds, at \in 1..MaxTime : ConfirmCash(r, at)
       \/ \E c \in Capacities, s \in StartTimes, m \in AllowedMethods, at \in 1..MaxTime :
             UpdateEvent(c, s, m, at)
       \/ \E at \in 1..MaxTime : CompleteEvent(at)
       \/ CancelEvent
       \/ SuspendEvent
       \/ RestoreEvent
       \/ \E u \in Users : ToggleEligible(u)
       \/ Tick
    /\ job' = JobsWith(job)
    /\ UNCHANGED <<run, faults>>

WorkerStep(w) ==
    \/ Claim(w)
    \/ \E r \in RegIds : SkipJob(w, r) \/ ProcessJob(w, r) \/ FailJob(w, r)
    \/ RecordFailure(w)

ExpiryNext ==
    \/ DeskStep
    \/ \E w \in Workers : WorkerStep(w) \/ Crash(w)
    \/ \E r \in RegIds : AdminRetry(r)

ExpirySpec == ExpiryInit /\ [][ExpiryNext]_allVars

\* The scheduler keeps calling run_once, and time passes.
ExpiryFairness ==
    /\ WF_allVars(Tick /\ job' = JobsWith(job) /\ UNCHANGED <<run, faults>>)
    /\ \A w \in Workers : WF_allVars(WorkerStep(w))

FairExpirySpec == ExpirySpec /\ ExpiryFairness

-----------------------------------------------------------------------------
\* A completed job has done its work: whatever crashed, stalled or raced,
\* the reservation of a delivered job no longer holds its seat as pending.
DeliveredMeansEnded ==
    \A r \in DOMAIN job : job[r].status = "delivered" => reg[r].state # "cash_pending"

\* The queue and the desk agree at every moment: each reservation ever made
\* has one job row, and a job that counts as done has nothing left to do.
ExpiryInv == ExpiryTypeOK /\ DeliveredMeansEnded

Leased(r) == job[r].status = "processing" /\ job[r].until > clock

\* While a lease runs, only a process of the name that holds it changes the job,
\* even if an earlier holder wakes up late with a batch and an error to record;
\* and it can only end or fail the job, never claim it again.
OwnerOnlyStep ==
    \A r \in DOMAIN job : Leased(r) /\ job'[r] # job[r] =>
        /\ \E w \in Workers : NameOf[w] = job[r].owner /\ r \in DOMAIN run[w].batch
                                /\ run'[w] # run[w]
        /\ job'[r].status # "processing"

\* A reservation is never ended before its deadline, and never after a
\* confirmation: expiry starts from a pending row that was due.
ExpiryStepIsDue ==
    \A r \in DOMAIN reg : reg'[r].state = "expired" /\ reg[r].state # "expired"
        => reg[r].state = "cash_pending" /\ reg[r].cash_expires_at <= clock

\* A delivered job is never taken up again, by whom ever it was once claimed.
DeliveredStays ==
    \A r \in DOMAIN job : job[r].status = "delivered" => job'[r] = job[r]

\* Expiry is orderly: one worker id at a time, only what is due, and only once.
ExpiryIsOrderly == [][OwnerOnlyStep /\ ExpiryStepIsDue /\ DeliveredStays]_allVars

\* "A stale worker must not complete or fail a job after another worker owns the
\* exact lease token": whoever changes a leased job made the claim that runs, the
\* one that counted the last attempt.  Two processes of one name break it, for
\* neither lock_claimed nor fail asks for the claim.
LeaseTokenStep ==
    \A r \in DOMAIN job : Leased(r) /\ job'[r] # job[r] =>
        \E w \in Workers : /\ run'[w] # run[w] /\ r \in DOMAIN run[w].batch
                            /\ run[w].batch[r] = job[r].attempts

LeaseTokenIsExact == [][LeaseTokenStep]_allVars

Reserved(r) == r \in DOMAIN reg /\ reg[r].state = "cash_pending"

\* Reasons for which a reservation may outlive its deadline: the event is not
\* published, the job ran out of attempts, or the bound of the clock is met.
MayStay(r) ==
    \/ event.status # "published"
    \/ job[r].status = "permanent_failed"
    \/ job[r].available > MaxTime
    \/ job[r].until > MaxTime

\* Every cash reservation is eventually confirmed, cancelled or expired,
\* through crashes, stalled leases and retries.
ReservationsEnd == \A r \in RegIds : Reserved(r) ~> (~Reserved(r) \/ MayStay(r))

\* "Cash reservations expire according to event-country policy and release
\* capacity": attempts made while the event is suspended count, so a restored
\* event can be left with a reservation nobody will end.
NoStrandedReservation ==
    \A r \in DOMAIN job :
        Reserved(r) /\ event.status = "published" => job[r].status # "permanent_failed"

=============================================================================
