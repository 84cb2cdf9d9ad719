------------------------------ MODULE OutboxQueue ------------------------------
(***************************************************************************)
(* The transactional outbox: publishers insert rows inside their own       *)
(* transactions, workers claim the rows that are due under a lease, deliver *)
(* each one through a handler that writes a notification, and tick the row *)
(* off or schedule a retry.  Every step of run_once is a transaction (or a *)
(* clock reading) of its own, so processes interleave between any two.     *)
(*                                                                         *)
(* Two processes may run under one worker_id (a restart, a second replica  *)
(* with the same configuration); the fence on attempt_count and            *)
(* locked_until is there for them.                                         *)
(***************************************************************************)
EXTENDS Integers, FiniteSets

CONSTANTS
    Messages,     \* what publishers publish, named by deduplication_key
    AggregateOf,  \* message -> (aggregate_type, aggregate_id)
    Handled,      \* messages of a type these workers have a handler for
    Foreign,      \* messages of a type some other worker takes (cash expiry)
    Processes,    \* running workers
    Names, NameOf, \* worker_id of a process (locked_by)
    Nobody,       \* locked_by IS NULL
    Limit,        \* rows claimed at once
    Lease,        \* lease_duration
    RetryBase, RetryMax, MaxAttempts,
    MaxEvents,    \* bound: rows ever inserted
    MaxTime,      \* bound: the last instant of the clock
    MaxCrashes,   \* bound: processes that die
    MaxErrors     \* bound: exceptions in get_claimed, deliver or complete

ASSUME QueueAssumption ==
    /\ Handled \subseteq Messages
    /\ Foreign \subseteq Messages \ Handled
    /\ NameOf \in [Processes -> Names]
    /\ Nobody \notin Names
    /\ {Limit, Lease, RetryBase, RetryMax, MaxAttempts} \subseteq Nat \ {0}
    /\ {MaxEvents, MaxTime, MaxCrashes, MaxErrors} \subseteq Nat

VARIABLES
    rows,     \* outbox_events, numbered by (created_at, id)
    inserted, \* number of rows ever inserted
    run,      \* what each process has in memory during run_once
    notices,  \* notifications written for a row
    clock,
    crashes, errors

queueVars == <<rows, inserted, run, notices, clock, crashes, errors>>

NULL == 0    \* no lease; not processed; no row in hand

EventIds == 1..MaxEvents

Statuses == {"pending", "processing", "retryable_failed", "permanent_failed", "delivered"}

OutboxRow == [msg : Messages, status : Statuses, attempts : Nat, available : Nat,
              owner : Names \cup {Nobody}, until : Nat, processed : Nat]

Stages == {"next", "deliver", "complete", "failing"}

\* now is `current', which dates the claim and its lease; batch holds, for each
\* claimed row still to be handled, the attempt_count the claim returned.
\* Of the row in hand, attempts and until are what get_claimed read, and seen
\* is the latest clock reading (claim_now, finished_at or failed_at).
Run == [now : Nat, batch : [EventIds -> Nat],
        stage : Stages, at : EventIds \cup {NULL}, attempts : Nat, until : Nat,
        seen : Nat, fatal : BOOLEAN]

Idle == [now |-> 0, batch |-> [e \in EventIds |-> 0], stage |-> "next", at |-> NULL,
         attempts |-> 0, until |-> NULL, seen |-> 0, fatal |-> FALSE]

\* The last conjunct is ck_outbox_lock_shape, and more: exactly the rows in
\* processing are under a lease.
QueueTypeOK ==
    /\ inserted \in 0..MaxEvents
    /\ DOMAIN rows \subseteq 1..inserted
    /\ rows \in [DOMAIN rows -> OutboxRow]
    /\ run \in [Processes -> Run]
    /\ notices \in [EventIds -> Nat]
    /\ clock \in 1..(MaxTime + 1)
    /\ crashes \in 0..MaxCrashes
    /\ errors \in 0..MaxErrors
    /\ \A e \in DOMAIN rows :
        /\ rows[e].owner = Nobody <=> rows[e].status # "processing"
        /\ rows[e].until = NULL <=> rows[e].status # "processing"

QueueInit ==
    /\ rows = [e \in {} |-> 0]
    /\ inserted = 0
    /\ run = [p \in Processes |-> Idle]
    /\ notices = [e \in EventIds |-> 0]
    /\ clock = 1
    /\ crashes = 0
    /\ errors = 0

InBatch(p) == {e \in EventIds : run[p].batch[e] > 0}

Aggregate(e) == AggregateOf[rows[e].msg]

(***************************************************************************)
(* Publishers and the other users of the table.                            *)
(***************************************************************************)
\* OutboxRepository.enqueue.  A key that is still in the table leaves it as
\* it is; only the jobs of other workers are scheduled for later.
Enqueue(m, t) ==
    /\ inserted < MaxEvents
    /\ \A e \in DOMAIN rows : rows[e].msg # m
    /\ t = clock \/ (m \in Foreign /\ t > clock)
    /\ inserted' = inserted + 1
    /\ rows' = [e \in DOMAIN rows \cup {inserted + 1} |->
                  IF e = inserted + 1
                  THEN [msg |-> m, status |-> "pending", attempts |-> 0, available |-> t,
                        owner |-> Nobody, until |-> NULL, processed |-> NULL]
                  ELSE rows[e]]
    /\ UNCHANGED <<run, notices, clock, crashes, errors>>

\* The worker of another event type finishes one of its own rows.
ForeignSettles(e) ==
    /\ e \in DOMAIN rows
    /\ rows[e].msg \in Foreign
    /\ rows[e].status # "delivered"
    /\ rows[e].available <= clock
    /\ rows' = [rows EXCEPT ![e] = [@ EXCEPT !.status = "delivered", !.processed = clock]]
    /\ UNCHANGED <<inserted, run, notices, clock, crashes, errors>>

\* retry_permanent_failure by an administrator: attempts stay as they are.
AdminRetry(e) ==
    /\ e \in DOMAIN rows
    /\ rows[e].status = "permanent_failed"
    /\ rows' = [rows EXCEPT ![e] = [@ EXCEPT !.status = "pending", !.available = clock]]
    /\ UNCHANGED <<inserted, run, notices, clock, crashes, errors>>

\* cleanup_delivered(before).
CleanupDelivered(before) ==
    LET old == {e \in DOMAIN rows : rows[e].status = "delivered" /\ rows[e].processed < before}
    IN  /\ old # {}
        /\ rows' = [e \in DOMAIN rows \ old |-> rows[e]]
        /\ UNCHANGED <<inserted, run, notices, clock, crashes, errors>>

(***************************************************************************)
(* TransactionalOutboxWorker.run_once                                      *)
(***************************************************************************)
\* Mutant: only rows that nobody is working on hold back their successors.
BlockedByWaiting(e, now) ==
    \E f \in DOMAIN rows :
        /\ f < e
        /\ Aggregate(f) = Aggregate(e)
        /\ rows[f].available <= now
        /\ rows[f].status \in {"pending", "retryable_failed"}

\* An earlier row of the aggregate, of whatever type, is due and not delivered.
Blocked(e, now) ==
    \E f \in DOMAIN rows :
        /\ f < e
        /\ Aggregate(f) = Aggregate(e)
        /\ rows[f].available <= now
        /\ rows[f].status # "delivered"

\* Mutant: what failed for good is claimed again.
ClaimableUndelivered(now) ==
    {e \in DOMAIN rows :
        /\ rows[e].msg \in Handled
        /\ rows[e].available <= now
        /\ rows[e].status # "delivered"
        /\ rows[e].until <= now
        /\ ~Blocked(e, now)}

\* Mutant: a claim whose holder died is never taken over.
ClaimableUnclaimed(now) ==
    {e \in DOMAIN rows :
        /\ rows[e].msg \in Handled
        /\ rows[e].available <= now
        /\ rows[e].status \in {"pending", "retryable_failed"}
        /\ rows[e].until <= now
        /\ ~Blocked(e, now)}

Claimable(now) ==
    {e \in DOMAIN rows :
        /\ rows[e].msg \in Handled
        /\ rows[e].available <= now
        /\ rows[e].status \in {"pending", "retryable_failed", "processing"}
        /\ rows[e].until <= now
        /\ ~Blocked(e, now)}

Precedes(e, f) ==
    \/ rows[e].available < rows[f].available
    \/ rows[e].available = rows[f].available /\ e <= f

ClaimBatch(now) ==
    {e \in Claimable(now) :
        Cardinality({f \in Claimable(now) : Precedes(f, e)}) <= Limit}

Claim(p) ==
    LET taken == ClaimBatch(clock)
    IN  /\ run[p].stage = "next"
        /\ InBatch(p) = {}
        /\ taken # {}
        /\ rows' = [e \in DOMAIN rows |->
                      IF e \in taken
                      THEN [rows[e] EXCEPT !.status = "processing",
                                           !.attempts = @ + 1,
                                           !.owner = NameOf[p],
                                           !.until = clock + Lease]
                      ELSE rows[e]]
        /\ run' = [run EXCEPT ![p] = [Idle EXCEPT !.now = clock, !.batch = [e \in EventIds |->
                            IF e \in taken THEN rows[e].attempts + 1 ELSE 0]]]
        /\ UNCHANGED <<inserted, notices, clock, crashes, errors>>

\* get_claimed: the claim still stands under this worker_id.
ClaimStands(p, e) ==
    /\ e \in DOMAIN rows
    /\ rows[e].status = "processing"
    /\ rows[e].owner = NameOf[p]
    /\ rows[e].until > clock

\* The loop goes on to the next row of the batch.
MovedOn(p, e) ==
    [run[p] EXCEPT !.batch = [@ EXCEPT ![e] = 0],
                   !.stage = "next", !.at = NULL, !.attempts = 0, !.until = NULL,
                   !.seen = 0, !.fatal = FALSE]

\* UPDATE ... RETURNING promises no order, so any row may be next.
TakeUp(p, e) ==
    /\ run[p].stage = "next"
    /\ e \in InBatch(p)
    /\ ClaimStands(p, e)
    /\ run' = [run EXCEPT ![p] = [@ EXCEPT !.stage = "deliver", !.at = e, !.seen = clock,
                                           !.attempts = rows[e].attempts,
                                           !.until = rows[e].until]]
    /\ UNCHANGED <<rows, inserted, notices, clock, crashes, errors>>

Skip(p, e) ==
    /\ run[p].stage = "next"
    /\ e \in InBatch(p)
    /\ ~ClaimStands(p, e)
    /\ run' = [run EXCEPT ![p] = MovedOn(p, e)]
    /\ UNCHANGED <<rows, inserted, notices, clock, crashes, errors>>

\* NotificationRepository.project: ON CONFLICT (outbox_event_id) DO NOTHING.
Projected(e) == [notices EXCEPT ![e] = IF @ = 0 THEN 1 ELSE @]

\* The handler commits its own transaction; finished_at is read afterwards.
Deliver(p) ==
    /\ run[p].stage = "deliver"
    /\ notices' = Projected(run[p].at)
    /\ run' = [run EXCEPT ![p] = [@ EXCEPT !.stage = "complete", !.seen = clock]]
    /\ UNCHANGED <<rows, inserted, clock, crashes, errors>>

\* Mutant: the update asks for the worker_id and forgets the claim.
FencedByName(p, e, attempts, until) ==
    /\ e \in DOMAIN rows
    /\ rows[e].status = "processing"
    /\ rows[e].owner = NameOf[p]

\* The WHERE clause of complete and fail.
Fenced(p, e, attempts, until) ==
    /\ e \in DOMAIN rows
    /\ rows[e].status = "processing"
    /\ rows[e].owner = NameOf[p]
    /\ rows[e].attempts = attempts
    /\ rows[e].until = until
    /\ rows[e].until > run[p].seen

Released(row, status) ==
    [row EXCEPT !.status = status, !.owner = Nobody, !.until = NULL]

\* A lost connection may also raise after the update is committed.
Complete(p) ==
    LET e == run[p].at
    IN  /\ run[p].stage = "complete"
        /\ rows' = IF Fenced(p, e, run[p].attempts, run[p].until)
                   THEN [rows EXCEPT ![e] =
                           [Released(@, "delivered") EXCEPT !.processed = run[p].seen]]
                   ELSE rows
        /\ \/ run' = [run EXCEPT ![p] = MovedOn(p, e)] /\ UNCHANGED errors
           \/ /\ errors < MaxErrors
              /\ errors' = errors + 1
              /\ run' = [run EXCEPT ![p] = [@ EXCEPT !.stage = "failing", !.seen = clock]]
        /\ UNCHANGED <<inserted, notices, clock, crashes>>

\* get_claimed, the handler or complete raises before it commits; only the
\* handler can raise PermanentDeliveryError.
Stumble(p, e, fatal) ==
    /\ errors < MaxErrors
    /\ e \in InBatch(p)
    /\ \/ run[p].stage = "next"
       \/ run[p].stage \in {"deliver", "complete"} /\ run[p].at = e
    /\ fatal => run[p].stage = "deliver"
    /\ run' = [run EXCEPT ![p] = [@ EXCEPT !.stage = "failing", !.at = e, !.seen = clock,
                                           !.fatal = fatal]]
    /\ errors' = errors + 1
    /\ UNCHANGED <<rows, inserted, notices, clock, crashes>>

AtMost(a, b) == IF a <= b THEN a ELSE b

Backoff(n) == AtMost(RetryBase * 2^AtMost(n - 1, 10), RetryMax)

\* _record_failure works with the row as the claim returned it, and dates the
\* retry from the claim.
RecordFailure(p, jitter) ==
    LET e == run[p].at
        n == run[p].batch[e]
    IN  /\ run[p].stage = "failing"
        /\ jitter <= AtMost(RetryBase, RetryMax - Backoff(n))
        /\ rows' = IF Fenced(p, e, n, run[p].now + Lease)
                   THEN [rows EXCEPT ![e] =
                           [Released(@, IF run[p].fatal \/ n >= MaxAttempts
                                        THEN "permanent_failed" ELSE "retryable_failed")
                              EXCEPT !.available = run[p].now + Backoff(n) + jitter]]
                   ELSE rows
        /\ run' = [run EXCEPT ![p] = MovedOn(p, e)]
        /\ UNCHANGED <<inserted, notices, clock, crashes, errors>>

\* The process dies, or _record_failure raises: claims wait for their lease.
Crash(p) ==
    /\ crashes < MaxCrashes
    /\ InBatch(p) # {}
    /\ run' = [run EXCEPT ![p] = Idle]
    /\ crashes' = crashes + 1
    /\ UNCHANGED <<rows, inserted, notices, clock, errors>>

Tick ==
    /\ clock < MaxTime
    /\ clock' = clock + 1
    /\ UNCHANGED <<rows, inserted, run, notices, crashes, errors>>

ProcessStep(p) ==
    \/ Claim(p)
    \/ \E e \in EventIds : TakeUp(p, e) \/ Skip(p, e)
    \/ Deliver(p)
    \/ Complete(p)
    \/ \E jitter \in 0..RetryBase : RecordFailure(p, jitter)

Fault(p) ==
    \/ \E e \in EventIds, fatal \in BOOLEAN : Stumble(p, e, fatal)
    \/ Crash(p)

QueueNext ==
    \/ \E m \in Messages, t \in 1..MaxTime : Enqueue(m, t)
    \/ \E e \in EventIds : ForeignSettles(e) \/ AdminRetry(e)
    \/ \E before \in 1..MaxTime : CleanupDelivered(before)
    \/ \E p \in Processes : ProcessStep(p) \/ Fault(p)
    \/ Tick

QueueSpec == QueueInit /\ [][QueueNext]_queueVars

\* The scheduler keeps calling run_once, other workers do their rows, and
\* time passes.  Nobody is obliged to publish, to retry by hand or to clean up.
QueueFairness ==
    /\ WF_queueVars(Tick)
    /\ \A p \in Processes : WF_queueVars(ProcessStep(p))
    /\ \A e \in EventIds : WF_queueVars(ForeignSettles(e))

FairQueueSpec == QueueSpec /\ QueueFairness

-----------------------------------------------------------------------------
\* Delivery is at least once and its effect is exactly once: however often a
\* row is delivered, by however many processes, it leaves one notification,
\* and a row that is ticked off has left it.
NotifiedExactlyOnce ==
    /\ \A e \in EventIds : notices[e] <= 1
    /\ \A e \in DOMAIN rows :
        rows[e].status = "delivered" /\ rows[e].msg \in Handled => notices[e] = 1

\* A claimed row leaves the claimed state only through the claim in force:
\* a process that overslept cannot settle the row on the strength of an older
\* claim, even one made under its own worker_id.
SettlementStep ==
    \A e \in DOMAIN rows :
        /\ rows[e].status = "processing"
        /\ e \in DOMAIN rows'
        /\ rows'[e].status # "processing"
        => \E p \in Processes :
            /\ run'[p] # run[p]
            /\ run[p].at = e
            /\ NameOf[p] = rows[e].owner
            /\ \/ run[p].stage = "complete" /\ run[p].attempts = rows[e].attempts
               \/ run[p].stage = "failing" /\ run[p].batch[e] = rows[e].attempts

\* A delivered row stays delivered until it is cleaned up, also when the
\* process that completed it reports an error afterwards.
DeliveredStep ==
    \A e \in DOMAIN rows : rows[e].status = "delivered" /\ e \in DOMAIN rows'
        => rows'[e] = rows[e]

\* A row is settled once, by the claim in force, and stays as it was settled.
SettledByItsClaim == [][SettlementStep /\ DeliveredStep]_queueVars

\* "ordering-by-aggregate": notifications of one aggregate are written in the
\* order of its rows, also through the backoff of a failed delivery.
InOrder ==
    \A e, f \in DOMAIN rows :
        /\ e < f
        /\ {rows[e].msg, rows[f].msg} \subseteq Handled
        /\ Aggregate(e) = Aggregate(f)
        /\ notices[f] = 1
        => notices[e] = 1

\* As long as no delivery has failed, competing processes, stale claims and
\* crashes do not change the order of an aggregate's notifications.
NotifiedInOrder == errors = 0 => InOrder

\* What the handlers make of at-least-once delivery: one notification for
\* each row, in the order of the rows while no delivery fails.
QueueInv == QueueTypeOK /\ NotifiedExactlyOnce /\ NotifiedInOrder

\* Where the contract of all queues has a row.  A row of another worker never
\* comes; one that has been cleaned up is known by its notification.
PhaseOf ==
    [pending |-> "open", retryable_failed |-> "open", processing |-> "claimed",
     permanent_failed |-> "abandoned", delivered |-> "settled"]

PhaseOfRow(e) ==
    IF e \in DOMAIN rows
    THEN IF rows[e].msg \in Handled THEN PhaseOf[rows[e].status] ELSE "absent"
    ELSE IF notices[e] = 0 THEN "absent" ELSE "forgotten"

\* The outbox implements the contract of all queues: a row is ticked off only
\* after its notification, which is written once whoever still delivers it; a
\* failure for good is reopened by an administrator only; and only what is
\* settled is cleaned up.
Contract == INSTANCE DeliveryContract WITH
    Items <- EventIds,
    phase <- [e \in EventIds |-> PhaseOfRow(e)],
    effect <- [e \in EventIds |-> notices[e] = 1]

QueueKeepsContract == Contract!Spec

\* The bound of the clock keeps the row, or one it waits for, from being due.
OutOfTime(e) ==
    \E f \in DOMAIN rows :
        /\ f <= e
        /\ Aggregate(f) = Aggregate(e)
        /\ rows[f].available > MaxTime \/ rows[f].until > MaxTime

\* A row that failed for good, and everything behind it in its aggregate,
\* waits for an administrator.
WaitsForAdmin(e) ==
    \E f \in DOMAIN rows :
        /\ f <= e
        /\ Aggregate(f) = Aggregate(e)
        /\ rows[f].status = "permanent_failed"

Pending(e) == e \in DOMAIN rows /\ rows[e].msg \in Handled

\* Every published row that has a handler leads to its notification, through
\* crashes, stalls and errors, unless a failure for good is in its way.
EveryNoticeArrives ==
    \A e \in EventIds :
        Pending(e) ~> (notices[e] = 1 \/ (e \in DOMAIN rows /\ (WaitsForAdmin(e) \/ OutOfTime(e))))

=============================================================================
