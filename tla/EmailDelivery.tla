----------------------------- MODULE EmailDelivery -----------------------------
(***************************************************************************)
(* Transactional e-mail: the rows that the notification projection leaves  *)
(* in notification_deliveries, the processes that claim them under a lease *)
(* and present them to the mail provider, and the daily quota of a         *)
(* recipient.  The provider answers outside every transaction; it may take *)
(* a mail and lose the answer, and a process may outlast its lease while   *)
(* it waits.  A claim has no owner: attempt_count is its only fence.       *)
(***************************************************************************)
EXTENDS Integers, FiniteSets

CONSTANTS
    Mails,        \* deliveries of channel e-mail
    Security,     \* those of identity and moderation events
    RecipientOf,  \* mail -> recipient_user_id
    Processes,
    Limit,        \* mails claimed at once
    Quota,        \* daily_recipient_quota
    MaxAttempts,
    Lease,        \* processing_lease
    Backoff,      \* the shortest delay of a retry; longer ones need more ticks
    Day,          \* ticks of one UTC date
    MaxTime,      \* bound: the last instant of the clock
    MaxFaults     \* bound: failed calls and transactions, dead processes

ASSUME EmailAssumption ==
    /\ IsFiniteSet(Mails) /\ Security \subseteq Mails
    /\ Mails \subseteq DOMAIN RecipientOf
    /\ {Limit, Quota, MaxAttempts, Lease, Backoff, Day} \subseteq Nat \ {0}
    /\ {MaxTime, MaxFaults} \subseteq Nat

VARIABLES
    delivery,  \* notification_deliveries, mail -> row
    slot,      \* email_quota_reservations, mail -> (date, slot)
    accepted,  \* mails the provider has taken, known by idempotency_key
    wants,     \* recipient -> notify_event_email and notify_community_email
    worker,    \* what a process has in memory during run_once
    clock,
    faults

emailVars == <<delivery, slot, accepted, wants, worker, clock, faults>>

NULL == 0    \* next_attempt_at or processing_started_at IS NULL

Statuses == {"pending", "processing", "retryable_failed", "permanent_failed", "delivered"}

Delivery == [status : Statuses, attempts : Nat, next : Nat, started : Nat]

Absent == [status |-> "absent", attempts |-> 0, next |-> NULL, started |-> NULL]

Reservation == [date : Nat, number : Nat]

\* The primary key of a reservation is the delivery; number 0: there is none.
Unreserved == [date |-> 0, number |-> 0]

\* now is `current', read once for the whole batch; batch holds the
\* attempt_count that the claim returned for each mail still to be handled.
Worker == [now : Nat, batch : [Mails -> Nat], at : SUBSET Mails,
           stage : {"next", "reserve", "defer", "send", "complete", "fail"},
           fatal : BOOLEAN]

Resting == [now |-> 0, batch |-> [m \in Mails |-> 0], at |-> {}, stage |-> "next",
            fatal |-> FALSE]

Recipients == {RecipientOf[m] : m \in Mails}

DateOf(t) == (t - 1) \div Day + 1

Midnight(t) == DateOf(t) * Day + 1    \* the first instant of the next date

\* A row in processing is exactly one whose claim has a start, and only a
\* row that failed for now has a time for the next attempt.
EmailTypeOK ==
    /\ delivery \in [Mails -> Delivery \cup {Absent}]
    /\ slot \in [Mails -> Reservation]
    /\ accepted \subseteq Mails
    /\ wants \in [Recipients -> BOOLEAN]
    /\ worker \in [Processes -> Worker]
    /\ clock \in 1..(MaxTime + 1)
    /\ faults \in 0..MaxFaults
    /\ \A m \in Mails :
        /\ delivery[m].started # NULL <=> delivery[m].status = "processing"
        /\ delivery[m].next # NULL <=> delivery[m].status = "retryable_failed"

EmailInit ==
    /\ delivery = [m \in Mails |-> Absent]
    /\ slot = [m \in Mails |-> Unreserved]
    /\ accepted = {}
    /\ wants = [r \in Recipients |-> TRUE]
    /\ worker = [p \in Processes |-> Resting]
    /\ clock = 1
    /\ faults = 0

-----------------------------------------------------------------------------
(***************************************************************************)
(* The projection and the member's preferences.                            *)
(***************************************************************************)
\* NotificationRepository.project: a security mail is always allowed.
EmailAllowed(m) == m \in Security \/ wants[RecipientOf[m]]

Project(m) ==
    /\ delivery[m] = Absent
    /\ EmailAllowed(m)
    /\ delivery' = [delivery EXCEPT ![m].status = "pending"]
    /\ UNCHANGED <<slot, accepted, wants, worker, clock, faults>>

\* update_preferences changes what later projections do, not the mails that
\* are waiting.  Bound: no change once nothing is left that it decides on.
UpdatePreferences(r) ==
    /\ \E m \in Mails \ Security : RecipientOf[m] = r /\ delivery[m] = Absent
    /\ wants' = [wants EXCEPT ![r] = ~@]
    /\ UNCHANGED <<delivery, slot, accepted, worker, clock, faults>>

-----------------------------------------------------------------------------
(***************************************************************************)
(* EmailDeliveryWorker.run_once.                                           *)
(***************************************************************************)
\* Mutant: a lease that is never waited for.
ClaimableAtOnce(m, now) ==
    \/ delivery[m].status \in {"pending", "retryable_failed"} /\ delivery[m].next <= now
    \/ delivery[m].status = "processing"

\* Mutant: crashed claims are never taken over.
ClaimableOnce(m, now) ==
    delivery[m].status \in {"pending", "retryable_failed"} /\ delivery[m].next <= now

Claimable(m, now) ==
    \/ delivery[m].status \in {"pending", "retryable_failed"} /\ delivery[m].next <= now
    \/ delivery[m].status = "processing" /\ delivery[m].started + Lease <= now

\* Mails projected in one transaction have no order that a model should fix:
\* a full batch is any set of claimable mails.
ClaimBatch(now) ==
    LET due == {m \in Mails : Claimable(m, now)}
    IN {S \in SUBSET due : Cardinality(S) = Limit \/ (S = due /\ Cardinality(S) < Limit)}

Claim(p) ==
    /\ worker[p] = Resting
    /\ \E S \in ClaimBatch(clock) \ {{}} :
        /\ delivery' = [m \in Mails |->
             IF m \in S
             THEN [status |-> "processing", attempts |-> delivery[m].attempts + 1,
                   next |-> NULL, started |-> clock]
             ELSE delivery[m]]
        /\ worker' = [worker EXCEPT ![p] =
             [Resting EXCEPT !.now = clock,
                             !.batch = [m \in Mails |->
                                IF m \in S THEN delivery'[m].attempts ELSE 0]]]
    /\ UNCHANGED <<slot, accepted, wants, clock, faults>>

InBatch(p) == {m \in Mails : worker[p].batch[m] > 0}

AtMail(p, m, stage) == worker[p].at = {m} /\ worker[p].stage = stage

\* The process is done with its mail, and after the last one with run_once.
Proceeded(p, m) ==
    LET rest == [worker[p].batch EXCEPT ![m] = 0]
    IN IF InBatch(p) = {m} THEN Resting
       ELSE [worker[p] EXCEPT !.batch = rest, !.at = {}, !.stage = "next", !.fatal = FALSE]

Going(p, m, stage) == [worker[p] EXCEPT !.at = {m}, !.stage = stage]

\* The loop takes the next mail.  What is not a security event needs a
\* reservation; one made by an earlier attempt, on whatever date, is used.
Pick(p, m) ==
    /\ worker[p].stage = "next"
    /\ m \in InBatch(p)
    /\ worker' = [worker EXCEPT ![p] =
         Going(p, m, IF m \in Security \/ slot[m] # Unreserved THEN "send" ELSE "reserve")]
    /\ UNCHANGED <<delivery, slot, accepted, wants, clock, faults>>

\* Mutant: what has been sent is counted, instead of what is reserved.
SlotsTakenBySent(r, date) ==
    Cardinality({m \in Mails : RecipientOf[m] = r /\ slot[m].date = date
                                 /\ delivery[m].status = "delivered"})

SlotsTaken(r, date) ==
    Cardinality({m \in Mails : RecipientOf[m] = r /\ slot[m].date = date})

\* The rest of _reserve_quota, under the recipient's advisory lock, which is
\* kept until the commit.
Reserve(p, m) ==
    /\ AtMail(p, m, "reserve")
    /\ slot[m] = Unreserved
    /\ LET date == DateOf(worker[p].now)
           number == SlotsTaken(RecipientOf[m], date) + 1
       IN IF number > Quota
          THEN /\ worker' = [worker EXCEPT ![p].stage = "defer"]
               /\ UNCHANGED slot
          ELSE /\ slot' = [slot EXCEPT ![m] = [date |-> date, number |-> number]]
               /\ worker' = [worker EXCEPT ![p].stage = "send"]
    /\ UNCHANGED <<delivery, accepted, wants, clock, faults>>

\* Another process has reserved for this mail since Pick looked: the primary
\* key refuses a second row, and the exception makes the attempt fail.
ReserveTwice(p, m) ==
    /\ AtMail(p, m, "reserve")
    /\ slot[m] # Unreserved
    /\ SlotsTaken(RecipientOf[m], DateOf(worker[p].now)) < Quota
    /\ worker' = [worker EXCEPT ![p].stage = "fail"]
    /\ UNCHANGED <<delivery, slot, accepted, wants, clock, faults>>

\* The count comes before the insert, so a full date defers this mail too.
ReserveTooLate(p, m) ==
    /\ AtMail(p, m, "reserve")
    /\ slot[m] # Unreserved
    /\ SlotsTaken(RecipientOf[m], DateOf(worker[p].now)) >= Quota
    /\ worker' = [worker EXCEPT ![p].stage = "defer"]
    /\ UNCHANGED <<delivery, slot, accepted, wants, clock, faults>>

\* Mutant: a claim is recognised by the state of the row alone.
FencedByStatus(p, m) == delivery[m].status = "processing"

\* Mutant: a late process still ends the claim.
Unfenced(p, m) == TRUE

\* The condition of the three updates that end a claim.
Fenced(p, m) ==
    delivery[m].status = "processing" /\ delivery[m].attempts = worker[p].batch[m]

EndClaim(p, m, status, next) ==
    /\ delivery' = IF Fenced(p, m)
                   THEN [delivery EXCEPT ![m].status = status, ![m].next = next,
                                         ![m].started = NULL]
                   ELSE delivery
    /\ worker' = [worker EXCEPT ![p] = Proceeded(p, m)]

\* _defer_quota: tomorrow, whatever the number of attempts.
DeferQuota(p, m) ==
    /\ AtMail(p, m, "defer")
    /\ EndClaim(p, m, "retryable_failed", Midnight(worker[p].now))
    /\ UNCHANGED <<slot, accepted, wants, clock, faults>>

\* The provider takes the mail and answers with its id.
Send(p, m) ==
    /\ AtMail(p, m, "send")
    /\ accepted' = accepted \cup {m}
    /\ worker' = [worker EXCEPT ![p].stage = "complete"]
    /\ UNCHANGED <<delivery, slot, wants, clock, faults>>

\* The provider refuses the mail, or takes it and the answer is lost; a
\* refusal of the recipient or of the mail is permanent.
SendFails(p, m, taken, fatal) ==
    /\ AtMail(p, m, "send")
    /\ faults < MaxFaults
    /\ fatal => ~taken
    /\ faults' = faults + 1
    /\ accepted' = IF taken THEN accepted \cup {m} ELSE accepted
    /\ worker' = [worker EXCEPT ![p].stage = "fail", ![p].fatal = fatal]
    /\ UNCHANGED <<delivery, slot, wants, clock>>

Complete(p, m) ==
    /\ AtMail(p, m, "complete")
    /\ EndClaim(p, m, "delivered", NULL)
    /\ UNCHANGED <<slot, accepted, wants, clock, faults>>

\* A transaction of the loop raises before it commits.
Stumble(p, m) ==
    /\ worker[p].at = {m}
    /\ worker[p].stage \in {"reserve", "defer", "complete"}
    /\ faults < MaxFaults
    /\ faults' = faults + 1
    /\ worker' = [worker EXCEPT ![p].stage = "fail"]
    /\ UNCHANGED <<delivery, slot, accepted, wants, clock>>

GivesUp(p, m) == worker[p].fatal \/ worker[p].batch[m] >= MaxAttempts

\* _fail.
Fail(p, m) ==
    /\ AtMail(p, m, "fail")
    /\ IF GivesUp(p, m)
       THEN EndClaim(p, m, "permanent_failed", NULL)
       ELSE EndClaim(p, m, "retryable_failed", worker[p].now + Backoff)
    /\ UNCHANGED <<slot, accepted, wants, clock, faults>>

\* The process dies, or _fail itself raises: run_once ends with its batch.
Crash(p) ==
    /\ worker[p] # Resting
    /\ faults < MaxFaults
    /\ faults' = faults + 1
    /\ worker' = [worker EXCEPT ![p] = Resting]
    /\ UNCHANGED <<delivery, slot, accepted, wants, clock>>

Tick ==
    /\ clock < MaxTime
    /\ clock' = clock + 1
    /\ UNCHANGED <<delivery, slot, accepted, wants, worker, faults>>

WorkerStep(p) ==
    \/ Claim(p)
    \/ \E m \in Mails :
        \/ Pick(p, m) \/ Reserve(p, m) \/ ReserveTwice(p, m) \/ ReserveTooLate(p, m)
        \/ DeferQuota(p, m) \/ Send(p, m) \/ Complete(p, m) \/ Fail(p, m)

Fault(p) ==
    \/ \E m \in Mails, taken, fatal \in BOOLEAN : SendFails(p, m, taken, fatal)
    \/ \E m \in Mails : Stumble(p, m)
    \/ Crash(p)

EmailNext ==
    \/ \E m \in Mails : Project(m)
    \/ \E r \in Recipients : UpdatePreferences(r)
    \/ \E p \in Processes : WorkerStep(p) \/ Fault(p)
    \/ Tick

EmailSpec == EmailInit /\ [][EmailNext]_emailVars

\* The scheduler calls run_once again after any outcome, and time passes.
EmailFairness ==
    /\ WF_emailVars(Tick)
    /\ \A p \in Processes : WF_emailVars(WorkerStep(p))

FairEmailSpec == EmailSpec /\ EmailFairness

-----------------------------------------------------------------------------
\* The quota of a recipient: the reservations of one date are numbered
\* without gaps up to the quota, however many processes reserve at once, and
\* nothing but security mail reaches the provider without one.
QuotaKept ==
    /\ \A r \in Recipients, date \in 1..DateOf(MaxTime) :
        LET taken == {m \in Mails : RecipientOf[m] = r /\ slot[m].date = date}
        IN /\ Cardinality(taken) <= Quota
           /\ {slot[m].number : m \in taken} = 1..Cardinality(taken)
    /\ \A m \in accepted \ Security : slot[m] # Unreserved

\* Two processes handle one mail only if the lease of the first ran out: a
\* process whose claim has been superseded is at least a lease old.
SupersededIsOld ==
    \A p \in Processes, m \in Mails :
        m \in InBatch(p) /\ worker[p].batch[m] < delivery[m].attempts
            => clock >= worker[p].now + Lease

\* Rows, claims and leases agree.
EmailInv == EmailTypeOK /\ SupersededIsOld

\* A claim is ended by the process that made it, never by one that overslept
\* and whose mail has been claimed again: the number of attempts is a
\* sufficient fence although a claim has no owner.
EndStep ==
    \A m \in Mails :
        delivery[m].status = "processing" /\ delivery'[m].status # "processing"
        => \E p \in Processes :
            /\ worker'[p] # worker[p]
            /\ m \in worker[p].at
            /\ worker[p].batch[m] = delivery[m].attempts
            /\ worker[p].now = delivery[m].started

EndedByItsClaim == [][EndStep]_emailVars

\* The e-mail queue implements the contract of all queues: delivered means
\* that the provider has taken the mail, also through lost answers, crashes
\* and claims that were taken over.
PhaseOf ==
    [absent |-> "absent", pending |-> "open", retryable_failed |-> "open",
     processing |-> "claimed", permanent_failed |-> "abandoned", delivered |-> "settled"]

Contract == INSTANCE DeliveryContract WITH
    Items <- Mails,
    phase <- [m \in Mails |-> PhaseOf[delivery[m].status]],
    effect <- [m \in Mails |-> m \in accepted]

MailKeepsContract == Contract!Spec

\* The bound of the clock keeps the mail from being claimed again.
OutOfTime(m) == delivery[m].next > MaxTime \/ delivery[m].started + Lease > MaxTime

\* Every mail is delivered or given up in the end, through deferrals to the
\* next date, failures of the provider and a process that dies with it.
EveryMailEnds ==
    \A m \in Mails :
        delivery[m] # Absent
            ~> delivery[m].status \in {"delivered", "permanent_failed"} \/ OutOfTime(m)

=============================================================================
