------------------------------ MODULE EventDesk ------------------------------
(***************************************************************************)
(* The registration desk of one event, at the grain of one committed       *)
(* database transaction.  Every operation of talaqi.registrations locks    *)
(* the event row before it reads anything else and holds it until commit,  *)
(* so a transaction is one step here.                                      *)
(*                                                                         *)
(* A request reads the wall clock once, before it waits for any lock, and  *)
(* judges every deadline by that reading.  An operation therefore carries  *)
(* the instant `at' of its request, which may be up to Lag behind `clock', *)
(* the time at which it commits.                                           *)
(***************************************************************************)
EXTENDS Integers, FiniteSets

CONSTANTS
    Users,        \* members who may register
    MaxRegs,      \* bound: registration rows ever created for the event
    Capacities,   \* values an organizer may give events.capacity
    StartTimes,   \* values an organizer may give events.start_at
    AllowedMethods, \* allowed_registration_methods of the region policy
    MaxTime,      \* bound: the last instant of the clock
    Lag,          \* bound: how old a request's clock reading may be
    CashTicks,    \* events.cash_expiry_minutes
    CutoffTicks   \* events.cancellation_cutoff_minutes

ASSUME DeskAssumption ==
    /\ MaxRegs \in Nat
    /\ Capacities \subseteq Nat \ {0}
    /\ StartTimes \subseteq Nat \ {0}
    /\ AllowedMethods \subseteq {"free", "cash"}
    /\ MaxTime \in Nat
    /\ Lag \in Nat
    /\ CashTicks \in Nat \ {0}
    /\ CutoffTicks \in Nat

VARIABLES
    event,      \* the event row: status, capacity, start, method
    reg,        \* registration rows, numbered in order of insertion
    due,        \* available_at of the cash-expiry job of a row, if it has one
    eligible,   \* users whose evaluated capabilities allow register_event
    clock

vars == <<event, reg, due, eligible, clock>>

Methods == {"free", "cash"}
SeatStates == {"confirmed", "cash_pending"}
ActiveStates == SeatStates \cup {"waitlisted"}
States == ActiveStates \cup {"cancelled", "expired"}
EventStatuses == {"published", "suspended", "cancelled", "completed"}

NULL == 0    \* no waitlist sequence; no cash deadline

RegIds == 1..MaxRegs

Row == [user : Users, method : Methods, state : States, seat_held : BOOLEAN,
        waitlist_sequence : Nat, cash_expires_at : Nat]

TypeOK ==
    /\ event \in [status : EventStatuses, capacity : Capacities,
                  start : StartTimes, method : Methods]
    /\ DOMAIN reg \subseteq RegIds
    /\ reg \in [DOMAIN reg -> Row]
    /\ DOMAIN due \subseteq DOMAIN reg
    /\ due \in [DOMAIN due -> Nat]
    /\ eligible \subseteq Users
    /\ clock \in 1..(MaxTime + 1)

(***************************************************************************)
(* Queries of RegistrationRepository, over a table g of rows.              *)
(***************************************************************************)
Held(g) == {r \in DOMAIN g : g[r].seat_held}

Waiting(g) == {r \in DOMAIN g : g[r].state = "waitlisted"}

Active(g, u) == {r \in DOMAIN g : g[r].user = u /\ g[r].state \in ActiveStates}

\* Mutant: seats of unpaid reservations are not counted.
SeatAvailableConfirmedOnly(g) ==
    Cardinality({r \in DOMAIN g : g[r].state = "confirmed"}) < event.capacity

SeatAvailable(g) == Cardinality(Held(g)) < event.capacity

\* Mutant: the largest number is given out again.
IsNextSequenceLargest(g, n) ==
    /\ \A q \in Waiting(g) : g[q].waitlist_sequence <= n
    /\ \/ n = 1
       \/ \E q \in Waiting(g) : g[q].waitlist_sequence = n

\* coalesce(max(waitlist_sequence), 0) + 1 over the rows still waitlisted, so
\* a number is used again once the waitlist has drained.
IsNextSequence(g, n) ==
    /\ \A q \in Waiting(g) : g[q].waitlist_sequence < n
    /\ \/ n = 1
       \/ \E q \in Waiting(g) : g[q].waitlist_sequence = n - 1

IsNextId(r) ==
    /\ r \notin DOMAIN reg
    /\ \A q \in RegIds \ DOMAIN reg : r <= q

CashDeadline(at) ==
    IF at + CashTicks <= event.start THEN at + CashTicks ELSE event.start

(***************************************************************************)
(* RegistrationTransitionService: the row after a transition to target.    *)
(***************************************************************************)
Moved(row, target, deadline) ==
    [row EXCEPT !.state = target,
                !.seat_held = target \in SeatStates,
                !.waitlist_sequence = NULL,
                !.cash_expires_at = IF target = "expired" THEN @ ELSE deadline]

\* event_not_transitionable, for every target but "expired".
Transitionable(at) == event.status = "published" /\ event.start > at

(***************************************************************************)
(* PromotionService.promote_next, over the table g of the transaction it   *)
(* runs in: waitlisted rows are taken in sequence order, ineligible ones   *)
(* are cancelled on the way, and the first eligible one gets the seat.     *)
(***************************************************************************)
PromotionOpen(g, at) == event.start > at /\ SeatAvailable(g)

PromotionTarget == IF event.method = "free" THEN "confirmed" ELSE "cash_pending"

\* Mutants: last come, first served; only the head of the queue is looked at.
FirstEligibleDescending(g) ==
    {r \in Waiting(g) :
        /\ g[r].user \in eligible
        /\ \A q \in Waiting(g) : g[q].user \in eligible =>
              g[r].waitlist_sequence >= g[q].waitlist_sequence}
FirstEligibleHeadOnly(g) ==
    {r \in Waiting(g) :
        /\ g[r].user \in eligible
        /\ \A q \in Waiting(g) : g[r].waitlist_sequence <= g[q].waitlist_sequence}

FirstEligible(g) ==
    {r \in Waiting(g) :
        /\ g[r].user \in eligible
        /\ \A q \in Waiting(g) : g[q].user \in eligible =>
              g[r].waitlist_sequence <= g[q].waitlist_sequence}

Skipped(g) ==
    {r \in Waiting(g) :
        /\ g[r].user \notin eligible
        /\ \A q \in FirstEligible(g) :
              g[r].waitlist_sequence < g[q].waitlist_sequence}

\* invalid_registration_method_transition: a row registered while the event
\* was free cannot become cash_pending.  The exception leaves promote_next and
\* rolls the whole surrounding transaction back.
PromotionRaises(g, at) ==
    /\ PromotionOpen(g, at)
    /\ PromotionTarget = "cash_pending"
    /\ \E r \in FirstEligible(g) : g[r].method = "free"

AfterPromotion(g, at) ==
    IF PromotionOpen(g, at)
    THEN [r \in DOMAIN g |->
            IF r \in FirstEligible(g)
            THEN Moved(g[r], PromotionTarget,
                       IF event.method = "cash" THEN CashDeadline(at) ELSE NULL)
            ELSE IF r \in Skipped(g) THEN Moved(g[r], "cancelled", NULL)
            ELSE g[r]]
    ELSE g

\* Rows that become cash_pending enqueue their expiry job in the same
\* transaction; ON CONFLICT DO NOTHING keeps the first job of a row.
NewlyPending(g) ==
    {r \in DOMAIN g :
        /\ g[r].state = "cash_pending"
        /\ r \in DOMAIN reg => reg[r].state # "cash_pending"}

Commit(g) ==
    /\ reg' = g
    /\ due' = [r \in DOMAIN due \cup NewlyPending(g) |->
                 IF r \in DOMAIN due THEN due[r] ELSE g[r].cash_expires_at]
    /\ UNCHANGED <<event, eligible, clock>>

-----------------------------------------------------------------------------
Init ==
    /\ event \in [status : {"published"}, capacity : Capacities,
                  start : StartTimes, method : AllowedMethods]
    /\ reg = [r \in {} |-> 0]
    /\ due = [r \in {} |-> 0]
    /\ eligible = Users
    /\ clock = 1

\* The instant a request was stamped with.
RequestTime(at) == at \in 1..MaxTime /\ at <= clock /\ clock <= at + Lag

\* State and method of a fresh row; _create never looks at the waitlist.
NewRow(u, n, at) ==
    LET state == IF ~SeatAvailable(reg) THEN "waitlisted"
                 ELSE IF event.method = "free" THEN "confirmed" ELSE "cash_pending"
    IN  [user |-> u, method |-> event.method, state |-> state,
         seat_held |-> state \in SeatStates,
         waitlist_sequence |-> IF state = "waitlisted" THEN n ELSE NULL,
         cash_expires_at |-> IF state = "cash_pending" THEN CashDeadline(at) ELSE NULL]

MayRegister(u, at) ==
    /\ event.status = "published"
    /\ u \in eligible
    /\ Active(reg, u) = {}
    /\ event.start > at

\* RegistrationCreationService.register.  A member with an active
\* registration gets that one back, and nothing changes.
Register(u, at) ==
    /\ RequestTime(at)
    /\ MayRegister(u, at)
    /\ \E r, n \in RegIds :
        /\ IsNextId(r)
        /\ IsNextSequence(reg, n)
        /\ Commit([q \in DOMAIN reg \cup {r} |->
                     IF q = r THEN NewRow(u, n, at) ELSE reg[q]])

\* RegistrationCancellationService.cancel: a row that held a seat hands it to
\* the waitlist in the same transaction.
Cancel(u, at) ==
    /\ RequestTime(at)
    /\ event.status = "published"
    /\ at < event.start - CutoffTicks
    /\ \E r \in Active(reg, u) :
        LET g == [reg EXCEPT ![r] = Moved(reg[r], "cancelled", NULL)]
        IN  IF reg[r].seat_held
            THEN ~PromotionRaises(g, at) /\ Commit(AfterPromotion(g, at))
            ELSE Commit(g)

\* Mutant: the deadline stands in for the state.
MayConfirmByDeadline(r, at) ==
    reg[r].method = "cash" /\ reg[r].cash_expires_at > at

MayConfirm(r, at) ==
    /\ reg[r].method = "cash"
    /\ reg[r].state = "cash_pending"
    /\ reg[r].cash_expires_at > at

\* CashConfirmationService.confirm by a manager of the event.
ConfirmCash(r, at) ==
    /\ RequestTime(at)
    /\ r \in DOMAIN reg
    /\ MayConfirm(r, at)
    /\ Transitionable(at)
    /\ Commit([reg EXCEPT ![r] = Moved(reg[r], "confirmed", NULL)])

\* Mutant: the state of the locked row is not looked at.
ExpiryDueByJob(r, at) ==
    due[r] <= at /\ reg[r].cash_expires_at <= at /\ event.status = "published"

ExpiryDue(r, at) ==
    /\ due[r] <= at
    /\ reg[r].state = "cash_pending"
    /\ reg[r].cash_expires_at <= at
    /\ event.status = "published"

\* CashExpiryProcessor.process on the job of row r: expiry, release of the
\* seat and promotion are one transaction.  The worker reads the clock once
\* for a whole batch, so its reading may be of any age.
ExpireCash(r, at) ==
    /\ at <= clock
    /\ r \in DOMAIN due
    /\ ExpiryDue(r, at)
    /\ LET g == [reg EXCEPT ![r] = Moved(reg[r], "expired", NULL)]
       IN  ~PromotionRaises(g, at) /\ Commit(AfterPromotion(g, at))

\* EventService.update of a published event.  A new start must lie in the
\* future; capacity and method are not compared with the registrations.
UpdateEvent(c, s, m, at) ==
    /\ RequestTime(at)
    /\ event.status = "published"
    /\ s # event.start => s > at
    /\ event' = [event EXCEPT !.capacity = c, !.start = s, !.method = m]
    /\ event' # event
    /\ UNCHANGED <<reg, due, eligible, clock>>

SetStatus(from, to) ==
    /\ event.status = from
    /\ event' = [event EXCEPT !.status = to]
    /\ UNCHANGED <<reg, due, eligible, clock>>

CancelEvent == SetStatus("published", "cancelled")

\* end_at is only known to be later than start_at.
CompleteEvent(at) ==
    RequestTime(at) /\ at > event.start /\ SetStatus("published", "completed")

SuspendEvent == SetStatus("published", "suspended")

RestoreEvent == SetStatus("suspended", "published")

\* A suspension, a restored account, a profile or rules change elsewhere.
ToggleEligible(u) ==
    /\ eligible' = IF u \in eligible THEN eligible \ {u} ELSE eligible \cup {u}
    /\ UNCHANGED <<event, reg, due, clock>>

Tick ==
    /\ clock < MaxTime
    /\ clock' = clock + 1
    /\ UNCHANGED <<event, reg, due, eligible>>

Next ==
    \/ \E u \in Users, at \in 1..MaxTime : Register(u, at) \/ Cancel(u, at)
    \/ \E r \in RegIds, at \in 1..MaxTime : ConfirmCash(r, at) \/ ExpireCash(r, at)
    \/ \E c \in Capacities, s \in StartTimes, m \in AllowedMethods, at \in 1..MaxTime :
          UpdateEvent(c, s, m, at)
    \/ \E at \in 1..MaxTime : CompleteEvent(at)
    \/ CancelEvent
    \/ SuspendEvent
    \/ RestoreEvent
    \/ \E u \in Users : ToggleEligible(u)
    \/ Tick

Spec == Init /\ [][Next]_vars

\* The same desk with organizers who never lower a published capacity.
NextNoLowering == Next /\ event'.capacity >= event.capacity

SpecNoLowering == Init /\ [][NextNoLowering]_vars

-----------------------------------------------------------------------------
(***************************************************************************)
(* Properties.                                                             *)
(***************************************************************************)

RowShape(row) ==
    /\ row.seat_held <=> row.state \in SeatStates
    /\ row.state \in {"cash_pending", "expired"} => row.method = "cash"
    /\ row.state \in {"cash_pending", "expired"} <=> row.cash_expires_at # NULL
    /\ row.state = "waitlisted" <=> row.waitlist_sequence # NULL

\* The CHECK constraint ck_registrations_seat_state never fires: a seat is
\* held exactly by confirmed and cash-pending rows, only a cash row is ever
\* pending or expired, and only a waitlisted row has a place in the queue.
SeatShape == \A r \in DOMAIN reg : RowShape(reg[r])

\* uq_registrations_active_member_event never fires: however often a member
\* leaves and returns, one registration is active at a time.
OneActivePerMember == \A u \in Users : \A r, q \in Active(reg, u) : r = q

\* The numbers of waitlisted rows grow in the order of their arrival although
\* numbers are used again once the waitlist drains.  In particular no two are
\* equal: uq_registrations_waitlist_sequence never fires.
QueueInOrder ==
    \A r, q \in Waiting(reg) :
        r < q => reg[r].waitlist_sequence < reg[q].waitlist_sequence

\* Every held cash reservation has a job that falls due at its deadline, so
\* no reservation can keep a seat merely because nobody scheduled its end.
PendingHasJob ==
    \A r \in DOMAIN reg : reg[r].state = "cash_pending" =>
        r \in DOMAIN due /\ due[r] = reg[r].cash_expires_at

\* The two facts about the tables that make the rest inductive: rows are
\* numbered without gaps, and nobody has a job before leaving the waitlist.
NoGaps == \A r \in DOMAIN reg : \A q \in RegIds : q < r => q \in DOMAIN reg

NoEarlyJob == \A r \in DOMAIN due : reg[r].state # "waitlisted"

\* The tables stay consistent through every transaction of the desk: no
\* constraint of the schema is left to catch what the code does wrong, the
\* queue keeps its order, and every reservation has somebody to end it.
DeskInv ==
    /\ TypeOK
    /\ SeatShape
    /\ OneActivePerMember
    /\ NoGaps
    /\ QueueInOrder
    /\ NoEarlyJob
    /\ PendingHasJob

\* A step that puts one more member in a seat leaves the event within the
\* capacity it has at that step, whatever the organizer did to the capacity
\* before (register, cancel + promote, expire + promote).
GrowthWithinCapacity ==
    Cardinality(Held(reg')) > Cardinality(Held(reg))
        => Cardinality(Held(reg')) <= event'.capacity

NeverOversells == [][GrowthWithinCapacity]_vars

\* Promotion is FIFO in order of arrival: whoever leaves the waitlist for a
\* seat leaves nobody behind who joined it earlier, except members who lost
\* their eligibility and are cancelled by the same transaction.
FifoStep ==
    \A r \in Waiting(reg) : reg'[r].seat_held =>
        \A q \in Waiting(reg) : q < r => reg'[q].state = "cancelled"

PromotionIsFifo == [][FifoStep]_vars

\* A seat that becomes free is not left idle while an eligible member waits,
\* unless the event is over capacity or has started.
NoIdleSeatStep ==
    Cardinality(Held(reg')) < Cardinality(Held(reg)) =>
        \/ Cardinality(Held(reg')) >= event.capacity
        \/ event.start <= clock
        \/ \A r \in Waiting(reg') : reg'[r].user \notin eligible

FreedSeatIsOffered == [][NoIdleSeatStep]_vars

\* Cancelled and expired are final, also against a request whose clock
\* reading is older than the transaction that ended the row.
FinalStep ==
    \A r \in DOMAIN reg : reg[r].state \in {"cancelled", "expired"}
        => r \in DOMAIN reg' /\ reg'[r] = reg[r]

TerminalIsFinal == [][FinalStep]_vars

(***************************************************************************)
(* Statements of the product documents that this code does not keep.       *)
(***************************************************************************)

\* "confirmed plus seat-holding cash_pending registrations never exceed
\* capacity": an organizer may lower the capacity below the seats held.
NeverOverCapacity == Cardinality(Held(reg)) <= event.capacity

\* "Waitlists are deterministic FIFO": a newcomer takes a free seat while an
\* earlier eligible member is waitlisted, because raising the capacity
\* promotes nobody and registering does not look at the waitlist.
NewcomerWaitsStep ==
    \A r \in DOMAIN reg' \ DOMAIN reg : reg'[r].seat_held =>
        \A q \in Waiting(reg) : reg[q].user \notin eligible

NewcomersWaitTheirTurn == [][NewcomerWaitsStep]_vars

\* "Neither deadline passes event start": start_at may be moved in front of
\* the deadline of reservations that are already held.
DeadlineWithinStart ==
    \A r \in DOMAIN reg : reg[r].state = "cash_pending"
        => reg[r].cash_expires_at <= event.start

\* "Promote the earliest eligible registration; for cash events promote to
\* cash-pending": after a switch from free to cash a waitlisted row of the
\* free time makes promotion raise, and the seat holder cannot cancel.
SeatHolderCanLeave ==
    \A r \in Held(reg) :
        LET g == [reg EXCEPT ![r] = Moved(reg[r], "cancelled", NULL)]
        IN  event.status = "published" /\ clock < event.start - CutoffTicks
              => ~PromotionRaises(g, clock)

=============================================================================
