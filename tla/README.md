# Talaqi: specifications and proofs

TLA+ models of the parts of the Talaqi community platform in which several
actors share state: the registration desk of an event, its unpaid reservations,
the outbox and the e-mail queue, retried requests, clubs, accounts and their
sessions, events with their private links, uploaded images, and the decisions
of administrators. TLC checks the models on small instances; TLAPS proves
theorems about all of them for every instance. `PROJECT.json` ties every
definition to the lines it models.

Paths below are relative to the repository; `talaqi/` stands for
`apps/api/src/talaqi/` and `talaqi_worker/` for `apps/worker/src/talaqi_worker/`.

## 1. The system and its parts

A FastAPI process serves members, organizers and administrators. Every request
runs in one PostgreSQL transaction (`talaqi/db/session.py`, READ COMMITTED)
that commits before the response is sent, and is rolled back when the handler
raises, also when it raises the error the client is meant to see. Background
work is done by workers whose `run_once` an external scheduler calls. Parts talk
to each other in two ways only: rows of shared tables, and rows of
`outbox_events` that a transaction writes for a worker to take up later.

| Component | State | Operations that change it | What makes it hard | What makes it correct |
|---|---|---|---|---|
| registrations | `registrations`, transition log | register, cancel, confirm, promote | every request of an event competes for its row lock; clock readings are older than commits | no overselling, FIFO waitlist, one active row per member, terminal states final, freed seats offered on |
| registration expiry | jobs `registration.cash_expiry_due` | claim, process, complete, fail | leases, crashes, a clock read once for a batch, the race with confirm and cancel | every reservation ends, none too early, a job is settled by the holder of its lease |
| outbox, outbox worker | `outbox_events` | enqueue, claim, complete, fail, retry, cleanup | redelivery, two processes under one worker_id, errors after commit | one effect per row, order within an aggregate, every row arrives |
| notifications | `notifications`, preferences | project, mark read | is called again for the same row | at most one notification per row |
| email delivery | `notification_deliveries`, quota reservations | claim, reserve, send, settle, defer | the provider is outside the transaction; a claim has no owner | the quota, settled by its own claim and after the provider took it |
| idempotency | `idempotency_keys` | acquire, complete | duplicates in flight, leases and expiry judged by old clock readings | one mutation per living key, equal answers |
| identity | `users`, `sessions`, `auth_tokens` | login, rotate, revoke, recover, delete account | a retried rotation looks like a replay; a revocation misses rows not committed yet | one live session per device, a token used once, what was revoked or erased stays so |
| clubs and memberships | `clubs`, `club_memberships`, join requests | create, edit, join, leave, decide, change role, transfer, close | creation and transfer lock different rows in different order | exactly one owner, the limit on clubs, requests decided once, nothing in a stopped club |
| organizer content | announcements, event updates | post | recipients are a snapshot of the members | members of that moment, by somebody who may post |
| event lifecycle, event access | `events`, `event_invite_tokens` | create, edit, publish, cancel, complete, delete, duplicate, issue and revoke links, resolve | optimistic revisions against row locks; guests race organizers and moderators | no lost write, no live link to what was stopped, guests told of every change |
| profiles and eligibility | `profiles`, accepted rules | edit, accept | read by other operations at another time | capabilities follow the current state |
| moderation | cases, reports, status of accounts, clubs, events | report, acknowledge, act, dismiss | several cases about one target, acts and restores in any order | the audit tells the truth, what is stopped can be restored |
| settings, regions | `platform_settings`, `regional_policies` | preview and update at a revision | concurrent administrators | no change over an unseen one |
| media | `media_assets`, object storage | grant, upload, complete, clean up, attach | two stores without a common transaction | a verified record has its object |
| audit | `audit_events` | append | none: appended in the caller's transaction | states before and after are the real ones |
| database | schema, constraints, row locks | | | constraints never fire for a legal request |
| platform primitives, security, dashboard, discovery, localization, api process, web application, shared packages | none of their own, or reads | | | |

Interactions that carry state: *registrations* writes jobs for *registration
expiry* and events for the *outbox worker* inside its own transactions;
*registration expiry* calls back into the registration services; *event
lifecycle* and *moderation* change the event row under the desk; *moderation*
stops accounts, clubs and events under everybody; *regions* sets the limits that
*clubs* and *events* count against; *clubs* decide who manages an event, and lend
their images to *media*; *profiles* decide whom promotion may seat;
*notifications* feed *email delivery*; *identity* sends its tokens by e-mail;
every mutating route goes through *idempotency*.

The hazards, each at its line and with the properties that watch it, are the
list `hazards` of `PROJECT.json`.

## 2. Modules

| Module | Models | Grain of a step |
|---|---|---|
| `EventDesk` | registrations of one event | a transaction, dated by an older clock reading |
| `CashExpiry` (EXTENDS `EventDesk`) | the desk with its expiry workers | a transaction, a clock reading or an outcome of a job |
| `DeliveryContract` | what every queue promises | an item moves |
| `OutboxQueue` | outbox and notification worker; implements `DeliveryContract` | a transaction or clock reading of `run_once` |
| `EmailDelivery` | e-mail queue and provider; implements `DeliveryContract` | a transaction of `run_once` or a call of the provider |
| `Idempotency` | records that guard retried requests | acquire, mutation, complete; or all three at commit |
| `ClubMembership` | clubs, members, join requests, announcements | a transaction; creation and transfer lock by lock |
| `IdentitySessions` | accounts, sessions, recovery tokens | an SQL statement under its row locks |
| `EventPublishing` | events, private links, guests, event updates | a row lock, then the commit |
| `MediaUploads` | images in a table and in a storage | a call to either |
| `AdminDesk` | cases and their targets, flags, policies, audit | a row lock, then the commit |
| `DeskProofs`, `OutboxProofs`, `EmailProofs`, `IdempotencyProofs`, `ClubMembershipProofs`, `IdentityProofs`, `PublishingProofs`, `MediaProofs` | theorems (section 5) | |
| `MC...` | constants, symmetry and functions for the `.cfg` of the same name | |

### EventDesk: registrations of one event

`talaqi/registrations/service.py` and `repository.py`, with the guards of
`events/access_service.py` and the updates of `events/service.py`.

| Variable | Code |
|---|---|
| `event` | status, capacity, start_at and registration method of the `events` row |
| `reg` | `registrations` rows by order of insertion |
| `due` | available_at of the expiry job a row has in `outbox_events` |
| `eligible` | members whose evaluated capabilities include register_event |
| `clock` | time of commit |

Every operation of the desk locks the event row first and keeps the lock until
it commits, so one action is one committed transaction. The interleaving that
remains is in the clock: a request takes its time before it waits for the lock.
Each action therefore has a parameter `at`, a reading up to `Lag` old, and
judges all deadlines by it, as the code does.

`Register`, `Cancel`, `ConfirmCash` and `ExpireCash` are the four services,
`AfterPromotion` is `promote_next` inside the last one and the second (the loop
over the queue written as its result: ineligible members before the first
eligible one are cancelled, that one is seated). `PromotionRaises` is the error
path that rolls the surrounding transaction back. `UpdateEvent`, `CancelEvent`,
`CompleteEvent`, `SuspendEvent` and `RestoreEvent` are what organizers,
administrators and moderators do to the row, `ToggleEligible` stands for every
change of a member's capabilities. The waitlist number is the largest of the
rows still waiting plus one, so numbers are reused.

### CashExpiry: the desk with its expiry workers

Refines the `ExpireCash` of EventDesk into the protocol of
`talaqi_worker/registration_expiry.py` and `registrations/expiry.py`. `job`
holds the outbox rows, `run` what a worker has in memory (its clock reading,
its batch with the attempt counts the claim returned, the job whose failure it
must record), and `NameOf` the worker_id it was started with, which two
processes may share: `lock_claimed`, `complete` and `fail` ask for that name and
for the status, not for the claim. `Claim` takes all that is due; `SkipJob`, `ProcessJob` and
`FailJob` are the three outcomes for one job; `RecordFailure` is the separate
transaction that schedules the retry or gives up; `Crash` loses the memory and
leaves the lease to run out. All actions of the desk run in between.

### OutboxQueue: the outbox and the notification worker

`talaqi/outbox/repository.py`, `talaqi_worker/outbox.py` and the projection in
`talaqi/communications/`. `rows` is the table, `run` a process inside
`run_once`, `notices` the notifications written for each row. A process claims
a batch, and for each row checks its claim (`TakeUp`/`Skip`), calls the handler
in a transaction of its own (`Deliver`), and ticks the row off (`Complete`) or
records a failure (`RecordFailure`); processes interleave between any two of
these. `Stumble` is an exception in any of them, and `Complete` may raise after
its commit. `NameOf` gives processes their worker_id, which two may share.
`Foreign` rows belong to another worker (the expiry jobs); messages that are
neither handled nor foreign are taken by nobody.

Simplifications: rows are numbered by insertion, which is the order of
created_at within an aggregate because publishers hold the lock of the
aggregate; a key that is published twice leaves the table unchanged (with
different content the publisher raises and rolls back); recipients who switched
notifications off are left out.

### EmailDelivery and DeliveryContract

`talaqi_worker/email.py`. `delivery` holds the rows, `slot` the quota
reservations, `accepted` what the provider took, `worker` what a process has in
memory. A claim has no owner: a process that overslept is recognised by
`attempt_count` alone, and `SupersededIsOld` with `EndedByItsClaim` say that
this is enough. The quota of a recipient is reserved in a transaction of its own
under an advisory lock; without a slot the mail is deferred to the next date,
and that costs an attempt. The provider may take a mail and lose the answer.

`DeliveryContract` is the abstract queue: an item is published, claimed, has its
effect once, is settled after the effect, may be given back, given up, reopened
by hand, and forgotten once settled. Both queues implement it by `INSTANCE ...
WITH` and a mapping of their rows (`PhaseOf`): for the outbox the effect is the
notification, for e-mail the acceptance by the provider. `Reopen` and `Forget`
are the outbox' alone.

### Idempotency: retried requests

`talaqi/platform/idempotency.py` as the routes use it. `shared` is chosen once
per behaviour from `SharedSessions`. Where it is TRUE the model runs as every
route does: claim, mutation and response are one transaction, `holder` is the
transaction that has the row locked or its insert pending, and nothing is
visible before `Complete` commits. FALSE is the repository's other mode, a
transaction per call, in which the lease alone protects the mutation; there
`OncePerKey` and `EveryRequestSettles` promise nothing, the other properties
hold in both modes. `LoseResponse` and `Send` make the client repeat its request
with a new clock reading.

### ClubMembership: clubs and who is in them

`talaqi/clubs/` with the announcements of `communications/content_service.py`
and the rulings of moderators. `club`, `role`, `request` and `post` are the
tables; `tx` holds the transactions that create a club or hand one over, the two
operations that count the clubs of a user against the policy. They lock user and
club rows one at a time (creation the user, then inserts; transfer the club,
then the user it is offered to), and everything else may happen in between
unless a lock forbids it. Every other operation locks the club first and is one
action. `IsManager`, `Manages` and `Stopped` are the
predicates of `security/authorization.py`.

### IdentitySessions: accounts and devices

`talaqi/identity/` and `lifecycle.py`. A request is followed statement by
statement: a statement sees what is committed when it starts, waits for rows
that another request holds, and a statement that writes many rows reaches only
those of its own snapshot, which is how a revocation can miss a session that a
concurrent refresh is about to insert. `touch_session` locks the row of the
session a request acts for, and keeps it to the end (`Touched`). The clock is
read before the statement that may have to wait (`at`), so that `KeepAccount`
judges by a time that may be long past. `Deadlocked` requests are rolled back by
the database. `Moderate` suspends and reactivates accounts, `StartCleanup` and
`Erase` are the deletion of an account whose days of grace are over.

### EventPublishing: events, private links and guests

`talaqi/events/` with the posts of `communications/content_service.py`. A
request (`tx`) locks event, club, user and link rows in the order of its code
(`Itinerary` says which, `Earlier` in which order), checks what it read under
each lock (`Passes`), and commits once it holds all. Rows that refer to a
user lock his row against FOR UPDATE without claiming it: the idempotency key of
a creation or a copy is inserted before anything else (`Keyed`), the audit record
at the end of every write (`Signing`), and `WaitsFor` has both. A request that is sent
again locks what the first one made before it is answered (`BeginReplay`).
`seen` is the revision the client has read. `joined` is the revision a guest
agreed to when he registered, `told` what was sent to whom. Moderators suspend
and restore events and clubs, members of a club are demoted, the limit changes,
links expire.

### MediaUploads: records and objects

`talaqi/media/`. `assets` is the table, `source` and `canonical` are the two
objects of a record in the storage, `granted` the uploads a client may still
write. Completion and cleanup are transactions followed call by call. The
storage keeps what was done to it when the record is rolled back. A call to it
may fail without effect, with it, or with an effect that comes when the record
has moved on (`late`, `Arrive`). A process may die between two calls, and a
transaction may lose its connection and with it the row lock: it notices at its
next statement, and until then goes on writing to the storage
(`LoseConnection`). `strays` are the records whose image was last written by a
call that had outlived its lock.

### AdminDesk: moderation, settings, regions, audit

`talaqi/moderation/`, `settings/`, `regions/`, `audit/`. A decision locks its
case or document, then its target, and commits with its notification and audit
record. Owners act on the same targets (`OwnerActs`), and several cases may be
about one.

## 3. What is checked

| Run | Question | Properties |
|---|---|---|
| `desk` | three members, three rows, late requests; capacity, start and method change under the registrations | `DeskInv` (constraints of the schema never fire, queue in order, every reservation has its job), `NeverOversells`, `PromotionIsFifo`, `TerminalIsFinal`, `FreedSeatIsOffered` |
| `desk_oversold` | finding | `NeverOverCapacity` (violated) |
| `expiry` | three processes, two under one worker_id, with a crash or an error, stale leases, retry by hand, while the desk works | `ExpiryInv` (a finished job has ended its reservation), `ExpiryIsOrderly` (a leased job is ended or failed only under the name that holds it; only what is due, and once), `ReservationsEnd` |
| `outbox` | two processes under one worker_id, a crash, an error, another worker's row | `QueueInv` (one notification per row, in order until a delivery fails), `SettledByItsClaim`, `QueueKeepsContract`, `EveryNoticeArrives` |
| `email` | two processes, expired leases, lost answers, a daily quota | `EmailInv`, `QuotaKept`, `EndedByItsClaim`, `MailKeepsContract`, `EveryMailEnds` |
| `idempotency` | a request, its duplicate and a reuse of the key, in both transaction modes | `IdemInv` (one living claim), `OncePerKey`, `AnswersStand`, `EveryRequestSettles` |
| `clubs` | creations and transfers race with joins, decisions, roles, posts and moderators | `ClubInv`, `OneOwner`, `WithinLimit`, `MembershipsByTheBook` |
| `identity` | two requests of one account, statement by statement, with deadlocks | `IdInv` (one live session per device; who acts is not revoked; erased for good), `TokenConsumedOnce`, `OwnDeviceEnds` (a logout leaves nothing live of its own device), `EndIsFinal` (a device or an account that has ended stays so) |
| `events` | two managers, guests, moderators on two events with two links | `EventInv` (links only where shared, one link, published is complete, every circle of waiting requests has two of one organizer, one of which creates or copies), `EntryStands`, `ToldOfEveryChange`, `NothingUnseenIsChanged`, `WithinEventLimit` |
| `media` | completions, cleanup, late uploads, calls that fail or come late, lost connections, dying processes | `MediaInv` (who verifies a record is alone with it), `CoverIsServed` (a verified image is in the storage, and its own unless somebody without the lock wrote it) |
| `media_rejected` | finding | `RejectedIsQuarantined` (violated) |
| `admin` | two administrators, three cases, a flag, a policy, owners | `AdminTypeOK`, `AuditTellsTheTruth`, `PreviewTakesEffect`, `StoppedCanBeRestored` |

Every property of a passing run has a mutant: a variant of one definition, the
way a slip in the code would change it, under which TLC refutes the property.
The mutated forms stand before the definitions they vary, marked "Mutant".

### Bounds

| Bound | Where | Why it is enough |
|---|---|---|
| `MaxRegs` 2 or 3 | desk, expiry | three rows (`desk`): a queue of two behind a seat holder, a member who leaves and returns, reuse of a waitlist number after the queue drained; with workers the races are about one row and its neighbour |
| `MaxTime` 2 to 5, `Lag` 0 or 1 | all with a clock | before, at and after each deadline; a lease and a retry that run out; a request one instant late |
| `MaxFaults`, `MaxCrashes`, `MaxErrors` 1 or 2 | workers, idempotency | one fault between any two steps, after which another process takes over |
| `MaxEvents` 2 | outbox | a row and its successor in the aggregate, either of which may be another worker's |
| three mails, `Quota` 1 | email | the last slot contended, a mail deferred, and one that needs no slot |
| `MaxEffects` 2 | idempotency | a mutation and one in excess, or one after the record expired |
| two users, two clubs, two connections, `ClubLimit` 1, `MaxEntries` 1, `MaxEdits` 2, `MaxRulings` 1 | clubs | a member beside the owner, a limit that a second club exceeds, two transactions crossing. A request made under one entry policy and decided under the next needs a second entry and is out of reach of this instance; `ByTheBook` is proved for every size (section 5) |
| three sessions, one token, two requests, `MaxRequests` 5 | identity | login, refresh, replay or a second device; a rotation under a revocation |
| two events, two links, two requests, `MaxRequests` 3 | events | a copy of an event, a rotation of a link, every pair of requests crossing with a ruling before or between |
| one record, two valid uploads, three requests, `MaxLate` 2 | media | two completions, one cut off from its row, and the cleanup, with a late write and a late deletion; unbounded in length. Records share nothing but a batch of the cleanup, and a batch of two is in the theorem only |
| three cases, `MaxDecisions` 4 | admin | stop, restore, stop again through another case, restore |
| two workers, two or three members | all but expiry | every race in this code is between two; the third member makes a queue |
| three workers, two names | expiry | a stale process and the present holder under one name, and a third of another name |

Durations (lease, retry, cutoff, expiry, retention) are zero to three instants:
properties compare them only with each other and with readings of the clock.
Symmetry is used where members, sessions, links or requests are interchangeable
and no liveness is checked.

`CHECK_DEADLOCK FALSE` is set where everything may come to its end: the queues
when every item is settled and the clock has stopped, and the models whose
requests are counted.

### Fairness

Time passes (`WF` on `Tick`). Each worker takes a step it can take (`WF` per
process), because the scheduler calls `run_once` again after any outcome; a
crash and an error are never obliged. The worker of foreign rows settles them
(`WF`). Nobody must publish, retry by hand, clean up, cancel or confirm. In
`Idempotency` clients repeat requests (`WF` on `Send`); handlers are strongly
fair, since the wait for a row lock is a queue and a waiter that is enabled
again and again is served. In `expiry`, `outbox`, `email` and `idempotency` the
bound appears in the property itself (`MayStay`, `OutOfTime`,
`NextEffect > MaxEffects`): what falls due only after the last instant is not
demanded. The other models promise no liveness: a request that waits in them is
served or aborted by the database.

## 4. Where program and documents part

Two runs end in a violation; `findings` quotes the document and the line of code.

- `NeverOverCapacity`: the capacity of a published event may be lowered below
  the seats held.
- `RejectedIsQuarantined`: a rejected upload is marked in a transaction that
  the error for the client rolls back; the record stays pending, its bytes gone.

Eight more statements of the documents stand in the modules without a run. Put
into the configuration of their component (without SYMMETRY), TLC refutes each
within seconds:

| Statement | Module, configuration | What happens |
|---|---|---|
| `NewcomersWaitTheirTurn` | EventDesk, `MCEventDesk.cfg` | after a raise of the capacity a newcomer is seated before the waitlist |
| `DeadlineWithinStart` | EventDesk, `MCEventDesk.cfg` | a payment deadline lies after a start that was moved forward |
| `SeatHolderCanLeave` | EventDesk, `MCEventDesk.cfg` | after a switch from free to cash a waitlisted free row makes promotion raise, and the seat holder cannot cancel |
| `NoStrandedReservation` | CashExpiry, `MCCashExpiry.cfg` | attempts made while the event is suspended use the job up |
| `InOrder` | OutboxQueue, `MCOutboxQueue.cfg` | the backoff of a failed row lets its successor overtake it |
| `LeaseTokenIsExact` | CashExpiry, `MCCashExpiry.cfg` | `docs/runbooks/stuck-jobs.md:4`: "A stale worker must not complete or fail a job after another worker owns the exact lease token". A process that overslept ends or fails the claim of another one that was started with the same worker_id |
| `ReplayEndsFamily` | IdentitySessions, `MCIdentitySessions.cfg` | `docs/superpowers/plans/2026-07-14-talaqi-phase-1.md:287`: "Replay of a rotated token revokes every active row in that family". The replayed token is an old one; a refresh of the current one that commits while the revoking statement waits leaves its replacement live |
| `ImageIsItsDigest` | MediaUploads, `MCMediaUploads.cfg` | `docs/superpowers/specs/2026-07-28-talaqi-phase-3-design.md:53` has the record marked verified with the SHA-256 of the object that was persisted before. That object does not stay the one under its key: a completion that lost its connection before `storage.replace`, or a PUT that timed out, writes it after another completion has verified other bytes |

Observations made while modelling, which contradict no document:

- *outbox*: `claim` never looks at max_attempts, so a row that kills its process
  is claimed without end; a row of a type nobody handles holds back its
  aggregate for ever.
- *media*: the uploaded object is deleted before the commit that verifies the
  record; a crash leaves a canonical object nobody refers to; a client with a
  valid grant may upload again after cleanup; `expire_abandoned` has no caller.
- *clubs*: images of a club belong to the owner who uploaded them. After a
  transfer `resolve_references` asks for images of the new owner, so the next
  edit fails until the old images are taken off.
- *moderation*: the deduplication key of a notification names the case and the
  action, so suspending or restoring a target twice through one case fails on
  the second notification; another case works, which is what
  `StoppedCanBeRestored` relies on.
- *events*: requests can wait for each other in a circle, since duplicating
  locks the event and its club before the organizer and creating the organizer
  before the club; and since the idempotency key and the audit record of a request
  refer to the row of its user, two creations of one organizer, or a creation and
  an edit, can wait for each other as well. Every such circle has two requests of
  one organizer, sent at once, one of which creates or copies an event
  (`CirclesAreHomemade`). It need not be his alone: with two clubs and four
  requests, two organizers can close one circle. Rulings are single steps of the
  model and outside of this: who closes a club, or is given one by a transfer,
  while he creates an event in it may meet himself in the same way. The database
  aborts one.
- *identity*: the counter of failed logins is rolled back with the 401; a login
  with the old password may commit after a reset; a logout everywhere
  (`identity/service.py:324`) reaches the other devices of the account as little
  as a replay does, when a refresh of theirs is under way; a cancellation of the
  deletion that waited for the account may commit after the days of grace, by the
  clock it read before; `run_cleanup` has no caller.

## 5. What is proved

Each proof is about the specification without fairness and for every value of
the constants that satisfies the module's assumption.

### DeskProofs: the desk (`DeskAssumption`)

| Theorem | Statement |
|---|---|
| `TypeCorrect` | `[]TypeOK` |
| `DeskInvariant` | `[]DeskInv`, the inductive invariant |
| `SeatsHaveShape`, `OneActive`, `QueueOrdered`, `PendingScheduled` | its parts |
| `Final` | `TerminalIsFinal` |
| `NoOverselling` | `NeverOversells` |
| `FixedCapacity` | `[]NeverOverCapacity` under `SpecNoLowering`; without that restriction it is false (`desk_oversold`) |
| `Fifo` | `PromotionIsFifo` |
| `NoIdleSeat` | `FreedSeatIsOffered` |

`DeskInv` is inductive because of two strengthenings. `NoGaps` (rows are
numbered without gaps) makes a fresh row the last in the order of arrival,
without which QueueInOrder is not inductive. `NoEarlyJob` (a row that never was
pending has no job) makes the job that a promotion enqueues the one the row ends
up with: ON CONFLICT DO NOTHING would keep an older one. `StepForms` reduces the
thirteen actions to four things that can happen to the tables: a member
arrives, a row is released, a row is released and its seat offered on, or the
tables stay. Each conjunct of the invariant is then a lemma over these forms.

The counting theorems rest on `SeatsAreFinite` and on the library's facts about
cardinalities: an arrival adds at most the seat it found free, a promotion at
most one seat and only to a table with one free (`PromotionBound`), because the
first eligible member is unique in an ordered queue (`FirstIsUnique`). For
`NoIdleSeat` the eligible waiting rows have a least number (`SomeoneIsFirst`),
so an open promotion fills the seat or leaves nobody eligible.

### DeskProofs: the expiry (`ExpiryAssumption` and `DeskAssumption`)

| Theorem | Statement |
|---|---|
| `DeskIsKept` | `ExpirySpec => Spec`: the desk among its workers is still the desk |
| `DoneMeansEnded` | `[]ExpiryInv` |
| `OrderlyExpiry` | `ExpiryIsOrderly` |

`DeskIsKept` carries every theorem about the desk over to the composition.
It needs `RunsAreTyped`: the clock reading a worker judges by is one the clock
has shown, however long ago. `JobForms` says what a step can do to a job
(`JobMove`): a worker claims what is free, completes or gives back what it
holds, or an administrator reopens it. That a completed job stays done rests on
`JobsAreOld`: a row that has a job and is no longer pending never becomes pending
again. That a leased job is changed only under the name that holds it does not
need one process for each name: the fence of the code is the name, and the theorem
says no more than that (`LeaseTokenIsExact` would, and is false).

### ClubMembershipProofs (`ClubAssumption`: finitely many clubs, the bounds are naturals)

| Theorem | Statement |
|---|---|
| `TransfersStand` | `[]ClubInv` |
| `SingleOwner` | `[]OneOwner` |
| `LimitHolds` | `[]WithinLimit` |
| `ByTheBook` | `MembershipsByTheBook` |

`IndInv` adds to them: `RowsOfClubs` (rows of roles and requests belong to a club
that exists), `DraftsAreUnasked` (nobody has asked to join a draft),
`LocksAreExclusive` (a user or club row is held by one transaction) and
`RoomStands`: while a transaction holds the row of a user it has counted, that
user may own one more club. The last is what the lock is for: the count was made
before the write, and only because no other transaction can give this user a
club in between is the limit kept. `TransferStands` says the same of the club: what
the transfer checked under its lock still holds when it writes.

### IdempotencyProofs (`IdempotencyAssumption`)

| Theorem | Statement |
|---|---|
| `OneLeaseAtATime` | `[]IdemInv` |
| `CommittedOnce` | `[]OncePerKey` |
| `AnswersHold` | `AnswersStand` |

The two modes have invariants of their own in `IndInv`. In a shared session the
row at work is locked (`HoldersWork`, `WorkersHold`), a committed row has its
response (`RowsAreAnswered`), and it outlives every mutation committed under its
key (`RowsOutlive`); so a request that is granted the key found a record that had
expired, and with it every earlier mutation. In sessions of their own the row
shows the claim of whoever works on it, or a later one (`ClaimsAreShown`);
with `LeasesEndFirst` (a record is kept beyond its lease) a claim is granted only
when the lease of every earlier one is over. `RequestsAreOld` (requests carry
an earlier clock reading) turns "over at the time of the request" into "over now".

Answers have an invariant on top of it, `AnswersInv`. An answer is the stored
response of its key, or the result of an earlier record that had expired when the
present one was claimed (`AnswersOfRow`). In sessions of their own a mutation may
be committed by a request that then loses its claim; as long as a claim is current,
what its holder has committed is later than every answer given (`ResultsAreNew`),
so the numbers of the answers grow with the records. Mutations whose claim was
lost are nobody's answer.

### OutboxProofs (`QueueAssumption`)

| Theorem | Statement |
|---|---|
| `OnceAndInOrder` | `[]QueueInv` |
| `SettledOnce` | `SettledByItsClaim` |
| `ImplementsContract` | `QueueKeepsContract` |

`BatchesAreHandled` says that a row in some batch is a row these workers handle,
or was one and has been notified and cleaned up since: a process that overslept
may still deliver a row that is long gone, and this is why it does no harm.
`HandsAreFull` (a process completes what it has delivered) and `OthersAreLeftAlone`
(rows of other workers are neither claimed nor notified) give exactly-once. The
order of an aggregate rests on `DueFromTheStart` (until an error every row is due
from its insertion) and `PredecessorsFirst` (what precedes a claimed row has been
notified), both under `errors = 0`. `HandStep` is what the steps of `run_once` other
than claim and delivery have in common: they go on with the batch and settle at
most the row in hand. For the contract, `RowStep` is a step of it seen from one row,
and every step of the queue is one for every row.

### EmailProofs (`EmailAssumption`: finitely many mails)

| Theorem | Statement |
|---|---|
| `LeasesArePatient` | `[]EmailInv` |
| `ClaimantEnds` | `EndedByItsClaim` |
| `QuotaHolds` | `[]QuotaKept` |
| `ImplementsContract` | `MailKeepsContract` |

A claim of a mail has no owner, only a number. `ClaimsDiffer` (no two claims of a
mail have the same number) and `ClaimsAgree` (the claim whose number the row shows
is the one in force, with its time) make the number stand for the owner: the
process that finds its number ends its own claim. `SendersMay` (what goes to the
provider is security mail or has its reservation) and `CompletersSent` (what is
completed was taken) give the contract. `HandKeeps` is what the steps of
`run_once` after the claim have in common. The quota is proved from this
invariant: under the advisory lock the slots of a recipient and date are numbered
from one without gaps, so counting them gives the next number (`ReserveCounts`,
by cardinalities).

### IdentityProofs (`IdentityAssumption`)

| Theorem | Statement |
|---|---|
| `OneSessionPerDevice` | `[]IdInv` |
| `ConsumedOnce` | `[]TokenConsumedOnce` |
| `DevicesEnd` | `OwnDeviceEnds` |
| `EndsAreFinal` | `EndIsFinal` |

TLC checks one account; the proof is for any number, with confirmations by people
who are logged in to another account. Two facts carry it: transactions hold
disjoint sets of rows (`RequestsStand`), and what a transaction found of a row it
holds is so until it ends (`Stands`: the session a refresh replaces is live, the
token of a confirmation is unused and of an account that is not erased). A
statement that writes goes on only when nobody holds what it writes
(`GoingIsApart`), so `StandsOn` keeps the others' findings. That a cleanup cannot
erase an account under a confirmation is not a matter of the account's row, which
the confirmation does not hold, but of the token: the cleanup deletes it too and
waits. `RevocationEnds` says that a revocation under way ends by its last
statement or by a deadlock. `DevicesEnd` rests on the lock of `touch_session`:
from the check of the session to the commit the request holds its row, the only
live one of its family, so that no refresh of the device can be under way and
insert a session the statement does not see. A replay holds the row of an old
session instead, which is why the theorem cannot be had for it. `EndsAreFinal`
makes no assumption about how old the clock reading of a cancellation is; that it
cannot undo an erasure follows from the row of the account, which the cleanup
holds from the moment it has found it due.

### MediaProofs (`MediaAssumption`)

| Theorem | Statement |
|---|---|
| `VerifierIsAlone` | `[]MediaInv` |
| `VerifiedIsServed` | `[]CoverIsServed` |

TLC checks one image and three requests; the proof is for any number, and for a
cleanup that claims batches of any size. `CoverIsServed` alone is not inductive:
whether a commit keeps it depends on what the completion found three calls
earlier. The invariant therefore says of every open transaction what it may still
rely on (`Stands`): the record of a completion is pending from the read to the
commit, and from the replacement on, there is an object under its key, the one
whose digest will be recorded unless the record is among the `strays`; an image
to be attached was found verified. All of it holds only while the transaction has
its connection: one that is cut holds nothing, never marks a record, and what it
still writes makes its record a stray. Requests hold disjoint sets of records, so
that no other step disturbs a pending record, and nothing takes a verified one
back: this is why `require_verified_owned` needs no lock. Images are replaced and
never deleted, so that a late or stray write cannot leave a verified record
without one. What the client writes under the key of the upload appears nowhere
in the argument.

### PublishingProofs: events and links (`PublishingAssumption`: finitely many events and requests, distinct names)

| Theorem | Statement |
|---|---|
| `PublishInvariant` | `[]PublishInv`, the inductive invariant |
| `PublishedInOrder` | `[]EventInv` |
| `EntryIsLawful` | `[]EntryStands` |
| `NoChangeUntold` | `[]ToldOfEveryChange` |
| `NoBlindChange` | `NothingUnseenIsChanged` |
| `NoEventBeyondLimit` | `WithinEventLimit` |

TLC checks one club, two events, two links and two requests at a time. The
invariant says of every open request (`RequestStands`) whom and what it is about
(`OfSubject`), that it went through its rows in their order (`InOrder`), that it
holds these and no others (`HoldsOwn`), and that what it found under each lock is
still so (`Found`): the event is manageable, the club is run by him, one more
event is within the limit, the link is not revoked. `StandsOnward` is the lemma
everything rests on: a request stands after a step that leaves alone the rows it
holds and does not raise the number of its organizer's events. Every writer holds
what it writes or waits until nobody does (`WriterForm`), and requests hold their
rows apart, so the steps of others are such steps. `SharedOK` and `HistoryOK` are
then statements about the tables: a link is issued under the lock of its event,
whatever stops the event or the club revokes it under the same lock, and every
revision is announced to whoever is registered by then. `SharedOK` strengthens
`LinksOnlyWhereShared` (links lead to events that exist and are no drafts),
`HistoryOK` says that revision and number of writes agree, without which a
revision that was read would not stand for what was seen.

For the circles, `OrganizerIsWaitedFor` says that whoever keeps another from the
row of an organizer, by a lock or by a key that refers to it, creates or copies an
event for the same organizer. In a circle without two such requests everybody
therefore waits for an event or a club (`CircleForm`; who holds a link waits for
nothing). Events come before clubs in every order of locks (`EventsBeforeClubs`):
who is waited for by its event waits for a club or nothing, and who is waited for
by its club for neither, so there is no such circle.

### PublishingProofs: decisions of administrators (`AdminAssumption`)

| Theorem | Statement |
|---|---|
| `AdminInvariant` | `[]DeskInv` of this module, the inductive invariant |
| `AdminTypeCorrect` | `[]AdminTypeOK` |
| `EndlessStops` | `[]StoppedCanBeRestored` |
| `TruthfulAudit` | `AuditTellsTheTruth` |
| `SeenBeforeSet` | `PreviewTakesEffect` |

`DecisionsStand` says of every open decision what it may rely on: the status it
read of its target is the present one, its case has not moved since it was locked,
the document it is about to write is the version that was previewed. A preview is
read without a lock, so before the lock the invariant only has that a document
with the same revision is the same document; revisions grow with every write.
`CasesRestore` is the strengthening for `StoppedCanBeRestored`: behind whatever is
stopped stands a case that was actioned and, if the target is an account, has sent
no notice of a restoration; such a case can neither be dismissed nor reopened. `AuditIsCurrent` relates the
last record to the present state, so that the record of a change always differs
from the last one, and no change hides behind an equal record.

### Only model-checked

Liveness (`ReservationsEnd`, `EveryNoticeArrives`, `EveryMailEnds`,
`EveryRequestSettles`): it needs fairness and ENABLED, which are outside the
prover's reach. Every other property of a passing run is the statement of a
theorem above.

## 6. What is not modelled

- Platform primitives, localization and configuration: pure functions.
- Dashboard and discovery: reads, and a saved event that its member sets or
  removes.
- Rate limits and the TLS probe (security), health checks and logging (api
  process): nothing else reads what they count.
- Profile updates: one row, replaced by its owner without a revision
  (`profiles/repository.py:142`), so that the last of two writes wins; the rules
  of eligibility are the set `eligible` and guards.
- Marking notifications read and preferences: single-row updates of their owner.
- Web pages, generated client, translations, UI kit, migrations: no state of the
  protocol. The web client that repeats a request is in `Idempotency`.
- Hashing, signing, image decoding, normalisation of text, templates of mails:
  computations on values without shared state; the models take their outcome.
- The locks inside a transaction of the desk: all of its operations take the
  lock on the event row first, so their order is that of their commits.
