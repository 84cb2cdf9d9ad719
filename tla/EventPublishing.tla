--------------------------- MODULE EventPublishing ---------------------------
(***************************************************************************)
(* Events from draft to cancellation, the private links to them, and who   *)
(* comes through a link: apps/api/src/talaqi/events (service.py,           *)
(* access_service.py and their repositories) with the club, user and       *)
(* policy rows that they lock, and the rulings of moderators on events and *)
(* clubs.                                                                  *)
(*                                                                         *)
(* A request is one transaction.  It locks rows one after the other, in an *)
(* order that depends on what it does, checks what it read under each lock *)
(* and writes once it holds them all; what it writes is shown when it      *)
(* commits.  Waiting for a row is a step that is not enabled.              *)
(***************************************************************************)
EXTENDS Naturals, FiniteSets, Relation

CONSTANTS
    Organizers,   \* users that create events or run a club
    Guests,       \* users that register
    Clubs, Events, Links,
    Requests,     \* the transactions that may be open at once
    None,         \* neither an event, nor a link, nor a club
    MaxLimit,     \* bound: active independent events that a policy may allow
    MaxRequests   \* bound: requests, and decisions of moderators and admins

ASSUME PublishingAssumption ==
    /\ {MaxLimit, MaxRequests} \subseteq Nat
    /\ None \notin Organizers \cup Guests \cup Clubs \cup Events \cup Links
    /\ Organizers \cap (Guests \cup Clubs \cup Events \cup Links) = {}
    /\ Clubs \cap (Events \cup Links) = {} /\ Events \cap Links = {}
    /\ IsFiniteSet(Events) /\ IsFiniteSet(Requests)

VARIABLES
    event,    \* talaqi.events
    link,     \* talaqi.event_invite_tokens
    club,     \* status and managers of each club
    limit,    \* active independent events that the regional policy allows
    joined,   \* registrations: the revision of the event a guest agreed to, or 0
    told,     \* notifications and updates of organizers: <<kind, event, revision, guest>>
    tx,       \* the open transaction of each request
    begun     \* how much of MaxRequests is used

eventVars == <<event, link, club, limit, joined, told, tx, begun>>

Visibilities == {"public", "private_link"}
EventStatuses == {"draft", "published", "cancelled", "completed", "suspended"}
ClubStatuses == {"published", "unpublished", "suspended", "closed"}
Revisions == Nat

NoEvent == [status |-> "absent"]
Deleted == [status |-> "deleted"]

\* writes counts the writes of organizers: it is what revision stands for.
EventRow == [status : EventStatuses, owner : Organizers \cup Clubs, complete : BOOLEAN,
             visibility : Visibilities, revision : Revisions, writes : Revisions]

NoLink == [event |-> None]

LinkRow == [event : Events, revoked : BOOLEAN, expired : BOOLEAN]

Idle == [op |-> "idle"]

\* The requests of an organizer that carry the revision he has read.
Fenced == {"edit", "cancel", "complete", "delete", "post"}
Creating == {"create", "duplicate"}

\* Requests that end with a row that names their organizer (_record,
\* create_event_update).
Signed == Fenced \cup {"issue", "rotate", "revoke"}

Operations == Signed \cup Creating \cup {"replay", "register", "resolve"}

\* who acts, on what, what he has seen of it, what he asks for, and the locks.
Transaction == [op : Operations, who : Organizers \cup Guests, event : Events \cup {None},
                club : Clubs \cup {None}, link : Links \cup {None},
                seen : [revision : Revisions, writes : Revisions],
                visibility : Visibilities, complete : BOOLEAN, publish : BOOLEAN,
                todo : SUBSET {"event", "club", "user", "link"},
                held : SUBSET (Events \cup Clubs \cup Organizers \cup Links)]

Exists(e) == event[e] \notin {NoEvent, Deleted}
Independent(e) == event[e].owner \in Organizers
OfClub(e) == event[e].owner \in Clubs

LiveLinks(e) == {l \in Links : link[l].event = e /\ ~link[l].revoked}

\* One type invariant: besides the types, a link points to an event there is.
EventTypeOK ==
    /\ event \in [Events -> EventRow \cup {NoEvent, Deleted}]
    /\ link \in [Links -> LinkRow \cup {NoLink}]
    /\ club \in [Clubs -> [status : ClubStatuses, managers : SUBSET Organizers]]
    /\ limit \in 0..MaxLimit
    /\ joined \in [Events -> [Guests -> Revisions]]
    /\ told \subseteq {"changed", "posted"} \X Events \X Revisions \X Guests
    /\ tx \in [Requests -> Transaction \cup {Idle}]
    /\ begun \in 0..MaxRequests
    /\ \A l \in Links : link[l] # NoLink => Exists(link[l].event)

NewLink(e) == [event |-> e, revoked |-> FALSE, expired |-> FALSE]

Fresh(owner, visibility, complete, status) ==
    [status |-> status, owner |-> owner, visibility |-> visibility, complete |-> complete,
     revision |-> 1, writes |-> 1]

\* One event may have been published already, and a link to it issued.
EventInit ==
    /\ \/ event = [e \in Events |-> NoEvent] /\ link = [l \in Links |-> NoLink]
       \/ \E e \in Events, owner \in Organizers \cup Clubs, issued \in SUBSET Links :
            /\ \A l, m \in issued : l = m
            /\ event = [[f \in Events |-> NoEvent] EXCEPT
                           ![e] = Fresh(owner, "private_link", TRUE, "published")]
            /\ link = [l \in Links |-> IF l \in issued THEN NewLink(e) ELSE NoLink]
    /\ club = [c \in Clubs |-> [status |-> "published", managers |-> Organizers]]
    /\ limit = MaxLimit
    /\ joined = [e \in Events |-> [g \in Guests |-> 0]]
    /\ told = {}
    /\ tx = [r \in Requests |-> Idle]
    /\ begun = 0

-----------------------------------------------------------------------------
(***************************************************************************)
(* Rows, locks and waiting.                                                *)
(***************************************************************************)
\* Only an event that is private asks for a link.
NeedsLink(t) == t.op = "resolve" \/ event[t.event].visibility = "private_link"

\* The rows that an operation locks; an independent event has no club.
Itinerary(op, own) ==
    (IF op \in {"create", "resolve"} THEN {} ELSE {"event"})
        \cup (IF own THEN {} ELSE {"club"})
        \cup (IF op \in Creating THEN {"user"} ELSE {})
        \cup (IF op \in {"register", "resolve"} THEN {"link"} ELSE {})

\* In which order: a creation locks its organizer before the club, a copy after it.
Earlier(op, kind) ==
    IF kind = "event" THEN {}
    ELSE IF kind = "club" THEN (IF op = "create" THEN {"user"} ELSE {"event"})
    ELSE IF kind = "user" THEN (IF op = "create" THEN {} ELSE {"event", "club"})
    ELSE {"event", "club"}

\* The one kind of row that comes next.
IsNext(t, kind) == kind \in t.todo /\ Earlier(t.op, kind) \cap t.todo = {}

RowOf(t, kind) ==
    IF kind = "event" THEN t.event
    ELSE IF kind = "club" THEN t.club
    ELSE IF kind = "user" THEN t.who
    ELSE IF NeedsLink(t) THEN t.link ELSE None

Waiting(r) == tx[r] # Idle /\ tx[r].todo # {}
HoldsAll(r) == tx[r] # Idle /\ tx[r].todo = {}

Free(rows) == \A q \in Requests : tx[q] # Idle => tx[q].held \cap rows = {}

\* Mutant: a link is issued beside the ones that have not been revoked.
RevokingOnRequest(r) ==
    IF HoldsAll(r) /\ (tx[r].op = "revoke"
                       \/ (tx[r].op = "edit" /\ tx[r].visibility = "public"))
    THEN LiveLinks(tx[r].event) ELSE {}

\* The links that r revokes are rows that it waits for as well.
Revoking(r) ==
    IF HoldsAll(r) /\ (tx[r].op \in {"rotate", "issue", "revoke"}
                       \/ (tx[r].op = "edit" /\ tx[r].visibility = "public"))
    THEN LiveLinks(tx[r].event) ELSE {}

Wants(r) ==
    IF Waiting(r) THEN {RowOf(tx[r], kind) : kind \in {k \in tx[r].todo : IsNext(tx[r], k)}}
    ELSE Revoking(r)

(***************************************************************************)
(* A row that refers to a user holds that user's row FOR KEY SHARE, beside *)
(* others that do so, until the transaction ends: nobody has it FOR UPDATE *)
(* in the meantime, and it is waited for as long as somebody has.          *)
(***************************************************************************)
\* The idempotency key of a creation or a copy, its first row.
Keyed(r) == IF tx[r] # Idle /\ tx[r].op \in Creating THEN {tx[r].who} ELSE {}

\* The audit record of another request, or the update it posts, its last row.
Signing(r) == IF HoldsAll(r) /\ tx[r].op \in Signed THEN {tx[r].who} ELSE {}

WaitsFor(r, q) ==
    /\ r # q /\ tx[r] # Idle /\ tx[q] # Idle
    /\ \/ tx[q].held \cap (Wants(r) \cup Signing(r)) # {}
       \/ Keyed(q) \cap Wants(r) # {}

Stuck(r) == \E q \in Requests : WaitsFor(r, q)

\* r waits for q, or for one who does.
Behind(r, q) ==
    Stuck(r) /\ TransitiveClosure([x, y \in Requests |-> WaitsFor(x, y)], Requests)[r, q]

\* Mutants: one of the rows is read without FOR UPDATE.
ClubsNotLocked(row) == {row} \ Clubs
UsersNotLocked(row) == {row} \ Organizers

Locks(row) == {row} \ {None}

-----------------------------------------------------------------------------
(***************************************************************************)
(* What is checked under each lock.                                        *)
(***************************************************************************)
ActiveEvents(u) == {e \in Events : Exists(e) /\ event[e].owner = u
                                   /\ event[e].status \notin {"cancelled", "completed"}}

\* evaluate and _authorize_creation for an independent event.
MayCreateOneMore(u) == Cardinality(ActiveEvents(u)) < limit

\* _authorize_manager, before the club is looked at.
ManagedBy(e, u) ==
    /\ Exists(e) /\ event[e].status # "suspended"
    /\ OfClub(e) \/ event[e].owner = u

\* The first line of registration_terms.
OpenToGuests(e) == event[e].status = "published"

\* require_registration_available.
ClubAvailable(c) == club[c].status = "published"

\* require_event_manager: can_edit_club.
ManagerOf(c, u) == club[c].status \notin {"suspended", "closed"} /\ u \in club[c].managers

\* project: what is shown to somebody who comes with a link.
Projected(e) ==
    /\ event[e].status = "published" /\ event[e].visibility = "private_link"
    /\ OfClub(e) => ClubAvailable(event[e].owner)

\* resolve_link joins the event and its club.
Opens(l) == ~link[l].revoked /\ ~link[l].expired /\ Projected(link[l].event)

\* authorize_registration_link.
AdmitsTo(l, e) == l # None /\ link[l].event = e /\ ~link[l].revoked /\ ~link[l].expired

Passes(t, kind) ==
    /\ kind = "event" => IF t.op = "register" THEN OpenToGuests(t.event) ELSE ManagedBy(t.event, t.who)
    /\ kind = "club" => IF t.op = "register" THEN ClubAvailable(t.club) ELSE ManagerOf(t.club, t.who)
    /\ kind = "user" => t.club # None \/ MayCreateOneMore(t.who)
    /\ kind = "link" => IF t.op = "resolve" THEN Opens(t.link)
                        ELSE NeedsLink(t) => AdmitsTo(t.link, t.event)

-----------------------------------------------------------------------------
(***************************************************************************)
(* A request: it begins, takes its locks, and writes or is refused.        *)
(***************************************************************************)
Begin(r, transaction) ==
    /\ begun' = begun + 1
    /\ tx' = [tx EXCEPT ![r] = transaction]
    /\ UNCHANGED <<event, link, club, limit, joined, told>>

End(r) == tx' = [tx EXCEPT ![r] = Idle]

Opening(op, who, own) ==
    [op |-> op, who |-> who, event |-> None, club |-> None, link |-> None,
     seen |-> [revision |-> 0, writes |-> 0], visibility |-> "public", complete |-> TRUE,
     publish |-> FALSE, todo |-> Itinerary(op, own), held |-> {}]

\* _acquire: a creation and a copy begin with their idempotency key.
Acquired(u) == Free({u})

\* normalize_new_event.
\* Bound: a draft begins empty, and what is published at once is complete.
AsNew(visibility, complete, publish) ==
    complete = publish /\ (visibility = "private_link" => publish)

BeginCreate(r, u, c, visibility, complete, publish) ==
    /\ AsNew(visibility, complete, publish) /\ Acquired(u)
    /\ Begin(r, [Opening("create", u, c = None) EXCEPT
            !.club = c, !.visibility = visibility, !.complete = complete, !.publish = publish])

\* get: an organizer has the event before him when he sends a request, and the
\* request carries the revision of what he sees.
Asked(op, u, e) ==
    [Opening(op, u, Independent(e)) EXCEPT
        !.event = e,
        !.club = IF OfClub(e) THEN event[e].owner ELSE None,
        !.seen = [revision |-> event[e].revision, writes |-> event[e].writes]]

Sees(u, e) == ManagedBy(e, u) /\ (OfClub(e) => ManagerOf(event[e].owner, u))

\* Bound: only drafts are published.
BeginEdit(r, u, e, visibility, complete, publish) ==
    /\ Sees(u, e)
    /\ publish => complete /\ event[e].status = "draft"
    /\ Begin(r, [Asked("edit", u, e) EXCEPT
            !.visibility = visibility, !.complete = complete, !.publish = publish])

\* cancel_event, complete_event.
BeginFinish(r, u, e) ==
    \E op \in {"cancel", "complete"} : Sees(u, e) /\ Begin(r, Asked(op, u, e))

BeginDelete(r, u, e) == Sees(u, e) /\ Begin(r, Asked("delete", u, e))

BeginDuplicate(r, u, e) == Sees(u, e) /\ Acquired(u) /\ Begin(r, Asked("duplicate", u, e))

BeginPost(r, u, e) == Sees(u, e) /\ Begin(r, Asked("post", u, e))

\* create_private_link, rotate_private_link.
BeginIssue(r, u, e) ==
    \E op \in {"issue", "rotate"} : Sees(u, e) /\ Begin(r, Asked(op, u, e))

BeginRevoke(r, u, e) == Sees(u, e) /\ Begin(r, Asked("revoke", u, e))

\* authorize_replay: a creation or a copy is sent again, and what it made is locked.
BeginReplay(r, u, e) == Sees(u, e) /\ Begin(r, Asked("replay", u, e))

\* Bound: a guest brings a link of the event, live or not, if there is need of one.
BeginRegistration(r, g, e, l) ==
    /\ Exists(e) /\ joined[e][g] = 0
    /\ IF event[e].visibility = "public" THEN l = None ELSE l # None /\ link[l].event = e
    /\ Begin(r, [Opening("register", g, Independent(e)) EXCEPT
            !.event = e, !.club = IF OfClub(e) THEN event[e].owner ELSE None, !.link = l])

BeginVisit(r, g, l) ==
    /\ link[l] # NoLink
    /\ Begin(r, [Opening("resolve", g, TRUE) EXCEPT !.link = l])

\* SELECT ... FOR UPDATE, and the check that follows it.  (The event and the
\* club that resolve_link joins are read again by project, at the end.)
Lock(r) ==
    /\ Waiting(r)
    /\ ~Stuck(r)
    /\ \E kind \in tx[r].todo :
         /\ IsNext(tx[r], kind)
         /\ IF Passes(tx[r], kind)
            THEN tx' = [tx EXCEPT ![r].todo = @ \ {kind},
                                  ![r].held = @ \cup Locks(RowOf(tx[r], kind))]
            ELSE End(r)
    /\ UNCHANGED <<event, link, club, limit, joined, told, begun>>

\* What is published, or is about to be, is validated in full.
FitToStand(r) ==
    (tx[r].publish \/ (tx[r].op = "edit" /\ event[tx[r].event].status = "published"))
        => tx[r].complete

\* The revision the organizer has read is still the one there is.
Current(r) == tx[r].seen.revision = event[tx[r].event].revision

Deletable(e) == event[e].status = "draft"

MayEdit(r) ==
    LET status == event[tx[r].event].status IN
    /\ status \in {"draft", "published"} /\ Current(r)
    /\ ~(status = "published" /\ tx[r].publish)
    /\ FitToStand(r)

MayFinish(r) == Current(r) /\ event[tx[r].event].status = "published"

\* Only for what is published and private; issue is refused while a link is live.
MayIssue(r) ==
    LET e == tx[r].event IN
    /\ event[e].status = "published" /\ event[e].visibility = "private_link"
    /\ tx[r].op = "rotate" \/ \A l \in LiveLinks(e) : link[l].expired

\* What each operation asks once it holds its rows.
MayWrite(r) ==
    LET t == tx[r] IN
    /\ t.op = "create" => FitToStand(r)
    /\ t.op = "edit" => MayEdit(r)
    /\ t.op \in {"cancel", "complete"} => MayFinish(r)
    /\ t.op = "delete" => Deletable(t.event) /\ Current(r)
    /\ t.op = "post" => Current(r)
    /\ t.op \in {"issue", "rotate"} => MayIssue(r)
    /\ t.op = "resolve" => Projected(link[t.link].event)

Refuse(r) ==
    /\ HoldsAll(r) /\ ~MayWrite(r)
    /\ End(r)
    /\ UNCHANGED <<event, link, club, limit, joined, told, begun>>

\* PostgreSQL undoes a transaction that waits for itself.
BreakDeadlock(r) ==
    /\ Behind(r, r)
    /\ End(r)
    /\ UNCHANGED <<event, link, club, limit, joined, told, begun>>

Ready(r, op) == HoldsAll(r) /\ tx[r].op = op /\ MayWrite(r) /\ ~Stuck(r)

-----------------------------------------------------------------------------
(***************************************************************************)
(* The writes.                                                             *)
(***************************************************************************)
\* create: the identifier is new, so the row is.
Inserted(e, row) == [event EXCEPT ![e] = row]

Create(r, e) ==
    /\ Ready(r, "create") /\ event[e] = NoEvent
    /\ LET t == tx[r] IN
       event' = Inserted(e, Fresh(IF t.club = None THEN t.who ELSE t.club, t.visibility,
                                  t.complete, IF t.publish THEN "published" ELSE "draft"))
    /\ End(r)
    /\ UNCHANGED <<link, club, limit, joined, told, begun>>

\* The copy is a draft, whatever the state of its source.
Duplicate(r, e) ==
    /\ Ready(r, "duplicate") /\ event[e] = NoEvent
    /\ LET source == event[tx[r].event] IN
       event' = Inserted(e, Fresh(source.owner, source.visibility, source.complete, "draft"))
    /\ End(r)
    /\ UNCHANGED <<link, club, limit, joined, told, begun>>

\* Mutant: a change of the status leaves the revision alone.
RevisedByEdits(e, op) == event[e].revision + (IF op = "edit" THEN 1 ELSE 0)

\* Every write of an organizer takes the next revision.
Revised(e, op) == event[e].revision + 1

WithoutLinks(L) == [l \in Links |-> IF l \in L THEN [link[l] EXCEPT !.revoked = TRUE] ELSE link[l]]

\* Mutant: a notification is keyed by the event alone, so only the first is sent.
NotifiedOncePerEvent(e, revision) ==
    told \cup {<<"changed", e, revision, g>> : g \in
        {h \in Guests : joined[e][h] > 0 /\ ~\E n \in 0..revision : <<"changed", e, n, h>> \in told}}

\* Everybody who is registered then.
Notified(e, revision) ==
    told \cup {<<"changed", e, revision, g>> : g \in {h \in Guests : joined[e][h] > 0}}

\* apply_event_patch.
Patched(row, t) ==
    [row EXCEPT !.status = IF t.publish THEN "published" ELSE row.status,
                !.complete = t.complete, !.visibility = t.visibility]

Edit(r) ==
    /\ Ready(r, "edit")
    /\ LET t == tx[r]
           e == t.event IN
       /\ event' = [event EXCEPT ![e] = [Patched(event[e], t) EXCEPT
                      !.revision = Revised(e, t.op), !.writes = event[e].writes + 1]]
       /\ link' = WithoutLinks(Revoking(r))
       /\ told' = Notified(e, Revised(e, t.op))
    /\ End(r)
    /\ UNCHANGED <<club, limit, joined, begun>>

\* transition: cancel or complete.
Finish(r, op) ==
    /\ op \in {"cancel", "complete"} /\ Ready(r, op)
    /\ LET e == tx[r].event IN
       /\ event' = [event EXCEPT ![e] = [event[e] EXCEPT
                      !.status = IF op = "cancel" THEN "cancelled" ELSE "completed",
                      !.revision = Revised(e, op), !.writes = event[e].writes + 1]]
       /\ told' = IF op = "cancel" THEN Notified(e, Revised(e, op)) ELSE told
    /\ End(r)
    /\ UNCHANGED <<link, club, limit, joined, begun>>

DeleteDraft(r) ==
    /\ Ready(r, "delete")
    /\ event' = [event EXCEPT ![tx[r].event] = Deleted]
    /\ End(r)
    /\ UNCHANGED <<link, club, limit, joined, told, begun>>

\* _event_recipients, for all_active.
EventRecipients(e) == {g \in Guests : joined[e][g] > 0}

\* _publish_recipients: one message to each, by its key.
Published(e, revision, recipients) == told \cup {<<"posted", e, revision, g>> : g \in recipients}

\* create_event_update, for every active registration; a key that was used
\* before is answered without a write.
Post(r) ==
    /\ Ready(r, "post")
    /\ LET e == tx[r].event IN
       told' = Published(e, tx[r].seen.revision, EventRecipients(e))
    /\ End(r)
    /\ UNCHANGED <<event, link, club, limit, joined, begun>>

\* create_link, for the event that is locked.
IssueLink(r, op, l) ==
    /\ op \in {"issue", "rotate"} /\ Ready(r, op) /\ link[l] = NoLink
    /\ link' = [WithoutLinks(Revoking(r)) EXCEPT
                  ![l] = NewLink(tx[r].event)]
    /\ End(r)
    /\ UNCHANGED <<event, club, limit, joined, told, begun>>

RevokeLinks(r) ==
    /\ Ready(r, "revoke")
    /\ link' = WithoutLinks(Revoking(r))
    /\ End(r)
    /\ UNCHANGED <<event, club, limit, joined, told, begun>>

\* The registration that follows registration_terms (EventDesk has the rest).
Register(r) ==
    /\ Ready(r, "register")
    /\ joined' = [joined EXCEPT ![tx[r].event][tx[r].who] = event[tx[r].event].revision]
    /\ End(r)
    /\ UNCHANGED <<event, link, club, limit, told, begun>>

\* The event is shown, to a guest or to the organizer whose request is a replay.
Show(r) ==
    /\ \E op \in {"resolve", "replay"} : Ready(r, op)
    /\ End(r)
    /\ UNCHANGED <<event, link, club, limit, joined, told, begun>>

-----------------------------------------------------------------------------
(***************************************************************************)
(* Rulings: decisions of moderators, admins and club owners, each a        *)
(* transaction that locks its one row first.  It is one step here: the     *)
(* record that names who ruled is not among the rows that are waited for.  *)
(***************************************************************************)
Rule == begun < MaxRequests /\ begun' = begun + 1

SuspendEvent(e) ==
    /\ Rule /\ event[e].status = "published"
    /\ Free({e} \cup LiveLinks(e))
    /\ event' = [event EXCEPT ![e].status = "suspended"]
    /\ link' = WithoutLinks(LiveLinks(e))
    /\ UNCHANGED <<club, limit, joined, told, tx>>

RestoreEvent(e) ==
    /\ Rule /\ event[e].status = "suspended"
    /\ Free({e})
    /\ event' = [event EXCEPT ![e].status = "published"]
    /\ UNCHANGED <<link, club, limit, joined, told, tx>>

LinksOf(c) == UNION {LiveLinks(e) : e \in {f \in Events : Exists(f) /\ event[f].owner = c}}

\* A moderator suspends a club or takes it off the site.
StopClub(c, status) ==
    /\ Rule /\ club[c].status = "published"
    /\ status \in {"suspended", "unpublished"}
    /\ Free({c} \cup LinksOf(c))
    /\ club' = [club EXCEPT ![c].status = status]
    /\ link' = WithoutLinks(LinksOf(c))
    /\ UNCHANGED <<event, limit, joined, told, tx>>

RestoreClub(c) ==
    /\ Rule /\ club[c].status \in {"suspended", "unpublished"}
    /\ Free({c})
    /\ club' = [club EXCEPT ![c].status = "published"]
    /\ UNCHANGED <<event, link, limit, joined, told, tx>>

\* Its owner closes a club: no link is touched.
CloseClub(c) ==
    /\ Rule /\ club[c].status \in {"published", "unpublished"}
    /\ Free({c})
    /\ club' = [club EXCEPT ![c].status = "closed"]
    /\ UNCHANGED <<event, link, limit, joined, told, tx>>

Demote(c, u) ==
    /\ Rule /\ u \in club[c].managers
    /\ Free({c})
    /\ club' = [club EXCEPT ![c].managers = @ \ {u}]
    /\ UNCHANGED <<event, link, limit, joined, told, tx>>

\* lock_creation holds the policy of the user's country FOR SHARE.
PolicyHeld == ~Free(Organizers)

SetLimit(n) ==
    /\ Rule /\ n # limit
    /\ ~PolicyHeld
    /\ limit' = n
    /\ UNCHANGED <<event, link, club, joined, told, tx>>

Expire(l) ==
    /\ Rule /\ link[l] # NoLink /\ ~link[l].expired
    /\ link' = [link EXCEPT ![l].expired = TRUE]
    /\ UNCHANGED <<event, club, limit, joined, told, tx>>

\* Bound: MaxRequests.
MayBegin(r) == begun < MaxRequests /\ tx[r] = Idle

RequestNext(r) ==
    \/ /\ MayBegin(r)
       /\ \/ \E u \in Organizers, c \in Clubs \cup {None}, v \in Visibilities,
               complete \in BOOLEAN, publish \in BOOLEAN :
                  BeginCreate(r, u, c, v, complete, publish)
          \/ \E u \in Organizers, e \in Events :
                \/ \E v \in Visibilities, complete \in BOOLEAN, publish \in BOOLEAN :
                     BeginEdit(r, u, e, v, complete, publish)
                \/ BeginFinish(r, u, e) \/ BeginDelete(r, u, e) \/ BeginDuplicate(r, u, e)
                \/ BeginPost(r, u, e) \/ BeginIssue(r, u, e) \/ BeginRevoke(r, u, e)
                \/ BeginReplay(r, u, e)
          \/ \E g \in Guests, e \in Events, l \in Links \cup {None} :
                  BeginRegistration(r, g, e, l)
          \/ \E g \in Guests, l \in Links : BeginVisit(r, g, l)
    \/ Lock(r) \/ Refuse(r) \/ BreakDeadlock(r)
    \/ \E e \in Events : Create(r, e) \/ Duplicate(r, e)
    \/ Edit(r) \/ (\E op \in {"cancel", "complete"} : Finish(r, op)) \/ DeleteDraft(r) \/ Post(r)
    \/ \E op \in {"issue", "rotate"}, l \in Links : IssueLink(r, op, l)
    \/ RevokeLinks(r) \/ Register(r) \/ Show(r)

RulingNext ==
    \/ \E e \in Events : SuspendEvent(e) \/ RestoreEvent(e)
    \/ \E c \in Clubs : RestoreClub(c) \/ CloseClub(c)
    \/ \E c \in Clubs, status \in {"suspended", "unpublished"} : StopClub(c, status)
    \/ \E c \in Clubs, u \in Organizers : Demote(c, u)
    \/ \E n \in 0..MaxLimit : SetLimit(n)
    \/ \E l \in Links : Expire(l)

EventNext == (\E r \in Requests : RequestNext(r)) \/ RulingNext

EventSpec == EventInit /\ [][EventNext]_eventVars

-----------------------------------------------------------------------------
(***************************************************************************)
(* What must hold.                                                         *)
(***************************************************************************)
\* A link that has not been revoked leads to a private event that was shown
\* to guests and has not been suspended, nor has its club: whatever stops an
\* event takes its links away for good.
LinksOnlyWhereShared ==
    \A l \in Links : link[l] # NoLink /\ ~link[l].revoked =>
        /\ event[link[l].event].visibility = "private_link"
        /\ event[link[l].event].status \notin {"draft", "suspended"}
        /\ OfClub(link[l].event) => club[event[link[l].event].owner].status # "suspended"

\* Rotating or issuing a link leaves one that can be used, even when two
\* managers ask at the same time.
OneLink == \A e \in Events : Exists(e) => \A l, m \in LiveLinks(e) : l = m

\* From the moment his request was let in until it commits, a guest's event is
\* published, its club too, and the link that let him in is not revoked.
EntryStands ==
    \A r \in Requests :
        LET t == tx[r] IN
        /\ (HoldsAll(r) /\ t.op = "register") =>
             /\ event[t.event].status = "published"
             /\ OfClub(t.event) => ClubAvailable(t.club)
             /\ event[t.event].visibility = "private_link" => ~link[t.link].revoked
        /\ (HoldsAll(r) /\ t.op = "resolve") => ~link[t.link].revoked

OnlySeenIsChanged ==
    \A r \in Requests :
        (/\ tx[r] # Idle /\ tx[r].op \in Fenced /\ tx'[r] = Idle
         /\ event'[tx[r].event] # event[tx[r].event] \/ told' # told)
            => tx[r].seen.writes = event[tx[r].event].writes

\* Nothing is changed, ended, deleted or announced by an organizer who has not
\* seen what is there: a write of another organizer in between fails his.
NothingUnseenIsChanged == [][OnlySeenIsChanged]_eventVars

LimitIsKept ==
    \A u \in Organizers :
        Cardinality(ActiveEvents(u)') > Cardinality(ActiveEvents(u))
            => Cardinality(ActiveEvents(u)') <= limit

\* An organizer never gets a new independent event beyond the limit that the
\* policy sets at that moment, through copies and parallel requests neither.
WithinEventLimit == [][LimitIsKept]_eventVars

\* A guest is told of every change and of the cancellation of the event that
\* was made after he agreed to it.
ToldOfEveryChange ==
    \A e \in Events, g \in Guests :
        Exists(e) /\ joined[e][g] > 0 =>
            \A n \in (joined[e][g] + 1)..event[e].revision :
                <<"changed", e, n, g>> \in told \/ (event[e].status = "completed" /\ n = event[e].revision)

\* What guests can see was validated in full, whatever was edited since.
PublishedIsComplete ==
    \A e \in Events : event[e].status \in {"published", "suspended"} => event[e].complete

\* Requests that wait for each other in a circle: nothing of them goes on
\* unless one is undone.
Circle(S) == S # {} /\ \A r \in S : \E q \in S : WaitsFor(r, q)

\* A circle is always of somebody's own making: an organizer has two requests
\* under way, and one of them creates or copies an event.  Guests, different
\* organizers, and those who send one request after the other, cause none.
CirclesAreHomemade ==
    \A S \in SUBSET Requests : Circle(S) =>
        \E r, q \in S : r # q /\ tx[r].op \in Creating /\ tx[r].who = tx[q].who

\* Events, links, clubs and the requests under way agree: a guest is shown what
\* was validated, by a link that is the only one and that nobody has taken
\* away, and requests are stuck only when an organizer got in his own way.
EventInv ==
    /\ EventTypeOK
    /\ LinksOnlyWhereShared
    /\ OneLink
    /\ PublishedIsComplete
    /\ CirclesAreHomemade

=============================================================================
