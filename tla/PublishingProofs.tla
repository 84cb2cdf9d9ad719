--------------------------- MODULE PublishingProofs ---------------------------
(***************************************************************************)
(* Theorems about what is published and about who may stop it, for every   *)
(* number of organizers, events, links, cases and decisions: the requests  *)
(* and rulings of EventPublishing, and then the decisions of AdminDesk.    *)
(***************************************************************************)
EXTENDS EventPublishing, AdminDesk, FiniteSetTheorems, TLAPS

-----------------------------------------------------------------------------
(***************************************************************************)
(* EventPublishing: what a request keeps in mind between its locks and its *)
(* end.                                                                    *)
(***************************************************************************)
\* A kind of row that a request has been through.
Through(t, kind) == kind \in Itinerary(t.op, t.club = None) /\ kind \notin t.todo

ClubOf(e) == IF OfClub(e) THEN event[e].owner ELSE None

\* Who asks, and about what.
OfSubject(t) ==
    /\ t.who \in IF t.op \in {"register", "resolve"} THEN Guests ELSE Organizers
    /\ t.op \notin {"create", "resolve"} =>
         /\ t.event \in Events /\ event[t.event] # NoEvent
         /\ Exists(t.event) => t.club = ClubOf(t.event)
    /\ t.op = "resolve" => t.club = None /\ t.link \in Links /\ link[t.link] # NoLink
    /\ t.seen.revision = t.seen.writes

\* It goes through its rows in their order.
InOrder(t) ==
    /\ t.todo \subseteq Itinerary(t.op, t.club = None)
    /\ \A kind \in Itinerary(t.op, t.club = None) :
         Through(t, kind) => Earlier(t.op, kind) \cap t.todo = {}

\* What it has found under each lock is still so.
Found(t) ==
    /\ Through(t, "event") =>
         /\ t.event \in t.held
         /\ IF t.op = "register" THEN OpenToGuests(t.event) ELSE ManagedBy(t.event, t.who)
    /\ Through(t, "club") =>
         /\ t.club \in t.held
         /\ IF t.op = "register" THEN ClubAvailable(t.club) ELSE ManagerOf(t.club, t.who)
    /\ Through(t, "user") =>
         /\ t.who \in t.held
         /\ t.club # None \/ MayCreateOneMore(t.who)
    /\ (Through(t, "link") /\ NeedsLink(t)) =>
         /\ t.link \in t.held /\ t.link \in Links
         /\ link[t.link] # NoLink /\ ~link[t.link].revoked

\* It holds no other rows.
OwnRow(t, row) ==
    \/ row = t.event /\ row \in Events /\ Through(t, "event")
    \/ row = t.club /\ row \in Clubs /\ Through(t, "club")
    \/ row = t.who /\ row \in Organizers /\ Through(t, "user")
    \/ row = t.link /\ row \in Links /\ Through(t, "link") /\ link[row] # NoLink

HoldsOwn(t) == \A row \in t.held : OwnRow(t, row)

RequestStands(r) ==
    tx[r] # Idle => /\ OfSubject(tx[r]) /\ InOrder(tx[r])
                    /\ Found(tx[r]) /\ HoldsOwn(tx[r])

\* Requests hold their rows apart from each other, and each stands.
RequestsStand ==
    /\ tx \in [Requests -> Transaction \cup {Idle}]
    /\ \A r \in Requests : RequestStands(r)
    /\ \A r, q \in Requests : (r # q /\ tx[r] # Idle /\ tx[q] # Idle) => tx[r].held \cap tx[q].held = {}

\* The types of the variables, without those of the requests.
EventTables ==
    /\ event \in [Events -> EventRow \cup {NoEvent, Deleted}]
    /\ link \in [Links -> LinkRow \cup {NoLink}]
    /\ club \in [Clubs -> [status : ClubStatuses, managers : SUBSET Organizers]]
    /\ limit \in 0..MaxLimit
    /\ joined \in [Events -> [Guests -> Revisions]]
    /\ told \subseteq {"changed", "posted"} \X Events \X Revisions \X Guests
    /\ begun \in 0..MaxRequests

\* What guests may come to see.
SharedOK ==
    /\ \A l \in Links : link[l] # NoLink =>
         Exists(link[l].event) /\ event[link[l].event].status # "draft"
    /\ LinksOnlyWhereShared
    /\ OneLink
    /\ PublishedIsComplete

\* What they have been told.
HistoryOK ==
    /\ \A e \in Events : Exists(e) => event[e].revision = event[e].writes
    /\ \A e \in Events, g \in Guests : joined[e][g] > 0 => event[e] # NoEvent
    /\ ToldOfEveryChange

PublishInv == EventTables /\ SharedOK /\ HistoryOK /\ RequestsStand

-----------------------------------------------------------------------------
(* Forms. *)
LEMMA EventForm ==
    ASSUME EventTables, NEW e \in Events
    PROVE  /\ Exists(e) <=> event[e] \in EventRow
           /\ event[e].status \in EventStatuses => Exists(e)
           /\ Exists(e) => /\ event[e].status \in EventStatuses
                           /\ event[e].revision \in Nat /\ event[e].writes \in Nat
                           /\ event[e].owner \in Organizers \cup Clubs
                           /\ OfClub(e) <=> ~Independent(e)
                           /\ ClubOf(e) \in Clubs \cup {None}
                           /\ ClubOf(e) = None <=> Independent(e)
<1>1. event[e] \in EventRow \cup {NoEvent, Deleted}
  BY DEF EventTables
<1>2. NoEvent \notin EventRow /\ Deleted \notin EventRow
  <2>1. NoEvent.status \notin EventStatuses /\ Deleted.status \notin EventStatuses
    BY DEF NoEvent, Deleted, EventStatuses
  <2>2. \A row \in EventRow : row.status \in EventStatuses
    BY DEF EventRow
  <2> QED BY <2>1, <2>2
<1>3. Exists(e) <=> event[e] \in EventRow
  BY <1>1, <1>2 DEF Exists
<1>4. event[e].status \in EventStatuses => Exists(e)
  BY DEF Exists, NoEvent, Deleted, EventStatuses
<1>5. ASSUME Exists(e)
      PROVE  /\ event[e].status \in EventStatuses
             /\ event[e].revision \in Nat /\ event[e].writes \in Nat
             /\ event[e].owner \in Organizers \cup Clubs
  BY <1>3, <1>5 DEF EventRow, Revisions
<1>6. ASSUME Exists(e)
      PROVE  /\ OfClub(e) <=> ~Independent(e)
             /\ ClubOf(e) \in Clubs \cup {None}
             /\ ClubOf(e) = None <=> Independent(e)
  BY <1>5, <1>6, PublishingAssumption DEF OfClub, Independent, ClubOf
<1> QED BY <1>3, <1>4, <1>5, <1>6

LEMMA LinkForm ==
    ASSUME EventTables, NEW l \in Links
    PROVE  /\ link[l] # NoLink => link[l] \in LinkRow /\ link[l].event \in Events
           /\ link[l].event \in Events => link[l] # NoLink
<1>1. link[l] \in LinkRow \cup {NoLink}
  BY DEF EventTables
<1>2. NoLink.event \notin Events
  BY PublishingAssumption DEF NoLink
<1> QED BY <1>1, <1>2 DEF LinkRow

LEMMA RequestForm ==
    ASSUME RequestsStand, NEW r \in Requests, tx[r] # Idle
    PROVE  /\ tx[r] \in Transaction
           /\ OfSubject(tx[r]) /\ InOrder(tx[r]) /\ Found(tx[r]) /\ HoldsOwn(tx[r])
BY DEF RequestsStand, RequestStands

\* Transactions are told from the absence of one by their operation.
LEMMA TransactionIsNotIdle ==
    ASSUME NEW t \in Transaction
    PROVE  t # Idle /\ t.op \in Operations
BY DEF Transaction, Idle, Operations, Signed, Fenced, Creating

-----------------------------------------------------------------------------
(* What a request has found stays. *)
\* A step that leaves what there is, and the rows that a request holds.
EventsStay(held) ==
    /\ \A e \in Events : event[e] # NoEvent =>
         /\ event'[e] # NoEvent
         /\ Exists(e)' => Exists(e) /\ event'[e].owner = event[e].owner
    /\ \A e \in Events \cap held : event'[e] = event[e]

LinksStay(held) ==
    /\ \A l \in Links : link[l] # NoLink => link'[l] # NoLink
    /\ \A l \in Links \cap held : ~link[l].revoked => ~link'[l].revoked

ClubsStay(held) == \A c \in Clubs \cap held : club'[c] = club[c]

UsersStay(held) ==
    \A u \in Organizers \cap held : limit' = limit /\ ActiveEvents(u)' \subseteq ActiveEvents(u)

RowsStay(held) == EventsStay(held) /\ LinksStay(held) /\ ClubsStay(held) /\ UsersStay(held)

LEMMA ActiveAreFinite ==
    ASSUME NEW u
    PROVE  IsFiniteSet(ActiveEvents(u)) /\ Cardinality(ActiveEvents(u)) \in Nat
<1>1. ActiveEvents(u) \subseteq Events
  BY DEF ActiveEvents
<1>2. IsFiniteSet(ActiveEvents(u))
  BY <1>1, PublishingAssumption, FS_Subset
<1> QED BY <1>2, FS_CardinalityType

LEMMA ActiveShrink ==
    ASSUME NEW u, ActiveEvents(u)' \subseteq ActiveEvents(u)
    PROVE  /\ Cardinality(ActiveEvents(u)') <= Cardinality(ActiveEvents(u))
           /\ Cardinality(ActiveEvents(u)') \in Nat
<1>1. IsFiniteSet(ActiveEvents(u))
  BY ActiveAreFinite
<1> QED BY <1>1, FS_Subset, FS_CardinalityType

LEMMA StandsOnward ==
    ASSUME EventTables, EventTables', NEW q \in Requests, RequestStands(q), tx'[q] = tx[q],
           tx[q] # Idle => tx[q] \in Transaction /\ RowsStay(tx[q].held)
    PROVE  RequestStands(q)'
<1> SUFFICES ASSUME tx[q] # Idle
             PROVE  (OfSubject(tx[q]) /\ InOrder(tx[q]) /\ Found(tx[q]) /\ HoldsOwn(tx[q]))'
  BY DEF RequestStands
<1>0. tx[q] \in Transaction /\ RowsStay(tx[q].held)
  OBVIOUS
<1>1. OfSubject(tx[q]) /\ InOrder(tx[q]) /\ Found(tx[q]) /\ HoldsOwn(tx[q])
  BY DEF RequestStands
<1>2. InOrder(tx[q])' /\ HoldsOwn(tx[q])'
  <2>1. InOrder(tx[q])'
    BY <1>1 DEF InOrder, Through
  <2>2. ASSUME NEW row \in tx[q].held
        PROVE  OwnRow(tx[q], row)'
    <3>1. OwnRow(tx[q], row)
      BY <1>1 DEF HoldsOwn
    <3>2. (row \in Links /\ link[row] # NoLink) => link'[row] # NoLink
      BY <1>0 DEF RowsStay, LinksStay
    <3> QED BY <3>1, <3>2 DEF OwnRow, Through
  <2> QED BY <2>1, <2>2 DEF HoldsOwn
<1>3. OfSubject(tx[q])'
  <2>1. ASSUME tx[q].op \notin {"create", "resolve"}
        PROVE  /\ tx[q].event \in Events /\ event'[tx[q].event] # NoEvent
               /\ Exists(tx[q].event)' => tx[q].club = ClubOf(tx[q].event)'
    <3>1. /\ tx[q].event \in Events /\ event[tx[q].event] # NoEvent
          /\ Exists(tx[q].event) => tx[q].club = ClubOf(tx[q].event)
      BY <1>1, <2>1 DEF OfSubject
    <3>2. /\ event'[tx[q].event] # NoEvent
          /\ Exists(tx[q].event)' =>
               Exists(tx[q].event) /\ event'[tx[q].event].owner = event[tx[q].event].owner
      BY <1>0, <3>1 DEF RowsStay, EventsStay, Exists
    <3> QED BY <3>1, <3>2 DEF ClubOf, OfClub
  <2>2. ASSUME tx[q].op = "resolve"
        PROVE  tx[q].club = None /\ tx[q].link \in Links /\ link'[tx[q].link] # NoLink
    BY <1>0, <1>1, <2>2 DEF OfSubject, RowsStay, LinksStay
  <2> QED BY <1>1, <2>1, <2>2 DEF OfSubject
<1>4. Found(tx[q])'
  <2>1. ASSUME Through(tx[q], "event")
        PROVE  /\ tx[q].event \in tx[q].held /\ event'[tx[q].event] = event[tx[q].event]
               /\ IF tx[q].op = "register" THEN OpenToGuests(tx[q].event)'
                  ELSE ManagedBy(tx[q].event, tx[q].who)'
    <3>1. /\ tx[q].event \in tx[q].held
          /\ IF tx[q].op = "register" THEN OpenToGuests(tx[q].event)
             ELSE ManagedBy(tx[q].event, tx[q].who)
      BY <1>1, <2>1 DEF Found
    <3>2. tx[q].event \in Events
      <4>1. tx[q].op \notin {"create", "resolve"}
        BY <2>1 DEF Through, Itinerary
      <4> QED BY <1>1, <4>1 DEF OfSubject
    <3>3. event'[tx[q].event] = event[tx[q].event]
      BY <1>0, <3>1, <3>2 DEF RowsStay, EventsStay
    <3> QED BY <3>1, <3>3 DEF OpenToGuests, ManagedBy, Exists, OfClub
  <2>2. ASSUME Through(tx[q], "club")
        PROVE  /\ tx[q].club \in tx[q].held
               /\ IF tx[q].op = "register" THEN ClubAvailable(tx[q].club)'
                  ELSE ManagerOf(tx[q].club, tx[q].who)'
    <3>1. /\ tx[q].club \in tx[q].held
          /\ IF tx[q].op = "register" THEN ClubAvailable(tx[q].club)
             ELSE ManagerOf(tx[q].club, tx[q].who)
      BY <1>1, <2>2 DEF Found
    <3>2. tx[q].club \in Clubs
      <4>1. tx[q].club # None
        BY <2>2 DEF Through, Itinerary, Creating
      <4> QED BY <1>0, <4>1 DEF Transaction
    <3>3. club'[tx[q].club] = club[tx[q].club]
      BY <1>0, <3>1, <3>2 DEF RowsStay, ClubsStay
    <3> QED BY <3>1, <3>3 DEF ClubAvailable, ManagerOf
  <2>3. ASSUME Through(tx[q], "user")
        PROVE  tx[q].who \in tx[q].held /\ (tx[q].club # None \/ MayCreateOneMore(tx[q].who)')
    <3>1. tx[q].who \in tx[q].held /\ (tx[q].club # None \/ MayCreateOneMore(tx[q].who))
      BY <1>1, <2>3 DEF Found
    <3>2. tx[q].who \in Organizers
      <4>1. tx[q].op \in Creating
        BY <2>3 DEF Through, Itinerary
      <4> QED BY <1>1, <4>1 DEF OfSubject, Creating
    <3>3. PICK u \in Organizers : u = tx[q].who
      BY <3>2
    <3>4. limit' = limit /\ ActiveEvents(u)' \subseteq ActiveEvents(u)
      BY <1>0, <3>1, <3>2, <3>3 DEF RowsStay, UsersStay
    <3>5. MayCreateOneMore(u) => MayCreateOneMore(u)'
      <4>1. Cardinality(ActiveEvents(u)') <= Cardinality(ActiveEvents(u))
            /\ Cardinality(ActiveEvents(u)') \in Nat
        BY <3>4, ActiveShrink
      <4>2. Cardinality(ActiveEvents(u)) \in Nat /\ limit \in Nat
        BY ActiveAreFinite, PublishingAssumption DEF EventTables
      <4> QED BY <3>4, <4>1, <4>2 DEF MayCreateOneMore
    <3>6. MayCreateOneMore(u)' => MayCreateOneMore(tx[q].who)'
      BY <3>3 DEF MayCreateOneMore, ActiveEvents, Exists
    <3> QED BY <3>1, <3>3, <3>5, <3>6
  <2>4. ASSUME Through(tx[q], "link"), NeedsLink(tx[q])'
        PROVE  /\ tx[q].link \in tx[q].held /\ tx[q].link \in Links
               /\ link'[tx[q].link] # NoLink /\ ~link'[tx[q].link].revoked
    <3>1. tx[q].op = "resolve" \/ tx[q].op = "register"
      BY <2>4 DEF Through, Itinerary, Creating
    <3>2. NeedsLink(tx[q])
      <4>1. CASE tx[q].op = "resolve"
        BY <4>1 DEF NeedsLink
      <4>2. CASE tx[q].op = "register"
        <5>1. "event" \in Itinerary(tx[q].op, tx[q].club = None)
          BY <4>2 DEF Itinerary
        <5>2. Earlier(tx[q].op, "link") \cap tx[q].todo = {} /\ "event" \in Earlier(tx[q].op, "link")
          BY <1>1, <2>4 DEF InOrder, Through, Earlier
        <5>3. Through(tx[q], "event")
          BY <5>1, <5>2 DEF Through
        <5>4. event'[tx[q].event] = event[tx[q].event]
          BY <2>1, <5>3
        <5> QED BY <2>4, <5>4 DEF NeedsLink
      <4> QED BY <3>1, <4>1, <4>2
    <3>3. /\ tx[q].link \in tx[q].held /\ tx[q].link \in Links
          /\ link[tx[q].link] # NoLink /\ ~link[tx[q].link].revoked
      BY <1>1, <2>4, <3>2 DEF Found
    <3> QED BY <1>0, <3>3 DEF RowsStay, LinksStay
  <2> QED BY <2>1, <2>2, <2>3, <2>4 DEF Found, Through
<1> QED BY <1>2, <1>3, <1>4

-----------------------------------------------------------------------------
(* One request moves. *)
LEMMA OneRequestMoves ==
    ASSUME PublishInv, EventTables', NEW r \in Requests, NEW x \in Transaction \cup {Idle},
           tx' = [tx EXCEPT ![r] = x], RequestStands(r)',
           \A q \in Requests \ {r} : tx[q] # Idle =>
              RowsStay(tx[q].held) /\ (x # Idle => tx[q].held \cap x.held = {})
    PROVE  RequestsStand'
<1>1. tx \in [Requests -> Transaction \cup {Idle}]
  BY DEF PublishInv, RequestsStand
<1>2. /\ tx' \in [Requests -> Transaction \cup {Idle}] /\ tx'[r] = x
      /\ \A q \in Requests \ {r} : tx'[q] = tx[q]
  BY <1>1
<1>3. ASSUME NEW q \in Requests \ {r}
      PROVE  RequestStands(q)'
  <2>1. RequestStands(q) /\ tx'[q] = tx[q]
    BY <1>2 DEF PublishInv, RequestsStand
  <2>2. tx[q] # Idle => tx[q] \in Transaction /\ RowsStay(tx[q].held)
    BY <1>1
  <2> QED BY <2>1, <2>2, StandsOnward DEF PublishInv
<1>4. ASSUME NEW p \in Requests, NEW q \in Requests, p # q, tx'[p] # Idle, tx'[q] # Idle
      PROVE  tx'[p].held \cap tx'[q].held = {}
  <2>1. CASE p = r
    BY <1>2, <1>4, <2>1
  <2>2. CASE q = r
    BY <1>2, <1>4, <2>2
  <2>3. CASE p # r /\ q # r
    <3>1. tx'[p] = tx[p] /\ tx'[q] = tx[q]
      BY <1>2, <2>3
    <3> QED BY <1>4, <3>1 DEF PublishInv, RequestsStand
  <2> QED BY <2>1, <2>2, <2>3
<1> QED BY <1>2, <1>3, <1>4 DEF RequestsStand

LEMMA OneRequestEnds ==
    ASSUME PublishInv, EventTables', NEW r \in Requests, End(r),
           \A q \in Requests \ {r} : tx[q] # Idle => RowsStay(tx[q].held)
    PROVE  RequestsStand'
<1>1. tx' = [tx EXCEPT ![r] = Idle]
  BY DEF End
<1>2. RequestStands(r)'
  <2>1. tx'[r] = Idle
    BY <1>1 DEF PublishInv, RequestsStand
  <2> QED BY <2>1 DEF RequestStands
<1> QED BY <1>1, <1>2, OneRequestMoves

LEMMA NoRequestMoves ==
    ASSUME PublishInv, EventTables', tx' = tx,
           \A q \in Requests : tx[q] # Idle => RowsStay(tx[q].held)
    PROVE  RequestsStand'
<1>1. tx \in [Requests -> Transaction \cup {Idle}]
  BY DEF PublishInv, RequestsStand
<1>2. ASSUME NEW q \in Requests
      PROVE  RequestStands(q)'
  <2>1. RequestStands(q) /\ tx'[q] = tx[q]
    BY DEF PublishInv, RequestsStand
  <2>2. tx[q] # Idle => tx[q] \in Transaction /\ RowsStay(tx[q].held)
    BY <1>1
  <2> QED BY <2>1, <2>2, StandsOnward DEF PublishInv
<1> QED BY <1>2 DEF PublishInv, RequestsStand

LEMMA EventsRest ==
    ASSUME event' = event, NEW held
    PROVE  EventsStay(held) /\ \A u : ActiveEvents(u)' = ActiveEvents(u)
BY DEF EventsStay, Exists, ActiveEvents

LEMMA LinksRest ==
    ASSUME link' = link, NEW held
    PROVE  LinksStay(held)
BY DEF LinksStay

LEMMA ClubsRest ==
    ASSUME club' = club, NEW held
    PROVE  ClubsStay(held)
BY DEF ClubsStay

LEMMA RowsRest ==
    ASSUME UNCHANGED <<event, link, club, limit>>, NEW held
    PROVE  RowsStay(held)
BY EventsRest, LinksRest, ClubsRest DEF RowsStay, UsersStay

\* The tables stay when only requests move.
LEMMA TablesRest ==
    ASSUME PublishInv, UNCHANGED <<event, link, club, limit, joined, told>>,
           begun' \in 0..MaxRequests
    PROVE  EventTables' /\ SharedOK' /\ HistoryOK'
<1>1. EventTables'
  BY DEF PublishInv, EventTables
<1>2. SharedOK'
  BY DEF PublishInv, SharedOK, LinksOnlyWhereShared, OneLink, PublishedIsComplete, Exists,
         OfClub, LiveLinks
<1>3. HistoryOK'
  BY DEF PublishInv, HistoryOK, ToldOfEveryChange, Exists
<1> QED BY <1>1, <1>2, <1>3

LEMMA QuietEnd ==
    ASSUME PublishInv, NEW r \in Requests, End(r),
           UNCHANGED <<event, link, club, limit, joined, told, begun>>
    PROVE  PublishInv'
<1>1. EventTables' /\ SharedOK' /\ HistoryOK'
  BY TablesRest DEF PublishInv, EventTables
<1>2. RequestsStand'
  BY <1>1, RowsRest, OneRequestEnds
<1> QED BY <1>1, <1>2 DEF PublishInv

LEMMA RequestBegins ==
    ASSUME PublishInv, NEW r \in Requests, MayBegin(r), NEW x \in Transaction, Begin(r, x),
           x.held = {}, x.todo = Itinerary(x.op, x.club = None), OfSubject(x)
    PROVE  PublishInv'
<1>1. /\ tx' = [tx EXCEPT ![r] = x] /\ begun' = begun + 1
      /\ UNCHANGED <<event, link, club, limit, joined, told>>
  BY DEF Begin
<1>2. begun' \in 0..MaxRequests
  BY <1>1, PublishingAssumption DEF MayBegin, PublishInv, EventTables
<1>3. EventTables' /\ SharedOK' /\ HistoryOK'
  BY <1>1, <1>2, TablesRest
<1>4. tx'[r] = x
  BY <1>1 DEF PublishInv, RequestsStand
<1>5. OfSubject(x)'
  BY <1>1 DEF OfSubject, ClubOf, OfClub, Exists
<1>6. \A kind : ~Through(x, kind)
  BY DEF Through
<1>7. InOrder(x)' /\ Found(x)' /\ HoldsOwn(x)'
  BY <1>6 DEF InOrder, Found, HoldsOwn
<1>8. RequestStands(r)'
  BY <1>4, <1>5, <1>6, <1>7 DEF RequestStands, OfSubject, InOrder, Found, HoldsOwn, OwnRow, Through
<1>9. \A q \in Requests \ {r} : tx[q] # Idle =>
         RowsStay(tx[q].held) /\ (x # Idle => tx[q].held \cap x.held = {})
  BY <1>1, RowsRest
<1>10. RequestsStand'
  BY <1>1, <1>3, <1>8, <1>9, OneRequestMoves
<1> QED BY <1>3, <1>10 DEF PublishInv

-----------------------------------------------------------------------------
(* Beginnings. *)
LEMMA OpeningForm ==
    ASSUME NEW op \in Operations, NEW who \in Organizers \cup Guests, NEW own
    PROVE  /\ Opening(op, who, own) \in Transaction
           /\ Opening(op, who, own).held = {}
           /\ Opening(op, who, own).todo = Itinerary(op, own)
           /\ Opening(op, who, own).op = op /\ Opening(op, who, own).who = who
           /\ Opening(op, who, own).seen.revision = Opening(op, who, own).seen.writes
           /\ Opening(op, who, own).club = None
<1>1. Itinerary(op, own) \in SUBSET {"event", "club", "user", "link"}
  BY DEF Itinerary
<1> QED BY <1>1 DEF Opening, Transaction, Visibilities, Revisions

LEMMA BeginCreateKeeps ==
    ASSUME PublishInv, NEW r \in Requests, MayBegin(r),
           NEW u \in Organizers, NEW c \in Clubs \cup {None}, NEW visibility \in Visibilities,
           NEW complete \in BOOLEAN, NEW publish \in BOOLEAN,
           BeginCreate(r, u, c, visibility, complete, publish)
    PROVE  PublishInv'
<1> DEFINE o == Opening("create", u, c = None)
           x == [o EXCEPT !.club = c, !.visibility = visibility, !.complete = complete,
                          !.publish = publish]
<1>1. Begin(r, x)
  BY DEF BeginCreate
<1>2. "create" \in Operations
  BY DEF Operations, Signed, Creating
<1>3. /\ o \in Transaction /\ o.held = {} /\ o.todo = Itinerary("create", c = None)
      /\ o.op = "create" /\ o.who = u /\ o.seen.revision = o.seen.writes
  BY <1>2, OpeningForm
<1> HIDE DEF o
<1>4. /\ x \in Transaction /\ x.held = {} /\ x.todo = Itinerary("create", c = None)
      /\ x.op = "create" /\ x.who = u /\ x.seen.revision = x.seen.writes /\ x.club = c
  BY <1>3 DEF Transaction
<1> HIDE DEF x
<1>5. OfSubject(x) /\ x.todo = Itinerary(x.op, x.club = None)
  BY <1>4 DEF OfSubject
<1> QED BY <1>1, <1>4, <1>5, RequestBegins

\* What an organizer asks for about an event that he sees.
LEMMA AskedForm ==
    ASSUME PublishInv, NEW op \in Fenced \cup {"duplicate", "issue", "rotate", "revoke", "replay"},
           NEW u \in Organizers, NEW e \in Events, Sees(u, e)
    PROVE  /\ Asked(op, u, e) \in Transaction /\ Asked(op, u, e).held = {}
           /\ Asked(op, u, e).todo = Itinerary(Asked(op, u, e).op, Asked(op, u, e).club = None)
           /\ OfSubject(Asked(op, u, e))
<1> DEFINE o == Opening(op, u, Independent(e))
           x == Asked(op, u, e)
<1>1. op \in Operations /\ op \notin {"create", "register", "resolve"}
  BY DEF Operations, Signed, Fenced, Creating
<1>2. /\ o \in Transaction /\ o.held = {} /\ o.todo = Itinerary(op, Independent(e))
      /\ o.op = op /\ o.who = u
  BY <1>1, OpeningForm
<1>3. Exists(e)
  BY DEF Sees, ManagedBy
<1>4. /\ event[e].revision \in Nat /\ event[e].writes \in Nat
      /\ event[e].revision = event[e].writes
      /\ ClubOf(e) \in Clubs \cup {None} /\ (ClubOf(e) = None <=> Independent(e))
  BY <1>3, EventForm DEF PublishInv, HistoryOK
<1> HIDE DEF o
<1>5. x = [o EXCEPT !.event = e, !.club = ClubOf(e),
                    !.seen = [revision |-> event[e].revision, writes |-> event[e].writes]]
  BY DEF Asked, o, ClubOf
<1> HIDE DEF x
<1>6. /\ x \in Transaction /\ x.held = {} /\ x.todo = Itinerary(op, Independent(e))
      /\ x.op = op /\ x.who = u /\ x.event = e /\ x.club = ClubOf(e)
      /\ x.seen.revision = x.seen.writes
  BY <1>2, <1>4, <1>5 DEF Transaction, Revisions
<1>7. x.todo = Itinerary(x.op, x.club = None)
  <2>1. (x.club = None) = Independent(e)
    BY <1>4, <1>6 DEF Independent
  <2> QED BY <1>6, <2>1
<1>8. OfSubject(x)
  BY <1>1, <1>3, <1>6 DEF OfSubject, Exists
<1> QED BY <1>6, <1>7, <1>8 DEF x

LEMMA AskKeeps ==
    ASSUME PublishInv, NEW r \in Requests, MayBegin(r),
           NEW op \in Fenced \cup {"duplicate", "issue", "rotate", "revoke", "replay"},
           NEW u \in Organizers, NEW e \in Events, Sees(u, e), Begin(r, Asked(op, u, e))
    PROVE  PublishInv'
BY AskedForm, RequestBegins

LEMMA BeginEditKeeps ==
    ASSUME PublishInv, NEW r \in Requests, MayBegin(r), NEW u \in Organizers, NEW e \in Events,
           NEW visibility \in Visibilities, NEW complete \in BOOLEAN, NEW publish \in BOOLEAN,
           BeginEdit(r, u, e, visibility, complete, publish)
    PROVE  PublishInv'
<1> DEFINE o == Asked("edit", u, e)
           x == [o EXCEPT !.visibility = visibility, !.complete = complete, !.publish = publish]
<1>1. Sees(u, e) /\ Begin(r, x)
  BY DEF BeginEdit
<1>2. "edit" \in Fenced
  BY DEF Fenced
<1>3. /\ o \in Transaction /\ o.held = {} /\ o.todo = Itinerary(o.op, o.club = None)
      /\ OfSubject(o)
  BY <1>1, <1>2, AskedForm
<1> HIDE DEF o
<1>4. /\ x \in Transaction /\ x.held = {} /\ x.todo = o.todo
      /\ x.op = o.op /\ x.who = o.who /\ x.seen = o.seen /\ x.club = o.club /\ x.event = o.event
      /\ x.link = o.link
  BY <1>3 DEF Transaction
<1> HIDE DEF x
<1>5. OfSubject(x)
  BY <1>3, <1>4 DEF OfSubject
<1> QED BY <1>1, <1>3, <1>4, <1>5, RequestBegins

LEMMA BeginRegistrationKeeps ==
    ASSUME PublishInv, NEW r \in Requests, MayBegin(r), NEW g \in Guests, NEW e \in Events,
           NEW l \in Links \cup {None}, BeginRegistration(r, g, e, l)
    PROVE  PublishInv'
<1> DEFINE o == Opening("register", g, Independent(e))
           x == [o EXCEPT !.event = e, !.club = ClubOf(e), !.link = l]
<1>1. Begin(r, x) /\ Exists(e)
  BY DEF BeginRegistration, ClubOf
<1>2. "register" \in Operations
  BY DEF Operations, Signed
<1>3. /\ o \in Transaction /\ o.held = {} /\ o.todo = Itinerary("register", Independent(e))
      /\ o.op = "register" /\ o.who = g /\ o.seen.revision = o.seen.writes
  BY <1>2, OpeningForm
<1>4. ClubOf(e) \in Clubs \cup {None} /\ (ClubOf(e) = None <=> Independent(e))
  BY <1>1, EventForm DEF PublishInv
<1> HIDE DEF o
<1>5. /\ x \in Transaction /\ x.held = {} /\ x.todo = Itinerary("register", Independent(e))
      /\ x.op = "register" /\ x.who = g /\ x.seen.revision = x.seen.writes
      /\ x.event = e /\ x.club = ClubOf(e)
  BY <1>3, <1>4 DEF Transaction
<1> HIDE DEF x
<1>6. x.todo = Itinerary(x.op, x.club = None)
  <2>1. (x.club = None) = Independent(e)
    BY <1>4, <1>5 DEF Independent
  <2> QED BY <1>5, <2>1
<1>7. OfSubject(x)
  BY <1>1, <1>5 DEF OfSubject, Exists
<1> QED BY <1>1, <1>5, <1>6, <1>7, RequestBegins

LEMMA BeginVisitKeeps ==
    ASSUME PublishInv, NEW r \in Requests, MayBegin(r), NEW g \in Guests, NEW l \in Links,
           BeginVisit(r, g, l)
    PROVE  PublishInv'
<1> DEFINE o == Opening("resolve", g, TRUE)
           x == [o EXCEPT !.link = l]
<1>1. Begin(r, x) /\ link[l] # NoLink
  BY DEF BeginVisit
<1>2. "resolve" \in Operations
  BY DEF Operations, Signed
<1>3. /\ o \in Transaction /\ o.held = {} /\ o.todo = Itinerary("resolve", TRUE)
      /\ o.op = "resolve" /\ o.who = g /\ o.seen.revision = o.seen.writes /\ o.club = None
  <2>1. Itinerary("resolve", TRUE) \in SUBSET {"event", "club", "user", "link"}
    BY DEF Itinerary
  <2> QED BY <1>2, <2>1 DEF Opening, Transaction, Visibilities, Revisions
<1> HIDE DEF o
<1>4. /\ x \in Transaction /\ x.held = {} /\ x.todo = Itinerary("resolve", TRUE)
      /\ x.op = "resolve" /\ x.who = g /\ x.seen.revision = x.seen.writes
      /\ x.club = None /\ x.link = l
  BY <1>3 DEF Transaction
<1> HIDE DEF x
<1>5. x.todo = Itinerary(x.op, x.club = None) /\ OfSubject(x)
  BY <1>1, <1>4 DEF OfSubject
<1> QED BY <1>1, <1>4, <1>5, RequestBegins

-----------------------------------------------------------------------------
(* A row is locked. *)
\* What may be next, and the row it is.
LEMMA RowForm ==
    ASSUME PublishInv, NEW r \in Requests, tx[r] # Idle, NEW kind \in tx[r].todo,
           Passes(tx[r], kind)
    PROVE  /\ kind \in Itinerary(tx[r].op, tx[r].club = None)
           /\ kind \in {"event", "club", "user", "link"}
           /\ kind = "event" => /\ Locks(RowOf(tx[r], kind)) = {tx[r].event} /\ tx[r].event \in Events
                                /\ tx[r].op \notin {"create", "resolve"}
           /\ kind = "club" => Locks(RowOf(tx[r], kind)) = {tx[r].club} /\ tx[r].club \in Clubs
           /\ kind = "user" => Locks(RowOf(tx[r], kind)) = {tx[r].who} /\ tx[r].who \in Organizers
           /\ (kind = "link" /\ NeedsLink(tx[r])) =>
                /\ Locks(RowOf(tx[r], kind)) = {tx[r].link} /\ tx[r].link \in Links
                /\ link[tx[r].link] # NoLink /\ ~link[tx[r].link].revoked
           /\ (kind = "link" /\ ~NeedsLink(tx[r])) => Locks(RowOf(tx[r], kind)) = {}
<1>1. tx[r] \in Transaction /\ OfSubject(tx[r]) /\ InOrder(tx[r])
  BY RequestForm DEF PublishInv
<1>2. kind \in Itinerary(tx[r].op, tx[r].club = None)
  BY <1>1 DEF InOrder
<1>3. kind \in {"event", "club", "user", "link"}
  BY <1>2 DEF Itinerary
<1>4. ASSUME kind = "event"
      PROVE  /\ Locks(RowOf(tx[r], kind)) = {tx[r].event} /\ tx[r].event \in Events
             /\ tx[r].op \notin {"create", "resolve"}
  <2>1. tx[r].op \notin {"create", "resolve"}
    BY <1>2, <1>4 DEF Itinerary
  <2>2. tx[r].event \in Events
    BY <1>1, <2>1 DEF OfSubject
  <2> QED BY <1>4, <2>1, <2>2, PublishingAssumption DEF Locks, RowOf
<1>5. ASSUME kind = "club"
      PROVE  Locks(RowOf(tx[r], kind)) = {tx[r].club} /\ tx[r].club \in Clubs
  <2>1. tx[r].club # None
    BY <1>2, <1>5 DEF Itinerary, Creating
  <2>2. tx[r].club \in Clubs
    BY <1>1, <2>1 DEF Transaction
  <2> QED BY <1>5, <2>1, <2>2 DEF Locks, RowOf
<1>6. ASSUME kind = "user"
      PROVE  Locks(RowOf(tx[r], kind)) = {tx[r].who} /\ tx[r].who \in Organizers
  <2>1. tx[r].op \in Creating
    BY <1>2, <1>6 DEF Itinerary
  <2>2. tx[r].who \in Organizers
    BY <1>1, <2>1 DEF OfSubject, Creating
  <2> QED BY <1>6, <2>2, PublishingAssumption DEF Locks, RowOf
<1>7. ASSUME kind = "link", NeedsLink(tx[r])
      PROVE  /\ Locks(RowOf(tx[r], kind)) = {tx[r].link} /\ tx[r].link \in Links
             /\ link[tx[r].link] # NoLink /\ ~link[tx[r].link].revoked
  <2>1. tx[r].op = "resolve" \/ tx[r].op = "register"
    BY <1>2, <1>7 DEF Itinerary, Creating
  <2>2. tx[r].link \in Links /\ link[tx[r].link] # NoLink /\ ~link[tx[r].link].revoked
    <3>1. CASE tx[r].op = "resolve"
      BY <1>1, <1>7, <3>1 DEF OfSubject, Passes, Opens
    <3>2. CASE tx[r].op = "register"
      <4>1. AdmitsTo(tx[r].link, tx[r].event)
        BY <1>7, <3>2 DEF Passes
      <4>2. tx[r].event \in Events
        BY <1>1, <3>2 DEF OfSubject
      <4>3. tx[r].link \in Links
        BY <1>1, <4>1 DEF AdmitsTo, Transaction
      <4>4. link[tx[r].link] # NoLink
        BY <4>1, <4>2, <4>3, LinkForm DEF AdmitsTo, PublishInv
      <4> QED BY <4>1, <4>3, <4>4 DEF AdmitsTo
    <3> QED BY <2>1, <3>1, <3>2
  <2> QED BY <1>7, <2>2, PublishingAssumption DEF Locks, RowOf
<1>8. ASSUME kind = "link", ~NeedsLink(tx[r])
      PROVE  Locks(RowOf(tx[r], kind)) = {}
  BY <1>8 DEF Locks, RowOf
<1> QED BY <1>2, <1>3, <1>4, <1>5, <1>6, <1>7, <1>8

\* No other request holds any of the rows.
FreeFrom(r, rows) == \A q \in Requests \ {r} : tx[q] # Idle => tx[q].held \cap rows = {}

LEMMA NotStuck ==
    ASSUME NEW r \in Requests, tx[r] # Idle, ~Stuck(r)
    PROVE  FreeFrom(r, Wants(r))
BY DEF FreeFrom, Stuck, WaitsFor

LEMMA LockKeeps ==
    ASSUME PublishInv, NEW r \in Requests, Lock(r)
    PROVE  PublishInv'
<1>1. /\ Waiting(r) /\ FreeFrom(r, Wants(r))
      /\ UNCHANGED <<event, link, club, limit, joined, told, begun>>
  BY NotStuck DEF Lock, Waiting
<1>2. PICK kind \in tx[r].todo :
        /\ IsNext(tx[r], kind)
        /\ IF Passes(tx[r], kind)
           THEN tx' = [tx EXCEPT ![r].todo = @ \ {kind},
                                 ![r].held = @ \cup Locks(RowOf(tx[r], kind))]
           ELSE End(r)
  BY DEF Lock
<1>3. CASE ~Passes(tx[r], kind)
  BY <1>1, <1>2, <1>3, QuietEnd
<1>4. CASE Passes(tx[r], kind)
  <2> DEFINE rows == Locks(RowOf(tx[r], kind))
             y == [tx[r] EXCEPT !.todo = @ \ {kind}, !.held = @ \cup rows]
  <2>1. /\ tx[r] # Idle /\ tx[r] \in Transaction
        /\ OfSubject(tx[r]) /\ InOrder(tx[r]) /\ Found(tx[r]) /\ HoldsOwn(tx[r])
    BY <1>1, RequestForm DEF Waiting, PublishInv
  <2>2. /\ kind \in Itinerary(tx[r].op, tx[r].club = None)
        /\ kind \in {"event", "club", "user", "link"}
        /\ kind = "event" => /\ rows = {tx[r].event} /\ tx[r].event \in Events
                             /\ tx[r].op \notin {"create", "resolve"}
        /\ kind = "club" => rows = {tx[r].club} /\ tx[r].club \in Clubs
        /\ kind = "user" => rows = {tx[r].who} /\ tx[r].who \in Organizers
        /\ (kind = "link" /\ NeedsLink(tx[r])) =>
             /\ rows = {tx[r].link} /\ tx[r].link \in Links
             /\ link[tx[r].link] # NoLink /\ ~link[tx[r].link].revoked
        /\ (kind = "link" /\ ~NeedsLink(tx[r])) => rows = {}
    BY <1>4, <2>1, RowForm
  <2>3. rows \subseteq {RowOf(tx[r], kind)} /\ RowOf(tx[r], kind) \in Wants(r)
    <3>1. RowOf(tx[r], kind) \in Wants(r)
      BY <1>1, <1>2 DEF Wants
    <3> QED BY <3>1 DEF Locks
  <2> HIDE DEF rows
  <2>4. tx' = [tx EXCEPT ![r] = y]
    BY <1>2, <1>4 DEF rows
  <2>5. PICK x : x = y
    OBVIOUS
  <2>6. /\ x.op = tx[r].op /\ x.who = tx[r].who /\ x.event = tx[r].event /\ x.club = tx[r].club
        /\ x.link = tx[r].link /\ x.seen = tx[r].seen
        /\ x.todo = tx[r].todo \ {kind} /\ x.held = tx[r].held \cup rows
    BY <2>1, <2>5 DEF Transaction
  <2>7. rows \subseteq Events \cup Clubs \cup Organizers \cup Links
    BY <2>2
  <2>8. x \in Transaction /\ x # Idle
    <3>1. x.todo \in SUBSET {"event", "club", "user", "link"}
      BY <2>1, <2>6 DEF Transaction
    <3>2. x.held \in SUBSET (Events \cup Clubs \cup Organizers \cup Links)
      BY <2>1, <2>6, <2>7 DEF Transaction
    <3>3. y \in Transaction
      BY <2>1, <2>5, <2>6, <3>1, <3>2 DEF Transaction
    <3> QED BY <2>5, <3>3, TransactionIsNotIdle
  <2> HIDE DEF y
  <2>9. \A k : Through(x, k) <=> (Through(tx[r], k) \/ k = kind)
    BY <2>2, <2>6 DEF Through
  <2>10. OfSubject(x)
    BY <2>1, <2>6 DEF OfSubject
  <2>11. InOrder(x)
    <3>1. Earlier(tx[r].op, kind) \cap tx[r].todo = {}
      BY <1>2 DEF IsNext
    <3> QED BY <2>1, <2>6, <2>9, <3>1 DEF InOrder
  <2>12. NeedsLink(x) <=> NeedsLink(tx[r])
    BY <2>6 DEF NeedsLink
  <2>13. Found(x)
    <3>1. ASSUME Through(x, "event")
          PROVE  /\ x.event \in x.held
                 /\ IF x.op = "register" THEN OpenToGuests(x.event) ELSE ManagedBy(x.event, x.who)
      <4>1. CASE kind = "event"
        BY <1>4, <2>2, <2>6, <4>1 DEF Passes
      <4>2. CASE kind # "event"
        BY <2>1, <2>6, <2>9, <3>1, <4>2 DEF Found
      <4> QED BY <4>1, <4>2
    <3>2. ASSUME Through(x, "club")
          PROVE  /\ x.club \in x.held
                 /\ IF x.op = "register" THEN ClubAvailable(x.club) ELSE ManagerOf(x.club, x.who)
      <4>1. CASE kind = "club"
        BY <1>4, <2>2, <2>6, <4>1 DEF Passes
      <4>2. CASE kind # "club"
        BY <2>1, <2>6, <2>9, <3>2, <4>2 DEF Found
      <4> QED BY <4>1, <4>2
    <3>3. ASSUME Through(x, "user")
          PROVE  x.who \in x.held /\ (x.club # None \/ MayCreateOneMore(x.who))
      <4>1. CASE kind = "user"
        BY <1>4, <2>2, <2>6, <4>1 DEF Passes
      <4>2. CASE kind # "user"
        BY <2>1, <2>6, <2>9, <3>3, <4>2 DEF Found
      <4> QED BY <4>1, <4>2
    <3>4. ASSUME Through(x, "link"), NeedsLink(x)
          PROVE  /\ x.link \in x.held /\ x.link \in Links
                 /\ link[x.link] # NoLink /\ ~link[x.link].revoked
      <4>1. CASE kind = "link"
        BY <2>2, <2>6, <2>12, <3>4, <4>1
      <4>2. CASE kind # "link"
        BY <2>1, <2>6, <2>9, <2>12, <3>4, <4>2 DEF Found
      <4> QED BY <4>1, <4>2
    <3> QED BY <3>1, <3>2, <3>3, <3>4 DEF Found
  <2>14. HoldsOwn(x)
    <3>1. ASSUME NEW row \in rows
          PROVE  OwnRow(x, row)
      BY <2>2, <2>6, <2>9, <3>1 DEF OwnRow
    <3>2. ASSUME NEW row \in tx[r].held
          PROVE  OwnRow(x, row)
      BY <2>1, <2>6, <2>9 DEF HoldsOwn, OwnRow
    <3> QED BY <2>6, <3>1, <3>2 DEF HoldsOwn
  <2>15. EventTables' /\ SharedOK' /\ HistoryOK'
    BY <1>1, TablesRest DEF PublishInv, EventTables
  <2>16. RequestStands(r)'
    <3>1. tx'[r] = x
      BY <2>4, <2>5 DEF PublishInv, RequestsStand
    <3>2. (OfSubject(x) /\ InOrder(x) /\ Found(x) /\ HoldsOwn(x))'
      <4>1. OfSubject(x)'
        BY <1>1, <2>10 DEF OfSubject, ClubOf, OfClub, Exists
      <4>2. InOrder(x)' /\ HoldsOwn(x)'
        BY <1>1, <2>11, <2>14 DEF InOrder, HoldsOwn, OwnRow
      <4>3. Found(x)'
        BY <1>1, <2>13 DEF Found, OpenToGuests, ManagedBy, ClubAvailable, ManagerOf,
           MayCreateOneMore, ActiveEvents, NeedsLink, OfClub, Exists
      <4> QED BY <4>1, <4>2, <4>3
    <3> QED BY <3>1, <3>2 DEF RequestStands, OfSubject, InOrder, Found, HoldsOwn, OwnRow, NeedsLink, Through
  <2>17. ASSUME NEW q \in Requests \ {r}, tx[q] # Idle
         PROVE  RowsStay(tx[q].held) /\ tx[q].held \cap x.held = {}
    <3>1. RowsStay(tx[q].held)
      BY <1>1, RowsRest
    <3>2. tx[q].held \cap tx[r].held = {}
      BY <2>1, <2>17 DEF PublishInv, RequestsStand
    <3>3. tx[q].held \cap rows = {}
      BY <1>1, <2>3, <2>17 DEF FreeFrom
    <3> QED BY <2>6, <3>1, <3>2, <3>3
  <2>18. RequestsStand'
    BY <2>4, <2>5, <2>8, <2>15, <2>16, <2>17, OneRequestMoves
  <2> QED BY <2>15, <2>18 DEF PublishInv
<1> QED BY <1>3, <1>4

LEMMA RefuseKeeps ==
    ASSUME PublishInv, NEW r \in Requests, Refuse(r) \/ BreakDeadlock(r) \/ Show(r)
    PROVE  PublishInv'
BY QuietEnd DEF Refuse, BreakDeadlock, Show

-----------------------------------------------------------------------------
(* The forms of a request that writes. *)
LEMMA ReadyForm ==
    ASSUME PublishInv, NEW r \in Requests, NEW op, Ready(r, op)
    PROVE  /\ tx[r] # Idle /\ tx[r] \in Transaction /\ tx[r].op = op /\ tx[r].todo = {}
           /\ MayWrite(r) /\ FreeFrom(r, Revoking(r)) /\ HoldsAll(r)
           /\ OfSubject(tx[r]) /\ Found(tx[r])
           /\ \A kind : Through(tx[r], kind) <=> kind \in Itinerary(tx[r].op, tx[r].club = None)
           /\ \A q \in Requests \ {r} : tx[q] # Idle => tx[q].held \cap tx[r].held = {}
<1>1. /\ tx[r] # Idle /\ tx[r].op = op /\ tx[r].todo = {}
      /\ MayWrite(r) /\ FreeFrom(r, Revoking(r)) /\ HoldsAll(r)
  <2>1. HoldsAll(r) /\ tx[r].op = op /\ MayWrite(r) /\ ~Stuck(r)
    BY DEF Ready
  <2>2. tx[r] # Idle /\ tx[r].todo = {} /\ Wants(r) = Revoking(r)
    BY <2>1 DEF HoldsAll, Waiting, Wants
  <2> QED BY <2>1, <2>2, NotStuck
<1>2. tx[r] \in Transaction /\ OfSubject(tx[r]) /\ Found(tx[r])
  BY <1>1, RequestForm DEF PublishInv
<1>3. \A kind : Through(tx[r], kind) <=> kind \in Itinerary(tx[r].op, tx[r].club = None)
  BY <1>1 DEF Through
<1>4. \A q \in Requests \ {r} : tx[q] # Idle => tx[q].held \cap tx[r].held = {}
  BY <1>1 DEF PublishInv, RequestsStand
<1> QED BY <1>1, <1>2, <1>3, <1>4

\* An organizer that writes to an event manages it, and holds it and its club.
LEMMA WriterForm ==
    ASSUME PublishInv, NEW r \in Requests, NEW op \in Operations \ {"create", "register", "resolve"},
           Ready(r, op)
    PROVE  /\ tx[r].event \in Events /\ Exists(tx[r].event)
           /\ event[tx[r].event] \in EventRow
           /\ tx[r].event \in tx[r].held
           /\ event[tx[r].event].status # "suspended"
           /\ OfClub(tx[r].event) \/ event[tx[r].event].owner = tx[r].who
           /\ tx[r].who \in Organizers
           /\ tx[r].club = ClubOf(tx[r].event)
           /\ OfClub(tx[r].event) => /\ event[tx[r].event].owner = tx[r].club
                                     /\ club[tx[r].club].status \notin {"suspended", "closed"}
           /\ tx[r].seen.revision = tx[r].seen.writes
           /\ event[tx[r].event].revision = event[tx[r].event].writes
<1>1. /\ tx[r].op = op /\ OfSubject(tx[r]) /\ Found(tx[r])
      /\ \A kind : Through(tx[r], kind) <=> kind \in Itinerary(tx[r].op, tx[r].club = None)
  BY ReadyForm
<1>2. Through(tx[r], "event")
  BY <1>1 DEF Itinerary
<1>3. tx[r].event \in tx[r].held /\ ManagedBy(tx[r].event, tx[r].who)
  BY <1>1, <1>2 DEF Found
<1>4. /\ tx[r].event \in Events /\ tx[r].who \in Organizers
      /\ Exists(tx[r].event) => tx[r].club = ClubOf(tx[r].event)
      /\ tx[r].seen.revision = tx[r].seen.writes
  BY <1>1 DEF OfSubject
<1>5. /\ Exists(tx[r].event) /\ event[tx[r].event].status # "suspended"
      /\ OfClub(tx[r].event) \/ event[tx[r].event].owner = tx[r].who
  BY <1>3 DEF ManagedBy
<1>6. event[tx[r].event] \in EventRow
  BY <1>4, <1>5, EventForm DEF PublishInv
<1>7. ASSUME OfClub(tx[r].event)
      PROVE  /\ event[tx[r].event].owner = tx[r].club
             /\ club[tx[r].club].status \notin {"suspended", "closed"}
  <2>1. event[tx[r].event].owner = tx[r].club /\ tx[r].club # None
    BY <1>4, <1>5, <1>7, PublishingAssumption DEF ClubOf, OfClub
  <2>2. Through(tx[r], "club")
    BY <1>1, <2>1 DEF Itinerary
  <2>3. ManagerOf(tx[r].club, tx[r].who)
    BY <1>1, <2>2 DEF Found
  <2> QED BY <2>1, <2>3 DEF ManagerOf
<1>8. event[tx[r].event].revision = event[tx[r].event].writes
  BY <1>4, <1>5 DEF PublishInv, HistoryOK
<1> QED BY <1>3, <1>4, <1>5, <1>6, <1>7, <1>8

\* An event, or a link, that is held is one that is there.
LEMMA HeldIsThere ==
    ASSUME PublishInv, NEW q \in Requests, tx[q] # Idle
    PROVE  /\ \A e \in Events \cap tx[q].held : event[e] # NoEvent
           /\ \A l \in Links \cap tx[q].held : link[l] # NoLink
<1>1. OfSubject(tx[q]) /\ InOrder(tx[q]) /\ Found(tx[q]) /\ HoldsOwn(tx[q])
  BY RequestForm DEF PublishInv
<1>2. ASSUME NEW e \in Events \cap tx[q].held
      PROVE  event[e] # NoEvent
  <2>1. e = tx[q].event /\ Through(tx[q], "event")
    BY <1>1, PublishingAssumption DEF HoldsOwn, OwnRow
  <2>2. tx[q].op \notin {"create", "resolve"}
    BY <2>1 DEF Through, Itinerary
  <2> QED BY <1>1, <2>1, <2>2 DEF OfSubject
<1>3. ASSUME NEW l \in Links \cap tx[q].held
      PROVE  link[l] # NoLink
  <2>1. OwnRow(tx[q], l)
    BY <1>1 DEF HoldsOwn
  <2> QED BY <2>1, PublishingAssumption DEF OwnRow
<1> QED BY <1>2, <1>3

-----------------------------------------------------------------------------
(* Tables that change. *)
\* A row of an event takes another form, and no one else holds it.
LEMMA EventChanges ==
    ASSUME EventTables, NEW e \in Events, Exists(e),
           event[e].status \notin {"cancelled", "completed"},
           NEW row, event' = [event EXCEPT ![e] = row],
           row = Deleted \/ (row \in EventRow /\ row.owner = event[e].owner)
    PROVE  /\ event' \in [Events -> EventRow \cup {NoEvent, Deleted}]
           /\ event'[e] = row /\ \A f \in Events \ {e} : event'[f] = event[f]
           /\ \A held : e \notin held => EventsStay(held)
           /\ \A u : ActiveEvents(u)' \subseteq ActiveEvents(u)
<1>1. event \in [Events -> EventRow \cup {NoEvent, Deleted}]
  BY DEF EventTables
<1>2. /\ event' \in [Events -> EventRow \cup {NoEvent, Deleted}]
      /\ event'[e] = row /\ \A f \in Events \ {e} : event'[f] = event[f]
  BY <1>1
<1>3. row # NoEvent
  <2>1. \A x \in EventRow : x.status # "absent"
    BY DEF EventRow, EventStatuses
  <2> QED BY <2>1 DEF NoEvent, Deleted
<1>4. Exists(e)' => row.owner = event[e].owner
  BY <1>2 DEF Exists
<1>5. ASSUME NEW held, e \notin held
      PROVE  EventsStay(held)
  BY <1>2, <1>3, <1>4, <1>5 DEF EventsStay, Exists
<1>6. ASSUME NEW u, NEW f \in ActiveEvents(u)'
      PROVE  f \in ActiveEvents(u)
  BY <1>2, <1>4 DEF ActiveEvents, Exists
<1> QED BY <1>2, <1>5, <1>6

\* Links are taken away that nobody holds.
LEMMA LinksAreRevoked ==
    ASSUME EventTables, NEW L, L \subseteq {l \in Links : link[l] # NoLink},
           link' = WithoutLinks(L)
    PROVE  /\ link' \in [Links -> LinkRow \cup {NoLink}]
           /\ \A l \in Links : /\ link'[l] # NoLink <=> link[l] # NoLink
                               /\ link'[l].event = link[l].event
                               /\ l \notin L => link'[l] = link[l]
                               /\ l \in L => link'[l].revoked
                               /\ (link'[l] # NoLink /\ ~link'[l].revoked) => ~link[l].revoked
           /\ \A held : L \cap held = {} => LinksStay(held)
<1>1. ASSUME NEW l \in Links
      PROVE  /\ link'[l] \in LinkRow \cup {NoLink}
             /\ link'[l] # NoLink <=> link[l] # NoLink
             /\ link'[l].event = link[l].event
             /\ l \notin L => link'[l] = link[l]
             /\ l \in L => link'[l].revoked
             /\ (link'[l] # NoLink /\ ~link'[l].revoked) => ~link[l].revoked
  <2>1. link[l] # NoLink => link[l] \in LinkRow /\ link[l].event \in Events
    BY LinkForm
  <2>2. CASE l \notin L
    <3>1. link'[l] = link[l]
      BY <2>2 DEF WithoutLinks
    <3> QED BY <2>1, <2>2, <3>1
  <2>3. CASE l \in L
    <3>1. link'[l] = [link[l] EXCEPT !.revoked = TRUE] /\ link[l] \in LinkRow
      BY <2>1, <2>3 DEF WithoutLinks
    <3>2. link'[l] \in LinkRow /\ link'[l].event = link[l].event /\ link'[l].revoked
      BY <3>1 DEF LinkRow
    <3>3. link'[l] # NoLink /\ link[l] # NoLink
      BY <2>1, <2>3, <3>2, PublishingAssumption DEF NoLink
    <3> QED BY <2>3, <3>2, <3>3
  <2> QED BY <2>2, <2>3
<1>2. link' = [l \in Links |-> link'[l]]
  BY DEF WithoutLinks
<1>3. link' \in [Links -> LinkRow \cup {NoLink}]
  BY <1>1, <1>2
<1>4. ASSUME NEW held, L \cap held = {}
      PROVE  LinksStay(held)
  BY <1>1, <1>4 DEF LinksStay
<1> QED BY <1>1, <1>3, <1>4

\* The links that are still good are ones that were, to an event that is shared.
LEMMA SharedOnward ==
    ASSUME EventTables, EventTables', SharedOK,
           \A l \in Links : /\ link'[l] # NoLink => link[l] # NoLink /\ link'[l].event = link[l].event
                            /\ (link'[l] # NoLink /\ ~link'[l].revoked) => ~link[l].revoked,
           \A l \in Links : link'[l] # NoLink =>
              /\ event'[link[l].event] \notin {NoEvent, Deleted}
              /\ event'[link[l].event].status # "draft",
           \A l \in Links : (link'[l] # NoLink /\ ~link'[l].revoked) =>
              /\ event'[link[l].event].visibility = "private_link"
              /\ event'[link[l].event].status # "suspended"
              /\ event'[link[l].event].owner \in Clubs =>
                   club'[event'[link[l].event].owner].status # "suspended",
           PublishedIsComplete'
    PROVE  SharedOK'
<1>1. ASSUME NEW l \in Links, link'[l] # NoLink
      PROVE  /\ event'[link'[l].event] \notin {NoEvent, Deleted}
             /\ event'[link'[l].event].status # "draft"
  <2>1. link'[l].event = link[l].event
    BY <1>1
  <2> QED BY <1>1, <2>1
<1>2. LinksOnlyWhereShared'
  <2>1. ASSUME NEW l \in Links, link'[l] # NoLink, ~link'[l].revoked
        PROVE  /\ event'[link'[l].event].visibility = "private_link"
               /\ event'[link'[l].event].status \notin {"draft", "suspended"}
               /\ event'[link'[l].event].owner \in Clubs =>
                    club'[event'[link'[l].event].owner].status # "suspended"
    <3>1. link'[l].event = link[l].event
      BY <2>1
    <3>2. /\ event'[link[l].event].visibility = "private_link"
          /\ event'[link[l].event].status # "suspended"
          /\ event'[link[l].event].owner \in Clubs =>
                   club'[event'[link[l].event].owner].status # "suspended"
      BY <2>1
    <3>3. event'[link'[l].event].status # "draft"
      BY <1>1, <2>1
    <3> QED BY <3>1, <3>2, <3>3
  <2> QED BY <2>1 DEF LinksOnlyWhereShared, OfClub
<1>3. OneLink'
  <2>1. ASSUME NEW e \in Events, Exists(e)', NEW l \in LiveLinks(e)', NEW m \in LiveLinks(e)'
        PROVE  l = m
    <3>1. \A k \in LiveLinks(e)' : k \in LiveLinks(e)
      <4>1. ASSUME NEW k \in LiveLinks(e)'
            PROVE  k \in LiveLinks(e)
        <5>1. k \in Links /\ link'[k].event = e /\ ~link'[k].revoked
          BY <4>1 DEF LiveLinks
        <5>2. link'[k] # NoLink
          BY <5>1, PublishingAssumption DEF NoLink
        <5> QED BY <5>1, <5>2 DEF LiveLinks
      <4> QED BY <4>1
    <3>2. link[l] # NoLink /\ link[l].event = e /\ l \in Links
      <4>1. l \in LiveLinks(e)
        BY <2>1, <3>1
      <4>2. l \in Links /\ link[l].event = e
        BY <4>1 DEF LiveLinks
      <4> QED BY <4>2, PublishingAssumption DEF NoLink
    <3>3. Exists(e)
      BY <3>2 DEF SharedOK
    <3> QED BY <2>1, <3>1, <3>3 DEF SharedOK, OneLink
  <2> QED BY <2>1 DEF OneLink
<1>4. \A l \in Links : link'[l] # NoLink => (Exists(link[l].event) /\ event[link[l].event].status # "draft")'
  BY <1>1 DEF Exists
<1> QED BY <1>2, <1>3, <1>4 DEF SharedOK

\* No event takes another revision.
LEMMA HistoryOnward ==
    ASSUME HistoryOK, joined' = joined, told \subseteq told',
           \A f \in Events : /\ event[f] # NoEvent => event'[f] # NoEvent
                             /\ Exists(f)' => /\ Exists(f) /\ event'[f].revision = event[f].revision
                                              /\ event'[f].writes = event[f].writes
                                              /\ event[f].status = "completed" => event'[f].status = "completed"
    PROVE  HistoryOK'
<1>1. \A e \in Events : Exists(e)' => event'[e].revision = event'[e].writes
  BY DEF HistoryOK
<1>2. \A e \in Events, g \in Guests : joined'[e][g] > 0 => event'[e] # NoEvent
  BY DEF HistoryOK
<1>3. ASSUME NEW e \in Events, NEW g \in Guests, Exists(e)', joined'[e][g] > 0,
             NEW n \in (joined'[e][g] + 1)..event'[e].revision
      PROVE  <<"changed", e, n, g>> \in told' \/ (event'[e].status = "completed" /\ n = event'[e].revision)
  <2>1. /\ Exists(e) /\ event'[e].revision = event[e].revision
        /\ event[e].status = "completed" => event'[e].status = "completed"
    BY <1>3
  <2>2. n \in (joined[e][g] + 1)..event[e].revision /\ joined[e][g] > 0
    BY <1>3, <2>1
  <2>3. <<"changed", e, n, g>> \in told \/ (event[e].status = "completed" /\ n = event[e].revision)
    BY <2>1, <2>2 DEF HistoryOK, ToldOfEveryChange
  <2> QED BY <2>1, <2>3
<1> QED BY <1>1, <1>2, <1>3 DEF HistoryOK, ToldOfEveryChange, Exists


LEMMA LiveAreThere ==
    ASSUME EventTables, NEW e \in Events
    PROVE  LiveLinks(e) \subseteq {l \in Links : link[l] # NoLink}
BY LinkForm DEF LiveLinks

\* The row of an event is written again: who is shown what, and who is disturbed.
LEMMA RowIsRewritten ==
    ASSUME PublishInv, NEW e \in Events, event[e].status \in {"draft", "published", "suspended"},
           NEW row, event' = [event EXCEPT ![e] = row],
           row = Deleted \/ (row \in EventRow /\ row.owner = event[e].owner),
           row \in EventRow => (row.status \in {"published", "suspended"} => row.complete),
           event[e].status # "draft" => (row \in EventRow /\ row.status # "draft"),
           NEW L, L \subseteq LiveLinks(e), link' = WithoutLinks(L),
           \A l \in LiveLinks(e) \ L : row.visibility = "private_link" /\ row.status # "suspended",
           told' \subseteq {"changed", "posted"} \X Events \X Revisions \X Guests,
           begun' \in 0..MaxRequests, UNCHANGED <<club, limit, joined>>
    PROVE  /\ EventTables' /\ SharedOK'
           /\ \A held : (e \notin held /\ L \cap held = {}) => RowsStay(held)
           /\ \A u : ActiveEvents(u)' \subseteq ActiveEvents(u)
<1>1. EventTables /\ SharedOK /\ Exists(e)
  BY DEF PublishInv, Exists, NoEvent, Deleted
<1>2. /\ event' \in [Events -> EventRow \cup {NoEvent, Deleted}]
      /\ event'[e] = row /\ \A f \in Events \ {e} : event'[f] = event[f]
      /\ \A held : e \notin held => EventsStay(held)
      /\ \A u : ActiveEvents(u)' \subseteq ActiveEvents(u)
  <2>1. event[e].status \notin {"cancelled", "completed"}
    OBVIOUS
  <2> QED BY <1>1, <2>1, EventChanges
<1>3. L \subseteq {l \in Links : link[l] # NoLink}
  BY <1>1, LiveAreThere
<1>4. /\ link' \in [Links -> LinkRow \cup {NoLink}]
      /\ \A l \in Links : /\ link'[l] # NoLink <=> link[l] # NoLink
                          /\ link'[l].event = link[l].event
                          /\ l \notin L => link'[l] = link[l]
                          /\ l \in L => link'[l].revoked
                          /\ (link'[l] # NoLink /\ ~link'[l].revoked) => ~link[l].revoked
      /\ \A held : L \cap held = {} => LinksStay(held)
  BY <1>1, <1>3, LinksAreRevoked
<1>5. EventTables'
  BY <1>1, <1>2, <1>4 DEF EventTables
<1>6. SharedOK'
  <2>1. PublishedIsComplete'
    <3>1. ASSUME NEW f \in Events, event'[f].status \in {"published", "suspended"}
          PROVE  event'[f].complete
      <4>1. CASE f = e
        <5>1. row \in EventRow
          BY <1>2, <3>1, <4>1 DEF Deleted
        <5> QED BY <1>2, <3>1, <4>1, <5>1
      <4>2. CASE f # e
        BY <1>1, <1>2, <3>1, <4>2 DEF SharedOK, PublishedIsComplete
      <4> QED BY <4>1, <4>2
    <3> QED BY <3>1 DEF PublishedIsComplete
  <2>2. ASSUME NEW l \in Links, link'[l] # NoLink
        PROVE  /\ link[l] # NoLink /\ link[l].event \in Events
               /\ event[link[l].event] \notin {NoEvent, Deleted}
               /\ event[link[l].event].status # "draft"
    <3>1. link[l] # NoLink
      BY <1>4, <2>2
    <3> QED BY <1>1, <3>1, LinkForm DEF SharedOK, Exists
  <2>3. ASSUME NEW l \in Links, link'[l] # NoLink
        PROVE  /\ event'[link[l].event] \notin {NoEvent, Deleted}
               /\ event'[link[l].event].status # "draft"
    <3>1. CASE link[l].event = e
      <4>1. row \in EventRow /\ row.status # "draft"
        BY <2>2, <2>3, <3>1
      <4>2. row.status \in EventStatuses
        BY <4>1 DEF EventRow
      <4> QED BY <1>2, <3>1, <4>1, <4>2 DEF NoEvent, Deleted, EventStatuses
    <3>2. CASE link[l].event # e
      BY <1>2, <2>2, <2>3, <3>2
    <3> QED BY <3>1, <3>2
  <2>4. ASSUME NEW l \in Links, link'[l] # NoLink, ~link'[l].revoked
        PROVE  /\ event'[link[l].event].visibility = "private_link"
               /\ event'[link[l].event].status # "suspended"
               /\ event'[link[l].event].owner \in Clubs =>
                    club'[event'[link[l].event].owner].status # "suspended"
    <3>1. /\ link[l] # NoLink /\ ~link[l].revoked /\ l \notin L
      BY <1>4, <2>4
    <3>2. /\ event[link[l].event].visibility = "private_link"
          /\ event[link[l].event].status \notin {"draft", "suspended"}
          /\ event[link[l].event].owner \in Clubs =>
               club[event[link[l].event].owner].status # "suspended"
      BY <1>1, <3>1 DEF SharedOK, LinksOnlyWhereShared, OfClub
    <3>3. CASE link[l].event = e
      <4>1. l \in LiveLinks(e) \ L
        BY <3>1, <3>3 DEF LiveLinks
      <4>2. row.visibility = "private_link" /\ row.status # "suspended"
        BY <4>1
      <4>3. row.owner = event[e].owner
        <5>1. row \in EventRow
          BY <3>2, <3>3
        <5>2. row.status \in EventStatuses
          BY <5>1 DEF EventRow
        <5> QED BY <5>2 DEF EventStatuses, Deleted
      <4> QED BY <1>2, <3>2, <3>3, <4>2, <4>3
    <3>4. CASE link[l].event # e
      <4>1. link[l].event \in Events
        BY <2>2, <2>4
      <4>2. event'[link[l].event] = event[link[l].event]
        BY <1>2, <3>4, <4>1
      <4> QED BY <3>2, <4>2
    <3> QED BY <3>3, <3>4
  <2>5. \A l \in Links : /\ link'[l] # NoLink => link[l] # NoLink /\ link'[l].event = link[l].event
                         /\ (link'[l] # NoLink /\ ~link'[l].revoked) => ~link[l].revoked
    BY <1>4
  <2> QED BY <1>1, <1>5, <2>1, <2>3, <2>4, <2>5, SharedOnward
<1>7. ASSUME NEW held, e \notin held, L \cap held = {}
      PROVE  RowsStay(held)
  BY <1>2, <1>4, <1>7, ClubsRest DEF RowsStay, UsersStay
<1> QED BY <1>2, <1>5, <1>6, <1>7

\* An event takes its next revision, and those who are registered are told.
LEMMA HistoryNext ==
    ASSUME PublishInv, NEW e \in Events, Exists(e), event[e].status # "completed",
           NEW row \in EventRow, event' = [event EXCEPT ![e] = row],
           row.revision = event[e].revision + 1, row.writes = event[e].writes + 1,
           joined' = joined, told \subseteq told',
           row.status = "completed"
              \/ \A g \in Guests : joined[e][g] > 0 => <<"changed", e, row.revision, g>> \in told'
    PROVE  HistoryOK'
<1>1. /\ event \in [Events -> EventRow \cup {NoEvent, Deleted}] /\ HistoryOK
      /\ event[e].revision \in Nat /\ event[e].writes \in Nat
  BY EventForm DEF PublishInv, EventTables
<1>2. event'[e] = row /\ \A f \in Events \ {e} : event'[f] = event[f]
  BY <1>1
<1>3. row \notin {NoEvent, Deleted}
  <2>1. row.status \in EventStatuses
    BY DEF EventRow
  <2> QED BY <2>1 DEF EventStatuses, NoEvent, Deleted
<1>4. \A f \in Events : Exists(f)' => event'[f].revision = event'[f].writes
  BY <1>1, <1>2 DEF HistoryOK, Exists
<1>5. \A f \in Events, g \in Guests : joined'[f][g] > 0 => event'[f] # NoEvent
  BY <1>1, <1>2, <1>3 DEF HistoryOK
<1>6. ASSUME NEW f \in Events, NEW g \in Guests, Exists(f)', joined'[f][g] > 0,
             NEW n \in (joined'[f][g] + 1)..event'[f].revision
      PROVE  <<"changed", f, n, g>> \in told' \/ (event'[f].status = "completed" /\ n = event'[f].revision)
  <2>1. CASE f # e
    <3>1. event'[f] = event[f] /\ Exists(f)
      BY <1>2, <1>6, <2>1 DEF Exists
    <3>2. <<"changed", f, n, g>> \in told \/ (event[f].status = "completed" /\ n = event[f].revision)
      BY <1>1, <1>6, <3>1 DEF HistoryOK, ToldOfEveryChange
    <3> QED BY <3>1, <3>2
  <2>2. CASE f = e /\ n = row.revision
    BY <1>2, <1>6, <2>2
  <2>3. CASE f = e /\ n # row.revision
    <3>1. joined \in [Events -> [Guests -> Nat]]
      BY DEF PublishInv, EventTables, Revisions
    <3>2. n \in (joined[e][g] + 1)..event[e].revision /\ joined[e][g] > 0
      <4>1. joined'[f][g] = joined[e][g] /\ event'[f].revision = event[e].revision + 1
        BY <1>2, <2>3
      <4>2. joined[e][g] \in Nat
        BY <3>1
      <4>3. n \in (joined[e][g] + 1)..(event[e].revision + 1) /\ joined[e][g] > 0
        BY <1>6, <4>1
      <4>4. n # event[e].revision + 1
        BY <2>3
      <4> QED BY <1>1, <4>2, <4>3, <4>4
    <3>3. <<"changed", e, n, g>> \in told
      BY <1>1, <3>2 DEF HistoryOK, ToldOfEveryChange
    <3> QED BY <2>3, <3>3
  <2> QED BY <2>1, <2>2, <2>3
<1> QED BY <1>4, <1>5, <1>6 DEF HistoryOK, ToldOfEveryChange, Exists

LEMMA NotifiedForm ==
    ASSUME EventTables, NEW e \in Events, NEW n \in Nat
    PROVE  /\ told \subseteq Notified(e, n)
           /\ Notified(e, n) \subseteq {"changed", "posted"} \X Events \X Revisions \X Guests
           /\ \A g \in Guests : joined[e][g] > 0 => <<"changed", e, n, g>> \in Notified(e, n)
BY DEF EventTables, Notified, Revisions


-----------------------------------------------------------------------------
(* Requests that write to an event there is. *)
LEMMA RevokingForm ==
    ASSUME PublishInv, NEW r \in Requests, NEW op \in Operations \ {"create", "register", "resolve"},
           Ready(r, op)
    PROVE  /\ Revoking(r) \subseteq LiveLinks(tx[r].event)
           /\ (op \in {"issue", "rotate", "revoke"} \/ (op = "edit" /\ tx[r].visibility = "public"))
                => Revoking(r) = LiveLinks(tx[r].event)
           /\ \A q \in Requests \ {r} : tx[q] # Idle =>
                tx[r].event \notin tx[q].held /\ Revoking(r) \cap tx[q].held = {}
<1>1. /\ tx[r].op = op /\ HoldsAll(r) /\ FreeFrom(r, Revoking(r))
      /\ \A q \in Requests \ {r} : tx[q] # Idle => tx[q].held \cap tx[r].held = {}
  BY ReadyForm
<1>2. tx[r].event \in tx[r].held
  BY WriterForm
<1> QED BY <1>1, <1>2 DEF Revoking, FreeFrom

LEMMA EditKeeps ==
    ASSUME PublishInv, NEW r \in Requests, Edit(r)
    PROVE  PublishInv' /\ \A u : ActiveEvents(u)' \subseteq ActiveEvents(u)
<1>1. Ready(r, "edit") /\ "edit" \in Operations \ {"create", "register", "resolve"}
  BY DEF Edit, Operations, Signed, Fenced, Creating
<1>2. /\ tx[r] \in Transaction /\ tx[r].op = "edit" /\ MayWrite(r)
  BY <1>1, ReadyForm
<1>3. /\ tx[r].event \in Events /\ Exists(tx[r].event) /\ event[tx[r].event] \in EventRow
      /\ tx[r].event \in tx[r].held
  BY <1>1, WriterForm
<1>4. PICK e \in Events : e = tx[r].event
  BY <1>3
<1>5. /\ event[e].status \in {"draft", "published"}
      /\ ~(event[e].status = "published" /\ tx[r].publish)
      /\ (tx[r].publish \/ event[e].status = "published") => tx[r].complete
  BY <1>2, <1>4 DEF MayWrite, MayEdit, FitToStand
<1>6. PICK old \in EventRow : old = event[e]
  BY <1>3, <1>4
<1>7. PICK n \in Revisions, w \in Revisions : n = event[e].revision + 1 /\ w = event[e].writes + 1
  <2>1. event[e] \in EventRow
    BY <1>3, <1>4
  <2>2. event[e].revision + 1 \in Revisions /\ event[e].writes + 1 \in Revisions
    BY <2>1 DEF EventRow, Revisions
  <2> QED BY <2>2
<1>8. PICK row : row = [Patched(old, tx[r]) EXCEPT !.revision = n, !.writes = w]
  OBVIOUS
<1>9. /\ event' = [event EXCEPT ![e] = row]
      /\ link' = WithoutLinks(Revoking(r)) /\ told' = Notified(e, event[e].revision + 1)
      /\ End(r) /\ UNCHANGED <<club, limit, joined, begun>>
  BY <1>4, <1>6, <1>7, <1>8 DEF Edit, Revised
<1>10. /\ row \in EventRow
       /\ row.owner = event[e].owner /\ row.revision = event[e].revision + 1
       /\ row.writes = event[e].writes + 1 /\ row.complete = tx[r].complete
       /\ row.visibility = tx[r].visibility
       /\ row.status = IF tx[r].publish THEN "published" ELSE event[e].status
  <2>1. /\ row \in EventRow
        /\ row.status = IF tx[r].publish THEN "published" ELSE old.status
        /\ row.owner = old.owner
        /\ row.complete = tx[r].complete /\ row.visibility = tx[r].visibility
        /\ row.revision = n /\ row.writes = w
    <3>1. PICK c \in BOOLEAN, v \in Visibilities : c = tx[r].complete /\ v = tx[r].visibility
      BY <1>2 DEF Transaction
    <3>2. PICK s \in EventStatuses : s = IF tx[r].publish THEN "published" ELSE old.status
      BY DEF EventRow, EventStatuses
    <3>3. PICK x : x = [old EXCEPT !.status = s, !.complete = c, !.visibility = v]
      OBVIOUS
    <3>4. row = [x EXCEPT !.revision = n, !.writes = w]
      BY <1>8, <3>1, <3>2, <3>3 DEF Patched
    <3>5. /\ x \in EventRow /\ x.status = s /\ x.owner = old.owner /\ x.complete = c
          /\ x.visibility = v
      BY <3>3 DEF EventRow
    <3>6. /\ row \in EventRow /\ row.status = s /\ row.owner = old.owner /\ row.complete = c
          /\ row.visibility = v /\ row.revision = n /\ row.writes = w
      BY <3>4, <3>5 DEF EventRow
    <3> QED BY <3>1, <3>2, <3>6
  <2> QED BY <1>6, <1>7, <2>1
<1>11. row \in EventRow /\ event[e].revision \in Nat
  BY <1>3, <1>4, <1>10 DEF EventRow, Revisions
<1>12. /\ Revoking(r) \subseteq LiveLinks(e)
       /\ tx[r].visibility = "public" => Revoking(r) = LiveLinks(e)
       /\ \A q \in Requests \ {r} : tx[q] # Idle =>
            e \notin tx[q].held /\ Revoking(r) \cap tx[q].held = {}
  BY <1>1, <1>4, RevokingForm
<1>13. tx[r].visibility \in {"public", "private_link"}
  BY <1>2 DEF Transaction, Visibilities
<1>14. \A l \in LiveLinks(e) \ Revoking(r) : row.visibility = "private_link" /\ row.status # "suspended"
  BY <1>5, <1>10, <1>12, <1>13
<1>15. /\ told \subseteq told' /\ told' \subseteq {"changed", "posted"} \X Events \X Revisions \X Guests
       /\ \A g \in Guests : joined[e][g] > 0 => <<"changed", e, row.revision, g>> \in told'
  BY <1>9, <1>11, <1>10, NotifiedForm DEF PublishInv
<1>16. begun' \in 0..MaxRequests
  BY <1>9 DEF PublishInv, EventTables
<1>17. row.status \in {"published", "suspended"} => row.complete
  BY <1>5, <1>10
<1>18. event[e].status # "draft" => (row \in EventRow /\ row.status # "draft")
  BY <1>5, <1>11, <1>10
<1>19. /\ EventTables' /\ SharedOK'
       /\ \A held : (e \notin held /\ Revoking(r) \cap held = {}) => RowsStay(held)
       /\ \A u : ActiveEvents(u)' \subseteq ActiveEvents(u)
  BY <1>5, <1>9, <1>11, <1>10, <1>12, <1>14, <1>15, <1>16, <1>17, <1>18, RowIsRewritten
<1>20. HistoryOK'
  BY <1>3, <1>4, <1>5, <1>9, <1>11, <1>10, <1>15, HistoryNext
<1>21. RequestsStand'
  BY <1>9, <1>12, <1>19, OneRequestEnds
<1> QED BY <1>19, <1>20, <1>21 DEF PublishInv

LEMMA FinishKeeps ==
    ASSUME PublishInv, NEW r \in Requests, NEW op \in {"cancel", "complete"}, Finish(r, op)
    PROVE  PublishInv' /\ \A u : ActiveEvents(u)' \subseteq ActiveEvents(u)
<1>1. Ready(r, op) /\ op \in Operations \ {"create", "register", "resolve"}
  BY DEF Finish, Operations, Signed, Fenced, Creating
<1>2. /\ tx[r] \in Transaction /\ tx[r].op = op /\ MayWrite(r)
  BY <1>1, ReadyForm
<1>3. /\ tx[r].event \in Events /\ Exists(tx[r].event) /\ event[tx[r].event] \in EventRow
  BY <1>1, WriterForm
<1>4. PICK e \in Events : e = tx[r].event
  BY <1>3
<1>5. event[e].status = "published"
  BY <1>2, <1>4 DEF MayWrite, MayFinish
<1>6. PICK s \in EventStatuses : s = IF op = "cancel" THEN "cancelled" ELSE "completed"
  BY DEF EventStatuses
<1>7. PICK old \in EventRow : old = event[e]
  BY <1>3, <1>4
<1>8. PICK n \in Revisions, w \in Revisions : n = event[e].revision + 1 /\ w = event[e].writes + 1
  <2>1. event[e] \in EventRow
    BY <1>3, <1>4
  <2>2. event[e].revision + 1 \in Revisions /\ event[e].writes + 1 \in Revisions
    BY <2>1 DEF EventRow, Revisions
  <2> QED BY <2>2
<1>9. PICK row : row = [old EXCEPT !.status = s, !.revision = n, !.writes = w]
  OBVIOUS
<1>10. /\ event' = [event EXCEPT ![e] = row]
       /\ told' = IF op = "cancel" THEN Notified(e, event[e].revision + 1) ELSE told
       /\ End(r) /\ UNCHANGED <<link, club, limit, joined, begun>>
  BY <1>4, <1>6, <1>7, <1>8, <1>9 DEF Finish, Revised
<1>11. /\ row \in EventRow
       /\ row.status = s /\ row.owner = event[e].owner
       /\ row.complete = event[e].complete /\ row.visibility = event[e].visibility
       /\ row.revision = n /\ row.writes = w
  <2>1. /\ row \in EventRow
        /\ row.status = s /\ row.owner = old.owner
        /\ row.complete = old.complete /\ row.visibility = old.visibility
        /\ row.revision = n /\ row.writes = w
    BY <1>9 DEF EventRow
  <2> QED BY <1>7, <2>1
<1>12. /\ row \in EventRow /\ event[e].revision \in Nat
       /\ row.owner = event[e].owner /\ row.revision = event[e].revision + 1
       /\ row.writes = event[e].writes + 1 /\ row.visibility = event[e].visibility
       /\ row.status = IF op = "cancel" THEN "cancelled" ELSE "completed"
  BY <1>3, <1>4, <1>6, <1>11, <1>8 DEF EventRow, Revisions
<1>13. \A q \in Requests \ {r} : tx[q] # Idle => e \notin tx[q].held
  BY <1>1, <1>4, RevokingForm
<1>14. link' = WithoutLinks({}) /\ {} \subseteq LiveLinks(e)
  BY <1>10 DEF WithoutLinks, PublishInv, EventTables
<1>15. \A l \in LiveLinks(e) \ {} : row.visibility = "private_link" /\ row.status # "suspended"
  <2>1. ASSUME NEW l \in LiveLinks(e)
        PROVE  event[e].visibility = "private_link"
    <3>1. l \in Links /\ link[l] # NoLink /\ link[l].event = e /\ ~link[l].revoked
      BY LiveAreThere DEF LiveLinks, PublishInv
    <3> QED BY <3>1 DEF PublishInv, SharedOK, LinksOnlyWhereShared
  <2> QED BY <1>12, <2>1
<1>16. /\ told \subseteq told' /\ told' \subseteq {"changed", "posted"} \X Events \X Revisions \X Guests
       /\ row.status = "completed"
            \/ \A g \in Guests : joined[e][g] > 0 => <<"changed", e, row.revision, g>> \in told'
  BY <1>10, <1>12, NotifiedForm DEF PublishInv, EventTables
<1>17. begun' \in 0..MaxRequests
  BY <1>10 DEF PublishInv, EventTables
<1>18. /\ row.status \in {"published", "suspended"} => row.complete
       /\ event[e].status # "draft" => (row \in EventRow /\ row.status # "draft")
  BY <1>12
<1>19. /\ EventTables' /\ SharedOK'
       /\ \A held : (e \notin held /\ {} \cap held = {}) => RowsStay(held)
       /\ \A u : ActiveEvents(u)' \subseteq ActiveEvents(u)
  BY <1>5, <1>10, <1>12, <1>14, <1>15, <1>16, <1>17, <1>18, RowIsRewritten
<1>20. HistoryOK'
  BY <1>3, <1>4, <1>5, <1>10, <1>12, <1>16, HistoryNext
<1>21. RequestsStand'
  BY <1>10, <1>13, <1>19, OneRequestEnds
<1> QED BY <1>19, <1>20, <1>21 DEF PublishInv

LEMMA DeleteDraftKeeps ==
    ASSUME PublishInv, NEW r \in Requests, DeleteDraft(r)
    PROVE  PublishInv' /\ \A u : ActiveEvents(u)' \subseteq ActiveEvents(u)
<1>1. Ready(r, "delete") /\ "delete" \in Operations \ {"create", "register", "resolve"}
  BY DEF DeleteDraft, Operations, Signed, Fenced, Creating
<1>2. /\ tx[r].op = "delete" /\ MayWrite(r)
  BY <1>1, ReadyForm
<1>3. /\ tx[r].event \in Events /\ Exists(tx[r].event)
  BY <1>1, WriterForm
<1>4. PICK e \in Events : e = tx[r].event
  BY <1>3
<1>5. event[e].status = "draft" /\ Exists(e)
  BY <1>2, <1>3, <1>4 DEF MayWrite, Deletable, Exists
<1>6. /\ event' = [event EXCEPT ![e] = Deleted]
      /\ End(r) /\ UNCHANGED <<link, club, limit, joined, told, begun>>
  BY <1>4 DEF DeleteDraft
<1>7. \A q \in Requests \ {r} : tx[q] # Idle => e \notin tx[q].held
  BY <1>1, <1>4, RevokingForm
<1>8. link' = WithoutLinks({}) /\ {} \subseteq LiveLinks(e)
  BY <1>6 DEF WithoutLinks, PublishInv, EventTables
<1>9. LiveLinks(e) = {}
  BY <1>5, LiveAreThere DEF LiveLinks, PublishInv, SharedOK
<1>10. /\ told' \subseteq {"changed", "posted"} \X Events \X Revisions \X Guests
       /\ begun' \in 0..MaxRequests
  BY <1>6 DEF PublishInv, EventTables
<1>11. Deleted \notin EventRow
  <2>1. \A row \in EventRow : row.status # "deleted"
    BY DEF EventRow, EventStatuses
  <2> QED BY <2>1 DEF Deleted
<1>12. PICK row : row = Deleted
  OBVIOUS
<1>13. /\ EventTables' /\ SharedOK'
       /\ \A held : (e \notin held /\ {} \cap held = {}) => RowsStay(held)
       /\ \A u : ActiveEvents(u)' \subseteq ActiveEvents(u)
  <2>1. event' = [event EXCEPT ![e] = row] /\ row = Deleted /\ row \notin EventRow
    BY <1>6, <1>11, <1>12
  <2>2. \A l \in LiveLinks(e) \ {} : row.visibility = "private_link" /\ row.status # "suspended"
    BY <1>9
  <2>3. event[e].status \in {"draft", "published", "suspended"}
    BY <1>5
  <2> QED BY <1>5, <1>6, <1>8, <1>10, <2>1, <2>2, <2>3, RowIsRewritten
<1>14. HistoryOK'
  <2>1. Deleted # NoEvent
    BY DEF Deleted, NoEvent
  <2>2. /\ event'[e] = Deleted /\ \A f \in Events \ {e} : event'[f] = event[f]
    BY <1>6 DEF PublishInv, EventTables
  <2>3. \A f \in Events : /\ event[f] # NoEvent => event'[f] # NoEvent
                          /\ Exists(f)' => /\ Exists(f) /\ event'[f].revision = event[f].revision
                                           /\ event'[f].writes = event[f].writes
                                           /\ event[f].status = "completed" => event'[f].status = "completed"
    BY <2>1, <2>2 DEF Exists
  <2> QED BY <1>6, <2>3, HistoryOnward DEF PublishInv
<1>15. RequestsStand'
  BY <1>6, <1>7, <1>13, OneRequestEnds
<1> QED BY <1>13, <1>14, <1>15 DEF PublishInv


-----------------------------------------------------------------------------
(* Requests, and rulings, that leave the events as they are. *)
LEMMA SharedRests ==
    ASSUME PublishInv, UNCHANGED <<event, link, club>>
    PROVE  SharedOK'
BY DEF PublishInv, SharedOK, LinksOnlyWhereShared, OneLink, PublishedIsComplete, Exists,
       OfClub, LiveLinks

LEMMA HistoryRests ==
    ASSUME PublishInv, UNCHANGED <<event, joined>>, told \subseteq told'
    PROVE  HistoryOK'
<1>1. \A f \in Events : /\ event[f] # NoEvent => event'[f] # NoEvent
                        /\ Exists(f)' => /\ Exists(f) /\ event'[f].revision = event[f].revision
                                         /\ event'[f].writes = event[f].writes
                                         /\ event[f].status = "completed" => event'[f].status = "completed"
  BY DEF Exists
<1> QED BY <1>1, HistoryOnward DEF PublishInv

LEMMA PostKeeps ==
    ASSUME PublishInv, NEW r \in Requests, Post(r)
    PROVE  PublishInv' /\ event' = event
<1>1. Ready(r, "post") /\ "post" \in Operations \ {"create", "register", "resolve"}
  BY DEF Post, Operations, Signed, Fenced, Creating
<1>2. tx[r].event \in Events /\ tx[r].seen.revision \in Nat
  BY <1>1, ReadyForm, WriterForm DEF Transaction, Revisions
<1>3. /\ told' = Published(tx[r].event, tx[r].seen.revision, EventRecipients(tx[r].event))
      /\ End(r) /\ UNCHANGED <<event, link, club, limit, joined, begun>>
  BY DEF Post
<1>4. told \subseteq told' /\ told' \subseteq {"changed", "posted"} \X Events \X Revisions \X Guests
  BY <1>2, <1>3 DEF Published, EventRecipients, Revisions, PublishInv, EventTables
<1>5. EventTables'
  BY <1>3, <1>4 DEF PublishInv, EventTables
<1>6. SharedOK' /\ HistoryOK'
  BY <1>3, <1>4, SharedRests, HistoryRests
<1>7. RequestsStand'
  BY <1>3, <1>5, RowsRest, OneRequestEnds
<1> QED BY <1>3, <1>5, <1>6, <1>7 DEF PublishInv

LEMMA RegisterKeeps ==
    ASSUME PublishInv, NEW r \in Requests, Register(r)
    PROVE  PublishInv' /\ UNCHANGED <<event, told>>
<1>1. /\ Ready(r, "register") /\ End(r)
      /\ joined' = [joined EXCEPT ![tx[r].event][tx[r].who] = event[tx[r].event].revision]
      /\ UNCHANGED <<event, link, club, limit, told, begun>>
  BY DEF Register
<1>2. /\ tx[r].op = "register" /\ OfSubject(tx[r]) /\ Found(tx[r])
      /\ \A kind : Through(tx[r], kind) <=> kind \in Itinerary(tx[r].op, tx[r].club = None)
  BY <1>1, ReadyForm
<1>3. tx[r].event \in Events /\ tx[r].who \in Guests
  BY <1>2 DEF OfSubject
<1>4. PICK e \in Events, g \in Guests : e = tx[r].event /\ g = tx[r].who
  BY <1>3
<1>5. event[e].status = "published"
  <2>1. Through(tx[r], "event")
    BY <1>2 DEF Itinerary
  <2> QED BY <1>2, <1>4, <2>1 DEF Found, OpenToGuests
<1>6. Exists(e) /\ event[e].revision \in Nat
  BY <1>5, EventForm DEF PublishInv, EventStatuses
<1>7. /\ joined \in [Events -> [Guests -> Nat]]
      /\ joined' = [joined EXCEPT ![e] = [joined[e] EXCEPT ![g] = event[e].revision]]
  BY <1>1, <1>4 DEF PublishInv, EventTables, Revisions
<1>8. /\ joined' \in [Events -> [Guests -> Nat]] /\ joined'[e][g] = event[e].revision
      /\ \A f \in Events, h \in Guests : (f # e \/ h # g) => joined'[f][h] = joined[f][h]
  BY <1>6, <1>7
<1>9. EventTables'
  BY <1>1, <1>8 DEF PublishInv, EventTables, Revisions
<1>10. SharedOK'
  BY <1>1, SharedRests
<1>11. HistoryOK'
  <2>1. \A f \in Events : Exists(f)' => event'[f].revision = event'[f].writes
    BY <1>1 DEF PublishInv, HistoryOK, Exists
  <2>2. \A f \in Events, h \in Guests : joined'[f][h] > 0 => event'[f] # NoEvent
    BY <1>1, <1>6, <1>8 DEF PublishInv, HistoryOK, Exists
  <2>3. ASSUME NEW f \in Events, NEW h \in Guests, Exists(f)', joined'[f][h] > 0,
               NEW n \in (joined'[f][h] + 1)..event'[f].revision
        PROVE  <<"changed", f, n, h>> \in told' \/ (event'[f].status = "completed" /\ n = event'[f].revision)
    <3>1. CASE f = e /\ h = g
      BY <1>1, <1>6, <1>8, <2>3, <3>1
    <3>2. CASE f # e \/ h # g
      <4>1. joined'[f][h] = joined[f][h] /\ event'[f] = event[f] /\ told' = told /\ Exists(f)
        BY <1>1, <1>8, <2>3, <3>2 DEF Exists
      <4> QED BY <2>3, <4>1 DEF PublishInv, HistoryOK, ToldOfEveryChange
    <3> QED BY <3>1, <3>2
  <2> QED BY <2>1, <2>2, <2>3 DEF HistoryOK, ToldOfEveryChange, Exists
<1>12. RequestsStand'
  BY <1>1, <1>9, RowsRest, OneRequestEnds
<1> QED BY <1>1, <1>9, <1>10, <1>11, <1>12 DEF PublishInv

\* Links are taken away, or a club changes that no one holds.
LEMMA LinksAreTaken ==
    ASSUME PublishInv, NEW L, L \subseteq {l \in Links : link[l] # NoLink}, link' = WithoutLinks(L),
           UNCHANGED <<event, limit, joined, told>>, begun' \in 0..MaxRequests,
           club' \in [Clubs -> [status : ClubStatuses, managers : SUBSET Organizers]],
           \A l \in Links \ L : (link[l] # NoLink /\ ~link[l].revoked /\ event[link[l].event].owner \in Clubs)
               => club'[event[link[l].event].owner].status # "suspended"
    PROVE  /\ EventTables' /\ SharedOK' /\ HistoryOK'
           /\ \A held : (L \cap held = {} /\ \A c \in Clubs \cap held : club'[c] = club[c])
                 => RowsStay(held)
<1>1. /\ link' \in [Links -> LinkRow \cup {NoLink}]
      /\ \A l \in Links : /\ link'[l] # NoLink <=> link[l] # NoLink
                          /\ link'[l].event = link[l].event
                          /\ l \notin L => link'[l] = link[l]
                          /\ l \in L => link'[l].revoked
                          /\ (link'[l] # NoLink /\ ~link'[l].revoked) => ~link[l].revoked
      /\ \A held : L \cap held = {} => LinksStay(held)
  BY LinksAreRevoked DEF PublishInv
<1>2. EventTables'
  BY <1>1 DEF PublishInv, EventTables
<1>3. HistoryOK'
  BY HistoryRests
<1>4. SharedOK'
  <2>1. EventTables /\ SharedOK
    BY DEF PublishInv
  <2>2. PublishedIsComplete'
    BY <2>1 DEF SharedOK, PublishedIsComplete
  <2>3. \A l \in Links : link'[l] # NoLink =>
           /\ event'[link[l].event] \notin {NoEvent, Deleted}
           /\ event'[link[l].event].status # "draft"
    BY <1>1, <2>1 DEF SharedOK, Exists
  <2>4. \A l \in Links : (link'[l] # NoLink /\ ~link'[l].revoked) =>
           /\ event'[link[l].event].visibility = "private_link"
           /\ event'[link[l].event].status # "suspended"
           /\ event'[link[l].event].owner \in Clubs =>
                club'[event'[link[l].event].owner].status # "suspended"
    BY <1>1, <2>1 DEF SharedOK, LinksOnlyWhereShared
  <2>5. \A l \in Links : /\ link'[l] # NoLink => link[l] # NoLink /\ link'[l].event = link[l].event
                         /\ (link'[l] # NoLink /\ ~link'[l].revoked) => ~link[l].revoked
    BY <1>1
  <2> QED BY <1>2, <2>1, <2>2, <2>3, <2>4, <2>5, SharedOnward
<1>5. ASSUME NEW held, L \cap held = {}, \A c \in Clubs \cap held : club'[c] = club[c]
      PROVE  RowsStay(held)
  BY <1>1, <1>5, EventsRest DEF RowsStay, ClubsStay, UsersStay
<1> QED BY <1>2, <1>3, <1>4, <1>5

LEMMA RevokeLinksKeeps ==
    ASSUME PublishInv, NEW r \in Requests, RevokeLinks(r)
    PROVE  PublishInv' /\ UNCHANGED <<event, told>>
<1>1. Ready(r, "revoke") /\ "revoke" \in Operations \ {"create", "register", "resolve"}
  BY DEF RevokeLinks, Operations, Signed, Fenced, Creating
<1>2. /\ link' = WithoutLinks(Revoking(r)) /\ End(r)
      /\ UNCHANGED <<event, club, limit, joined, told, begun>>
  BY DEF RevokeLinks
<1>3. /\ Revoking(r) \subseteq {l \in Links : link[l] # NoLink}
      /\ \A q \in Requests \ {r} : tx[q] # Idle => Revoking(r) \cap tx[q].held = {}
  <2>1. tx[r].event \in Events
    BY <1>1, WriterForm
  <2> QED BY <1>1, <2>1, RevokingForm, LiveAreThere DEF PublishInv
<1>4. /\ begun' \in 0..MaxRequests
      /\ club' \in [Clubs -> [status : ClubStatuses, managers : SUBSET Organizers]]
      /\ \A l \in Links \ Revoking(r) :
            (link[l] # NoLink /\ ~link[l].revoked /\ event[link[l].event].owner \in Clubs)
               => club'[event[link[l].event].owner].status # "suspended"
  BY <1>2 DEF PublishInv, EventTables, SharedOK, LinksOnlyWhereShared, OfClub
<1>5. /\ EventTables' /\ SharedOK' /\ HistoryOK'
      /\ \A held : (Revoking(r) \cap held = {} /\ \A c \in Clubs \cap held : club'[c] = club[c])
            => RowsStay(held)
  BY <1>2, <1>3, <1>4, LinksAreTaken
<1>6. RequestsStand'
  BY <1>2, <1>3, <1>5, OneRequestEnds
<1> QED BY <1>2, <1>5, <1>6 DEF PublishInv


LEMMA IssueLinkKeeps ==
    ASSUME PublishInv, NEW r \in Requests, NEW op \in {"issue", "rotate"}, NEW l \in Links,
           IssueLink(r, op, l)
    PROVE  PublishInv' /\ UNCHANGED <<event, told>>
<1>1. /\ Ready(r, op) /\ link[l] = NoLink /\ End(r)
      /\ op \in Operations \ {"create", "register", "resolve"}
      /\ link' = [WithoutLinks(Revoking(r)) EXCEPT ![l] = NewLink(tx[r].event)]
      /\ UNCHANGED <<event, club, limit, joined, told, begun>>
  BY DEF IssueLink, Operations, Signed, Fenced, Creating
<1>2. /\ tx[r].event \in Events /\ Exists(tx[r].event)
      /\ OfClub(tx[r].event) => /\ event[tx[r].event].owner = tx[r].club
                                /\ club[tx[r].club].status \notin {"suspended", "closed"}
  BY <1>1, WriterForm
<1>3. PICK e \in Events : e = tx[r].event
  BY <1>2
<1>4. event[e].status = "published" /\ event[e].visibility = "private_link"
  BY <1>1, <1>3, ReadyForm DEF MayWrite, MayIssue
<1>5. /\ Revoking(r) = LiveLinks(e)
      /\ \A q \in Requests \ {r} : tx[q] # Idle => Revoking(r) \cap tx[q].held = {}
  BY <1>1, <1>3, RevokingForm
<1> DEFINE L == LiveLinks(e)
<1>6. L \subseteq {m \in Links : link[m] # NoLink}
  BY LiveAreThere DEF PublishInv
<1>7. /\ link'[l] = NewLink(e)
      /\ \A m \in Links \ {l} : link'[m] = IF m \in L THEN [link[m] EXCEPT !.revoked = TRUE] ELSE link[m]
      /\ link' = [m \in Links |-> link'[m]]
  BY <1>1, <1>3, <1>5 DEF WithoutLinks
<1>8. NewLink(e) \in LinkRow /\ NewLink(e).event = e /\ NewLink(e) # NoLink /\ ~NewLink(e).revoked
  BY PublishingAssumption DEF NewLink, LinkRow, NoLink
<1> HIDE DEF L
<1>9. ASSUME NEW m \in Links \ {l}
      PROVE  /\ link'[m] \in LinkRow \cup {NoLink}
             /\ link'[m] # NoLink <=> link[m] # NoLink
             /\ link'[m].event = link[m].event
             /\ m \in L => link'[m].revoked
             /\ m \notin L => link'[m] = link[m]
  <2>1. link[m] # NoLink => link[m] \in LinkRow /\ link[m].event \in Events
    BY LinkForm DEF PublishInv
  <2>2. CASE m \notin L
    BY <1>7, <2>1, <2>2
  <2>3. CASE m \in L
    <3>1. link'[m] = [link[m] EXCEPT !.revoked = TRUE] /\ link[m] \in LinkRow /\ link[m] # NoLink
      BY <1>6, <1>7, <2>1, <2>3
    <3>2. link'[m] \in LinkRow /\ link'[m].event = link[m].event /\ link'[m].revoked
      BY <3>1 DEF LinkRow
    <3>3. link'[m].event \in Events
      BY <2>1, <3>1, <3>2
    <3> QED BY <2>3, <3>1, <3>2, <3>3, PublishingAssumption DEF NoLink
  <2> QED BY <2>2, <2>3
<1>10. EventTables'
  <2>1. link' \in [Links -> LinkRow \cup {NoLink}]
    BY <1>7, <1>8, <1>9
  <2> QED BY <1>1, <2>1 DEF PublishInv, EventTables
<1>11. HistoryOK'
  BY <1>1, HistoryRests
<1>12. SharedOK'
  <2>1. SharedOK /\ PublishedIsComplete'
    BY <1>1 DEF PublishInv, SharedOK, PublishedIsComplete
  <2>2. \A m \in Links : link'[m] # NoLink => (Exists(link[m].event) /\ event[link[m].event].status # "draft")'
    <3>1. ASSUME NEW m \in Links, link'[m] # NoLink
          PROVE  event[link'[m].event] \notin {NoEvent, Deleted} /\ event[link'[m].event].status # "draft"
      <4>1. CASE m = l
        BY <1>2, <1>3, <1>4, <1>7, <1>8, <4>1 DEF Exists
      <4>2. CASE m # l
        BY <1>9, <2>1, <3>1, <4>2 DEF SharedOK, Exists
      <4> QED BY <4>1, <4>2
    <3> QED BY <1>1, <3>1 DEF Exists
  <2>3. LinksOnlyWhereShared'
    <3>1. ASSUME NEW m \in Links, link'[m] # NoLink, ~link'[m].revoked
          PROVE  /\ event[link'[m].event].visibility = "private_link"
                 /\ event[link'[m].event].status \notin {"draft", "suspended"}
                 /\ event[link'[m].event].owner \in Clubs =>
                      club[event[link'[m].event].owner].status # "suspended"
      <4>1. CASE m = l
        <5>1. event[e].owner \in Clubs => club[event[e].owner].status # "suspended"
          BY <1>2, <1>3 DEF OfClub
        <5> QED BY <1>4, <1>7, <1>8, <4>1, <5>1
      <4>2. CASE m # l
        <5>1. link'[m] = link[m]
          BY <1>9, <3>1, <4>2
        <5> QED BY <2>1, <3>1, <5>1 DEF SharedOK, LinksOnlyWhereShared, OfClub
      <4> QED BY <4>1, <4>2
    <3> QED BY <1>1, <3>1 DEF LinksOnlyWhereShared, OfClub
  <2>4. OneLink'
    <3>1. ASSUME NEW f \in Events, Exists(f)', NEW m \in LiveLinks(f)', NEW n \in LiveLinks(f)'
          PROVE  m = n
      <4>1. /\ m \in Links /\ link'[m].event = f /\ ~link'[m].revoked
            /\ n \in Links /\ link'[n].event = f /\ ~link'[n].revoked
        BY <3>1 DEF LiveLinks
      <4>2. \A k \in Links \ {l} : (link'[k].event = f /\ ~link'[k].revoked) => k \in LiveLinks(f) /\ f # e
        BY <1>9 DEF L, LiveLinks
      <4>3. CASE f = e
        BY <4>1, <4>2, <4>3
      <4>4. CASE f # e
        <5>1. m # l /\ n # l
          BY <1>7, <1>8, <4>1, <4>4
        <5>2. m \in LiveLinks(f) /\ n \in LiveLinks(f)
          BY <4>1, <4>2, <5>1
        <5>3. Exists(f)
          BY <1>1, <3>1 DEF Exists
        <5> QED BY <2>1, <5>2, <5>3 DEF SharedOK, OneLink
      <4> QED BY <4>3, <4>4
    <3> QED BY <3>1 DEF OneLink
  <2> QED BY <2>1, <2>2, <2>3, <2>4 DEF SharedOK
<1>13. ASSUME NEW q \in Requests \ {r}, tx[q] # Idle
       PROVE  RowsStay(tx[q].held)
  <2>1. l \notin tx[q].held /\ L \cap tx[q].held = {}
    BY <1>1, <1>5, <1>13, HeldIsThere DEF L
  <2>2. LinksStay(tx[q].held)
    BY <1>7, <1>8, <1>9, <2>1 DEF LinksStay
  <2> QED BY <1>1, <2>2, EventsRest, ClubsRest DEF RowsStay, UsersStay
<1>14. RequestsStand'
  BY <1>1, <1>10, <1>13, OneRequestEnds
<1> QED BY <1>1, <1>10, <1>11, <1>12, <1>14 DEF PublishInv

-----------------------------------------------------------------------------
(* Rulings. *)
LEMMA RulingForm ==
    ASSUME PublishInv, Rule
    PROVE  begun' \in 0..MaxRequests
BY PublishingAssumption DEF PublishInv, EventTables, Rule

LEMMA StopClubKeeps ==
    ASSUME PublishInv, NEW c \in Clubs, NEW status \in {"suspended", "unpublished"},
           StopClub(c, status)
    PROVE  PublishInv'
<1>1. /\ begun' \in 0..MaxRequests /\ Free({c} \cup LinksOf(c))
      /\ club' = [club EXCEPT ![c].status = status] /\ link' = WithoutLinks(LinksOf(c))
      /\ UNCHANGED <<event, limit, joined, told, tx>>
  BY RulingForm DEF StopClub
<1>2. LinksOf(c) \subseteq {l \in Links : link[l] # NoLink}
  BY LiveAreThere DEF LinksOf, PublishInv
<1>3. /\ club' \in [Clubs -> [status : ClubStatuses, managers : SUBSET Organizers]]
      /\ \A d \in Clubs \ {c} : club'[d] = club[d]
  BY <1>1 DEF PublishInv, EventTables, ClubStatuses
<1>4. ASSUME NEW l \in Links \ LinksOf(c), link[l] # NoLink, ~link[l].revoked,
             event[link[l].event].owner \in Clubs
      PROVE  club'[event[link[l].event].owner].status # "suspended"
  <2>1. link[l].event \in Events /\ Exists(link[l].event)
    BY <1>4, LinkForm DEF PublishInv, SharedOK
  <2>2. l \in LiveLinks(link[l].event)
    BY <1>4 DEF LiveLinks
  <2>3. event[link[l].event].owner # c
    BY <1>4, <2>1, <2>2 DEF LinksOf
  <2> QED BY <1>3, <1>4, <2>3 DEF PublishInv, SharedOK, LinksOnlyWhereShared, OfClub
<1>5. /\ EventTables' /\ SharedOK' /\ HistoryOK'
      /\ \A held : (LinksOf(c) \cap held = {} /\ \A d \in Clubs \cap held : club'[d] = club[d])
            => RowsStay(held)
  BY <1>1, <1>2, <1>3, <1>4, LinksAreTaken
<1>6. ASSUME NEW q \in Requests, tx[q] # Idle
      PROVE  RowsStay(tx[q].held)
  <2>1. c \notin tx[q].held /\ LinksOf(c) \cap tx[q].held = {}
    BY <1>1, <1>6 DEF Free
  <2>2. \A d \in Clubs \cap tx[q].held : club'[d] = club[d]
    BY <1>3, <2>1
  <2> QED BY <1>5, <2>1, <2>2
<1>7. RequestsStand'
  BY <1>1, <1>5, <1>6, NoRequestMoves
<1> QED BY <1>5, <1>7 DEF PublishInv

\* Whatever else happens to a club that nobody holds.
LEMMA ClubChanges ==
    ASSUME PublishInv, NEW c \in Clubs, Free({c}), begun' \in 0..MaxRequests,
           NEW row \in [status : ClubStatuses, managers : SUBSET Organizers],
           club' = [club EXCEPT ![c] = row],
           row.status = "suspended" => club[c].status = "suspended",
           UNCHANGED <<event, link, limit, joined, told, tx>>
    PROVE  PublishInv'
<1>1. link' = WithoutLinks({}) /\ {} \subseteq {l \in Links : link[l] # NoLink}
  BY DEF WithoutLinks, PublishInv, EventTables
<1>2. /\ club' \in [Clubs -> [status : ClubStatuses, managers : SUBSET Organizers]]
      /\ club'[c] = row /\ \A d \in Clubs \ {c} : club'[d] = club[d]
  BY DEF PublishInv, EventTables
<1>3. \A l \in Links \ {} : (link[l] # NoLink /\ ~link[l].revoked /\ event[link[l].event].owner \in Clubs)
         => club'[event[link[l].event].owner].status # "suspended"
  <2>1. ASSUME NEW l \in Links, link[l] # NoLink, ~link[l].revoked, NEW d \in Clubs,
               d = event[link[l].event].owner
        PROVE  club'[d].status # "suspended"
    <3>1. club[d].status # "suspended"
      BY <2>1 DEF PublishInv, SharedOK, LinksOnlyWhereShared, OfClub
    <3> QED BY <1>2, <3>1
  <2> QED BY <2>1
<1>4. /\ EventTables' /\ SharedOK' /\ HistoryOK'
      /\ \A held : ({} \cap held = {} /\ \A d \in Clubs \cap held : club'[d] = club[d])
            => RowsStay(held)
  BY <1>1, <1>2, <1>3, LinksAreTaken
<1>5. ASSUME NEW q \in Requests, tx[q] # Idle
      PROVE  RowsStay(tx[q].held)
  <2>1. \A d \in Clubs \cap tx[q].held : club'[d] = club[d]
    BY <1>2, <1>5 DEF Free
  <2> QED BY <1>4, <2>1
<1>6. RequestsStand'
  BY <1>4, <1>5, NoRequestMoves
<1> QED BY <1>4, <1>6 DEF PublishInv

LEMMA ClubRulingsKeep ==
    ASSUME PublishInv, NEW c \in Clubs,
           RestoreClub(c) \/ CloseClub(c) \/ \E u \in Organizers : Demote(c, u)
    PROVE  PublishInv'
<1>1. club \in [Clubs -> [status : ClubStatuses, managers : SUBSET Organizers]]
  BY DEF PublishInv, EventTables
<1>2. PICK old : old = club[c]
  OBVIOUS
<1>3. old \in [status : ClubStatuses, managers : SUBSET Organizers]
  BY <1>1, <1>2
<1>4. CASE RestoreClub(c) \/ CloseClub(c)
  <2>1. PICK s \in {"published", "closed"} : club' = [club EXCEPT ![c] = [old EXCEPT !.status = s]]
    BY <1>2, <1>4 DEF RestoreClub, CloseClub
  <2>2. PICK row : row = [old EXCEPT !.status = s]
    OBVIOUS
  <2>3. row \in [status : ClubStatuses, managers : SUBSET Organizers] /\ row.status = s
    BY <1>3, <2>2 DEF ClubStatuses
  <2>4. /\ Free({c}) /\ begun' \in 0..MaxRequests
        /\ UNCHANGED <<event, link, limit, joined, told, tx>>
    BY <1>4, RulingForm DEF RestoreClub, CloseClub
  <2> QED BY <2>1, <2>2, <2>3, <2>4, ClubChanges
<1>5. CASE \E u \in Organizers : Demote(c, u)
  <2>1. PICK u \in Organizers : Demote(c, u)
    BY <1>5
  <2>2. PICK row : row = [old EXCEPT !.managers = old.managers \ {u}]
    OBVIOUS
  <2>3. /\ row \in [status : ClubStatuses, managers : SUBSET Organizers] /\ row.status = old.status
    BY <1>3, <2>2
  <2>4. /\ Free({c}) /\ begun' \in 0..MaxRequests /\ club' = [club EXCEPT ![c] = row]
        /\ UNCHANGED <<event, link, limit, joined, told, tx>>
    BY <1>2, <2>1, <2>2, RulingForm DEF Demote
  <2> QED BY <1>2, <2>3, <2>4, ClubChanges
<1> QED BY <1>4, <1>5


\* An event is suspended or restored: it keeps its revision.
LEMMA EventRulingsKeep ==
    ASSUME PublishInv, NEW e \in Events, SuspendEvent(e) \/ RestoreEvent(e)
    PROVE  PublishInv' /\ \A u : ActiveEvents(u)' \subseteq ActiveEvents(u)
<1>1. event[e].status \in {"published", "suspended"} /\ begun' \in 0..MaxRequests
  BY RulingForm DEF SuspendEvent, RestoreEvent
<1>2. Exists(e) /\ event[e] \in EventRow
  BY <1>1, EventForm DEF PublishInv, EventStatuses
<1>3. PICK old \in EventRow : old = event[e]
  BY <1>2
<1>4. \E s \in {"published", "suspended"}, L \in SUBSET LiveLinks(e) :
        /\ event' = [event EXCEPT ![e] = [old EXCEPT !.status = s]]
        /\ link' = WithoutLinks(L) /\ Free({e} \cup L)
        /\ s = "suspended" => L = LiveLinks(e)
        /\ s = "published" => LiveLinks(e) = {}
  <2>1. CASE SuspendEvent(e)
    BY <1>3, <2>1 DEF SuspendEvent
  <2>2. CASE RestoreEvent(e)
    <3>1. LiveLinks(e) = {}
      <4>1. ASSUME NEW l \in LiveLinks(e)
            PROVE  FALSE
        <5>1. l \in Links /\ link[l] # NoLink /\ link[l].event = e /\ ~link[l].revoked
          BY LiveAreThere DEF LiveLinks, PublishInv
        <5> QED BY <2>2, <5>1 DEF PublishInv, SharedOK, LinksOnlyWhereShared, RestoreEvent
      <4> QED BY <4>1
    <3>2. link' = WithoutLinks({}) /\ {} \subseteq LiveLinks(e)
      BY <2>2 DEF RestoreEvent, WithoutLinks, PublishInv, EventTables
    <3>3. /\ event' = [event EXCEPT ![e] = [old EXCEPT !.status = "published"]]
          /\ Free({e} \cup {})
      BY <1>3, <2>2 DEF RestoreEvent, Free
    <3> QED BY <3>1, <3>2, <3>3
  <2> QED BY <2>1, <2>2
<1>5. PICK s \in {"published", "suspended"}, L \in SUBSET LiveLinks(e) :
        /\ event' = [event EXCEPT ![e] = [old EXCEPT !.status = s]]
        /\ link' = WithoutLinks(L) /\ Free({e} \cup L)
        /\ s = "suspended" => L = LiveLinks(e)
        /\ s = "published" => LiveLinks(e) = {}
  BY <1>4
<1>6. UNCHANGED <<club, limit, joined, told, tx>>
  BY DEF SuspendEvent, RestoreEvent
<1>7. PICK row : row = [old EXCEPT !.status = s]
  OBVIOUS
<1>8. /\ row \in EventRow /\ row.status = s /\ row.owner = old.owner /\ row.complete = old.complete
      /\ row.visibility = old.visibility /\ row.revision = old.revision /\ row.writes = old.writes
  BY <1>7 DEF EventRow, EventStatuses
<1>9. row.complete
  BY <1>1, <1>3, <1>8 DEF PublishInv, SharedOK, PublishedIsComplete
<1>10. \A l \in LiveLinks(e) \ L : row.visibility = "private_link" /\ row.status # "suspended"
  BY <1>5
<1>11. told' \subseteq {"changed", "posted"} \X Events \X Revisions \X Guests
  BY <1>6 DEF PublishInv, EventTables
<1>12. /\ EventTables' /\ SharedOK'
       /\ \A held : (e \notin held /\ L \cap held = {}) => RowsStay(held)
       /\ \A u : ActiveEvents(u)' \subseteq ActiveEvents(u)
  <2>1. event[e].status \in {"draft", "published", "suspended"}
    BY <1>1
  <2>2. event' = [event EXCEPT ![e] = row] /\ link' = WithoutLinks(L) /\ L \subseteq LiveLinks(e)
    BY <1>5, <1>7
  <2>3. row = Deleted \/ (row \in EventRow /\ row.owner = event[e].owner)
    BY <1>3, <1>8
  <2>4. /\ row \in EventRow => (row.status \in {"published", "suspended"} => row.complete)
        /\ event[e].status # "draft" => (row \in EventRow /\ row.status # "draft")
    BY <1>8, <1>9
  <2> QED BY <1>1, <1>6, <1>10, <1>11, <2>1, <2>2, <2>3, <2>4, RowIsRewritten
<1>13. HistoryOK'
  <2>1. event'[e] = row /\ \A f \in Events \ {e} : event'[f] = event[f]
    BY <1>5, <1>7 DEF PublishInv, EventTables
  <2>2. row \notin {NoEvent, Deleted}
    BY <1>8 DEF NoEvent, Deleted
  <2>3. \A f \in Events : /\ event[f] # NoEvent => event'[f] # NoEvent
                          /\ Exists(f)' => /\ Exists(f) /\ event'[f].revision = event[f].revision
                                           /\ event'[f].writes = event[f].writes
                                           /\ event[f].status = "completed" => event'[f].status = "completed"
    BY <1>1, <1>2, <1>3, <1>8, <2>1, <2>2 DEF Exists
  <2> QED BY <1>6, <2>3, HistoryOnward DEF PublishInv
<1>14. \A q \in Requests : tx[q] # Idle => RowsStay(tx[q].held)
  BY <1>5, <1>12 DEF Free
<1>15. RequestsStand'
  BY <1>6, <1>12, <1>14, NoRequestMoves
<1> QED BY <1>12, <1>13, <1>15 DEF PublishInv

LEMMA SetLimitKeeps ==
    ASSUME PublishInv, NEW n \in 0..MaxLimit, SetLimit(n)
    PROVE  PublishInv'
<1>1. /\ begun' \in 0..MaxRequests /\ Free(Organizers) /\ limit' = n
      /\ UNCHANGED <<event, link, club, joined, told, tx>>
  BY RulingForm DEF SetLimit, PolicyHeld
<1>2. EventTables'
  BY <1>1 DEF PublishInv, EventTables
<1>3. SharedOK' /\ HistoryOK'
  BY <1>1, SharedRests, HistoryRests
<1>4. ASSUME NEW q \in Requests, tx[q] # Idle
      PROVE  RowsStay(tx[q].held)
  <2>1. Organizers \cap tx[q].held = {}
    BY <1>1, <1>4 DEF Free
  <2> QED BY <1>1, <2>1, EventsRest, LinksRest, ClubsRest DEF RowsStay, UsersStay
<1>5. RequestsStand'
  BY <1>1, <1>2, <1>4, NoRequestMoves
<1> QED BY <1>2, <1>3, <1>5 DEF PublishInv

LEMMA ExpireKeeps ==
    ASSUME PublishInv, NEW l \in Links, Expire(l)
    PROVE  PublishInv'
<1>1. /\ begun' \in 0..MaxRequests /\ link[l] # NoLink
      /\ UNCHANGED <<event, club, limit, joined, told, tx>>
  BY RulingForm DEF Expire
<1>2. PICK old : old = link[l]
  OBVIOUS
<1>3. old \in LinkRow /\ old.event \in Events
  BY <1>1, <1>2, LinkForm DEF PublishInv
<1>4. PICK row : row = [old EXCEPT !.expired = TRUE]
  OBVIOUS
<1>5. row \in LinkRow /\ row.event = old.event /\ row.revoked = old.revoked
  BY <1>3, <1>4 DEF LinkRow
<1>6. row # NoLink
  BY <1>3, <1>5, PublishingAssumption DEF NoLink
<1>7. /\ link' \in [Links -> LinkRow \cup {NoLink}] /\ link'[l] = row
      /\ \A m \in Links \ {l} : link'[m] = link[m]
  BY <1>2, <1>4, <1>5 DEF Expire, PublishInv, EventTables
<1>8. \A m \in Links : /\ link'[m] # NoLink <=> link[m] # NoLink
                       /\ link'[m].event = link[m].event /\ link'[m].revoked = link[m].revoked
  BY <1>1, <1>2, <1>5, <1>6, <1>7
<1>9. EventTables'
  BY <1>1, <1>7 DEF PublishInv, EventTables
<1>10. HistoryOK'
  BY <1>1, HistoryRests
<1>11. SharedOK'
  <2>1. EventTables /\ SharedOK /\ PublishedIsComplete'
    BY <1>1 DEF PublishInv, SharedOK, PublishedIsComplete
  <2>2. \A m \in Links : /\ link'[m] # NoLink => link[m] # NoLink /\ link'[m].event = link[m].event
                         /\ (link'[m] # NoLink /\ ~link'[m].revoked) => ~link[m].revoked
    BY <1>8
  <2>3. \A m \in Links : link'[m] # NoLink =>
           /\ event'[link[m].event] \notin {NoEvent, Deleted}
           /\ event'[link[m].event].status # "draft"
    BY <1>1, <1>8, <2>1 DEF SharedOK, Exists
  <2>4. \A m \in Links : (link'[m] # NoLink /\ ~link'[m].revoked) =>
           /\ event'[link[m].event].visibility = "private_link"
           /\ event'[link[m].event].status # "suspended"
           /\ event'[link[m].event].owner \in Clubs =>
                club'[event'[link[m].event].owner].status # "suspended"
    BY <1>1, <1>8, <2>1 DEF SharedOK, LinksOnlyWhereShared, OfClub
  <2> QED BY <1>9, <2>1, <2>2, <2>3, <2>4, SharedOnward
<1>12. ASSUME NEW q \in Requests
       PROVE  RowsStay(tx[q].held)
  BY <1>1, <1>8, EventsRest, ClubsRest DEF RowsStay, UsersStay, LinksStay
<1>13. RequestsStand'
  BY <1>1, <1>9, <1>12, NoRequestMoves
<1> QED BY <1>9, <1>10, <1>11, <1>13 DEF PublishInv


-----------------------------------------------------------------------------
(* An event is created, by a request or as a copy. *)
LEMMA InsertionKeeps ==
    ASSUME PublishInv, NEW r \in Requests, NEW op \in Creating, Ready(r, op),
           NEW e \in Events, event[e] = NoEvent,
           NEW row \in EventRow, event' = [event EXCEPT ![e] = row],
           row.revision = 1, row.writes = 1, row.status \in {"draft", "published"},
           row.status = "published" => row.complete,
           row.owner \in Organizers => (row.owner = tx[r].who /\ tx[r].club = None),
           End(r), UNCHANGED <<link, club, limit, joined, told, begun>>
    PROVE  PublishInv' /\ LimitIsKept /\ told' = told
<1>1. /\ event'[e] = row /\ \A f \in Events \ {e} : event'[f] = event[f]
      /\ event' \in [Events -> EventRow \cup {NoEvent, Deleted}]
  BY DEF PublishInv, EventTables
<1>2. row \notin {NoEvent, Deleted} /\ ~Exists(e)
  BY DEF NoEvent, Deleted, Exists
<1>3. /\ Found(tx[r]) /\ tx[r].op = op
      /\ \A kind : Through(tx[r], kind) <=> kind \in Itinerary(tx[r].op, tx[r].club = None)
      /\ \A q \in Requests \ {r} : tx[q] # Idle => tx[q].held \cap tx[r].held = {}
  BY ReadyForm
<1>4. tx[r].who \in tx[r].held /\ (tx[r].club = None => MayCreateOneMore(tx[r].who))
  <2>1. Through(tx[r], "user")
    BY <1>3 DEF Itinerary
  <2> QED BY <1>3, <2>1 DEF Found
<1>5. EventTables'
  BY <1>1 DEF PublishInv, EventTables
<1>6. SharedOK'
  <2>1. EventTables /\ SharedOK
    BY DEF PublishInv
  <2>2. \A f \in Events : event'[f].status \in {"published", "suspended"} => event'[f].complete
    BY <1>1, <2>1 DEF SharedOK, PublishedIsComplete
  <2>3. ASSUME NEW l \in Links, link[l] # NoLink
        PROVE  /\ event'[link[l].event] = event[link[l].event]
               /\ event'[link[l].event] \notin {NoEvent, Deleted}
               /\ event'[link[l].event].status # "draft"
    <3>1. /\ link[l].event \in Events /\ Exists(link[l].event)
          /\ event[link[l].event].status # "draft"
      BY <2>1, <2>3, LinkForm DEF SharedOK
    <3>2. link[l].event # e
      BY <3>1 DEF Exists
    <3> QED BY <1>1, <3>1, <3>2 DEF Exists
  <2>4. \A l \in Links : (link'[l] # NoLink /\ ~link'[l].revoked) =>
           /\ event'[link[l].event].visibility = "private_link"
           /\ event'[link[l].event].status # "suspended"
           /\ event'[link[l].event].owner \in Clubs =>
                club'[event'[link[l].event].owner].status # "suspended"
    BY <2>1, <2>3 DEF SharedOK, LinksOnlyWhereShared, OfClub
  <2>5. PublishedIsComplete'
    BY <2>2 DEF PublishedIsComplete
  <2>6. \A l \in Links : /\ link'[l] # NoLink => link[l] # NoLink /\ link'[l].event = link[l].event
                         /\ (link'[l] # NoLink /\ ~link'[l].revoked) => ~link[l].revoked
    OBVIOUS
  <2>7. \A l \in Links : link'[l] # NoLink =>
           /\ event'[link[l].event] \notin {NoEvent, Deleted}
           /\ event'[link[l].event].status # "draft"
    BY <2>3
  <2> QED BY <1>5, <2>1, <2>4, <2>5, <2>6, <2>7, SharedOnward
<1>7. HistoryOK'
  <2>1. \A f \in Events : Exists(f)' => event'[f].revision = event'[f].writes
    BY <1>1 DEF PublishInv, HistoryOK, Exists
  <2>2. \A f \in Events, g \in Guests : joined'[f][g] > 0 => (event'[f] # NoEvent /\ f # e)
    BY <1>1 DEF PublishInv, HistoryOK
  <2>3. ASSUME NEW f \in Events, NEW g \in Guests, Exists(f)', joined'[f][g] > 0,
               NEW n \in (joined'[f][g] + 1)..event'[f].revision
        PROVE  <<"changed", f, n, g>> \in told' \/ (event'[f].status = "completed" /\ n = event'[f].revision)
    <3>1. event'[f] = event[f] /\ Exists(f)
      BY <1>1, <2>2, <2>3 DEF Exists
    <3> QED BY <2>3, <3>1 DEF PublishInv, HistoryOK, ToldOfEveryChange
  <2> QED BY <2>1, <2>2, <2>3 DEF HistoryOK, ToldOfEveryChange, Exists
<1>8. ASSUME NEW u, u # row.owner
      PROVE  ActiveEvents(u)' \subseteq ActiveEvents(u)
  BY <1>1, <1>8 DEF ActiveEvents, Exists
<1>9. ASSUME NEW q \in Requests \ {r}, tx[q] # Idle
      PROVE  RowsStay(tx[q].held)
  <2>1. \A f \in Events \cap tx[q].held : f # e
    BY <1>9, HeldIsThere
  <2>2. EventsStay(tx[q].held)
    BY <1>1, <2>1 DEF EventsStay, Exists
  <2>3. UsersStay(tx[q].held)
    <3>1. ASSUME NEW u \in Organizers \cap tx[q].held
          PROVE  u # row.owner
      BY <1>3, <1>4, <1>9, <3>1
    <3> QED BY <1>8, <3>1 DEF UsersStay
  <2> QED BY <2>2, <2>3, LinksRest, ClubsRest DEF RowsStay
<1>10. RequestsStand'
  BY <1>5, <1>9, OneRequestEnds
<1>11. LimitIsKept
  <2>1. ASSUME NEW u \in Organizers
        PROVE  Cardinality(ActiveEvents(u)') > Cardinality(ActiveEvents(u))
                  => Cardinality(ActiveEvents(u)') <= limit
    <3>1. CASE u # row.owner
      BY <1>8, <3>1, ActiveShrink, ActiveAreFinite
    <3>2. CASE u = row.owner
      <4>1. MayCreateOneMore(u)
        BY <1>4, <3>2
      <4>2. ActiveEvents(u)' \subseteq ActiveEvents(u) \cup {e}
        BY <1>1 DEF ActiveEvents, Exists
      <4>3. IsFiniteSet(ActiveEvents(u)) /\ Cardinality(ActiveEvents(u)) \in Nat
        BY ActiveAreFinite
      <4>4. /\ IsFiniteSet(ActiveEvents(u) \cup {e})
            /\ Cardinality(ActiveEvents(u) \cup {e}) <= Cardinality(ActiveEvents(u)) + 1
        <5>1. PICK S : S = ActiveEvents(u)
          OBVIOUS
        <5>2. IsFiniteSet(S) /\ Cardinality(S) \in Nat
          BY <4>3, <5>1
        <5>3. /\ IsFiniteSet(S \cup {e})
              /\ Cardinality(S \cup {e}) = IF e \in S THEN Cardinality(S) ELSE Cardinality(S) + 1
          BY <5>2, FS_AddElement
        <5> QED BY <5>1, <5>2, <5>3
      <4>5. /\ Cardinality(ActiveEvents(u)') <= Cardinality(ActiveEvents(u) \cup {e})
            /\ Cardinality(ActiveEvents(u)') \in Nat /\ Cardinality(ActiveEvents(u) \cup {e}) \in Nat
        BY <4>2, <4>4, FS_Subset, FS_CardinalityType
      <4>6. limit \in Nat
        BY PublishingAssumption DEF PublishInv, EventTables
      <4> QED BY <4>1, <4>3, <4>4, <4>5, <4>6 DEF MayCreateOneMore
    <3> QED BY <3>1, <3>2
  <2> QED BY <2>1 DEF LimitIsKept
<1> QED BY <1>5, <1>6, <1>7, <1>10, <1>11 DEF PublishInv

LEMMA CreateKeeps ==
    ASSUME PublishInv, NEW r \in Requests, NEW e \in Events, Create(r, e)
    PROVE  PublishInv' /\ LimitIsKept /\ told' = told
<1>1. /\ Ready(r, "create") /\ event[e] = NoEvent /\ End(r)
      /\ UNCHANGED <<link, club, limit, joined, told, begun>> /\ "create" \in Creating
  BY DEF Create, Creating
<1>2. /\ tx[r].op = "create" /\ tx[r] \in Transaction /\ OfSubject(tx[r]) /\ MayWrite(r)
  BY <1>1, ReadyForm
<1>3. /\ tx[r].who \in Organizers /\ tx[r].club \in Clubs \cup {None}
      /\ tx[r].visibility \in Visibilities /\ tx[r].complete \in BOOLEAN
      /\ tx[r].publish => tx[r].complete
  BY <1>2 DEF OfSubject, Transaction, MayWrite, FitToStand
<1>4. PICK owner \in Organizers \cup Clubs : owner = IF tx[r].club = None THEN tx[r].who ELSE tx[r].club
  BY <1>3
<1>5. PICK s \in {"draft", "published"} : s = IF tx[r].publish THEN "published" ELSE "draft"
  OBVIOUS
<1>6. PICK row : row = Fresh(owner, tx[r].visibility, tx[r].complete, s)
  OBVIOUS
<1>7. /\ row \in EventRow /\ row.revision = 1 /\ row.writes = 1 /\ row.status = s /\ row.owner = owner
      /\ row.complete = tx[r].complete
  BY <1>3, <1>6 DEF Fresh, EventRow, Revisions, EventStatuses
<1>8. event' = [event EXCEPT ![e] = row]
  BY <1>4, <1>5, <1>6 DEF Create, Inserted
<1>9. owner \in Organizers => (owner = tx[r].who /\ tx[r].club = None)
  BY <1>3, <1>4, PublishingAssumption
<1> QED BY <1>1, <1>3, <1>5, <1>7, <1>8, <1>9, InsertionKeeps

LEMMA DuplicateKeeps ==
    ASSUME PublishInv, NEW r \in Requests, NEW e \in Events, Duplicate(r, e)
    PROVE  PublishInv' /\ LimitIsKept /\ told' = told
<1>1. /\ Ready(r, "duplicate") /\ event[e] = NoEvent /\ End(r)
      /\ UNCHANGED <<link, club, limit, joined, told, begun>> /\ "duplicate" \in Creating
      /\ "duplicate" \in Operations \ {"create", "register", "resolve"}
  BY DEF Duplicate, Operations, Signed, Creating
<1>2. /\ event[tx[r].event] \in EventRow /\ Exists(tx[r].event)
      /\ OfClub(tx[r].event) \/ event[tx[r].event].owner = tx[r].who
      /\ tx[r].club = ClubOf(tx[r].event)
  BY <1>1, WriterForm
<1>3. PICK source \in EventRow : source = event[tx[r].event]
  BY <1>2
<1>4. PICK row : row = Fresh(source.owner, source.visibility, source.complete, "draft")
  OBVIOUS
<1>5. /\ row \in EventRow /\ row.revision = 1 /\ row.writes = 1 /\ row.status = "draft"
      /\ row.owner = source.owner
  BY <1>4 DEF Fresh, EventRow, Revisions, EventStatuses
<1>6. event' = [event EXCEPT ![e] = row]
  BY <1>3, <1>4 DEF Duplicate, Inserted
<1>7. source.owner \in Organizers => (source.owner = tx[r].who /\ tx[r].club = None)
  BY <1>2, <1>3, PublishingAssumption DEF OfClub, ClubOf
<1> QED BY <1>1, <1>5, <1>6, <1>7, InsertionKeeps


-----------------------------------------------------------------------------
(* What a step may do. *)
LEMMA ShrinkIsWithinLimit ==
    ASSUME \A u : ActiveEvents(u)' \subseteq ActiveEvents(u)
    PROVE  LimitIsKept
<1>1. ASSUME NEW u \in Organizers
      PROVE  ~(Cardinality(ActiveEvents(u)') > Cardinality(ActiveEvents(u)))
  <2>1. Cardinality(ActiveEvents(u)') <= Cardinality(ActiveEvents(u))
        /\ Cardinality(ActiveEvents(u)') \in Nat
    BY ActiveShrink
  <2>2. Cardinality(ActiveEvents(u)) \in Nat
    BY ActiveAreFinite
  <2> QED BY <2>1, <2>2
<1> QED BY <1>1 DEF LimitIsKept

LEMMA QuietIsSeen ==
    ASSUME UNCHANGED <<event, told>>
    PROVE  OnlySeenIsChanged /\ LimitIsKept
<1>1. \A u : ActiveEvents(u)' \subseteq ActiveEvents(u)
  BY EventsRest
<1> QED BY <1>1, ShrinkIsWithinLimit DEF OnlySeenIsChanged

\* A ruling is no request.
LEMMA RulingIsSeen ==
    ASSUME tx' = tx
    PROVE  OnlySeenIsChanged
BY DEF OnlySeenIsChanged

LEMMA WriterHasSeen ==
    ASSUME PublishInv, NEW r \in Requests, NEW op \in Fenced \cup Creating, Ready(r, op), End(r)
    PROVE  OnlySeenIsChanged
<1>1. tx' = [tx EXCEPT ![r] = Idle] /\ tx \in [Requests -> Transaction \cup {Idle}]
  BY DEF End, PublishInv, RequestsStand
<1>2. tx[r].op = op /\ MayWrite(r)
  BY ReadyForm
<1>3. ASSUME NEW q \in Requests, tx[q] # Idle, tx[q].op \in Fenced, tx'[q] = Idle
      PROVE  tx[q].seen.writes = event[tx[q].event].writes
  <2>1. q = r /\ op \in Fenced
    BY <1>1, <1>2, <1>3
  <2>2. op \in Operations \ {"create", "register", "resolve"}
    BY <2>1 DEF Operations, Signed, Fenced, Creating
  <2>3. Current(r)
    BY <1>2, <2>1 DEF MayWrite, MayEdit, MayFinish, Fenced
  <2>4. /\ tx[r].seen.revision = tx[r].seen.writes
        /\ event[tx[r].event].revision = event[tx[r].event].writes
    BY <2>2, WriterForm
  <2> QED BY <2>1, <2>3, <2>4 DEF Current
<1> QED BY <1>3 DEF OnlySeenIsChanged

LEMMA BeginStep ==
    ASSUME PublishInv, NEW r \in Requests, MayBegin(r),
           \/ \E u \in Organizers, c \in Clubs \cup {None}, v \in Visibilities,
               complete \in BOOLEAN, publish \in BOOLEAN :
                  BeginCreate(r, u, c, v, complete, publish)
           \/ \E u \in Organizers, e \in Events :
                \/ \E v \in Visibilities, complete \in BOOLEAN, publish \in BOOLEAN :
                     BeginEdit(r, u, e, v, complete, publish)
                \/ BeginFinish(r, u, e) \/ BeginDelete(r, u, e) \/ BeginDuplicate(r, u, e)
                \/ BeginPost(r, u, e) \/ BeginIssue(r, u, e) \/ BeginRevoke(r, u, e)
                \/ BeginReplay(r, u, e)
           \/ \E g \in Guests, e \in Events, l \in Links \cup {None} :
                  BeginRegistration(r, g, e, l)
           \/ \E g \in Guests, l \in Links : BeginVisit(r, g, l)
    PROVE  PublishInv' /\ UNCHANGED <<event, told>>
<1>1. ASSUME NEW u \in Organizers, NEW c \in Clubs \cup {None}, NEW v \in Visibilities,
             NEW complete \in BOOLEAN, NEW publish \in BOOLEAN,
             BeginCreate(r, u, c, v, complete, publish)
      PROVE  PublishInv' /\ UNCHANGED <<event, told>>
  <2>1. PublishInv'
    BY <1>1, BeginCreateKeeps
  <2> QED BY <1>1, <2>1 DEF BeginCreate, Begin
<1>2. ASSUME NEW u \in Organizers, NEW e \in Events, NEW v \in Visibilities,
             NEW complete \in BOOLEAN, NEW publish \in BOOLEAN,
             BeginEdit(r, u, e, v, complete, publish)
      PROVE  PublishInv' /\ UNCHANGED <<event, told>>
  BY <1>2, BeginEditKeeps DEF BeginEdit, Begin
<1>3. ASSUME NEW u \in Organizers, NEW e \in Events,
             \/ BeginFinish(r, u, e) \/ BeginDelete(r, u, e) \/ BeginDuplicate(r, u, e)
             \/ BeginPost(r, u, e) \/ BeginIssue(r, u, e) \/ BeginRevoke(r, u, e)
             \/ BeginReplay(r, u, e)
      PROVE  PublishInv' /\ UNCHANGED <<event, told>>
  <2>1. PICK op \in Fenced \cup {"duplicate", "issue", "rotate", "revoke", "replay"} :
           Sees(u, e) /\ Begin(r, Asked(op, u, e))
    BY <1>3 DEF BeginFinish, BeginDelete, BeginDuplicate, BeginPost, BeginIssue, BeginRevoke,
           BeginReplay, Fenced
  <2> QED BY <2>1, AskKeeps DEF Begin
<1>4. CASE \E g \in Guests, e \in Events, l \in Links \cup {None} : BeginRegistration(r, g, e, l)
  BY <1>4, BeginRegistrationKeeps DEF BeginRegistration, Begin
<1>5. CASE \E g \in Guests, l \in Links : BeginVisit(r, g, l)
  BY <1>5, BeginVisitKeeps DEF BeginVisit, Begin
<1> QED BY <1>1, <1>2, <1>3, <1>4, <1>5

LEMMA RequestStep ==
    ASSUME PublishInv, NEW r \in Requests, RequestNext(r)
    PROVE  PublishInv' /\ OnlySeenIsChanged /\ LimitIsKept
<1>1. CASE PublishInv' /\ UNCHANGED <<event, told>>
  BY <1>1, QuietIsSeen
<1>2. CASE Lock(r) \/ Refuse(r) \/ BreakDeadlock(r) \/ Show(r) \/ RevokeLinks(r) \/ Register(r)
  <2>1. PublishInv' /\ UNCHANGED <<event, told>>
    BY <1>2, LockKeeps, RefuseKeeps, RevokeLinksKeeps, RegisterKeeps
       DEF Lock, Refuse, BreakDeadlock, Show
  <2> QED BY <1>1, <2>1
<1>3. CASE \E op \in {"issue", "rotate"}, l \in Links : IssueLink(r, op, l)
  <2>1. PublishInv' /\ UNCHANGED <<event, told>>
    BY <1>3, IssueLinkKeeps
  <2> QED BY <1>1, <2>1
<1>4. ASSUME NEW e \in Events, Create(r, e)
      PROVE  PublishInv' /\ OnlySeenIsChanged /\ LimitIsKept
  <2>1. Ready(r, "create") /\ End(r) /\ "create" \in Fenced \cup Creating
    BY <1>4 DEF Create, Creating
  <2> QED BY <1>4, <2>1, CreateKeeps, WriterHasSeen
<1>5. ASSUME NEW e \in Events, Duplicate(r, e)
      PROVE  PublishInv' /\ OnlySeenIsChanged /\ LimitIsKept
  <2>1. Ready(r, "duplicate") /\ End(r) /\ "duplicate" \in Fenced \cup Creating
    BY <1>5 DEF Duplicate, Creating
  <2> QED BY <1>5, <2>1, DuplicateKeeps, WriterHasSeen
<1>6. CASE Edit(r)
  <2>1. Ready(r, "edit") /\ End(r) /\ "edit" \in Fenced \cup Creating
    BY <1>6 DEF Edit, Fenced
  <2> QED BY <1>6, <2>1, EditKeeps, WriterHasSeen, ShrinkIsWithinLimit
<1>7. ASSUME NEW op \in {"cancel", "complete"}, Finish(r, op)
      PROVE  PublishInv' /\ OnlySeenIsChanged /\ LimitIsKept
  <2>1. Ready(r, op) /\ End(r) /\ op \in Fenced \cup Creating
    BY <1>7 DEF Finish, Fenced
  <2>2. PublishInv' /\ \A u : ActiveEvents(u)' \subseteq ActiveEvents(u)
    BY <1>7, FinishKeeps
  <2> QED BY <2>1, <2>2, WriterHasSeen, ShrinkIsWithinLimit
<1>8. CASE DeleteDraft(r)
  <2>1. Ready(r, "delete") /\ End(r) /\ "delete" \in Fenced \cup Creating
    BY <1>8 DEF DeleteDraft, Fenced
  <2> QED BY <1>8, <2>1, DeleteDraftKeeps, WriterHasSeen, ShrinkIsWithinLimit
<1>9. CASE Post(r)
  <2>1. Ready(r, "post") /\ End(r) /\ "post" \in Fenced \cup Creating
    BY <1>9 DEF Post, Fenced
  <2>2. PublishInv' /\ \A u : ActiveEvents(u)' \subseteq ActiveEvents(u)
    BY <1>9, PostKeeps, EventsRest
  <2> QED BY <2>1, <2>2, WriterHasSeen, ShrinkIsWithinLimit
<1> QED BY <1>1, <1>2, <1>3, <1>4, <1>5, <1>6, <1>7, <1>8, <1>9, BeginStep DEF RequestNext

LEMMA RulingStep ==
    ASSUME PublishInv, RulingNext
    PROVE  PublishInv' /\ OnlySeenIsChanged /\ LimitIsKept
<1>1. ASSUME NEW e \in Events, SuspendEvent(e) \/ RestoreEvent(e)
      PROVE  PublishInv' /\ OnlySeenIsChanged /\ LimitIsKept
  <2>1. tx' = tx
    BY <1>1 DEF SuspendEvent, RestoreEvent
  <2>2. PublishInv' /\ \A u : ActiveEvents(u)' \subseteq ActiveEvents(u)
    BY <1>1, EventRulingsKeep
  <2> QED BY <2>1, <2>2, RulingIsSeen, ShrinkIsWithinLimit
<1>2. ASSUME NEW c \in Clubs, RestoreClub(c) \/ CloseClub(c) \/ \E u \in Organizers : Demote(c, u)
      PROVE  PublishInv' /\ UNCHANGED <<event, told>>
  BY <1>2, ClubRulingsKeep DEF RestoreClub, CloseClub, Demote
<1>3. ASSUME NEW c \in Clubs, NEW status \in {"suspended", "unpublished"}, StopClub(c, status)
      PROVE  PublishInv' /\ UNCHANGED <<event, told>>
  BY <1>3, StopClubKeeps DEF StopClub
<1>4. ASSUME NEW n \in 0..MaxLimit, SetLimit(n)
      PROVE  PublishInv' /\ UNCHANGED <<event, told>>
  BY <1>4, SetLimitKeeps DEF SetLimit
<1>5. ASSUME NEW l \in Links, Expire(l)
      PROVE  PublishInv' /\ UNCHANGED <<event, told>>
  BY <1>5, ExpireKeeps DEF Expire
<1>6. CASE PublishInv' /\ UNCHANGED <<event, told>>
  BY <1>6, QuietIsSeen
<1> QED BY <1>1, <1>2, <1>3, <1>4, <1>5, <1>6 DEF RulingNext

LEMMA PublishInvInit ==
    ASSUME EventInit
    PROVE  PublishInv
<1>1. /\ club = [c \in Clubs |-> [status |-> "published", managers |-> Organizers]]
      /\ limit = MaxLimit /\ joined = [e \in Events |-> [g \in Guests |-> 0]]
      /\ told = {} /\ tx = [r \in Requests |-> Idle] /\ begun = 0
  BY DEF EventInit
<1>2. RequestsStand
  BY <1>1 DEF RequestsStand, RequestStands
<1>3. /\ club \in [Clubs -> [status : ClubStatuses, managers : SUBSET Organizers]]
      /\ limit \in 0..MaxLimit /\ joined \in [Events -> [Guests -> Revisions]]
      /\ told \subseteq {"changed", "posted"} \X Events \X Revisions \X Guests
      /\ begun \in 0..MaxRequests
  BY <1>1, PublishingAssumption DEF ClubStatuses, Revisions
<1>4. ToldOfEveryChange /\ \A e \in Events, g \in Guests : ~(joined[e][g] > 0)
  BY <1>1 DEF ToldOfEveryChange
<1>5. CASE event = [e \in Events |-> NoEvent] /\ link = [l \in Links |-> NoLink]
  <2>1. \A e \in Events : event[e] = NoEvent /\ ~Exists(e)
    BY <1>5 DEF Exists
  <2>2. \A l \in Links : link[l] = NoLink
    BY <1>5
  <2>3. EventTables
    BY <1>3, <1>5 DEF EventTables
  <2>4. SharedOK
    BY <2>1, <2>2 DEF SharedOK, LinksOnlyWhereShared, OneLink, PublishedIsComplete, NoEvent
  <2>5. HistoryOK
    BY <1>4, <2>1 DEF HistoryOK
  <2> QED BY <1>2, <2>3, <2>4, <2>5 DEF PublishInv
<1>6. CASE \E e \in Events, owner \in Organizers \cup Clubs, issued \in SUBSET Links :
            /\ \A l, m \in issued : l = m
            /\ event = [[f \in Events |-> NoEvent] EXCEPT
                           ![e] = Fresh(owner, "private_link", TRUE, "published")]
            /\ link = [l \in Links |-> IF l \in issued THEN NewLink(e) ELSE NoLink]
  <2>1. PICK e \in Events, owner \in Organizers \cup Clubs, issued \in SUBSET Links :
            /\ \A l, m \in issued : l = m
            /\ event = [[f \in Events |-> NoEvent] EXCEPT
                           ![e] = Fresh(owner, "private_link", TRUE, "published")]
            /\ link = [l \in Links |-> IF l \in issued THEN NewLink(e) ELSE NoLink]
    BY <1>6
  <2>2. PICK row : row = Fresh(owner, "private_link", TRUE, "published")
    OBVIOUS
  <2>3. /\ row \in EventRow /\ row.status = "published" /\ row.complete /\ row.visibility = "private_link"
        /\ row.owner = owner /\ row.revision = 1 /\ row.writes = 1
    BY <2>2 DEF Fresh, EventRow, Visibilities, EventStatuses, Revisions
  <2>4. row \notin {NoEvent, Deleted}
    BY <2>3 DEF NoEvent, Deleted
  <2>5. /\ event \in [Events -> EventRow \cup {NoEvent, Deleted}] /\ event[e] = row
        /\ \A f \in Events \ {e} : event[f] = NoEvent
    BY <2>1, <2>2, <2>3
  <2>6. /\ NewLink(e) \in LinkRow /\ NewLink(e).event = e /\ NewLink(e) # NoLink
        /\ NoLink.event \notin Events
    BY PublishingAssumption DEF NewLink, LinkRow, NoLink
  <2>7. /\ link \in [Links -> LinkRow \cup {NoLink}]
        /\ \A l \in Links : link[l] # NoLink => link[l].event = e
        /\ \A l \in Links : link[l].event \in Events => l \in issued
    BY <2>1, <2>6
  <2>8. EventTables
    BY <1>3, <2>5, <2>7 DEF EventTables
  <2>9. Exists(e) /\ \A f \in Events : Exists(f) => f = e
    BY <2>4, <2>5 DEF Exists
  <2>10. OfClub(e) => club[event[e].owner].status = "published"
    BY <1>1 DEF OfClub
  <2>11. LinksOnlyWhereShared
    BY <2>3, <2>5, <2>7, <2>10 DEF LinksOnlyWhereShared
  <2>12. OneLink
    BY <2>1, <2>7 DEF OneLink, LiveLinks
  <2>13. PublishedIsComplete
    BY <2>3, <2>5 DEF PublishedIsComplete, NoEvent
  <2>14. SharedOK
    BY <2>3, <2>5, <2>7, <2>9, <2>11, <2>12, <2>13 DEF SharedOK
  <2>15. HistoryOK
    BY <1>4, <2>3, <2>5, <2>9 DEF HistoryOK
  <2> QED BY <1>2, <2>8, <2>14, <2>15 DEF PublishInv
<1> QED BY <1>5, <1>6 DEF EventInit

LEMMA PublishStep ==
    ASSUME PublishInv, [EventNext]_eventVars
    PROVE  PublishInv' /\ OnlySeenIsChanged /\ LimitIsKept
<1>1. CASE EventNext
  BY <1>1, RequestStep, RulingStep DEF EventNext
<1>2. CASE UNCHANGED eventVars
  <2>1. EventTables' /\ SharedOK' /\ HistoryOK'
    BY <1>2, TablesRest DEF eventVars, PublishInv, EventTables
  <2>2. RequestsStand'
    BY <1>2, <2>1, RowsRest, NoRequestMoves DEF eventVars
  <2>3. OnlySeenIsChanged /\ LimitIsKept
    BY <1>2, QuietIsSeen DEF eventVars
  <2> QED BY <2>1, <2>2, <2>3 DEF PublishInv
<1> QED BY <1>1, <1>2

\* What a request has found under a lock is so until it ends, whatever other
\* requests and rulings do meanwhile.
THEOREM PublishInvariant == EventSpec => []PublishInv
<1>1. EventInit => PublishInv
  BY PublishInvInit
<1>2. PublishInv /\ [EventNext]_eventVars => PublishInv'
  BY PublishStep
<1> QED BY <1>1, <1>2, PTL DEF EventSpec


-----------------------------------------------------------------------------
(* What follows from the invariant. *)
LEMMA EntriesStand ==
    ASSUME PublishInv
    PROVE  EntryStands
<1> SUFFICES ASSUME NEW r \in Requests, HoldsAll(r), tx[r].op \in {"register", "resolve"}
             PROVE  /\ tx[r].op = "register" =>
                         /\ event[tx[r].event].status = "published"
                         /\ OfClub(tx[r].event) => ClubAvailable(tx[r].club)
                         /\ event[tx[r].event].visibility = "private_link" => ~link[tx[r].link].revoked
                    /\ tx[r].op = "resolve" => ~link[tx[r].link].revoked
  BY DEF EntryStands
<1>1. /\ tx[r] # Idle /\ tx[r].todo = {}
      /\ OfSubject(tx[r]) /\ Found(tx[r])
  BY RequestForm DEF HoldsAll, PublishInv
<1>2. \A kind \in Itinerary(tx[r].op, tx[r].club = None) : Through(tx[r], kind)
  BY <1>1 DEF Through
<1>3. NeedsLink(tx[r]) => ~link[tx[r].link].revoked
  <2>1. Through(tx[r], "link")
    BY <1>2 DEF Itinerary
  <2> QED BY <1>1, <2>1 DEF Found
<1>4. ASSUME tx[r].op = "register"
      PROVE  /\ event[tx[r].event].status = "published"
             /\ OfClub(tx[r].event) => ClubAvailable(tx[r].club)
  <2>1. event[tx[r].event].status = "published"
    <3>1. Through(tx[r], "event")
      BY <1>2, <1>4 DEF Itinerary
    <3> QED BY <1>1, <1>4, <3>1 DEF Found, OpenToGuests
  <2>2. ASSUME OfClub(tx[r].event)
        PROVE  ClubAvailable(tx[r].club)
    <3>1. tx[r].event \in Events /\ (Exists(tx[r].event) => tx[r].club = ClubOf(tx[r].event))
      BY <1>1, <1>4 DEF OfSubject
    <3>2. Exists(tx[r].event)
      BY <2>1, <3>1, EventForm DEF PublishInv, EventStatuses
    <3>3. tx[r].club # None
      BY <2>2, <3>1, <3>2, PublishingAssumption DEF ClubOf, OfClub
    <3>4. Through(tx[r], "club")
      BY <1>2, <3>3 DEF Itinerary
    <3> QED BY <1>1, <1>4, <3>4 DEF Found
  <2> QED BY <2>1, <2>2
<1> QED BY <1>3, <1>4 DEF NeedsLink

\* Who keeps another from the row of an organizer creates or copies an event
\* for the same organizer.
LEMMA OrganizerIsWaitedFor ==
    ASSUME PublishInv, NEW r \in Requests, NEW q \in Requests, WaitsFor(r, q)
    PROVE  \/ tx[q].op \in Creating /\ tx[q].who = tx[r].who
           \/ \E row \in tx[q].held \cap Wants(r) : row \notin Organizers
<1>1. /\ tx[r] # Idle /\ tx[q] # Idle /\ tx[r] \in Transaction /\ tx[q] \in Transaction
      /\ OfSubject(tx[r]) /\ InOrder(tx[r]) /\ OfSubject(tx[q]) /\ InOrder(tx[q])
      /\ HoldsOwn(tx[q])
  BY RequestForm DEF WaitsFor, PublishInv
<1>2. ASSUME NEW row \in Organizers, row \in Wants(r) \cup Signing(r)
      PROVE  row = tx[r].who
  <2>1. CASE row \in Signing(r)
    BY <2>1 DEF Signing
  <2>2. CASE row \in Wants(r) /\ Waiting(r)
    <3>1. PICK kind \in tx[r].todo : row = RowOf(tx[r], kind)
      BY <2>2 DEF Wants
    <3>2. kind \in {"event", "club", "user", "link"}
      BY <1>1, <3>1 DEF Transaction
    <3>3. row \notin Events \cup Clubs \cup Links \cup {None}
      BY <1>2, PublishingAssumption
    <3>4. /\ tx[r].event \in Events \cup {None} /\ tx[r].club \in Clubs \cup {None}
          /\ tx[r].link \in Links \cup {None}
      BY <1>1 DEF Transaction
    <3> QED BY <3>1, <3>2, <3>3, <3>4 DEF RowOf
  <2>3. CASE row \in Wants(r) /\ ~Waiting(r)
    <3>1. row \in Links
      BY <2>3 DEF Wants, Revoking, LiveLinks
    <3> QED BY <1>2, <3>1, PublishingAssumption
  <2> QED BY <1>2, <2>1, <2>2, <2>3
<1>3. CASE Keyed(q) \cap Wants(r) # {}
  <2>1. tx[q].op \in Creating /\ tx[q].who \in Wants(r)
    BY <1>3 DEF Keyed
  <2>2. tx[q].who \in Organizers
    BY <1>1, <2>1 DEF OfSubject, Creating
  <2> QED BY <1>2, <2>1, <2>2
<1>4. CASE tx[q].held \cap (Wants(r) \cup Signing(r)) # {}
  <2>1. PICK row \in tx[q].held : row \in Wants(r) \cup Signing(r)
    BY <1>4
  <2>2. CASE row \in Organizers
    <3>1. row = tx[r].who
      BY <1>2, <2>1, <2>2
    <3>2. Through(tx[q], "user") /\ row = tx[q].who
      BY <1>1, <2>2, PublishingAssumption DEF HoldsOwn, OwnRow
    <3>3. tx[q].op \in Creating
      BY <3>2 DEF Through, Itinerary
    <3> QED BY <3>1, <3>2, <3>3
  <2>3. CASE row \notin Organizers
    <3>1. Signing(r) \subseteq Organizers
      BY <1>1 DEF Signing, OfSubject, Signed, Fenced
    <3> QED BY <2>1, <2>3, <3>1
  <2> QED BY <2>2, <2>3
<1> QED BY <1>3, <1>4 DEF WaitsFor

\* r waits for the row of that kind, which q holds.
Awaits(r, q, kind) ==
    /\ tx[r] # Idle /\ tx[q] # Idle
    /\ kind \in tx[r].todo /\ IsNext(tx[r], kind)
    /\ RowOf(tx[r], kind) \in tx[q].held

\* Who holds a link waits for nobody, so in a circle that no organizer has made
\* everybody waits for an event or a club.
LEMMA CircleForm ==
    ASSUME PublishInv, NEW S \in SUBSET Requests, Circle(S), NEW r \in S,
           \A p, q \in S : p # q => ~(tx[p].op \in Creating /\ tx[p].who = tx[q].who)
    PROVE  \E q \in S, kind \in {"event", "club"} : Awaits(r, q, kind)
<1>1. PICK q \in S : WaitsFor(r, q)
  BY DEF Circle
<1>2. PICK row \in tx[q].held \cap Wants(r) : row \notin Organizers
  <2>1. r # q /\ r \in Requests /\ q \in Requests
    BY <1>1 DEF WaitsFor
  <2> QED BY <1>1, <2>1, OrganizerIsWaitedFor
<1>3. /\ tx[r] # Idle /\ tx[q] # Idle /\ tx[r] \in Transaction /\ tx[q] \in Transaction
      /\ OfSubject(tx[r]) /\ InOrder(tx[r]) /\ InOrder(tx[q]) /\ HoldsOwn(tx[q])
  BY <1>1, RequestForm DEF WaitsFor, PublishInv
<1>4. row \notin Links
  <2>1. SUFFICES ASSUME row \in Links PROVE FALSE
    OBVIOUS
  <2>2. Through(tx[q], "link")
    BY <1>2, <1>3, <2>1, PublishingAssumption DEF HoldsOwn, OwnRow
  <2>3. tx[q].op \in {"register", "resolve"}
    BY <2>2 DEF Through, Itinerary
  <2>4. tx[q].todo = {}
    <3>1. {"event", "club"} \cap tx[q].todo = {} /\ "link" \notin tx[q].todo
      BY <1>3, <2>2 DEF InOrder, Through, Earlier
    <3>2. tx[q].todo \subseteq {"event", "club", "link"}
      BY <1>3, <2>3 DEF InOrder, Itinerary, Creating
    <3> QED BY <3>1, <3>2
  <2>5. Wants(q) = {} /\ Signing(q) = {}
    BY <2>3, <2>4 DEF Wants, Waiting, Revoking, Signing, Signed, Fenced
  <2>6. PICK p \in S : WaitsFor(q, p)
    BY DEF Circle
  <2> QED BY <2>5, <2>6 DEF WaitsFor
<1>5. Waiting(r)
  <2>1. SUFFICES ASSUME ~Waiting(r) PROVE FALSE
    OBVIOUS
  <2>2. row \in Revoking(r)
    BY <1>2, <2>1 DEF Wants
  <2>3. row \in Links
    BY <2>2 DEF Revoking, LiveLinks
  <2> QED BY <1>4, <2>3
<1>6. PICK kind \in tx[r].todo : IsNext(tx[r], kind) /\ row = RowOf(tx[r], kind)
  BY <1>2, <1>5 DEF Wants
<1>7. kind \in {"event", "club", "user", "link"}
  BY <1>3, <1>6 DEF Transaction
<1>8. kind # "link"
  <2>1. SUFFICES ASSUME kind = "link" PROVE FALSE
    OBVIOUS
  <2>2. row \in Links \cup {None}
    BY <1>3, <1>6, <2>1 DEF RowOf, Transaction
  <2>3. row # None
    BY <1>2, <1>3, PublishingAssumption DEF Transaction
  <2> QED BY <1>4, <2>2, <2>3
<1>9. kind # "user"
  <2>1. SUFFICES ASSUME kind = "user" PROVE FALSE
    OBVIOUS
  <2>2. tx[r].op \in Creating
    BY <1>3, <1>6, <2>1 DEF InOrder, Itinerary
  <2>3. row \in Organizers
    BY <1>3, <1>6, <2>1, <2>2 DEF RowOf, OfSubject, Creating
  <2> QED BY <1>2, <2>3
<1> QED BY <1>2, <1>3, <1>6, <1>7, <1>8, <1>9 DEF Awaits

\* Events come before clubs, so nobody who holds a club waits for either, and
\* nobody who holds an event waits for another.
LEMMA EventsBeforeClubs ==
    ASSUME PublishInv, NEW r \in Requests, NEW q \in Requests,
           NEW kind \in {"event", "club"}, Awaits(r, q, kind)
    PROVE  /\ "event" \notin tx[q].todo
           /\ kind = "club" => "club" \notin tx[q].todo
<1>1. /\ tx[r] # Idle /\ tx[q] # Idle /\ tx[r] \in Transaction /\ tx[q] \in Transaction
      /\ InOrder(tx[q]) /\ HoldsOwn(tx[q])
  BY RequestForm DEF Awaits, PublishInv
<1>2. CASE kind = "event"
  <2>1. tx[r].event \in tx[q].held
    BY <1>2 DEF Awaits, RowOf
  <2>2. tx[r].event \in Events
    BY <1>1, <2>1, PublishingAssumption DEF Transaction
  <2>3. Through(tx[q], "event")
    BY <1>1, <2>1, <2>2, PublishingAssumption DEF HoldsOwn, OwnRow
  <2> QED BY <1>2, <2>3 DEF Through
<1>3. CASE kind = "club"
  <2>1. tx[r].club \in tx[q].held
    BY <1>3 DEF Awaits, RowOf
  <2>2. tx[r].club \in Clubs
    BY <1>1, <2>1, PublishingAssumption DEF Transaction
  <2>3. Through(tx[q], "club")
    BY <1>1, <2>1, <2>2, PublishingAssumption DEF HoldsOwn, OwnRow
  <2>4. "club" \notin tx[q].todo /\ Earlier(tx[q].op, "club") \cap tx[q].todo = {}
    BY <1>1, <2>3 DEF InOrder, Through
  <2>5. "event" \notin tx[q].todo
    <3>1. CASE tx[q].op = "create"
      BY <1>1, <3>1 DEF InOrder, Itinerary, Creating
    <3>2. CASE tx[q].op # "create"
      BY <2>4, <3>2 DEF Earlier
    <3> QED BY <3>1, <3>2
  <2> QED BY <2>4, <2>5
<1> QED BY <1>2, <1>3

LEMMA CirclesAreMade ==
    ASSUME PublishInv
    PROVE  CirclesAreHomemade
<1> SUFFICES ASSUME NEW S \in SUBSET Requests, Circle(S),
                    \A p, q \in S : p # q => ~(tx[p].op \in Creating /\ tx[p].who = tx[q].who)
             PROVE  FALSE
  BY DEF CirclesAreHomemade
<1>1. \A r \in S : \E q \in S, kind \in {"event", "club"} : Awaits(r, q, kind)
  BY CircleForm
<1>2. ASSUME NEW r \in S, NEW q \in S, Awaits(r, q, "club")
      PROVE  FALSE
  <2>1. PICK p \in S, kind \in {"event", "club"} : Awaits(q, p, kind)
    BY <1>1
  <2>2. kind \in tx[q].todo
    BY <2>1 DEF Awaits
  <2> QED BY <1>2, <2>2, EventsBeforeClubs
<1>3. PICK r \in S : TRUE
  BY DEF Circle
<1>4. PICK q \in S : Awaits(r, q, "event")
  BY <1>1, <1>2
<1>5. PICK p \in S, kind \in {"event", "club"} : Awaits(q, p, kind)
  BY <1>1
<1>6. kind = "event" /\ "event" \in tx[q].todo
  BY <1>2, <1>5 DEF Awaits
<1> QED BY <1>4, <1>6, EventsBeforeClubs

-----------------------------------------------------------------------------
LEMMA PublishInvGives ==
    ASSUME PublishInv
    PROVE  EventInv /\ EntryStands /\ ToldOfEveryChange
<1>1. EventTypeOK
  BY DEF PublishInv, EventTables, RequestsStand, SharedOK, EventTypeOK
<1>2. LinksOnlyWhereShared /\ OneLink /\ PublishedIsComplete /\ ToldOfEveryChange
  BY DEF PublishInv, SharedOK, HistoryOK
<1> QED BY <1>1, <1>2, CirclesAreMade, EntriesStand DEF EventInv

\* Guests come by a link only to a private event that was shown and that nobody
\* has stopped, there is one such link, what they see was validated in full, and
\* requests that wait for each other in a circle are never without two of one
\* organizer, one of which creates or copies an event.
THEOREM PublishedInOrder == EventSpec => []EventInv
<1>1. PublishInv => EventInv
  BY PublishInvGives
<1> QED BY <1>1, PublishInvariant, PTL

\* Who has been let in finds the event, its club and his link as they were when
\* he was let in, until he is registered or shown the event.
THEOREM EntryIsLawful == EventSpec => []EntryStands
<1>1. PublishInv => EntryStands
  BY PublishInvGives
<1> QED BY <1>1, PublishInvariant, PTL

\* A guest is told of every change of an event since he agreed to it.
THEOREM NoChangeUntold == EventSpec => []ToldOfEveryChange
<1>1. PublishInv => ToldOfEveryChange
  BY PublishInvGives
<1> QED BY <1>1, PublishInvariant, PTL

\* No organizer changes, ends, deletes or announces an event that another has
\* changed since he saw it.
THEOREM NoBlindChange == EventSpec => NothingUnseenIsChanged
<1>1. PublishInv /\ [EventNext]_eventVars => [OnlySeenIsChanged]_eventVars
  BY PublishStep
<1> QED BY <1>1, PublishInvariant, PTL DEF EventSpec, NothingUnseenIsChanged

\* No organizer gets an independent event beyond the limit, by creating events
\* and copying them at the same time neither.
THEOREM NoEventBeyondLimit == EventSpec => WithinEventLimit
<1>1. PublishInv /\ [EventNext]_eventVars => [LimitIsKept]_eventVars
  BY PublishStep
<1> QED BY <1>1, PublishInvariant, PTL DEF EventSpec, WithinEventLimit

-----------------------------------------------------------------------------
(***************************************************************************)
(* AdminDesk: what a decision keeps in mind between its locks and its end. *)
(***************************************************************************)
\* What a decision has found is still so: a case is never absent again, and once
\* it holds its rows they are as they were read.
Stands(v, statuses, cases, versions) ==
    /\ v \in Acting => LET c == cases[v.case] IN
         /\ c.status # "absent"
         /\ v.step = "case" => v.held = {}
         /\ v.step = "target" => v.held = {v.case}
         /\ v.step = "commit" =>
              /\ v.held = {v.case, c.target} /\ v.before = statuses[c.target]
              /\ c.status \in {"open", "investigating", "actioned"}
              /\ c.status = "actioned" => v.action = "restore"
    /\ v \in Sorting => LET c == cases[v.case] IN
         /\ c.status # "absent"
         /\ v.step = "case" => v.held = {}
         /\ v.step = "commit" =>
              /\ v.held = {v.case}
              /\ c.status = "open" \/ (v.action = "dismiss" /\ c.status = "investigating")
    /\ \A d \in Documents : v \in Setting(d) =>
         /\ v.seen.revision <= versions[d].revision
         /\ v.seen.revision = versions[d].revision => v.seen = versions[d]
         /\ v.step = "document" => v.held = {}
         /\ v.step = "commit" =>
              /\ v.held = {d} /\ v.seen = versions[d]
              /\ With(v.seen.values, v.change) # v.seen.values

Kind(v) == v \in Acting \cup Sorting \cup {Resting} \/ \E d \in Documents : v \in Setting(d)

\* Decisions hold their rows apart from each other, and each stands.
DecisionsStand ==
    /\ DOMAIN reqs = Decisions
    /\ \A r \in Decisions : Kind(reqs[r]) /\ Stands(reqs[r], target, case, document)
    /\ \A r, q \in Decisions : r # q => reqs[r].held \cap reqs[q].held = {}

\* The case behind whatever is stopped still offers to restore it.
CasesRestore ==
    /\ \A n \in notices : case[n[1]].status = "actioned"
    /\ \A t \in Targets : target[t] \in {"suspended", "unpublished"} =>
         \E c \in Cases : /\ case[c].target = t /\ case[c].status = "actioned"
                          /\ t \in Accounts => Notice(c, "restore") \notin notices

\* The last record still says where its subject is.
AuditIsCurrent ==
    /\ audit.about \in Cases => audit.after = Being(case[audit.about].status)
    /\ audit.about \in Documents => audit.after.revision <= document[audit.about].revision
    /\ audit.about \in Targets =>
         IF ReportsACase(audit) THEN case[audit.after.case].status # "absent"
         ELSE \/ /\ audit.before.status \in {"active", "published"}
                 /\ target[audit.about] \in {"suspended", "unpublished", "ended"}
              \/ /\ audit.before.status \in {"suspended", "unpublished"}
                 /\ target[audit.about] \in {"active", "published", "deleted", "ended"}

\* The types of the variables, without those of the decisions.
TablesOK ==
    /\ target \in [Targets -> TargetStatuses]
    /\ case \in [Cases -> [status : CaseStatuses, target : Targets \cup {Nothing}]]
    /\ DOMAIN document = Documents
    /\ \A d \in Documents : document[d] \in DocumentVersions(d)
    /\ notices \subseteq Cases \X Actions
    /\ audit = NoRecord \/ AuditRecord(audit)
    /\ decided \in 0..MaxDecisions
    /\ \A t \in Accounts : target[t] \in {"active", "suspended", "deleted"}
    /\ \A t \in EventPages : target[t] # "unpublished"
    /\ \A c \in Cases : case[c].status = "absent" <=> case[c].target = Nothing

DeskInv == TablesOK /\ DecisionsStand /\ CasesRestore /\ AuditIsCurrent

-----------------------------------------------------------------------------
LEMMA DeskInvImplies ==
    ASSUME DeskInv
    PROVE  AdminTypeOK /\ StoppedCanBeRestored
<1>1. AdminTypeOK
  BY DEF DeskInv, TablesOK, DecisionsStand, AdminTypeOK, Kind
<1>2. ASSUME NEW t \in Targets, target[t] \in {"suspended", "unpublished"}
      PROVE  \E c \in Cases : /\ case[c].target = t /\ "restore" \in Offered(c)
                              /\ ~Refused(c, "restore")
  <2>1. PICK c \in Cases : /\ case[c].target = t /\ case[c].status = "actioned"
                           /\ t \in Accounts => Notice(c, "restore") \notin notices
    BY <1>2 DEF DeskInv, CasesRestore
  <2>2. "restore" \in Capabilities(t)
    <3>1. target[t] = "suspended" \/ t \in ClubPages
      BY <1>2 DEF DeskInv, TablesOK, Targets
    <3> QED BY <1>2, <3>1 DEF Capabilities, Actions
  <2>3. "restore" \in Offered(c)
    BY <2>1, <2>2 DEF Offered, Actions
  <2> QED BY <2>1, <2>3 DEF Refused
<1> QED BY <1>1, <1>2 DEF StoppedCanBeRestored

\* The three kinds of decision and their forms.
LEMMA DecisionForm ==
    ASSUME NEW v, Kind(v)
    PROVE  /\ v.op = "act" => v \in Acting
           /\ v.op = "workflow" => v \in Sorting
           /\ v.op = "set" => v.document \in Documents /\ v \in Setting(v.document)
           /\ v.op = "idle" => v = Resting
           /\ v # Resting => v.op \in {"act", "workflow", "set"}
<1>1. CASE v \in Acting
  BY <1>1 DEF Acting, Resting
<1>2. CASE v \in Sorting
  BY <1>2 DEF Sorting, Resting
<1>3. CASE v = Resting
  BY <1>3 DEF Resting
<1>4. CASE \E d \in Documents : v \in Setting(d)
  <2>1. PICK d \in Documents : v \in Setting(d)
    BY <1>4
  <2>2. v.op = "set" /\ v.document = d
    BY <2>1 DEF Setting
  <2> QED BY <2>1, <2>2 DEF Resting
<1> QED BY <1>1, <1>2, <1>3, <1>4 DEF Kind

\* What a decision has found stays when cases that are there stay, and the rows
\* that it holds stay as they are.
LEMMA StandsOn ==
    ASSUME NEW v, NEW statuses, NEW cases, NEW versions, Stands(v, statuses, cases, versions),
           NEW later, NEW after, NEW next, Kind(v),
           \A c \in Cases : cases[c].status # "absent" =>
              after[c].status # "absent" /\ after[c].target = cases[c].target,
           \A c \in Cases \cap v.held : after[c] = cases[c],
           \A t \in v.held \ Cases : later[t] = statuses[t],
           \A c \in Cases : cases[c].status # "absent" => cases[c].target \notin Cases,
           \A d \in Documents : \/ next[d] = versions[d]
                                \/ /\ d \notin v.held /\ versions[d].revision \in Nat
                                   /\ next[d].revision = versions[d].revision + 1
    PROVE  Stands(v, later, after, next)
<1>1. ASSUME v \in Acting
      PROVE  LET c == after[v.case] IN
             /\ c.status # "absent"
             /\ v.step = "case" => v.held = {}
             /\ v.step = "target" => v.held = {v.case}
             /\ v.step = "commit" =>
                  /\ v.held = {v.case, c.target} /\ v.before = later[c.target]
                  /\ c.status \in {"open", "investigating", "actioned"}
                  /\ c.status = "actioned" => v.action = "restore"
  <2>1. v.case \in Cases
    BY <1>1 DEF Acting
  <2> QED BY <1>1, <2>1 DEF Stands
<1>2. ASSUME v \in Sorting
      PROVE  LET c == after[v.case] IN
             /\ c.status # "absent"
             /\ v.step = "case" => v.held = {}
             /\ v.step = "commit" =>
                  /\ v.held = {v.case}
                  /\ c.status = "open" \/ (v.action = "dismiss" /\ c.status = "investigating")
  <2>1. v.case \in Cases
    BY <1>2 DEF Sorting
  <2> QED BY <1>2, <2>1 DEF Stands
<1>3. ASSUME NEW d \in Documents, v \in Setting(d)
      PROVE  /\ v.seen.revision <= next[d].revision
             /\ v.seen.revision = next[d].revision => v.seen = next[d]
             /\ v.step = "document" => v.held = {}
             /\ v.step = "commit" =>
                  /\ v.held = {d} /\ v.seen = next[d]
                  /\ With(v.seen.values, v.change) # v.seen.values
  <2>1. /\ v.seen.revision <= versions[d].revision
        /\ v.seen.revision = versions[d].revision => v.seen = versions[d]
        /\ v.step = "document" => v.held = {}
        /\ v.step = "commit" =>
              /\ v.held = {d} /\ v.seen = versions[d]
              /\ With(v.seen.values, v.change) # v.seen.values
    BY <1>3 DEF Stands
  <2>2. v.seen.revision \in Nat
    BY <1>3 DEF Setting, DocumentVersions
  <2>3. CASE next[d] = versions[d]
    BY <2>1, <2>3
  <2>4. CASE /\ d \notin v.held /\ versions[d].revision \in Nat
             /\ next[d].revision = versions[d].revision + 1
    <3>1. v.step # "commit"
      BY <2>1, <2>4
    <3> QED BY <2>1, <2>2, <2>4, <3>1
  <2> QED BY <2>3, <2>4
<1> QED BY <1>1, <1>2, <1>3 DEF Stands

\* A case that is there has a target, which is no case.
LEMMA TargetForm ==
    ASSUME DeskInv, NEW c \in Cases, case[c].status # "absent"
    PROVE  case[c].target \in Targets /\ case[c].target \notin Cases
BY AdminAssumption DEF DeskInv, TablesOK, Targets

\* One decision goes on or ends.
LEMMA OneGoesOn ==
    ASSUME DeskInv, NEW r \in Decisions, NEW x, reqs' = [reqs EXCEPT ![r] = x],
           Kind(x), Stands(x, target', case', document'),
           \A q \in Decisions \ {r} : reqs[q].held \cap x.held = {},
           \A c \in Cases : case[c].status # "absent" =>
              case'[c].status # "absent" /\ case'[c].target = case[c].target,
           \A q \in Decisions \ {r} : \A c \in Cases \cap reqs[q].held : case'[c] = case[c],
           \A q \in Decisions \ {r} : \A t \in reqs[q].held \ Cases : target'[t] = target[t],
           \A d \in Documents :
              \/ document'[d] = document[d]
              \/ /\ \A q \in Decisions \ {r} : d \notin reqs[q].held
                 /\ document'[d].revision = document[d].revision + 1
    PROVE  DecisionsStand'
<1>1. DOMAIN reqs' = Decisions /\ reqs'[r] = x /\ \A q \in Decisions \ {r} : reqs'[q] = reqs[q]
  BY DEF DeskInv, DecisionsStand
<1>2. \A d \in Documents : document[d].revision \in Nat
  BY DEF DeskInv, TablesOK, DocumentVersions
<1>3. ASSUME NEW q \in Decisions \ {r}
      PROVE  Kind(reqs[q]) /\ Stands(reqs[q], target', case', document')
  <2>1. Kind(reqs[q]) /\ Stands(reqs[q], target, case, document)
    BY DEF DeskInv, DecisionsStand
  <2>2. \A d \in Documents :
           \/ document'[d] = document[d]
           \/ /\ d \notin reqs[q].held /\ document[d].revision \in Nat
              /\ document'[d].revision = document[d].revision + 1
    BY <1>2
  <2>3. \A c \in Cases \cap reqs[q].held : case'[c] = case[c]
    OBVIOUS
  <2>4. \A t \in reqs[q].held \ Cases : target'[t] = target[t]
    OBVIOUS
  <2>5. \A c \in Cases : case[c].status # "absent" => case[c].target \notin Cases
    BY TargetForm
  <2> QED BY <2>1, <2>2, <2>3, <2>4, <2>5, StandsOn
<1>4. ASSUME NEW p \in Decisions, NEW q \in Decisions, p # q
      PROVE  reqs'[p].held \cap reqs'[q].held = {}
  <2>1. reqs[p].held \cap reqs[q].held = {}
    BY <1>4 DEF DeskInv, DecisionsStand
  <2>2. CASE p = r
    BY <1>1, <1>4, <2>2
  <2>3. CASE q = r
    BY <1>1, <1>4, <2>3
  <2>4. CASE p # r /\ q # r
    BY <1>1, <2>1, <2>4
  <2> QED BY <2>2, <2>3, <2>4
<1>5. \A q \in Decisions : Kind(reqs'[q]) /\ Stands(reqs'[q], target', case', document')
  BY <1>1, <1>3
<1> QED BY <1>1, <1>4, <1>5 DEF DecisionsStand, Kind

\* A step that moves only the decisions.
LEMMA DecisionMoves ==
    ASSUME DeskInv, DecisionsStand', UNCHANGED <<target, case, document, notices, audit>>,
           decided' \in 0..MaxDecisions
    PROVE  DeskInv'
<1>1. TablesOK'
  BY DEF DeskInv, TablesOK
<1>2. CasesRestore' /\ AuditIsCurrent'
  BY DEF DeskInv, CasesRestore, AuditIsCurrent
<1> QED BY <1>1, <1>2 DEF DeskInv

LEMMA RestingStands ==
    ASSUME NEW statuses, NEW cases, NEW versions
    PROVE  Kind(Resting) /\ Stands(Resting, statuses, cases, versions) /\ Resting.held = {}
<1>1. Resting \notin Acting /\ Resting \notin Sorting
  BY DEF Resting, Acting, Sorting
<1>2. \A d \in Documents : Resting \notin Setting(d)
  BY DEF Resting, Setting
<1> QED BY <1>1, <1>2 DEF Stands, Kind, Resting

\* The tables stay: one decision begins, locks a row or ends without a write.
LEMMA OneMoves ==
    ASSUME DeskInv, NEW r \in Decisions, NEW x, reqs' = [reqs EXCEPT ![r] = x],
           Kind(x), Stands(x, target, case, document),
           \A q \in Decisions \ {r} : reqs[q].held \cap x.held = {},
           UNCHANGED <<target, case, document, notices, audit>>, decided' \in 0..MaxDecisions
    PROVE  DeskInv'
<1>1. Stands(x, target', case', document')
  OBVIOUS
<1>2. \A c \in Cases : case[c].status # "absent" =>
        case'[c].status # "absent" /\ case'[c].target = case[c].target
  OBVIOUS
<1>3. DecisionsStand'
  BY <1>1, <1>2, OneGoesOn
<1> QED BY <1>3, DecisionMoves

LEMMA OneEnds ==
    ASSUME DeskInv, NEW r \in Decisions, Ends(r),
           UNCHANGED <<target, case, document, notices, audit, decided>>
    PROVE  DeskInv'
<1>1. reqs' = [reqs EXCEPT ![r] = Resting]
  BY DEF Ends
<1>2. decided' \in 0..MaxDecisions
  BY DEF DeskInv, TablesOK
<1>3. Kind(Resting) /\ Stands(Resting, target, case, document) /\ Resting.held = {}
  BY RestingStands
<1>4. \A q \in Decisions \ {r} : reqs[q].held \cap Resting.held = {}
  BY <1>3
<1> QED BY <1>1, <1>2, <1>3, <1>4, OneMoves

LEMMA OneBegins ==
    ASSUME DeskInv, NEW r \in Decisions, NEW x, MayDecide(r), Begins(r, x),
           Kind(x), Stands(x, target, case, document), x.held = {}
    PROVE  DeskInv'
<1>1. /\ reqs' = [reqs EXCEPT ![r] = x]
      /\ UNCHANGED <<target, case, document, notices, audit>>
  BY DEF Begins
<1>2. decided' \in 0..MaxDecisions
  BY AdminAssumption DEF DeskInv, TablesOK, Begins, MayDecide
<1>3. \A q \in Decisions \ {r} : reqs[q].held \cap x.held = {}
  OBVIOUS
<1> QED BY <1>1, <1>2, <1>3, OneMoves

LEMMA BeginActKeeps ==
    ASSUME DeskInv, NEW r \in Decisions, BeginAct(r)
    PROVE  DeskInv'
<1>1. PICK c \in Cases : \E a \in Offered(c) :
        Begins(r, [op |-> "act", step |-> "case", case |-> c, action |-> a,
                   before |-> Nothing, held |-> {}])
  BY DEF BeginAct
<1>2. PICK a \in Offered(c) :
        Begins(r, [op |-> "act", step |-> "case", case |-> c, action |-> a,
                   before |-> Nothing, held |-> {}])
  BY <1>1
<1> DEFINE x == [op |-> "act", step |-> "case", case |-> c, action |-> a,
                 before |-> Nothing, held |-> {}]
<1>3. a \in Actions /\ case[c].status # "absent"
  BY <1>2 DEF Offered
<1>4. x \in Acting
  BY <1>3 DEF Acting
<1>5. x \notin Sorting /\ \A d \in Documents : x \notin Setting(d)
  BY DEF Sorting, Setting
<1>6. Kind(x) /\ Stands(x, target, case, document) /\ x.held = {}
  BY <1>3, <1>4, <1>5 DEF Kind, Stands
<1>7. MayDecide(r) /\ Begins(r, x)
  BY <1>2 DEF BeginAct
<1> QED BY <1>6, <1>7, OneBegins

LEMMA BeginWorkflowKeeps ==
    ASSUME DeskInv, NEW r \in Decisions, BeginWorkflow(r)
    PROVE  DeskInv'
<1>1. PICK c \in Cases, a \in {"acknowledge", "dismiss"} :
        /\ WorkflowAllows(c, a)
        /\ Begins(r, [op |-> "workflow", step |-> "case", case |-> c, action |-> a, held |-> {}])
  BY DEF BeginWorkflow
<1> DEFINE x == [op |-> "workflow", step |-> "case", case |-> c, action |-> a, held |-> {}]
<1>2. case[c].status # "absent"
  BY <1>1 DEF WorkflowAllows
<1>3. x \in Sorting
  BY <1>1 DEF Sorting
<1>4. x \notin Acting /\ \A d \in Documents : x \notin Setting(d)
  BY DEF Acting, Setting
<1>5. Kind(x) /\ Stands(x, target, case, document) /\ x.held = {}
  BY <1>2, <1>3, <1>4 DEF Kind, Stands
<1>6. MayDecide(r) /\ Begins(r, x)
  BY <1>1 DEF BeginWorkflow
<1> QED BY <1>5, <1>6, OneBegins

LEMMA BeginToSetKeeps ==
    ASSUME DeskInv, NEW r \in Decisions, NEW d \in Documents, MayDecide(r), BeginsToSet(r, d)
    PROVE  DeskInv'
<1>1. PICK change \in Changes(d) :
        /\ Preview(d, change).changes
        /\ Begins(r, [op |-> "set", step |-> "document", document |-> d,
                      seen |-> Preview(d, change).seen, change |-> change, held |-> {}])
  BY DEF BeginsToSet
<1> DEFINE x == [op |-> "set", step |-> "document", document |-> d,
                 seen |-> document[d], change |-> change, held |-> {}]
<1>2. Begins(r, x)
  BY <1>1 DEF Preview
<1>3. document[d] \in DocumentVersions(d) /\ document[d].revision \in Nat
  BY DEF DeskInv, TablesOK, DocumentVersions
<1>4. x \in Setting(d)
  BY <1>1, <1>3 DEF Setting
<1>5. x \notin Acting /\ x \notin Sorting
  BY DEF Acting, Sorting
<1>6. \A e \in Documents : x \in Setting(e) => e = d
  BY DEF Setting
<1>7. x.held = {} /\ x.step = "document" /\ x.seen = document[d]
  OBVIOUS
<1>8. x.seen.revision <= document[d].revision
  BY <1>3
<1> HIDE DEF x
<1>9. Kind(x) /\ Stands(x, target, case, document)
  BY <1>4, <1>5, <1>6, <1>7, <1>8 DEF Kind, Stands
<1> QED BY <1>2, <1>7, <1>9, OneBegins

-----------------------------------------------------------------------------
(* The forms of a decision that has come so far. *)
LEMMA ActForm ==
    ASSUME DeskInv, NEW r \in Decisions, NEW step, At(r, "act", step)
    PROVE  /\ reqs[r] \in Acting /\ reqs[r].case \in Cases /\ reqs[r].step = step
           /\ reqs[r] \notin Sorting /\ (\A d \in Documents : reqs[r] \notin Setting(d))
           /\ case[reqs[r].case].status # "absent"
           /\ case[reqs[r].case].target \in Targets
           /\ step = "case" => reqs[r].held = {}
           /\ step = "target" => reqs[r].held = {reqs[r].case}
           /\ step = "commit" =>
                /\ reqs[r].held = {reqs[r].case, case[reqs[r].case].target}
                /\ reqs[r].before = target[case[reqs[r].case].target]
                /\ case[reqs[r].case].status \in {"open", "investigating", "actioned"}
                /\ case[reqs[r].case].status = "actioned" => reqs[r].action = "restore"
<1>1. Kind(reqs[r]) /\ Stands(reqs[r], target, case, document)
  BY DEF DeskInv, DecisionsStand
<1>2. reqs[r] \in Acting /\ reqs[r].step = step /\ reqs[r].op = "act"
  BY <1>1, DecisionForm DEF At
<1>3. reqs[r].case \in Cases
  BY <1>2 DEF Acting
<1>4. reqs[r] \notin Sorting /\ (\A d \in Documents : reqs[r] \notin Setting(d))
  BY <1>2 DEF Sorting, Setting
<1>5. case[reqs[r].case].status # "absent"
  BY <1>1, <1>2 DEF Stands
<1>6. case[reqs[r].case].target \in Targets
  BY <1>3, <1>5, TargetForm
<1> QED BY <1>1, <1>2, <1>3, <1>4, <1>5, <1>6 DEF Stands

LEMMA SortingForm ==
    ASSUME DeskInv, NEW r \in Decisions, NEW step, At(r, "workflow", step)
    PROVE  /\ reqs[r] \in Sorting /\ reqs[r].case \in Cases /\ reqs[r].step = step
           /\ reqs[r] \notin Acting /\ (\A d \in Documents : reqs[r] \notin Setting(d))
           /\ case[reqs[r].case].status # "absent"
           /\ step = "case" => reqs[r].held = {}
           /\ step = "commit" =>
                /\ reqs[r].held = {reqs[r].case}
                /\ \/ case[reqs[r].case].status = "open"
                   \/ reqs[r].action = "dismiss" /\ case[reqs[r].case].status = "investigating"
<1>1. Kind(reqs[r]) /\ Stands(reqs[r], target, case, document)
  BY DEF DeskInv, DecisionsStand
<1>2. reqs[r] \in Sorting /\ reqs[r].step = step /\ reqs[r].op = "workflow"
  BY <1>1, DecisionForm DEF At
<1>3. reqs[r].case \in Cases
  BY <1>2 DEF Sorting
<1>4. reqs[r] \notin Acting /\ (\A d \in Documents : reqs[r] \notin Setting(d))
  BY <1>2 DEF Acting, Setting
<1> QED BY <1>1, <1>2, <1>3, <1>4 DEF Stands

LEMMA SettingForm ==
    ASSUME DeskInv, NEW r \in Decisions, NEW step, At(r, "set", step)
    PROVE  /\ reqs[r].document \in Documents /\ reqs[r] \in Setting(reqs[r].document)
           /\ reqs[r].step = step /\ reqs[r] \notin Acting /\ reqs[r] \notin Sorting
           /\ \A d \in Documents : reqs[r] \in Setting(d) => d = reqs[r].document
           /\ reqs[r].seen.revision <= document[reqs[r].document].revision
           /\ reqs[r].seen.revision = document[reqs[r].document].revision
                => reqs[r].seen = document[reqs[r].document]
           /\ step = "document" => reqs[r].held = {}
           /\ step = "commit" =>
                /\ reqs[r].held = {reqs[r].document}
                /\ reqs[r].seen = document[reqs[r].document]
                /\ With(reqs[r].seen.values, reqs[r].change) # reqs[r].seen.values
<1>1. Kind(reqs[r]) /\ Stands(reqs[r], target, case, document)
  BY DEF DeskInv, DecisionsStand
<1>2. /\ reqs[r].document \in Documents /\ reqs[r] \in Setting(reqs[r].document)
      /\ reqs[r].step = step /\ reqs[r].op = "set"
  BY <1>1, DecisionForm DEF At
<1>3. reqs[r] \notin Acting /\ reqs[r] \notin Sorting
  BY <1>2 DEF Acting, Sorting
<1>4. \A d \in Documents : reqs[r] \in Setting(d) => d = reqs[r].document
  BY DEF Setting
<1> QED BY <1>1, <1>2, <1>3, <1>4 DEF Stands

\* A row that is held by no other decision may be taken.
LEMMA TakenApart ==
    ASSUME DeskInv, NEW r \in Decisions, NEW row, Unheld(row, r), NEW rows, rows \subseteq {row},
           NEW q \in Decisions \ {r}
    PROVE  reqs[q].held \cap (reqs[r].held \cup rows) = {}
<1>1. reqs[q].held \cap reqs[r].held = {}
  BY DEF DeskInv, DecisionsStand
<1>2. row \notin reqs[q].held
  BY DEF Unheld
<1> QED BY <1>1, <1>2

LEMMA LockCaseKeeps ==
    ASSUME DeskInv, NEW r \in Decisions, LockCase(r)
    PROVE  DeskInv'
<1> DEFINE v == reqs[r]
           x == [v EXCEPT !.step = "target", !.held = @ \cup {v.case}]
<1>1. At(r, "act", "case") /\ Unheld(v.case, r)
  BY DEF LockCase
<1>2. /\ v \in Acting /\ v.case \in Cases /\ v.held = {} /\ case[v.case].status # "absent"
  BY <1>1, ActForm
<1>3. reqs' = [reqs EXCEPT ![r] = x]
  BY DEF LockCase, Holding, CaseLocked
<1>4. x \in Acting /\ x.case = v.case /\ x.step = "target" /\ x.held = {v.case}
  BY <1>2 DEF Acting
<1>5. x \notin Sorting /\ \A d \in Documents : x \notin Setting(d)
  BY <1>4 DEF Acting, Sorting, Setting
<1>6. \A q \in Decisions \ {r} : reqs[q].held \cap x.held = {}
  BY <1>1, <1>4 DEF Unheld
<1>7. UNCHANGED <<target, case, document, notices, audit>> /\ decided' \in 0..MaxDecisions
  BY DEF LockCase, DeskInv, TablesOK
<1> HIDE DEF x
<1>8. Kind(x) /\ Stands(x, target, case, document)
  BY <1>2, <1>4, <1>5 DEF Kind, Stands
<1> QED BY <1>3, <1>6, <1>7, <1>8, OneMoves

LEMMA LockTargetKeeps ==
    ASSUME DeskInv, NEW r \in Decisions, LockTarget(r)
    PROVE  DeskInv'
<1> DEFINE v == reqs[r]
           c == v.case
           t == case[c].target
           x == [v EXCEPT !.step = "commit", !.before = target[t], !.held = @ \cup {t}]
<1>1. At(r, "act", "target") /\ Unheld(t, r)
  BY DEF LockTarget
<1>2. /\ v \in Acting /\ c \in Cases /\ v.held = {c} /\ case[c].status # "absent" /\ t \in Targets
  BY <1>1, ActForm
<1>3. UNCHANGED <<target, case, document, notices, audit, decided>>
  BY DEF LockTarget
<1>4. CASE v.action \notin Offered(c)
  BY <1>3, <1>4, OneEnds DEF LockTarget
<1>5. CASE v.action \in Offered(c)
  <2>1. reqs' = [reqs EXCEPT ![r] = x]
    BY <1>5 DEF LockTarget, TargetLocked
  <2>2. target[t] \in TargetStatuses
    BY <1>2 DEF DeskInv, TablesOK
  <2>3. /\ x \in Acting /\ x.case = c /\ x.step = "commit" /\ x.held = {c, t}
        /\ x.before = target[t] /\ x.action = v.action
    BY <1>2, <2>2 DEF Acting
  <2>4. x \notin Sorting /\ \A d \in Documents : x \notin Setting(d)
    BY <2>3 DEF Acting, Sorting, Setting
  <2>5. \A q \in Decisions \ {r} : reqs[q].held \cap x.held = {}
    <3>1. ASSUME NEW q \in Decisions \ {r}
          PROVE  reqs[q].held \cap (reqs[r].held \cup {t}) = {}
      <4>1. Unheld(t, r) /\ {t} \subseteq {t}
        BY <1>1
      <4> HIDE DEF t
      <4> QED BY <4>1, TakenApart
    <3>2. x.held = reqs[r].held \cup {t}
      BY <1>2, <2>3
    <3> HIDE DEF x, t
    <3> QED BY <3>1, <3>2
  <2>6. /\ case[c].status \in {"open", "investigating", "actioned"}
        /\ case[c].status = "actioned" => v.action = "restore"
    BY <1>5 DEF Offered
  <2>7. decided' \in 0..MaxDecisions
    BY <1>3 DEF DeskInv, TablesOK
  <2> HIDE DEF x
  <2>8. Kind(x) /\ Stands(x, target, case, document)
    BY <1>2, <2>3, <2>4, <2>6 DEF Kind, Stands
  <2> QED BY <1>3, <2>1, <2>5, <2>7, <2>8, OneMoves
<1> QED BY <1>4, <1>5

LEMMA LockWorkflowKeeps ==
    ASSUME DeskInv, NEW r \in Decisions, LockWorkflow(r)
    PROVE  DeskInv'
<1> DEFINE v == reqs[r]
           c == v.case
           x == [v EXCEPT !.step = "commit", !.held = @ \cup {c}]
<1>1. At(r, "workflow", "case") /\ Unheld(c, r)
  BY DEF LockWorkflow
<1>2. v \in Sorting /\ c \in Cases /\ v.held = {} /\ case[c].status # "absent"
  BY <1>1, SortingForm
<1>3. UNCHANGED <<target, case, document, notices, audit, decided>>
  BY DEF LockWorkflow
<1>4. CASE ~WorkflowAllows(c, v.action)
  BY <1>3, <1>4, OneEnds DEF LockWorkflow
<1>5. CASE WorkflowAllows(c, v.action)
  <2>1. reqs' = [reqs EXCEPT ![r] = x]
    BY <1>5 DEF LockWorkflow, CaseLocked, Holding
  <2>3. /\ x \in Sorting /\ x.case = c /\ x.step = "commit" /\ x.held = {c}
        /\ x.action = v.action
    BY <1>2 DEF Sorting
  <2>4. x \notin Acting /\ \A d \in Documents : x \notin Setting(d)
    BY <2>3 DEF Acting, Sorting, Setting
  <2>5. \A q \in Decisions \ {r} : reqs[q].held \cap x.held = {}
    BY <1>1, <2>3 DEF Unheld
  <2>6. \/ case[c].status = "open"
        \/ v.action = "dismiss" /\ case[c].status = "investigating"
    BY <1>5 DEF WorkflowAllows
  <2>7. decided' \in 0..MaxDecisions
    BY <1>3 DEF DeskInv, TablesOK
  <2> HIDE DEF x
  <2>8. Kind(x) /\ Stands(x, target, case, document)
    BY <1>2, <2>3, <2>4, <2>6 DEF Kind, Stands
  <2> QED BY <1>3, <2>1, <2>5, <2>7, <2>8, OneMoves
<1> QED BY <1>4, <1>5

\* A flag or a policy is locked, and found as the preview has shown it.
LEMMA DocumentLockKeeps ==
    ASSUME DeskInv, NEW r \in Decisions, At(r, "set", "document"), Unheld(reqs[r].document, r),
           UNCHANGED <<target, case, document, notices, audit, decided>>,
           IF Settable(r) THEN Holding(r, "commit", {reqs[r].document}) ELSE Ends(r)
    PROVE  DeskInv'
<1> DEFINE v == reqs[r]
           d == v.document
           x == [v EXCEPT !.step = "commit", !.held = @ \cup {d}]
<1>2. /\ d \in Documents /\ v \in Setting(d) /\ v.held = {}
      /\ v.seen.revision = document[d].revision => v.seen = document[d]
  BY SettingForm
<1>4. CASE ~Settable(r)
  BY <1>4, OneEnds
<1>5. CASE Settable(r)
  <2>1. reqs' = [reqs EXCEPT ![r] = x]
    BY <1>5 DEF Holding
  <2>2. v.seen = document[d] /\ With(v.seen.values, v.change) # v.seen.values
    BY <1>2, <1>5 DEF Settable, StillSeen, Proposed
  <2>3. /\ x \in Setting(d) /\ x.step = "commit" /\ x.held = {d}
        /\ x.seen = v.seen /\ x.change = v.change
    BY <1>2 DEF Setting
  <2>4. x \notin Acting /\ x \notin Sorting /\ \A e \in Documents : x \in Setting(e) => e = d
    BY <2>3 DEF Acting, Sorting, Setting
  <2>5. \A q \in Decisions \ {r} : reqs[q].held \cap x.held = {}
    BY <2>3 DEF Unheld
  <2>6. document[d].revision \in Nat
    BY <1>2 DEF DeskInv, TablesOK, DocumentVersions
  <2>7. decided' \in 0..MaxDecisions
    BY DEF DeskInv, TablesOK
  <2> HIDE DEF x
  <2>8. Kind(x)
    BY <1>2, <2>3 DEF Kind
  <2>9. Stands(x, target, case, document)
    BY <1>2, <2>2, <2>3, <2>4, <2>6 DEF Stands
  <2> QED BY <2>1, <2>5, <2>7, <2>8, <2>9, OneMoves
<1> QED BY <1>4, <1>5

-----------------------------------------------------------------------------
(* Reports, and what owners do. *)
\* What a record says of a target or a case is no report.
LEMMA BeingIsNoReport ==
    ASSUME NEW s
    PROVE  Being(s) \notin [case : Cases] /\ Being(s).status = s
<1>1. DOMAIN Being(s) = {"status"}
  BY DEF Being
<1>2. ASSUME NEW y \in [case : Cases]
      PROVE  DOMAIN y = {"case"}
  OBVIOUS
<1> QED BY <1>1, <1>2 DEF Being

\* A case that is absent is held by nobody.
LEMMA AbsentIsUnheld ==
    ASSUME DeskInv, NEW c \in Cases, case[c].status = "absent", NEW q \in Decisions
    PROVE  c \notin reqs[q].held
<1>1. Kind(reqs[q]) /\ Stands(reqs[q], target, case, document)
  BY DEF DeskInv, DecisionsStand
<1>2. CASE reqs[q] \in Acting
  <2>1. reqs[q].case \in Cases /\ case[reqs[q].case].status # "absent"
    BY <1>1, <1>2 DEF Stands, Acting
  <2>2. case[reqs[q].case].target \notin Cases
    BY <2>1, TargetForm
  <2>3. reqs[q].held \subseteq {reqs[q].case, case[reqs[q].case].target}
    BY <1>1, <1>2 DEF Stands, Acting
  <2> QED BY <2>1, <2>2, <2>3
<1>3. CASE reqs[q] \in Sorting
  BY <1>1, <1>3 DEF Stands, Sorting
<1>4. CASE reqs[q] = Resting
  BY <1>4 DEF Resting
<1>5. CASE \E d \in Documents : reqs[q] \in Setting(d)
  BY <1>5, AdminAssumption DEF Setting, Documents
<1> QED BY <1>1, <1>2, <1>3, <1>4, <1>5 DEF Kind

\* The decisions rest on tables that only grow.
LEMMA DecisionsRest ==
    ASSUME DeskInv, reqs' = reqs, document' = document,
           \A c \in Cases : case[c].status # "absent" => case'[c] = case[c],
           \A q \in Decisions : \A t \in reqs[q].held \ Cases : target'[t] = target[t]
    PROVE  DecisionsStand'
<1>1. ASSUME NEW q \in Decisions
      PROVE  Kind(reqs[q]) /\ Stands(reqs[q], target', case', document')
  <2>1. Kind(reqs[q]) /\ Stands(reqs[q], target, case, document)
    BY DEF DeskInv, DecisionsStand
  <2>2. \A d \in Documents :
           \/ document'[d] = document[d]
           \/ /\ d \notin reqs[q].held /\ document[d].revision \in Nat
              /\ document'[d].revision = document[d].revision + 1
    OBVIOUS
  <2>3. \A c \in Cases \cap reqs[q].held : case'[c] = case[c]
    BY AbsentIsUnheld
  <2>4. \A t \in reqs[q].held \ Cases : target'[t] = target[t]
    OBVIOUS
  <2>5. \A c \in Cases : case[c].status # "absent" => case[c].target \notin Cases
    BY TargetForm
  <2>6. \A c \in Cases : case[c].status # "absent" =>
          case'[c].status # "absent" /\ case'[c].target = case[c].target
    OBVIOUS
  <2> QED BY <2>1, <2>2, <2>3, <2>4, <2>5, <2>6, StandsOn
<1> QED BY <1>1 DEF DeskInv, DecisionsStand

LEMMA SubmitReportKeeps ==
    ASSUME DeskInv, NEW c \in Cases, NEW t \in Targets, SubmitReport(c, t)
    PROVE  DeskInv' /\ RecordedAsItWas /\ ChangedOnRecord
<1> DEFINE y == [about |-> t, before |-> Nothing, after |-> [case |-> c]]
<1>1. /\ case[c].status = "absent"
      /\ case' = [case EXCEPT ![c] = [status |-> "open", target |-> t]]
      /\ audit' = y
      /\ UNCHANGED <<target, document, notices, reqs, decided>>
  BY DEF SubmitReport, ReportAccepted, Report, Recorded, AuditEvent
<1>2. /\ case \in [Cases -> [status : CaseStatuses, target : Targets \cup {Nothing}]]
      /\ \A d \in Cases : case[d].status = "absent" <=> case[d].target = Nothing
  BY DEF DeskInv, TablesOK
<1>3. case'[c] = [status |-> "open", target |-> t] /\ \A d \in Cases \ {c} : case'[d] = case[d]
  BY <1>1, <1>2
<1>4. t # Nothing /\ t \notin Cases /\ t \notin Documents
  BY AdminAssumption DEF Targets, Documents
<1>5. TablesOK'
  <2>1. case' \in [Cases -> [status : CaseStatuses, target : Targets \cup {Nothing}]]
    BY <1>1, <1>2 DEF CaseStatuses
  <2>2. \A d \in Cases : case'[d].status = "absent" <=> case'[d].target = Nothing
    BY <1>2, <1>3, <1>4
  <2>3. AuditRecord(audit')
    <3>1. y \in Told(Targets, {Nothing}, [case : Cases])
      BY DEF Told
    <3> QED BY <1>1, <3>1 DEF AuditRecord
  <2> QED BY <1>1, <2>1, <2>2, <2>3 DEF DeskInv, TablesOK, AuditRecord
<1>6. DecisionsStand'
  <2>1. \A d \in Cases : case[d].status # "absent" => case'[d] = case[d]
    BY <1>1, <1>3
  <2>2. reqs' = reqs /\ document' = document /\ target' = target
    BY <1>1
  <2>3. \A q \in Decisions : \A w \in reqs[q].held \ Cases : target'[w] = target[w]
    BY <2>2
  <2> QED BY <2>1, <2>2, <2>3, DecisionsRest
<1>7. CasesRestore'
  <2>1. \A n \in notices : n[1] \in Cases /\ case[n[1]].status = "actioned"
    BY DEF DeskInv, TablesOK, CasesRestore
  <2>2. \A n \in notices' : case'[n[1]].status = "actioned"
    BY <1>1, <1>3, <2>1
  <2>3. ASSUME NEW s \in Targets, target'[s] \in {"suspended", "unpublished"}
        PROVE  \E d \in Cases : /\ case'[d].target = s /\ case'[d].status = "actioned"
                                /\ s \in Accounts => Notice(d, "restore") \notin notices'
    <3>1. target[s] \in {"suspended", "unpublished"} /\ notices' = notices
      BY <1>1, <2>3
    <3>2. PICK d \in Cases : /\ case[d].target = s /\ case[d].status = "actioned"
                             /\ s \in Accounts => Notice(d, "restore") \notin notices
      BY <3>1 DEF DeskInv, CasesRestore
    <3> QED BY <1>1, <1>3, <3>1, <3>2
  <2> QED BY <2>2, <2>3 DEF CasesRestore, Notice
<1>8. audit'.after \in [case : Cases] /\ audit'.after.case = c /\ audit'.about = t
  BY <1>1
<1>9. AuditIsCurrent'
  BY <1>3, <1>4, <1>8 DEF AuditIsCurrent, ReportsACase
<1>10. RecordedAsItWas
  BY <1>1, <1>3, <1>8 DEF RecordedAsItWas, ReportsACase
<1>11. audit' # audit
  <2>1. ASSUME audit' = audit
        PROVE  FALSE
    <3>1. audit.about \in Targets /\ ReportsACase(audit) /\ audit.after.case = c
      BY <1>8, <2>1 DEF ReportsACase
    <3> QED BY <1>1, <3>1 DEF DeskInv, AuditIsCurrent
  <2> QED BY <2>1
<1> QED BY <1>5, <1>6, <1>7, <1>9, <1>10, <1>11 DEF DeskInv, ChangedOnRecord

LEMMA OwnerActsKeeps ==
    ASSUME DeskInv, NEW t \in Targets, OwnerActs(t)
    PROVE  DeskInv'
<1>1. PICK to \in {"deleted", "published", "ended"} :
        /\ target' = [target EXCEPT ![t] = to]
        /\ \/ target[t] = "active" /\ to = "deleted"
           \/ target[t] = "draft" /\ to = "published"
           \/ target[t] \in {"published", "unpublished"} /\ to = "ended"
  BY DEF OwnerActs
<1>2. /\ \A r \in Decisions : t \notin reqs[r].held
      /\ UNCHANGED <<case, document, notices, audit, reqs, decided>>
  BY DEF OwnerActs
<1>3. target \in [Targets -> TargetStatuses]
  BY DEF DeskInv, TablesOK
<1>4. target'[t] = to /\ \A s \in Targets \ {t} : target'[s] = target[s]
  BY <1>1, <1>3
<1>5. TablesOK'
  <2>1. target' \in [Targets -> TargetStatuses]
    BY <1>1, <1>3 DEF TargetStatuses
  <2>2. \A s \in Accounts : target'[s] \in {"active", "suspended", "deleted"}
    BY <1>1, <1>4 DEF DeskInv, TablesOK, Targets
  <2>3. \A s \in EventPages : target'[s] # "unpublished"
    BY <1>1, <1>4 DEF DeskInv, TablesOK, Targets
  <2> QED BY <1>2, <2>1, <2>2, <2>3 DEF DeskInv, TablesOK
<1>6. DecisionsStand'
  <2>1. ASSUME NEW q \in Decisions, NEW s \in reqs[q].held \ Cases
        PROVE  target'[s] = target[s]
    BY <1>1, <1>2
  <2>2. reqs' = reqs /\ document' = document /\ case' = case
    BY <1>2
  <2>3. \A d \in Cases : case[d].status # "absent" => case'[d] = case[d]
    BY <2>2
  <2>4. \A q \in Decisions : \A w \in reqs[q].held \ Cases : target'[w] = target[w]
    BY <2>1
  <2> QED BY <2>2, <2>3, <2>4, DecisionsRest
<1>7. CasesRestore'
  <2>1. ASSUME NEW s \in Targets, target'[s] \in {"suspended", "unpublished"}
        PROVE  target[s] \in {"suspended", "unpublished"}
    BY <1>1, <1>4, <2>1
  <2> QED BY <1>2, <2>1 DEF DeskInv, CasesRestore
<1>8. AuditIsCurrent'
  <2>1. CASE audit.about # t
    BY <1>2, <1>4, <2>1 DEF DeskInv, AuditIsCurrent, ReportsACase
  <2>2. CASE audit.about = t
    BY <1>1, <1>2, <1>4, <2>2 DEF DeskInv, AuditIsCurrent, ReportsACase
  <2> QED BY <2>1, <2>2
<1> QED BY <1>5, <1>6, <1>7, <1>8 DEF DeskInv

-----------------------------------------------------------------------------
(* The writes of a decision. *)
\* What a decision holds is held by no other.
LEMMA HeldByNoOther ==
    ASSUME DeskInv, NEW r \in Decisions, NEW q \in Decisions \ {r}
    PROVE  reqs[q].held \cap reqs[r].held = {}
BY DEF DeskInv, DecisionsStand

\* A record of a target, and of a case, that tells the status before and after.
LEMMA TargetIsTold ==
    ASSUME NEW x \in Targets,
           audit' = [about |-> x, before |-> Being(target[x]), after |-> Being(target'[x])]
    PROVE  \E y \in Targets \cup Cases \cup Documents : TellsOf(y)
<1>1. x \notin Policies
  BY AdminAssumption DEF Targets
<1>2. ValueOf(x) = Being(target[x]) /\ ValueOf(x)' = Being(target'[x])
  BY DEF ValueOf
<1>3. TellsOf(x)
  BY <1>1, <1>2 DEF TellsOf
<1> QED BY <1>3

LEMMA CaseIsTold ==
    ASSUME NEW x \in Cases,
           audit' = [about |-> x, before |-> Being(case[x].status), after |-> Being(case'[x].status)]
    PROVE  \E y \in Targets \cup Cases \cup Documents : TellsOf(y)
<1>1. x \notin Policies /\ x \notin Targets
  BY AdminAssumption DEF Targets
<1>2. ValueOf(x) = Being(case[x].status) /\ ValueOf(x)' = Being(case'[x].status)
  BY <1>1 DEF ValueOf
<1>3. TellsOf(x)
  BY <1>1, <1>2 DEF TellsOf
<1> QED BY <1>3

LEMMA CommitActKeeps ==
    ASSUME DeskInv, NEW r \in Decisions, CommitAct(r)
    PROVE  DeskInv' /\ RecordedAsItWas /\ ChangedOnRecord /\ document' = document
<1> DEFINE v == reqs[r]
           c == v.case
           t == case[c].target
           a == v.action
           to == Outcome(t, a)
<1>1. /\ v \in Acting /\ c \in Cases /\ t \in Targets /\ v.held = {c, t} /\ v.before = target[t]
      /\ case[c].status \in {"open", "investigating", "actioned"}
      /\ case[c].status = "actioned" => a = "restore"
  BY ActForm DEF CommitAct
<1>2. a \in Actions /\ t \notin Cases /\ t \notin Documents
  BY <1>1, AdminAssumption DEF Acting, Targets, Documents
<1>3. Ends(r) /\ document' = document /\ decided' = decided
  BY DEF CommitAct
<1>4. CASE ~(AppliesTo(t, a) /\ ~Refused(c, a))
  <2>1. UNCHANGED <<target, case, notices, audit>>
    BY <1>4 DEF CommitAct
  <2> QED BY <1>3, <2>1, OneEnds DEF RecordedAsItWas, ChangedOnRecord
<1>5. CASE AppliesTo(t, a) /\ ~Refused(c, a)
  <2> DEFINE y == [about |-> t, before |-> Being(target[t]), after |-> Being(to)]
  <2>1. /\ target' = [target EXCEPT ![t] = to]
        /\ case' = [case EXCEPT ![c].status = "actioned"]
        /\ notices' = IF t \in Accounts THEN notices \cup {Notice(c, a)} ELSE notices
        /\ audit' = y
    BY <1>1, <1>5 DEF CommitAct, RecordCaseAction, Recorded, AuditEvent
  <2>2. /\ target \in [Targets -> TargetStatuses]
        /\ case \in [Cases -> [status : CaseStatuses, target : Targets \cup {Nothing}]]
        /\ notices \subseteq Cases \X Actions
    BY DEF DeskInv, TablesOK
  <2>3. target'[t] = to /\ \A s \in Targets \ {t} : target'[s] = target[s]
    BY <1>1, <2>1, <2>2
  <2>4. /\ case'[c].status = "actioned" /\ case'[c].target = t
        /\ \A d \in Cases \ {c} : case'[d] = case[d]
    BY <1>1, <2>1, <2>2
  <2>5. /\ a = "suspend" => target[t] \in {"active", "published"} /\ to = "suspended"
        /\ a = "unpublish" => t \in ClubPages /\ target[t] = "published" /\ to = "unpublished"
        /\ a = "restore" => target[t] \in {"suspended", "unpublished"}
        /\ a = "restore" => to = IF t \in Accounts THEN "active" ELSE "published"
    BY <1>5 DEF AppliesTo, Outcome
  <2>6. a = "suspend" \/ a = "unpublish" \/ a = "restore"
    BY <1>2 DEF Actions
  <2>7. to \in TargetStatuses
    BY <2>5, <2>6 DEF TargetStatuses
  <2> HIDE DEF to
  <2>8. TablesOK'
    <3>1. target' \in [Targets -> TargetStatuses]
      BY <1>1, <2>1, <2>2, <2>7
    <3>2. case' \in [Cases -> [status : CaseStatuses, target : Targets \cup {Nothing}]]
      BY <1>1, <2>1, <2>2 DEF CaseStatuses
    <3>3. notices' \subseteq Cases \X Actions
      BY <1>1, <1>2, <2>1, <2>2 DEF Notice
    <3>4. AuditRecord(audit')
      <4>1. Being(target[t]) \in BeingOneOf(TargetStatuses) /\ Being(to) \in BeingOneOf(TargetStatuses)
        BY <1>1, <2>2, <2>7 DEF Being, BeingOneOf
      <4>2. y \in Told(Targets, BeingOneOf(TargetStatuses), BeingOneOf(TargetStatuses))
        BY <1>1, <4>1 DEF Told
      <4> QED BY <2>1, <4>2 DEF AuditRecord
    <3>5. \A s \in Accounts : target'[s] \in {"active", "suspended", "deleted"}
      <4>1. \A s \in Accounts : s \in Targets /\ s \notin ClubPages
        BY AdminAssumption DEF Targets
      <4>2. \A s \in Accounts : target[s] \in {"active", "suspended", "deleted"}
        BY DEF DeskInv, TablesOK
      <4> QED BY <2>3, <2>5, <2>6, <4>1, <4>2
    <3>6. \A s \in EventPages : target'[s] # "unpublished"
      <4>1. \A s \in EventPages : s \in Targets /\ s \notin ClubPages
        BY AdminAssumption DEF Targets
      <4>2. \A s \in EventPages : target[s] # "unpublished"
        BY DEF DeskInv, TablesOK
      <4> QED BY <2>3, <2>5, <2>6, <4>1, <4>2
    <3>7. \A d \in Cases : case'[d].status = "absent" <=> case'[d].target = Nothing
      <4>1. t # Nothing
        BY <1>1, AdminAssumption DEF Targets
      <4>2. \A d \in Cases : case[d].status = "absent" <=> case[d].target = Nothing
        BY DEF DeskInv, TablesOK
      <4> QED BY <2>4, <4>1, <4>2
    <3>8. DOMAIN document' = Documents /\ decided' \in 0..MaxDecisions
          /\ \A d \in Documents : document'[d] \in DocumentVersions(d)
      BY <1>3 DEF DeskInv, TablesOK
    <3> QED BY <3>1, <3>2, <3>3, <3>4, <3>5, <3>6, <3>7, <3>8 DEF TablesOK, AuditRecord
  <2>9. DecisionsStand'
    <3>1. reqs' = [reqs EXCEPT ![r] = Resting]
      BY <1>3 DEF Ends
    <3>2. Kind(Resting) /\ Stands(Resting, target', case', document') /\ Resting.held = {}
      BY RestingStands
    <3>3. \A q \in Decisions \ {r} : c \notin reqs[q].held /\ t \notin reqs[q].held
      BY <1>1, HeldByNoOther
    <3>4. \A d \in Cases : case[d].status # "absent" =>
            case'[d].status # "absent" /\ case'[d].target = case[d].target
      BY <2>4
    <3>5. \A q \in Decisions \ {r} : \A d \in Cases \cap reqs[q].held : case'[d] = case[d]
      BY <2>4, <3>3
    <3>6. \A q \in Decisions \ {r} : \A s \in reqs[q].held \ Cases : target'[s] = target[s]
      BY <2>1, <3>3
    <3>7. \A q \in Decisions \ {r} : reqs[q].held \cap Resting.held = {}
      BY <3>2
    <3>8. \A d \in Documents : document'[d] = document[d]
      BY <1>3
    <3> QED BY <3>1, <3>2, <3>4, <3>5, <3>6, <3>7, <3>8, OneGoesOn
  <2>10. CasesRestore'
    <3>1. \A n \in notices : n[1] \in Cases /\ case[n[1]].status = "actioned"
      BY <2>2 DEF DeskInv, CasesRestore
    <3>2. \A n \in notices' : case'[n[1]].status = "actioned"
      BY <2>1, <2>4, <3>1 DEF Notice
    <3>3. ASSUME NEW s \in Targets \ {t}, target'[s] \in {"suspended", "unpublished"}
          PROVE  \E d \in Cases : /\ case'[d].target = s /\ case'[d].status = "actioned"
                                  /\ s \in Accounts => Notice(d, "restore") \notin notices'
      <4>1. PICK d \in Cases : /\ case[d].target = s /\ case[d].status = "actioned"
                               /\ s \in Accounts => Notice(d, "restore") \notin notices
        BY <2>3, <3>3 DEF DeskInv, CasesRestore
      <4>2. d # c
        BY <4>1
      <4>3. s \in Accounts => Notice(d, "restore") \notin notices'
        BY <2>1, <4>1, <4>2 DEF Notice
      <4> QED BY <2>4, <4>1, <4>2, <4>3
    <3>4. ASSUME target'[t] \in {"suspended", "unpublished"}
          PROVE  \E d \in Cases : /\ case'[d].target = t /\ case'[d].status = "actioned"
                                  /\ t \in Accounts => Notice(d, "restore") \notin notices'
      <4>1. a # "restore" /\ case[c].status # "actioned"
        BY <1>1, <2>3, <2>5, <3>4
      <4>2. Notice(c, "restore") \notin notices
        BY <3>1, <4>1 DEF Notice
      <4>3. Notice(c, "restore") \notin notices'
        BY <2>1, <4>1, <4>2 DEF Notice
      <4> QED BY <1>1, <2>4, <4>3
    <3> QED BY <3>2, <3>3, <3>4 DEF CasesRestore, Notice
  <2>11. /\ audit'.about = t /\ audit'.before = Being(target[t]) /\ audit'.after = Being(to)
         /\ audit'.before.status = target[t] /\ audit'.after \notin [case : Cases]
    BY <2>1, BeingIsNoReport
  <2>12. AuditIsCurrent'
    <3>1. \/ target[t] \in {"active", "published"} /\ to \in {"suspended", "unpublished", "ended"}
          \/ target[t] \in {"suspended", "unpublished"} /\ to \in {"active", "published", "deleted", "ended"}
      BY <2>5, <2>6
    <3> QED BY <1>2, <2>3, <2>11, <3>1 DEF AuditIsCurrent, ReportsACase
  <2>13. RecordedAsItWas
    <3>1. audit' = [about |-> t, before |-> Being(target[t]), after |-> Being(target'[t])]
      BY <2>1, <2>3
    <3>2. \E x \in Targets \cup Cases \cup Documents : TellsOf(x)
      BY <1>1, <3>1, TargetIsTold
    <3> QED BY <2>11, <3>2 DEF RecordedAsItWas, ReportsACase
  <2>14. audit' # audit
    <3>1. ASSUME audit' = audit
          PROVE  FALSE
      <4>1. audit.about = t /\ ~ReportsACase(audit) /\ audit.before.status = target[t]
        BY <2>11, <3>1 DEF ReportsACase
      <4> QED BY <1>1, <4>1 DEF DeskInv, AuditIsCurrent
    <3> QED BY <3>1
  <2> QED BY <1>3, <2>8, <2>9, <2>10, <2>12, <2>13, <2>14 DEF DeskInv, ChangedOnRecord
<1> QED BY <1>4, <1>5

LEMMA CommitWorkflowKeeps ==
    ASSUME DeskInv, NEW r \in Decisions, CommitWorkflow(r)
    PROVE  DeskInv' /\ RecordedAsItWas /\ ChangedOnRecord /\ document' = document
<1> DEFINE v == reqs[r]
           c == v.case
           to == IF v.action = "acknowledge" THEN "investigating" ELSE "dismissed"
           y == [about |-> c, before |-> Being(case[c].status), after |-> Being(to)]
<1>1. /\ v \in Sorting /\ c \in Cases /\ v.held = {c}
      /\ \/ case[c].status = "open"
         \/ v.action = "dismiss" /\ case[c].status = "investigating"
  BY SortingForm DEF CommitWorkflow
<1>2. /\ Ends(r) /\ UNCHANGED <<target, document, notices, decided>>
      /\ case' = [case EXCEPT ![c].status = to]
      /\ audit' = y
  BY DEF CommitWorkflow, RecordCaseWorkflow, Recorded, AuditEvent
<1>3. c \notin Targets /\ c \notin Documents
  BY <1>1, AdminAssumption DEF Targets, Documents
<1>4. /\ case \in [Cases -> [status : CaseStatuses, target : Targets \cup {Nothing}]]
      /\ \A d \in Cases : case[d].status = "absent" <=> case[d].target = Nothing
  BY DEF DeskInv, TablesOK
<1>5. /\ case'[c].status = to /\ case'[c].target = case[c].target
      /\ \A d \in Cases \ {c} : case'[d] = case[d]
  BY <1>1, <1>2, <1>4
<1>6. to \in {"investigating", "dismissed"} /\ to # case[c].status
      /\ case[c].status \notin {"absent", "actioned"} /\ case[c].status \in CaseStatuses
  BY <1>1 DEF CaseStatuses
<1> HIDE DEF to
<1>7. TablesOK'
  <2>1. case' \in [Cases -> [status : CaseStatuses, target : Targets \cup {Nothing}]]
    BY <1>1, <1>2, <1>4, <1>6 DEF CaseStatuses
  <2>2. \A d \in Cases : case'[d].status = "absent" <=> case'[d].target = Nothing
    BY <1>4, <1>5, <1>6
  <2>3. AuditRecord(audit')
    <3>1. Being(case[c].status) \in BeingOneOf(CaseStatuses) /\ Being(to) \in BeingOneOf(CaseStatuses)
      BY <1>6 DEF Being, BeingOneOf, CaseStatuses
    <3>2. y \in Told(Cases, BeingOneOf(CaseStatuses), BeingOneOf(CaseStatuses))
      BY <1>1, <3>1 DEF Told
    <3> QED BY <1>2, <3>2 DEF AuditRecord
  <2> QED BY <1>2, <2>1, <2>2, <2>3 DEF DeskInv, TablesOK, AuditRecord
<1>8. DecisionsStand'
  <2>1. reqs' = [reqs EXCEPT ![r] = Resting]
    BY <1>2 DEF Ends
  <2>2. Kind(Resting) /\ Stands(Resting, target', case', document') /\ Resting.held = {}
    BY RestingStands
  <2>3. \A q \in Decisions \ {r} : c \notin reqs[q].held
    BY <1>1, HeldByNoOther
  <2>4. \A d \in Cases : case[d].status # "absent" =>
          case'[d].status # "absent" /\ case'[d].target = case[d].target
    BY <1>5, <1>6
  <2>5. \A q \in Decisions \ {r} : \A d \in Cases \cap reqs[q].held : case'[d] = case[d]
    BY <1>5, <2>3
  <2>6. \A q \in Decisions \ {r} : \A s \in reqs[q].held \ Cases : target'[s] = target[s]
    BY <1>2
  <2>7. \A q \in Decisions \ {r} : reqs[q].held \cap Resting.held = {}
    BY <2>2
  <2>8. \A d \in Documents : document'[d] = document[d]
    BY <1>2
  <2> QED BY <2>1, <2>2, <2>4, <2>5, <2>6, <2>7, <2>8, OneGoesOn
<1>9. CasesRestore'
  <2>1. \A n \in notices : n[1] \in Cases /\ case[n[1]].status = "actioned"
    BY DEF DeskInv, TablesOK, CasesRestore
  <2>2. \A n \in notices' : case'[n[1]].status = "actioned"
    BY <1>2, <1>5, <1>6, <2>1
  <2>3. ASSUME NEW s \in Targets, target'[s] \in {"suspended", "unpublished"}
        PROVE  \E d \in Cases : /\ case'[d].target = s /\ case'[d].status = "actioned"
                                /\ s \in Accounts => Notice(d, "restore") \notin notices'
    <3>1. target[s] \in {"suspended", "unpublished"} /\ notices' = notices
      BY <1>2, <2>3
    <3>2. PICK d \in Cases : /\ case[d].target = s /\ case[d].status = "actioned"
                             /\ s \in Accounts => Notice(d, "restore") \notin notices
      BY <3>1 DEF DeskInv, CasesRestore
    <3> QED BY <1>5, <1>6, <3>1, <3>2
  <2> QED BY <2>2, <2>3 DEF CasesRestore, Notice
<1>10. /\ audit'.about = c /\ audit'.after = Being(to)
       /\ audit'.after.status = to /\ audit'.after \notin [case : Cases]
  BY <1>2, BeingIsNoReport
<1>11. AuditIsCurrent'
  BY <1>3, <1>5, <1>10 DEF AuditIsCurrent
<1>12. RecordedAsItWas
  <2>1. audit' = [about |-> c, before |-> Being(case[c].status), after |-> Being(case'[c].status)]
    BY <1>2, <1>5
  <2>2. \E x \in Targets \cup Cases \cup Documents : TellsOf(x)
    BY <1>1, <2>1, CaseIsTold
  <2> QED BY <1>10, <2>2 DEF RecordedAsItWas, ReportsACase
<1>13. audit' # audit
  <2>1. ASSUME audit' = audit
        PROVE  FALSE
    <3>1. audit.about = c /\ audit.after.status = to
      BY <1>10, <2>1
    <3>2. audit.after = Being(case[c].status)
      BY <1>1, <3>1 DEF DeskInv, AuditIsCurrent
    <3> QED BY <1>6, <3>1, <3>2, BeingIsNoReport
  <2> QED BY <2>1
<1> QED BY <1>2, <1>7, <1>8, <1>9, <1>11, <1>12, <1>13 DEF DeskInv, ChangedOnRecord

\* What a change leaves: values of the document, which differ in one field.
LEMMA WithForm ==
    ASSUME NEW d \in Documents, NEW values \in Values(d), NEW change \in Changes(d),
           With(values, change) # values
    PROVE  /\ With(values, change) \in Values(d)
           /\ \E f \in Fields(d) : {g \in Fields(d) : With(values, change)[g] # values[g]} = {f}
<1>1. PICK f \in Fields(d) : change \in [{f} -> Choices]
  BY DEF Changes
<1>2. DOMAIN change = {f} /\ change[f] \in Choices /\ DOMAIN values = Fields(d)
  BY <1>1 DEF Values
<1>3. With(values, change) = [g \in Fields(d) |-> IF g \in {f} THEN change[g] ELSE values[g]]
  BY <1>2 DEF With
<1>4. With(values, change) \in Values(d)
  BY <1>2, <1>3 DEF Values
<1>5. \A g \in Fields(d) : g # f => With(values, change)[g] = values[g]
  BY <1>3
<1>6. With(values, change)[f] # values[f]
  <2>1. ASSUME With(values, change)[f] = values[f]
        PROVE  FALSE
    <3>1. \A g \in Fields(d) : With(values, change)[g] = values[g]
      BY <1>5, <2>1
    <3>2. With(values, change) = values
      BY <1>4, <3>1 DEF Values
    <3> QED BY <3>2
  <2> QED BY <2>1
<1> QED BY <1>4, <1>5, <1>6

\* A flag or a policy takes what its preview has shown.
LEMMA DocumentChanges ==
    ASSUME DeskInv, NEW r \in Decisions, At(r, "set", "commit"),
           NEW d \in Documents, d = reqs[r].document,
           DOMAIN document' = Documents,
           document'[d] = [values |-> Proposed(r), revision |-> document[d].revision + 1],
           \A e \in Documents \ {d} : document'[e] = document[e],
           Ends(r), UNCHANGED <<target, case, notices, decided>>,
           AuditRecord(audit'), audit'.about = d, audit'.after.revision = document'[d].revision
    PROVE  DeskInv' /\ ChangedOnRecord /\ SetAsSeen(d)
<1>1. /\ reqs[r] \in Setting(d) /\ reqs[r].held = {d} /\ reqs[r].seen = document[d]
      /\ With(reqs[r].seen.values, reqs[r].change) # reqs[r].seen.values
  BY SettingForm
<1>2. reqs[r].change \in Changes(d)
  BY <1>1 DEF Setting
<1>3. /\ document[d] \in DocumentVersions(d) /\ document[d].values \in Values(d)
      /\ document[d].revision \in Nat
  BY DEF DeskInv, TablesOK, DocumentVersions
<1>4. Proposed(r) = With(document[d].values, reqs[r].change) /\ Proposed(r) \in Values(d)
  BY <1>1, <1>2, <1>3, WithForm DEF Proposed
<1>5. document'[d] \in DocumentVersions(d)
  BY <1>3, <1>4 DEF DocumentVersions
<1>6. d \notin Targets /\ d \notin Cases
  BY AdminAssumption DEF Targets, Documents
<1>7. TablesOK'
  <2>1. \A e \in Documents : document'[e] \in DocumentVersions(e)
    BY <1>5 DEF DeskInv, TablesOK
  <2> QED BY <2>1 DEF DeskInv, TablesOK, AuditRecord
<1>8. DecisionsStand'
  <2>1. reqs' = [reqs EXCEPT ![r] = Resting]
    BY DEF Ends
  <2>2. Kind(Resting) /\ Stands(Resting, target', case', document') /\ Resting.held = {}
    BY RestingStands
  <2>3. \A q \in Decisions \ {r} : d \notin reqs[q].held
    BY <1>1, HeldByNoOther
  <2>4. \A c \in Cases : case[c].status # "absent" =>
          case'[c].status # "absent" /\ case'[c].target = case[c].target
    OBVIOUS
  <2>5. \A q \in Decisions \ {r} : \A c \in Cases \cap reqs[q].held : case'[c] = case[c]
    OBVIOUS
  <2>6. \A q \in Decisions \ {r} : \A s \in reqs[q].held \ Cases : target'[s] = target[s]
    OBVIOUS
  <2>7. \A q \in Decisions \ {r} : reqs[q].held \cap Resting.held = {}
    BY <2>2
  <2>8. \A e \in Documents :
           \/ document'[e] = document[e]
           \/ /\ \A q \in Decisions \ {r} : e \notin reqs[q].held
              /\ document'[e].revision = document[e].revision + 1
    BY <2>3
  <2> QED BY <2>1, <2>2, <2>4, <2>5, <2>6, <2>7, <2>8, OneGoesOn
<1>9. CasesRestore'
  BY DEF DeskInv, CasesRestore
<1>10. AuditIsCurrent'
  <2>1. document'[d].revision \in Nat
    BY <1>5 DEF DocumentVersions
  <2> QED BY <1>6, <2>1 DEF AuditIsCurrent
<1>11. audit' # audit
  <2>1. ASSUME audit' = audit
        PROVE  FALSE
    <3>1. audit.about = d /\ audit.after.revision = document[d].revision + 1
      BY <2>1
    <3>2. audit.after.revision <= document[d].revision
      BY <3>1 DEF DeskInv, AuditIsCurrent
    <3> QED BY <1>3, <3>1, <3>2
  <2> QED BY <2>1
<1>12. SetAsSeen(d)
  <2>1. reqs'[r] = Resting
    BY DEF Ends, DeskInv, DecisionsStand
  <2>2. document'[d].values = With(reqs[r].seen.values, reqs[r].change)
    BY <1>1, <1>4
  <2> QED BY <1>1, <2>1, <2>2 DEF SetAsSeen
<1> QED BY <1>7, <1>8, <1>9, <1>10, <1>11, <1>12 DEF DeskInv, ChangedOnRecord

\* A version of a document, and the controls of one, are no report.
LEMMA VersionIsNoReport ==
    ASSUME NEW values, NEW revision
    PROVE  [values |-> values, revision |-> revision] \notin [case : Cases]
<1>1. DOMAIN [values |-> values, revision |-> revision] = {"values", "revision"}
  OBVIOUS
<1>2. ASSUME NEW y \in [case : Cases]
      PROVE  DOMAIN y = {"case"}
  OBVIOUS
<1> QED BY <1>1, <1>2

LEMMA FlagIsTold ==
    ASSUME NEW x \in Flags,
           audit' = [about |-> x, before |-> document[x], after |-> document'[x]]
    PROVE  \E y \in Targets \cup Cases \cup Documents : TellsOf(y)
<1>1. x \notin Policies /\ x \notin Targets /\ x \notin Cases /\ x \in Documents
  BY AdminAssumption DEF Targets, Documents
<1>2. ValueOf(x) = document[x] /\ ValueOf(x)' = document'[x]
  BY <1>1 DEF ValueOf
<1>3. TellsOf(x)
  BY <1>1, <1>2 DEF TellsOf
<1> QED BY <1>1, <1>3

LEMMA CommitFlagKeeps ==
    ASSUME DeskInv, NEW r \in Decisions, CommitFlag(r)
    PROVE  /\ DeskInv' /\ RecordedAsItWas /\ ChangedOnRecord
           /\ \A e \in Documents : document'[e] # document[e] => SetAsSeen(e)
<1>1. At(r, "set", "commit") /\ Ends(r) /\ UNCHANGED <<target, case, notices, decided>>
  BY DEF CommitFlag
<1>2. PICK d \in Flags : d = reqs[r].document
  BY DEF CommitFlag
<1>3. /\ document' = [document EXCEPT ![d].values["enabled"] = Proposed(r)["enabled"],
                                      ![d].revision = @ + 1]
      /\ audit' = [about |-> d, before |-> document[d], after |-> document'[d]]
  BY <1>2 DEF CommitFlag, UpdateFlag, Recorded, AuditEvent
<1>4. d \in Documents
  BY DEF Documents
<1>5. /\ DOMAIN document = Documents /\ document[d] \in DocumentVersions(d)
      /\ document[d].values \in Values(d) /\ document[d].revision \in Nat
  BY <1>4 DEF DeskInv, TablesOK, DocumentVersions
<1>6. Fields(d) = {"enabled"}
  BY DEF Fields
<1>7. /\ reqs[r].change \in Changes(d) /\ With(document[d].values, reqs[r].change) # document[d].values
  BY <1>1, <1>2, SettingForm DEF Setting
<1>8. Proposed(r) = With(document[d].values, reqs[r].change) /\ Proposed(r) \in Values(d)
  BY <1>2, <1>4, <1>5, <1>7, WithForm DEF Proposed
<1>9. [document[d].values EXCEPT !["enabled"] = Proposed(r)["enabled"]] = Proposed(r)
  BY <1>5, <1>6, <1>8 DEF Values
<1>10. /\ DOMAIN document' = Documents /\ \A e \in Documents \ {d} : document'[e] = document[e]
       /\ document'[d] = [document[d] EXCEPT
             !.values = [document[d].values EXCEPT !["enabled"] = Proposed(r)["enabled"]],
             !.revision = document[d].revision + 1]
  BY <1>3, <1>4, <1>5
<1>11. document'[d] = [values |-> Proposed(r), revision |-> document[d].revision + 1]
  BY <1>5, <1>9, <1>10 DEF DocumentVersions
<1>12. AuditRecord(audit')
  <2>1. document'[d] \in DocumentVersions(d)
    BY <1>5, <1>8, <1>11 DEF DocumentVersions
  <2>2. audit' \in Told({d}, DocumentVersions(d), DocumentVersions(d))
    BY <1>3, <1>5, <2>1 DEF Told
  <2> QED BY <2>2 DEF AuditRecord
<1>13. audit'.about = d /\ audit'.after = document'[d]
  BY <1>3
<1>14. DeskInv' /\ ChangedOnRecord /\ SetAsSeen(d)
  BY <1>1, <1>2, <1>4, <1>10, <1>11, <1>12, <1>13, DocumentChanges
<1>15. RecordedAsItWas
  <2>1. audit'.after \notin [case : Cases]
    BY <1>11, <1>13, VersionIsNoReport
  <2> QED BY <1>3, <2>1, FlagIsTold DEF RecordedAsItWas, ReportsACase
<1> QED BY <1>10, <1>14, <1>15

LEMMA PolicyIsTold ==
    ASSUME NEW x \in Policies, NEW names \in SUBSET Fields(x),
           audit' = [about |-> x, before |-> Controls(document[x], names),
                     after |-> Controls(document'[x], names)],
           \A f \in Fields(x) : f \in names <=> document[x].values[f] # document'[x].values[f]
    PROVE  \E y \in Targets \cup Cases \cup Documents : TellsOf(y)
<1>1. TellsOf(x)
  BY DEF TellsOf
<1> QED BY <1>1 DEF Documents

LEMMA CommitPolicyKeeps ==
    ASSUME DeskInv, NEW r \in Decisions, CommitPolicy(r)
    PROVE  /\ DeskInv' /\ RecordedAsItWas /\ ChangedOnRecord
           /\ \A e \in Documents : document'[e] # document[e] => SetAsSeen(e)
<1>1. At(r, "set", "commit") /\ Ends(r) /\ UNCHANGED <<target, case, notices, decided>>
  BY DEF CommitPolicy
<1>2. PICK d \in Policies : d = reqs[r].document
  BY DEF CommitPolicy
<1> DEFINE names == {f \in Fields(d) : Proposed(r)[f] # document[d].values[f]}
<1>3. /\ document' = [document EXCEPT ![d] = [values |-> Proposed(r), revision |-> @.revision + 1]]
      /\ audit' = [about |-> d, before |-> Controls(document[d], names),
                   after |-> Controls(document'[d], names)]
  BY <1>2 DEF CommitPolicy, UpdatePolicy, Recorded, AuditEvent
<1>4. d \in Documents
  BY DEF Documents
<1>5. /\ DOMAIN document = Documents /\ document[d] \in DocumentVersions(d)
      /\ document[d].values \in Values(d) /\ document[d].revision \in Nat
  BY <1>4 DEF DeskInv, TablesOK, DocumentVersions
<1>6. d \notin Flags /\ Fields(d) = {"club_limit", "event_limit"}
  BY AdminAssumption DEF Fields
<1>7. /\ reqs[r].change \in Changes(d) /\ With(document[d].values, reqs[r].change) # document[d].values
  BY <1>1, <1>2, SettingForm DEF Setting
<1>8. /\ Proposed(r) = With(document[d].values, reqs[r].change) /\ Proposed(r) \in Values(d)
      /\ \E f \in Fields(d) : names = {f}
  BY <1>2, <1>4, <1>5, <1>7, WithForm DEF Proposed
<1>10. /\ DOMAIN document' = Documents /\ \A e \in Documents \ {d} : document'[e] = document[e]
       /\ document'[d] = [values |-> Proposed(r), revision |-> document[d].revision + 1]
  BY <1>3, <1>4, <1>5
<1>11. \A f \in Fields(d) : f \in names <=> document[d].values[f] # document'[d].values[f]
  BY <1>10
<1>12. names \in SUBSET Fields(d)
  OBVIOUS
<1>13. PICK f \in {"club_limit", "event_limit"} : names = {f}
  BY <1>6, <1>8
<1> HIDE DEF names
<1>14. AuditRecord(audit')
  <2> DEFINE control == [values : [{f} -> Choices], revision : Nat]
  <2>1. \A g \in names : document[d].values[g] \in Choices /\ document'[d].values[g] \in Choices
    BY <1>5, <1>8, <1>10, <1>12 DEF Values
  <2>2. [g \in names |-> document[d].values[g]] \in [{f} -> Choices]
    BY <1>13, <2>1
  <2>3. [g \in names |-> document'[d].values[g]] \in [{f} -> Choices]
    BY <1>13, <2>1
  <2>4. document'[d].revision \in Nat
    BY <1>5, <1>10
  <2>5. Controls(document[d], names) \in control /\ Controls(document'[d], names) \in control
    BY <1>5, <2>2, <2>3, <2>4 DEF Controls
  <2>6. audit' \in Told({d}, control, control)
    BY <1>3, <2>5 DEF Told
  <2> QED BY <2>6 DEF AuditRecord
<1>15. /\ audit'.about = d /\ audit'.after = Controls(document'[d], names)
       /\ audit'.after.revision = document'[d].revision
  BY <1>3 DEF Controls
<1>16. DeskInv' /\ ChangedOnRecord /\ SetAsSeen(d)
  BY <1>1, <1>2, <1>4, <1>10, <1>14, <1>15, DocumentChanges
<1>17. RecordedAsItWas
  <2>1. audit'.after \notin [case : Cases]
    BY <1>15, VersionIsNoReport DEF Controls
  <2>2. \E y \in Targets \cup Cases \cup Documents : TellsOf(y)
    BY <1>3, <1>11, <1>12, PolicyIsTold
  <2> QED BY <2>1, <2>2 DEF RecordedAsItWas, ReportsACase
<1> QED BY <1>10, <1>16, <1>17

-----------------------------------------------------------------------------
(* The theorems. *)
LEMMA DeskInvInit ==
    ASSUME AdminInit
    PROVE  DeskInv
<1>1. \A d \in Documents : document[d] \in DocumentVersions(d)
  BY DEF AdminInit, DocumentVersions, Values, Choices
<1>2. \A t \in EventPages : t \notin Accounts /\ t \in Targets
  BY AdminAssumption DEF Targets
<1>3. TablesOK
  <2>1. target \in [Targets -> TargetStatuses]
    BY DEF AdminInit, TargetStatuses
  <2>2. case \in [Cases -> [status : CaseStatuses, target : Targets \cup {Nothing}]]
    BY DEF AdminInit, CaseStatuses
  <2>3. \A t \in Accounts : target[t] = "active"
    BY DEF AdminInit, Targets
  <2>4. \A t \in EventPages : target[t] # "unpublished"
    BY <1>2 DEF AdminInit
  <2>5. decided \in 0..MaxDecisions
    BY AdminAssumption DEF AdminInit
  <2>6. \A c \in Cases : case[c].status = "absent" <=> case[c].target = Nothing
    BY DEF AdminInit
  <2>7. DOMAIN document = Documents /\ notices \subseteq Cases \X Actions /\ audit = NoRecord
    BY DEF AdminInit
  <2> QED BY <1>1, <2>1, <2>2, <2>3, <2>4, <2>5, <2>6, <2>7 DEF TablesOK
<1>4. DecisionsStand
  <2>1. \A r \in Decisions : reqs[r] = Resting
    BY DEF AdminInit
  <2>2. DOMAIN reqs = Decisions
    BY DEF AdminInit
  <2> QED BY <2>1, <2>2, RestingStands DEF DecisionsStand
<1>5. CasesRestore
  BY DEF AdminInit, CasesRestore
<1>6. AuditIsCurrent
  <2>1. audit.about = Nothing
    BY DEF AdminInit, NoRecord
  <2> QED BY <2>1, AdminAssumption DEF AuditIsCurrent, Targets, Documents
<1> QED BY <1>3, <1>4, <1>5, <1>6 DEF DeskInv

\* What may be said of every step.
StepIsTold ==
    /\ RecordedAsItWas /\ ChangedOnRecord
    /\ \A d \in Documents : document'[d] # document[d] => SetAsSeen(d)

LEMMA QuietIsTold ==
    ASSUME UNCHANGED <<case, document, audit>>
    PROVE  StepIsTold
BY DEF StepIsTold, RecordedAsItWas, ChangedOnRecord

LEMMA DecisionStep ==
    ASSUME DeskInv, NEW r \in Decisions,
           \/ BeginAct(r) \/ BeginWorkflow(r)
           \/ BeginFlagUpdate(r) \/ BeginPolicyUpdate(r)
           \/ LockCase(r) \/ LockTarget(r) \/ CommitAct(r)
           \/ LockWorkflow(r) \/ CommitWorkflow(r)
           \/ LockFlag(r) \/ CommitFlag(r)
           \/ LockPolicy(r) \/ CommitPolicy(r)
    PROVE  DeskInv' /\ StepIsTold
<1>1. CASE BeginAct(r)
  BY <1>1, BeginActKeeps, QuietIsTold DEF BeginAct, Begins
<1>2. CASE BeginWorkflow(r)
  BY <1>2, BeginWorkflowKeeps, QuietIsTold DEF BeginWorkflow, Begins
<1>3. CASE BeginFlagUpdate(r)
  <2>1. PICK d \in Flags : MayDecide(r) /\ BeginsToSet(r, d)
    BY <1>3 DEF BeginFlagUpdate
  <2>2. d \in Documents
    BY DEF Documents
  <2>3. UNCHANGED <<case, document, audit>>
    BY <2>1 DEF BeginsToSet, Begins
  <2> QED BY <2>1, <2>2, <2>3, BeginToSetKeeps, QuietIsTold
<1>4. CASE BeginPolicyUpdate(r)
  <2>1. PICK d \in Policies : MayDecide(r) /\ BeginsToSet(r, d)
    BY <1>4 DEF BeginPolicyUpdate
  <2>2. d \in Documents
    BY DEF Documents
  <2>3. UNCHANGED <<case, document, audit>>
    BY <2>1 DEF BeginsToSet, Begins
  <2> QED BY <2>1, <2>2, <2>3, BeginToSetKeeps, QuietIsTold
<1>5. CASE LockCase(r)
  BY <1>5, LockCaseKeeps, QuietIsTold DEF LockCase
<1>6. CASE LockTarget(r)
  BY <1>6, LockTargetKeeps, QuietIsTold DEF LockTarget
<1>7. CASE CommitAct(r)
  BY <1>7, CommitActKeeps DEF StepIsTold
<1>8. CASE LockWorkflow(r)
  BY <1>8, LockWorkflowKeeps, QuietIsTold DEF LockWorkflow
<1>9. CASE CommitWorkflow(r)
  BY <1>9, CommitWorkflowKeeps DEF StepIsTold
<1>10. CASE LockFlag(r)
  <2>1. At(r, "set", "document") /\ Unheld(reqs[r].document, r)
    BY <1>10 DEF LockFlag
  <2>2. UNCHANGED <<target, case, document, notices, audit, decided>>
    BY <1>10 DEF LockFlag
  <2>3. IF Settable(r) THEN Holding(r, "commit", {reqs[r].document}) ELSE Ends(r)
    BY <1>10 DEF LockFlag, FlagLocked
  <2> QED BY <2>1, <2>2, <2>3, DocumentLockKeeps, QuietIsTold
<1>11. CASE CommitFlag(r)
  BY <1>11, CommitFlagKeeps DEF StepIsTold
<1>12. CASE LockPolicy(r)
  <2>1. At(r, "set", "document") /\ Unheld(reqs[r].document, r)
    BY <1>12 DEF LockPolicy
  <2>2. UNCHANGED <<target, case, document, notices, audit, decided>>
    BY <1>12 DEF LockPolicy
  <2>3. IF Settable(r) THEN Holding(r, "commit", {reqs[r].document}) ELSE Ends(r)
    BY <1>12 DEF LockPolicy, PolicyLocked
  <2> QED BY <2>1, <2>2, <2>3, DocumentLockKeeps, QuietIsTold
<1>13. CASE CommitPolicy(r)
  BY <1>13, CommitPolicyKeeps DEF StepIsTold
<1> QED BY <1>1, <1>2, <1>3, <1>4, <1>5, <1>6, <1>7, <1>8, <1>9, <1>10, <1>11, <1>12, <1>13

LEMMA DeskInvNext ==
    ASSUME DeskInv, [AdminNext]_adminVars
    PROVE  DeskInv' /\ [StepIsTold]_adminVars
<1>1. ASSUME NEW c \in Cases, NEW t \in Targets, SubmitReport(c, t)
      PROVE  DeskInv' /\ StepIsTold
  <2>1. document' = document
    BY <1>1 DEF SubmitReport
  <2> QED BY <1>1, <2>1, SubmitReportKeeps DEF StepIsTold
<1>2. ASSUME NEW t \in Targets, OwnerActs(t)
      PROVE  DeskInv' /\ StepIsTold
  BY <1>2, OwnerActsKeeps, QuietIsTold DEF OwnerActs
<1>3. CASE AdminNext
  BY <1>1, <1>2, <1>3, DecisionStep DEF AdminNext
<1>4. CASE UNCHANGED adminVars
  <2>1. DecisionsStand'
    BY <1>4 DEF DeskInv, DecisionsStand, adminVars
  <2>2. UNCHANGED <<target, case, document, notices, audit>> /\ decided' \in 0..MaxDecisions
    BY <1>4 DEF DeskInv, TablesOK, adminVars
  <2> QED BY <1>4, <2>1, <2>2, DecisionMoves
<1> QED BY <1>3, <1>4

\* What a decision has found under its locks is so until it commits.
THEOREM AdminInvariant == AdminSpec => []DeskInv
<1>1. AdminInit => DeskInv
  BY DeskInvInit
<1>2. DeskInv /\ [AdminNext]_adminVars => DeskInv'
  BY DeskInvNext
<1> QED BY <1>1, <1>2, PTL DEF AdminSpec

\* Cases, targets and documents keep their types.
THEOREM AdminTypeCorrect == AdminSpec => []AdminTypeOK
<1>1. DeskInv => AdminTypeOK
  BY DeskInvImplies
<1> QED BY <1>1, AdminInvariant, PTL

\* Whatever a moderator has stopped, some case still offers to restore.
THEOREM EndlessStops == AdminSpec => []StoppedCanBeRestored
<1>1. DeskInv => StoppedCanBeRestored
  BY DeskInvImplies
<1> QED BY <1>1, AdminInvariant, PTL

\* Every record tells what its decision replaced, and nothing changes without one.
THEOREM TruthfulAudit == AdminSpec => AuditTellsTheTruth
<1>1. ASSUME DeskInv, [AdminNext]_adminVars
      PROVE  [RecordedAsItWas /\ ChangedOnRecord]_adminVars
  BY <1>1, DeskInvNext DEF StepIsTold
<1> QED BY <1>1, AdminInvariant, PTL DEF AdminSpec, AuditTellsTheTruth

\* A flag or a policy changes only as its administrator has seen it change.
THEOREM SeenBeforeSet == AdminSpec => PreviewTakesEffect
<1>1. ASSUME DeskInv, [AdminNext]_adminVars
      PROVE  [\A d \in Documents : document'[d] # document[d] => SetAsSeen(d)]_adminVars
  BY <1>1, DeskInvNext DEF StepIsTold
<1> QED BY <1>1, AdminInvariant, PTL DEF AdminSpec, PreviewTakesEffect

=============================================================================
