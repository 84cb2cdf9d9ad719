---------------------------- MODULE ClubMembership ----------------------------
(***************************************************************************)
(* Clubs, their memberships, join requests and announcements.  Every       *)
(* operation on a club locks the row of the club first and is one step     *)
(* here.  Creating a club and handing it over take more steps: each counts *)
(* the clubs of the new owner under a lock on that user's row, and only    *)
(* that lock makes the count and the write one decision.                   *)
(*                                                                         *)
(* Left out: the notification that follows every membership step, the      *)
(* revision an edit must name, which EventPublishing models for events,    *)
(* the normalisation of text, and the message of a join request.           *)
(***************************************************************************)
EXTENDS Integers, FiniteSets

CONSTANTS
    Users,
    Clubs,
    Connections,  \* database sessions that a user's requests may have
    Posts,        \* announcements, by their deduplication key
    ClubLimit,    \* club_limit of the regional policy
    MaxEntries,   \* bound: joins and join requests
    MaxEdits,     \* bound: edits of club profiles and announcements
    MaxRulings    \* bound: actions of moderators, deletions of accounts

VARIABLES
    club,     \* clubs: status, owner, membership policy, required fields
    role,     \* club_memberships
    request,  \* the latest of club_join_requests, for every club and user
    post,     \* announcements and announcement_recipients
    standing, \* status of the users
    tx,       \* transactions that are creating or handing over a club
    used      \* how much of each bound is used

clubVars == <<club, role, request, post, standing, tx, used>>

NoOne == "nobody"

ASSUME ClubAssumption ==
    /\ {ClubLimit, MaxEntries, MaxEdits, MaxRulings} \subseteq Nat
    /\ IsFiniteSet(Clubs)
    /\ NoOne \notin Users

Statuses == {"absent", "draft", "published", "unpublished", "suspended", "closed"}

Club == [status : Statuses, owner : Users \cup {NoOne}, open : BOOLEAN, complete : BOOLEAN]

NoClub == [status |-> "absent", owner |-> NoOne, open |-> FALSE, complete |-> FALSE]

Roles == {"none", "member", "admin", "owner"}

RequestStatuses == {"none", "pending", "approved", "rejected", "cancelled"}

Audiences == {"all_members", "admins"}

Unpublished == [author |-> NoOne]

Announcement == [author : Users, club : Clubs, audience : Audiences, to : SUBSET Users]

\* user is the one who will own the club.
Idle == [stage |-> "idle"]

Transaction ==
    {Idle} \cup [stage : {"authenticated", "creating"}, user : Users]
           \cup [stage : {"transfer", "transferring"}, user : Users, club : Clubs]

Stopped(c) == club[c].status \in {"suspended", "closed"}

ClubTypeOK ==
    /\ club \in [Clubs -> Club]
    /\ role \in [Clubs -> [Users -> Roles]]
    /\ request \in [Clubs -> [Users -> RequestStatuses]]
    /\ post \in [Posts -> Announcement \cup {Unpublished}]
    /\ standing \in [Users -> {"active", "suspended", "deleted"}]
    /\ tx \in [Connections -> Transaction]
    /\ used \in [entries : 0..MaxEntries, edits : 0..MaxEdits, rulings : 0..MaxRulings]

ClubInit ==
    /\ club = [c \in Clubs |-> NoClub]
    /\ role = [c \in Clubs |-> [u \in Users |-> "none"]]
    /\ request = [c \in Clubs |-> [u \in Users |-> "none"]]
    /\ post = [p \in Posts |-> Unpublished]
    /\ standing = [u \in Users |-> "active"]
    /\ tx = [x \in Connections |-> Idle]
    /\ used = [entries |-> 0, edits |-> 0, rulings |-> 0]

-----------------------------------------------------------------------------
(***************************************************************************)
(* Row locks, who may do what, and the limit of an owner.                  *)
(***************************************************************************)
\* Mutant: the row of the club is read without FOR UPDATE.
ClubNeverLocked(c) == FALSE

ClubLocked(c) ==
    \E x \in Connections : tx[x].stage \in {"transfer", "transferring"} /\ tx[x].club = c

\* Mutant: the row of the new owner is read without FOR UPDATE.
UserNeverLocked(u) == FALSE

UserLocked(u) ==
    \E x \in Connections : tx[x].stage \in {"creating", "transferring"} /\ tx[x].user = u

\* ClubRepository.get: a club that is closed is still found.
Found(c) == club[c] # NoClub

\* get_access: the role of u in the club, if there is one.
AccessTo(c, u) == IF role[c][u] = "none" THEN {} ELSE {role[c][u]}

IsManager(u, c) == u = club[c].owner \/ AccessTo(c, u) \cap {"owner", "admin"} # {}

\* get_membership.
HasMembership(c, u) == role[c][u] # "none"

\* Every operation of u on c waits for the lock of the club.
At(u, c) ==
    /\ Found(c)
    /\ ~ClubLocked(c)
    /\ standing[u] = "active"

\* can_edit_club and can_manage_members.
Manages(u, c) == At(u, c) /\ ~Stopped(c) /\ IsManager(u, c)

\* _require_owner.
Owns(u, c) == At(u, c) /\ ~Stopped(c) /\ club[c].owner = u

OwnedClubs(u) == {c \in Clubs : club[c].owner = u /\ club[c].status # "closed"}

MayOwnOneMore(u) == Cardinality(OwnedClubs(u)) < ClubLimit

-----------------------------------------------------------------------------
(***************************************************************************)
(* ClubService.                                                            *)
(***************************************************************************)
\* The session is read first; the status found there is used to the end.
RequestCreate(x, u) ==
    /\ tx[x] = Idle
    /\ standing[u] = "active"
    /\ tx' = [tx EXCEPT ![x] = [stage |-> "authenticated", user |-> u]]
    /\ UNCHANGED <<club, role, request, post, standing, used>>

\* lock_owner_creation, then the evaluation of the limit.
LockOwnerCreation(x) ==
    /\ tx[x].stage = "authenticated"
    /\ ~UserLocked(tx[x].user)
    /\ tx' = [tx EXCEPT ![x] =
         IF MayOwnOneMore(@.user) THEN [@ EXCEPT !.stage = "creating"] ELSE Idle]
    /\ UNCHANGED <<club, role, request, post, standing, used>>

\* A club with a complete profile is published at once.
NewClub(owner, open, complete) ==
    [status |-> IF complete THEN "published" ELSE "draft",
     owner |-> owner, open |-> open, complete |-> complete]

CreateClub(x, c, open, complete) ==
    /\ tx[x].stage = "creating"
    /\ club[c] = NoClub
    /\ club' = [club EXCEPT ![c] = NewClub(tx[x].user, open, complete)]
    /\ role' = [role EXCEPT ![c][tx[x].user] = "owner"]
    /\ tx' = [tx EXCEPT ![x] = Idle]
    /\ UNCHANGED <<request, post, standing, used>>

\* What is not a draft may not lose a required field.
KeepsPublicProfile(c, complete) == club[c].status # "draft" => complete

\* An edit that empties a required field has an incomplete profile to offer.
Patched(row, open, complete) == [row EXCEPT !.open = open, !.complete = complete]

\* The row after an edit; the edit that completes a draft publishes it.
EditedClub(c, open, complete) ==
    [Patched(club[c], open, complete) EXCEPT
        !.status = IF @ = "draft" /\ complete THEN "published" ELSE @]

UpdateClub(u, c, open, complete) ==
    /\ Manages(u, c)
    /\ used.edits < MaxEdits
    /\ KeepsPublicProfile(c, complete)
    /\ club' = [club EXCEPT ![c] = EditedClub(c, open, complete)]
    /\ used' = [used EXCEPT !.edits = @ + 1]
    /\ UNCHANGED <<role, request, post, standing, tx>>

-----------------------------------------------------------------------------
(***************************************************************************)
(* MembershipService.                                                      *)
(***************************************************************************)
\* add_member does nothing for somebody who is a member by now.
AddMember(c, u) == [role EXCEPT ![c][u] = IF @ = "none" THEN "member" ELSE @]
SetRole(c, u, new) == [role EXCEPT ![c][u] = new]
RemoveMembership(c, u) == [role EXCEPT ![c][u] = "none"]

CreatePendingRequest(c, u) == [request EXCEPT ![c][u] = "pending"]
CancelPendingRequest(c, u) == [request EXCEPT ![c][u] = "cancelled"]
DecideRequest(c, u, answer) == [request EXCEPT ![c][u] = answer]

Joinable(c) == club[c].status = "published"

\* An open club takes the user at once; a request that waits from a time
\* when the club was not open stays where it is.
JoinOpen(u, c) ==
    /\ At(u, c)
    /\ Joinable(c)
    /\ ~HasMembership(c, u)
    /\ club[c].open
    /\ used.entries < MaxEntries
    /\ role' = AddMember(c, u)
    /\ used' = [used EXCEPT !.entries = @ + 1]
    /\ UNCHANGED <<club, request, post, standing, tx>>

\* create_or_get_pending_request.
AskToJoin(u, c) ==
    /\ At(u, c)
    /\ Joinable(c)
    /\ ~HasMembership(c, u)
    /\ ~club[c].open
    /\ request[c][u] # "pending"
    /\ used.entries < MaxEntries
    /\ request' = CreatePendingRequest(c, u)
    /\ used' = [used EXCEPT !.entries = @ + 1]
    /\ UNCHANGED <<club, role, post, standing, tx>>

\* Mutant: the owner may leave like everybody else.
FreeToLeaveAlways(u, c) == TRUE

FreeToLeave(u, c) == role[c][u] # "owner" /\ club[c].owner # u

Leave(u, c) ==
    /\ At(u, c)
    /\ ~Stopped(c)
    /\ IF ~HasMembership(c, u)
       THEN /\ request[c][u] = "pending"
            /\ request' = CancelPendingRequest(c, u)
            /\ UNCHANGED role
       ELSE /\ FreeToLeave(u, c)
            /\ role' = RemoveMembership(c, u)
            /\ UNCHANGED request
    /\ UNCHANGED <<club, post, standing, tx, used>>

\* Mutant: whatever the member has done with the request, it can be decided.
AwaitsDecisionStill(c, u) == request[c][u] # "none"

AwaitsDecision(c, u) == request[c][u] = "pending"

Approve(m, c, u) ==
    /\ Manages(m, c)
    /\ AwaitsDecision(c, u)
    /\ role' = AddMember(c, u)
    /\ request' = DecideRequest(c, u, "approved")
    /\ UNCHANGED <<club, post, standing, tx, used>>

Reject(m, c, u) ==
    /\ Manages(m, c)
    /\ AwaitsDecision(c, u)
    /\ request' = DecideRequest(c, u, "rejected")
    /\ UNCHANGED <<club, role, post, standing, tx, used>>

ChangeRole(o, c, u, new) ==
    /\ Owns(o, c)
    /\ role[c][u] \in {"member", "admin"} \ {new}
    /\ role' = SetRole(c, u, new)
    /\ UNCHANGED <<club, request, post, standing, tx, used>>

\* The club and both memberships are locked and checked.
BeginTransfer(x, o, c, u) ==
    /\ tx[x] = Idle
    /\ Owns(o, c)
    /\ role[c][o] = "owner"
    /\ u # o /\ HasMembership(c, u)
    /\ tx' = [tx EXCEPT ![x] = [stage |-> "transfer", user |-> u, club |-> c]]
    /\ UNCHANGED <<club, role, request, post, standing, used>>

\* transfer_candidate locks the row of the new owner and reads its status.
LockCandidate(x) ==
    /\ tx[x].stage = "transfer"
    /\ ~UserLocked(tx[x].user)
    /\ tx' = [tx EXCEPT ![x] =
         IF standing[@.user] = "active" /\ MayOwnOneMore(@.user)
         THEN [@ EXCEPT !.stage = "transferring"] ELSE Idle]
    /\ UNCHANGED <<club, role, request, post, standing, used>>

\* The former owner stays as an ordinary member.
TransferOwnership(x) ==
    /\ tx[x].stage = "transferring"
    /\ LET c == tx[x].club
           u == tx[x].user
       IN /\ role' = [role EXCEPT ![c][club[c].owner] = "member", ![c][u] = "owner"]
          /\ club' = [club EXCEPT ![c].owner = u]
    /\ tx' = [tx EXCEPT ![x] = Idle]
    /\ UNCHANGED <<request, post, standing, used>>

\* The connection is lost and PostgreSQL rolls the transaction back.
Abort(x) ==
    /\ tx[x] # Idle
    /\ tx' = [tx EXCEPT ![x] = Idle]
    /\ UNCHANGED <<club, role, request, post, standing, used>>

CloseClub(o, c) ==
    /\ Owns(o, c)
    /\ club' = [club EXCEPT ![c].status = "closed"]
    /\ UNCHANGED <<role, request, post, standing, tx, used>>

-----------------------------------------------------------------------------
(***************************************************************************)
(* Announcements: insert or compare by key, then a snapshot of the         *)
(* audience, which a retry with the same key extends by those who have     *)
(* joined it since.                                                        *)
(***************************************************************************)
Audience(c, audience) ==
    {u \in Users : role[c][u] \in
        IF audience = "admins" THEN {"owner", "admin"} ELSE Roles \ {"none"}}

\* ON CONFLICT DO NOTHING: who is on the list already stays on it, once.
Snapshot(p, recipients) == recipients \cup (IF post[p] = Unpublished THEN {} ELSE post[p].to)

\* create_club_announcement: the row, or the one that the key already has,
\* which must be the same announcement.
SameOrNew(p, m, c, audience) ==
    post[p] # Unpublished =>
        post[p].author = m /\ post[p].club = c /\ post[p].audience = audience

Announced(p, m, c, audience) ==
    [author |-> m, club |-> c, audience |-> audience, to |-> Snapshot(p, Audience(c, audience))]

Announce(m, c, p, audience) ==
    /\ Manages(m, c)
    /\ used.edits < MaxEdits
    /\ SameOrNew(p, m, c, audience)
    /\ post' = [post EXCEPT ![p] = Announced(p, m, c, audience)]
    /\ used' = [used EXCEPT !.edits = @ + 1]
    /\ UNCHANGED <<club, role, request, standing, tx>>

-----------------------------------------------------------------------------
(***************************************************************************)
(* Moderators and the retention job; their updates wait for the same rows. *)
(***************************************************************************)
RuleOnClub(c, status) ==
    /\ ~ClubLocked(c)
    /\ used.rulings < MaxRulings
    /\ \/ status \in {"suspended", "unpublished"} /\ club[c].status = "published"
       \/ status = "published" /\ club[c].status \in {"suspended", "unpublished"}
    /\ club' = [club EXCEPT ![c].status = status]
    /\ used' = [used EXCEPT !.rulings = @ + 1]
    /\ UNCHANGED <<role, request, post, standing, tx>>

\* Suspension, restoration, and the deletion of an account that was asked
\* for thirty days ago.  None of them looks at the clubs of the user.
RuleOnUser(u, status) ==
    /\ ~UserLocked(u)
    /\ used.rulings < MaxRulings
    /\ \/ status \in {"suspended", "deleted"} /\ standing[u] = "active"
       \/ status = "active" /\ standing[u] = "suspended"
    /\ standing' = [standing EXCEPT ![u] = status]
    /\ used' = [used EXCEPT !.rulings = @ + 1]
    /\ UNCHANGED <<club, role, request, post, tx>>

OwnershipStep(x) ==
    \/ LockOwnerCreation(x) \/ LockCandidate(x) \/ TransferOwnership(x) \/ Abort(x)
    \/ \E u \in Users :
        \/ RequestCreate(x, u)
        \/ \E c \in Clubs, o \in Users : BeginTransfer(x, o, c, u)
    \/ \E c \in Clubs, open, complete \in BOOLEAN : CreateClub(x, c, open, complete)

ClubOperation(u, c) ==
    \/ \E open, complete \in BOOLEAN : UpdateClub(u, c, open, complete)
    \/ JoinOpen(u, c) \/ AskToJoin(u, c) \/ Leave(u, c)
    \/ \E other \in Users :
        \/ Approve(u, c, other) \/ Reject(u, c, other)
        \/ \E new \in {"member", "admin"} : ChangeRole(u, c, other, new)
    \/ CloseClub(u, c)
    \/ \E p \in Posts, audience \in Audiences : Announce(u, c, p, audience)

Ruling ==
    \/ \E u \in Users, status \in {"active", "suspended", "deleted"} : RuleOnUser(u, status)
    \/ \E c \in Clubs, status \in {"published", "unpublished", "suspended"} : RuleOnClub(c, status)

ClubNext ==
    \/ \E x \in Connections : OwnershipStep(x)
    \/ \E u \in Users, c \in Clubs : ClubOperation(u, c)
    \/ Ruling

ClubSpec == ClubInit /\ [][ClubNext]_clubVars

-----------------------------------------------------------------------------
\* A club has exactly one owner, and the club row and the membership rows
\* agree on who that is, while members leave, roles change and the club is
\* handed over.
OneOwner ==
    \A c \in Clubs : club[c] # NoClub =>
        {u \in Users : role[c][u] = "owner"} = {club[c].owner}

\* Nobody comes to own more clubs than the policy allows: by creating two at
\* once, or by being handed one while creating another.
WithinLimit == \A u \in Users : Cardinality(OwnedClubs(u)) <= ClubLimit

\* A club is published exactly when its profile has become complete, also
\* through edits of an unpublished club that a moderator restores later; and
\* nobody gets into a draft.
ProfileDecidesPublication ==
    \A c \in Clubs :
        /\ club[c].status \in {"published", "unpublished", "suspended"} => club[c].complete
        /\ club[c].status = "draft" =>
            ~club[c].complete /\ \A u \in Users : role[c][u] \in {"none", "owner"}

\* The club of a transfer in progress stays what it was when it was checked.
TransferStands ==
    \A x \in Connections : tx[x].stage \in {"transfer", "transferring"} =>
        ~Stopped(tx[x].club) /\ role[tx[x].club][tx[x].user] \in {"member", "admin"}

\* What has been checked under the lock of a club stays true while a transfer
\* holds it, and the public profile decides what a club may be.
ClubInv == ClubTypeOK /\ TransferStands /\ ProfileDecidesPublication

\* Nothing happens in a club that is suspended or closed, not even the end
\* of a transfer that began before; and a closed club stays closed.
StoppedClubStep ==
    \A c \in Clubs : Stopped(c) =>
        /\ role'[c] = role[c]
        /\ request'[c] = request[c]
        /\ club'[c] = [club[c] EXCEPT !.status = club'[c].status]
        /\ club[c].status = "closed" => club'[c].status = "closed"
        /\ \A p \in Posts : post'[p] # post[p] => post'[p].club # c

\* A request is decided once, and an answer to it is an answer to what the
\* member still wants: nobody is made a member of a club that is not open
\* through a request that has been withdrawn, rejected or used up.
RequestStep ==
    \A c \in Clubs, u \in Users :
        /\ request'[c][u] # request[c][u] =>
            request[c][u] = "pending" \/ request'[c][u] = "pending"
        /\ role[c][u] = "none" /\ role'[c][u] = "member" =>
            club[c].open \/ (request[c][u] = "pending" /\ request'[c][u] = "approved")

\* Members come and go by the book, in clubs that are open to it.
MembershipsByTheBook == [][StoppedClubStep /\ RequestStep]_clubVars

=============================================================================
