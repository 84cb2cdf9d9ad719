------------------------ MODULE ClubMembershipProofs ------------------------
(***************************************************************************)
(* Theorems about clubs, for every set of users, clubs and connections and *)
(* every bound: a club has one owner, an owner has no more clubs than the  *)
(* policy allows, and what a transfer has checked stays true.              *)
(***************************************************************************)
EXTENDS ClubMembership, FiniteSetTheorems, TLAPS

\* The transaction t has locked the row of the club c, or of the user u who
\* will own one more.
HoldsClub(t, c) == t.stage \in {"transfer", "transferring"} /\ t.club = c

HoldsUser(t, u) == t.stage \in {"creating", "transferring"} /\ t.user = u

\* A row has one lock.
LocksAreExclusive ==
    /\ \A x, y \in Connections, c \in Clubs :
        HoldsClub(tx[x], c) /\ HoldsClub(tx[y], c) => x = y
    /\ \A x, y \in Connections, u \in Users :
        HoldsUser(tx[x], u) /\ HoldsUser(tx[y], u) => x = y

\* The limit that was evaluated under the lock of the new owner still leaves
\* him room for one more club.
RoomStands == \A x \in Connections, u \in Users : HoldsUser(tx[x], u) => MayOwnOneMore(u)

\* Nothing refers to a club that is not there; one that is there has an owner.
RowsOfClubs ==
    \A c \in Clubs :
        IF club[c] = NoClub
        THEN \A u \in Users : role[c][u] = "none" /\ request[c][u] = "none"
        ELSE club[c].status # "absent" /\ club[c].owner \in Users

\* Nobody has asked to join a draft.
DraftsAreUnasked ==
    \A c \in Clubs : club[c].status = "draft" => \A u \in Users : request[c][u] = "none"

\* The inductive invariant.
IndInv ==
    /\ ClubTypeOK
    /\ RowsOfClubs
    /\ DraftsAreUnasked
    /\ LocksAreExclusive
    /\ TransferStands
    /\ RoomStands
    /\ ProfileDecidesPublication
    /\ OneOwner
    /\ WithinLimit

-----------------------------------------------------------------------------
(***************************************************************************)
(* What the actions do to the rows.                                        *)
(***************************************************************************)
\* The transaction of x takes a step and no row changes.
Proceeds(x, t) ==
    /\ t \in Transaction
    /\ tx' = [tx EXCEPT ![x] = t]
    /\ UNCHANGED <<club, role, request>>
    /\ \A c \in Clubs : HoldsClub(t, c) =>
        /\ \A y \in Connections \ {x} : ~HoldsClub(tx[y], c)
        /\ ~Stopped(c) /\ role[c][t.user] \in {"member", "admin"}
    /\ \A u \in Users : HoldsUser(t, u) =>
        /\ \A y \in Connections \ {x} : ~HoldsUser(tx[y], u)
        /\ MayOwnOneMore(u)

\* Members of the club c come, go, ask or change their role.
MembersChange(c, members, requests) ==
    /\ ~ClubLocked(c) /\ club[c] # NoClub /\ club[c].status # "draft"
    /\ members \in [Users -> Roles] /\ requests \in [Users -> RequestStatuses]
    /\ \A u \in Users : members[u] = "owner" <=> role[c][u] = "owner"
    /\ role' = [role EXCEPT ![c] = members]
    /\ request' = [request EXCEPT ![c] = requests]
    /\ UNCHANGED <<club, tx>>

\* The row of the club c changes under the same owner.
RowChanges(c, row) ==
    /\ ~ClubLocked(c) /\ club[c] # NoClub
    /\ row \in Club /\ row.owner = club[c].owner /\ row.status # "absent"
    /\ row.status = "draft" => club[c].status = "draft" /\ ~row.complete
    /\ row.status \in {"published", "unpublished", "suspended"} => row.complete
    /\ club[c].status = "closed" => row.status = "closed"
    /\ club' = [club EXCEPT ![c] = row]
    /\ UNCHANGED <<role, request, tx>>

LEMMA TransactionShape ==
    ASSUME NEW t \in Transaction
    PROVE  /\ t.stage \in {"idle", "authenticated", "creating", "transfer", "transferring"}
           /\ t = Idle <=> t.stage = "idle"
           /\ t.stage # "idle" => t.user \in Users
           /\ t.stage \in {"transfer", "transferring"} => t.club \in Clubs
BY DEF Transaction, Idle

LEMMA OwnershipForms ==
    ASSUME IndInv, NEW x \in Connections, OwnershipStep(x)
    PROVE  \/ \E t \in Transaction : Proceeds(x, t)
           \/ \E c \in Clubs, open, complete \in BOOLEAN : CreateClub(x, c, open, complete)
           \/ TransferOwnership(x)
<1> USE DEF IndInv, ClubTypeOK
<1>1. tx[x] \in Transaction
  OBVIOUS
<1>2. ASSUME NEW u \in Users, RequestCreate(x, u) PROVE \E t \in Transaction : Proceeds(x, t)
  <2> DEFINE t == [stage |-> "authenticated", user |-> u]
  <2>1. t \in Transaction
    BY DEF Transaction
  <2>2. Proceeds(x, t)
    BY <1>2, <2>1 DEF RequestCreate, Proceeds, HoldsClub, HoldsUser
  <2> QED BY <2>1, <2>2
<1>3. ASSUME LockOwnerCreation(x) PROVE \E t \in Transaction : Proceeds(x, t)
  <2> DEFINE t == IF MayOwnOneMore(tx[x].user) THEN [tx[x] EXCEPT !.stage = "creating"] ELSE Idle
  <2>1. tx[x].stage = "authenticated" /\ tx[x].user \in Users /\ ~UserLocked(tx[x].user)
    BY <1>1, <1>3, TransactionShape DEF LockOwnerCreation
  <2>2. t \in Transaction
    BY <1>1, <2>1 DEF Transaction, Idle
  <2>3. \A c \in Clubs : ~HoldsClub(t, c)
    BY <1>1, <2>1 DEF HoldsClub, Transaction, Idle
  <2>4. \A u \in Users : HoldsUser(t, u) => u = tx[x].user /\ MayOwnOneMore(u)
    BY <1>1, <2>1 DEF HoldsUser, Transaction, Idle
  <2>5. tx' = [tx EXCEPT ![x] = t] /\ UNCHANGED <<club, role, request>>
    BY <1>3 DEF LockOwnerCreation
  <2>6. \A y \in Connections : ~HoldsUser(tx[y], tx[x].user)
    BY <2>1 DEF UserLocked, HoldsUser
  <2>7. Proceeds(x, t)
    <3> HIDE DEF t
    <3> QED BY <2>2, <2>3, <2>4, <2>5, <2>6 DEF Proceeds
  <2> QED BY <2>2, <2>7
<1>4. ASSUME NEW c \in Clubs, NEW o \in Users, NEW u \in Users, BeginTransfer(x, o, c, u)
      PROVE  \E t \in Transaction : Proceeds(x, t)
  <2> DEFINE t == [stage |-> "transfer", user |-> u, club |-> c]
  <2>1. t \in Transaction
    BY DEF Transaction
  <2>2. tx' = [tx EXCEPT ![x] = t] /\ UNCHANGED <<club, role, request>>
    BY <1>4 DEF BeginTransfer
  <2>3. ~ClubLocked(c) /\ ~Stopped(c)
    BY <1>4 DEF BeginTransfer, Owns, At
  <2>4. role[c][u] \in {"member", "admin"}
    <3>1. role[c][u] \in Roles /\ role[c][u] # "none"
      BY <1>4 DEF BeginTransfer, HasMembership
    <3>2. role[c][o] = "owner" /\ u # o /\ club[c] # NoClub
      BY <1>4 DEF BeginTransfer, Owns, At, Found
    <3>3. role[c][u] # "owner"
      BY <3>2 DEF OneOwner
    <3> QED BY <3>1, <3>3 DEF Roles
  <2>5. \A d \in Clubs : HoldsClub(t, d) => d = c
    BY DEF HoldsClub
  <2>6. \A v \in Users : ~HoldsUser(t, v)
    BY DEF HoldsUser
  <2>7. t.user = u /\ \A y \in Connections : ~HoldsClub(tx[y], c)
    BY <2>3 DEF ClubLocked, HoldsClub
  <2>8. Proceeds(x, t)
    <3> HIDE DEF t
    <3> QED BY <2>1, <2>2, <2>3, <2>4, <2>5, <2>6, <2>7 DEF Proceeds
  <2> QED BY <2>1, <2>8
<1>5. ASSUME LockCandidate(x) PROVE \E t \in Transaction : Proceeds(x, t)
  <2> DEFINE u == tx[x].user
             t == IF standing[u] = "active" /\ MayOwnOneMore(u)
                  THEN [tx[x] EXCEPT !.stage = "transferring"] ELSE Idle
  <2>1. /\ tx[x].stage = "transfer" /\ u \in Users /\ tx[x].club \in Clubs
        /\ ~UserLocked(u)
    BY <1>1, <1>5, TransactionShape DEF LockCandidate
  <2>2. t \in Transaction
    BY <1>1, <2>1 DEF Transaction, Idle
  <2>3. \A c \in Clubs : HoldsClub(t, c) => HoldsClub(tx[x], c) /\ t.user = u
    BY <1>1, <2>1 DEF HoldsClub, Transaction, Idle
  <2>4. \A v \in Users : HoldsUser(t, v) => v = u /\ MayOwnOneMore(v)
    BY <1>1, <2>1 DEF HoldsUser, Transaction, Idle
  <2>5. tx' = [tx EXCEPT ![x] = t] /\ UNCHANGED <<club, role, request>>
    BY <1>5 DEF LockCandidate
  <2>6. \A y \in Connections : ~HoldsUser(tx[y], u)
    BY <2>1 DEF UserLocked, HoldsUser
  <2>7. \A c \in Clubs : HoldsClub(tx[x], c) =>
          /\ \A y \in Connections \ {x} : ~HoldsClub(tx[y], c)
          /\ ~Stopped(c) /\ role[c][u] \in {"member", "admin"}
    BY DEF LocksAreExclusive, TransferStands, HoldsClub
  <2>8. Proceeds(x, t)
    <3> HIDE DEF t, u
    <3> QED BY <2>2, <2>3, <2>4, <2>5, <2>6, <2>7 DEF Proceeds
  <2> QED BY <2>2, <2>8
<1>6. ASSUME Abort(x) PROVE \E t \in Transaction : Proceeds(x, t)
  <2>1. Idle \in Transaction
    BY DEF Transaction
  <2>2. Proceeds(x, Idle)
    BY <1>6, <2>1 DEF Abort, Proceeds, HoldsClub, HoldsUser, Idle
  <2> QED BY <2>1, <2>2
<1> QED BY <1>2, <1>3, <1>4, <1>5, <1>6 DEF OwnershipStep

\* A club that somebody manages, joins or leaves has its owner.
LEMMA FoundClub ==
    ASSUME IndInv, NEW c \in Clubs, club[c] # NoClub
    PROVE  /\ club[c] \in Club /\ club[c].status # "absent"
           /\ club[c].owner \in Users /\ role[c][club[c].owner] = "owner"
           /\ \A u \in Users : role[c][u] = "owner" => u = club[c].owner
BY DEF IndInv, ClubTypeOK, RowsOfClubs, OneOwner

LEMMA OperationForms ==
    ASSUME IndInv, NEW u \in Users, NEW c \in Clubs, ClubOperation(u, c)
    PROVE  \/ \E members \in [Users -> Roles], requests \in [Users -> RequestStatuses] :
                MembersChange(c, members, requests)
           \/ \E row \in Club : RowChanges(c, row)
           \/ UNCHANGED <<club, role, request, tx>>
<1> USE DEF IndInv, ClubTypeOK
<1> DEFINE Form1 == \E members \in [Users -> Roles], requests \in [Users -> RequestStatuses] :
                       MembersChange(c, members, requests)
           Form2 == \E row \in Club : RowChanges(c, row)
<1>0. ~ClubLocked(c) /\ club[c] # NoClub
  BY DEF ClubOperation, UpdateClub, JoinOpen, AskToJoin, Leave, Approve, Reject, ChangeRole,
         CloseClub, Announce, Manages, Owns, At, Found
<1>1. /\ role[c] \in [Users -> Roles] /\ request[c] \in [Users -> RequestStatuses]
      /\ club[c].status = "draft" =>
           \A v \in Users : role[c][v] \in {"none", "owner"} /\ request[c][v] = "none"
  BY DEF DraftsAreUnasked, ProfileDecidesPublication
<1>2. ASSUME NEW open \in BOOLEAN, NEW complete \in BOOLEAN, UpdateClub(u, c, open, complete)
      PROVE  Form2
  <2> DEFINE row == EditedClub(c, open, complete)
  <2>1. club[c] \in Club /\ club[c].status \notin {"absent", "closed"}
    BY <1>0, <1>2, FoundClub DEF UpdateClub, Manages, Stopped
  <2>2. row \in Club /\ row.owner = club[c].owner /\ row.complete = complete
        /\ row.status = (IF club[c].status = "draft" /\ complete THEN "published"
                         ELSE club[c].status)
    BY <2>1 DEF EditedClub, Patched, Club, Statuses
  <2>3. club[c].status # "draft" => complete
    BY <1>2 DEF UpdateClub, KeepsPublicProfile
  <2>4. club' = [club EXCEPT ![c] = row] /\ UNCHANGED <<role, request, tx>>
    BY <1>2 DEF UpdateClub
  <2>5. RowChanges(c, row)
    <3> HIDE DEF row
    <3> QED BY <1>0, <2>1, <2>2, <2>3, <2>4 DEF RowChanges
  <2> QED BY <2>2, <2>5
<1>3. ASSUME CloseClub(u, c) PROVE Form2
  <2> DEFINE row == [club[c] EXCEPT !.status = "closed"]
  <2>1. club[c] \in Club
    OBVIOUS
  <2>2. row \in Club /\ row.owner = club[c].owner /\ row.status = "closed"
    BY <2>1 DEF Club, Statuses
  <2>3. club' = [club EXCEPT ![c] = row] /\ UNCHANGED <<role, request, tx>>
    BY <1>3 DEF CloseClub
  <2>4. RowChanges(c, row)
    <3> HIDE DEF row
    <3> QED BY <1>0, <2>2, <2>3 DEF RowChanges
  <2> QED BY <2>2, <2>4
<1>4. ASSUME JoinOpen(u, c) PROVE Form1
  <2> DEFINE members == [role[c] EXCEPT ![u] = "member"]
  <2>1. role[c][u] = "none" /\ club[c].status = "published"
    BY <1>4 DEF JoinOpen, HasMembership, Joinable
  <2>2. members \in [Users -> Roles]
    BY <1>1 DEF Roles
  <2>3. \A v \in Users : members[v] = "owner" <=> role[c][v] = "owner"
    BY <1>1, <2>1
  <2>4. role' = [role EXCEPT ![c] = members]
    BY <1>1, <1>4, <2>1 DEF JoinOpen, AddMember
  <2>5. request' = [request EXCEPT ![c] = request[c]] /\ UNCHANGED <<club, tx>>
    BY <1>4 DEF JoinOpen
  <2>6. MembersChange(c, members, request[c])
    <3> HIDE DEF members
    <3> QED BY <1>0, <1>1, <2>1, <2>2, <2>3, <2>4, <2>5 DEF MembersChange
  <2> QED BY <1>1, <2>2, <2>6
<1>5. ASSUME AskToJoin(u, c) PROVE Form1
  <2> DEFINE requests == [request[c] EXCEPT ![u] = "pending"]
  <2>1. club[c].status = "published"
    BY <1>5 DEF AskToJoin, Joinable
  <2>2. requests \in [Users -> RequestStatuses]
    BY <1>1 DEF RequestStatuses
  <2>3. request' = [request EXCEPT ![c] = requests]
    BY <1>5 DEF AskToJoin, CreatePendingRequest
  <2>4. role' = [role EXCEPT ![c] = role[c]] /\ UNCHANGED <<club, tx>>
    BY <1>5 DEF AskToJoin
  <2>5. MembersChange(c, role[c], requests)
    <3> HIDE DEF requests
    <3> QED BY <1>0, <1>1, <2>1, <2>2, <2>3, <2>4 DEF MembersChange
  <2> QED BY <1>1, <2>2, <2>5
<1>6. ASSUME Leave(u, c) PROVE Form1
  <2>1. CASE role[c][u] = "none"
    <3> DEFINE requests == [request[c] EXCEPT ![u] = "cancelled"]
    <3>1. request[c][u] = "pending" /\ request' = [request EXCEPT ![c] = requests]
      BY <1>6, <2>1 DEF Leave, HasMembership, CancelPendingRequest
    <3>2. requests \in [Users -> RequestStatuses]
      BY <1>1 DEF RequestStatuses
    <3>3. role' = [role EXCEPT ![c] = role[c]] /\ UNCHANGED <<club, tx>>
      BY <1>6, <2>1 DEF Leave, HasMembership
    <3>4. club[c].status # "draft"
      BY <1>1, <3>1
    <3>5. MembersChange(c, role[c], requests)
      <4> HIDE DEF requests
      <4> QED BY <1>0, <1>1, <3>1, <3>2, <3>3, <3>4 DEF MembersChange
    <3> QED BY <1>1, <3>2, <3>5
  <2>2. CASE role[c][u] # "none"
    <3> DEFINE members == [role[c] EXCEPT ![u] = "none"]
    <3>1. role[c][u] # "owner" /\ role' = [role EXCEPT ![c] = members]
      BY <1>6, <2>2 DEF Leave, HasMembership, FreeToLeave, RemoveMembership
    <3>2. members \in [Users -> Roles]
      BY <1>1 DEF Roles
    <3>3. \A v \in Users : members[v] = "owner" <=> role[c][v] = "owner"
      BY <1>1, <3>1
    <3>4. request' = [request EXCEPT ![c] = request[c]] /\ UNCHANGED <<club, tx>>
      BY <1>6, <2>2 DEF Leave, HasMembership
    <3>5. club[c].status # "draft"
      BY <1>1, <2>2, <3>1
    <3>6. MembersChange(c, members, request[c])
      <4> HIDE DEF members
      <4> QED BY <1>0, <1>1, <3>1, <3>2, <3>3, <3>4, <3>5 DEF MembersChange
    <3> QED BY <1>1, <3>2, <3>6
  <2> QED BY <2>1, <2>2
<1>7. ASSUME NEW v \in Users, Approve(u, c, v) PROVE Form1
  <2> DEFINE members == [role[c] EXCEPT ![v] = IF @ = "none" THEN "member" ELSE @]
             requests == [request[c] EXCEPT ![v] = "approved"]
  <2>1. request[c][v] = "pending"
    BY <1>7 DEF Approve, AwaitsDecision
  <2>2. members \in [Users -> Roles] /\ requests \in [Users -> RequestStatuses]
    BY <1>1 DEF Roles, RequestStatuses
  <2>3. \A w \in Users : members[w] = "owner" <=> role[c][w] = "owner"
    BY <1>1
  <2>4. /\ role' = [role EXCEPT ![c] = members]
        /\ request' = [request EXCEPT ![c] = requests]
        /\ UNCHANGED <<club, tx>>
    BY <1>7 DEF Approve, AddMember, DecideRequest
  <2>5. club[c].status # "draft"
    BY <1>1, <2>1
  <2>6. MembersChange(c, members, requests)
    <3> HIDE DEF members, requests
    <3> QED BY <1>0, <2>2, <2>3, <2>4, <2>5 DEF MembersChange
  <2> QED BY <2>2, <2>6
<1>8. ASSUME NEW v \in Users, Reject(u, c, v) PROVE Form1
  <2> DEFINE requests == [request[c] EXCEPT ![v] = "rejected"]
  <2>1. request[c][v] = "pending"
    BY <1>8 DEF Reject, AwaitsDecision
  <2>2. requests \in [Users -> RequestStatuses]
    BY <1>1 DEF RequestStatuses
  <2>3. /\ role' = [role EXCEPT ![c] = role[c]]
        /\ request' = [request EXCEPT ![c] = requests]
        /\ UNCHANGED <<club, tx>>
    BY <1>8 DEF Reject, DecideRequest
  <2>4. club[c].status # "draft"
    BY <1>1, <2>1
  <2>5. MembersChange(c, role[c], requests)
    <3> HIDE DEF requests
    <3> QED BY <1>0, <1>1, <2>2, <2>3, <2>4 DEF MembersChange
  <2> QED BY <1>1, <2>2, <2>5
<1>9. ASSUME NEW v \in Users, NEW new \in {"member", "admin"}, ChangeRole(u, c, v, new)
      PROVE  Form1
  <2> DEFINE members == [role[c] EXCEPT ![v] = new]
  <2>1. role[c][v] \in {"member", "admin"}
    BY <1>9 DEF ChangeRole
  <2>2. members \in [Users -> Roles]
    BY <1>1 DEF Roles
  <2>3. \A w \in Users : members[w] = "owner" <=> role[c][w] = "owner"
    BY <1>1, <2>1
  <2>4. /\ role' = [role EXCEPT ![c] = members]
        /\ request' = [request EXCEPT ![c] = request[c]]
        /\ UNCHANGED <<club, tx>>
    BY <1>9 DEF ChangeRole, SetRole
  <2>5. club[c].status # "draft"
    BY <1>1, <2>1
  <2>6. MembersChange(c, members, request[c])
    <3> HIDE DEF members
    <3> QED BY <1>0, <1>1, <2>2, <2>3, <2>4, <2>5 DEF MembersChange
  <2> QED BY <1>1, <2>2, <2>6
<1>10. ASSUME NEW p \in Posts, NEW audience \in Audiences, Announce(u, c, p, audience)
       PROVE  UNCHANGED <<club, role, request, tx>>
  BY <1>10 DEF Announce
<1> HIDE DEF Form1, Form2
<1>11. Form1 \/ Form2 \/ UNCHANGED <<club, role, request, tx>>
  BY <1>2, <1>3, <1>4, <1>5, <1>6, <1>7, <1>8, <1>9, <1>10 DEF ClubOperation
<1> QED BY <1>11 DEF Form1, Form2

LEMMA RulingForms ==
    ASSUME IndInv, Ruling
    PROVE  \/ \E c \in Clubs, row \in Club : RowChanges(c, row)
           \/ UNCHANGED <<club, role, request, tx>>
<1>1. ASSUME NEW u \in Users, NEW status \in {"active", "suspended", "deleted"},
             RuleOnUser(u, status)
      PROVE  UNCHANGED <<club, role, request, tx>>
  BY <1>1 DEF RuleOnUser
<1>2. ASSUME NEW c \in Clubs, NEW status \in {"published", "unpublished", "suspended"},
             RuleOnClub(c, status)
      PROVE  \E row \in Club : RowChanges(c, row)
  <2> DEFINE row == [club[c] EXCEPT !.status = status]
  <2>1. club[c].status \in {"published", "unpublished", "suspended"} /\ ~ClubLocked(c)
    BY <1>2 DEF RuleOnClub
  <2>2. club[c] \in Club /\ club[c] # NoClub /\ club[c].complete
    BY <2>1 DEF IndInv, ClubTypeOK, ProfileDecidesPublication, NoClub
  <2>3. row \in Club /\ row.owner = club[c].owner /\ row.status = status /\ row.complete
    BY <2>2 DEF Club, Statuses
  <2>4. club' = [club EXCEPT ![c] = row] /\ UNCHANGED <<role, request, tx>>
    BY <1>2 DEF RuleOnClub
  <2>5. RowChanges(c, row)
    <3> HIDE DEF row
    <3> QED BY <2>1, <2>2, <2>3, <2>4 DEF RowChanges
  <2> QED BY <2>3, <2>5
<1> QED BY <1>1, <1>2 DEF Ruling

-----------------------------------------------------------------------------
(***************************************************************************)
(* Each kind of step keeps the invariant.  Types first.                    *)
(***************************************************************************)
\* The part of the type invariant that the forms are about.
RowsTyped ==
    /\ club \in [Clubs -> Club]
    /\ role \in [Clubs -> [Users -> Roles]]
    /\ request \in [Clubs -> [Users -> RequestStatuses]]
    /\ tx \in [Connections -> Transaction]

\* The parts of the invariant that speak of clubs, members and transactions.
RowsInv ==
    /\ RowsTyped
    /\ RowsOfClubs
    /\ DraftsAreUnasked
    /\ LocksAreExclusive
    /\ TransferStands
    /\ RoomStands
    /\ ProfileDecidesPublication
    /\ OneOwner
    /\ WithinLimit

\* Announcements, accounts and the bounds are typed whatever the step is.
LEMMA OthersTyped ==
    ASSUME IndInv, ClubNext
    PROVE  /\ post' \in [Posts -> Announcement \cup {Unpublished}]
           /\ standing' \in [Users -> {"active", "suspended", "deleted"}]
           /\ used' \in [entries : 0..MaxEntries, edits : 0..MaxEdits, rulings : 0..MaxRulings]
<1> USE DEF IndInv, ClubTypeOK
<1>1. ASSUME NEW x \in Connections, OwnershipStep(x) PROVE UNCHANGED <<post, standing, used>>
  BY <1>1 DEF OwnershipStep, LockOwnerCreation, LockCandidate, TransferOwnership, Abort,
       RequestCreate, BeginTransfer, CreateClub
<1>2. MaxEntries \in Nat /\ MaxEdits \in Nat /\ MaxRulings \in Nat
  BY ClubAssumption
<1>3. ASSUME NEW u \in Users, NEW c \in Clubs, ClubOperation(u, c)
      PROVE  /\ UNCHANGED standing
             /\ used' \in {used, [used EXCEPT !.entries = @ + 1], [used EXCEPT !.edits = @ + 1]}
             /\ used.entries >= MaxEntries => used'.entries = used.entries
             /\ used.edits >= MaxEdits => used'.edits = used.edits
  BY <1>2, <1>3 DEF ClubOperation, UpdateClub, JoinOpen, AskToJoin, Leave, Approve, Reject,
       ChangeRole, CloseClub, Announce
<1>4. ASSUME NEW u \in Users, NEW c \in Clubs, ClubOperation(u, c)
      PROVE  post' \in [Posts -> Announcement \cup {Unpublished}]
  <2>1. ASSUME NEW p \in Posts, NEW audience \in Audiences, Announce(u, c, p, audience)
        PROVE  post' \in [Posts -> Announcement \cup {Unpublished}]
    <3>1. post[p] \in Announcement \cup {Unpublished}
      OBVIOUS
    <3>2. Snapshot(p, Audience(c, audience)) \in SUBSET Users
      BY <3>1 DEF Snapshot, Audience, Announcement
    <3>3. Announced(p, u, c, audience) \in Announcement
      BY <3>2 DEF Announced, Announcement
    <3> QED BY <2>1, <3>3 DEF Announce
  <2>2. \/ post' = post
        \/ \E p \in Posts, audience \in Audiences : Announce(u, c, p, audience)
    BY <1>4 DEF ClubOperation, UpdateClub, JoinOpen, AskToJoin, Leave, Approve, Reject,
         ChangeRole, CloseClub
  <2> QED BY <2>1, <2>2
<1>5. ASSUME Ruling
      PROVE  /\ UNCHANGED post
             /\ used' = [used EXCEPT !.rulings = @ + 1] /\ used.rulings < MaxRulings
             /\ standing' \in [Users -> {"active", "suspended", "deleted"}]
  <2>1. ASSUME NEW u \in Users, NEW status \in {"active", "suspended", "deleted"},
               RuleOnUser(u, status)
        PROVE  /\ UNCHANGED post
               /\ used' = [used EXCEPT !.rulings = @ + 1] /\ used.rulings < MaxRulings
               /\ standing' \in [Users -> {"active", "suspended", "deleted"}]
    BY <2>1 DEF RuleOnUser
  <2>2. ASSUME NEW c \in Clubs, NEW status \in {"published", "unpublished", "suspended"},
               RuleOnClub(c, status)
        PROVE  /\ UNCHANGED <<post, standing>>
               /\ used' = [used EXCEPT !.rulings = @ + 1] /\ used.rulings < MaxRulings
    BY <2>2 DEF RuleOnClub
  <2> QED BY <1>5, <2>1, <2>2 DEF Ruling
<1>6. ASSUME NEW u \in Users, NEW c \in Clubs, ClubOperation(u, c)
      PROVE  used' \in [entries : 0..MaxEntries, edits : 0..MaxEdits, rulings : 0..MaxRulings]
  BY <1>2, <1>3, <1>6
<1>7. ASSUME Ruling
      PROVE  used' \in [entries : 0..MaxEntries, edits : 0..MaxEdits, rulings : 0..MaxRulings]
  BY <1>2, <1>5, <1>7
<1> QED BY <1>1, <1>3, <1>4, <1>5, <1>6, <1>7 DEF ClubNext

\* A transaction that proceeds holds what it has locked and checked.
LEMMA ProceedsKeeps ==
    ASSUME IndInv, NEW x \in Connections, NEW t \in Transaction, Proceeds(x, t)
    PROVE  RowsInv'
<1> USE DEF IndInv, ClubTypeOK
<1>1. RowsTyped' /\ UNCHANGED <<club, role, request>>
  BY DEF Proceeds, RowsTyped
<1>2. tx'[x] = t /\ \A y \in Connections \ {x} : tx'[y] = tx[y]
  BY DEF Proceeds
<1>3. LocksAreExclusive'
  <2>1. ASSUME NEW y \in Connections, NEW z \in Connections, NEW c \in Clubs,
               HoldsClub(tx'[y], c), HoldsClub(tx'[z], c)
        PROVE  y = z
    BY <1>2, <2>1 DEF Proceeds, LocksAreExclusive
  <2>2. ASSUME NEW y \in Connections, NEW z \in Connections, NEW u \in Users,
               HoldsUser(tx'[y], u), HoldsUser(tx'[z], u)
        PROVE  y = z
    BY <1>2, <2>2 DEF Proceeds, LocksAreExclusive
  <2> QED BY <2>1, <2>2 DEF LocksAreExclusive, HoldsClub, HoldsUser
<1>4. TransferStands'
  <2> SUFFICES ASSUME NEW y \in Connections, tx'[y].stage \in {"transfer", "transferring"}
               PROVE  /\ ~Stopped(tx'[y].club)
                      /\ role[tx'[y].club][tx'[y].user] \in {"member", "admin"}
    BY <1>1 DEF TransferStands, Stopped
  <2>1. CASE y = x
    <3>1. t.club \in Clubs /\ HoldsClub(t, t.club)
      BY <1>2, <2>1, TransactionShape DEF HoldsClub
    <3> QED BY <1>2, <2>1, <3>1 DEF Proceeds
  <2>2. CASE y # x
    BY <1>2, <2>2 DEF TransferStands
  <2> QED BY <2>1, <2>2
<1>5. RoomStands'
  <2>1. \A u \in Users : MayOwnOneMore(u)' <=> MayOwnOneMore(u)
    BY <1>1 DEF MayOwnOneMore, OwnedClubs
  <2>2. ASSUME NEW y \in Connections, NEW u \in Users, HoldsUser(tx'[y], u)
        PROVE  MayOwnOneMore(u)
    BY <1>2, <2>2 DEF Proceeds, RoomStands
  <2> QED BY <2>1, <2>2 DEF RoomStands, HoldsUser
<1>6. /\ RowsOfClubs' /\ DraftsAreUnasked' /\ ProfileDecidesPublication'
      /\ OneOwner' /\ WithinLimit'
  BY <1>1 DEF RowsOfClubs, DraftsAreUnasked, ProfileDecidesPublication, OneOwner, WithinLimit,
       OwnedClubs
<1> QED BY <1>1, <1>3, <1>4, <1>5, <1>6 DEF RowsInv

\* Members who come, go, ask or change their role leave the owner alone.
LEMMA MembersChangeKeeps ==
    ASSUME IndInv, NEW c \in Clubs, NEW members \in [Users -> Roles],
           NEW requests \in [Users -> RequestStatuses], MembersChange(c, members, requests)
    PROVE  RowsInv'
<1> USE DEF IndInv, ClubTypeOK
<1>1. /\ UNCHANGED <<club, tx>>
      /\ role' = [role EXCEPT ![c] = members] /\ request' = [request EXCEPT ![c] = requests]
      /\ ~ClubLocked(c) /\ club[c] # NoClub /\ club[c].status # "draft"
      /\ \A u \in Users : members[u] = "owner" <=> role[c][u] = "owner"
  BY DEF MembersChange
<1>2. RowsTyped'
  BY <1>1 DEF RowsTyped
<1>3. RowsOfClubs' /\ DraftsAreUnasked' /\ ProfileDecidesPublication'
  BY <1>1 DEF RowsOfClubs, DraftsAreUnasked, ProfileDecidesPublication
<1>4. LocksAreExclusive'
  BY <1>1 DEF LocksAreExclusive, HoldsClub, HoldsUser
<1>5. TransferStands'
  BY <1>1 DEF TransferStands, ClubLocked, Stopped
<1>6. RoomStands' /\ WithinLimit'
  BY <1>1 DEF RoomStands, WithinLimit, MayOwnOneMore, OwnedClubs, HoldsUser
<1>7. OneOwner'
  <2> SUFFICES ASSUME NEW d \in Clubs, club[d] # NoClub
               PROVE  {u \in Users : role'[d][u] = "owner"} = {club[d].owner}
    BY <1>1 DEF OneOwner
  <2>1. \A u \in Users : role'[d][u] = "owner" <=> role[d][u] = "owner"
    BY <1>1
  <2> QED BY <2>1 DEF OneOwner
<1> QED BY <1>2, <1>3, <1>4, <1>5, <1>6, <1>7 DEF RowsInv

\* A club whose row changes under the same owner counts for nobody else.
LEMMA RowChangesKeeps ==
    ASSUME IndInv, NEW c \in Clubs, NEW row \in Club, RowChanges(c, row)
    PROVE  RowsInv'
<1> USE DEF IndInv, ClubTypeOK
<1>1. /\ UNCHANGED <<role, request, tx>> /\ club' = [club EXCEPT ![c] = row]
      /\ ~ClubLocked(c) /\ club[c] # NoClub
      /\ row.owner = club[c].owner /\ row.status # "absent"
      /\ row.status = "draft" => club[c].status = "draft" /\ ~row.complete
      /\ row.status \in {"published", "unpublished", "suspended"} => row.complete
      /\ club[c].status = "closed" => row.status = "closed"
  BY DEF RowChanges
<1>2. RowsTyped'
  BY <1>1 DEF RowsTyped
<1>3. row # NoClub /\ row.owner \in Users
  BY <1>1, FoundClub DEF NoClub
<1>4. \A d \in Clubs : club'[d] = (IF d = c THEN row ELSE club[d])
  BY <1>1
<1>5. RowsOfClubs'
  BY <1>1, <1>3, <1>4 DEF RowsOfClubs
<1>6. DraftsAreUnasked' /\ ProfileDecidesPublication'
  BY <1>1, <1>4 DEF DraftsAreUnasked, ProfileDecidesPublication
<1>7. LocksAreExclusive'
  BY <1>1 DEF LocksAreExclusive, HoldsClub, HoldsUser
<1>8. TransferStands'
  <2>1. \A x \in Connections : tx[x].stage \in {"transfer", "transferring"} =>
          tx[x].club \in Clubs /\ tx[x].club # c
    BY <1>1, TransactionShape DEF ClubLocked
  <2> QED BY <1>1, <1>4, <2>1 DEF TransferStands, Stopped
<1>9. RoomStands' /\ WithinLimit'
  <2>1. ASSUME NEW u \in Users
        PROVE  /\ OwnedClubs(u)' \subseteq OwnedClubs(u) /\ IsFiniteSet(OwnedClubs(u))
    BY <1>1, <1>4, ClubAssumption, FS_Subset DEF OwnedClubs
  <2>2. ASSUME NEW u \in Users
        PROVE  /\ Cardinality(OwnedClubs(u)') <= Cardinality(OwnedClubs(u))
               /\ Cardinality(OwnedClubs(u)') \in Nat /\ Cardinality(OwnedClubs(u)) \in Nat
    BY <2>1, FS_Subset, FS_CardinalityType
  <2>3. ClubLimit \in Nat
    BY ClubAssumption
  <2>4. ASSUME NEW u \in Users PROVE MayOwnOneMore(u) => MayOwnOneMore(u)'
    BY <2>2, <2>3 DEF MayOwnOneMore
  <2>5. WithinLimit'
    BY <2>2, <2>3 DEF WithinLimit
  <2> QED BY <1>1, <2>4, <2>5 DEF RoomStands, HoldsUser
<1>10. OneOwner'
  BY <1>1, <1>4 DEF OneOwner
<1> QED BY <1>2, <1>5, <1>6, <1>7, <1>8, <1>9, <1>10 DEF RowsInv

\* One club more: a set with room for one more stays within the limit.
LEMMA OneMoreFits ==
    ASSUME NEW S \in SUBSET Clubs, NEW c \in Clubs, Cardinality(S) < ClubLimit
    PROVE  Cardinality(S \cup {c}) <= ClubLimit
<1>1. IsFiniteSet(S)
  BY ClubAssumption, FS_Subset
<1>2. Cardinality(S) \in Nat /\ ClubLimit \in Nat
  BY <1>1, ClubAssumption, FS_CardinalityType
<1>3. Cardinality(S \cup {c}) = IF c \in S THEN Cardinality(S) ELSE Cardinality(S) + 1
  BY <1>1, FS_AddElement
<1> QED BY <1>2, <1>3

\* The club of another user counts for u as it did, or no longer.
LEMMA FewerStillFit ==
    ASSUME NEW S \in SUBSET Clubs, NEW T \in SUBSET S
    PROVE  /\ Cardinality(S) < ClubLimit => Cardinality(T) < ClubLimit
           /\ Cardinality(S) <= ClubLimit => Cardinality(T) <= ClubLimit
<1>1. IsFiniteSet(S) /\ IsFiniteSet(T)
  BY ClubAssumption, FS_Subset
<1>2. Cardinality(S) \in Nat /\ Cardinality(T) \in Nat /\ Cardinality(T) <= Cardinality(S)
  BY <1>1, FS_CardinalityType, FS_Subset
<1> QED BY <1>2, ClubAssumption

\* Creating a club gives it its owner, who had room for it under his lock.
LEMMA CreateClubKeeps ==
    ASSUME IndInv, NEW x \in Connections, NEW c \in Clubs,
           NEW open \in BOOLEAN, NEW complete \in BOOLEAN, CreateClub(x, c, open, complete)
    PROVE  RowsInv'
<1> USE DEF IndInv, ClubTypeOK
<1> DEFINE owner == tx[x].user
           row == NewClub(owner, open, complete)
<1>1. /\ tx[x].stage = "creating" /\ owner \in Users /\ tx[x] \in Transaction
      /\ HoldsUser(tx[x], owner)
  BY TransactionShape DEF CreateClub, HoldsUser
<1>2. /\ club[c] = NoClub /\ club' = [club EXCEPT ![c] = row] /\ UNCHANGED request
      /\ role' = [role EXCEPT ![c][owner] = "owner"] /\ tx' = [tx EXCEPT ![x] = Idle]
  BY DEF CreateClub
<1>3. /\ row \in Club /\ row # NoClub /\ row.owner = owner /\ row.complete = complete
      /\ row.status = (IF complete THEN "published" ELSE "draft")
  BY <1>1 DEF NewClub, Club, Statuses, NoClub
<1>4. \A u \in Users : role[c][u] = "none" /\ request[c][u] = "none"
  BY <1>2 DEF RowsOfClubs
<1> HIDE DEF row
<1>5. RowsTyped'
  <2>1. Idle \in Transaction
    BY DEF Transaction
  <2>2. role' \in [Clubs -> [Users -> Roles]]
    BY <1>1, <1>2 DEF Roles
  <2> QED BY <1>2, <1>3, <2>1, <2>2 DEF RowsTyped
<1>6. \A d \in Clubs : club'[d] = (IF d = c THEN row ELSE club[d])
  BY <1>2
<1>7. \A d \in Clubs, u \in Users :
        role'[d][u] = (IF d = c /\ u = owner THEN "owner" ELSE role[d][u])
  BY <1>1, <1>2
<1>8. RowsOfClubs' /\ DraftsAreUnasked' /\ ProfileDecidesPublication'
  BY <1>1, <1>2, <1>3, <1>4, <1>6, <1>7 DEF RowsOfClubs, DraftsAreUnasked, ProfileDecidesPublication
<1>9. \A y \in Connections : tx'[y] = (IF y = x THEN Idle ELSE tx[y])
  BY <1>2
<1>10. (\A d \in Clubs : ~HoldsClub(Idle, d)) /\ (\A u \in Users : ~HoldsUser(Idle, u))
  BY DEF HoldsClub, HoldsUser, Idle
<1>11. LocksAreExclusive'
  <2>1. ASSUME NEW y \in Connections, NEW z \in Connections, NEW d \in Clubs,
               HoldsClub(tx'[y], d), HoldsClub(tx'[z], d)
        PROVE  y = z
    <3>1. y # x /\ z # x /\ tx'[y] = tx[y] /\ tx'[z] = tx[z]
      BY <1>9, <1>10, <2>1
    <3> QED BY <2>1, <3>1 DEF LocksAreExclusive
  <2>2. ASSUME NEW y \in Connections, NEW z \in Connections, NEW u \in Users,
               HoldsUser(tx'[y], u), HoldsUser(tx'[z], u)
        PROVE  y = z
    <3>1. y # x /\ z # x /\ tx'[y] = tx[y] /\ tx'[z] = tx[z]
      BY <1>9, <1>10, <2>2
    <3> QED BY <2>2, <3>1 DEF LocksAreExclusive
  <2> QED BY <2>1, <2>2 DEF LocksAreExclusive, HoldsClub, HoldsUser
<1>12. TransferStands'
  <2> SUFFICES ASSUME NEW y \in Connections, tx'[y].stage \in {"transfer", "transferring"}
               PROVE  /\ club'[tx'[y].club].status \notin {"suspended", "closed"}
                      /\ role'[tx'[y].club][tx'[y].user] \in {"member", "admin"}
    BY DEF TransferStands, Stopped
  <2>1. /\ tx'[y] = tx[y] /\ tx[y].club \in Clubs /\ tx[y].user \in Users
        /\ role[tx[y].club][tx[y].user] \in {"member", "admin"} /\ ~Stopped(tx[y].club)
    BY <1>9, TransactionShape DEF Idle, TransferStands
  <2>2. tx[y].club # c
    BY <1>4, <2>1
  <2> QED BY <1>6, <1>7, <2>1, <2>2 DEF Stopped
<1>13. ASSUME NEW u \in Users
       PROVE  OwnedClubs(u)' = IF u = owner THEN OwnedClubs(u) \cup {c} ELSE OwnedClubs(u)
  <2>1. row.status # "closed" /\ row.owner = owner
    BY <1>3
  <2>2. c \notin OwnedClubs(u)
    BY <1>2, ClubAssumption DEF OwnedClubs, NoClub
  <2> QED BY <1>6, <2>1, <2>2 DEF OwnedClubs
<1>14. MayOwnOneMore(owner)
  BY <1>1 DEF RoomStands
<1>15. WithinLimit'
  <2> SUFFICES ASSUME NEW u \in Users PROVE Cardinality(OwnedClubs(u)') <= ClubLimit
    BY DEF WithinLimit
  <2>1. OwnedClubs(u) \in SUBSET Clubs
    BY DEF OwnedClubs
  <2> QED BY <1>13, <1>14, <2>1, OneMoreFits DEF MayOwnOneMore, WithinLimit
<1>16. RoomStands'
  <2> SUFFICES ASSUME NEW y \in Connections, NEW u \in Users, HoldsUser(tx'[y], u)
               PROVE  Cardinality(OwnedClubs(u)') < ClubLimit
    BY DEF RoomStands, MayOwnOneMore, HoldsUser
  <2>1. y # x /\ tx'[y] = tx[y]
    BY <1>9, <1>10
  <2>2. u # owner
    BY <1>1, <2>1 DEF LocksAreExclusive
  <2> QED BY <1>13, <2>1, <2>2 DEF RoomStands, MayOwnOneMore
<1>17. OneOwner'
  <2> SUFFICES ASSUME NEW d \in Clubs, club'[d] # NoClub
               PROVE  {u \in Users : role'[d][u] = "owner"} = {club'[d].owner}
    BY DEF OneOwner
  <2>1. CASE d = c
    BY <1>1, <1>3, <1>4, <1>6, <1>7, <2>1
  <2>2. CASE d # c
    BY <1>6, <1>7, <2>2 DEF OneOwner
  <2> QED BY <2>1, <2>2
<1> QED BY <1>5, <1>8, <1>11, <1>12, <1>15, <1>16, <1>17 DEF RowsInv

\* A transfer makes the one who was checked the owner, in both tables.
LEMMA TransferKeeps ==
    ASSUME IndInv, NEW x \in Connections, TransferOwnership(x)
    PROVE  RowsInv'
<1> USE DEF IndInv, ClubTypeOK
<1> DEFINE c == tx[x].club
           heir == tx[x].user
           former == club[c].owner
<1>1. /\ tx[x] \in Transaction /\ tx[x].stage = "transferring"
      /\ c \in Clubs /\ heir \in Users /\ HoldsClub(tx[x], c) /\ HoldsUser(tx[x], heir)
  BY TransactionShape DEF TransferOwnership, HoldsClub, HoldsUser
<1>2. /\ role' = [role EXCEPT ![c][former] = "member", ![c][heir] = "owner"]
      /\ club' = [club EXCEPT ![c].owner = heir] /\ tx' = [tx EXCEPT ![x] = Idle]
      /\ UNCHANGED request
  BY DEF TransferOwnership
<1>3. ~Stopped(c) /\ role[c][heir] \in {"member", "admin"} /\ club[c] # NoClub
  BY <1>1 DEF TransferStands, RowsOfClubs
<1>4. /\ club[c] \in Club /\ club[c].status # "absent" /\ former \in Users
      /\ role[c][former] = "owner" /\ \A u \in Users : role[c][u] = "owner" => u = former
      /\ former # heir
  BY <1>1, <1>3, FoundClub
<1> DEFINE row == [club[c] EXCEPT !.owner = heir]
<1>5. /\ row \in Club /\ row # NoClub /\ row.owner = heir
      /\ row.status = club[c].status /\ row.complete = club[c].complete
  BY <1>1, <1>4 DEF Club, NoClub
<1>6. \A d \in Clubs : club'[d] = (IF d = c THEN row ELSE club[d])
  BY <1>1, <1>2
<1> HIDE DEF row
<1>7. \A d \in Clubs, u \in Users :
        role'[d][u] = (IF d = c /\ u = heir THEN "owner"
                       ELSE IF d = c /\ u = former THEN "member" ELSE role[d][u])
  BY <1>1, <1>2, <1>4
<1>8. RowsTyped'
  <2>1. Idle \in Transaction
    BY DEF Transaction
  <2>2. club' \in [Clubs -> Club]
    BY <1>2, <1>5, <1>6
  <2>3. role' \in [Clubs -> [Users -> Roles]]
    BY <1>1, <1>2, <1>4 DEF Roles
  <2> QED BY <1>2, <2>1, <2>2, <2>3 DEF RowsTyped
<1>9. club[c].status # "draft"
  BY <1>1, <1>3 DEF ProfileDecidesPublication
<1>10. RowsOfClubs' /\ DraftsAreUnasked' /\ ProfileDecidesPublication'
  <2>1. RowsOfClubs'
    BY <1>1, <1>2, <1>4, <1>5, <1>6, <1>7 DEF RowsOfClubs
  <2>2. DraftsAreUnasked'
    BY <1>2, <1>5, <1>6, <1>9 DEF DraftsAreUnasked
  <2>3. ProfileDecidesPublication'
    BY <1>5, <1>6, <1>7, <1>9 DEF ProfileDecidesPublication
  <2> QED BY <2>1, <2>2, <2>3
<1>11. \A y \in Connections : tx'[y] = (IF y = x THEN Idle ELSE tx[y])
  BY <1>2
<1>12. (\A d \in Clubs : ~HoldsClub(Idle, d)) /\ (\A u \in Users : ~HoldsUser(Idle, u))
  BY DEF HoldsClub, HoldsUser, Idle
<1>13. LocksAreExclusive'
  <2>1. ASSUME NEW y \in Connections, NEW z \in Connections, NEW d \in Clubs,
               HoldsClub(tx'[y], d), HoldsClub(tx'[z], d)
        PROVE  y = z
    <3>1. y # x /\ z # x /\ tx'[y] = tx[y] /\ tx'[z] = tx[z]
      BY <1>11, <1>12, <2>1
    <3> QED BY <2>1, <3>1 DEF LocksAreExclusive
  <2>2. ASSUME NEW y \in Connections, NEW z \in Connections, NEW u \in Users,
               HoldsUser(tx'[y], u), HoldsUser(tx'[z], u)
        PROVE  y = z
    <3>1. y # x /\ z # x /\ tx'[y] = tx[y] /\ tx'[z] = tx[z]
      BY <1>11, <1>12, <2>2
    <3> QED BY <2>2, <3>1 DEF LocksAreExclusive
  <2> QED BY <2>1, <2>2 DEF LocksAreExclusive, HoldsClub, HoldsUser
<1>14. TransferStands'
  <2> SUFFICES ASSUME NEW y \in Connections, tx'[y].stage \in {"transfer", "transferring"}
               PROVE  /\ club'[tx'[y].club].status \notin {"suspended", "closed"}
                      /\ role'[tx'[y].club][tx'[y].user] \in {"member", "admin"}
    BY DEF TransferStands, Stopped
  <2>1. /\ y # x /\ tx'[y] = tx[y] /\ tx[y].stage \in {"transfer", "transferring"}
        /\ tx[y].club \in Clubs /\ tx[y].user \in Users
        /\ role[tx[y].club][tx[y].user] \in {"member", "admin"} /\ ~Stopped(tx[y].club)
    BY <1>11, TransactionShape DEF Idle, TransferStands
  <2>2. tx[y].club # c
    BY <1>1, <2>1 DEF LocksAreExclusive, HoldsClub
  <2> QED BY <1>6, <1>7, <2>1, <2>2 DEF Stopped
<1>15. ASSUME NEW u \in Users
       PROVE  /\ OwnedClubs(u) \in SUBSET Clubs
              /\ OwnedClubs(u)' \in SUBSET (IF u = heir THEN OwnedClubs(u) \cup {c}
                                            ELSE OwnedClubs(u))
  BY <1>5, <1>6 DEF OwnedClubs
<1>16. MayOwnOneMore(heir)
  BY <1>1 DEF RoomStands
<1>17. WithinLimit'
  <2> SUFFICES ASSUME NEW u \in Users PROVE Cardinality(OwnedClubs(u)') <= ClubLimit
    BY DEF WithinLimit
  <2>1. CASE u = heir
    <3>1. Cardinality(OwnedClubs(u) \cup {c}) <= ClubLimit
      BY <1>1, <1>15, <1>16, <2>1, OneMoreFits DEF MayOwnOneMore
    <3> QED BY <1>1, <1>15, <2>1, <3>1, FewerStillFit
  <2>2. CASE u # heir
    BY <1>15, <2>2, FewerStillFit DEF WithinLimit
  <2> QED BY <2>1, <2>2
<1>18. RoomStands'
  <2> SUFFICES ASSUME NEW y \in Connections, NEW u \in Users, HoldsUser(tx'[y], u)
               PROVE  Cardinality(OwnedClubs(u)') < ClubLimit
    BY DEF RoomStands, MayOwnOneMore, HoldsUser
  <2>1. y # x /\ tx'[y] = tx[y]
    BY <1>11, <1>12
  <2>2. u # heir /\ Cardinality(OwnedClubs(u)) < ClubLimit
    BY <1>1, <2>1 DEF LocksAreExclusive, RoomStands, MayOwnOneMore
  <2> QED BY <1>15, <2>2, FewerStillFit
<1>19. OneOwner'
  <2> SUFFICES ASSUME NEW d \in Clubs, club'[d] # NoClub
               PROVE  {u \in Users : role'[d][u] = "owner"} = {club'[d].owner}
    BY DEF OneOwner
  <2>1. CASE d = c
    <3>1. \A u \in Users : role'[c][u] = "owner" <=> u = heir
      BY <1>1, <1>4, <1>7
    <3> QED BY <1>1, <1>5, <1>6, <2>1, <3>1
  <2>2. CASE d # c
    BY <1>6, <1>7, <2>2 DEF OneOwner
  <2> QED BY <2>1, <2>2
<1> QED BY <1>8, <1>10, <1>13, <1>14, <1>17, <1>18, <1>19 DEF RowsInv

-----------------------------------------------------------------------------
(***************************************************************************)
(* The theorems.                                                           *)
(***************************************************************************)
\* The invariant holds before the first club is created.
LEMMA InitInv == ClubInit => IndInv
<1> SUFFICES ASSUME ClubInit PROVE IndInv
  OBVIOUS
<1>1. NoClub \in Club /\ NoClub.status = "absent" /\ Idle \in Transaction
  BY DEF NoClub, Club, Statuses, Transaction
<1>2. ClubTypeOK
  BY <1>1, ClubAssumption DEF ClubInit, ClubTypeOK, Roles, RequestStatuses
<1>3. RowsOfClubs /\ DraftsAreUnasked /\ ProfileDecidesPublication /\ OneOwner
  BY <1>1 DEF ClubInit, RowsOfClubs, DraftsAreUnasked, ProfileDecidesPublication, OneOwner
<1>4. LocksAreExclusive /\ TransferStands /\ RoomStands
  BY DEF ClubInit, LocksAreExclusive, TransferStands, RoomStands, HoldsClub, HoldsUser, Idle
<1>5. WithinLimit
  <2> SUFFICES ASSUME NEW u \in Users PROVE Cardinality(OwnedClubs(u)) <= ClubLimit
    BY DEF WithinLimit
  <2>1. OwnedClubs(u) = {}
    BY ClubAssumption DEF ClubInit, OwnedClubs, NoClub
  <2> QED BY <2>1, FS_EmptySet, ClubAssumption
<1> QED BY <1>2, <1>3, <1>4, <1>5 DEF IndInv

\* Every step keeps it.
LEMMA StepInv == IndInv /\ [ClubNext]_clubVars => IndInv'
<1> SUFFICES ASSUME IndInv, [ClubNext]_clubVars PROVE IndInv'
  OBVIOUS
<1>1. CASE UNCHANGED clubVars
  BY <1>1 DEF clubVars, IndInv, ClubTypeOK, RowsOfClubs, DraftsAreUnasked, LocksAreExclusive,
       TransferStands, RoomStands, ProfileDecidesPublication, OneOwner, WithinLimit,
       HoldsClub, HoldsUser, Stopped, MayOwnOneMore, OwnedClubs
<1>2. CASE ClubNext
  <2>1. UNCHANGED <<club, role, request, tx>> => RowsInv'
    BY DEF RowsInv, RowsTyped, IndInv, ClubTypeOK, RowsOfClubs, DraftsAreUnasked,
         LocksAreExclusive, TransferStands, RoomStands, ProfileDecidesPublication, OneOwner,
         WithinLimit, HoldsClub, HoldsUser, Stopped, MayOwnOneMore, OwnedClubs
  <2>2. ASSUME NEW x \in Connections, OwnershipStep(x) PROVE RowsInv'
    BY <2>2, OwnershipForms, ProceedsKeeps, CreateClubKeeps, TransferKeeps
  <2>3. ASSUME NEW u \in Users, NEW c \in Clubs, ClubOperation(u, c) PROVE RowsInv'
    BY <2>1, <2>3, OperationForms, MembersChangeKeeps, RowChangesKeeps
  <2>4. ASSUME Ruling PROVE RowsInv'
    BY <2>1, <2>4, RulingForms, RowChangesKeeps
  <2>5. RowsInv'
    BY <1>2, <2>2, <2>3, <2>4 DEF ClubNext
  <2> QED BY <1>2, <2>5, OthersTyped DEF RowsInv, RowsTyped, IndInv, ClubTypeOK
<1> QED BY <1>1, <1>2

LEMMA Invariant == ClubSpec => []IndInv
BY InitInv, StepInv, PTL DEF ClubSpec

\* ClubInv of the run clubs: the types, what a transfer has checked under its
\* locks stays true until it commits, and a club is published exactly when its
\* profile is complete.
THEOREM TransfersStand == ClubSpec => []ClubInv
<1>1. IndInv => ClubInv
  BY DEF IndInv, ClubInv
<1> QED BY <1>1, Invariant, PTL

\* However many members leave, change roles and hand the club over at once,
\* the row of a club and its memberships name the same single owner.
THEOREM SingleOwner == ClubSpec => []OneOwner
<1>1. IndInv => OneOwner
  BY DEF IndInv
<1> QED BY <1>1, Invariant, PTL

\* Counting the clubs of an owner under the lock on his row is enough: neither
\* parallel creations nor a transfer take him over the limit.
THEOREM LimitHolds == ClubSpec => []WithinLimit
<1>1. IndInv => WithinLimit
  BY DEF IndInv
<1> QED BY <1>1, Invariant, PTL

\* The club c, its members and requests are as they were.
Untouched(c) == club'[c] = club[c] /\ role'[c] = role[c] /\ request'[c] = request[c]

\* What a step does in one club.
InOneClub(c) ==
    /\ ~Stopped(c)
    /\ \A d \in Clubs \ {c} : Untouched(d)
    /\ \A p \in Posts : post'[p] # post[p] => post'[p].club = c

LEMMA SameRow ==
    ASSUME NEW row \in Club
    PROVE  row = [row EXCEPT !.status = row.status]
BY DEF Club

LEMMA OneClubOrNone ==
    ASSUME ClubTypeOK, \/ post' = post /\ \A d \in Clubs : Untouched(d)
                       \/ \E c \in Clubs : InOneClub(c)
    PROVE  StoppedClubStep
<1>1. ASSUME NEW d \in Clubs, Untouched(d)
      PROVE  /\ role'[d] = role[d] /\ request'[d] = request[d]
             /\ club'[d] = [club[d] EXCEPT !.status = club'[d].status]
             /\ club[d].status = "closed" => club'[d].status = "closed"
  <2>1. club[d] \in Club
    BY DEF ClubTypeOK
  <2> QED BY <1>1, <2>1, SameRow DEF Untouched
<1>2. CASE post' = post /\ \A d \in Clubs : Untouched(d)
  BY <1>1, <1>2 DEF StoppedClubStep
<1>3. ASSUME NEW c \in Clubs, InOneClub(c) PROVE StoppedClubStep
  <2>1. ~Stopped(c) /\ \A d \in Clubs \ {c} : Untouched(d)
    BY <1>3 DEF InOneClub
  <2>2. \A d \in Clubs : Stopped(d) => d # c /\ Untouched(d)
    BY <2>1
  <2>3. \A d \in Clubs, p \in Posts : Stopped(d) /\ post'[p] # post[p] => post'[p].club # d
    BY <1>3, <2>2 DEF InOneClub
  <2> QED BY <1>1, <2>2, <2>3 DEF StoppedClubStep
<1> QED BY <1>2, <1>3

\* Steps of transactions: only the last one of a creation or transfer writes.
LEMMA OwnershipByTheBook ==
    ASSUME IndInv, NEW x \in Connections, OwnershipStep(x)
    PROVE  StoppedClubStep /\ RequestStep
<1> USE DEF IndInv, ClubTypeOK
<1>1. ASSUME UNCHANGED <<club, role, request, post>> PROVE StoppedClubStep /\ RequestStep
  BY <1>1, OneClubOrNone DEF Untouched, RequestStep
<1>2. ASSUME NEW c \in Clubs, NEW open \in BOOLEAN, NEW complete \in BOOLEAN,
             CreateClub(x, c, open, complete)
      PROVE  StoppedClubStep /\ RequestStep
  <2> DEFINE owner == tx[x].user
             row == NewClub(owner, open, complete)
  <2>1. owner \in Users /\ club[c] = NoClub /\ ~Stopped(c)
    BY <1>2, TransactionShape DEF CreateClub, Stopped, NoClub
  <2>2. /\ club' = [club EXCEPT ![c] = row] /\ UNCHANGED <<request, post>>
        /\ role' = [role EXCEPT ![c][owner] = "owner"]
    BY <1>2 DEF CreateClub
  <2> HIDE DEF row, owner
  <2>3. InOneClub(c)
    BY <2>1, <2>2 DEF InOneClub, Untouched
  <2>4. RequestStep
    BY <2>1, <2>2 DEF RequestStep
  <2> QED BY <2>3, <2>4, OneClubOrNone
<1>3. ASSUME TransferOwnership(x) PROVE StoppedClubStep /\ RequestStep
  <2> DEFINE c == tx[x].club
             heir == tx[x].user
             former == club[c].owner
  <2>1. /\ c \in Clubs /\ heir \in Users /\ ~Stopped(c)
        /\ role[c][heir] \in {"member", "admin"} /\ club[c] # NoClub
    BY <1>3, TransactionShape DEF TransferOwnership, TransferStands, RowsOfClubs
  <2>2. former \in Users /\ role[c][former] = "owner"
    BY <2>1, FoundClub
  <2>3. /\ club' = [club EXCEPT ![c].owner = heir] /\ UNCHANGED <<request, post>>
        /\ role' = [role EXCEPT ![c][former] = "member", ![c][heir] = "owner"]
    BY <1>3 DEF TransferOwnership
  <2> HIDE DEF c, heir, former
  <2>4. InOneClub(c)
    BY <2>1, <2>2, <2>3 DEF InOneClub, Untouched
  <2>5. RequestStep
    BY <2>1, <2>2, <2>3 DEF RequestStep
  <2> QED BY <2>1, <2>4, <2>5, OneClubOrNone
<1>4. \/ UNCHANGED <<club, role, request, post>>
      \/ \E c \in Clubs, open, complete \in BOOLEAN : CreateClub(x, c, open, complete)
      \/ TransferOwnership(x)
  BY DEF OwnershipStep, LockOwnerCreation, LockCandidate, Abort, RequestCreate, BeginTransfer
<1> QED BY <1>1, <1>2, <1>3, <1>4

\* Operations of members: each is about a club that is not stopped.
LEMMA OperationByTheBook ==
    ASSUME IndInv, NEW u \in Users, NEW c \in Clubs, ClubOperation(u, c)
    PROVE  StoppedClubStep /\ RequestStep
<1> USE DEF IndInv, ClubTypeOK
<1> DEFINE Book(d, v) ==
             /\ request'[d][v] # request[d][v] =>
                  request[d][v] = "pending" \/ request'[d][v] = "pending"
             /\ role[d][v] = "none" /\ role'[d][v] = "member" =>
                  club[d].open \/ (request[d][v] = "pending" /\ request'[d][v] = "approved")
           Good == InOneClub(c) /\ \A d \in Clubs, v \in Users : Book(d, v)
<1>1. ASSUME NEW open \in BOOLEAN, NEW complete \in BOOLEAN, UpdateClub(u, c, open, complete)
      PROVE  Good
  BY <1>1 DEF UpdateClub, Manages, InOneClub, Untouched
<1>2. ASSUME JoinOpen(u, c) PROVE Good
  <2>1. InOneClub(c)
    BY <1>2 DEF JoinOpen, Joinable, Stopped, AddMember, InOneClub, Untouched
  <2>2. ASSUME NEW d \in Clubs, NEW v \in Users PROVE Book(d, v)
    <3>1. CASE d = c /\ v = u
      BY <1>2, <3>1 DEF JoinOpen
    <3>2. CASE ~(d = c /\ v = u)
      BY <1>2, <3>2 DEF JoinOpen, AddMember
    <3> QED BY <3>1, <3>2
  <2> QED BY <2>1, <2>2
<1>3. ASSUME AskToJoin(u, c) PROVE Good
  BY <1>3 DEF AskToJoin, Joinable, Stopped, CreatePendingRequest, InOneClub, Untouched
<1>4. ASSUME Leave(u, c) PROVE Good
  <2>1. CASE role[c][u] = "none"
    BY <1>4, <2>1 DEF Leave, HasMembership, CancelPendingRequest, InOneClub, Untouched
  <2>2. CASE role[c][u] # "none"
    BY <1>4, <2>2 DEF Leave, HasMembership, RemoveMembership, InOneClub, Untouched
  <2> QED BY <2>1, <2>2
<1>5. ASSUME NEW w \in Users, Approve(u, c, w) PROVE Good
  <2>1. InOneClub(c)
    BY <1>5 DEF Approve, Manages, AddMember, DecideRequest, InOneClub, Untouched
  <2>2. ASSUME NEW d \in Clubs, NEW v \in Users PROVE Book(d, v)
    <3>1. CASE d = c /\ v = w
      BY <1>5, <3>1 DEF Approve, DecideRequest, AwaitsDecision
    <3>2. CASE ~(d = c /\ v = w)
      BY <1>5, <3>2 DEF Approve, AddMember, DecideRequest
    <3> QED BY <3>1, <3>2
  <2> QED BY <2>1, <2>2
<1>6. ASSUME NEW w \in Users, Reject(u, c, w) PROVE Good
  BY <1>6 DEF Reject, Manages, DecideRequest, AwaitsDecision, InOneClub, Untouched
<1>7. ASSUME NEW w \in Users, NEW new \in {"member", "admin"}, ChangeRole(u, c, w, new)
      PROVE  Good
  BY <1>7 DEF ChangeRole, Owns, SetRole, InOneClub, Untouched
<1>8. ASSUME CloseClub(u, c) PROVE Good
  BY <1>8 DEF CloseClub, Owns, InOneClub, Untouched
<1>9. ASSUME NEW p \in Posts, NEW audience \in Audiences, Announce(u, c, p, audience)
      PROVE  Good
  BY <1>9 DEF Announce, Announced, Manages, InOneClub, Untouched
<1>10. Good
  <2> HIDE DEF Good
  <2> QED BY <1>1, <1>2, <1>3, <1>4, <1>5, <1>6, <1>7, <1>8, <1>9 DEF ClubOperation
<1> QED BY <1>10, OneClubOrNone DEF RequestStep

\* A ruling changes nothing but the status of a club.
LEMMA RulingByTheBook ==
    ASSUME IndInv, Ruling
    PROVE  StoppedClubStep /\ RequestStep
<1> USE DEF IndInv, ClubTypeOK
<1>1. ASSUME NEW u \in Users, NEW status \in {"active", "suspended", "deleted"},
             RuleOnUser(u, status)
      PROVE  StoppedClubStep /\ RequestStep
  <2>1. UNCHANGED <<club, role, request, post>>
    BY <1>1 DEF RuleOnUser
  <2> QED BY <2>1, OneClubOrNone DEF Untouched, RequestStep
<1>2. ASSUME NEW c \in Clubs, NEW status \in {"published", "unpublished", "suspended"},
             RuleOnClub(c, status)
      PROVE  StoppedClubStep /\ RequestStep
  <2>1. /\ club' = [club EXCEPT ![c].status = status] /\ UNCHANGED <<role, request, post>>
        /\ club[c].status # "closed"
    BY <1>2 DEF RuleOnClub
  <2>2. ASSUME NEW d \in Clubs
        PROVE  /\ club'[d] = [club[d] EXCEPT !.status = club'[d].status]
               /\ club[d].status = "closed" => club'[d].status = "closed"
    <3>1. club[d] \in Club
      OBVIOUS
    <3>2. CASE d = c
      <4>1. club'[d] = [club[d] EXCEPT !.status = status]
        BY <2>1, <3>2
      <4>2. club'[d].status = status
        BY <3>1, <4>1 DEF Club
      <4> QED BY <2>1, <3>2, <4>1, <4>2
    <3>3. CASE d # c
      BY <2>1, <3>1, <3>3, SameRow
    <3> QED BY <3>2, <3>3
  <2> QED BY <2>1, <2>2 DEF StoppedClubStep, RequestStep
<1> QED BY <1>1, <1>2 DEF Ruling

\* Nobody joins, leaves, asks, is answered or told anything in a club that is
\* suspended or closed, and requests are answered by the book.
THEOREM ByTheBook == ClubSpec => MembershipsByTheBook
<1>1. ASSUME IndInv, [ClubNext]_clubVars PROVE [StoppedClubStep /\ RequestStep]_clubVars
  BY <1>1, OwnershipByTheBook, OperationByTheBook, RulingByTheBook DEF ClubNext
<1> QED BY <1>1, Invariant, PTL DEF ClubSpec, MembershipsByTheBook

=============================================================================
