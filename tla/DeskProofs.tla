------------------------------ MODULE DeskProofs ------------------------------
(***************************************************************************)
(* Theorems about the registration desk, for every set of members, every   *)
(* bound and every policy, and about the expiry of cash reservations, for  *)
(* every set of workers and every lease: the workers drive the desk by its *)
(* own steps only, so that all it promises holds with them; a job that is  *)
(* done has ended its reservation; while a lease runs nobody but its       *)
(* holder touches the job; and nothing is expired before it is due.        *)
(***************************************************************************)
EXTENDS CashExpiry, FiniteSetTheorems, WellFoundedInduction, TLAPS

\* A table of registration rows, as a transaction may leave one.
Table(g) == DOMAIN g \subseteq RegIds /\ g \in [DOMAIN g -> Row]

\* The row r of the table ends, or is confirmed.
Released(r, target) == [reg EXCEPT ![r] = Moved(reg[r], target, NULL)]

\* The table after member u registered as row r with queue number n.
Arrived(u, r, n, at) ==
    [q \in DOMAIN reg \cup {r} |-> IF q = r THEN NewRow(u, n, at) ELSE reg[q]]

-----------------------------------------------------------------------------
(***************************************************************************)
(* Type correctness.                                                       *)
(***************************************************************************)
\* A transition keeps a row a row.
LEMMA MovedIsRow ==
    ASSUME NEW row \in Row, NEW target \in States, NEW deadline \in Nat
    PROVE  Moved(row, target, deadline) \in Row
<1> DEFINE held == target \in SeatStates
           until == IF target = "expired" THEN row.cash_expires_at ELSE deadline
<1>1. held \in BOOLEAN /\ until \in Nat /\ NULL \in Nat
  BY DEF Row, NULL
<1>2. Moved(row, target, deadline) =
        [row EXCEPT !.state = target, !.seat_held = held,
                    !.waitlist_sequence = NULL, !.cash_expires_at = until]
  BY DEF Moved
<1> HIDE DEF held, until
<1> QED BY <1>1, <1>2 DEF Row

\* Deadlines are instants after the start of the clock.
LEMMA DeadlineIsTime ==
    ASSUME TypeOK, NEW at \in Nat
    PROVE  CashDeadline(at) \in Nat \ {0}
<1>1. event.start \in Nat \ {0} /\ CashTicks \in Nat \ {0}
  BY DeskAssumption DEF TypeOK
<1> QED BY <1>1 DEF CashDeadline

\* Registering inserts a well-formed row, whatever the event's method is.
LEMMA NewRowIsRow ==
    ASSUME TypeOK, NEW u \in Users, NEW n \in Nat, NEW at \in Nat
    PROVE  NewRow(u, n, at) \in Row
<1>1. CashDeadline(at) \in Nat
  BY DeadlineIsTime
<1>2. event.method \in Methods
  BY DEF TypeOK
<1> QED BY <1>1, <1>2 DEF NewRow, Row, States, ActiveStates, SeatStates, Methods, NULL

\* Promotion changes rows of the table and adds none.
LEMMA PromotionIsTable ==
    ASSUME TypeOK, NEW at \in Nat, NEW g, Table(g)
    PROVE  Table(AfterPromotion(g, at)) /\ DOMAIN AfterPromotion(g, at) = DOMAIN g
<1>1. CashDeadline(at) \in Nat /\ NULL \in Nat
  BY DeadlineIsTime DEF NULL
<1>2. PromotionTarget \in States /\ "cancelled" \in States
  BY DEF PromotionTarget, States, ActiveStates, SeatStates
<1>3. ASSUME NEW r \in DOMAIN g
      PROVE  /\ Moved(g[r], PromotionTarget,
                      IF event.method = "cash" THEN CashDeadline(at) ELSE NULL) \in Row
             /\ Moved(g[r], "cancelled", NULL) \in Row
             /\ g[r] \in Row
  <2>1. g[r] \in Row
    BY DEF Table
  <2> QED BY <2>1, <1>1, <1>2, MovedIsRow
<1> QED BY <1>3 DEF AfterPromotion, Table

\* Releasing a seat or a place in the queue keeps the table a table.
LEMMA ReleasedIsTable ==
    ASSUME TypeOK, NEW r \in DOMAIN reg, NEW target \in States
    PROVE  Table(Released(r, target)) /\ DOMAIN Released(r, target) = DOMAIN reg
<1>1. Moved(reg[r], target, NULL) \in Row
  BY MovedIsRow DEF TypeOK, NULL
<1> QED BY <1>1 DEF Released, Table, TypeOK

\* A table with the row of a new arrival is a table.
LEMMA ArrivedIsTable ==
    ASSUME TypeOK, NEW u \in Users, NEW r \in RegIds, NEW n \in Nat, NEW at \in Nat
    PROVE  /\ Table(Arrived(u, r, n, at))
           /\ DOMAIN Arrived(u, r, n, at) = DOMAIN reg \cup {r}
BY NewRowIsRow DEF Arrived, Table, TypeOK

\* Committing a table that keeps every row is type correct; jobs are added
\* for rows of the table.
LEMMA CommitIsTyped ==
    ASSUME TypeOK, NEW g, Table(g), DOMAIN reg \subseteq DOMAIN g, Commit(g)
    PROVE  TypeOK'
<1>1. \A r \in DOMAIN g : g[r].cash_expires_at \in Nat
  BY DEF Table, Row
<1>2. NewlyPending(g) \subseteq DOMAIN g
  BY DEF NewlyPending
<1>3. DOMAIN due' = DOMAIN due \cup NewlyPending(g) /\ due' \in [DOMAIN due' -> Nat]
  BY <1>1, <1>2 DEF Commit, TypeOK
<1>4. DOMAIN due' \subseteq DOMAIN reg'
  BY <1>2, <1>3 DEF Commit, TypeOK
<1> QED BY <1>3, <1>4 DEF Commit, Table, TypeOK

\* What the actions of the desk do to the tables: a member arrives, a row is
\* released, a row is released and the seat offered on, or nothing happens.
LEMMA StepForms ==
    ASSUME TypeOK, [Next]_vars
    PROVE  \/ \E u \in Users, r, n \in RegIds, at \in Nat :
                /\ Active(reg, u) = {}
                /\ IsNextId(r)
                /\ IsNextSequence(reg, n)
                /\ Commit(Arrived(u, r, n, at))
           \/ \E r \in DOMAIN reg, target \in {"cancelled", "confirmed"} :
                /\ target = "cancelled" => ~reg[r].seat_held
                /\ target = "confirmed" => reg[r].state = "cash_pending"
                /\ reg[r].state \in ActiveStates
                /\ Commit(Released(r, target))
           \/ \E r \in DOMAIN reg, target \in {"cancelled", "expired"}, at \in Nat :
                /\ at <= clock
                /\ reg[r].state \in ActiveStates
                /\ target = "expired" => reg[r].state = "cash_pending"
                /\ target = "cancelled" => reg[r].seat_held
                /\ ~PromotionRaises(Released(r, target), at)
                /\ Commit(AfterPromotion(Released(r, target), at))
           \/ UNCHANGED <<reg, due>>
<1>0. 1..MaxTime \subseteq Nat
  BY DeskAssumption
<1>1. ASSUME NEW u \in Users, NEW at \in 1..MaxTime, Register(u, at)
      PROVE  \E r, n \in RegIds :
                /\ Active(reg, u) = {}
                /\ IsNextId(r)
                /\ IsNextSequence(reg, n)
                /\ Commit(Arrived(u, r, n, at))
  BY <1>1 DEF Register, MayRegister, Arrived
<1>2. ASSUME NEW u \in Users, NEW at \in 1..MaxTime, Cancel(u, at)
      PROVE  \E r \in DOMAIN reg :
                /\ at <= clock
                /\ reg[r].state \in ActiveStates
                /\ \/ ~reg[r].seat_held /\ Commit(Released(r, "cancelled"))
                   \/ /\ reg[r].seat_held
                      /\ ~PromotionRaises(Released(r, "cancelled"), at)
                      /\ Commit(AfterPromotion(Released(r, "cancelled"), at))
  BY <1>2 DEF Cancel, Released, Active, RequestTime
<1>3. ASSUME NEW r \in RegIds, NEW at \in 1..MaxTime, ConfirmCash(r, at)
      PROVE  /\ r \in DOMAIN reg
             /\ reg[r].state = "cash_pending"
             /\ Commit(Released(r, "confirmed"))
  BY <1>3 DEF ConfirmCash, MayConfirm, Released
<1>4. ASSUME NEW r \in RegIds, NEW at \in 1..MaxTime, ExpireCash(r, at)
      PROVE  /\ r \in DOMAIN reg
             /\ at <= clock
             /\ reg[r].state = "cash_pending"
             /\ ~PromotionRaises(Released(r, "expired"), at)
             /\ Commit(AfterPromotion(Released(r, "expired"), at))
  BY <1>4 DEF ExpireCash, ExpiryDue, Released, TypeOK
<1>5. "cash_pending" \in ActiveStates
  BY DEF ActiveStates, SeatStates
<1> USE <1>0, <1>5
<1>6. CASE \E u \in Users, at \in 1..MaxTime : Register(u, at) \/ Cancel(u, at)
  <2>1. PICK u \in Users, at \in 1..MaxTime : Register(u, at) \/ Cancel(u, at)
    BY <1>6
  <2>2. CASE Register(u, at)
    BY <1>1, <2>2
  <2>3. CASE Cancel(u, at)
    BY <1>2, <2>3
  <2> QED BY <2>1, <2>2, <2>3
<1>7. CASE \E r \in RegIds, at \in 1..MaxTime : ConfirmCash(r, at) \/ ExpireCash(r, at)
  <2>1. PICK r \in RegIds, at \in 1..MaxTime : ConfirmCash(r, at) \/ ExpireCash(r, at)
    BY <1>7
  <2>2. CASE ConfirmCash(r, at)
    BY <1>3, <2>2
  <2>3. CASE ExpireCash(r, at)
    BY <1>4, <2>3
  <2> QED BY <2>1, <2>2, <2>3
<1>8. CASE \/ \E c \in Capacities, s \in StartTimes, m \in AllowedMethods, at \in 1..MaxTime :
                 UpdateEvent(c, s, m, at)
           \/ \E at \in 1..MaxTime : CompleteEvent(at)
           \/ CancelEvent \/ SuspendEvent \/ RestoreEvent
           \/ \E u \in Users : ToggleEligible(u)
           \/ Tick
           \/ UNCHANGED vars
  BY <1>8 DEF UpdateEvent, CompleteEvent, CancelEvent, SuspendEvent, RestoreEvent,
              SetStatus, ToggleEligible, Tick, vars
<1> QED BY <1>6, <1>7, <1>8 DEF Next

\* The event row, the members in good standing and the clock.
LEMMA OthersAreTyped ==
    ASSUME TypeOK, [Next]_vars
    PROVE  /\ event' \in [status : EventStatuses, capacity : Capacities,
                         start : StartTimes, method : Methods]
           /\ eligible' \subseteq Users
           /\ clock' \in 1..(MaxTime + 1)
<1> DEFINE Typed == /\ event' \in [status : EventStatuses, capacity : Capacities,
                                   start : StartTimes, method : Methods]
                    /\ eligible' \subseteq Users
                    /\ clock' \in 1..(MaxTime + 1)
<1>1. ASSUME UNCHANGED <<event, eligible, clock>> PROVE Typed
  BY <1>1 DEF TypeOK
<1>2. ASSUME NEW g, Commit(g) PROVE Typed
  BY <1>1, <1>2 DEF Commit
<1>3. ASSUME NEW c \in Capacities, NEW s \in StartTimes, NEW m \in AllowedMethods,
             NEW at \in 1..MaxTime, UpdateEvent(c, s, m, at)
      PROVE  Typed
  <2>1. m \in Methods
    BY DeskAssumption DEF Methods
  <2> QED BY <1>3, <2>1 DEF UpdateEvent, TypeOK
<1>4. ASSUME NEW from, NEW to \in EventStatuses, SetStatus(from, to) PROVE Typed
  BY <1>4 DEF SetStatus, TypeOK
<1>5. ASSUME NEW u \in Users, ToggleEligible(u) PROVE Typed
  BY <1>5 DEF ToggleEligible, TypeOK
<1>6. ASSUME Tick PROVE Typed
  BY <1>6, DeskAssumption DEF Tick, TypeOK
<1>7. CASE \E u \in Users, at \in 1..MaxTime : Register(u, at) \/ Cancel(u, at)
  BY <1>2, <1>7 DEF Register, Cancel
<1>8. CASE \E r \in RegIds, at \in 1..MaxTime : ConfirmCash(r, at) \/ ExpireCash(r, at)
  BY <1>2, <1>8 DEF ConfirmCash, ExpireCash
<1>9. CASE (\E at \in 1..MaxTime : CompleteEvent(at)) \/ CancelEvent \/ SuspendEvent \/ RestoreEvent
  BY <1>4, <1>9 DEF CompleteEvent, CancelEvent, SuspendEvent, RestoreEvent, EventStatuses
<1>10. CASE UNCHANGED vars
  BY <1>1, <1>10 DEF vars
<1>11. CASE \E c \in Capacities, s \in StartTimes, m \in AllowedMethods, at \in 1..MaxTime :
               UpdateEvent(c, s, m, at)
  BY <1>3, <1>11
<1>12. CASE (\E u \in Users : ToggleEligible(u)) \/ Tick
  BY <1>5, <1>6, <1>12
<1> QED BY <1>7, <1>8, <1>9, <1>10, <1>11, <1>12 DEF Next

\* An event without registrations is well typed.
LEMMA InitTyped == ASSUME Init PROVE TypeOK
<1>1. event \in [status : EventStatuses, capacity : Capacities,
                 start : StartTimes, method : Methods]
  BY DeskAssumption DEF Init, EventStatuses, Methods
<1>2. DOMAIN reg = {} /\ reg \in [DOMAIN reg -> Row]
  BY DEF Init
<1>3. DOMAIN due = {} /\ due \in [DOMAIN due -> Nat]
  BY DEF Init
<1>4. eligible \subseteq Users /\ clock \in 1..(MaxTime + 1)
  BY DeskAssumption DEF Init
<1> QED BY <1>1, <1>2, <1>3, <1>4 DEF TypeOK

\* Every step of the desk keeps its state well typed.
LEMMA KeepsTypeOK ==
    ASSUME TypeOK, [Next]_vars
    PROVE  TypeOK'
<1>1. CASE \E u \in Users, r, n \in RegIds, at \in Nat : Commit(Arrived(u, r, n, at))
  <2>1. PICK u \in Users, r \in RegIds, n \in RegIds, at \in Nat :
           Commit(Arrived(u, r, n, at))
    BY <1>1
  <2>2. n \in Nat
    BY <2>1, DeskAssumption DEF RegIds
  <2>3. /\ Table(Arrived(u, r, n, at))
        /\ DOMAIN Arrived(u, r, n, at) = DOMAIN reg \cup {r}
    BY <2>1, <2>2, ArrivedIsTable
  <2> QED BY <2>1, <2>3, CommitIsTyped
<1>2. CASE \E r \in DOMAIN reg, target \in {"cancelled", "confirmed"} :
              Commit(Released(r, target))
  BY <1>2, ReleasedIsTable, CommitIsTyped
     DEF States, ActiveStates, SeatStates
<1>3. CASE \E r \in DOMAIN reg, target \in {"cancelled", "expired"}, at \in Nat :
              Commit(AfterPromotion(Released(r, target), at))
  <2>1. PICK r \in DOMAIN reg, target \in {"cancelled", "expired"}, at \in Nat :
           Commit(AfterPromotion(Released(r, target), at))
    BY <1>3
  <2>2. target \in States
    BY <2>1 DEF States
  <2>3. Table(Released(r, target)) /\ DOMAIN Released(r, target) = DOMAIN reg
    BY <2>1, <2>2, ReleasedIsTable
  <2>4. /\ Table(AfterPromotion(Released(r, target), at))
        /\ DOMAIN AfterPromotion(Released(r, target), at) = DOMAIN reg
    BY <2>1, <2>3, PromotionIsTable
  <2> QED BY <2>1, <2>4, CommitIsTyped
<1>4. CASE UNCHANGED <<reg, due>>
  BY <1>4, OthersAreTyped DEF TypeOK
<1> QED BY <1>1, <1>2, <1>3, <1>4, StepForms

\* Every transaction keeps the tables well typed: rows stay rows, a job
\* belongs to a row, and the event keeps values an organizer may give it.
THEOREM TypeCorrect == Spec => []TypeOK
BY InitTyped, KeepsTypeOK, PTL DEF Spec

-----------------------------------------------------------------------------
(***************************************************************************)
(* What a transaction does to one row.                                     *)
(***************************************************************************)
\* A transition of the state machine, with the deadline the new state has.
RowMoves(row, next) ==
    \E target \in States \ {"waitlisted"}, deadline \in Nat :
        /\ next = Moved(row, target, deadline)
        /\ row.state \in ActiveStates
        /\ target = "expired" => row.state = "cash_pending"
        /\ target = "cash_pending" => row.state = "waitlisted" /\ row.method = "cash"
        /\ target = "cash_pending" <=> deadline # NULL

\* Promotion moves waitlisted rows only.
LEMMA PromotionMoves ==
    ASSUME TypeOK, NEW at \in Nat, NEW g, Table(g), ~PromotionRaises(g, at),
           NEW r \in DOMAIN g
    PROVE  LET h == AfterPromotion(g, at)
           IN  \/ h[r] = g[r]
               \/ g[r].state = "waitlisted" /\ RowMoves(g[r], h[r])
<1> DEFINE h == AfterPromotion(g, at)
<1>1. CASE ~PromotionOpen(g, at)
  BY <1>1 DEF AfterPromotion
<1>2. CASE PromotionOpen(g, at) /\ r \in FirstEligible(g)
  <2> DEFINE deadline == IF event.method = "cash" THEN CashDeadline(at) ELSE NULL
  <2>1. h[r] = Moved(g[r], PromotionTarget, deadline)
    BY <1>2 DEF AfterPromotion
  <2>2. g[r].state = "waitlisted" /\ g[r].method \in Methods /\ event.method \in Methods
    BY <1>2 DEF FirstEligible, Waiting, Table, Row, TypeOK
  <2>3. PromotionTarget = "cash_pending" => g[r].method = "cash"
    BY <1>2, <2>2 DEF PromotionRaises, Methods
  <2>4. /\ deadline \in Nat
        /\ PromotionTarget = "cash_pending" <=> deadline # NULL
        /\ PromotionTarget \in {"confirmed", "cash_pending"}
    BY <2>2, DeadlineIsTime DEF PromotionTarget, Methods, NULL
  <2> HIDE DEF deadline
  <2> QED BY <2>1, <2>2, <2>3, <2>4 DEF RowMoves, States, ActiveStates, SeatStates
<1>3. CASE PromotionOpen(g, at) /\ r \notin FirstEligible(g) /\ r \in Skipped(g)
  <2>1. h[r] = Moved(g[r], "cancelled", NULL)
    BY <1>3 DEF AfterPromotion
  <2>2. g[r].state = "waitlisted"
    BY <1>3 DEF Skipped, Waiting
  <2> QED BY <2>1, <2>2 DEF RowMoves, States, ActiveStates, SeatStates, NULL
<1>4. CASE PromotionOpen(g, at) /\ r \notin FirstEligible(g) /\ r \notin Skipped(g)
  BY <1>4 DEF AfterPromotion
<1> QED BY <1>1, <1>2, <1>3, <1>4

\* Releasing moves the one row it is given and no other.
LEMMA ReleaseMoves ==
    ASSUME TypeOK, NEW r \in DOMAIN reg, reg[r].state \in ActiveStates,
           NEW target \in {"cancelled", "confirmed", "expired"},
           target = "expired" => reg[r].state = "cash_pending"
    PROVE  /\ RowMoves(reg[r], Released(r, target)[r])
           /\ Released(r, target)[r].state = target
           /\ \A q \in DOMAIN reg \ {r} : Released(r, target)[q] = reg[q]
<1>1. Released(r, target)[r] = Moved(reg[r], target, NULL)
  BY DEF Released, TypeOK
<1>2. reg[r] \in Row
  BY DEF TypeOK
<1>3. Moved(reg[r], target, NULL).state = target
  BY <1>2 DEF Moved, Row
<1> QED BY <1>1, <1>3 DEF RowMoves, States, ActiveStates, SeatStates, NULL, Released, TypeOK

\* A row once inserted stays, and changes by a transition or not at all.
LEMMA RowSteps ==
    ASSUME TypeOK, [Next]_vars
    PROVE  \A q \in DOMAIN reg :
              q \in DOMAIN reg' /\ (reg'[q] = reg[q] \/ RowMoves(reg[q], reg'[q]))
<1> SUFFICES ASSUME NEW q \in DOMAIN reg
             PROVE  q \in DOMAIN reg' /\ (reg'[q] = reg[q] \/ RowMoves(reg[q], reg'[q]))
  OBVIOUS
<1>1. CASE \E u \in Users, r, n \in RegIds, at \in Nat :
              IsNextId(r) /\ Commit(Arrived(u, r, n, at))
  BY <1>1 DEF IsNextId, Commit, Arrived
<1>2. ASSUME NEW r \in DOMAIN reg, NEW target \in {"cancelled", "confirmed"},
             reg[r].state \in ActiveStates, Commit(Released(r, target))
      PROVE  q \in DOMAIN reg' /\ (reg'[q] = reg[q] \/ RowMoves(reg[q], reg'[q]))
  <2>1. DOMAIN reg' = DOMAIN reg /\ reg' = Released(r, target)
    BY <1>2 DEF Commit, Released
  <2> QED BY <1>2, <2>1, ReleaseMoves
<1>3. ASSUME NEW r \in DOMAIN reg, NEW target \in {"cancelled", "expired"}, NEW at \in Nat,
             reg[r].state \in ActiveStates,
             target = "expired" => reg[r].state = "cash_pending",
             ~PromotionRaises(Released(r, target), at),
             Commit(AfterPromotion(Released(r, target), at))
      PROVE  q \in DOMAIN reg' /\ (reg'[q] = reg[q] \/ RowMoves(reg[q], reg'[q]))
  <2> DEFINE g == Released(r, target)
  <2>1. reg' = AfterPromotion(g, at)
    BY <1>3 DEF Commit
  <2>2. Table(g) /\ DOMAIN g = DOMAIN reg /\ target \in States
    BY ReleasedIsTable DEF States
  <2>3. reg'[q] = g[q] \/ (g[q].state = "waitlisted" /\ RowMoves(g[q], reg'[q]))
    BY <1>3, <2>1, <2>2, PromotionMoves
  <2>4. DOMAIN reg' = DOMAIN reg
    BY <2>1, <2>2, PromotionIsTable
  <2>5. CASE q = r
    BY <1>3, <2>3, <2>4, <2>5, ReleaseMoves
  <2>6. CASE q # r
    <3>1. g[q] = reg[q]
      BY <1>3, <2>6, ReleaseMoves
    <3> QED BY <2>3, <2>4, <3>1
  <2> QED BY <2>5, <2>6
<1>4. CASE UNCHANGED <<reg, due>>
  BY <1>4
<1> QED BY <1>1, <1>2, <1>3, <1>4, StepForms

\* At most one row is new: the next one, numbered behind everyone waiting,
\* of a member who had no active registration.
Fresh(r, u, n, at) ==
    /\ IsNextId(r)
    /\ IsNextSequence(reg, n)
    /\ Active(reg, u) = {}
    /\ DOMAIN reg' = DOMAIN reg \cup {r}
    /\ reg'[r] = NewRow(u, n, at)

\* A fresh row is what the service inserts: seated, or last in the queue.
LEMMA FreshRow ==
    ASSUME TypeOK, [Next]_vars
    PROVE  \/ DOMAIN reg' = DOMAIN reg
           \/ \E u \in Users, r, n \in RegIds, at \in Nat : Fresh(r, u, n, at)
<1>1. ASSUME NEW u \in Users, NEW r \in RegIds, NEW n \in RegIds, NEW at \in Nat,
             Active(reg, u) = {}, IsNextId(r), IsNextSequence(reg, n),
             Commit(Arrived(u, r, n, at))
      PROVE  Fresh(r, u, n, at)
  BY <1>1 DEF Fresh, Commit, Arrived
<1>2. CASE \E r \in DOMAIN reg, target \in {"cancelled", "confirmed"} :
              Commit(Released(r, target))
  BY <1>2 DEF Commit, Released
<1>3. ASSUME NEW r \in DOMAIN reg, NEW target \in {"cancelled", "expired"}, NEW at \in Nat,
             Commit(AfterPromotion(Released(r, target), at))
      PROVE  DOMAIN reg' = DOMAIN reg
  <2>1. Table(Released(r, target)) /\ DOMAIN Released(r, target) = DOMAIN reg
    BY ReleasedIsTable DEF States
  <2> QED BY <1>3, <2>1, PromotionIsTable DEF Commit
<1>4. CASE UNCHANGED <<reg, due>>
  BY <1>4
<1> QED BY <1>1, <1>2, <1>3, <1>4, StepForms

-----------------------------------------------------------------------------
(***************************************************************************)
(* The inductive invariant DeskInv.  The queue is in order because numbers *)
(* are given out behind everyone waiting and rows are inserted without     *)
(* gaps; a pending row has its job because no waitlisted row has one yet.  *)
(***************************************************************************)
\* A legal transition keeps the CHECK constraint of the row.
LEMMA MoveKeepsShape ==
    ASSUME NEW row \in Row, RowShape(row), NEW next, RowMoves(row, next)
    PROVE  RowShape(next) /\ next.state # "waitlisted" /\ next.user = row.user
<1>1. PICK target \in States \ {"waitlisted"}, deadline \in Nat :
         /\ next = Moved(row, target, deadline)
         /\ row.state \in ActiveStates
         /\ target = "expired" => row.state = "cash_pending"
         /\ target = "cash_pending" => row.state = "waitlisted" /\ row.method = "cash"
         /\ target = "cash_pending" <=> deadline # NULL
  BY DEF RowMoves
<1>2. /\ next.user = row.user
      /\ next.method = row.method
      /\ next.state = target
      /\ next.seat_held = (target \in SeatStates)
      /\ next.waitlist_sequence = NULL
      /\ next.cash_expires_at = IF target = "expired" THEN row.cash_expires_at ELSE deadline
  BY <1>1 DEF Moved, Row
<1> QED BY <1>1, <1>2 DEF RowShape

\* A row is inserted with the shape the CHECK constraint asks for.
LEMMA FreshHasShape ==
    ASSUME TypeOK, NEW u \in Users, NEW n \in RegIds, NEW at \in Nat
    PROVE  /\ RowShape(NewRow(u, n, at))
           /\ NewRow(u, n, at).user = u
           /\ NewRow(u, n, at).state \in ActiveStates
           /\ NewRow(u, n, at).state = "waitlisted" => NewRow(u, n, at).waitlist_sequence = n
<1>1. CashDeadline(at) # NULL /\ n # NULL
  BY DeadlineIsTime, DeskAssumption DEF NULL, RegIds
<1>2. event.method \in Methods
  BY DEF TypeOK
<1> QED BY <1>1, <1>2 DEF NewRow, RowShape, ActiveStates, SeatStates, Methods

\* Every step keeps seat_held in agreement with the state of each row.
LEMMA KeepsSeatShape ==
    ASSUME TypeOK, SeatShape, [Next]_vars
    PROVE  SeatShape'
<1> SUFFICES ASSUME NEW q \in DOMAIN reg' PROVE RowShape(reg'[q])
  BY DEF SeatShape
<1>1. CASE q \in DOMAIN reg
  <2>1. reg[q] \in Row /\ RowShape(reg[q])
    BY <1>1 DEF TypeOK, SeatShape
  <2>2. reg'[q] = reg[q] \/ RowMoves(reg[q], reg'[q])
    BY <1>1, RowSteps
  <2> QED BY <2>1, <2>2, MoveKeepsShape
<1>2. CASE q \notin DOMAIN reg
  <2>1. PICK u \in Users, x \in RegIds, n \in RegIds, at \in Nat : Fresh(x, u, n, at)
    BY <1>2, FreshRow
  <2>2. reg'[q] = NewRow(u, n, at)
    BY <1>2, <2>1 DEF Fresh
  <2> QED BY <2>1, <2>2, FreshHasShape
<1> QED BY <1>1, <1>2

\* A row that is waitlisted after a step was so before, unchanged, or is new.
LEMMA WaitingBefore ==
    ASSUME TypeOK, SeatShape, [Next]_vars, NEW q \in Waiting(reg'), q \in DOMAIN reg
    PROVE  q \in Waiting(reg) /\ reg'[q] = reg[q]
<1>1. reg[q] \in Row /\ RowShape(reg[q])
  BY DEF TypeOK, SeatShape
<1>2. reg'[q] = reg[q] \/ RowMoves(reg[q], reg'[q])
  BY RowSteps
<1>3. reg'[q] = reg[q]
  BY <1>1, <1>2, MoveKeepsShape DEF Waiting
<1> QED BY <1>3 DEF Waiting

\* Rows are inserted one after another and never deleted.
LEMMA KeepsNoGaps ==
    ASSUME TypeOK, NoGaps, [Next]_vars
    PROVE  NoGaps'
<1>0. DOMAIN reg \subseteq Int /\ RegIds \subseteq Int
  BY DeskAssumption DEF TypeOK, RegIds
<1>1. CASE DOMAIN reg' = DOMAIN reg
  BY <1>1 DEF NoGaps
<1>2. ASSUME NEW r \in RegIds, IsNextId(r), DOMAIN reg' = DOMAIN reg \cup {r}
      PROVE  NoGaps'
  <2>1. \A q \in RegIds : q < r => q \in DOMAIN reg
    BY <1>0, <1>2 DEF IsNextId
  <2> QED BY <1>2, <2>1 DEF NoGaps
<1> QED BY <1>1, <1>2, FreshRow DEF Fresh

\* Every step keeps the queue numbers in the order of arrival.
LEMMA KeepsQueueInOrder ==
    ASSUME TypeOK, SeatShape, NoGaps, QueueInOrder, [Next]_vars
    PROVE  QueueInOrder'
<1> SUFFICES ASSUME NEW r \in Waiting(reg'), NEW q \in Waiting(reg'), r < q
             PROVE  reg'[r].waitlist_sequence < reg'[q].waitlist_sequence
  BY DEF QueueInOrder
<1>1. CASE r \in DOMAIN reg /\ q \in DOMAIN reg
  BY <1>1, WaitingBefore DEF QueueInOrder
<1>2. CASE r \notin DOMAIN reg \/ q \notin DOMAIN reg
  <2>0. r \in DOMAIN reg' /\ q \in DOMAIN reg'
    BY DEF Waiting
  <2>1. PICK u \in Users, x \in RegIds, n \in RegIds, at \in Nat : Fresh(x, u, n, at)
    BY <1>2, <2>0, FreshRow
  <2>2. IsNextId(x) /\ DOMAIN reg' = DOMAIN reg \cup {x}
    BY <2>1 DEF Fresh
  <2>3. q = x /\ r \in DOMAIN reg
    <3>1. x \notin DOMAIN reg /\ DOMAIN reg \subseteq RegIds
      BY <2>2 DEF IsNextId, TypeOK
    <3>2. \A y \in DOMAIN reg : y < x
      BY <2>1, <3>1, DeskAssumption DEF NoGaps, RegIds
    <3> QED BY <1>2, <2>0, <2>1, <2>2, <3>1, <3>2, DeskAssumption DEF RegIds
  <2>4. r \in Waiting(reg) /\ reg'[r] = reg[r]
    BY <2>3, WaitingBefore
  <2>5. reg[r].waitlist_sequence < n
    BY <2>1, <2>4 DEF Fresh, IsNextSequence
  <2>6. reg'[q].waitlist_sequence = n
    <3>1. reg'[q] = NewRow(u, n, at)
      BY <2>1, <2>3 DEF Fresh
    <3> QED BY <2>1, <3>1, FreshHasShape DEF Waiting
  <2> QED BY <2>4, <2>5, <2>6
<1> QED BY <1>1, <1>2

\* No step gives a member a second active row: registering looks for one
\* first, and no transition leads back from a terminal state.
LEMMA KeepsOneActive ==
    ASSUME TypeOK, SeatShape, OneActivePerMember, [Next]_vars
    PROVE  OneActivePerMember'
<1> SUFFICES ASSUME NEW u \in Users, NEW r \in Active(reg', u), NEW q \in Active(reg', u)
             PROVE  r = q
  BY DEF OneActivePerMember
<1>1. ASSUME NEW x \in Active(reg', u), x \in DOMAIN reg
      PROVE  x \in Active(reg, u)
  <2>1. reg[x] \in Row /\ RowShape(reg[x])
    BY <1>1 DEF TypeOK, SeatShape
  <2>2. reg'[x] = reg[x] \/ RowMoves(reg[x], reg'[x])
    BY <1>1, RowSteps
  <2>3. reg[x].user = u
    BY <2>1, <2>2, MoveKeepsShape DEF Active
  <2>4. reg[x].state \in ActiveStates
    BY <2>2 DEF Active, RowMoves
  <2> QED BY <1>1, <2>3, <2>4 DEF Active
<1>2. CASE r \in DOMAIN reg /\ q \in DOMAIN reg
  BY <1>1, <1>2 DEF OneActivePerMember
<1>3. CASE r \notin DOMAIN reg \/ q \notin DOMAIN reg
  <2>0. r \in DOMAIN reg' /\ q \in DOMAIN reg'
    BY DEF Active
  <2>1. PICK v \in Users, x \in RegIds, n \in RegIds, at \in Nat : Fresh(x, v, n, at)
    BY <1>3, <2>0, FreshRow
  <2>2. v = u
    BY <1>3, <2>0, <2>1, FreshHasShape DEF Fresh, Active
  <2>3. Active(reg, u) = {}
    BY <2>1, <2>2 DEF Fresh
  <2> QED BY <1>1, <2>0, <2>1, <2>3 DEF Fresh
<1> QED BY <1>2, <1>3

\* How the job table follows the registration table.
LEMMA JobSteps ==
    ASSUME TypeOK, [Next]_vars
    PROVE  /\ DOMAIN due' = DOMAIN due \cup NewlyPending(reg')
           /\ \A r \in DOMAIN due' :
                 due'[r] = IF r \in DOMAIN due THEN due[r] ELSE reg'[r].cash_expires_at
<1>1. ASSUME NEW g, Commit(g)
      PROVE  /\ DOMAIN due' = DOMAIN due \cup NewlyPending(reg')
             /\ \A r \in DOMAIN due' :
                   due'[r] = IF r \in DOMAIN due THEN due[r] ELSE reg'[r].cash_expires_at
  BY <1>1 DEF Commit
<1>2. CASE UNCHANGED <<reg, due>>
  <2>1. NewlyPending(reg') = {}
    BY <1>2 DEF NewlyPending
  <2> QED BY <1>2, <2>1 DEF TypeOK
<1> QED BY <1>1, <1>2, StepForms

\* Every step schedules the reservations it makes and schedules no row early.
LEMMA KeepsJobs ==
    ASSUME TypeOK, SeatShape, NoEarlyJob, PendingHasJob, [Next]_vars
    PROVE  NoEarlyJob' /\ PendingHasJob'
<1>0. DOMAIN due \subseteq DOMAIN reg
  BY DEF TypeOK
<1>1. ASSUME NEW r \in DOMAIN reg, reg'[r] # reg[r]
      PROVE  /\ RowMoves(reg[r], reg'[r])
             /\ reg'[r].state # "waitlisted"
             /\ reg'[r].state = "cash_pending" => reg[r].state = "waitlisted"
  <2>1. RowMoves(reg[r], reg'[r]) /\ reg[r] \in Row /\ RowShape(reg[r])
    BY <1>1, RowSteps DEF TypeOK, SeatShape
  <2>2. PICK target \in States \ {"waitlisted"}, deadline \in Nat :
           /\ reg'[r] = Moved(reg[r], target, deadline)
           /\ target = "cash_pending" => reg[r].state = "waitlisted"
    BY <2>1 DEF RowMoves
  <2>3. reg'[r].state = target
    BY <2>1, <2>2 DEF Moved, Row
  <2> QED BY <2>1, <2>2, <2>3
<1>2. NoEarlyJob'
  <2> SUFFICES ASSUME NEW r \in DOMAIN due' PROVE reg'[r].state # "waitlisted"
    BY DEF NoEarlyJob
  <2>1. CASE r \in DOMAIN due
    BY <1>0, <1>1, <2>1 DEF NoEarlyJob
  <2>2. CASE r \in NewlyPending(reg')
    BY <2>2 DEF NewlyPending
  <2> QED BY <2>1, <2>2, JobSteps
<1>3. PendingHasJob'
  <2> SUFFICES ASSUME NEW r \in DOMAIN reg', reg'[r].state = "cash_pending"
               PROVE  r \in DOMAIN due' /\ due'[r] = reg'[r].cash_expires_at
    BY DEF PendingHasJob
  <2>1. CASE r \in DOMAIN reg /\ reg'[r] = reg[r]
    BY <2>1, JobSteps DEF PendingHasJob
  <2>2. CASE r \in DOMAIN reg /\ reg'[r] # reg[r]
    <3>1. reg[r].state = "waitlisted"
      BY <1>1, <2>2
    <3>2. r \notin DOMAIN due
      BY <3>1 DEF NoEarlyJob
    <3>3. r \in NewlyPending(reg')
      BY <3>1 DEF NewlyPending
    <3> QED BY <3>2, <3>3, JobSteps
  <2>3. CASE r \notin DOMAIN reg
    <3>1. r \notin DOMAIN due /\ r \in NewlyPending(reg')
      BY <1>0, <2>3 DEF NewlyPending
    <3> QED BY <3>1, JobSteps
  <2> QED BY <2>1, <2>2, <2>3
<1> QED BY <1>2, <1>3

\* The inductive invariant holds of an event without registrations.
LEMMA InitHolds == ASSUME Init PROVE DeskInv
<1>1. DOMAIN reg = {} /\ DOMAIN due = {}
  BY DEF Init
<1>2. TypeOK
  BY InitTyped
<1>3. Waiting(reg) = {} /\ \A u \in Users : Active(reg, u) = {}
  BY <1>1 DEF Waiting, Active
<1> QED BY <1>1, <1>2, <1>3 DEF DeskInv, SeatShape, OneActivePerMember, NoGaps, QueueInOrder,
                                NoEarlyJob, PendingHasJob

\* Every step keeps the inductive invariant.
LEMMA StepHolds == ASSUME DeskInv, [Next]_vars PROVE DeskInv'
BY KeepsTypeOK, KeepsSeatShape, KeepsOneActive, KeepsNoGaps, KeepsQueueInOrder, KeepsJobs
   DEF DeskInv

\* The inductive invariant holds in every state of the desk.
THEOREM DeskInvariant == Spec => []DeskInv
BY InitHolds, StepHolds, PTL DEF Spec

\* A seat is held exactly by confirmed and cash-pending rows, and every row
\* satisfies the CHECK constraint of the registrations table.
THEOREM SeatsHaveShape == Spec => []SeatShape
<1>1. DeskInv => SeatShape
  BY DEF DeskInv
<1> QED BY <1>1, DeskInvariant, PTL

\* A member never has two active registrations of the event.
THEOREM OneActive == Spec => []OneActivePerMember
<1>1. DeskInv => OneActivePerMember
  BY DEF DeskInv
<1> QED BY <1>1, DeskInvariant, PTL

\* Queue numbers follow the order of arrival and are never shared.
THEOREM QueueOrdered == Spec => []QueueInOrder
<1>1. DeskInv => QueueInOrder
  BY DEF DeskInv
<1> QED BY <1>1, DeskInvariant, PTL

\* A held cash reservation always has the job that ends it.
THEOREM PendingScheduled == Spec => []PendingHasJob
<1>1. DeskInv => PendingHasJob
  BY DEF DeskInv
<1> QED BY <1>1, DeskInvariant, PTL

\* Cancelled and expired rows never change again.
THEOREM Final == Spec => TerminalIsFinal
<1>1. ASSUME DeskInv, [Next]_vars PROVE [FinalStep]_vars
  <2> SUFFICES ASSUME NEW r \in DOMAIN reg, reg[r].state \in {"cancelled", "expired"}
               PROVE  r \in DOMAIN reg' /\ reg'[r] = reg[r]
    BY DEF FinalStep
  <2>1. ~RowMoves(reg[r], reg'[r])
    BY DEF RowMoves, ActiveStates, SeatStates
  <2> QED BY <1>1, <2>1, RowSteps DEF DeskInv
<1> QED BY <1>1, DeskInvariant, PTL DEF Spec, TerminalIsFinal

-----------------------------------------------------------------------------
(***************************************************************************)
(* Seats and capacity.                                                     *)
(***************************************************************************)
\* The rows of a table are finitely many, so its seats can be counted.
LEMMA SeatsAreFinite ==
    ASSUME NEW g, Table(g)
    PROVE  IsFiniteSet(Held(g)) /\ Cardinality(Held(g)) \in Nat
<1>1. IsFiniteSet(RegIds)
  BY FS_Interval, DeskAssumption DEF RegIds
<1>2. Held(g) \subseteq RegIds
  BY DEF Held, Table
<1> QED BY <1>1, <1>2, FS_Subset, FS_CardinalityType

\* A table that differs in one row holds at most one seat more.
LEMMA OneMore ==
    ASSUME NEW S, IsFiniteSet(S), NEW x
    PROVE  /\ IsFiniteSet(S \cup {x})
           /\ Cardinality(S \cup {x}) <= Cardinality(S) + 1
<1>1. Cardinality(S) \in Nat
  BY FS_CardinalityType
<1>2. CASE x \in S
  <2>1. S \cup {x} = S
    BY <1>2
  <2>2. IsFiniteSet(S \cup {x}) /\ Cardinality(S \cup {x}) = Cardinality(S)
    BY <2>1, Zenon
  <2> QED BY <1>1, <2>2
<1>3. CASE x \notin S
  <2>1. Cardinality(S \cup {x}) = Cardinality(S) + 1 /\ IsFiniteSet(S \cup {x})
    BY <1>3, FS_AddElement
  <2> QED BY <1>1, <2>1
<1> QED BY <1>2, <1>3

Ordered(g) ==
    \A r, q \in Waiting(g) : r < q => g[r].waitlist_sequence < g[q].waitlist_sequence

\* One seat is offered to one member.
LEMMA FirstIsUnique ==
    ASSUME NEW g, Table(g), Ordered(g), NEW r \in FirstEligible(g), NEW q \in FirstEligible(g)
    PROVE  r = q
<1>1. r \in Waiting(g) /\ q \in Waiting(g) /\ r \in Int /\ q \in Int
  BY DeskAssumption DEF FirstEligible, Waiting, Table, RegIds
<1>2. g[r].waitlist_sequence \in Nat /\ g[q].waitlist_sequence \in Nat
  BY <1>1 DEF Waiting, Table, Row
<1>3. g[r].waitlist_sequence = g[q].waitlist_sequence
  BY <1>1, <1>2 DEF FirstEligible
<1> QED BY <1>1, <1>2, <1>3 DEF Ordered

\* Promotion fills at most one seat, and only a free one.
LEMMA PromotionBound ==
    ASSUME TypeOK, NEW at \in Nat, NEW g, Table(g), Ordered(g)
    PROVE  LET h == AfterPromotion(g, at)
           IN  \/ Cardinality(Held(h)) <= Cardinality(Held(g))
               \/ Cardinality(Held(h)) <= event.capacity
<1> DEFINE h == AfterPromotion(g, at)
<1>1. Table(h) /\ DOMAIN h = DOMAIN g
  BY PromotionIsTable
<1>2. /\ IsFiniteSet(Held(g)) /\ Cardinality(Held(g)) \in Nat
      /\ IsFiniteSet(Held(h)) /\ Cardinality(Held(h)) \in Nat
  BY <1>1, SeatsAreFinite
<1>3. event.capacity \in Nat
  BY DeskAssumption DEF TypeOK
<1>4. CASE ~PromotionOpen(g, at)
  BY <1>2, <1>4 DEF AfterPromotion
<1>5. CASE PromotionOpen(g, at)
  <2>1. Held(h) \subseteq Held(g) \cup FirstEligible(g)
    <3> SUFFICES ASSUME NEW r \in Held(h), r \notin FirstEligible(g)
                 PROVE  r \in Held(g)
      OBVIOUS
    <3>1. r \in DOMAIN g /\ g[r] \in Row /\ h[r].seat_held
      BY <1>1 DEF Held, Table
    <3>2. ~Moved(g[r], "cancelled", NULL).seat_held
      BY <3>1 DEF Moved, Row, SeatStates
    <3>3. h[r] = g[r]
      BY <1>5, <3>1, <3>2 DEF AfterPromotion
    <3> QED BY <3>1, <3>3 DEF Held
  <2>2. CASE FirstEligible(g) = {}
    BY <1>2, <2>1, <2>2, FS_Subset
  <2>3. CASE FirstEligible(g) # {}
    <3>1. PICK x : x \in FirstEligible(g)
      BY <2>3
    <3>2. FirstEligible(g) = {x}
      BY <3>1, FirstIsUnique
    <3>3. /\ IsFiniteSet(Held(g) \cup {x})
          /\ Cardinality(Held(g) \cup {x}) <= Cardinality(Held(g)) + 1
      BY <1>2, OneMore
    <3>4. Cardinality(Held(h)) <= Cardinality(Held(g) \cup {x})
      BY <2>1, <3>2, <3>3, FS_Subset
    <3>5. Cardinality(Held(g) \cup {x}) \in Nat
      BY <3>3, FS_CardinalityType
    <3> QED BY <1>2, <1>3, <1>5, <3>3, <3>4, <3>5 DEF PromotionOpen, SeatAvailable
  <2> QED BY <2>2, <2>3
<1> QED BY <1>4, <1>5

\* Releasing a row takes it out of the queue and out of its seat.
LEMMA ReleasedTable ==
    ASSUME TypeOK, SeatShape, QueueInOrder, NEW r \in DOMAIN reg,
           NEW target \in {"cancelled", "confirmed", "expired"}
    PROVE  LET g == Released(r, target)
           IN  /\ Waiting(g) = Waiting(reg) \ {r}
               /\ \A q \in Waiting(g) : g[q] = reg[q]
               /\ Ordered(g)
               /\ target # "confirmed" => Held(g) = Held(reg) \ {r}
               /\ target = "confirmed" => Held(g) = Held(reg) \cup {r}
<1> DEFINE g == Released(r, target)
<1>1. DOMAIN g = DOMAIN reg /\ \A q \in DOMAIN reg : q # r => g[q] = reg[q]
  BY DEF Released, TypeOK
<1>2. g[r].state = target /\ g[r].seat_held = (target \in SeatStates)
  BY DEF Released, TypeOK, Moved, Row
<1>3. Waiting(g) = Waiting(reg) \ {r}
  BY <1>1, <1>2 DEF Waiting
<1>4. \A q \in Waiting(g) : g[q] = reg[q]
  BY <1>1, <1>3 DEF Waiting
<1>5. Ordered(g)
  BY <1>3, <1>4 DEF Ordered, QueueInOrder
<1>6. target # "confirmed" => Held(g) = Held(reg) \ {r}
  BY <1>1, <1>2 DEF Held, SeatStates
<1>7. target = "confirmed" => Held(g) = Held(reg) \cup {r}
  BY <1>1, <1>2 DEF Held, SeatStates
<1> QED BY <1>3, <1>4, <1>5, <1>6, <1>7

\* No step takes the seats held beyond the capacity of that moment.
LEMMA StepWithinCapacity ==
    ASSUME TypeOK, SeatShape, QueueInOrder, [Next]_vars
    PROVE  GrowthWithinCapacity
<1>0. /\ Table(reg) /\ IsFiniteSet(Held(reg)) /\ Cardinality(Held(reg)) \in Nat
      /\ event.capacity \in Nat
  BY SeatsAreFinite, DeskAssumption DEF Table, TypeOK
<1>1. ASSUME NEW u \in Users, NEW r \in RegIds, NEW n \in RegIds, NEW at \in Nat,
             Commit(Arrived(u, r, n, at)), IsNextId(r)
      PROVE  GrowthWithinCapacity
  <2>1. DOMAIN reg' = DOMAIN reg \cup {r} /\ reg'[r] = NewRow(u, n, at) /\ event' = event
    BY <1>1 DEF Commit, Arrived
  <2>2. \A q \in DOMAIN reg : reg'[q] = reg[q]
    BY <1>1 DEF Commit, Arrived, IsNextId
  <2>3. CASE SeatAvailable(reg)
    <3>1. Held(reg') \subseteq Held(reg) \cup {r}
      <4> SUFFICES ASSUME NEW q \in Held(reg'), q # r PROVE q \in Held(reg)
        OBVIOUS
      <4>1. q \in DOMAIN reg' /\ reg'[q].seat_held
        BY DEF Held
      <4>2. q \in DOMAIN reg /\ reg'[q] = reg[q]
        BY <2>1, <2>2, <4>1
      <4> QED BY <4>1, <4>2 DEF Held
    <3>2. /\ IsFiniteSet(Held(reg) \cup {r})
          /\ Cardinality(Held(reg) \cup {r}) <= Cardinality(Held(reg)) + 1
      BY <1>0, OneMore
    <3>3. Cardinality(Held(reg')) <= Cardinality(Held(reg) \cup {r})
      BY <3>1, <3>2, FS_Subset
    <3>4. Cardinality(Held(reg) \cup {r}) \in Nat /\ Cardinality(Held(reg')) \in Nat
      BY <3>1, <3>2, FS_Subset, FS_CardinalityType
    <3> QED BY <1>0, <2>1, <2>3, <3>2, <3>3, <3>4 DEF SeatAvailable, GrowthWithinCapacity
  <2>4. CASE ~SeatAvailable(reg)
    <3>1. ~reg'[r].seat_held
      <4>1. reg'[r].state = "waitlisted"
        BY <2>1, <2>4 DEF NewRow
      <4>2. RowShape(reg'[r])
        BY <2>1, FreshHasShape
      <4> QED BY <4>1, <4>2 DEF RowShape, SeatStates
    <3>2. Held(reg') = Held(reg)
      BY <2>1, <2>2, <3>1, <1>1 DEF Held, IsNextId
    <3> QED BY <1>0, <3>2 DEF GrowthWithinCapacity
  <2> QED BY <2>3, <2>4
<1>2. ASSUME NEW r \in DOMAIN reg, NEW target \in {"cancelled", "confirmed"},
             target = "cancelled" => ~reg[r].seat_held,
             target = "confirmed" => reg[r].state = "cash_pending",
             Commit(Released(r, target))
      PROVE  GrowthWithinCapacity
  <2>1. target = "confirmed" => reg[r].seat_held
    BY <1>2 DEF SeatShape, RowShape, SeatStates
  <2>2. reg' = Released(r, target)
    BY <1>2 DEF Commit
  <2>3. CASE target = "cancelled"
    <3>1. Held(reg') = Held(reg) \ {r}
      BY <2>2, <2>3, ReleasedTable
    <3>2. r \notin Held(reg)
      BY <1>2, <2>3 DEF Held
    <3>3. Held(reg') = Held(reg)
      BY <3>1, <3>2
    <3> QED BY <1>0, <3>3 DEF GrowthWithinCapacity
  <2>4. CASE target = "confirmed"
    <3>1. Held(reg') = Held(reg) \cup {r}
      BY <2>2, <2>4, ReleasedTable
    <3>2. r \in Held(reg)
      BY <2>1, <2>4 DEF Held
    <3>3. Held(reg') = Held(reg)
      BY <3>1, <3>2
    <3> QED BY <1>0, <3>3 DEF GrowthWithinCapacity
  <2> QED BY <2>3, <2>4
<1>3. ASSUME NEW r \in DOMAIN reg, NEW target \in {"cancelled", "expired"}, NEW at \in Nat,
             Commit(AfterPromotion(Released(r, target), at))
      PROVE  GrowthWithinCapacity
  <2> DEFINE g == Released(r, target)
  <2>0. target \in States
    BY DEF States
  <2>1. Table(g) /\ Ordered(g) /\ Held(g) \subseteq Held(reg)
    BY <2>0, ReleasedIsTable, ReleasedTable
  <2>2. reg' = AfterPromotion(g, at) /\ event' = event
    BY <1>3 DEF Commit
  <2>3. \/ Cardinality(Held(reg')) <= Cardinality(Held(g))
        \/ Cardinality(Held(reg')) <= event.capacity
    BY <2>1, <2>2, PromotionBound
  <2>4. Cardinality(Held(g)) <= Cardinality(Held(reg)) /\ Cardinality(Held(g)) \in Nat
    BY <1>0, <2>1, FS_Subset, SeatsAreFinite
  <2>5. Cardinality(Held(reg')) \in Nat
    BY <2>1, <2>2, PromotionIsTable, SeatsAreFinite
  <2> QED BY <1>0, <2>2, <2>3, <2>4, <2>5 DEF GrowthWithinCapacity
<1>4. CASE UNCHANGED <<reg, due>>
  BY <1>0, <1>4 DEF GrowthWithinCapacity
<1> QED BY <1>1, <1>2, <1>3, <1>4, StepForms

\* No transaction fills a seat the event does not have at that moment, for
\* every capacity an organizer moves between and however requests interleave.
THEOREM NoOverselling == Spec => NeverOversells
<1>1. DeskInv /\ [Next]_vars => [GrowthWithinCapacity]_vars
  BY StepWithinCapacity DEF DeskInv
<1> QED BY <1>1, DeskInvariant, PTL DEF Spec, NeverOversells

\* Where organizers never lower a published capacity, the seats held never
\* exceed it: lowering is the only way an event gets over capacity.
THEOREM FixedCapacity == SpecNoLowering => []NeverOverCapacity
<1>1. ASSUME Init PROVE DeskInv /\ NeverOverCapacity
  <2>1. Held(reg) = {}
    BY <1>1 DEF Init, Held
  <2>2. event.capacity \in Nat
    BY <1>1, InitTyped, DeskAssumption DEF TypeOK
  <2> QED BY <1>1, <2>1, <2>2, InitHolds, FS_EmptySet DEF NeverOverCapacity
<1>2. ASSUME DeskInv, NeverOverCapacity, [NextNoLowering]_vars
      PROVE  DeskInv' /\ NeverOverCapacity'
  <2>1. [Next]_vars
    BY <1>2 DEF NextNoLowering
  <2>2. DeskInv'
    BY <1>2, <2>1, StepHolds
  <2>3. GrowthWithinCapacity
    BY <1>2, <2>1, StepWithinCapacity DEF DeskInv
  <2>4. event.capacity \in Nat /\ event'.capacity \in Nat /\ event'.capacity >= event.capacity
    BY <1>2, <2>2, DeskAssumption DEF DeskInv, TypeOK, NextNoLowering, vars
  <2>5. Cardinality(Held(reg)) \in Nat
    BY <1>2, SeatsAreFinite DEF DeskInv, TypeOK, Table
  <2>6. Cardinality(Held(reg')) \in Nat
    <3>1. Table(reg')
      BY <2>2 DEF DeskInv, TypeOK, Table
    <3> QED BY <3>1, SeatsAreFinite
  <2> QED BY <1>2, <2>2, <2>3, <2>4, <2>5, <2>6 DEF GrowthWithinCapacity, NeverOverCapacity
<1> QED BY <1>1, <1>2, PTL DEF SpecNoLowering

-----------------------------------------------------------------------------
(***************************************************************************)
(* The order of promotion.                                                 *)
(***************************************************************************)
\* In an ordered queue the member who gets the seat leaves behind no earlier
\* member but those the same promotion cancels.
LEMMA PromotionTakesFirst ==
    ASSUME TypeOK, SeatShape, NEW at \in Nat, NEW g, Table(g), Ordered(g),
           NEW r \in Waiting(g), AfterPromotion(g, at)[r].seat_held, ~g[r].seat_held,
           NEW q \in Waiting(g), q < r
    PROVE  AfterPromotion(g, at)[q].state = "cancelled"
<1>0. /\ r \in DOMAIN g /\ q \in DOMAIN g /\ g[r] \in Row /\ g[q] \in Row
      /\ g[r].waitlist_sequence \in Nat /\ g[q].waitlist_sequence \in Nat
      /\ g[q].waitlist_sequence < g[r].waitlist_sequence
  BY DEF Waiting, Table, Row, Ordered
<1>1. PromotionOpen(g, at)
  BY DEF AfterPromotion
<1>2. ~Moved(g[r], "cancelled", NULL).seat_held
  BY <1>0 DEF Moved, Row, SeatStates
<1>3. r \in FirstEligible(g)
  BY <1>0, <1>1, <1>2 DEF AfterPromotion
<1>4. g[q].user \notin eligible
  BY <1>0, <1>3 DEF FirstEligible
<1>5. q \in Skipped(g)
  <2> SUFFICES ASSUME NEW f \in FirstEligible(g)
               PROVE  g[q].waitlist_sequence < g[f].waitlist_sequence
    BY <1>4 DEF Skipped
  <2>1. f = r
    BY <1>3, FirstIsUnique
  <2> QED BY <1>0, <2>1
<1>6. q \notin FirstEligible(g)
  BY <1>4 DEF FirstEligible
<1>7. AfterPromotion(g, at)[q] = Moved(g[q], "cancelled", NULL)
  BY <1>0, <1>1, <1>5, <1>6 DEF AfterPromotion
<1> QED BY <1>0, <1>7 DEF Moved, Row

\* A step that promotes takes the first eligible member of the queue.
LEMMA StepIsFifo ==
    ASSUME TypeOK, SeatShape, QueueInOrder, [Next]_vars
    PROVE  FifoStep
<1> SUFFICES ASSUME NEW r \in Waiting(reg), reg'[r].seat_held,
                    NEW q \in Waiting(reg), q < r
             PROVE  reg'[q].state = "cancelled"
  BY DEF FifoStep
<1>0. /\ r \in DOMAIN reg /\ q \in DOMAIN reg /\ reg[r].state = "waitlisted"
      /\ ~reg[r].seat_held
  BY DEF Waiting, SeatShape, RowShape, SeatStates
<1>1. ASSUME NEW x \in RegIds, NEW u \in Users, NEW n \in RegIds, NEW at \in Nat,
             IsNextId(x), Commit(Arrived(u, x, n, at))
      PROVE  FALSE
  BY <1>0, <1>1 DEF IsNextId, Commit, Arrived
<1>2. ASSUME NEW x \in DOMAIN reg, NEW target \in {"cancelled", "confirmed"},
             target = "confirmed" => reg[x].state = "cash_pending",
             Commit(Released(x, target))
      PROVE  FALSE
  <2>1. r \in Held(Released(x, target))
    BY <1>0, <1>2 DEF Commit, Held, Released
  <2>2. CASE target = "cancelled"
    BY <1>0, <2>1, <2>2, ReleasedTable DEF Held
  <2>3. CASE target = "confirmed"
    BY <1>0, <1>2, <2>1, <2>3, ReleasedTable DEF Held
  <2> QED BY <2>2, <2>3
<1>3. ASSUME NEW x \in DOMAIN reg, NEW target \in {"cancelled", "expired"}, NEW at \in Nat,
             target = "expired" => reg[x].state = "cash_pending",
             target = "cancelled" => reg[x].seat_held,
             Commit(AfterPromotion(Released(x, target), at))
      PROVE  reg'[q].state = "cancelled"
  <2> DEFINE g == Released(x, target)
  <2>1. x \notin Waiting(reg)
    BY <1>3 DEF Waiting, SeatShape, RowShape, SeatStates
  <2>2. target \in States
    BY DEF States
  <2>3. Table(g)
    BY <2>2, ReleasedIsTable
  <2>4. Ordered(g) /\ Waiting(g) = Waiting(reg) /\ \A y \in Waiting(g) : g[y] = reg[y]
    BY <2>1, ReleasedTable
  <2>5. reg' = AfterPromotion(g, at)
    BY <1>3 DEF Commit
  <2>6. r \in Waiting(g) /\ q \in Waiting(g) /\ ~g[r].seat_held
    BY <1>0, <2>4
  <2> HIDE DEF g
  <2>7. AfterPromotion(g, at)[r].seat_held
    BY <2>5
  <2> QED BY <2>3, <2>4, <2>5, <2>6, <2>7, PromotionTakesFirst
<1>4. CASE UNCHANGED <<reg, due>>
  BY <1>0, <1>4
<1> QED BY <1>1, <1>2, <1>3, <1>4, StepForms

\* Promotion is first come, first served among eligible members, in every
\* history of the event.
THEOREM Fifo == Spec => PromotionIsFifo
<1>1. DeskInv /\ [Next]_vars => [FifoStep]_vars
  BY StepIsFifo DEF DeskInv
<1> QED BY <1>1, DeskInvariant, PTL DEF Spec, PromotionIsFifo

-----------------------------------------------------------------------------
(***************************************************************************)
(* No idle seat.                                                           *)
(***************************************************************************)
\* If an eligible member waits, promotion finds somebody: the queue numbers
\* of the eligible members have a least one.
LEMMA SomeoneIsFirst ==
    ASSUME NEW g, Table(g), NEW w \in Waiting(g), g[w].user \in eligible
    PROVE  FirstEligible(g) # {}
<1> DEFINE E == {r \in Waiting(g) : g[r].user \in eligible}
           N == {g[r].waitlist_sequence : r \in E}
<1>1. N \subseteq Nat /\ N # {}
  BY DEF Waiting, Table, Row
<1> HIDE DEF N
<1>2. PICK n \in N : \A m \in N : ~(<<m, n>> \in OpToRel(<, Nat))
  BY <1>1, NatLessThanWellFounded, WFMin
<1>3. n \in N /\ \A m \in N : ~(m < n)
  BY <1>1, <1>2 DEF OpToRel
<1>4. PICK r \in E : g[r].waitlist_sequence = n
  BY <1>3 DEF N
<1>5. \A q \in E : g[q].waitlist_sequence \in N
  BY DEF N
<1>6. \A q \in E : n <= g[q].waitlist_sequence
  <2> SUFFICES ASSUME NEW m \in N PROVE n <= m
    BY <1>5, Zenon
  <2>1. n \in Nat /\ m \in Nat /\ ~(m < n)
    BY <1>1, <1>3, Zenon
  <2> QED BY <2>1
<1>7. r \in FirstEligible(g)
  BY <1>4, <1>6 DEF FirstEligible
<1> QED BY <1>7

\* An open promotion fills a seat, or nobody eligible is left waiting.
LEMMA PromotionFills ==
    ASSUME TypeOK, NEW at \in Nat, NEW g, Table(g), PromotionOpen(g, at),
           \A r \in DOMAIN g : g[r].state = "waitlisted" => ~g[r].seat_held,
           ~PromotionRaises(g, at)
    PROVE  LET h == AfterPromotion(g, at)
           IN  \/ Cardinality(Held(h)) >= Cardinality(Held(g)) + 1
               \/ \A r \in Waiting(h) : h[r].user \notin eligible
<1> DEFINE h == AfterPromotion(g, at)
<1>0. Table(h) /\ DOMAIN h = DOMAIN g
  BY PromotionIsTable
<1>1. CASE FirstEligible(g) = {}
  <2> SUFFICES ASSUME NEW r \in Waiting(h) PROVE h[r].user \notin eligible
    OBVIOUS
  <2>1. r \in DOMAIN g /\ g[r] \in Row
    BY <1>0 DEF Waiting, Table
  <2>2. Moved(g[r], "cancelled", NULL).state # "waitlisted"
    BY <2>1 DEF Moved, Row
  <2>3. h[r] = g[r]
    BY <1>1, <2>1, <2>2 DEF AfterPromotion, Waiting
  <2>4. r \in Waiting(g)
    BY <2>1, <2>3 DEF Waiting
  <2> QED BY <1>1, <2>3, <2>4, SomeoneIsFirst
<1>2. CASE FirstEligible(g) # {}
  <2>1. PICK x : x \in FirstEligible(g)
    BY <1>2
  <2>2. x \in DOMAIN g /\ g[x] \in Row /\ x \notin Held(g)
    BY <2>1 DEF FirstEligible, Waiting, Table, Held
  <2>3. h[x].seat_held
    <3> DEFINE d == IF event.method = "cash" THEN CashDeadline(at) ELSE NULL
    <3>1. h[x] = Moved(g[x], PromotionTarget, d)
      BY <2>1, <2>2 DEF AfterPromotion
    <3> HIDE DEF d
    <3>2. PromotionTarget \in SeatStates
      BY DEF PromotionTarget, SeatStates
    <3> QED BY <2>2, <3>1, <3>2 DEF Moved, Row
  <2>4. Held(g) \cup {x} \subseteq Held(h)
    <3>1. ASSUME NEW r \in Held(g) PROVE r \in Held(h)
      <4>1. r \in DOMAIN g /\ r \notin Waiting(g)
        BY DEF Held, Waiting
      <4>2. h[r] = g[r]
        BY <4>1 DEF AfterPromotion, FirstEligible, Skipped
      <4> QED BY <1>0, <4>1, <4>2 DEF Held
    <3> QED BY <1>0, <2>2, <2>3, <3>1 DEF Held
  <2>5. IsFiniteSet(Held(g)) /\ IsFiniteSet(Held(h)) /\ Cardinality(Held(g)) \in Nat
        /\ Cardinality(Held(h)) \in Nat
    BY <1>0, SeatsAreFinite
  <2>6. Cardinality(Held(g) \cup {x}) = Cardinality(Held(g)) + 1
    BY <2>2, <2>5, FS_AddElement
  <2>7. Cardinality(Held(g) \cup {x}) <= Cardinality(Held(h))
    BY <2>4, <2>5, FS_Subset
  <2> QED BY <2>5, <2>6, <2>7
<1> QED BY <1>1, <1>2

\* A step that frees a seat fills it, or leaves nobody eligible waiting.
LEMMA StepLeavesNoIdleSeat ==
    ASSUME TypeOK, SeatShape, QueueInOrder, [Next]_vars
    PROVE  NoIdleSeatStep
<1>0. Table(reg) /\ IsFiniteSet(Held(reg)) /\ Cardinality(Held(reg)) \in Nat
      /\ event.capacity \in Nat /\ event.start \in Nat /\ clock \in Nat
  BY SeatsAreFinite, DeskAssumption DEF Table, TypeOK
<1>1. ASSUME Held(reg) \subseteq Held(reg'), Table(reg') PROVE NoIdleSeatStep
  <2>1. Cardinality(Held(reg)) <= Cardinality(Held(reg')) /\ Cardinality(Held(reg')) \in Nat
    BY <1>1, SeatsAreFinite, FS_Subset
  <2> QED BY <1>0, <2>1 DEF NoIdleSeatStep
<1>2. Table(reg')
  BY KeepsTypeOK DEF TypeOK, Table
<1>3. ASSUME NEW r \in RegIds, NEW u \in Users, NEW n \in RegIds, NEW at \in Nat,
             IsNextId(r), Commit(Arrived(u, r, n, at))
      PROVE  NoIdleSeatStep
  <2>1. Held(reg) \subseteq Held(reg')
    BY <1>3 DEF IsNextId, Commit, Arrived, Held
  <2> QED BY <1>1, <1>2, <2>1
<1>4. ASSUME NEW r \in DOMAIN reg, NEW target \in {"cancelled", "confirmed"},
             target = "cancelled" => ~reg[r].seat_held,
             Commit(Released(r, target))
      PROVE  NoIdleSeatStep
  <2>1. r \notin Held(reg) \/ target = "confirmed"
    BY <1>4 DEF Commit, Held
  <2>2. reg' = Released(r, target)
    BY <1>4 DEF Commit
  <2>3. CASE target = "cancelled"
    BY <1>1, <1>2, <2>1, <2>2, <2>3, ReleasedTable
  <2>4. CASE target = "confirmed"
    BY <1>1, <1>2, <2>2, <2>4, ReleasedTable
  <2> QED BY <2>3, <2>4
<1>5. ASSUME NEW r \in DOMAIN reg, NEW target \in {"cancelled", "expired"}, NEW at \in Nat,
             at <= clock,
             ~PromotionRaises(Released(r, target), at),
             Commit(AfterPromotion(Released(r, target), at))
      PROVE  NoIdleSeatStep
  <2> DEFINE g == Released(r, target)
  <2>1. target \in States /\ target # "confirmed"
    BY DEF States
  <2>2. Table(g) /\ Held(g) = Held(reg) \ {r} /\ Waiting(g) = Waiting(reg) \ {r}
        /\ \A q \in Waiting(g) : g[q] = reg[q]
    BY <2>1, ReleasedIsTable, ReleasedTable
  <2>3. \A q \in DOMAIN g : g[q].state = "waitlisted" => ~g[q].seat_held
    <3> SUFFICES ASSUME NEW q \in Waiting(g) PROVE ~g[q].seat_held
      BY DEF Waiting
    <3>1. q \in DOMAIN reg /\ reg[q].state = "waitlisted" /\ g[q] = reg[q]
      BY <2>2 DEF Waiting
    <3> QED BY <3>1 DEF SeatShape, RowShape, SeatStates
  <2>4. /\ Cardinality(Held(g)) \in Nat
        /\ Cardinality(Held(reg)) <= Cardinality(Held(g)) + 1
    <3>1. Held(reg) \subseteq Held(g) \cup {r} /\ IsFiniteSet(Held(g))
      BY <2>2, SeatsAreFinite
    <3>2. IsFiniteSet(Held(g) \cup {r}) /\ Cardinality(Held(g) \cup {r}) <= Cardinality(Held(g)) + 1
      BY <3>1, OneMore
    <3>3. Cardinality(Held(reg)) <= Cardinality(Held(g) \cup {r})
      BY <3>1, <3>2, FS_Subset
    <3>4. Cardinality(Held(g)) \in Nat /\ Cardinality(Held(g) \cup {r}) \in Nat
      BY <3>1, <3>2, FS_CardinalityType
    <3> QED BY <1>0, <3>2, <3>3, <3>4
  <2>5. reg' = AfterPromotion(g, at)
    BY <1>5 DEF Commit
  <2>6. Cardinality(Held(reg')) \in Nat
    BY <1>2, SeatsAreFinite
  <2> HIDE DEF g
  <2>7. CASE PromotionOpen(g, at)
    <3>1. \/ Cardinality(Held(reg')) >= Cardinality(Held(g)) + 1
          \/ \A q \in Waiting(reg') : reg'[q].user \notin eligible
      BY <1>5, <2>2, <2>3, <2>5, <2>7, PromotionFills DEF g
    <3> QED BY <1>0, <2>4, <2>6, <3>1 DEF NoIdleSeatStep
  <2>8. CASE ~PromotionOpen(g, at)
    <3>1. reg' = g
      BY <2>5, <2>8 DEF AfterPromotion
    <3> QED BY <1>0, <1>5, <2>4, <2>8, <3>1 DEF PromotionOpen, SeatAvailable, NoIdleSeatStep
  <2> QED BY <2>7, <2>8
<1>6. CASE UNCHANGED <<reg, due>>
  BY <1>1, <1>2, <1>6
<1> QED BY <1>3, <1>4, <1>5, <1>6, StepForms

\* A freed seat is offered on in the same transaction whenever an eligible
\* member waits, the event has not started and is not over capacity.
THEOREM NoIdleSeat == Spec => FreedSeatIsOffered
<1>1. DeskInv /\ [Next]_vars => [NoIdleSeatStep]_vars
  BY StepLeavesNoIdleSeat DEF DeskInv
<1> QED BY <1>1, DeskInvariant, PTL DEF Spec, FreedSeatIsOffered

-----------------------------------------------------------------------------
(***************************************************************************)
(* The workers that expire reservations.                                   *)
(***************************************************************************)
\* What a worker has in memory.
Batches == UNION {[S -> Nat \ {0}] : S \in SUBSET RegIds}

Runs == [current : 0..MaxTime, batch : Batches, failing : RegIds \cup {NULL}]

\* The clock reading of a batch is one the clock has shown.
RunsAreTyped ==
    /\ run \in [Workers -> Runs]
    /\ \A w \in Workers : DOMAIN run[w].batch # {} => run[w].current \in 1..clock
    /\ clock <= MaxTime

\* The inductive invariant.
IndInv ==
    /\ DeskInv
    /\ ExpiryTypeOK
    /\ RunsAreTyped
    /\ DeliveredMeansEnded

-----------------------------------------------------------------------------
LEMMA PowerIsNatural ==
    ASSUME NEW k \in Nat
    PROVE  2^k \in Nat
<1>1. IsFiniteSet(1..k) /\ Cardinality(1..k) = k
  BY FS_Interval
<1>2. IsFiniteSet(SUBSET (1..k)) /\ Cardinality(SUBSET (1..k)) = 2^k
  BY <1>1, FS_SUBSET
<1> QED BY <1>2, FS_CardinalityType

LEMMA ConstantsAreNumbers ==
    /\ Nobody \notin Names /\ NameOf \in [Workers -> Names] /\ Lease \in Nat /\ Lease > 0 /\ RetryBase \in Nat
    /\ MaxAttempts \in Nat /\ MaxFaults \in Nat /\ MaxTime \in Nat /\ MaxTime > 0
    /\ MaxRegs \in Nat
BY ExpiryAssumption, DeskAssumption

LEMMA BatchForm ==
    ASSUME NEW b \in Batches
    PROVE  /\ DOMAIN b \subseteq RegIds
           /\ \A r \in DOMAIN b : b[r] \in Nat \ {0}
           /\ \A r : [q \in DOMAIN b \ {r} |-> b[q]] \in Batches
<1>1. PICK S \in SUBSET RegIds : b \in [S -> Nat \ {0}]
  BY DEF Batches
<1>2. ASSUME NEW r
      PROVE  [q \in DOMAIN b \ {r} |-> b[q]] \in [DOMAIN b \ {r} -> Nat \ {0}]
  BY <1>1
<1>3. \A r : DOMAIN b \ {r} \in SUBSET RegIds
  BY <1>1
<1> QED BY <1>1, <1>2, <1>3 DEF Batches

LEMMA IdleIsRun == Idle \in Runs /\ DOMAIN Idle.batch = {}
<1>1. [r \in {} |-> 0] \in [{} -> Nat \ {0}]
  OBVIOUS
<1>2. [r \in {} |-> 0] \in Batches
  BY <1>1 DEF Batches
<1>3. 0 \in 0..MaxTime
  BY ConstantsAreNumbers
<1> QED BY <1>2, <1>3 DEF Idle, Runs

\* A worker that is through with a job has it in its batch no more.
LEMMA ThroughForm ==
    ASSUME NEW w \in Workers, run[w] \in Runs, NEW r \in DOMAIN run[w].batch
    PROVE  /\ Through(w, r) \in Runs /\ Through(w, r).failing = NULL
           /\ DOMAIN Through(w, r).batch = DOMAIN run[w].batch \ {r}
           /\ DOMAIN Through(w, r).batch # {} => Through(w, r).current = run[w].current
           /\ Through(w, r) # run[w]
<1> DEFINE b == [q \in DOMAIN run[w].batch \ {r} |-> run[w].batch[q]]
           left == [run[w] EXCEPT !.batch = b, !.failing = NULL]
<1>1. run[w].batch \in Batches
  BY DEF Runs
<1>2. b \in Batches /\ DOMAIN b = DOMAIN run[w].batch \ {r}
  BY <1>1, BatchForm
<1>3. Through(w, r) = IF DOMAIN run[w].batch = {r} THEN Idle ELSE left
  BY DEF Through, Runs
<1> HIDE DEF b
<1>4. left \in Runs /\ left.failing = NULL /\ left.batch = b /\ left.current = run[w].current
  BY <1>2 DEF Runs
<1> HIDE DEF left
<1>5. Idle.failing = NULL
  BY DEF Idle
<1>6. DOMAIN Through(w, r).batch = DOMAIN run[w].batch \ {r}
  BY <1>2, <1>3, <1>4, IdleIsRun
<1> QED BY <1>3, <1>4, <1>5, <1>6, IdleIsRun

-----------------------------------------------------------------------------
(***************************************************************************)
(* The desk under the workers.                                             *)
(***************************************************************************)
\* Whatever a worker or an administrator does, the desk takes one of its own
\* steps or none.
LEMMA DeskMoves ==
    ASSUME IndInv, [ExpiryNext]_allVars
    PROVE  [Next]_vars
<1> USE DEF IndInv
<1>1. CASE DeskStep
  BY <1>1 DEF DeskStep, Next
<1>2. ASSUME NEW w \in Workers, NEW r \in RegIds, ProcessJob(w, r)
      PROVE  [Next]_vars
  <2>1. CASE UNCHANGED vars
    BY <2>1
  <2>2. CASE ExpireCash(r, run[w].current)
    <3>1. run[w].current \in 1..clock /\ clock \in 1..MaxTime
      BY <1>2, ConstantsAreNumbers DEF ProcessJob, Turn, RunsAreTyped, DeskInv, TypeOK
    <3>2. run[w].current \in 1..MaxTime
      BY <3>1, ConstantsAreNumbers
    <3> QED BY <2>2, <3>2 DEF Next
  <2> QED BY <1>2, <2>1, <2>2 DEF ProcessJob
<1>3. CASE UNCHANGED vars
  BY <1>3
<1>4. CASE \E w \in Workers : WorkerStep(w) \/ Crash(w)
  BY <1>2, <1>3, <1>4 DEF WorkerStep, Claim, SkipJob, FailJob, RecordFailure, Crash
<1>5. CASE \E r \in RegIds : AdminRetry(r)
  BY <1>3, <1>5 DEF AdminRetry
<1> QED BY <1>1, <1>3, <1>4, <1>5 DEF ExpiryNext, allVars

\* A row that has a job never becomes pending again.
LEMMA JobsAreOld ==
    ASSUME DeskInv, [Next]_vars
    PROVE  /\ DOMAIN due \subseteq DOMAIN due'
           /\ \A r \in DOMAIN due : reg[r].state # "cash_pending" => reg'[r].state # "cash_pending"
<1>1. DOMAIN due \subseteq DOMAIN due'
  BY JobSteps DEF DeskInv
<1>2. ASSUME NEW r \in DOMAIN due, reg[r].state # "cash_pending"
      PROVE  reg'[r].state # "cash_pending"
  <2>1. r \in DOMAIN reg /\ reg[r] \in Row /\ reg[r].state # "waitlisted"
    BY DEF DeskInv, TypeOK, NoEarlyJob
  <2>2. CASE reg'[r] = reg[r]
    BY <1>2, <2>2
  <2>3. CASE RowMoves(reg[r], reg'[r])
    <3>1. PICK target \in States \ {"waitlisted"}, deadline \in Nat :
             reg'[r] = Moved(reg[r], target, deadline) /\ target # "cash_pending"
      BY <2>1, <2>3 DEF RowMoves
    <3> QED BY <2>1, <3>1 DEF Moved, Row
  <2> QED BY <2>1, <2>2, <2>3, RowSteps DEF DeskInv
<1> QED BY <1>1, <1>2

\* The desk itself expires nothing; a promotion never does.
LEMMA PromotionExpiresNothing ==
    ASSUME TypeOK, NEW g, Table(g), NEW at \in Nat, ~PromotionRaises(g, at), NEW r \in DOMAIN g,
           AfterPromotion(g, at)[r].state = "expired"
    PROVE  g[r].state = "expired"
<1>1. g[r] \in Row
  BY DEF Table
<1>2. CASE AfterPromotion(g, at)[r] = g[r]
  BY <1>2
<1>3. CASE g[r].state = "waitlisted" /\ RowMoves(g[r], AfterPromotion(g, at)[r])
  <2>1. PICK target \in States \ {"waitlisted"}, deadline \in Nat :
           AfterPromotion(g, at)[r] = Moved(g[r], target, deadline) /\ target # "expired"
    BY <1>3 DEF RowMoves
  <2> QED BY <1>1, <2>1 DEF Moved, Row
<1> QED BY <1>2, <1>3, PromotionMoves

LEMMA DeskExpiresNothing ==
    ASSUME TypeOK, DeskStep, NEW r \in DOMAIN reg, reg'[r].state = "expired"
    PROVE  reg[r].state = "expired"
<1>0. 1..MaxTime \subseteq Nat /\ "cancelled" \in States /\ "confirmed" \in States
  BY DeskAssumption DEF States, ActiveStates, SeatStates
<1>1. ASSUME NEW u \in Users, NEW at \in 1..MaxTime, Register(u, at)
      PROVE  reg[r].state = "expired"
  BY <1>1 DEF Register, IsNextId, Commit
<1>2. ASSUME NEW q \in DOMAIN reg, NEW target \in {"cancelled", "confirmed"},
             reg[q].state \in ActiveStates, Released(q, target)[r].state = "expired"
      PROVE  reg[r].state = "expired"
  BY <1>2, ReleaseMoves
<1>3. ASSUME NEW u \in Users, NEW at \in 1..MaxTime, Cancel(u, at)
      PROVE  reg[r].state = "expired"
  <2>1. PICK q \in DOMAIN reg :
          /\ reg[q].state \in ActiveStates
          /\ \/ ~PromotionRaises(Released(q, "cancelled"), at)
                /\ Commit(AfterPromotion(Released(q, "cancelled"), at))
             \/ Commit(Released(q, "cancelled"))
    BY <1>3 DEF Cancel, Active, Released
  <2>2. Table(Released(q, "cancelled")) /\ DOMAIN Released(q, "cancelled") = DOMAIN reg
    BY <1>0, ReleasedIsTable
  <2>3. Released(q, "cancelled")[r].state = "expired"
    BY <1>0, <2>1, <2>2, PromotionExpiresNothing DEF Commit
  <2> QED BY <1>2, <2>1, <2>3
<1>4. ASSUME NEW q \in RegIds, NEW at \in 1..MaxTime, ConfirmCash(q, at)
      PROVE  reg[r].state = "expired"
  BY <1>2, <1>4 DEF ConfirmCash, MayConfirm, Released, Commit, ActiveStates, SeatStates
<1>5. CASE UNCHANGED reg
  BY <1>5
<1> QED BY <1>1, <1>3, <1>4, <1>5 DEF DeskStep, UpdateEvent, CompleteEvent, CancelEvent, SuspendEvent,
        RestoreEvent, SetStatus, ToggleEligible, Tick

-----------------------------------------------------------------------------
(***************************************************************************)
(* Workers and their jobs.                                                 *)
(***************************************************************************)
\* What each step does to the memory of a worker.
LEMMA RunForms ==
    ASSUME IndInv, [ExpiryNext]_allVars
    PROVE  RunsAreTyped' /\ faults' \in 0..MaxFaults
<1> USE DEF IndInv
<1>1. /\ run \in [Workers -> Runs] /\ clock \in Nat /\ clock > 0 /\ clock <= MaxTime /\ MaxTime \in Nat
      /\ faults \in 0..MaxFaults /\ MaxFaults \in Nat
      /\ DOMAIN job = DOMAIN due /\ DOMAIN due \subseteq RegIds
      /\ \A r \in DOMAIN job : job[r].attempts \in Nat
  BY ConstantsAreNumbers DEF RunsAreTyped, DeskInv, TypeOK, ExpiryTypeOK, JobRow
<1>2. ASSUME NEW w \in Workers, NEW q \in Runs, run' = [run EXCEPT ![w] = q], clock' = clock,
             DOMAIN q.batch # {} => q.current \in 1..clock
      PROVE  RunsAreTyped'
  BY <1>1, <1>2 DEF RunsAreTyped
<1>3. CASE DeskStep
  <2>1. clock' \in Nat /\ clock' >= clock /\ clock' <= MaxTime
    <3>1. ASSUME NEW u \in Users, NEW at, Register(u, at) \/ Cancel(u, at) PROVE clock' = clock
      BY <3>1 DEF Register, Cancel, Commit
    <3>2. ASSUME NEW r, NEW at, ConfirmCash(r, at) PROVE clock' = clock
      BY <3>2 DEF ConfirmCash, Commit
    <3>3. ASSUME NEW c, NEW s, NEW m, NEW at, UpdateEvent(c, s, m, at) PROVE clock' = clock
      BY <3>3 DEF UpdateEvent
    <3>4. ASSUME NEW at, CompleteEvent(at) PROVE clock' = clock
      BY <3>4 DEF CompleteEvent, SetStatus
    <3>5. ASSUME CancelEvent \/ SuspendEvent \/ RestoreEvent PROVE clock' = clock
      BY <3>5 DEF CancelEvent, SuspendEvent, RestoreEvent, SetStatus
    <3>6. ASSUME NEW u, ToggleEligible(u) PROVE clock' = clock
      BY <3>6 DEF ToggleEligible
    <3>7. clock' = clock \/ Tick
      BY <1>3, <3>1, <3>2, <3>3, <3>4, <3>5, <3>6 DEF DeskStep
    <3> QED BY <1>1, <3>7 DEF Tick
  <2>2. run' = run /\ faults' = faults
    BY <1>3 DEF DeskStep
  <2>3. \A w \in Workers : DOMAIN run[w].batch # {} => run[w].current \in 1..clock'
    BY <1>1, <2>1 DEF RunsAreTyped
  <2> QED BY <1>1, <2>1, <2>2, <2>3 DEF RunsAreTyped
<1>4. ASSUME NEW w \in Workers, Claim(w)
      PROVE  RunsAreTyped' /\ faults' \in 0..MaxFaults
  <2> DEFINE taken == Claimable(clock)
             batch == [r \in taken |-> job[r].attempts + 1]
             q == [current |-> clock, batch |-> batch, failing |-> NULL]
  <2>1. taken \in SUBSET RegIds /\ taken \subseteq DOMAIN job
    BY <1>1 DEF Claimable
  <2>2. batch \in [taken -> Nat \ {0}]
    BY <1>1, <2>1
  <2>3. batch \in Batches
    BY <2>1, <2>2 DEF Batches
  <2>4. run' = [run EXCEPT ![w] = q] /\ clock' = clock /\ faults' = faults
    BY <1>4 DEF Claim, vars
  <2> HIDE DEF taken, batch
  <2>5. q \in Runs /\ q.current = clock
    BY <1>1, <2>3 DEF Runs
  <2>6. q.current \in 1..clock
    BY <1>1, <2>5
  <2> HIDE DEF q
  <2>7. RunsAreTyped'
    BY <1>2, <2>4, <2>5, <2>6
  <2> QED BY <1>1, <2>4, <2>7
\* The worker goes on with its batch.
<1>5. ASSUME NEW w \in Workers, NEW r \in DOMAIN run[w].batch,
             run' = [run EXCEPT ![w] = Through(w, r)], clock' = clock
      PROVE  RunsAreTyped'
  <2>1. /\ Through(w, r) \in Runs
        /\ DOMAIN Through(w, r).batch # {} => Through(w, r).current \in 1..clock
    BY <1>1, ThroughForm DEF RunsAreTyped
  <2> QED BY <1>2, <1>5, <2>1
<1>6. ASSUME NEW w \in Workers, NEW r \in RegIds, SkipJob(w, r) \/ ProcessJob(w, r)
      PROVE  RunsAreTyped' /\ faults' \in 0..MaxFaults
  <2>1. clock' = clock /\ faults' = faults
    BY <1>6 DEF SkipJob, ProcessJob, ExpireCash, Commit, vars
  <2>2. run' = [run EXCEPT ![w] = Through(w, r)] /\ r \in DOMAIN run[w].batch
    BY <1>6 DEF SkipJob, ProcessJob, Turn
  <2> QED BY <1>1, <1>5, <2>1, <2>2
<1>7. ASSUME NEW w \in Workers, NEW r \in RegIds, FailJob(w, r)
      PROVE  RunsAreTyped' /\ faults' \in 0..MaxFaults
  <2> DEFINE q == [run[w] EXCEPT !.failing = r]
  <2>1. run' = [run EXCEPT ![w] = q] /\ clock' = clock
    BY <1>7 DEF FailJob, vars
  <2>2. q \in Runs /\ q.current = run[w].current /\ q.batch = run[w].batch
    BY <1>1 DEF Runs
  <2>3. faults' \in 0..MaxFaults
    BY <1>1, <1>7 DEF FailJob
  <2> HIDE DEF q
  <2> QED BY <1>2, <2>1, <2>2, <2>3 DEF RunsAreTyped
<1>8. ASSUME NEW w \in Workers, RecordFailure(w)
      PROVE  RunsAreTyped' /\ faults' \in 0..MaxFaults
  <2>1. /\ run' = [run EXCEPT ![w] = Through(w, run[w].failing)]
        /\ run[w].failing \in DOMAIN run[w].batch
    BY <1>8 DEF RecordFailure, ExpiryTypeOK
  <2>2. clock' = clock /\ faults' = faults
    BY <1>8 DEF RecordFailure, vars
  <2> QED BY <1>1, <1>5, <2>1, <2>2
<1>9. ASSUME NEW w \in Workers, Crash(w)
      PROVE  RunsAreTyped' /\ faults' \in 0..MaxFaults
  <2>1. run' = [run EXCEPT ![w] = Idle] /\ clock' = clock /\ faults' \in 0..MaxFaults
    BY <1>1, <1>9 DEF Crash, vars
  <2> QED BY <1>2, <2>1, IdleIsRun
<1>10. CASE (\E r \in RegIds : AdminRetry(r)) \/ UNCHANGED allVars
  BY <1>1, <1>10 DEF AdminRetry, allVars, vars, queueVars, RunsAreTyped
<1> QED BY <1>3, <1>1, <1>4, <1>6, <1>7, <1>8, <1>9, <1>10 DEF ExpiryNext, WorkerStep, DeskStep

\* What each step does to the jobs there were: nothing, or one worker claims
\* what is free to claim, or it completes or gives back a job held under its name, or an
\* administrator reopens one.  A job is completed when its reservation ends.
JobMove(r) ==
    \/ job'[r] = job[r]
    \/ \E w \in Workers :
        /\ run'[w] # run[w]
        /\ job'[r] \in JobRow
        /\ \/ /\ job[r].status # "delivered" /\ job[r].until <= clock
              /\ job'[r].status = "processing"
           \/ /\ job[r].status = "processing" /\ job[r].owner = NameOf[w]
              /\ r \in DOMAIN run[w].batch
              /\ \/ job'[r].status \in {"retryable_failed", "permanent_failed"}
                 \/ job'[r].status = "delivered" /\ reg'[r].state # "cash_pending"
    \/ job[r].status = "permanent_failed" /\ job'[r] \in JobRow /\ job'[r].status = "pending"

LEMMA ClaimMoves ==
    ASSUME IndInv, NEW w \in Workers, Claim(w)
    PROVE  DOMAIN job' = DOMAIN job /\ \A r \in DOMAIN job : JobMove(r)
<1> USE DEF IndInv
<1> DEFINE taken == Claimable(clock)
           claimed(r) == [job[r] EXCEPT !.status = "processing", !.attempts = @ + 1,
                                        !.owner = NameOf[w], !.until = clock + Lease]
<1>1. job' = [r \in DOMAIN job |-> IF r \in taken THEN claimed(r) ELSE job[r]]
  BY DEF Claim
<1>2. run'[w] # run[w]
  <2>1. taken # {} /\ DOMAIN run[w].batch = {}
    BY DEF Claim
  <2>2. run'[w].batch = [r \in taken |-> job[r].attempts + 1]
    BY DEF Claim, RunsAreTyped
  <2> HIDE DEF taken
  <2>3. DOMAIN run'[w].batch = taken
    BY <2>2
  <2> QED BY <2>1, <2>3
<1>3. ASSUME NEW r \in taken PROVE JobMove(r)
  <2>1. /\ r \in DOMAIN job /\ job[r] \in JobRow /\ job[r].until <= clock
        /\ job[r].status # "delivered"
    BY DEF Claimable, ExpiryTypeOK
  <2>2. clock + Lease \in Nat /\ job[r].attempts + 1 \in Nat /\ NameOf[w] \in Names
    BY <2>1, ConstantsAreNumbers DEF JobRow, DeskInv, TypeOK
  <2>3. claimed(r) \in JobRow /\ claimed(r).status = "processing"
    BY <2>1, <2>2 DEF JobRow, JobStatuses
  <2>4. job'[r] = claimed(r)
    BY <1>1, <2>1
  <2> HIDE DEF claimed
  <2> QED BY <1>2, <2>1, <2>3, <2>4 DEF JobMove
<1> HIDE DEF taken, claimed
<1>4. \A r \in DOMAIN job : r \notin taken => job'[r] = job[r]
  BY <1>1
<1> QED BY <1>1, <1>3, <1>4 DEF JobMove

LEMMA CompletedForm ==
    ASSUME IndInv, NEW r \in DOMAIN job
    PROVE  /\ DOMAIN Completed(r) = DOMAIN job
           /\ \A q \in DOMAIN job : q # r => Completed(r)[q] = job[q]
           /\ Completed(r)[r] \in JobRow /\ Completed(r)[r].status = "delivered"
<1> DEFINE row == [job[r] EXCEPT !.status = "delivered", !.owner = Nobody, !.until = NULL]
<1>1. Completed(r) = [job EXCEPT ![r] = row]
  BY DEF Completed
<1>2. row \in JobRow /\ row.status = "delivered"
  <2>1. job[r] \in JobRow
    BY DEF IndInv, ExpiryTypeOK
  <2> QED BY <2>1 DEF JobRow, JobStatuses, NULL
<1> HIDE DEF row
<1> QED BY <1>1, <1>2

\* The reservation a worker expires is expired when it is done.
LEMMA ExpiryExpires ==
    ASSUME TypeOK, NEW r \in RegIds, NEW at \in Nat, ExpireCash(r, at)
    PROVE  /\ r \in DOMAIN reg /\ reg'[r].state = "expired"
           /\ reg[r].state = "cash_pending" /\ reg[r].cash_expires_at <= at
           /\ \A q \in DOMAIN reg : q # r /\ reg'[q].state = "expired" => reg[q].state = "expired"
<1> DEFINE g == Released(r, "expired")
<1>1. /\ r \in DOMAIN reg /\ reg[r].state = "cash_pending" /\ reg[r].cash_expires_at <= at
      /\ ~PromotionRaises(g, at) /\ reg' = AfterPromotion(g, at)
  BY DEF ExpireCash, ExpiryDue, TypeOK, Released, Commit
<1>2. Table(g) /\ DOMAIN g = DOMAIN reg
  BY <1>1, ReleasedIsTable DEF States
<1>3. reg[r].state \in ActiveStates
  BY <1>1 DEF ActiveStates, SeatStates
<1>4. g[r].state = "expired" /\ \A q \in DOMAIN reg \ {r} : g[q] = reg[q]
  BY <1>1, <1>3, ReleaseMoves
<1> HIDE DEF g
<1>5. reg'[r].state = "expired"
  BY <1>1, <1>2, <1>4, PromotionMoves
<1>6. ASSUME NEW q \in DOMAIN reg, q # r, reg'[q].state = "expired"
      PROVE  reg[q].state = "expired"
  BY <1>1, <1>2, <1>4, <1>6, PromotionExpiresNothing
<1> QED BY <1>1, <1>5, <1>6

LEMMA ProcessMoves ==
    ASSUME IndInv, NEW w \in Workers, NEW r \in RegIds, ProcessJob(w, r)
    PROVE  /\ DOMAIN job' = DOMAIN due'
           /\ \A q \in DOMAIN job : JobMove(q)
           /\ \A q \in DOMAIN job' \ DOMAIN job : job'[q] = NewJob(due'[q])
<1> USE DEF IndInv
<1>1. /\ run[w] \in Runs /\ r \in DOMAIN run[w].batch /\ r \in DOMAIN job
      /\ job[r].status = "processing" /\ job[r].owner = NameOf[w]
      /\ run' = [run EXCEPT ![w] = Through(w, r)] /\ DOMAIN job = DOMAIN due
  BY DEF ProcessJob, Turn, ClaimStands, ExpiryTypeOK, RunsAreTyped
<1>2. run'[w] # run[w]
  <2>1. run'[w] = Through(w, r)
    BY <1>1 DEF RunsAreTyped
  <2> QED BY <1>1, <2>1, ThroughForm
<1>3. CASE reg[r].state # "cash_pending" /\ UNCHANGED vars /\ job' = Completed(r)
  <2>1. DOMAIN job' = DOMAIN due' /\ DOMAIN job' = DOMAIN job
    BY <1>1, <1>3, CompletedForm DEF vars
  <2>2. reg'[r].state # "cash_pending"
    BY <1>3 DEF vars
  <2> QED BY <1>1, <1>2, <1>3, <2>1, <2>2, CompletedForm DEF JobMove
<1>4. CASE ExpireCash(r, run[w].current) /\ job' = JobsWith(Completed(r))
  <2>1. run[w].current \in Nat
    BY <1>1 DEF Runs
  <2>2. reg'[r].state = "expired"
    BY <1>4, <2>1, ExpiryExpires DEF DeskInv
  <2>3. DOMAIN due \subseteq DOMAIN due'
    BY <1>4 DEF ExpireCash, Commit
  <2>4. /\ DOMAIN job' = DOMAIN due'
        /\ \A q \in DOMAIN due' :
             job'[q] = IF q \in DOMAIN Completed(r) THEN Completed(r)[q] ELSE NewJob(due'[q])
    BY <1>4 DEF JobsWith
  <2> QED BY <1>1, <1>2, <2>2, <2>3, <2>4, CompletedForm DEF JobMove
<1> QED BY <1>3, <1>4 DEF ProcessJob

LEMMA FailureMoves ==
    ASSUME IndInv, NEW w \in Workers, RecordFailure(w)
    PROVE  DOMAIN job' = DOMAIN job /\ \A q \in DOMAIN job : JobMove(q)
<1> USE DEF IndInv
<1> DEFINE r == run[w].failing
           n == run[w].batch[r]
           t == run[w].current + RetryBase * 2^(n - 1)
           row == [job[r] EXCEPT !.status = IF n >= MaxAttempts THEN "permanent_failed"
                                                                ELSE "retryable_failed",
                                 !.available = t, !.owner = Nobody, !.until = NULL]
<1>1. /\ run[w] \in Runs /\ r # NULL /\ r \in DOMAIN run[w].batch /\ r \in DOMAIN job
      /\ run[w].current \in Nat /\ run[w].batch \in Batches
  BY DEF RecordFailure, RunsAreTyped, ExpiryTypeOK, Runs
<1>2. run'[w] # run[w]
  <2>1. run'[w] = Through(w, r)
    BY DEF RecordFailure, RunsAreTyped
  <2> QED BY <1>1, <2>1, ThroughForm
<1>3. t \in Nat
  <2>1. n \in Nat /\ n - 1 \in Nat
    BY <1>1, BatchForm
  <2>2. 2^(n - 1) \in Nat
    BY <2>1, PowerIsNatural
  <2>3. RetryBase * 2^(n - 1) \in Nat
    BY <2>2, ConstantsAreNumbers
  <2> QED BY <1>1, <2>3
<1>4. CASE job[r].status = "processing" /\ job[r].owner = NameOf[w]
  <2>1. job' = [job EXCEPT ![r] = row]
    BY <1>4 DEF RecordFailure, Failed
  <2>2. job[r] \in JobRow
    BY <1>1 DEF ExpiryTypeOK
  <2> HIDE DEF t, n
  <2>3. row \in JobRow /\ row.status \in {"retryable_failed", "permanent_failed"}
    BY <1>3, <2>2 DEF JobRow, JobStatuses, NULL
  <2> HIDE DEF row, r
  <2> QED BY <1>1, <1>2, <1>4, <2>1, <2>3 DEF JobMove
<1>5. CASE ~(job[r].status = "processing" /\ job[r].owner = NameOf[w])
  BY <1>5 DEF RecordFailure, Failed, JobMove
<1> QED BY <1>4, <1>5

\* Every step keeps the jobs in step with the desk.
LEMMA JobForms ==
    ASSUME IndInv, [ExpiryNext]_allVars
    PROVE  /\ DOMAIN job' = DOMAIN due'
           /\ \A r \in DOMAIN job : JobMove(r)
           /\ \A r \in DOMAIN job' \ DOMAIN job : job'[r] = NewJob(due'[r])
<1> USE DEF IndInv
<1>1. DOMAIN job = DOMAIN due /\ DOMAIN due \subseteq DOMAIN due' /\ (UNCHANGED vars => due' = due)
  BY DeskMoves, JobsAreOld DEF ExpiryTypeOK, vars
<1>2. CASE DeskStep
  BY <1>1, <1>2 DEF DeskStep, JobsWith, JobMove
<1>3. ASSUME NEW w \in Workers, WorkerStep(w) \/ Crash(w)
      PROVE  /\ DOMAIN job' = DOMAIN due'
             /\ \A r \in DOMAIN job : JobMove(r)
             /\ \A r \in DOMAIN job' \ DOMAIN job : job'[r] = NewJob(due'[r])
  <2>1. CASE Claim(w)
    BY <1>1, <2>1, ClaimMoves DEF Claim
  <2>2. CASE \E r \in RegIds : ProcessJob(w, r)
    BY <2>2, ProcessMoves
  <2>3. CASE RecordFailure(w)
    BY <1>1, <2>3, FailureMoves DEF RecordFailure
  <2>4. CASE Crash(w) \/ \E r \in RegIds : SkipJob(w, r) \/ FailJob(w, r)
    BY <1>1, <2>4 DEF Crash, SkipJob, FailJob, JobMove
  <2> QED BY <1>3, <2>1, <2>2, <2>3, <2>4 DEF WorkerStep
<1>4. ASSUME NEW r \in RegIds, AdminRetry(r)
      PROVE  /\ DOMAIN job' = DOMAIN due'
             /\ \A q \in DOMAIN job : JobMove(q)
             /\ \A q \in DOMAIN job' \ DOMAIN job : job'[q] = NewJob(due'[q])
  <2> DEFINE row == [job[r] EXCEPT !.status = "pending", !.available = clock]
  <2>1. job' = [job EXCEPT ![r] = row] /\ job[r].status = "permanent_failed" /\ due' = due
    BY <1>1, <1>4 DEF AdminRetry
  <2>2. row \in JobRow /\ row.status = "pending"
    <3>1. job[r] \in JobRow /\ clock \in Nat
      BY <1>4, ConstantsAreNumbers DEF AdminRetry, ExpiryTypeOK, DeskInv, TypeOK
    <3> QED BY <3>1 DEF JobRow, JobStatuses
  <2> HIDE DEF row
  <2> QED BY <1>1, <2>1, <2>2 DEF JobMove
<1>5. CASE UNCHANGED allVars
  BY <1>1, <1>5 DEF allVars, vars, queueVars, JobMove
<1> QED BY <1>2, <1>3, <1>4, <1>5 DEF ExpiryNext

-----------------------------------------------------------------------------
\* The clock reading, the batch and the failing job of every worker.
LEMMA MemoryStep ==
    ASSUME IndInv, [ExpiryNext]_allVars, DOMAIN job \subseteq DOMAIN job'
    PROVE  \A w \in Workers : /\ DOMAIN run'[w].batch \subseteq DOMAIN job'
                              /\ run'[w].failing \in DOMAIN run'[w].batch \cup {NULL}
<1> USE DEF IndInv
<1>1. /\ run \in [Workers -> Runs]
      /\ \A w \in Workers : /\ DOMAIN run[w].batch \subseteq DOMAIN job'
                            /\ run[w].failing \in DOMAIN run[w].batch \cup {NULL}
  BY DEF RunsAreTyped, ExpiryTypeOK
<1>2. ASSUME NEW w \in Workers, NEW q, run' = [run EXCEPT ![w] = q],
             DOMAIN q.batch \subseteq DOMAIN job', q.failing \in DOMAIN q.batch \cup {NULL}
      PROVE  \A v \in Workers : /\ DOMAIN run'[v].batch \subseteq DOMAIN job'
                                /\ run'[v].failing \in DOMAIN run'[v].batch \cup {NULL}
  BY <1>1, <1>2
<1>3. ASSUME UNCHANGED run
      PROVE  \A v \in Workers : /\ DOMAIN run'[v].batch \subseteq DOMAIN job'
                                /\ run'[v].failing \in DOMAIN run'[v].batch \cup {NULL}
  BY <1>1, <1>3
<1>4. ASSUME NEW w \in Workers, WorkerStep(w) \/ Crash(w)
      PROVE  \A v \in Workers : /\ DOMAIN run'[v].batch \subseteq DOMAIN job'
                                /\ run'[v].failing \in DOMAIN run'[v].batch \cup {NULL}
  <2>1. CASE Claim(w)
    <3> DEFINE taken == Claimable(clock)
               batch == [r \in taken |-> job[r].attempts + 1]
               q == [current |-> clock, batch |-> batch, failing |-> NULL]
    <3>1. DOMAIN batch \subseteq DOMAIN job'
      BY DEF Claimable
    <3>2. run' = [run EXCEPT ![w] = q]
      BY <2>1 DEF Claim
    <3> HIDE DEF batch
    <3>3. q.batch = batch /\ q.failing = NULL
      OBVIOUS
    <3> HIDE DEF q
    <3> QED BY <1>2, <3>1, <3>2, <3>3
  <2>2. ASSUME NEW r \in RegIds, SkipJob(w, r) \/ ProcessJob(w, r) \/ FailJob(w, r)
        PROVE  \A v \in Workers : /\ DOMAIN run'[v].batch \subseteq DOMAIN job'
                                  /\ run'[v].failing \in DOMAIN run'[v].batch \cup {NULL}
    <3>0. run[w] \in Runs /\ run[w].failing = NULL /\ r \in DOMAIN run[w].batch
      BY <1>1, <2>2 DEF SkipJob, ProcessJob, FailJob, Turn
    <3>1. CASE run' = [run EXCEPT ![w] = Through(w, r)]
      <4>1. /\ DOMAIN Through(w, r).batch \subseteq DOMAIN job' /\ Through(w, r).failing = NULL
        BY <1>1, <3>0, ThroughForm
      <4> QED BY <1>2, <3>1, <4>1
    <3>2. CASE run' = [run EXCEPT ![w].failing = r]
      <4> DEFINE q == [run[w] EXCEPT !.failing = r]
      <4>1. q.batch = run[w].batch /\ q.failing = r
        BY <3>0 DEF Runs
      <4>2. run' = [run EXCEPT ![w] = q]
        BY <3>2
      <4> HIDE DEF q
      <4> QED BY <1>1, <1>2, <3>0, <4>1, <4>2
    <3> QED BY <2>2, <3>1, <3>2 DEF SkipJob, ProcessJob, FailJob
  <2>3. CASE RecordFailure(w)
    <3> DEFINE r == run[w].failing
    <3>1. run' = [run EXCEPT ![w] = Through(w, r)] /\ r \in DOMAIN run[w].batch /\ run[w] \in Runs
      BY <1>1, <2>3 DEF RecordFailure
    <3> HIDE DEF r
    <3>2. /\ DOMAIN Through(w, r).batch \subseteq DOMAIN job' /\ Through(w, r).failing = NULL
      BY <1>1, <3>1, ThroughForm
    <3> QED BY <1>2, <3>1, <3>2
  <2>4. CASE Crash(w)
    <3>1. run' = [run EXCEPT ![w] = Idle]
      BY <2>4 DEF Crash
    <3>2. DOMAIN Idle.batch = {} /\ Idle.failing = NULL
      BY DEF Idle
    <3> QED BY <1>2, <3>1, <3>2
  <2> QED BY <1>4, <2>1, <2>2, <2>3, <2>4 DEF WorkerStep
<1> QED BY <1>3, <1>4 DEF ExpiryNext, DeskStep, AdminRetry, allVars, queueVars

\* A step leaves the jobs a function of the reservations that have one.
LEMMA JobIsFunction ==
    ASSUME IndInv, [ExpiryNext]_allVars
    PROVE  job' = [r \in DOMAIN job' |-> job'[r]]
<1>1. job = [r \in DOMAIN job |-> job[r]]
  BY DEF IndInv, ExpiryTypeOK
<1>2. ASSUME NEW changed, job' = JobsWith(changed)
      PROVE  job' = [r \in DOMAIN job' |-> job'[r]]
  BY <1>2 DEF JobsWith
<1>3. ASSUME NEW r, NEW row, job' = [job EXCEPT ![r] = row]
      PROVE  job' = [q \in DOMAIN job' |-> job'[q]]
  BY <1>3
<1>4. CASE job' = job
  BY <1>1, <1>4
<1>5. ASSUME NEW w \in Workers, Claim(w)
      PROVE  job' = [r \in DOMAIN job' |-> job'[r]]
  BY <1>5 DEF Claim
<1>6. ASSUME NEW w \in Workers, NEW r \in RegIds, ProcessJob(w, r)
      PROVE  job' = [q \in DOMAIN job' |-> job'[q]]
  BY <1>2, <1>3, <1>6 DEF ProcessJob, Completed
<1>7. ASSUME NEW w \in Workers, RecordFailure(w)
      PROVE  job' = [q \in DOMAIN job' |-> job'[q]]
  BY <1>3, <1>4, <1>7 DEF RecordFailure, Failed
<1>8. ASSUME NEW r \in RegIds, AdminRetry(r)
      PROVE  job' = [q \in DOMAIN job' |-> job'[q]]
  BY <1>3, <1>8 DEF AdminRetry
<1> QED BY <1>2, <1>4, <1>5, <1>6, <1>7, <1>8 DEF ExpiryNext, DeskStep, WorkerStep, SkipJob, FailJob,
        Crash, allVars, queueVars

LEMMA InitInv == ExpiryInit => IndInv
<1> SUFFICES ASSUME ExpiryInit PROVE IndInv
  OBVIOUS
<1>1. DeskInv
  BY InitHolds DEF ExpiryInit
<1>2. /\ run = [w \in Workers |-> Idle] /\ job = [r \in {} |-> 0] /\ due = [r \in {} |-> 0]
      /\ clock = 1 /\ faults = 0
  BY DEF ExpiryInit, Init
<1>3. ExpiryTypeOK
  <2>1. DOMAIN job = {} /\ DOMAIN due = {} /\ job \in [DOMAIN job -> JobRow] /\ faults \in 0..MaxFaults
    BY <1>2, ConstantsAreNumbers
  <2>2. DOMAIN run = Workers
    BY <1>2
  <2>3. Idle.current \in 0..MaxTime /\ DOMAIN Idle.batch = {} /\ Idle.failing = NULL
    BY ConstantsAreNumbers DEF Idle
  <2>4. \A w \in Workers : run[w] = Idle
    BY <1>2
  <2> QED BY <2>1, <2>2, <2>3, <2>4 DEF ExpiryTypeOK
<1>4. RunsAreTyped
  BY <1>2, IdleIsRun, ConstantsAreNumbers DEF RunsAreTyped
<1>5. DeliveredMeansEnded
  BY <1>2 DEF DeliveredMeansEnded
<1> QED BY <1>1, <1>3, <1>4, <1>5 DEF IndInv

LEMMA StepInv == IndInv /\ [ExpiryNext]_allVars => IndInv'
<1> SUFFICES ASSUME IndInv, [ExpiryNext]_allVars PROVE IndInv'
  OBVIOUS
<1>1. [Next]_vars /\ DeskInv'
  BY DeskMoves, StepHolds DEF IndInv
<1>2. RunsAreTyped' /\ faults' \in 0..MaxFaults
  BY RunForms
<1>3. /\ DOMAIN job' = DOMAIN due' /\ DOMAIN job = DOMAIN due /\ DOMAIN job \subseteq DOMAIN job'
      /\ \A r \in DOMAIN job : JobMove(r)
      /\ \A r \in DOMAIN job' \ DOMAIN job : job'[r] = NewJob(due'[r])
  BY <1>1, JobForms, JobsAreOld DEF IndInv, ExpiryTypeOK
<1>4. \A r \in DOMAIN job : job[r] \in JobRow
  BY DEF IndInv, ExpiryTypeOK
<1>5. \A r \in DOMAIN due' : NewJob(due'[r]) \in JobRow
  BY <1>1 DEF NewJob, JobRow, JobStatuses, NULL, DeskInv, TypeOK
<1>6. \A r \in DOMAIN job' : job'[r] \in JobRow
  BY <1>3, <1>4, <1>5 DEF JobMove
<1>7. ExpiryTypeOK'
  <2>1. job' \in [DOMAIN job' -> JobRow]
    BY <1>6, JobIsFunction
  <2>2. DOMAIN run' = Workers /\ \A w \in Workers : run'[w].current \in 0..MaxTime
    BY <1>2 DEF RunsAreTyped, Runs
  <2> QED BY <1>2, <1>3, <2>1, <2>2, MemoryStep DEF ExpiryTypeOK
<1>8. DeliveredMeansEnded'
  <2> SUFFICES ASSUME NEW r \in DOMAIN job', job'[r].status = "delivered"
               PROVE  reg'[r].state # "cash_pending"
    BY DEF DeliveredMeansEnded
  <2>1. r \in DOMAIN job
    BY <1>3 DEF NewJob
  <2>2. CASE job'[r] = job[r]
    BY <1>1, <1>3, <2>1, <2>2, JobsAreOld DEF IndInv, DeliveredMeansEnded
  <2>3. CASE job'[r] # job[r]
    BY <1>3, <2>1, <2>3 DEF JobMove
  <2> QED BY <2>2, <2>3
<1> QED BY <1>1, <1>2, <1>7, <1>8 DEF IndInv

LEMMA Invariant == ExpirySpec => []IndInv
<1>1. IndInv /\ UNCHANGED allVars => IndInv'
  BY StepInv
<1> QED BY InitInv, StepInv, PTL DEF ExpirySpec

-----------------------------------------------------------------------------
\* The workers and the administrator drive the desk by its own transactions:
\* whatever the desk promises of itself, it promises among them.
THEOREM DeskIsKept == ExpirySpec => Spec
<1>1. ExpiryInit => Init
  BY DEF ExpiryInit
<1>2. IndInv /\ [ExpiryNext]_allVars => [Next]_vars
  BY DeskMoves
<1> QED BY <1>1, <1>2, Invariant, PTL DEF ExpirySpec, Spec

\* Each reservation ever made has one job, and a job that counts as done
\* has ended its reservation.
THEOREM DoneMeansEnded == ExpirySpec => []ExpiryInv
<1>1. IndInv => ExpiryInv
  BY DEF IndInv, ExpiryInv
<1> QED BY <1>1, Invariant, PTL

LEMMA OwnersOnly ==
    ASSUME IndInv, [ExpiryNext]_allVars
    PROVE  OwnerOnlyStep
<1> SUFFICES ASSUME NEW r \in DOMAIN job, Leased(r), job'[r] # job[r]
             PROVE  /\ \E w \in Workers : NameOf[w] = job[r].owner /\ r \in DOMAIN run[w].batch
                                          /\ run'[w] # run[w]
                    /\ job'[r].status # "processing"
  BY DEF OwnerOnlyStep
<1>1. JobMove(r) /\ job[r].status = "processing" /\ job[r].until > clock
  BY JobForms DEF Leased
<1>2. job[r].until \in Nat /\ clock \in Nat
  BY ConstantsAreNumbers DEF IndInv, ExpiryTypeOK, JobRow, DeskInv, TypeOK
<1>3. ~(job[r].until <= clock)
  BY <1>1, <1>2
<1> QED BY <1>1, <1>3 DEF JobMove

LEMMA DeliveredRemain ==
    ASSUME IndInv, [ExpiryNext]_allVars
    PROVE  DeliveredStays
BY JobForms DEF JobMove, DeliveredStays

LEMMA OnlyWhatIsDue ==
    ASSUME IndInv, [ExpiryNext]_allVars
    PROVE  ExpiryStepIsDue
<1> SUFFICES ASSUME NEW r \in DOMAIN reg, reg'[r].state = "expired", reg[r].state # "expired"
             PROVE  reg[r].state = "cash_pending" /\ reg[r].cash_expires_at <= clock
  BY DEF ExpiryStepIsDue
<1>1. TypeOK
  BY DEF IndInv, DeskInv
<1>2. CASE DeskStep
  BY <1>1, <1>2, DeskExpiresNothing
<1>3. ASSUME NEW w \in Workers, NEW q \in RegIds, ProcessJob(w, q), ~UNCHANGED vars
      PROVE  reg[r].state = "cash_pending" /\ reg[r].cash_expires_at <= clock
  <2>1. run[w].current \in 1..clock /\ clock \in Nat
    BY <1>1, <1>3, ConstantsAreNumbers DEF ProcessJob, Turn, IndInv, RunsAreTyped, TypeOK
  <2>2. run[w].current \in Nat /\ run[w].current <= clock
    BY <2>1
  <2>3. ExpireCash(q, run[w].current)
    BY <1>3 DEF ProcessJob
  <2>4. /\ reg[q].state = "cash_pending" /\ reg[q].cash_expires_at <= run[w].current
        /\ \A s \in DOMAIN reg : s # q /\ reg'[s].state = "expired" => reg[s].state = "expired"
    BY <1>1, <2>2, <2>3, ExpiryExpires
  <2>5. r = q
    BY <2>4
  <2>6. reg[r].cash_expires_at \in Nat
    BY <1>1 DEF TypeOK, Row
  <2> QED BY <2>1, <2>2, <2>4, <2>5, <2>6
<1>4. CASE UNCHANGED vars
  BY <1>4 DEF vars
<1> QED BY <1>2, <1>3, <1>4 DEF ExpiryNext, WorkerStep, Claim, SkipJob, FailJob, RecordFailure, Crash,
        AdminRetry, allVars

\* While a lease runs, only a process of the name that holds it, with the job in
\* its batch, changes the job, and only to end or to fail it; a reservation expires
\* from a pending row whose deadline has passed; and a delivered job stays so.
THEOREM OrderlyExpiry == ExpirySpec => ExpiryIsOrderly
<1>1. IndInv /\ [ExpiryNext]_allVars => [OwnerOnlyStep /\ ExpiryStepIsDue /\ DeliveredStays]_allVars
  BY OwnersOnly, OnlyWhatIsDue, DeliveredRemain
<1> QED BY <1>1, Invariant, PTL DEF ExpirySpec, ExpiryIsOrderly

=============================================================================
