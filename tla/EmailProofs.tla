------------------------------ MODULE EmailProofs ------------------------------
(***************************************************************************)
(* Theorems about transactional e-mail, for every set of mails, recipients *)
(* and processes, and every quota, lease and number of attempts: claims    *)
(* overlap only when a lease has run out, a claim is ended by its owner,   *)
(* the daily quota holds, and the queue implements the contract of all     *)
(* queues.                                                                 *)
(***************************************************************************)
EXTENDS EmailDelivery, FiniteSetTheorems, TLAPS

\* The mail in hand is one of the batch.
HandsAreFull == \A p \in Processes : worker[p].at \subseteq InBatch(p)

\* An attempt has the number of one claim, and no two claims have the same.
ClaimsDiffer ==
    \A p, o \in Processes, m \in Mails :
        worker[p].batch[m] > 0 /\ worker[p].batch[m] = worker[o].batch[m] => p = o

\* The claim with the latest number is the one the row shows.
ClaimsAgree ==
    \A p \in Processes : \A m \in InBatch(p) :
        /\ worker[p].batch[m] <= delivery[m].attempts
        /\ worker[p].batch[m] = delivery[m].attempts =>
              delivery[m].status = "processing" /\ delivery[m].started = worker[p].now

\* What goes to the provider has its reservation, ...
SendersMay ==
    \A p \in Processes : worker[p].stage \in {"send", "complete"} =>
        \A m \in worker[p].at : m \in Security \/ slot[m] # Unreserved

\* ...and what is completed, or has been, was taken by the provider.
CompletersSent ==
    /\ \A p \in Processes : worker[p].stage = "complete" => worker[p].at \subseteq accepted
    /\ \A m \in Mails : delivery[m].status = "delivered" => m \in accepted

\* The inductive invariant; the quota is proved from it.
IndInv ==
    /\ EmailTypeOK
    /\ HandsAreFull
    /\ ClaimsDiffer
    /\ ClaimsAgree
    /\ SendersMay
    /\ CompletersSent
    /\ SupersededIsOld

-----------------------------------------------------------------------------
LEMMA ConstantsAreNumbers ==
    /\ Limit \in Nat /\ Quota \in Nat /\ Quota > 0 /\ MaxAttempts \in Nat
    /\ Lease \in Nat /\ Lease > 0 /\ Backoff \in Nat /\ Backoff > 0
    /\ Day \in Nat /\ Day > 0 /\ MaxTime \in Nat /\ MaxFaults \in Nat
    /\ Security \subseteq Mails
BY EmailAssumption

LEMMA DatesAreNumbers ==
    ASSUME NEW t \in Nat
    PROVE  DateOf(t) \in Nat /\ Midnight(t) \in Nat /\ Midnight(t) > 0
<1>1. Day \in Nat /\ Day > 0
  BY ConstantsAreNumbers
<1> DEFINE q == (t - 1) \div Day
<1>2. q \in Int /\ Day * q <= t - 1 /\ t - 1 < Day * (q + 1)
  BY <1>1
<1> HIDE DEF q
<1>3. q + 1 >= 0
  <2> SUFFICES ASSUME q + 1 < 0 PROVE FALSE
    BY <1>2
  <2>1. q + 1 <= -1
    BY <1>2
  <2>2. Day * (q + 1) <= Day * (-1)
    BY <1>1, <1>2, <2>1
  <2> QED BY <1>1, <1>2, <2>2
<1>4. (q + 1) * Day \in Nat
  BY <1>1, <1>2, <1>3
<1> QED BY <1>1, <1>2, <1>3, <1>4 DEF DateOf, Midnight, q

\* Fields of a row that is there or not.
LEMMA RowFields ==
    ASSUME EmailTypeOK, NEW m \in Mails
    PROVE  /\ delivery[m].attempts \in Nat /\ delivery[m].next \in Nat /\ delivery[m].started \in Nat
           /\ delivery[m].status \in Statuses \cup {"absent"}
           /\ delivery[m].status = "absent" <=> delivery[m] = Absent
           /\ delivery[m].status # "absent" => delivery[m] \in Delivery
           /\ delivery[m].attempts > 0 => delivery[m].status # "absent"
<1>1. CASE delivery[m] \in Delivery
  BY <1>1 DEF Delivery, Statuses, Absent
<1>2. CASE delivery[m] = Absent
  BY <1>2 DEF Absent, NULL
<1> QED BY <1>1, <1>2 DEF EmailTypeOK

LEMMA RestingIsWorker ==
    /\ Resting \in Worker /\ Resting.stage = "next" /\ Resting.at = {} /\ Resting.now = 0
    /\ \A m \in Mails : Resting.batch[m] = 0
BY DEF Resting, Worker

LEMMA ProceededForm ==
    ASSUME EmailTypeOK, NEW p \in Processes, NEW m \in InBatch(p), NEW q, q = Proceeded(p, m)
    PROVE  /\ q \in Worker /\ q.stage = "next" /\ q.at = {}
           /\ q.batch[m] = 0
           /\ \A n \in Mails : q.batch[n] = 0
                \/ (q.batch[n] = worker[p].batch[n] /\ q.now = worker[p].now)
<1>1. worker[p] \in Worker /\ worker[p].batch \in [Mails -> Nat] /\ m \in Mails
  BY DEF EmailTypeOK, Worker, InBatch
<1>2. CASE InBatch(p) = {m}
  <2>1. q = Resting
    BY <1>2 DEF Proceeded
  <2> QED BY <1>1, <2>1, RestingIsWorker
<1>3. CASE InBatch(p) # {m}
  <2> DEFINE rest == [worker[p].batch EXCEPT ![m] = 0]
  <2>1. rest \in [Mails -> Nat] /\ \A n \in Mails : rest[n] = (IF n = m THEN 0 ELSE worker[p].batch[n])
    BY <1>1
  <2>2. q = [worker[p] EXCEPT !.batch = rest, !.at = {}, !.stage = "next", !.fatal = FALSE]
    BY <1>3 DEF Proceeded
  <2> HIDE DEF rest
  <2>3. q \in Worker /\ q.batch = rest /\ q.stage = "next" /\ q.at = {} /\ q.now = worker[p].now
    BY <1>1, <2>1, <2>2 DEF Worker
  <2> QED BY <1>1, <2>1, <2>3
<1> QED BY <1>2, <1>3

-----------------------------------------------------------------------------
(***************************************************************************)
(* What the steps of a process do, except claiming: it goes on with its    *)
(* batch, and ends at most its own claim of the mail in hand.              *)
(***************************************************************************)
Ended(p, m, row) ==
    /\ Fenced(p, m)
    /\ delivery' = [delivery EXCEPT ![m] = row]
    /\ row.attempts = delivery[m].attempts /\ row.started = NULL
    /\ row.status \in {"delivered", "retryable_failed", "permanent_failed"}
    /\ row.next # NULL <=> row.status = "retryable_failed"
    /\ row.status = "delivered" => m \in accepted

HandStep(p, m, q) ==
    /\ worker' = [worker EXCEPT ![p] = q]
    /\ \A n \in Mails :
        q.batch[n] = 0 \/ (q.batch[n] = worker[p].batch[n] /\ q.now = worker[p].now)
    /\ q.at \subseteq {n \in Mails : q.batch[n] > 0}
    /\ q.stage \in {"send", "complete"} => \A n \in q.at : n \in Security \/ slot'[n] # Unreserved
    /\ q.stage = "complete" => q.at \subseteq accepted'
    /\ \/ UNCHANGED delivery
       \/ q.batch[m] = 0 /\ worker[p].at = {m} /\ \E row \in Delivery : Ended(p, m, row)
    /\ slot' \in [Mails -> Reservation]
    /\ \A n \in Mails : slot[n] # Unreserved => slot'[n] = slot[n]
    /\ accepted \subseteq accepted'
    /\ accepted' \subseteq accepted \cup {n \in Mails \cap {m} : n \in Security \/ slot[n] # Unreserved}
    /\ faults' \in 0..MaxFaults
    /\ UNCHANGED <<wants, clock>>

LEMMA HandKeeps ==
    ASSUME IndInv, NEW p \in Processes, NEW m, NEW q \in Worker, HandStep(p, m, q)
    PROVE  IndInv'
<1> USE DEF IndInv
<1>1. /\ worker' = [worker EXCEPT ![p] = q] /\ worker \in [Processes -> Worker]
      /\ clock' = clock /\ wants' = wants /\ faults' \in 0..MaxFaults
      /\ slot' \in [Mails -> Reservation]
      /\ accepted \subseteq accepted' /\ accepted' \subseteq Mails
  BY DEF HandStep, EmailTypeOK
<1>2. \A o \in Processes : worker'[o] = (IF o = p THEN q ELSE worker[o])
  BY <1>1
<1>3. \A o \in Processes : \A n \in InBatch(o)' :
        /\ n \in Mails /\ n \in InBatch(o)
        /\ worker'[o].batch[n] = worker[o].batch[n] /\ worker'[o].now = worker[o].now
  BY <1>1, <1>2 DEF HandStep, InBatch
\* The row of the mail in hand may have been ended by its claim.
<1>4. /\ delivery' \in [Mails -> Delivery \cup {Absent}]
      /\ \A n \in Mails :
            \/ delivery'[n] = delivery[n]
            \/ /\ n = m /\ n \notin InBatch(p)' /\ Fenced(p, n) /\ n \in InBatch(p)
               /\ delivery'[n].attempts = delivery[n].attempts
               /\ delivery'[n].started = NULL
               /\ delivery'[n].status \in {"delivered", "retryable_failed", "permanent_failed"}
               /\ delivery'[n].next # NULL <=> delivery'[n].status = "retryable_failed"
               /\ delivery'[n].status = "delivered" => n \in accepted
  <2>1. CASE UNCHANGED delivery
    BY <2>1 DEF EmailTypeOK
  <2>2. ASSUME q.batch[m] = 0, worker[p].at = {m}, NEW row \in Delivery, Ended(p, m, row)
        PROVE  <1>4!:
    <3>1. delivery' = [delivery EXCEPT ![m] = row] /\ Fenced(p, m) /\ delivery \in [Mails -> Delivery \cup {Absent}]
      BY <2>2 DEF Ended, EmailTypeOK
    <3>2. m \in InBatch(p) /\ m \notin InBatch(p)'
      BY <1>2, <2>2 DEF HandsAreFull, InBatch
    <3>3. \A n \in Mails : delivery'[n] = (IF n = m THEN row ELSE delivery[n])
      BY <3>1
    <3> QED BY <2>2, <3>1, <3>2, <3>3 DEF Ended
  <2> QED BY <2>1, <2>2 DEF HandStep
<1>5. \A n \in Mails : delivery'[n].attempts = delivery[n].attempts
  BY <1>4
<1>6. EmailTypeOK'
  <2>1. \A n \in Mails :
          /\ delivery'[n].started # NULL <=> delivery'[n].status = "processing"
          /\ delivery'[n].next # NULL <=> delivery'[n].status = "retryable_failed"
    BY <1>4 DEF EmailTypeOK
  <2>2. worker' \in [Processes -> Worker]
    BY <1>1
  <2> QED BY <1>1, <1>4, <2>1, <2>2 DEF EmailTypeOK
<1>7. HandsAreFull'
  <2> SUFFICES ASSUME NEW o \in Processes PROVE worker'[o].at \subseteq InBatch(o)'
    BY DEF HandsAreFull
  <2>1. CASE o = p
    BY <1>2, <2>1 DEF HandStep, InBatch
  <2>2. CASE o # p
    BY <1>2, <2>2 DEF HandsAreFull, InBatch
  <2> QED BY <2>1, <2>2
<1>8. ClaimsDiffer'
  <2> SUFFICES ASSUME NEW r \in Processes, NEW o \in Processes, NEW n \in Mails,
                      worker'[r].batch[n] > 0, worker'[r].batch[n] = worker'[o].batch[n]
               PROVE  r = o
    BY DEF ClaimsDiffer
  <2>1. n \in InBatch(r)' /\ n \in InBatch(o)'
    BY DEF InBatch
  <2> QED BY <1>3, <2>1 DEF ClaimsDiffer, InBatch
<1>9. ClaimsAgree'
  <2> SUFFICES ASSUME NEW o \in Processes, NEW n \in InBatch(o)'
               PROVE  /\ worker'[o].batch[n] <= delivery'[n].attempts
                      /\ worker'[o].batch[n] = delivery'[n].attempts =>
                           delivery'[n].status = "processing" /\ delivery'[n].started = worker'[o].now
    BY DEF ClaimsAgree
  <2>1. n \in InBatch(o) /\ n \in Mails /\ worker'[o].batch[n] = worker[o].batch[n]
        /\ worker'[o].now = worker[o].now
    BY <1>3
  <2>2. CASE delivery'[n] = delivery[n]
    BY <2>1, <2>2 DEF ClaimsAgree
  <2>3. CASE delivery'[n] # delivery[n]
    <3>1. n \in InBatch(p) /\ n \notin InBatch(p)' /\ worker[p].batch[n] = delivery[n].attempts
      BY <1>4, <2>1, <2>3 DEF Fenced
    <3>2. o # p
      BY <3>1
    <3>3. worker[o].batch[n] # worker[p].batch[n]
      BY <2>1, <3>1, <3>2 DEF ClaimsDiffer, InBatch
    <3> QED BY <1>5, <2>1, <3>1, <3>3 DEF ClaimsAgree
  <2> QED BY <2>2, <2>3
<1>10. SendersMay' /\ CompletersSent'
  <2>1. ASSUME NEW o \in Processes, worker'[o].stage \in {"send", "complete"}, NEW n \in worker'[o].at
        PROVE  n \in Security \/ slot'[n] # Unreserved
    <3>1. CASE o = p
      BY <1>2, <2>1, <3>1 DEF HandStep
    <3>2. CASE o # p
      <4>1. n \in Mails /\ (n \in Security \/ slot[n] # Unreserved)
        BY <1>2, <2>1, <3>2 DEF SendersMay, HandsAreFull, InBatch
      <4> QED BY <4>1 DEF HandStep
    <3> QED BY <3>1, <3>2
  <2>2. ASSUME NEW o \in Processes, worker'[o].stage = "complete"
        PROVE  worker'[o].at \subseteq accepted'
    <3>1. CASE o = p
      BY <1>2, <2>2, <3>1 DEF HandStep
    <3>2. CASE o # p
      BY <1>1, <1>2, <2>2, <3>2 DEF CompletersSent
    <3> QED BY <3>1, <3>2
  <2>3. \A n \in Mails : delivery'[n].status = "delivered" => n \in accepted'
    BY <1>1, <1>4 DEF CompletersSent
  <2> QED BY <2>1, <2>2, <2>3 DEF SendersMay, CompletersSent
<1>11. SupersededIsOld'
  BY <1>1, <1>3, <1>5 DEF SupersededIsOld, InBatch
<1> QED BY <1>6, <1>7, <1>8, <1>9, <1>10, <1>11

\* A step that changes nothing but what the process has in memory: where it is
\* with its mail.
LEMMA MovesForm ==
    ASSUME IndInv, NEW p \in Processes, NEW m \in Mails, NEW q \in Worker,
           worker' = [worker EXCEPT ![p] = q], q.batch = worker[p].batch, q.now = worker[p].now,
           q.at \subseteq InBatch(p),
           q.stage \in {"send", "complete"} => \A n \in q.at : n \in Security \/ slot[n] # Unreserved,
           q.stage = "complete" => q.at \subseteq accepted',
           accepted' \in {accepted, accepted \cup {m}},
           m \in accepted' => m \in accepted \/ m \in Security \/ slot[m] # Unreserved,
           UNCHANGED <<delivery, slot, wants, clock>>, faults' \in 0..MaxFaults
    PROVE  HandStep(p, m, q)
BY DEF HandStep, IndInv, EmailTypeOK, InBatch

LEMMA PickForm ==
    ASSUME IndInv, NEW p \in Processes, NEW m \in Mails, Pick(p, m)
    PROVE  \E q \in Worker : HandStep(p, m, q)
<1> USE DEF IndInv
<1> DEFINE stage == IF m \in Security \/ slot[m] # Unreserved THEN "send" ELSE "reserve"
           q == Going(p, m, stage)
<1>1. worker[p] \in Worker /\ m \in InBatch(p) /\ stage \in {"send", "reserve"}
      /\ (stage = "send" => m \in Security \/ slot[m] # Unreserved)
  BY DEF EmailTypeOK, Pick
<1>2. worker' = [worker EXCEPT ![p] = q] /\ UNCHANGED <<delivery, slot, accepted, wants, clock>>
      /\ faults' \in 0..MaxFaults
  BY DEF Pick, EmailTypeOK
<1> HIDE DEF stage
<1>3. q \in Worker /\ q.batch = worker[p].batch /\ q.now = worker[p].now /\ q.at = {m} /\ q.stage = stage
  BY <1>1 DEF Going, Worker
<1> HIDE DEF q
<1>4. q.stage \in {"send", "complete"} => \A n \in q.at : n \in Security \/ slot[n] # Unreserved
  BY <1>1, <1>3
<1> QED BY <1>1, <1>2, <1>3, <1>4, MovesForm

\* The exits of Reserve, and of a transaction that raises.
LEMMA LeavesForm ==
    ASSUME IndInv, NEW p \in Processes, NEW m \in Mails, NEW stage \in {"defer", "fail"},
           worker' = [worker EXCEPT ![p].stage = stage],
           UNCHANGED <<delivery, slot, accepted, wants, clock>>, faults' \in 0..MaxFaults
    PROVE  \E q \in Worker : HandStep(p, m, q)
<1> USE DEF IndInv
<1> DEFINE q == [worker[p] EXCEPT !.stage = stage]
<1>1. worker[p] \in Worker /\ worker[p].at \subseteq InBatch(p)
  BY DEF EmailTypeOK, HandsAreFull
<1>2. q \in Worker /\ q.batch = worker[p].batch /\ q.now = worker[p].now /\ q.at = worker[p].at
      /\ q.stage = stage
  BY <1>1 DEF Worker
<1>3. worker' = [worker EXCEPT ![p] = q]
  OBVIOUS
<1> HIDE DEF q
<1> QED BY <1>1, <1>2, <1>3, MovesForm

LEMMA SlotsAreNumbers ==
    ASSUME NEW r, NEW date
    PROVE  SlotsTaken(r, date) \in Nat
<1>1. IsFiniteSet({m \in Mails : RecipientOf[m] = r /\ slot[m].date = date})
  BY EmailAssumption, FS_Subset
<1> QED BY <1>1, FS_CardinalityType DEF SlotsTaken

LEMMA ReserveForm ==
    ASSUME IndInv, NEW p \in Processes, NEW m \in Mails, Reserve(p, m)
    PROVE  \E q \in Worker : HandStep(p, m, q)
<1> USE DEF IndInv
<1> DEFINE date == DateOf(worker[p].now)
           number == SlotsTaken(RecipientOf[m], date) + 1
           q == [worker[p] EXCEPT !.stage = "send"]
<1>1. /\ worker[p] \in Worker /\ worker[p].at = {m} /\ worker[p].at \subseteq InBatch(p)
      /\ UNCHANGED <<delivery, accepted, wants, clock>> /\ faults' \in 0..MaxFaults
      /\ slot[m] = Unreserved
  BY DEF EmailTypeOK, HandsAreFull, Reserve, AtMail
<1>2. CASE number > Quota
  BY <1>1, <1>2, LeavesForm DEF Reserve
<1>3. CASE ~(number > Quota)
  <2>1. date \in Nat /\ number \in Nat /\ number > 0
    BY <1>1, DatesAreNumbers, SlotsAreNumbers DEF Worker
  <2>2. slot' = [slot EXCEPT ![m] = [date |-> date, number |-> number]]
        /\ worker' = [worker EXCEPT ![p] = q]
    BY <1>3 DEF Reserve
  <2> HIDE DEF date, number
  <2>3. /\ slot' \in [Mails -> Reservation] /\ slot'[m] # Unreserved
        /\ \A n \in Mails : slot[n] # Unreserved => slot'[n] = slot[n]
    BY <1>1, <2>1, <2>2 DEF EmailTypeOK, Reservation, Unreserved
  <2>4. q \in Worker /\ q.batch = worker[p].batch /\ q.now = worker[p].now /\ q.at = {m}
        /\ q.stage = "send"
    BY <1>1 DEF Worker
  <2> HIDE DEF q
  <2> QED BY <1>1, <2>2, <2>3, <2>4 DEF HandStep, InBatch
<1> QED BY <1>2, <1>3

LEMMA SendForm ==
    ASSUME IndInv, NEW p \in Processes, NEW m \in Mails,
           Send(p, m) \/ \E taken, fatal \in BOOLEAN : SendFails(p, m, taken, fatal)
    PROVE  \E q \in Worker : HandStep(p, m, q)
<1> USE DEF IndInv
<1>1. worker[p] \in Worker /\ worker[p].at = {m} /\ worker[p].at \subseteq InBatch(p)
      /\ (m \in Security \/ slot[m] # Unreserved)
      /\ UNCHANGED <<delivery, slot, wants, clock>>
  BY DEF EmailTypeOK, HandsAreFull, SendersMay, Send, SendFails, AtMail
<1>2. CASE Send(p, m)
  <2> DEFINE q == [worker[p] EXCEPT !.stage = "complete"]
  <2>1. worker' = [worker EXCEPT ![p] = q] /\ accepted' = accepted \cup {m} /\ faults' \in 0..MaxFaults
    BY <1>2 DEF Send, EmailTypeOK
  <2>2. q \in Worker /\ q.batch = worker[p].batch /\ q.now = worker[p].now /\ q.at = {m}
    BY <1>1 DEF Worker
  <2> HIDE DEF q
  <2> QED BY <1>1, <2>1, <2>2, MovesForm
<1>3. ASSUME NEW taken \in BOOLEAN, NEW fatal \in BOOLEAN, SendFails(p, m, taken, fatal)
      PROVE  \E q \in Worker : HandStep(p, m, q)
  <2> DEFINE q == [worker[p] EXCEPT !.stage = "fail", !.fatal = fatal]
  <2>1. worker' = [worker EXCEPT ![p] = q] /\ accepted' \in {accepted, accepted \cup {m}}
    BY <1>3 DEF SendFails
  <2>2. faults' \in 0..MaxFaults
    <3>1. faults < MaxFaults /\ faults' = faults + 1
      BY <1>3 DEF SendFails
    <3> QED BY <3>1, ConstantsAreNumbers DEF EmailTypeOK
  <2>3. q \in Worker /\ q.batch = worker[p].batch /\ q.now = worker[p].now /\ q.at = {m}
        /\ q.stage = "fail"
    BY <1>1 DEF Worker
  <2> HIDE DEF q
  <2> QED BY <1>1, <2>1, <2>2, <2>3, MovesForm
<1> QED BY <1>2, <1>3

LEMMA EndForm ==
    ASSUME IndInv, NEW p \in Processes, NEW m \in Mails, NEW status, NEW next \in Nat,
           EndClaim(p, m, status, next), worker[p].at = {m},
           status \in {"delivered", "retryable_failed", "permanent_failed"},
           next # NULL <=> status = "retryable_failed",
           status = "delivered" => m \in accepted,
           UNCHANGED <<slot, accepted, wants, clock, faults>>
    PROVE  \E q \in Worker : HandStep(p, m, q)
<1> USE DEF IndInv
<1>1. m \in InBatch(p)
  BY DEF HandsAreFull
<1> DEFINE q == Proceeded(p, m)
<1>2. /\ q \in Worker /\ q.stage = "next" /\ q.at = {} /\ q.batch[m] = 0
      /\ \A n \in Mails : q.batch[n] = 0 \/ (q.batch[n] = worker[p].batch[n] /\ q.now = worker[p].now)
  BY <1>1, ProceededForm
<1>3. worker' = [worker EXCEPT ![p] = q]
  BY DEF EndClaim
<1> HIDE DEF q
<1>4. UNCHANGED delivery \/ \E row \in Delivery : Ended(p, m, row)
  <2>1. CASE Fenced(p, m)
    <3> DEFINE row == [delivery[m] EXCEPT !.status = status, !.next = next, !.started = NULL]
    <3>1. delivery' = [delivery EXCEPT ![m] = row]
      BY <2>1 DEF EndClaim
    <3>2. delivery[m] \in Delivery
      BY <2>1, RowFields DEF Fenced
    <3>3. row \in Delivery /\ row.attempts = delivery[m].attempts /\ row.started = NULL
          /\ row.status = status /\ row.next = next
      BY <3>2 DEF Delivery, Statuses, NULL
    <3> HIDE DEF row
    <3> QED BY <2>1, <3>1, <3>3 DEF Ended
  <2>2. CASE ~Fenced(p, m)
    BY <2>2 DEF EndClaim
  <2> QED BY <2>1, <2>2
<1> QED BY <1>2, <1>3, <1>4 DEF HandStep, EmailTypeOK

LEMMA EndsForm ==
    ASSUME IndInv, NEW p \in Processes, NEW m \in Mails,
           DeferQuota(p, m) \/ Complete(p, m) \/ Fail(p, m)
    PROVE  \E q \in Worker : HandStep(p, m, q)
<1> USE DEF IndInv
<1>1. worker[p] \in Worker /\ worker[p].at = {m} /\ worker[p].now \in Nat
  BY DEF EmailTypeOK, DeferQuota, Complete, Fail, AtMail, Worker
<1>2. CASE DeferQuota(p, m)
  <2>1. Midnight(worker[p].now) \in Nat /\ Midnight(worker[p].now) # NULL
    BY <1>1, DatesAreNumbers DEF NULL
  <2> QED BY <1>1, <1>2, <2>1, EndForm DEF DeferQuota
<1>3. CASE Complete(p, m)
  <2>1. m \in accepted
    BY <1>1, <1>3 DEF Complete, AtMail, CompletersSent
  <2> QED BY <1>1, <1>3, <2>1, EndForm DEF Complete, NULL
<1>4. CASE Fail(p, m)
  <2>1. worker[p].now + Backoff \in Nat /\ worker[p].now + Backoff # NULL /\ NULL \in Nat
    BY <1>1, ConstantsAreNumbers DEF NULL
  <2>2. CASE GivesUp(p, m)
    BY <1>1, <1>4, <2>1, <2>2, EndForm DEF Fail
  <2>3. CASE ~GivesUp(p, m)
    BY <1>1, <1>4, <2>1, <2>3, EndForm DEF Fail
  <2> QED BY <2>2, <2>3
<1> QED BY <1>2, <1>3, <1>4

LEMMA CrashForm ==
    ASSUME IndInv, NEW p \in Processes, Crash(p)
    PROVE  HandStep(p, NULL, Resting)
<1>1. faults' \in 0..MaxFaults
  BY ConstantsAreNumbers DEF Crash, IndInv, EmailTypeOK
<1> QED BY <1>1, RestingIsWorker DEF Crash, HandStep, IndInv, EmailTypeOK

LEMMA HandForms ==
    ASSUME IndInv, NEW p \in Processes, WorkerStep(p) \/ Fault(p)
    PROVE  Claim(p) \/ \E m \in Mails \cup {NULL}, q \in Worker : HandStep(p, m, q)
<1> USE DEF IndInv
<1>1. ASSUME NEW m \in Mails, ReserveTwice(p, m) \/ ReserveTooLate(p, m) \/ Stumble(p, m)
      PROVE  \E q \in Worker : HandStep(p, m, q)
  <2>1. faults' \in 0..MaxFaults
    BY <1>1, ConstantsAreNumbers DEF ReserveTwice, ReserveTooLate, Stumble, EmailTypeOK
  <2> QED BY <1>1, <2>1, LeavesForm DEF ReserveTwice, ReserveTooLate, Stumble
<1>2. CASE Crash(p)
  BY <1>2, CrashForm, RestingIsWorker
<1> QED BY <1>1, <1>2, PickForm, ReserveForm, SendForm, EndsForm DEF WorkerStep, Fault

-----------------------------------------------------------------------------
(***************************************************************************)
(* Claims, and the steps outside the workers.                              *)
(***************************************************************************)
\* What a claim does to each mail and to the memory of its process.
LEMMA ClaimForm ==
    ASSUME IndInv, NEW p \in Processes, Claim(p)
    PROVE  \E S \in SUBSET Mails, q \in Worker :
            /\ worker' = [worker EXCEPT ![p] = q] /\ InBatch(p) = {}
            /\ q.stage = "next" /\ q.at = {} /\ q.now = clock
            /\ \A m \in Mails : q.batch[m] = (IF m \in S THEN delivery[m].attempts + 1 ELSE 0)
            /\ delivery' \in [Mails -> Delivery \cup {Absent}]
            /\ \A m \in S :
                /\ Claimable(m, clock)
                /\ delivery'[m].status = "processing" /\ delivery'[m].started = clock
                /\ delivery'[m].next = NULL
                /\ delivery'[m].attempts = delivery[m].attempts + 1
            /\ \A m \in Mails : m \notin S => delivery'[m] = delivery[m]
            /\ UNCHANGED <<slot, accepted, wants, clock, faults>>
<1> USE DEF IndInv
<1> DEFINE claimed(m) == [status |-> "processing", attempts |-> delivery[m].attempts + 1,
                          next |-> NULL, started |-> clock]
<1>1. PICK S \in ClaimBatch(clock) \ {{}} :
        /\ delivery' = [m \in Mails |-> IF m \in S THEN claimed(m) ELSE delivery[m]]
        /\ worker' = [worker EXCEPT ![p] =
             [Resting EXCEPT !.now = clock,
                             !.batch = [m \in Mails |->
                                IF m \in S THEN delivery'[m].attempts ELSE 0]]]
  BY DEF Claim
<1>2. S \subseteq Mails /\ \A m \in S : Claimable(m, clock)
  BY <1>1 DEF ClaimBatch
<1>3. clock \in Nat
  BY ConstantsAreNumbers DEF EmailTypeOK
<1>4. \A m \in Mails :
        /\ claimed(m) \in Delivery /\ claimed(m).status = "processing" /\ claimed(m).started = clock
        /\ claimed(m).next = NULL /\ claimed(m).attempts = delivery[m].attempts + 1
        /\ claimed(m).attempts \in Nat
  <2> SUFFICES ASSUME NEW m \in Mails
               PROVE  /\ claimed(m) \in Delivery /\ claimed(m).status = "processing"
                      /\ claimed(m).started = clock /\ claimed(m).next = NULL
                      /\ claimed(m).attempts = delivery[m].attempts + 1
                      /\ claimed(m).attempts \in Nat
    OBVIOUS
  <2>1. delivery[m].attempts + 1 \in Nat
    BY RowFields
  <2> QED BY <1>3, <2>1 DEF Delivery, Statuses, NULL
<1> HIDE DEF claimed
<1>5. /\ delivery' \in [Mails -> Delivery \cup {Absent}]
      /\ \A m \in S : delivery'[m] = claimed(m)
      /\ \A m \in Mails : m \notin S => delivery'[m] = delivery[m]
  BY <1>1, <1>2, <1>4 DEF EmailTypeOK
<1> DEFINE batch == [m \in Mails |-> IF m \in S THEN delivery'[m].attempts ELSE 0]
           q == [Resting EXCEPT !.now = clock, !.batch = batch]
<1>6. /\ batch \in [Mails -> Nat]
      /\ \A m \in Mails : batch[m] = (IF m \in S THEN delivery[m].attempts + 1 ELSE 0)
  BY <1>2, <1>4, <1>5
<1>7. worker' = [worker EXCEPT ![p] = q]
  BY <1>1
<1> HIDE DEF batch
<1>8. q \in Worker /\ q.stage = "next" /\ q.at = {} /\ q.now = clock /\ q.batch = batch
  BY <1>3, <1>6, RestingIsWorker DEF Worker
<1>9. InBatch(p) = {} /\ UNCHANGED <<slot, accepted, wants, clock, faults>>
  BY RestingIsWorker DEF Claim, InBatch
<1> HIDE DEF q
<1>10. \A m \in S :
        /\ Claimable(m, clock)
        /\ delivery'[m].status = "processing" /\ delivery'[m].started = clock
        /\ delivery'[m].next = NULL
        /\ delivery'[m].attempts = delivery[m].attempts + 1
  BY <1>2, <1>4, <1>5
<1>11. S \in SUBSET Mails /\ \A m \in Mails : q.batch[m] = (IF m \in S THEN delivery[m].attempts + 1 ELSE 0)
  BY <1>2, <1>6, <1>8
<1> HIDE DEF claimed
<1> QED BY <1>5, <1>7, <1>8, <1>9, <1>10, <1>11

\* A claim takes a number nobody has, and supersedes only what is a lease old.
LEMMA ClaimKeeps ==
    ASSUME IndInv, NEW p \in Processes, Claim(p)
    PROVE  IndInv'
<1> USE DEF IndInv
<1>1. PICK S \in SUBSET Mails, q \in Worker :
            /\ worker' = [worker EXCEPT ![p] = q] /\ InBatch(p) = {}
            /\ q.stage = "next" /\ q.at = {} /\ q.now = clock
            /\ \A m \in Mails : q.batch[m] = (IF m \in S THEN delivery[m].attempts + 1 ELSE 0)
            /\ delivery' \in [Mails -> Delivery \cup {Absent}]
            /\ \A m \in S :
                /\ Claimable(m, clock)
                /\ delivery'[m].status = "processing" /\ delivery'[m].started = clock
                /\ delivery'[m].next = NULL
                /\ delivery'[m].attempts = delivery[m].attempts + 1
            /\ \A m \in Mails : m \notin S => delivery'[m] = delivery[m]
            /\ UNCHANGED <<slot, accepted, wants, clock, faults>>
  BY ClaimForm
<1>2. worker \in [Processes -> Worker] /\ clock \in Nat /\ clock > 0 /\ Lease \in Nat
      /\ \A m \in Mails : delivery[m].attempts \in Nat
  BY ConstantsAreNumbers, RowFields DEF EmailTypeOK
<1>3. \A o \in Processes : worker'[o] = (IF o = p THEN q ELSE worker[o])
  BY <1>1, <1>2
<1>4. \A o \in Processes : o # p => InBatch(o)' = InBatch(o)
  BY <1>3 DEF InBatch
<1>5. \A m \in InBatch(p)' : m \in S /\ q.batch[m] = delivery[m].attempts + 1
  BY <1>1, <1>2, <1>3 DEF InBatch
<1>6. EmailTypeOK'
  <2>1. \A m \in Mails :
          /\ delivery'[m].started # NULL <=> delivery'[m].status = "processing"
          /\ delivery'[m].next # NULL <=> delivery'[m].status = "retryable_failed"
    BY <1>1, <1>2 DEF EmailTypeOK, NULL
  <2>2. worker' \in [Processes -> Worker]
    BY <1>1, <1>2
  <2> QED BY <1>1, <2>1, <2>2 DEF EmailTypeOK
<1>7. HandsAreFull' /\ SendersMay'
  BY <1>1, <1>3, <1>4 DEF HandsAreFull, SendersMay
<1>8. CompletersSent'
  BY <1>1, <1>3 DEF CompletersSent
\* A process that had the mail before has a lower number.
<1>9. \A o \in Processes : \A m \in InBatch(o) : o # p =>
        m \in Mails /\ worker[o].batch[m] \in Nat /\ worker[o].batch[m] <= delivery[m].attempts
  BY <1>2 DEF ClaimsAgree, InBatch, Worker
<1>10. ClaimsDiffer'
  <2> SUFFICES ASSUME NEW r \in Processes, NEW o \in Processes, NEW m \in Mails,
                      worker'[r].batch[m] > 0, worker'[r].batch[m] = worker'[o].batch[m]
               PROVE  r = o
    BY DEF ClaimsDiffer
  <2>1. m \in InBatch(r)' /\ m \in InBatch(o)'
    BY DEF InBatch
  <2>2. CASE r # p /\ o # p
    BY <1>3, <2>2 DEF ClaimsDiffer
  <2>3. CASE r = p /\ o # p
    BY <1>2, <1>3, <1>4, <1>5, <1>9, <2>1, <2>3
  <2>4. CASE r # p /\ o = p
    BY <1>2, <1>3, <1>4, <1>5, <1>9, <2>1, <2>4
  <2> QED BY <2>2, <2>3, <2>4
<1>11. ClaimsAgree'
  <2> SUFFICES ASSUME NEW o \in Processes, NEW m \in InBatch(o)'
               PROVE  /\ worker'[o].batch[m] <= delivery'[m].attempts
                      /\ worker'[o].batch[m] = delivery'[m].attempts =>
                           delivery'[m].status = "processing" /\ delivery'[m].started = worker'[o].now
    BY DEF ClaimsAgree
  <2>1. CASE o = p
    BY <1>1, <1>2, <1>3, <1>5, <2>1
  <2>2. CASE o # p /\ m \in S
    <3>1. worker'[o].batch[m] <= delivery[m].attempts /\ worker'[o].batch[m] \in Nat
      BY <1>3, <1>4, <1>9, <2>2
    <3> QED BY <1>1, <1>2, <2>2, <3>1
  <2>3. CASE o # p /\ m \notin S
    BY <1>1, <1>3, <1>4, <1>9, <2>3 DEF ClaimsAgree
  <2> QED BY <2>1, <2>2, <2>3
<1>12. SupersededIsOld'
  <2> SUFFICES ASSUME NEW o \in Processes, NEW m \in Mails, m \in InBatch(o)',
                      worker'[o].batch[m] < delivery'[m].attempts
               PROVE  clock >= worker'[o].now + Lease
    BY <1>1 DEF SupersededIsOld
  <2>1. o # p
    BY <1>1, <1>2, <1>3, <1>5
  <2>2. m \in InBatch(o) /\ worker'[o] = worker[o] /\ worker[o] \in Worker
    BY <1>2, <1>3, <1>4, <2>1
  <2>3. CASE m \notin S
    BY <1>1, <2>2, <2>3 DEF SupersededIsOld
  <2>4. CASE m \in S /\ worker[o].batch[m] < delivery[m].attempts
    BY <2>2, <2>4 DEF SupersededIsOld
  <2>5. CASE m \in S /\ worker[o].batch[m] = delivery[m].attempts
    <3>1. delivery[m].status = "processing" /\ delivery[m].started = worker[o].now
      BY <2>2, <2>5 DEF ClaimsAgree
    <3>2. worker[o].now + Lease <= clock
      BY <1>1, <2>5, <3>1 DEF Claimable
    <3> QED BY <1>2, <2>2, <3>2 DEF Worker
  <2> QED BY <1>2, <1>9, <2>1, <2>2, <2>3, <2>4, <2>5
<1> QED BY <1>6, <1>7, <1>8, <1>10, <1>11, <1>12

LEMMA ProjectKeeps ==
    ASSUME IndInv, NEW m \in Mails, Project(m)
    PROVE  IndInv'
<1> USE DEF IndInv
<1> DEFINE row == [Absent EXCEPT !.status = "pending"]
<1>1. /\ delivery[m] = Absent /\ delivery' = [delivery EXCEPT ![m] = row]
      /\ UNCHANGED <<slot, accepted, wants, worker, clock, faults>>
  BY DEF Project
<1>2. /\ row \in Delivery /\ row.status = "pending" /\ row.started = NULL /\ row.next = NULL
      /\ row.attempts = 0 /\ delivery[m].attempts = 0
  BY <1>1 DEF Absent, Delivery, Statuses, NULL
<1> HIDE DEF row
<1>3. /\ delivery' \in [Mails -> Delivery \cup {Absent}]
      /\ \A n \in Mails : delivery'[n] = (IF n = m THEN row ELSE delivery[n])
  BY <1>1, <1>2 DEF EmailTypeOK
<1>4. \A o \in Processes : InBatch(o)' = InBatch(o) /\ m \notin InBatch(o)
  <2> SUFFICES ASSUME NEW o \in Processes PROVE m \notin InBatch(o)
    BY <1>1 DEF InBatch
  <2>1. worker[o].batch[m] \in Nat
    BY DEF EmailTypeOK, Worker
  <2> QED BY <1>2, <2>1 DEF ClaimsAgree, InBatch
<1>5. EmailTypeOK'
  <2>1. \A n \in Mails :
          /\ delivery'[n].started # NULL <=> delivery'[n].status = "processing"
          /\ delivery'[n].next # NULL <=> delivery'[n].status = "retryable_failed"
    BY <1>2, <1>3 DEF EmailTypeOK
  <2> QED BY <1>1, <1>3, <2>1 DEF EmailTypeOK
<1>6. HandsAreFull' /\ ClaimsDiffer' /\ SendersMay'
  BY <1>1, <1>4 DEF HandsAreFull, ClaimsDiffer, SendersMay
<1>7. ClaimsAgree' /\ SupersededIsOld'
  BY <1>1, <1>3, <1>4 DEF ClaimsAgree, SupersededIsOld, InBatch
<1>8. CompletersSent'
  BY <1>1, <1>2, <1>3 DEF CompletersSent
<1> QED BY <1>5, <1>6, <1>7, <1>8

LEMMA OutsidersKeep ==
    ASSUME IndInv, Tick \/ \E r \in Recipients : UpdatePreferences(r)
    PROVE  IndInv'
<1> USE DEF IndInv
<1>1. UNCHANGED <<delivery, slot, accepted, worker, faults>>
  BY DEF Tick, UpdatePreferences
<1>2. wants' \in [Recipients -> BOOLEAN]
  BY DEF Tick, UpdatePreferences, EmailTypeOK
<1>3. clock' \in 1..(MaxTime + 1) /\ clock' >= clock
  BY ConstantsAreNumbers DEF Tick, UpdatePreferences, EmailTypeOK
<1>4. EmailTypeOK'
  BY <1>1, <1>2, <1>3 DEF EmailTypeOK
<1>5. SupersededIsOld'
  <2>1. \A p \in Processes : worker[p].now \in Nat
    BY DEF EmailTypeOK, Worker
  <2> QED BY <1>1, <1>3, <2>1, ConstantsAreNumbers DEF SupersededIsOld, InBatch, EmailTypeOK
<1> QED BY <1>1, <1>4, <1>5 DEF HandsAreFull, ClaimsDiffer, ClaimsAgree, SendersMay, CompletersSent, InBatch

LEMMA InitInv == EmailInit => IndInv
<1> SUFFICES ASSUME EmailInit PROVE IndInv
  OBVIOUS
<1>1. /\ delivery = [m \in Mails |-> Absent] /\ slot = [m \in Mails |-> Unreserved] /\ accepted = {}
      /\ wants = [r \in Recipients |-> TRUE] /\ worker = [p \in Processes |-> Resting]
      /\ clock = 1 /\ faults = 0
  BY DEF EmailInit
<1>2. \A p \in Processes : worker[p].stage = "next" /\ worker[p].at = {} /\ InBatch(p) = {}
  BY <1>1, RestingIsWorker DEF InBatch
<1>3. \A m \in Mails : delivery[m].status = "absent" /\ delivery[m].started = NULL /\ delivery[m].next = NULL
  BY <1>1 DEF Absent
<1>4. EmailTypeOK
  BY <1>1, <1>3, RestingIsWorker, ConstantsAreNumbers DEF EmailTypeOK, Unreserved, Reservation
<1>5. HandsAreFull /\ ClaimsAgree /\ SendersMay /\ CompletersSent /\ SupersededIsOld
  BY <1>2, <1>3 DEF HandsAreFull, ClaimsAgree, SendersMay, CompletersSent, SupersededIsOld
<1>6. ClaimsDiffer
  BY <1>1, RestingIsWorker DEF ClaimsDiffer
<1> QED BY <1>4, <1>5, <1>6 DEF IndInv

LEMMA StepInv == IndInv /\ [EmailNext]_emailVars => IndInv'
<1> SUFFICES ASSUME IndInv, [EmailNext]_emailVars PROVE IndInv'
  OBVIOUS
<1>1. CASE \E m \in Mails : Project(m)
  BY <1>1, ProjectKeeps
<1>2. CASE Tick \/ \E r \in Recipients : UpdatePreferences(r)
  BY <1>2, OutsidersKeep
<1>3. CASE \E p \in Processes : WorkerStep(p) \/ Fault(p)
  BY <1>3, HandForms, ClaimKeeps, HandKeeps
<1>4. CASE UNCHANGED emailVars
  BY <1>4 DEF emailVars, IndInv, EmailTypeOK, HandsAreFull, ClaimsDiffer, ClaimsAgree, SendersMay,
       CompletersSent, SupersededIsOld, InBatch
<1> QED BY <1>1, <1>2, <1>3, <1>4 DEF EmailNext

LEMMA Invariant == EmailSpec => []IndInv
<1> QED BY InitInv, StepInv, PTL DEF EmailSpec

\* Rows, claims and leases agree, and a process whose claim was superseded has
\* had its lease: for any number of processes and any lease.
THEOREM LeasesArePatient == EmailSpec => []EmailInv
<1>1. IndInv => EmailInv
  BY DEF IndInv, EmailInv
<1> QED BY <1>1, Invariant, PTL

-----------------------------------------------------------------------------
(***************************************************************************)
(* Who ends a claim.                                                       *)
(***************************************************************************)
\* What a step of a process can do to the row of a mail.
LEMMA HandEnds ==
    ASSUME IndInv, NEW p \in Processes, NEW m, NEW q \in Worker, HandStep(p, m, q), NEW n \in Mails
    PROVE  \/ delivery'[n] = delivery[n]
           \/ /\ n \in worker[p].at /\ worker'[p] # worker[p] /\ Fenced(p, n)
              /\ worker[p].now = delivery[n].started
              /\ delivery'[n].status \in {"delivered", "retryable_failed", "permanent_failed"}
              /\ delivery'[n].status = "delivered" => n \in accepted
<1> USE DEF IndInv
<1>1. CASE UNCHANGED delivery
  BY <1>1
<1>2. ASSUME q.batch[m] = 0, worker[p].at = {m}, NEW row \in Delivery, Ended(p, m, row), n = m
      PROVE  /\ n \in worker[p].at /\ worker'[p] # worker[p] /\ Fenced(p, n)
             /\ worker[p].now = delivery[n].started
             /\ delivery'[n].status \in {"delivered", "retryable_failed", "permanent_failed"}
             /\ delivery'[n].status = "delivered" => n \in accepted
  <2>1. m \in InBatch(p) /\ worker[p].batch[m] > 0
    BY <1>2 DEF HandsAreFull, InBatch
  <2>2. worker'[p] = q
    BY DEF HandStep, EmailTypeOK
  <2>3. worker[p].now = delivery[m].started
    BY <1>2, <2>1 DEF ClaimsAgree, Ended, Fenced
  <2>4. delivery'[n] = row
    BY <1>2 DEF Ended, EmailTypeOK
  <2> QED BY <1>2, <2>1, <2>2, <2>3, <2>4 DEF Ended
<1>3. ASSUME NEW row \in Delivery, Ended(p, m, row), n # m
      PROVE  delivery'[n] = delivery[n]
  BY <1>3 DEF Ended, EmailTypeOK
<1> QED BY <1>1, <1>2, <1>3 DEF HandStep

LEMMA StepEnds == IndInv /\ [EmailNext]_emailVars => EndStep
<1> SUFFICES ASSUME IndInv, [EmailNext]_emailVars, NEW m \in Mails,
                    delivery[m].status = "processing", delivery'[m].status # "processing"
             PROVE  \E p \in Processes :
                      /\ worker'[p] # worker[p] /\ m \in worker[p].at
                      /\ worker[p].batch[m] = delivery[m].attempts
                      /\ worker[p].now = delivery[m].started
  BY DEF EndStep
<1>1. CASE \E n \in Mails : Project(n)
  <2>1. PICK n \in Mails : Project(n)
    BY <1>1
  <2>2. n # m /\ delivery'[m] = delivery[m]
    BY <2>1 DEF Project, Absent, IndInv, EmailTypeOK
  <2> QED BY <2>2
<1>2. CASE Tick \/ (\E r \in Recipients : UpdatePreferences(r)) \/ UNCHANGED emailVars
  BY <1>2 DEF Tick, UpdatePreferences, emailVars
<1>3. ASSUME NEW p \in Processes, Claim(p) PROVE FALSE
  BY <1>3, ClaimForm
<1>4. ASSUME NEW p \in Processes, WorkerStep(p) \/ Fault(p)
      PROVE  /\ worker'[p] # worker[p] /\ m \in worker[p].at
             /\ worker[p].batch[m] = delivery[m].attempts
             /\ worker[p].now = delivery[m].started
  <2>1. PICK n \in Mails \cup {NULL}, q \in Worker : HandStep(p, n, q)
    BY <1>3, <1>4, HandForms
  <2> QED BY <2>1, HandEnds DEF Fenced
<1> QED BY <1>1, <1>2, <1>4 DEF EmailNext

\* A claim is ended by the process that made it, with the number and the time
\* of the claim in force, however late the others come.
THEOREM ClaimantEnds == EmailSpec => EndedByItsClaim
BY Invariant, StepEnds, PTL DEF EmailSpec, EndedByItsClaim

-----------------------------------------------------------------------------
(***************************************************************************)
(* The contract, mail by mail.                                             *)
(***************************************************************************)
Phase(m) == PhaseOf[delivery[m].status]

\* A step of the contract for one mail, without the names of its operations.
MailMove(m) ==
    \/ (m \in accepted)' = (m \in accepted) /\ Phase(m)' = Phase(m)
    \/ /\ (m \in accepted)' = (m \in accepted)
       /\ \/ Phase(m) = "absent" /\ Phase(m)' = "open"
          \/ Phase(m) = "open" /\ Phase(m)' = "claimed"
          \/ Phase(m) = "claimed" /\ Phase(m)' \in {"open", "abandoned"}
          \/ Phase(m) = "claimed" /\ Phase(m)' = "settled" /\ m \in accepted
    \/ /\ m \notin accepted /\ m \in accepted'
       /\ Phase(m) \notin {"absent", "settled", "forgotten"}
       /\ Phase(m)' = Phase(m)

LEMMA MovesAreContractSteps ==
    ASSUME NEW m \in Mails, MailMove(m)
    PROVE  Contract!ItemStep(m)
BY DEF MailMove, Phase, Contract!ItemStep, Contract!Publish, Contract!Claim, Contract!Act,
       Contract!Settle, Contract!GiveBack, Contract!GiveUp, Contract!Reopen, Contract!Forget,
       Contract!Moves, Contract!Keeps

LEMMA ProjectMoves ==
    ASSUME IndInv, NEW n \in Mails, Project(n), NEW m \in Mails
    PROVE  MailMove(m)
<1>1. delivery[n] = Absent /\ delivery' = [delivery EXCEPT ![n] = [Absent EXCEPT !.status = "pending"]]
      /\ accepted' = accepted /\ delivery \in [Mails -> Delivery \cup {Absent}]
  BY DEF Project, IndInv, EmailTypeOK
<1>2. CASE m = n
  BY <1>1, <1>2 DEF MailMove, Phase, PhaseOf, Absent
<1>3. CASE m # n
  BY <1>1, <1>3 DEF MailMove, Phase
<1> QED BY <1>2, <1>3

LEMMA ClaimMoves ==
    ASSUME IndInv, NEW p \in Processes, Claim(p), NEW m \in Mails
    PROVE  MailMove(m)
<1>1. /\ accepted' = accepted
      /\ \/ delivery'[m] = delivery[m]
         \/ Claimable(m, clock) /\ delivery'[m].status = "processing"
  BY ClaimForm
<1>2. CASE delivery'[m] = delivery[m]
  BY <1>1, <1>2 DEF MailMove, Phase
<1>3. CASE Claimable(m, clock) /\ delivery'[m].status = "processing"
  <2>1. delivery[m].status \in {"pending", "retryable_failed", "processing"}
    BY <1>3 DEF Claimable
  <2> QED BY <1>1, <1>3, <2>1 DEF MailMove, Phase, PhaseOf
<1> QED BY <1>1, <1>2, <1>3

\* The provider takes only mails that are in hand, and so are not settled.
LEMMA HandMoves ==
    ASSUME IndInv, NEW p \in Processes, NEW n, NEW q \in Worker, HandStep(p, n, q), NEW m \in Mails,
           m \in accepted' /\ m \notin accepted => m \in InBatch(p) /\ UNCHANGED delivery
    PROVE  MailMove(m)
<1> USE DEF IndInv
<1>1. CASE m \in accepted' /\ m \notin accepted
  <2>1. delivery[m].attempts > 0
    <3>1. worker[p].batch[m] \in Nat /\ worker[p].batch[m] > 0 /\ worker[p].batch[m] <= delivery[m].attempts
      BY <1>1 DEF ClaimsAgree, InBatch, EmailTypeOK, Worker
    <3> QED BY <3>1, RowFields
  <2>2. delivery[m].status \in Statuses /\ delivery[m].status # "delivered"
    BY <1>1, <2>1, RowFields DEF CompletersSent
  <2>3. Phase(m) \in {"open", "claimed", "abandoned"}
    BY <2>2 DEF Phase, PhaseOf, Statuses
  <2> QED BY <1>1, <2>3 DEF MailMove, Phase
<1>2. CASE ~(m \in accepted' /\ m \notin accepted)
  <2>1. (m \in accepted)' = (m \in accepted)
    BY <1>2 DEF HandStep
  <2>2. CASE delivery'[m] = delivery[m]
    BY <2>1, <2>2 DEF MailMove, Phase
  <2>3. CASE delivery'[m] # delivery[m]
    <3>1. /\ delivery[m].status = "processing"
          /\ delivery'[m].status \in {"delivered", "retryable_failed", "permanent_failed"}
          /\ delivery'[m].status = "delivered" => m \in accepted
      BY <2>3, HandEnds DEF Fenced
    <3> QED BY <2>1, <3>1 DEF MailMove, Phase, PhaseOf
  <2> QED BY <2>2, <2>3
<1> QED BY <1>1, <1>2

LEMMA EveryMailMoves ==
    ASSUME IndInv, [EmailNext]_emailVars, NEW m \in Mails
    PROVE  MailMove(m)
<1>1. CASE \E n \in Mails : Project(n)
  BY <1>1, ProjectMoves
<1>2. CASE Tick \/ (\E r \in Recipients : UpdatePreferences(r)) \/ UNCHANGED emailVars
  BY <1>2 DEF Tick, UpdatePreferences, emailVars, MailMove, Phase
<1>3. ASSUME NEW p \in Processes, WorkerStep(p) \/ Fault(p) PROVE MailMove(m)
  <2>1. m \in accepted' /\ m \notin accepted => m \in InBatch(p) /\ UNCHANGED delivery
    <3>1. CASE \E n \in Mails : Send(p, n) \/ \E taken, fatal \in BOOLEAN : SendFails(p, n, taken, fatal)
      BY <3>1 DEF Send, SendFails, AtMail, IndInv, HandsAreFull
    <3>2. CASE UNCHANGED accepted
      BY <3>2
    <3> QED BY <1>3, <3>1, <3>2 DEF WorkerStep, Fault, Claim, Pick, Reserve, ReserveTwice,
            ReserveTooLate, DeferQuota, Complete, Fail, Stumble, Crash
  <2> QED BY <1>3, <2>1, HandForms, ClaimMoves, HandMoves
<1> QED BY <1>1, <1>2, <1>3 DEF EmailNext

\* The e-mail queue implements the contract of all queues: delivered means that
\* the provider has taken the mail, and it is claimed before that.
THEOREM ImplementsContract == EmailSpec => MailKeepsContract
<1>1. EmailInit => Contract!Init
  <2> SUFFICES ASSUME EmailInit PROVE Contract!Init
    OBVIOUS
  <2>1. \A m \in Mails : PhaseOf[delivery[m].status] = "absent" /\ (m \in accepted) = FALSE
    BY DEF EmailInit, Absent, PhaseOf
  <2> QED BY <2>1 DEF Contract!Init
<1>2. IndInv /\ [EmailNext]_emailVars => [Contract!Next]_(Contract!contractVars)
  BY EveryMailMoves, MovesAreContractSteps DEF Contract!Next
<1> QED BY <1>1, <1>2, Invariant, PTL DEF EmailSpec, MailKeepsContract, Contract!Spec

-----------------------------------------------------------------------------
(***************************************************************************)
(* The quota.                                                              *)
(***************************************************************************)
Taken(r, date) == {m \in Mails : RecipientOf[m] = r /\ slot[m].date = date}

LEMMA TakenIsFinite ==
    ASSUME NEW r, NEW date
    PROVE  /\ IsFiniteSet(Taken(r, date)) /\ Cardinality(Taken(r, date)) \in Nat
           /\ Cardinality(Taken(r, date)) = SlotsTaken(r, date)
<1>1. IsFiniteSet(Taken(r, date))
  BY EmailAssumption, FS_Subset DEF Taken
<1> QED BY <1>1, FS_CardinalityType DEF Taken, SlotsTaken

SlotsInOrder ==
    \A r \in Recipients, date \in 1..DateOf(MaxTime) :
        /\ Cardinality(Taken(r, date)) <= Quota
        /\ {slot[m].number : m \in Taken(r, date)} = 1..Cardinality(Taken(r, date))

SentIsReserved == \A m \in accepted \ Security : slot[m] # Unreserved

LEMMA QuotaIsBoth == QuotaKept <=> SlotsInOrder /\ SentIsReserved
BY DEF QuotaKept, SlotsInOrder, SentIsReserved, Taken

LEMMA SameSlots ==
    ASSUME SlotsInOrder, UNCHANGED slot
    PROVE  SlotsInOrder'
<1>1. \A r, date : Taken(r, date)' = Taken(r, date)
  BY DEF Taken
<1> QED BY <1>1 DEF SlotsInOrder

\* A reservation takes the next number of its date, if there is one.
LEMMA ReserveCounts ==
    ASSUME IndInv, SlotsInOrder, NEW p \in Processes, NEW m \in Mails, Reserve(p, m)
    PROVE  SlotsInOrder'
<1> USE DEF IndInv
<1> DEFINE d == DateOf(worker[p].now)
           mine == RecipientOf[m]
           number == SlotsTaken(mine, d) + 1
<1>1. CASE UNCHANGED slot
  BY <1>1, SameSlots
<1>2. CASE slot' = [slot EXCEPT ![m] = [date |-> d, number |-> number]] /\ ~(number > Quota)
  <2> SUFFICES ASSUME NEW r \in Recipients, NEW date \in 1..DateOf(MaxTime)
               PROVE  /\ Cardinality(Taken(r, date)') <= Quota
                      /\ {slot'[n].number : n \in Taken(r, date)'} = 1..Cardinality(Taken(r, date)')
    BY DEF SlotsInOrder, Taken
  <2>1. m \notin Taken(r, date)
    BY DEF Reserve, Taken, Unreserved
  <2>2. slot \in [Mails -> Reservation]
    BY DEF EmailTypeOK
  <2>3. \A n \in Mails : n # m => slot'[n] = slot[n]
    BY <1>2, <2>2
  <2>4. slot'[m].date = d /\ slot'[m].number = number
    BY <1>2, <2>2
  <2>5. number = Cardinality(Taken(mine, d)) + 1
    BY TakenIsFinite
  <2>6. /\ Cardinality(Taken(r, date)) <= Quota
        /\ {slot[n].number : n \in Taken(r, date)} = 1..Cardinality(Taken(r, date))
    BY DEF SlotsInOrder
  <2>7. number \in Nat /\ number <= Quota
    BY <1>2, SlotsAreNumbers, ConstantsAreNumbers
  <2> HIDE DEF d, number, mine
  <2>8. CASE r = mine /\ date = d
    <3>1. Taken(r, date)' = Taken(r, date) \cup {m}
      BY <2>3, <2>4, <2>8 DEF Taken, mine
    <3>2. Cardinality(Taken(r, date)') = number
      BY <2>1, <2>5, <2>8, <3>1, TakenIsFinite, FS_AddElement
    <3>3. {slot'[n].number : n \in Taken(r, date)'} = {slot[n].number : n \in Taken(r, date)} \cup {number}
      <4>1. \A n \in Taken(r, date) : slot'[n].number = slot[n].number
        BY <2>1, <2>3 DEF Taken
      <4> QED BY <2>4, <3>1, <4>1
    <3>4. (1..Cardinality(Taken(r, date))) \cup {number} = 1..number
      BY <2>5, <2>8, TakenIsFinite
    <3> QED BY <2>6, <2>7, <3>2, <3>3, <3>4
  <2>9. CASE ~(r = mine /\ date = d)
    <3>1. Taken(r, date)' = Taken(r, date)
      BY <2>1, <2>3, <2>4, <2>9 DEF Taken, mine
    <3>2. \A n \in Taken(r, date) : slot'[n].number = slot[n].number
      BY <2>1, <2>3 DEF Taken
    <3>3. {slot'[n].number : n \in Taken(r, date)'} = {slot[n].number : n \in Taken(r, date)}
      BY <3>1, <3>2
    <3> QED BY <2>6, <3>1, <3>3
  <2> QED BY <2>8, <2>9
<1> QED BY <1>1, <1>2 DEF Reserve

LEMMA StepQuota == IndInv /\ QuotaKept /\ [EmailNext]_emailVars => QuotaKept'
<1> SUFFICES ASSUME IndInv, QuotaKept, [EmailNext]_emailVars PROVE SlotsInOrder' /\ SentIsReserved'
  BY QuotaIsBoth DEF QuotaKept, SlotsInOrder, SentIsReserved, Taken
<1>1. SlotsInOrder /\ SentIsReserved
  BY QuotaIsBoth
<1>2. CASE UNCHANGED <<slot, accepted>>
  BY <1>1, <1>2, SameSlots DEF SentIsReserved
<1>3. ASSUME NEW p \in Processes, WorkerStep(p) \/ Fault(p)
      PROVE  SlotsInOrder' /\ SentIsReserved'
  <2>1. CASE UNCHANGED <<slot, accepted>>
    BY <1>2, <2>1
  <2>2. SlotsInOrder'
    <3>1. CASE \E m \in Mails : Reserve(p, m)
      BY <1>1, <3>1, ReserveCounts
    <3>2. CASE UNCHANGED slot
      BY <1>1, <3>2, SameSlots
    <3> QED BY <1>3, <3>1, <3>2 DEF WorkerStep, Fault, Claim, Pick, Send, SendFails, ReserveTwice,
            ReserveTooLate, DeferQuota, Complete, Fail, Stumble, Crash
  <2>3. SentIsReserved'
    <3>1. CASE Claim(p)
      BY <2>1, <3>1, ClaimForm
    <3>2. ASSUME NEW m \in Mails \cup {NULL}, NEW q \in Worker, HandStep(p, m, q)
          PROVE  SentIsReserved'
      BY <1>1, <3>2 DEF HandStep, SentIsReserved, IndInv, EmailTypeOK
    <3> QED BY <1>3, <3>1, <3>2, HandForms
  <2> QED BY <2>2, <2>3
<1>4. CASE ~\E p \in Processes : WorkerStep(p) \/ Fault(p)
  BY <1>2, <1>4 DEF EmailNext, Project, UpdatePreferences, Tick, emailVars
<1> QED BY <1>3, <1>4

LEMMA InitQuota == EmailInit => QuotaKept
<1> SUFFICES ASSUME EmailInit PROVE SlotsInOrder /\ SentIsReserved
  BY QuotaIsBoth
<1>1. SlotsInOrder
  <2> SUFFICES ASSUME NEW r \in Recipients, NEW date \in 1..DateOf(MaxTime)
               PROVE  /\ Cardinality(Taken(r, date)) <= Quota
                      /\ {slot[m].number : m \in Taken(r, date)} = 1..Cardinality(Taken(r, date))
    BY DEF SlotsInOrder
  <2>1. Taken(r, date) = {}
    BY DEF Taken, EmailInit, Unreserved
  <2>2. Cardinality(Taken(r, date)) = 0
    BY <2>1, FS_EmptySet
  <2> QED BY <2>1, <2>2, ConstantsAreNumbers
<1>2. SentIsReserved
  BY DEF SentIsReserved, EmailInit
<1> QED BY <1>1, <1>2

\* The reservations of a recipient on a date are numbered from one without
\* gaps and never exceed the quota, and nothing but security mail is sent
\* without one: for any number of processes that reserve at once.
THEOREM QuotaHolds == EmailSpec => []QuotaKept
BY Invariant, InitQuota, StepQuota, PTL DEF EmailSpec

=============================================================================





