------------------------------ MODULE AdminDesk ------------------------------
(***************************************************************************)
(* What platform administrators decide: moderation cases and the accounts, *)
(* clubs and events they are about (moderation), feature flags (settings)  *)
(* and regional policies (regions), with the audit records of all three.   *)
(*                                                                         *)
(* A decision is one transaction.  It locks the rows it is about, reads    *)
(* them, checks that the decision still applies, and writes.  Several      *)
(* cases may be about one target, and owners act on targets as well.       *)
(*                                                                         *)
(* Left out: who is an administrator with an active second factor (a       *)
(* request is modelled once it has passed), reasons, priorities, the rate  *)
(* limit of reports, and moderation_case_events, which repeats the audit.  *)
(***************************************************************************)
EXTENDS Naturals

CONSTANTS
    Accounts, ClubPages, EventPages,   \* the targets that can be reported
    Cases,
    Flags, Policies,  \* platform_settings and regional_policies: what has a revision
    Decisions,        \* the transactions that may be open at once
    Nothing,
    MaxDecisions      \* Bound: requests of administrators

ASSUME AdminAssumption ==
    /\ MaxDecisions \in Nat
    /\ Accounts \cap ClubPages = {} /\ Accounts \cap EventPages = {}
    /\ ClubPages \cap EventPages = {} /\ Flags \cap Policies = {}
    /\ (Accounts \cup ClubPages \cup EventPages) \cap (Cases \cup Flags \cup Policies) = {}
    /\ Cases \cap (Flags \cup Policies) = {}
    /\ Nothing \notin Accounts \cup ClubPages \cup EventPages \cup Cases \cup Flags \cup Policies

VARIABLES
    target,     \* the status of each account, club and event
    case,       \* talaqi.moderation_cases: status and target
    document,   \* the fields and the revision of each flag and policy
    notices,    \* outbox keys of moderation.action_taken: moderation:{case}:action:{action}
    audit,      \* the last record of talaqi.audit_events that was committed
    reqs,       \* the open transaction of each request
    decided       \* how much of MaxDecisions is used

adminVars == <<target, case, document, notices, audit, reqs, decided>>

Targets == Accounts \cup ClubPages \cup EventPages
Documents == Flags \cup Policies

Actions == {"suspend", "unpublish", "restore"}

TargetStatuses == {"active", "deleted", "draft", "published", "unpublished", "suspended", "ended"}
CaseStatuses == {"absent", "open", "investigating", "actioned", "dismissed"}

\* The fields of a document that an administrator may change, and two values of each.
Fields(d) == IF d \in Flags THEN {"enabled"} ELSE {"club_limit", "event_limit"}
Choices == {0, 1}

Values(d) == [Fields(d) -> Choices]

\* A change names one of the fields; a request that names several is not modelled.
Changes(d) == UNION {[{f} -> Choices] : f \in Fields(d)}

With(values, change) ==
    [f \in DOMAIN values |-> IF f \in DOMAIN change THEN change[f] ELSE values[f]]

Resting == [op |-> "idle", held |-> {}]

Acting ==
    [op : {"act"}, step : {"case", "target", "commit"}, case : Cases, action : Actions,
     before : TargetStatuses \cup {Nothing}, held : SUBSET (Cases \cup Targets)]

Sorting ==
    [op : {"workflow"}, step : {"case", "commit"}, case : Cases,
     action : {"acknowledge", "dismiss"}, held : SUBSET Cases]

DocumentVersions(d) == [values : Values(d), revision : Nat]

Setting(d) == [op : {"set"}, step : {"document", "commit"}, document : {d},
               seen : DocumentVersions(d), change : Changes(d), held : SUBSET Documents]

\* safe_before and safe_after are JSON objects.
BeingOneOf(statuses) == [status : statuses]
Being(status) == [status |-> status]

Told(about, before, after) == [about : about, before : before, after : after]

NoRecord == [about |-> Nothing, before |-> Nothing, after |-> Nothing]

\* Of a policy, only the control that changes is recorded, with the revision.
AuditRecord(a) ==
    \/ a \in Told(Targets, BeingOneOf(TargetStatuses), BeingOneOf(TargetStatuses))
    \/ a \in Told(Targets, {Nothing}, [case : Cases])
    \/ a \in Told(Cases, BeingOneOf(CaseStatuses), BeingOneOf(CaseStatuses))
    \/ \E d \in Flags : a \in Told({d}, DocumentVersions(d), DocumentVersions(d))
    \/ \E d \in Policies, f \in {"club_limit", "event_limit"} :
         LET control == [values : [{f} -> Choices], revision : Nat] IN
         a \in Told({d}, control, control)

AdminTypeOK ==
    /\ target \in [Targets -> TargetStatuses]
    /\ case \in [Cases -> [status : CaseStatuses, target : Targets \cup {Nothing}]]
    /\ \A d \in Documents : document[d] \in DocumentVersions(d)
    /\ notices \subseteq Cases \X Actions
    /\ audit = NoRecord \/ AuditRecord(audit)
    /\ \A r \in Decisions :
         reqs[r] \in Acting \cup Sorting \cup {Resting} \/ \E d \in Documents : reqs[r] \in Setting(d)
    /\ decided \in 0..MaxDecisions
    /\ \A t \in Accounts : target[t] \in {"active", "suspended", "deleted"}
    /\ \A t \in EventPages : target[t] # "unpublished"
    /\ \A c \in Cases : case[c].status = "absent" <=> case[c].target = Nothing

AdminInit ==
    /\ target = [t \in Targets |-> IF t \in Accounts THEN "active" ELSE "draft"]
    /\ case = [c \in Cases |-> [status |-> "absent", target |-> Nothing]]
    /\ document = [d \in Documents |-> [values |-> [f \in Fields(d) |-> 1], revision |-> 1]]
    /\ notices = {} /\ audit = NoRecord
    /\ reqs = [r \in Decisions |-> Resting] /\ decided = 0

----------------------------------------------------------------------------
(* What a decision applies to. *)

\* capabilities: what can be done to a target, by its kind and status.
Capabilities(t) == {a \in Actions :
    \/ a = "suspend" /\ target[t] = IF t \in Accounts THEN "active" ELSE "published"
    \/ a = "unpublish" /\ t \in ClubPages /\ target[t] = "published"
    \/ a = "restore" /\ (target[t] = "suspended" \/ (t \in ClubPages /\ target[t] = "unpublished"))}

\* case_capabilities: what a case that was actioned still offers is to restore.
Offered(c) == {a \in Actions :
    /\ case[c].status \in {"open", "investigating", "actioned"}
    /\ case[c].status = "actioned" => a = "restore"
    /\ a \in Capabilities(case[c].target)}

\* Where the UPDATE of apply_target_action takes effect, and the new status.
AppliesTo(t, action) ==
    /\ action = "suspend" => target[t] \in {"active", "published"}
    /\ action = "unpublish" => t \in ClubPages /\ target[t] = "published"
    /\ action = "restore" => target[t] \in {"suspended", "unpublished"}

\* Mutant: what is restored is published, accounts as well.
OutcomePublished(t, action) ==
    IF action = "restore" THEN "published"
    ELSE IF action = "unpublish" THEN "unpublished" ELSE "suspended"

Outcome(t, action) ==
    IF action = "restore" THEN IF t \in Accounts THEN "active" ELSE "published"
    ELSE IF action = "unpublish" THEN "unpublished" ELSE "suspended"

\* Mutant: a case can be dismissed after it was actioned.
WorkflowAllowsLate(c, action) ==
    \/ action = "acknowledge" /\ case[c].status = "open"
    \/ action = "dismiss" /\ case[c].status \in {"open", "investigating", "actioned"}

WorkflowAllows(c, action) ==
    \/ action = "acknowledge" /\ case[c].status = "open"
    \/ action = "dismiss" /\ case[c].status \in {"open", "investigating"}

\* The deduplication key of the notification.
Notice(c, action) == <<c, action>>

\* enqueue raises OutboxDeduplicationConflictError: the row under that key was
\* made available at another time.
Refused(c, action) ==
    case[c].target \in Accounts /\ Notice(c, action) \in notices

----------------------------------------------------------------------------
(* Transactions. *)

Unheld(row, r) == \A q \in Decisions \ {r} : row \notin reqs[q].held

MayDecide(r) == reqs[r] = Resting /\ decided < MaxDecisions

At(r, op, step) == reqs[r] # Resting /\ reqs[r].op = op /\ reqs[r].step = step

Holding(r, step, row) == reqs' = [reqs EXCEPT ![r].step = step, ![r].held = @ \cup row]
Ends(r) == reqs' = [reqs EXCEPT ![r] = Resting]

AuditEvent(about, before, after) == [about |-> about, before |-> before, after |-> after]

\* The record is inserted in the transaction of what it tells of.
Recorded(about, before, after) == audit' = AuditEvent(about, before, after)

Begins(r, transaction) ==
    /\ reqs' = [reqs EXCEPT ![r] = transaction]
    /\ decided' = decided + 1
    /\ UNCHANGED <<target, case, document, notices, audit>>

\* create_report: the case with its first status.
Report(c, t) == case' = [case EXCEPT ![c] = [status |-> "open", target |-> t]]

\* require_enabled reads the flag member_reports_enabled without a lock: a report
\* that is being written when it is turned off is accepted.
ReportsEnabled == \A d \in Flags : document[d].values["enabled"] = 1

\* The case and the record of who reported what.
ReportAccepted(c, t) == ReportsEnabled /\ Report(c, t) /\ Recorded(t, Nothing, [case |-> c])

\* A report that is sent again is answered from its key (Idempotency has that).
SubmitReport(c, t) ==
    /\ case[c].status = "absent"
    /\ ReportAccepted(c, t)
    /\ UNCHANGED <<target, document, notices, reqs, decided>>

\* A request reads nothing before it has its locks: one that would be refused now
\* and granted later is as good as one that begins later.
BeginAct(r) ==
    /\ MayDecide(r)
    /\ \E c \in Cases : \E a \in Offered(c) :
         Begins(r, [op |-> "act", step |-> "case", case |-> c, action |-> a,
                    before |-> Nothing, held |-> {}])

BeginWorkflow(r) ==
    /\ MayDecide(r)
    /\ \E c \in Cases, a \in {"acknowledge", "dismiss"} :
         /\ WorkflowAllows(c, a)
         /\ Begins(r, [op |-> "workflow", step |-> "case", case |-> c, action |-> a,
                       held |-> {}])

\* preview, preview_admin: what an administrator is shown before the decision.
Preview(d, change) == [seen |-> document[d],
                       changes |-> With(document[d].values, change) # document[d].values]

\* The administrator decides on what a preview has shown, and to change something.
BeginsToSet(r, d) ==
    \E change \in Changes(d) :
      /\ Preview(d, change).changes
      /\ Begins(r, [op |-> "set", step |-> "document", document |-> d,
                    seen |-> Preview(d, change).seen, change |-> change, held |-> {}])

BeginFlagUpdate(r) == MayDecide(r) /\ \E d \in Flags : BeginsToSet(r, d)

BeginPolicyUpdate(r) == MayDecide(r) /\ \E d \in Policies : BeginsToSet(r, d)

\* get_case(for_update=True)
CaseLocked(r) == {reqs[r].case}

\* act: the case is locked, then its target.
LockCase(r) == LET c == reqs[r].case IN
    /\ At(r, "act", "case") /\ Unheld(c, r)
    /\ Holding(r, "target", CaseLocked(r))
    /\ UNCHANGED <<target, case, document, notices, audit, decided>>

\* Mutant: the target is read without FOR UPDATE.
TargetUnlocked(r) == {}

\* get_target(for_update=True)
TargetLocked(r) == {case[reqs[r].case].target}

\* The status that is read here is what the decision is checked against, and what
\* the audit will say the target was.
LockTarget(r) == LET c == reqs[r].case IN
    /\ At(r, "act", "target") /\ Unheld(case[c].target, r)
    /\ IF reqs[r].action \in Offered(c)
       THEN reqs' = [reqs EXCEPT ![r].step = "commit", ![r].before = target[case[c].target],
                                 ![r].held = @ \cup TargetLocked(r)]
       ELSE Ends(r)
    /\ UNCHANGED <<target, case, document, notices, audit, decided>>

\* record_case_action, record_case_workflow: a case is where it was when it was
\* locked, so that their UPDATE always finds it.
RecordCaseAction(c) == case' = [case EXCEPT ![c].status = "actioned"]
RecordCaseWorkflow(c, to) == case' = [case EXCEPT ![c].status = to]

\* The target, the case, the notification and the audit record, or nothing.
CommitAct(r) ==
    /\ At(r, "act", "commit")
    /\ LET c == reqs[r].case  t == case[c].target  a == reqs[r].action IN
       /\ Unheld(t, r)
       /\ Ends(r)
       /\ IF AppliesTo(t, a) /\ ~Refused(c, a)
          THEN /\ target' = [target EXCEPT ![t] = Outcome(t, a)]
               /\ RecordCaseAction(c)
               /\ notices' = IF t \in Accounts THEN notices \cup {Notice(c, a)} ELSE notices
               /\ Recorded(t, Being(reqs[r].before), Being(Outcome(t, a)))
          ELSE UNCHANGED <<target, case, notices, audit>>
    /\ UNCHANGED <<document, decided>>

\* transition_case: only the case is locked.
LockWorkflow(r) == LET c == reqs[r].case IN
    /\ At(r, "workflow", "case") /\ Unheld(c, r)
    /\ IF WorkflowAllows(c, reqs[r].action) THEN Holding(r, "commit", CaseLocked(r)) ELSE Ends(r)
    /\ UNCHANGED <<target, case, document, notices, audit, decided>>

CommitWorkflow(r) ==
    /\ At(r, "workflow", "commit")
    /\ LET c == reqs[r].case
           to == IF reqs[r].action = "acknowledge" THEN "investigating" ELSE "dismissed" IN
       /\ RecordCaseWorkflow(c, to)
       /\ Recorded(c, Being(case[c].status), Being(to))
    /\ Ends(r)
    /\ UNCHANGED <<target, document, notices, decided>>

\* Mutant: the values are compared, and not the revision.
SeenByValue(r) == document[reqs[r].document].values = reqs[r].seen.values

\* The revision that the administrator saw is still the current one.
StillSeen(r) == document[reqs[r].document].revision = reqs[r].seen.revision

\* get_flag(for_update=True), and lock_policy: FOR UPDATE OF p.
FlagLocked(r) == {reqs[r].document}
PolicyLocked(r) == {reqs[r].document}

\* The values that the request would leave.
Proposed(r) == LET d == reqs[r].document IN With(document[d].values, reqs[r].change)

\* A stale revision and a change that changes nothing are refused.
Settable(r) == StillSeen(r) /\ Proposed(r) # document[reqs[r].document].values

LockFlag(r) == LET d == reqs[r].document IN
    /\ At(r, "set", "document") /\ d \in Flags /\ Unheld(d, r)
    /\ IF Settable(r) THEN Holding(r, "commit", FlagLocked(r)) ELSE Ends(r)
    /\ UNCHANGED <<target, case, document, notices, audit, decided>>

LockPolicy(r) == LET d == reqs[r].document IN
    /\ At(r, "set", "document") /\ d \in Policies /\ Unheld(d, r)
    /\ IF Settable(r) THEN Holding(r, "commit", PolicyLocked(r)) ELSE Ends(r)
    /\ UNCHANGED <<target, case, document, notices, audit, decided>>

UpdateFlag(d, enabled) ==
    document' = [document EXCEPT ![d].values["enabled"] = enabled, ![d].revision = @ + 1]

\* update_safe_policy_controls writes every control, the unchanged ones as well.
UpdatePolicy(d, values) ==
    document' = [document EXCEPT ![d] = [values |-> values, revision |-> @.revision + 1]]

CommitFlag(r) ==
    /\ At(r, "set", "commit")
    /\ LET d == reqs[r].document IN
       /\ d \in Flags
       /\ UpdateFlag(d, Proposed(r)["enabled"])
       /\ Recorded(d, document[d], document'[d])
    /\ Ends(r)
    /\ UNCHANGED <<target, case, notices, decided>>

\* The audit record of a policy has the controls that change, and the revision.
Controls(version, names) ==
    [values |-> [f \in names |-> version.values[f]], revision |-> version.revision]

CommitPolicy(r) ==
    /\ At(r, "set", "commit")
    /\ LET d == reqs[r].document
           changed == {f \in Fields(d) : Proposed(r)[f] # document[d].values[f]} IN
       /\ d \in Policies
       /\ UpdatePolicy(d, Proposed(r))
       /\ Recorded(d, Controls(document[d], changed), Controls(document'[d], changed))
    /\ Ends(r)
    /\ UNCHANGED <<target, case, notices, decided>>

\* Owners publish, end and close what they own, and an account that asked for it
\* is erased; none of them touches what is suspended.
OwnerActs(t) ==
    /\ \A r \in Decisions : t \notin reqs[r].held
    /\ \/ target[t] = "active" /\ target' = [target EXCEPT ![t] = "deleted"]
       \/ target[t] = "draft" /\ target' = [target EXCEPT ![t] = "published"]
       \/ /\ target[t] \in {"published", "unpublished"}
          /\ target' = [target EXCEPT ![t] = "ended"]
    /\ UNCHANGED <<case, document, notices, audit, reqs, decided>>

AdminNext ==
    \/ \E c \in Cases, t \in Targets : SubmitReport(c, t)
    \/ \E t \in Targets : OwnerActs(t)
    \/ \E r \in Decisions :
         \/ BeginAct(r) \/ BeginWorkflow(r)
         \/ BeginFlagUpdate(r) \/ BeginPolicyUpdate(r)
         \/ LockCase(r) \/ LockTarget(r) \/ CommitAct(r)
         \/ LockWorkflow(r) \/ CommitWorkflow(r)
         \/ LockFlag(r) \/ CommitFlag(r)
         \/ LockPolicy(r) \/ CommitPolicy(r)

AdminSpec == AdminInit /\ [][AdminNext]_adminVars

----------------------------------------------------------------------------
(* Properties. *)

ValueOf(x) ==
    IF x \in Targets THEN Being(target[x])
    ELSE IF x \in Cases THEN Being(case[x].status) ELSE document[x]

\* A record of x tells how x was before and after this step; of a policy, it tells
\* the controls that the step changes.
TellsOf(x) ==
    IF x \in Policies
    THEN \E names \in SUBSET Fields(x) :
           /\ audit' = [about |-> x, before |-> Controls(document[x], names),
                        after |-> Controls(document'[x], names)]
           /\ \A f \in Fields(x) :
                f \in names <=> document[x].values[f] # document'[x].values[f]
    ELSE audit' = [about |-> x, before |-> ValueOf(x), after |-> ValueOf(x)']

\* A report names the case that it opens.
ReportsACase(a) == a.after \in [case : Cases]

RecordedAsItWas ==
    audit' # audit =>
        IF ReportsACase(audit')
        THEN /\ case[audit'.after.case].status = "absent"
             /\ case'[audit'.after.case].status = "open"
        ELSE \E x \in Targets \cup Cases \cup Documents : TellsOf(x)

ChangedOnRecord == (document' # document \/ case' # case) => audit' # audit

\* The audit tells what happened: what a record calls the state before is the
\* state that its decision replaced, whatever other cases, administrators and
\* owners did while the decision was being made, and a report tells which case it
\* opened; no flag, policy or case changes without a record.
AuditTellsTheTruth == [][RecordedAsItWas /\ ChangedOnRecord]_adminVars

SetAsSeen(d) ==
    \E r \in Decisions :
       /\ At(r, "set", "commit") /\ reqs[r].document = d /\ reqs'[r] = Resting
       /\ reqs[r].seen = document[d]
       /\ document'[d].values = With(reqs[r].seen.values, reqs[r].change)

\* Nothing is changed that its administrator has not seen: a decision takes effect
\* on the very revision of the preview (preview, preview_admin), even when others
\* changed the document and changed it back meanwhile, and with its result.
PreviewTakesEffect ==
    [][\A d \in Documents : document'[d] # document[d] => SetAsSeen(d)]_adminVars

\* Whatever is stopped can be started again: some case offers to restore it, and
\* the notification of that is not refused for one that went out before.
StoppedCanBeRestored ==
    \A t \in Targets : target[t] \in {"suspended", "unpublished"} =>
      \E c \in Cases : /\ case[c].target = t /\ "restore" \in Offered(c)
                       /\ ~Refused(c, "restore")
=============================================================================
