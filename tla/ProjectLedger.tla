----------------------------- MODULE ProjectLedger -----------------------------
(***************************************************************************)
(* The durable project ledger (project_ledger.py) as the project runtime   *)
(* (project_runtime.py) drives it.  Every variable but tree is a field of  *)
(* the single row the ledger keeps in SQLite; an action is one transaction *)
(* of that row, together with the reads of the workspace it makes.  Only   *)
(* one process writes (the lease), so the transactions are serial.         *)
(*                                                                         *)
(* A model role (Decision, Planner, Executor) is free: once its reply is   *)
(* in the inbox, any command is possible, so the command is chosen when it *)
(* is consumed.  The guards decide what a command may do.                  *)
(***************************************************************************)
EXTENDS ProjectContracts

CONSTANTS
    Plans,        \* the plans the planner may submit
    Proofs,       \* the sets of checks the planner may submit for one work item
    Trees,        \* contents of the workspace
    OpIds,        \* identifiers of verification operations
    MaxVersion,   \* bound on plan_version
    MaxReads,     \* bound on the reads of one read_files command
    InitialPlan   \* create(require_initial_plan=...)

ASSUME LedgerAssumption ==
    /\ MaxVersion \in Nat
    /\ MaxReads \in Nat
    /\ InitialPlan \in BOOLEAN
    /\ Plans \subseteq Plan
    /\ Proofs \subseteq SUBSET Check
    /\ \E i, j \in OpIds : i # j

VARIABLES
    plan,             \* None or the installed plan
    goal_checks,      \* checks bound to the goal while there is no plan
    plan_version,
    check_catalog,    \* every check ever bound: its task and its definition
    task_status, reports, verification, acceptance,  \* per work item
    active,           \* None or the executor's assignment
    suspended,        \* per work item: None or the assignment to resume
    control,          \* "decision" or "executor"
    planner_request,  \* None or what the planner is asked for
    pending_plan, pending_checks,    \* candidates awaiting review
    pending,          \* None or the operation whose outcome is not recorded
    inbox,            \* None or the reply awaiting consumption
    failures,         \* checks that a verification receipt in evidence failed
    workspace_digest, \* the tree of the last confirmed receipt
    tree,             \* the actual tree on disk
    transaction,      \* the tool transaction directory: "none", "open", "published"
    status            \* "running", "completed" or "blocked"

contractVars == <<plan, goal_checks, plan_version, check_catalog>>
proofVars    == <<task_status, reports, verification, acceptance>>
workerVars   == <<active, suspended, control>>
plannerVars  == <<planner_request, pending_plan, pending_checks>>
diskVars     == <<tree, transaction>>
vars == <<contractVars, proofVars, workerVars, plannerVars, pending, inbox,
          failures, workspace_digest, diskVars, status>>

work_map == work_items(plan, goal_checks)
WorkSet  == DOMAIN work_map

-----------------------------------------------------------------------------
(* Types.                                                                  *)

Status == {"absent", "pending", "executing", "awaiting_verification",
           "checks_passed", "failed", "blocked", "verified"}

Some(S) == S \cup {None}

\* failed holds the checks whose command failed; the receipt passed if none did.
Receipt == [status : {"passed", "failed", "stale"}, workspace_digest : Trees,
            task : Task, operation_id : OpIds, failed : SUBSET Check]

Acceptance == [verification_id : OpIds, workspace_digest : Trees]

\* dependencies holds the receipts of the dependencies at delegation.
Assignment == [task_id : WorkIds, contract : Task,
               dependencies : [TaskIds -> Some(Receipt)]]

\* The operations on the work of the project: tools and verifications.
WorkOperation == [kind : {"tool", "verification"}, task_id : WorkIds, request : {None},
                  workspace_digest : Trees]

ASSUME NoneAssumption ==
    None \notin Plan \cup Receipt \cup Assignment \cup WorkOperation

\* The keys of task_status are the work items.
TypeOK ==
    /\ plan_version \in Nat
    /\ plan \in Some(Plan)
    /\ goal_checks \subseteq Check
    /\ check_catalog \subseteq [task_id : WorkIds, check : Check]
    /\ task_status \in [WorkIds -> Status]
    /\ WorkSet = {t \in WorkIds : task_status[t] # "absent"}
    /\ reports \in [WorkIds -> {"none", "submitted", "blocked"}]
    /\ verification \in [WorkIds -> Some(Receipt)]
    /\ acceptance \in [WorkIds -> Some(Acceptance)]
    /\ active \in Some(Assignment)
    /\ suspended \in [WorkIds -> Some(Assignment)]
    /\ control \in {"decision", "executor"}
    /\ pending_plan # None => pending_plan.plan \in Plans
    /\ pending_checks # None => pending_checks.checks \in SUBSET Check
    /\ workspace_digest \in Trees
    /\ tree \in Trees
    /\ transaction \in {"none", "open", "published"}
    /\ failures \subseteq [task_id : WorkIds, check : Check]
    /\ status \in {"running", "completed", "blocked"}

-----------------------------------------------------------------------------
Init ==
    /\ plan = None
    /\ goal_checks = {}
    /\ plan_version = 0
    /\ check_catalog = {}
    /\ task_status = [t \in WorkIds |-> IF t = GOAL_ID THEN "pending" ELSE "absent"]
    /\ reports = [t \in WorkIds |-> "none"]
    /\ verification = [t \in WorkIds |-> None]
    /\ acceptance = [t \in WorkIds |-> None]
    /\ active = None
    /\ suspended = [t \in WorkIds |-> None]
    /\ control = "decision"
    /\ planner_request = IF InitialPlan THEN [mode |-> "plan", subject |-> None] ELSE None
    /\ pending_plan = None
    /\ pending_checks = None
    /\ pending = None
    /\ inbox = None
    /\ failures = {}
    /\ tree \in Trees
    /\ workspace_digest = tree
    /\ transaction = "none"
    /\ status = "running"

-----------------------------------------------------------------------------
(* invalidate: a tree other than the recorded one makes every receipt      *)
(* stale and takes every acceptance back.                                  *)

Changed == tree # workspace_digest

\* Mutant: a receipt that failed keeps saying so.
StaleIfPassed(r) == IF r # None /\ r.status = "passed" THEN [r EXCEPT !.status = "stale"] ELSE r

StaleReceipt(r) == IF r = None THEN None ELSE [r EXCEPT !.status = "stale"]

InvalidatedVerification ==
    IF Changed THEN [t \in WorkIds |-> StaleReceipt(verification[t])] ELSE verification

\* Mutant: only accepted work goes back, not work that awaits acceptance.
OnlyVerifiedBack ==
    [t \in WorkIds |->
        IF Changed /\ verification[t] # None /\ task_status[t] = "verified"
        THEN "awaiting_verification" ELSE task_status[t]]

InvalidatedStatus ==
    [t \in WorkIds |->
        IF Changed /\ verification[t] # None /\ task_status[t] \in {"verified", "checks_passed"}
        THEN "awaiting_verification" ELSE task_status[t]]

InvalidatedAcceptance ==
    IF Changed THEN [t \in WorkIds |-> None] ELSE acceptance

\* Mutant: the new tree is not recorded.
invalidate_unrecorded(statuses) ==
    /\ verification' = InvalidatedVerification
    /\ task_status' = statuses
    /\ acceptance' = InvalidatedAcceptance
    /\ workspace_digest' = workspace_digest

\* statuses is what the same transaction makes of InvalidatedStatus.
invalidate(statuses) ==
    /\ verification' = InvalidatedVerification
    /\ task_status' = statuses
    /\ acceptance' = InvalidatedAcceptance
    /\ workspace_digest' = tree

-----------------------------------------------------------------------------
(* What the Decision role may choose (permitted_directions).               *)

resumable ==
    {t \in WorkIds : suspended[t] # None \/ (active # None /\ active.task_id = t)}

ResumableAssignment(t) ==
    IF active # None /\ active.task_id = t THEN active ELSE suspended[t]

\* Mutant: a worker's own write locks it out.
dependencies_verified(a) ==
    \A d \in a.contract.dependencies : d \in WorkSet /\ task_status[d] = "verified"

assignment_dependencies_resumable(a) ==
    \A d \in a.contract.dependencies :
        /\ d \in WorkSet
        /\ \/ task_status[d] = "verified"
           \/ /\ task_status[d] = "awaiting_verification"
              /\ verification[d] # None
              /\ verification[d].status = "stale"
              /\ a.dependencies[d] # None
              /\ a.dependencies[d].status = "passed"
              /\ a.dependencies[d].task = verification[d].task
              /\ verification[d].task = work_map[d]

MayDelegate(t) ==
    /\ active = None
    /\ task_status[t] # "verified"
    /\ t \notin resumable
    /\ \A d \in work_map[t].dependencies : task_status[d] = "verified"

MayContinue(t) ==
    /\ t \in resumable
    /\ active # None => active.task_id = t
    /\ ResumableAssignment(t).contract = work_map[t]
    /\ assignment_dependencies_resumable(ResumableAssignment(t))

MayVerify(t) == active = None /\ reports[t] = "submitted" /\ work_map[t].checks # {}

MayBindChecks(t) == active = None /\ reports[t] = "submitted"

-----------------------------------------------------------------------------
(* Model calls (_request).  The payload records what the reply will be     *)
(* checked against when it is consumed.                                    *)

work_check_context(candidate) ==
    LET t == planner_request.subject
    IN [task_id |-> t, task |-> work_map[t], report |-> reports[t], candidate |-> candidate]

boundary == <<plan_version, workspace_digest, active, task_status, reports,
              verification, acceptance>>

Request(role, planning, bound) ==
    [role |-> role, planning |-> planning, bound |-> bound,
     plan_version |-> plan_version, reads |-> 0, batch |-> 0]

review_context == [candidate |-> pending_plan, previous_plan |-> plan]

\* The order in which _request looks for a role to call.
NextRequest ==
    IF pending_checks # None
      THEN Request("planner", "review_checks", work_check_context(pending_checks))
    ELSE IF planner_request # None /\ planner_request.mode = "checks"
      THEN Request("planner", "checks", work_check_context(None))
    ELSE IF pending_plan # None
      THEN Request("planner", "review", [context |-> review_context, workspace |-> tree])
    ELSE IF planner_request # None
      THEN Request("planner", planner_request.mode, None)
    ELSE IF active # None /\ control = "executor"
      THEN Request("executor", None, None)
    ELSE Request("decision", None, boundary)

Op(kind, task_id, request) ==
    [kind |-> kind, task_id |-> task_id, request |-> request,
     workspace_digest |-> workspace_digest]

\* begin_operation('model', ...): the intent is durable before the call.
BeginModel ==
    /\ status = "running" /\ pending = None /\ inbox = None
    /\ pending' = Op("model", None, NextRequest)
    /\ UNCHANGED <<contractVars, proofVars, workerVars, plannerVars, inbox, failures,
                   workspace_digest, diskVars, status>>

\* finish_operation for a model: receipt, session and inbox in one transaction.
ReturnModel ==
    /\ pending # None /\ pending.kind = "model"
    /\ inbox' = pending.request
    /\ pending' = None
    /\ UNCHANGED <<contractVars, proofVars, workerVars, plannerVars, failures,
                   workspace_digest, diskVars, status>>

-----------------------------------------------------------------------------
(* Consuming a reply (_consume).                                           *)

Reply(role) ==
    /\ status = "running" /\ pending = None
    /\ inbox # None /\ inbox.role = role /\ inbox.batch = 0

\* A decision is refused when its boundary or its workspace is not current.
Decided ==
    /\ Reply("decision")
    /\ inbox.plan_version = plan_version
    /\ inbox.bound = boundary
    /\ tree = workspace_digest

Planned(planning) == Reply("planner") /\ inbox.planning = planning

\* A malformed, unauthorized or refused command becomes feedback and a receipt
\* to read is queued as evidence: both clear the inbox and change nothing else
\* that a guard reads.
SetReplyAside ==
    /\ status = "running" /\ pending = None /\ inbox # None
    /\ inbox' = None
    /\ UNCHANGED <<contractVars, proofVars, workerVars, plannerVars, pending, failures,
                   workspace_digest, diskVars, status>>

-----------------------------------------------------------------------------
(* Directions of the Decision role.                                        *)

delegate(t) ==
    /\ Decided
    /\ t \in WorkSet
    /\ MayDelegate(t)
    /\ invalidate([InvalidatedStatus EXCEPT ![t] = "executing"])
    /\ active' = [task_id |-> t, contract |-> work_map[t],
                  dependencies |-> [d \in TaskIds |->
                      IF d \in work_map[t].dependencies THEN verification[d] ELSE None]]
    /\ suspended' = [suspended EXCEPT ![t] = None]
    /\ control' = "executor"
    /\ inbox' = None
    /\ UNCHANGED <<contractVars, reports, plannerVars, pending, failures, diskVars, status>>

continue_current(t) ==
    /\ Decided
    /\ t \in WorkSet
    /\ MayContinue(t)
    /\ control = "decision"
    /\ active' = ResumableAssignment(t)
    /\ suspended' = [suspended EXCEPT ![t] = None]
    /\ control' = "executor"
    /\ task_status' = [task_status EXCEPT ![t] = "executing"]
    /\ acceptance' = [acceptance EXCEPT ![t] = None]
    /\ inbox' = None
    /\ UNCHANGED <<contractVars, reports, verification, plannerVars, pending, failures,
                   workspace_digest, diskVars, status>>

\* Mutant: the status of the task is not looked at.
require_receipt(t) ==
    /\ active = None
    /\ pending = None
    /\ verification[t] # None
    /\ verification[t].status = "passed"
    /\ verification[t].workspace_digest = tree
    /\ verification[t].task = work_map[t]

require_current_verification(t) ==
    /\ active = None
    /\ pending = None
    /\ verification[t] # None
    /\ verification[t].status = "passed"
    /\ verification[t].workspace_digest = tree
    /\ verification[t].task = work_map[t]
    /\ task_status[t] = "checks_passed"

\* Mutant: one finished item completes the project.
some_work_ready(statuses, accepted) ==
    /\ active = None /\ pending = None
    /\ pending_plan = None /\ pending_checks = None /\ planner_request = None
    /\ workspace_digest = tree
    /\ \E t \in WorkSet :
          /\ statuses[t] = "verified"
          /\ accepted[t] # None

completion_ready(statuses, accepted) ==
    /\ active = None /\ pending = None
    /\ pending_plan = None /\ pending_checks = None /\ planner_request = None
    /\ workspace_digest = tree
    /\ \A t \in WorkSet :
          /\ work_map[t].checks # {}
          /\ statuses[t] = "verified"
          /\ reports[t] = "submitted"
          /\ verification[t] # None
          /\ verification[t].status = "passed"
          /\ verification[t].workspace_digest = tree
          /\ verification[t].task = work_map[t]
          /\ accepted[t] = [verification_id |-> verification[t].operation_id,
                            workspace_digest |-> tree]

\* accept_task, with deliver_report_id the acceptance and the completion are
\* one transaction or none.
accept_task(t, deliver) ==
    /\ Decided
    /\ t \in WorkSet
    /\ require_current_verification(t)
    /\ acceptance' = [acceptance EXCEPT ![t] =
                        [verification_id |-> verification[t].operation_id,
                         workspace_digest |-> tree]]
    /\ task_status' = [task_status EXCEPT ![t] = "verified"]
    /\ deliver => completion_ready(task_status', acceptance')
    /\ status' = IF deliver THEN "completed" ELSE status
    /\ inbox' = None
    /\ UNCHANGED <<contractVars, reports, verification, workerVars, plannerVars, pending,
                   failures, workspace_digest, diskVars>>

\* deliver_report (complete)
complete ==
    /\ Decided
    /\ completion_ready(task_status, acceptance)
    /\ status' = "completed"
    /\ inbox' = None
    /\ UNCHANGED <<contractVars, proofVars, workerVars, plannerVars, pending, failures,
                   workspace_digest, diskVars>>

block ==
    /\ Decided
    /\ status' = "blocked"
    /\ inbox' = None
    /\ UNCHANGED <<contractVars, proofVars, workerVars, plannerVars, pending, failures,
                   workspace_digest, diskVars>>

bind_checks(t) ==
    /\ Decided
    /\ t \in WorkSet
    /\ MayBindChecks(t)
    /\ planner_request' = [mode |-> "checks", subject |-> t]
    /\ inbox' = None
    /\ UNCHANGED <<contractVars, proofVars, workerVars, pending_plan, pending_checks,
                   pending, failures, workspace_digest, diskVars, status>>

help ==
    /\ Decided
    /\ planner_request' = [mode |-> "diagnose", subject |-> None]
    /\ inbox' = None
    /\ UNCHANGED <<contractVars, proofVars, workerVars, pending_plan, pending_checks,
                   pending, failures, workspace_digest, diskVars, status>>

\* replan sets the running assignment aside; its task stays "executing".
replan ==
    /\ Decided
    /\ planner_request' = [mode |-> "plan", subject |-> None]
    /\ suspended' = IF active = None THEN suspended
                    ELSE [suspended EXCEPT ![active.task_id] = active]
    /\ active' = None
    /\ control' = IF active = None THEN control ELSE "decision"
    /\ inbox' = None
    /\ UNCHANGED <<contractVars, proofVars, pending_plan, pending_checks, pending,
                   failures, workspace_digest, diskVars, status>>

-----------------------------------------------------------------------------
(* The Executor: reports and tools.                                        *)

report_work(report) ==
    /\ Reply("executor")
    /\ active # None /\ control = "executor"
    /\ IF report = "progress"
       THEN UNCHANGED <<reports, task_status, suspended, active>>
       ELSE /\ reports' = [reports EXCEPT ![active.task_id] = report]
            /\ task_status' = [task_status EXCEPT ![active.task_id] =
                    IF report = "submitted" THEN "awaiting_verification" ELSE "blocked"]
            /\ suspended' = [suspended EXCEPT ![active.task_id] = active]
            /\ active' = None
    /\ control' = "decision"
    /\ inbox' = None
    /\ UNCHANGED <<contractVars, verification, acceptance, plannerVars, pending, failures,
                   workspace_digest, diskVars, status>>

\* yield_execution: a work-unit budget ends at a confirmed boundary.
yield_execution ==
    /\ status = "running" /\ pending = None /\ inbox = None
    /\ active # None /\ control = "executor"
    /\ control' = "decision"
    /\ UNCHANGED <<contractVars, proofVars, active, suspended, plannerVars, pending, inbox,
                   failures, workspace_digest, diskVars, status>>

\* _tool: the intent is durable, then the tool runs in a copy of the tree.
BeginTool ==
    /\ Reply("executor")
    /\ active # None
    /\ tree = workspace_digest
    /\ pending' = Op("tool", active.task_id, None)
    /\ transaction' = "open"
    /\ UNCHANGED <<contractVars, proofVars, workerVars, plannerVars, inbox, failures,
                   workspace_digest, tree, status>>

\* publish_workspace exchanges the two trees if the copy was changed within
\* its scope and nobody touched the original.
publish_workspace ==
    /\ pending # None /\ pending.kind = "tool" /\ transaction = "open"
    /\ tree = pending.workspace_digest
    /\ tree' \in Trees \ {tree}
    /\ transaction' = "published"
    /\ UNCHANGED <<contractVars, proofVars, workerVars, plannerVars, pending, inbox,
                   failures, workspace_digest, status>>

\* Mutant: the reply stays in the inbox.
FinishToolOnly ==
    /\ pending # None /\ pending.kind = "tool"
    /\ invalidate(InvalidatedStatus)
    /\ pending' = None
    /\ transaction' = "none"
    /\ UNCHANGED <<contractVars, reports, workerVars, plannerVars, inbox, failures, tree, status>>

\* The receipt of a tool that published its changes, changed nothing or failed.
FinishTool ==
    /\ pending # None /\ pending.kind = "tool"
    /\ invalidate(InvalidatedStatus)
    /\ inbox' = None
    /\ pending' = None
    /\ transaction' = "none"
    /\ UNCHANGED <<contractVars, reports, workerVars, plannerVars, failures, tree, status>>

\* A write out of scope is never published, and costs the worker its assignment.
FinishScopeViolation ==
    /\ pending # None /\ pending.kind = "tool" /\ transaction = "open"
    /\ invalidate([InvalidatedStatus EXCEPT ![active.task_id] = "blocked"])
    /\ reports' = [reports EXCEPT ![active.task_id] = "blocked"]
    /\ active' = None
    /\ control' = "decision"
    /\ inbox' = None
    /\ pending' = None
    /\ transaction' = "none"
    /\ UNCHANGED <<contractVars, suspended, plannerVars, failures, tree, status>>

-----------------------------------------------------------------------------
(* Verification (_verify, finish_verification).                            *)

BeginVerification(t) ==
    /\ Decided
    /\ t \in WorkSet
    /\ MayVerify(t)
    /\ pending' = Op("verification", t, None)
    /\ UNCHANGED <<contractVars, proofVars, workerVars, plannerVars, inbox, failures,
                   workspace_digest, diskVars, status>>

\* A new identifier.  The one the receipt of the task replaces is free again:
\* nothing but an acceptance of the task is ever compared with it.
FreshId(t) ==
    CHOOSE i \in OpIds : acceptance[t] # None => acceptance[t].verification_id # i

\* failed are the checks whose command failed, each in its own copy of the tree.
finish_verification(failed) ==
    /\ pending # None /\ pending.kind = "verification"
    /\ tree = pending.workspace_digest
    /\ failed \subseteq work_map[pending.task_id].checks
    /\ LET t == pending.task_id
           outcome == IF failed = {} THEN "passed" ELSE "failed"
       IN /\ verification' = [InvalidatedVerification EXCEPT ![t] =
                [status |-> outcome, workspace_digest |-> tree, task |-> work_map[t],
                 operation_id |-> FreshId(t), failed |-> failed]]
          /\ task_status' = [InvalidatedStatus EXCEPT ![t] =
                IF failed = {} THEN "checks_passed" ELSE "failed"]
          /\ acceptance' = [InvalidatedAcceptance EXCEPT ![t] = None]
          /\ failures' = failures \cup {[task_id |-> t, check |-> c] : c \in failed}
    /\ workspace_digest' = tree
    /\ inbox' = None
    /\ pending' = None
    /\ UNCHANGED <<contractVars, reports, workerVars, plannerVars, diskVars, status>>

-----------------------------------------------------------------------------
(* The Planner: inspection and diagnosis.                                  *)

\* _planner_reads: every read of a batch has its own receipt, so that a restart
\* resumes the batch after the last one; batch is 0 until the first read begins.
BeginPlannerRead(batch) ==
    /\ status = "running" /\ pending = None
    /\ inbox # None /\ inbox.role = "planner"
    /\ inbox.batch \in {0, batch}
    /\ tree = workspace_digest
    /\ pending' = Op("planner_read", None, [inbox EXCEPT !.batch = batch, !.reads = @ + 1])
    /\ inbox' = [inbox EXCEPT !.batch = batch]
    /\ UNCHANGED <<contractVars, proofVars, workerVars, plannerVars, failures,
                   workspace_digest, diskVars, status>>

FinishPlannerRead ==
    /\ pending # None /\ pending.kind = "planner_read"
    /\ tree = pending.workspace_digest
    /\ inbox' = IF pending.request.reads = pending.request.batch THEN None
                ELSE pending.request
    /\ pending' = None
    /\ UNCHANGED <<contractVars, proofVars, workerVars, plannerVars, failures,
                   workspace_digest, diskVars, status>>

\* advise answers help, or hands the proof request back unresolved.
advise ==
    /\ Reply("planner")
    /\ inbox.planning \in {"diagnose", "checks", "review_checks"}
    /\ inbox.planning # "diagnose" =>
          /\ inbox.plan_version = plan_version
          /\ inbox.bound = work_check_context(pending_checks)
    /\ pending_checks' = IF inbox.planning = "diagnose" THEN pending_checks ELSE None
    /\ planner_request' = None
    /\ inbox' = None
    /\ UNCHANGED <<contractVars, proofVars, workerVars, pending_plan, pending, failures,
                   workspace_digest, diskVars, status>>

-----------------------------------------------------------------------------
(* The Planner: plans.                                                     *)

OldTasks == IF plan = None THEN [t \in {} |-> None] ELSE plan.tasks

changed_requirements(p) ==
    IF plan = None THEN {}
    ELSE {r \in DOMAIN p.requirements :
            r \notin DOMAIN plan.requirements \/ p.requirements[r] # plan.requirements[r]}

\* Mutant: a task whose prerequisite changed keeps its assignment.
rewritten(p) ==
    {t \in DOMAIN p.tasks : t \notin DOMAIN OldTasks \/ OldTasks[t] # p.tasks[t]}

affected(p) ==
    affected_work(p.tasks,
        {t \in DOMAIN p.tasks :
            \/ t \notin DOMAIN OldTasks
            \/ OldTasks[t] # p.tasks[t]
            \/ p.tasks[t].requirements \cap changed_requirements(p) # {}})

\* Obligations, requirement identities and protected paths are never dropped.
KeepsObligations(p) ==
    /\ OwnerPaths \subseteq p.protected_paths
    /\ plan # None =>
          /\ plan.protected_paths \subseteq p.protected_paths
          /\ DOMAIN plan.requirements \subseteq DOMAIN p.requirements
          /\ DOMAIN plan.tasks \subseteq DOMAIN p.tasks

KeepsChecks(p) ==
    /\ plan # None =>
          /\ validate_replacements(plan.tasks, p.tasks, failures)
          /\ \A c \in ChecksOf(plan.tasks), d \in ChecksOf(p.tasks) : c.id = d.id => c = d
    /\ \A t \in DOMAIN p.tasks : \A c \in p.tasks[t].checks : Registered(check_catalog, t, c)

KeepsActive(p) ==
    active # None =>
        /\ active.task_id \in DOMAIN p.tasks \ affected(p)
        /\ p.tasks[active.task_id] = active.contract

\* The guards of _apply_plan, evaluated on proposal and again on installation.
Installable(p) == KeepsObligations(p) /\ KeepsChecks(p) /\ KeepsActive(p)

Bound(tasks) == UNION {{[task_id |-> t, check |-> c] : c \in tasks[t].checks} : t \in DOMAIN tasks}

propose_plan(p) ==
    /\ Planned("plan")
    /\ validate_plan(p)
    /\ inbox.plan_version = plan_version
    /\ pending_plan = None /\ pending_checks = None
    /\ Installable(p)
    /\ pending_plan' = [plan |-> p, expected_version |-> plan_version]
    /\ inbox' = None
    /\ UNCHANGED <<contractVars, proofVars, workerVars, planner_request, pending_checks,
                   pending, failures, workspace_digest, diskVars, status>>

\* The first plan supersedes the goal as work: its claims and proof go.
Superseded(t) == plan = None /\ t = GOAL_ID

\* Checks bound for the first time do not erase a submitted claim.
binding_only(p, t) ==
    /\ t \in DOMAIN OldTasks
    /\ OldTasks[t].checks = {} /\ p.tasks[t].checks # {}
    /\ p.tasks[t].requirements \cap changed_requirements(p) = {}
    /\ p.tasks[t] = [OldTasks[t] EXCEPT !.checks = p.tasks[t].checks]

apply_plan(p) ==
    /\ plan_version < MaxVersion
    /\ Installable(p)
    /\ task_status' = [t \in WorkIds |-> IF t \in affected(p) THEN "pending"
                       ELSE IF Superseded(t) THEN "absent" ELSE task_status[t]]
    /\ reports' = [t \in WorkIds |->
            IF (t \in affected(p) /\ ~binding_only(p, t)) \/ Superseded(t)
            THEN "none" ELSE reports[t]]
    /\ acceptance' = [t \in WorkIds |->
            IF t \in affected(p) \/ Superseded(t) THEN None ELSE acceptance[t]]
    /\ suspended' = [t \in WorkIds |->
            IF t \in affected(p) \/ Superseded(t) THEN None ELSE suspended[t]]
    /\ verification' = [t \in WorkIds |-> IF Superseded(t) THEN None
            ELSE IF t \in affected(p) THEN StaleReceipt(verification[t]) ELSE verification[t]]
    /\ plan' = p
    /\ check_catalog' = check_catalog \cup Bound(p.tasks)
    /\ plan_version' = plan_version + 1
    /\ planner_request' = None

PlanReview ==
    /\ Planned("review")
    /\ pending_plan # None
    /\ inbox.plan_version = pending_plan.expected_version
    /\ inbox.bound.context = review_context

\* resolve_plan_review, verdict accept (install_plan)
AcceptPlan ==
    /\ PlanReview
    /\ inbox.bound.workspace = tree
    /\ pending_plan.expected_version = plan_version
    /\ apply_plan(pending_plan.plan)
    /\ pending_plan' = None
    /\ inbox' = None
    /\ UNCHANGED <<goal_checks, active, control, pending_checks, pending, failures,
                   workspace_digest, diskVars, status>>

\* resolve_plan_review, verdict reject
RejectPlan ==
    /\ PlanReview
    /\ inbox.bound.workspace = tree
    /\ pending_plan' = None
    /\ planner_request' = [mode |-> "plan", subject |-> None]
    /\ inbox' = None
    /\ UNCHANGED <<contractVars, proofVars, workerVars, pending_checks, pending, failures,
                   workspace_digest, diskVars, status>>

\* Mutant: the new tree is recorded and the proof is kept.
RecordWorkspace ==
    /\ PlanReview
    /\ inbox.bound.workspace # tree
    /\ workspace_digest' = tree
    /\ inbox' = None
    /\ UNCHANGED <<contractVars, proofVars, workerVars, plannerVars, pending, failures,
                   diskVars, status>>

\* The workspace moved under the review: refresh_workspace, then the reply is
\* refused and the candidate is reviewed again.
RefreshWorkspace ==
    /\ PlanReview
    /\ inbox.bound.workspace # tree
    /\ invalidate(InvalidatedStatus)
    /\ inbox' = None
    /\ UNCHANGED <<contractVars, reports, workerVars, plannerVars, pending, failures,
                   diskVars, status>>

-----------------------------------------------------------------------------
(* The Planner: proof of completed work.                                   *)

Subject == planner_request.subject

WithChecks(t, checks) == [work_map EXCEPT ![t].checks = checks]

validate_work_checks(checks) ==
    /\ active = None
    /\ Subject \in WorkSet
    /\ reports[Subject] = "submitted"
    /\ checks # {}
    /\ \A c, d \in checks : c.id = d.id => c = d
    /\ \A c \in checks : Registered(check_catalog, Subject, c)
    /\ validate_replacements(work_map, WithChecks(Subject, checks), failures)

propose_work_checks(checks) ==
    /\ Planned("checks")
    /\ pending_plan = None /\ pending_checks = None
    /\ planner_request # None /\ planner_request.mode = "checks"
    /\ tree = workspace_digest
    /\ validate_work_checks(checks)
    /\ inbox.plan_version = plan_version
    /\ inbox.bound = work_check_context(None)
    /\ pending_checks' = [checks |-> checks, work |-> work_check_context(None),
                          workspace_digest |-> tree, expected_version |-> plan_version]
    /\ inbox' = None
    /\ UNCHANGED <<contractVars, proofVars, workerVars, planner_request, pending_plan,
                   pending, failures, workspace_digest, diskVars, status>>

CheckReview ==
    /\ Planned("review_checks")
    /\ pending_checks # None
    /\ inbox.plan_version = pending_checks.expected_version
    /\ plan_version = pending_checks.expected_version
    /\ inbox.bound = work_check_context(pending_checks)

CheckReviewCurrent ==
    /\ tree = pending_checks.workspace_digest
    /\ work_check_context(None) = pending_checks.work

\* Mutant: the new tree is recorded and the proof is kept.
CheckReviewRecorded ==
    /\ CheckReview
    /\ ~CheckReviewCurrent
    /\ workspace_digest' = tree
    /\ pending_checks' = None
    /\ inbox' = None
    /\ UNCHANGED <<contractVars, proofVars, workerVars, planner_request, pending_plan, pending,
                   failures, diskVars, status>>

CheckReviewStale ==
    /\ CheckReview
    /\ ~CheckReviewCurrent
    /\ invalidate(InvalidatedStatus)
    /\ pending_checks' = None
    /\ inbox' = None
    /\ UNCHANGED <<contractVars, reports, workerVars, planner_request, pending_plan, pending,
                   failures, diskVars, status>>

RejectChecks ==
    /\ CheckReview
    /\ CheckReviewCurrent
    /\ pending_checks' = None
    /\ inbox' = None
    /\ UNCHANGED <<contractVars, proofVars, workerVars, planner_request, pending_plan, pending,
                   failures, workspace_digest, diskVars, status>>

\* The checks are bound; the proof of the task and of its dependents is void,
\* the claim that the work is done is not.
AcceptChecks ==
    /\ CheckReview
    /\ CheckReviewCurrent
    /\ plan_version < MaxVersion
    /\ validate_work_checks(pending_checks.checks)
    /\ Subject = pending_checks.work.task_id
    /\ LET checks == pending_checks.checks
           void == affected_work(WithChecks(Subject, checks), {Subject})
       IN /\ IF plan = None
             THEN goal_checks' = checks /\ plan' = plan
             ELSE plan' = [plan EXCEPT !.tasks = WithChecks(Subject, checks)]
                  /\ goal_checks' = goal_checks
          /\ check_catalog' = check_catalog \cup {[task_id |-> Subject, check |-> c] : c \in checks}
          /\ acceptance' = [t \in WorkIds |-> IF t \in void THEN None ELSE acceptance[t]]
          /\ suspended' = [t \in WorkIds |-> IF t \in void THEN None ELSE suspended[t]]
          /\ verification' = [t \in WorkIds |->
                IF t \in void THEN StaleReceipt(verification[t]) ELSE verification[t]]
          /\ task_status' = [t \in WorkIds |-> IF t \notin void THEN task_status[t]
                ELSE IF reports[t] = "submitted" THEN "awaiting_verification" ELSE "pending"]
    /\ plan_version' = plan_version + 1
    /\ planner_request' = None
    /\ pending_checks' = None
    /\ inbox' = None
    /\ UNCHANGED <<reports, active, control, pending_plan, pending, failures,
                   workspace_digest, diskVars, status>>

-----------------------------------------------------------------------------
Assign == \E t \in WorkIds : delegate(t) \/ continue_current(t)

Judge ==
    \/ \E t \in WorkIds, deliver \in BOOLEAN : accept_task(t, deliver)
    \/ \E t \in WorkIds : bind_checks(t)
    \/ complete \/ block \/ help \/ replan

Report == \E report \in {"progress", "submitted", "blocked"} : report_work(report)

RecordTool == FinishTool \/ FinishScopeViolation

BeginVerify == \E t \in WorkIds : BeginVerification(t)

FinishVerify == \E failed \in SUBSET ChecksOf(work_map) : finish_verification(failed)

BeginRead == \E batch \in 1..MaxReads : BeginPlannerRead(batch)

Planning ==
    \/ advise
    \/ \E p \in Plans : propose_plan(p)
    \/ AcceptPlan \/ RejectPlan \/ RefreshWorkspace
    \/ \E checks \in Proofs : propose_work_checks(checks)
    \/ CheckReviewStale \/ RejectChecks \/ AcceptChecks

Next ==
    \/ BeginModel \/ ReturnModel \/ SetReplyAside
    \/ Assign \/ Judge \/ Report \/ yield_execution
    \/ BeginTool \/ publish_workspace \/ RecordTool
    \/ BeginVerify \/ FinishVerify
    \/ BeginRead \/ FinishPlannerRead \/ Planning

Spec == Init /\ [][Next]_vars

\* Somebody other than the project's worker changes the workspace.
ExternalEdit ==
    /\ tree' \in Trees \ {tree}
    /\ UNCHANGED <<contractVars, proofVars, workerVars, plannerVars, pending, inbox, failures,
                   workspace_digest, transaction, status>>

SharedSpec == Init /\ [][Next \/ ExternalEdit]_vars

-----------------------------------------------------------------------------
(* Properties.                                                             *)

Proven(t) ==
    /\ reports[t] = "submitted"
    /\ verification[t] # None
    /\ verification[t].status = "passed"
    /\ verification[t].failed = {}
    /\ verification[t].workspace_digest = workspace_digest
    /\ verification[t].task = work_map[t]
    /\ work_map[t].checks # {}

\* Work that counts as verified, or only awaits acceptance, has a submitted
\* claim and a receipt that passed every check of its present contract on the
\* recorded tree; it is verified exactly if the Decision role accepted that
\* receipt on that tree (accept_task, and everything that later withdraws it).
AcceptedWorkIsProven ==
    \A t \in WorkIds :
        /\ task_status[t] \in {"checks_passed", "verified"} => t \in WorkSet /\ Proven(t)
        /\ task_status[t] = "verified" =>
              acceptance[t] = [verification_id |-> verification[t].operation_id,
                               workspace_digest |-> workspace_digest]
        /\ task_status[t] # "verified" => acceptance[t] = None

\* A completed project has every work item proven and accepted on one tree, the
\* recorded one, and no assignment, candidate, request or operation left over.
CompletedIsProven ==
    status = "completed" =>
        /\ \A t \in WorkSet : task_status[t] = "verified" /\ Proven(t)
        /\ active = None /\ pending = None /\ inbox = None
        /\ pending_plan = None /\ pending_checks = None /\ planner_request = None

\* A receipt that still says passed or failed speaks of the recorded tree and of
\* the present contract: every write and every contract change since has made it
\* stale (invalidate, _apply_plan, resolve_work_check_review).
ReceiptsAreCurrent ==
    \A t \in WorkIds :
        (verification[t] # None /\ verification[t].status # "stale") =>
            /\ t \in WorkSet
            /\ verification[t].workspace_digest = workspace_digest
            /\ verification[t].task = work_map[t]

Assignments == ({suspended[t] : t \in WorkIds} \cup {active}) \ {None}

\* Whatever the executor works on, or may return to, is a contract that still
\* stands, delegated when every dependency had passed the checks it has now.
\* No plan and no check binding changes it behind the executor's back.
AssignmentsStand ==
    \A x \in Assignments :
        /\ x.task_id \in WorkSet
        /\ x.contract = work_map[x.task_id]
        /\ \A d \in x.contract.dependencies :
              /\ d \in WorkSet
              /\ x.dependencies[d] # None
              /\ x.dependencies[d].status = "passed"
              /\ x.dependencies[d].task = work_map[d]

\* Whenever the Decision role is asked, it has a direction that advances the
\* work, whatever writes, failures, revisions and interruptions came before: a
\* worker's own writes never lock it or its successors out.  (While an edit from
\* outside is not recorded, every direction is refused.)
DecisionIsNeverStuck ==
    (/\ status = "running" /\ pending = None
     /\ inbox # None /\ inbox.role = "decision" /\ tree = workspace_digest) =>
        \/ completion_ready(task_status, acceptance)
        \/ \E t \in WorkSet : \/ MayDelegate(t)
                              \/ MayContinue(t) /\ control = "decision"
                              \/ require_current_verification(t)

\* A completion check leaves its task only after a verification of that task
\* failed it; work is never made to pass by taking its checks away.  (The goal's
\* own checks end with the goal, when the first plan supersedes it.)
ChecksAreNotWeakened ==
    [][(plan = None) = (plan' = None) =>
        \A t \in WorkSet : \A c \in work_map[t].checks \ work_map'[t].checks :
            [task_id |-> t, check |-> c] \in failures]_vars

\* An identifier of a check means one check of one task for the life of the
\* project, and every check that is bound is in the catalogue.
ChecksKeepTheirIdentity ==
    /\ \A e, f \in check_catalog : e.check.id = f.check.id => e = f
    /\ Bound(work_map) \subseteq check_catalog

\* A changed contract voids the proof of whatever depends on it and takes back
\* its acceptance and its interrupted assignment (affected_work, as _apply_plan
\* and resolve_work_check_review use it).
RevisionsVoidProof ==
    [][\A t \in WorkSet : \A d \in work_map[t].dependencies :
         work_map'[d] # work_map[d] =>
            /\ verification'[t] # None => verification'[t].status = "stale"
            /\ acceptance'[t] = None
            /\ suspended'[t] = None]_vars

\* What assignment_dependencies_resumable says it bridges: stale evidence, and
\* "never failed checks or a revised/unverified prerequisite".
BridgesNoFailure ==
    \A t \in WorkSet : MayContinue(t) =>
        \A d \in ResumableAssignment(t).contract.dependencies : verification[d].failed = {}

\* The ledger implements proof-gated delivery.
Gate == INSTANCE ProofGatedDelivery WITH
            Work <- WorkIds, Goal <- GOAL_ID,
            obligations <- WorkSet,
            proven <- {t \in WorkIds : task_status[t] \in {"checks_passed", "verified"}},
            accepted <- {t \in WorkIds : task_status[t] = "verified"},
            outcome <- status

DeliveryIsGated == Gate!Spec

=============================================================================
