-------------------------- MODULE ProjectLedgerProofs --------------------------
(***************************************************************************)
(* Type correctness of ProjectLedger, its invariants about proof, what its *)
(* revisions keep and void, that Decision always has a direction, and that *)
(* the ledger implements ProofGatedDelivery: for any plans, checks and     *)
(* workspaces, and with somebody else editing the workspace at any time    *)
(* (SharedSpec).                                                           *)
(***************************************************************************)
EXTENDS ProjectLedger, FiniteSetTheorems, WellFoundedInduction, TLAPS

\* The task of the running assignment is executing, and an assignment that was
\* set aside is kept under its own task (delegate, continue_current, replan).
ActiveIsExecuting ==
    /\ active # None => task_status[active.task_id] = "executing"
    /\ \A t \in WorkIds : suspended[t] # None => suspended[t].task_id = t

\* While an outcome is awaited the project runs; a verification has the checked
\* claim before it and nobody works; a tool runs for the assignment that called it.
OperationsStand ==
    pending # None =>
        /\ status = "running"
        /\ pending.kind = "verification" =>
              /\ active = None
              /\ pending.task_id \in WorkSet
              /\ reports[pending.task_id] = "submitted"
              /\ work_map[pending.task_id].checks # {}
        /\ pending.kind = "tool" => active # None

\* The inductive invariant.
IInv ==
    /\ TypeOK
    /\ ActiveIsExecuting
    /\ OperationsStand
    /\ AcceptedWorkIsProven
    /\ ReceiptsAreCurrent

-----------------------------------------------------------------------------
(* The loops of project_contracts.py compute what ProjectContracts defines. *)

\* The library's induction theorems need an operator: this one needs a set.
LEMMA LeastNumber ==
    ASSUME NEW S \in SUBSET Nat, S # {}
    PROVE  \E n \in S : \A m \in S : n <= m
  <1>1. PICK n \in S : \A m \in S : ~(<<m, n>> \in OpToRel(<, Nat))
    BY NatLessThanWellFounded, WFMin
  <1>2. ASSUME NEW m \in S
        PROVE  n <= m
    <2>1. m \in Nat /\ n \in Nat /\ <<m, n>> \in Nat \X Nat
      OBVIOUS
    <2>2. m < n => <<m, n>> \in OpToRel(<, Nat)
      BY <2>1 DEF OpToRel
    <2>3. ~(m < n)
      BY <1>1, <2>2, Zenon
    <2> QED
      BY <2>1, <2>3
  <1> QED
    BY <1>2

\* The sets of k rounds of the loop of affected_work.
Expansion(f, tasks, changed, k) ==
    /\ f[0] = changed
    /\ \A n \in 0..k : n > 0 => f[n] = expanded(tasks, f[n - 1])

\* The sets of k rounds of the topological validation.
Resolution(f, tasks, k) ==
    /\ f[0] = {}
    /\ \A n \in 0..k : n > 0 => f[n] = f[n - 1] \cup ready(tasks, f[n - 1])

Closed(tasks, S) == \A t \in DOMAIN tasks : tasks[t].dependencies \cap S # {} => t \in S

\* The rounds stay between what was changed and whatever is closed over it.
LEMMA ExpansionIsLeast ==
    ASSUME NEW tasks, NEW changed, NEW f, NEW k \in Nat, Expansion(f, tasks, changed, k),
           NEW S, changed \subseteq S, Closed(tasks, S)
    PROVE  \A n \in 0..k : changed \subseteq f[n] /\ f[n] \subseteq S
  <1> DEFINE Bad == {n \in 0..k : ~(changed \subseteq f[n] /\ f[n] \subseteq S)}
  <1> SUFFICES ASSUME Bad # {} PROVE FALSE
    OBVIOUS
  <1>0. Bad \in SUBSET Nat
    OBVIOUS
  <1>1. PICK n \in Bad : \A m \in Bad : n <= m
    BY <1>0, LeastNumber
  <1>2. n # 0
    BY <1>1 DEF Expansion
  <1>3. n - 1 \in 0..k /\ ~(n <= n - 1)
    BY <1>1, <1>2
  <1>4. changed \subseteq f[n - 1] /\ f[n - 1] \subseteq S
    BY <1>1, <1>3
  <1>5. f[n] = expanded(tasks, f[n - 1])
    BY <1>1, <1>2 DEF Expansion
  <1>6. changed \subseteq f[n] /\ f[n] \subseteq S
    BY <1>4, <1>5 DEF expanded, Closed
  <1> QED
    BY <1>1, <1>6

\* Where the loop of affected_work stops it has computed the closure.
THEOREM ExpansionComputesTheClosure ==
    ASSUME NEW tasks, NEW changed \in SUBSET DOMAIN tasks, NEW f, NEW k \in Nat,
           Expansion(f, tasks, changed, k), expanded(tasks, f[k]) = f[k]
    PROVE  f[k] = affected_work(tasks, changed)
  <1>1. changed \subseteq f[k] /\ f[k] \subseteq DOMAIN tasks
    <2>1. Closed(tasks, DOMAIN tasks)
      BY DEF Closed
    <2> QED
      BY <2>1, ExpansionIsLeast
  <1>2. Closed(tasks, f[k])
    BY DEF expanded, Closed
  <1>3. affected_work(tasks, changed) \subseteq f[k]
    BY <1>1, <1>2 DEF affected_work, Closed
  <1>4. ASSUME NEW t \in f[k], NEW S \in SUBSET DOMAIN tasks, changed \subseteq S, Closed(tasks, S)
        PROVE  t \in S
    BY <1>4, ExpansionIsLeast
  <1>5. f[k] \subseteq affected_work(tasks, changed)
    BY <1>1, <1>4 DEF affected_work, Closed
  <1> QED
    BY <1>3, <1>5

\* Every round before the last adds a task: the loop ends.
THEOREM ExpansionEnds ==
    ASSUME NEW tasks, IsFiniteSet(DOMAIN tasks), NEW changed \in SUBSET DOMAIN tasks,
           NEW f, NEW k \in Nat, Expansion(f, tasks, changed, k),
           \A n \in 0..k : n > 0 => f[n] # f[n - 1]
    PROVE  k <= Cardinality(DOMAIN tasks)
  <1>0. \A n \in 0..k : f[n] \subseteq DOMAIN tasks
    <2>1. Closed(tasks, DOMAIN tasks)
      BY DEF Closed
    <2> QED
      BY <2>1, ExpansionIsLeast
  <1>1. \A n \in 0..k : IsFiniteSet(f[n]) /\ Cardinality(f[n]) \in Nat
    BY <1>0, FS_Subset, FS_CardinalityType
  <1> DEFINE Bad == {n \in 0..k : ~(n <= Cardinality(f[n]))}
  <1>2. Bad = {}
    <2> SUFFICES ASSUME Bad # {} PROVE FALSE
      OBVIOUS
    <2>0. Bad \in SUBSET Nat
      OBVIOUS
    <2>1. PICK n \in Bad : \A m \in Bad : n <= m
      BY <2>0, LeastNumber
    <2>2. n \in 0..k /\ n # 0
      BY <1>1, <2>1
    <2>3. n - 1 \in 0..k /\ ~(n <= n - 1)
      BY <2>2
    <2>4. n - 1 <= Cardinality(f[n - 1])
      BY <2>1, <2>3
    <2>5. f[n - 1] \subseteq f[n] /\ f[n - 1] # f[n]
      BY <2>2 DEF Expansion, expanded
    <2>6. /\ Cardinality(f[n - 1]) <= Cardinality(f[n])
          /\ Cardinality(f[n - 1]) # Cardinality(f[n])
      BY <1>1, <2>2, <2>5, FS_Subset
    <2>7. n <= Cardinality(f[n])
      BY <1>1, <2>2, <2>3, <2>4, <2>6
    <2> QED
      BY <2>1, <2>7
  <1>3. k <= Cardinality(f[k]) /\ Cardinality(f[k]) \in Nat
    BY <1>1, <1>2
  <1>4. Cardinality(f[k]) <= Cardinality(DOMAIN tasks) /\ Cardinality(DOMAIN tasks) \in Nat
    BY <1>0, FS_Subset, FS_CardinalityType
  <1> QED
    BY <1>3, <1>4

\* A plan is refused for a cycle exactly if it has one.
THEOREM ResolutionFindsCycles ==
    ASSUME NEW tasks, \A t \in DOMAIN tasks : tasks[t].dependencies \subseteq DOMAIN tasks,
           NEW f, NEW k \in Nat, Resolution(f, tasks, k), ready(tasks, f[k]) = {}
    PROVE  Acyclic(tasks) <=> DOMAIN tasks \subseteq f[k]
  <1>1. ASSUME ~(DOMAIN tasks \subseteq f[k])
        PROVE  ~Acyclic(tasks)
    <2> DEFINE waiting == DOMAIN tasks \ f[k]
    <2>1. waiting \in SUBSET DOMAIN tasks /\ waiting # {}
      BY <1>1
    <2>2. ASSUME NEW t \in waiting
          PROVE  tasks[t].dependencies \cap waiting # {}
      BY <2>2 DEF ready
    <2> HIDE DEF waiting
    <2> QED
      BY <2>1, <2>2 DEF Acyclic
  <1>2. ASSUME DOMAIN tasks \subseteq f[k], NEW S \in SUBSET DOMAIN tasks, S # {}
        PROVE  \E t \in S : tasks[t].dependencies \cap S = {}
    <2> DEFINE Reached == {n \in 0..k : f[n] \cap S # {}}
    <2>1. Reached \in SUBSET Nat /\ k \in Reached
      BY <1>2
    <2>2. PICK n \in Reached : \A m \in Reached : n <= m
      BY <2>1, LeastNumber
    <2>3. n \in 0..k /\ n # 0
      BY <2>2 DEF Resolution
    <2>4. n - 1 \in 0..k /\ ~(n <= n - 1)
      BY <2>3
    <2>5. f[n - 1] \cap S = {}
      BY <2>2, <2>4
    <2>6. f[n] = f[n - 1] \cup ready(tasks, f[n - 1])
      BY <2>3 DEF Resolution
    <2>7. PICK t \in S : t \in ready(tasks, f[n - 1])
      BY <2>2, <2>5, <2>6
    <2> QED
      BY <2>5, <2>7 DEF ready
  <1> QED
    BY <1>1, <1>2 DEF Acyclic

-----------------------------------------------------------------------------
\* The invalidation closure holds the changed tasks, and tasks only.
LEMMA AffectedWork ==
    ASSUME NEW tasks, NEW changed
    PROVE  /\ affected_work(tasks, changed) \subseteq DOMAIN tasks
           /\ changed \cap DOMAIN tasks \subseteq affected_work(tasks, changed)
  BY DEF affected_work

\* The work is a function from identifiers of work to tasks.
LEMMA WorkIsTyped ==
    ASSUME plan \in Some(Plan), goal_checks \subseteq Check
    PROVE  /\ WorkSet \subseteq WorkIds
           /\ work_map \in [WorkSet -> Task]
           /\ plan = None => WorkSet = {GOAL_ID}
           /\ plan # None => work_map = plan.tasks /\ WorkSet = DOMAIN plan.tasks
                             /\ WorkSet \subseteq TaskIds
  <1>1. CASE plan = None
    <2>1. WorkSet = {GOAL_ID} /\ work_map[GOAL_ID] = GoalTask(goal_checks)
          /\ work_map = [t \in {GOAL_ID} |-> GoalTask(goal_checks)]
      BY <1>1 DEF WorkSet, work_map, work_items
    <2>2. GoalTask(goal_checks) \in Task
      BY ContractAssumption DEF GoalTask, Task
    <2> QED
      BY <1>1, <2>1, <2>2 DEF WorkIds
  <1>2. CASE plan # None
    <2>1. plan \in Plan
      BY <1>2 DEF Some
    <2>2. work_map = plan.tasks /\ WorkSet = DOMAIN plan.tasks
      BY <1>2 DEF WorkSet, work_map, work_items
    <2>3. PICK S \in SUBSET TaskIds : plan.tasks \in [S -> Task]
      BY <2>1 DEF Plan
    <2> QED
      BY <1>2, <2>2, <2>3 DEF WorkIds
  <1> QED
    BY <1>1, <1>2

LEMMA StaleReceiptIsTyped ==
    ASSUME NEW r \in Some(Receipt)
    PROVE  /\ StaleReceipt(r) \in Some(Receipt)
           /\ StaleReceipt(r) # None => StaleReceipt(r).status = "stale"
  BY NoneAssumption DEF StaleReceipt, Some, Receipt

LEMMA FreshIdIsTyped ==
    ASSUME NEW t PROVE FreshId(t) \in OpIds
  BY LedgerAssumption DEF FreshId

-----------------------------------------------------------------------------
(* Steps that change neither the work, nor its proof, nor the workers.     *)

LEMMA Initially == Init => IInv
  <1> SUFFICES ASSUME Init PROVE IInv
    OBVIOUS
  <1>1. TypeOK
    BY ContractAssumption DEF Init, TypeOK, WorkSet, work_map, work_items, WorkIds, Some, Status
  <1>2. ActiveIsExecuting /\ OperationsStand
    BY DEF Init, ActiveIsExecuting, OperationsStand
  <1>3. AcceptedWorkIsProven /\ ReceiptsAreCurrent
    BY DEF Init, AcceptedWorkIsProven, ReceiptsAreCurrent, WorkIds
  <1> QED
    BY <1>1, <1>2, <1>3 DEF IInv

\* Such a step preserves the invariant if it begins no operation that does not
\* stand and proposes only typed candidates.
LEMMA QuietStep ==
    ASSUME IInv,
           UNCHANGED <<contractVars, proofVars, workerVars, failures, workspace_digest>>,
           pending_plan' # None => pending_plan'.plan \in Plans,
           pending_checks' # None => pending_checks'.checks \in SUBSET Check,
           tree' \in Trees,
           transaction' \in {"none", "open", "published"},
           status' \in {"running", "completed", "blocked"},
           OperationsStand'
    PROVE  IInv'
  <1>1. /\ plan' = plan /\ goal_checks' = goal_checks /\ plan_version' = plan_version
        /\ check_catalog' = check_catalog /\ task_status' = task_status
        /\ reports' = reports /\ verification' = verification /\ acceptance' = acceptance
        /\ active' = active /\ suspended' = suspended /\ control' = control
        /\ failures' = failures /\ workspace_digest' = workspace_digest
    BY DEF contractVars, proofVars, workerVars
  <1>2. work_map' = work_map /\ WorkSet' = WorkSet
    BY <1>1 DEF work_map, WorkSet
  <1>3. TypeOK'
    BY <1>1, <1>2 DEF IInv, TypeOK
  <1>4. ActiveIsExecuting'
    BY <1>1 DEF IInv, ActiveIsExecuting
  <1>5. AcceptedWorkIsProven'
    BY <1>1, <1>2 DEF IInv, AcceptedWorkIsProven, Proven
  <1>6. ReceiptsAreCurrent'
    BY <1>1, <1>2 DEF IInv, ReceiptsAreCurrent
  <1> QED
    BY <1>3, <1>4, <1>5, <1>6 DEF IInv

\* A model is called or replies, a reply is set aside, a planner reads or
\* proposes, Decision asks for help: none of them is a verification or a tool.
LEMMA QuietSteps ==
    ASSUME IInv,
           \/ BeginModel \/ ReturnModel \/ SetReplyAside
           \/ complete \/ block \/ help
           \/ \E t \in WorkIds : bind_checks(t)
           \/ BeginTool \/ publish_workspace
           \/ BeginVerify \/ BeginRead \/ FinishPlannerRead
           \/ advise \/ RejectPlan \/ RejectChecks
           \/ \E p \in Plans : propose_plan(p)
           \/ \E checks \in Proofs : propose_work_checks(checks)
           \/ ExternalEdit
    PROVE  IInv'
  <1> USE DEF IInv, TypeOK
  <1>1. CASE BeginModel
    BY <1>1, QuietStep DEF BeginModel, OperationsStand, Op, diskVars, plannerVars
  <1>2. CASE ReturnModel \/ SetReplyAside
    BY <1>2, QuietStep DEF ReturnModel, SetReplyAside, OperationsStand, diskVars, plannerVars
  <1>3. CASE complete \/ block \/ help \/ \E t \in WorkIds : bind_checks(t)
    <2>1. pending' = None
      BY <1>3 DEF complete, block, help, bind_checks, Decided, Reply
    <2>2. OperationsStand'
      BY <2>1 DEF OperationsStand
    <2> QED
      BY <1>3, <2>2, QuietStep DEF complete, block, help, bind_checks, diskVars, plannerVars
  <1>4. CASE BeginTool \/ publish_workspace
    <2>1. CASE BeginTool
      BY <2>1, QuietStep
      DEF BeginTool, Reply, Op, OperationsStand, diskVars, plannerVars, workerVars
    <2>2. CASE publish_workspace
      <3>1. UNCHANGED <<contractVars, proofVars, workerVars, pending, status>>
        BY <2>2 DEF publish_workspace
      <3>2. OperationsStand'
        BY <3>1 DEF OperationsStand, contractVars, proofVars, workerVars, WorkSet, work_map
      <3> QED
        BY <2>2, <3>2, QuietStep DEF publish_workspace, plannerVars
    <2> QED
      BY <1>4, <2>1, <2>2
  <1>5. CASE BeginVerify
    BY <1>5, QuietStep
    DEF BeginVerify, BeginVerification, Decided, Reply, MayVerify, Op, OperationsStand, diskVars, plannerVars,
        workerVars, proofVars, contractVars, WorkSet, work_map
  <1>6. CASE BeginRead \/ FinishPlannerRead
    <2>1. CASE BeginRead
      <3>1. PICK batch \in 1..MaxReads : BeginPlannerRead(batch)
        BY <2>1 DEF BeginRead
      <3>2. pending'.kind = "planner_read" /\ status = "running"
        BY <3>1 DEF BeginPlannerRead, Op
      <3>3. UNCHANGED <<contractVars, proofVars, workerVars, plannerVars, failures,
                        workspace_digest, diskVars, status>>
        BY <3>1 DEF BeginPlannerRead
      <3> QED
        BY <3>2, <3>3, QuietStep DEF OperationsStand, diskVars, plannerVars
    <2>2. CASE FinishPlannerRead
      BY <2>2, QuietStep DEF FinishPlannerRead, OperationsStand, diskVars, plannerVars
    <2> QED
      BY <1>6, <2>1, <2>2
  <1>7. CASE advise \/ RejectPlan \/ RejectChecks
    BY <1>7, QuietStep
    DEF advise, RejectPlan, RejectChecks, PlanReview, CheckReview, Planned, Reply,
        OperationsStand, diskVars
  <1>8. CASE \E p \in Plans : propose_plan(p)
    BY <1>8, QuietStep DEF propose_plan, Planned, Reply, OperationsStand, diskVars
  <1>9. CASE \E checks \in Proofs : propose_work_checks(checks)
    BY <1>9, QuietStep, LedgerAssumption
    DEF propose_work_checks, Planned, Reply, OperationsStand, diskVars
  <1>10. CASE ExternalEdit
    BY <1>10, QuietStep
    DEF ExternalEdit, OperationsStand, diskVars, plannerVars, workerVars, proofVars,
        contractVars, WorkSet, work_map
  <1> QED
    BY <1>1, <1>2, <1>3, <1>4, <1>5, <1>6, <1>7, <1>8, <1>9, <1>10

-----------------------------------------------------------------------------
(* Steps of the worker.                                                    *)

\* What invalidate makes of receipts, statuses and acceptances is typed, keeps
\* the invariants on the tree it records, and leaves a task executing.
LEMMA Invalidation ==
    ASSUME IInv
    PROVE  /\ InvalidatedVerification \in [WorkIds -> Some(Receipt)]
           /\ InvalidatedStatus \in [WorkIds -> Status]
           /\ InvalidatedAcceptance \in [WorkIds -> Some(Acceptance)]
           /\ \A t \in WorkIds :
                /\ InvalidatedStatus[t] = "absent" <=> task_status[t] = "absent"
                /\ task_status[t] = "executing" => InvalidatedStatus[t] = "executing"
                /\ InvalidatedStatus[t] \in {"checks_passed", "verified"} =>
                        /\ t \in WorkSet /\ Proven(t)
                        /\ tree = workspace_digest
                        /\ InvalidatedStatus[t] = task_status[t]
                        /\ InvalidatedVerification[t] = verification[t]
                        /\ InvalidatedAcceptance[t] = acceptance[t]
                /\ InvalidatedStatus[t] # "verified" => InvalidatedAcceptance[t] = None
                /\ (InvalidatedVerification[t] # None /\ InvalidatedVerification[t].status # "stale") =>
                        /\ tree = workspace_digest
                        /\ t \in WorkSet
                        /\ InvalidatedVerification[t].workspace_digest = tree
                        /\ InvalidatedVerification[t].task = work_map[t]
  <1> USE DEF IInv, TypeOK
  <1>1. CASE Changed
    <2>1. InvalidatedVerification = [t \in WorkIds |-> StaleReceipt(verification[t])]
      BY <1>1 DEF InvalidatedVerification
    <2>2. InvalidatedAcceptance = [t \in WorkIds |-> None]
      BY <1>1 DEF InvalidatedAcceptance
    <2>3. \A t \in WorkIds : InvalidatedStatus[t] \in Status \ {"checks_passed", "verified"}
                            /\ (InvalidatedStatus[t] = "absent" <=> task_status[t] = "absent")
                            /\ (task_status[t] = "executing" => InvalidatedStatus[t] = "executing")
      BY <1>1 DEF InvalidatedStatus, Status, AcceptedWorkIsProven, Proven
    <2>4. InvalidatedStatus \in [WorkIds -> Status]
      BY <2>3 DEF InvalidatedStatus
    <2> QED
      BY <2>1, <2>2, <2>3, <2>4, StaleReceiptIsTyped DEF Some
  <1>2. CASE ~Changed
    <2>1. /\ InvalidatedVerification = verification
          /\ InvalidatedAcceptance = acceptance
          /\ InvalidatedStatus = task_status
      BY <1>2 DEF InvalidatedVerification, InvalidatedAcceptance, InvalidatedStatus
    <2> QED
      BY <1>2, <2>1 DEF Changed, AcceptedWorkIsProven, ReceiptsAreCurrent
  <1> QED
    BY <1>1, <1>2

\* delegate: the workspace is the recorded one, so nothing is invalidated.
LEMMA DelegateStep ==
    ASSUME IInv, NEW t \in WorkIds, delegate(t)
    PROVE  IInv'
  <1> USE DEF IInv
  <1>1. /\ tree = workspace_digest /\ pending = None /\ t \in WorkSet
        /\ task_status[t] # "verified" /\ active = None
    BY DEF delegate, Decided, Reply, MayDelegate
  <1>2. /\ verification' = verification /\ acceptance' = acceptance
        /\ workspace_digest' = workspace_digest
        /\ task_status' = [task_status EXCEPT ![t] = "executing"]
    BY <1>1 DEF delegate, invalidate, Changed, InvalidatedVerification, InvalidatedStatus,
                InvalidatedAcceptance, TypeOK
  <1>3. /\ plan' = plan /\ goal_checks' = goal_checks /\ plan_version' = plan_version
        /\ check_catalog' = check_catalog /\ reports' = reports /\ failures' = failures
        /\ pending' = pending /\ pending_plan' = pending_plan /\ pending_checks' = pending_checks
        /\ tree' = tree /\ transaction' = transaction /\ status' = status
        /\ control' = "executor" /\ suspended' = [suspended EXCEPT ![t] = None]
        /\ active' = [task_id |-> t, contract |-> work_map[t],
                      dependencies |-> [d \in TaskIds |->
                          IF d \in work_map[t].dependencies THEN verification[d] ELSE None]]
    BY DEF delegate, contractVars, plannerVars, diskVars
  <1>4. work_map' = work_map /\ WorkSet' = WorkSet
    BY <1>3 DEF work_map, WorkSet
  <1>5. active' \in Assignment
    <2>1. work_map[t] \in Task
      BY <1>1, WorkIsTyped DEF TypeOK
    <2>2. [d \in TaskIds |-> IF d \in work_map[t].dependencies THEN verification[d] ELSE None]
            \in [TaskIds -> Some(Receipt)]
      BY DEF TypeOK, WorkIds, Some
    <2> QED
      BY <1>3, <2>1, <2>2 DEF Assignment
  <1>6. TypeOK'
    BY <1>1, <1>2, <1>3, <1>4, <1>5 DEF TypeOK, Status, Some
  <1>7. ActiveIsExecuting' /\ OperationsStand'
    BY <1>1, <1>2, <1>3 DEF ActiveIsExecuting, OperationsStand, TypeOK
  <1>8. AcceptedWorkIsProven'
    BY <1>1, <1>2, <1>3, <1>4 DEF AcceptedWorkIsProven, Proven, TypeOK
  <1>9. ReceiptsAreCurrent'
    BY <1>2, <1>4 DEF ReceiptsAreCurrent
  <1> QED
    BY <1>6, <1>7, <1>8, <1>9

\* continue_current: the resumed assignment is the task's own.
LEMMA ContinueStep ==
    ASSUME IInv, NEW t \in WorkIds, continue_current(t)
    PROVE  IInv'
  <1> USE DEF IInv
  <1>1. /\ pending = None /\ t \in WorkSet /\ t \in resumable
        /\ active # None => active.task_id = t
    BY DEF continue_current, Decided, Reply, MayContinue
  <1>2. /\ active' \in Assignment /\ active'.task_id = t
    <2>1. active' = ResumableAssignment(t)
      BY DEF continue_current
    <2> QED
      BY <1>1, <2>1 DEF ResumableAssignment, resumable, ActiveIsExecuting, TypeOK, Some, Assignment
  <1>3. /\ plan' = plan /\ goal_checks' = goal_checks /\ plan_version' = plan_version
        /\ check_catalog' = check_catalog /\ reports' = reports /\ failures' = failures
        /\ verification' = verification /\ workspace_digest' = workspace_digest
        /\ pending' = pending /\ pending_plan' = pending_plan /\ pending_checks' = pending_checks
        /\ tree' = tree /\ transaction' = transaction /\ status' = status
        /\ control' = "executor" /\ suspended' = [suspended EXCEPT ![t] = None]
        /\ task_status' = [task_status EXCEPT ![t] = "executing"]
        /\ acceptance' = [acceptance EXCEPT ![t] = None]
    BY DEF continue_current, contractVars, plannerVars, diskVars
  <1>4. work_map' = work_map /\ WorkSet' = WorkSet
    BY <1>3 DEF work_map, WorkSet
  <1>5. TypeOK'
    BY <1>1, <1>2, <1>3, <1>4 DEF TypeOK, Status, Some
  <1>6. ActiveIsExecuting' /\ OperationsStand'
    BY <1>1, <1>2, <1>3 DEF ActiveIsExecuting, OperationsStand, TypeOK
  <1>7. AcceptedWorkIsProven'
    BY <1>1, <1>3, <1>4 DEF AcceptedWorkIsProven, Proven, TypeOK
  <1>8. ReceiptsAreCurrent'
    BY <1>3, <1>4 DEF ReceiptsAreCurrent
  <1> QED
    BY <1>5, <1>6, <1>7, <1>8

\* accept_task: what is accepted had passed, on the tree that is recorded.
LEMMA AcceptStep ==
    ASSUME IInv, NEW t \in WorkIds, NEW deliver \in BOOLEAN, accept_task(t, deliver)
    PROVE  IInv'
  <1> USE DEF IInv
  <1>1. /\ t \in WorkSet /\ task_status[t] = "checks_passed" /\ tree = workspace_digest
        /\ active = None /\ pending = None
    BY DEF accept_task, Decided, Reply, require_current_verification
  <1>2. Proven(t) /\ verification[t] \in Receipt
    BY <1>1 DEF AcceptedWorkIsProven, Proven, TypeOK, Some
  <1>3. /\ plan' = plan /\ goal_checks' = goal_checks /\ plan_version' = plan_version
        /\ check_catalog' = check_catalog /\ reports' = reports /\ failures' = failures
        /\ verification' = verification /\ workspace_digest' = workspace_digest
        /\ active' = active /\ suspended' = suspended /\ control' = control
        /\ pending' = pending /\ pending_plan' = pending_plan /\ pending_checks' = pending_checks
        /\ tree' = tree /\ transaction' = transaction
        /\ status' \in {status, "completed"}
        /\ task_status' = [task_status EXCEPT ![t] = "verified"]
        /\ acceptance' = [acceptance EXCEPT ![t] =
                [verification_id |-> verification[t].operation_id, workspace_digest |-> tree]]
    BY DEF accept_task, contractVars, workerVars, plannerVars, diskVars
  <1>4. work_map' = work_map /\ WorkSet' = WorkSet
    BY <1>3 DEF work_map, WorkSet
  <1>5. [verification_id |-> verification[t].operation_id, workspace_digest |-> tree] \in Acceptance
    BY <1>2 DEF Receipt, Acceptance, TypeOK
  <1>6. TypeOK'
    BY <1>1, <1>3, <1>4, <1>5 DEF TypeOK, Status, Some
  <1>7. ActiveIsExecuting' /\ OperationsStand'
    BY <1>1, <1>3 DEF ActiveIsExecuting, OperationsStand
  <1>8. AcceptedWorkIsProven'
    BY <1>1, <1>2, <1>3, <1>4 DEF AcceptedWorkIsProven, Proven, TypeOK
  <1>9. ReceiptsAreCurrent'
    BY <1>3, <1>4 DEF ReceiptsAreCurrent
  <1> QED
    BY <1>6, <1>7, <1>8, <1>9

\* replan, report_work and yield_execution: the worker stops, with or without a
\* claim; the proof of its task had gone when it started.
LEMMA WorkerStops ==
    ASSUME IInv, replan \/ Report \/ yield_execution
    PROVE  IInv'
  <1> USE DEF IInv
  <1>1. CASE replan
    <2>1. /\ pending = None /\ pending' = None /\ active' = None
          /\ plan' = plan /\ goal_checks' = goal_checks /\ plan_version' = plan_version
          /\ check_catalog' = check_catalog /\ reports' = reports /\ failures' = failures
          /\ verification' = verification /\ workspace_digest' = workspace_digest
          /\ task_status' = task_status /\ acceptance' = acceptance
          /\ pending_plan' = pending_plan /\ pending_checks' = pending_checks
          /\ tree' = tree /\ transaction' = transaction /\ status' = status
          /\ control' \in {control, "decision"}
          /\ suspended' = IF active = None THEN suspended
                          ELSE [suspended EXCEPT ![active.task_id] = active]
      BY <1>1 DEF replan, Decided, Reply, contractVars, proofVars, diskVars
    <2>2. work_map' = work_map /\ WorkSet' = WorkSet
      BY <2>1 DEF work_map, WorkSet
    <2>3. TypeOK'
      <3>1. suspended' \in [WorkIds -> Some(Assignment)]
        BY <2>1 DEF TypeOK, Some, Assignment
      <3> QED
        BY <2>1, <2>2, <3>1 DEF TypeOK, Some
    <2>4. ActiveIsExecuting' /\ OperationsStand'
      BY <2>1 DEF ActiveIsExecuting, OperationsStand, TypeOK
    <2>5. AcceptedWorkIsProven' /\ ReceiptsAreCurrent'
      BY <2>1, <2>2 DEF AcceptedWorkIsProven, Proven, ReceiptsAreCurrent
    <2> QED
      BY <2>3, <2>4, <2>5
  <1>2. CASE Report
    <2>1. PICK report \in {"progress", "submitted", "blocked"} : report_work(report)
      BY <1>2 DEF Report
    <2>2. /\ pending = None /\ pending' = None /\ active # None
          /\ plan' = plan /\ goal_checks' = goal_checks /\ plan_version' = plan_version
          /\ check_catalog' = check_catalog /\ failures' = failures
          /\ verification' = verification /\ workspace_digest' = workspace_digest
          /\ acceptance' = acceptance /\ control' = "decision"
          /\ pending_plan' = pending_plan /\ pending_checks' = pending_checks
          /\ tree' = tree /\ transaction' = transaction /\ status' = status
      BY <2>1 DEF report_work, Reply, contractVars, plannerVars, diskVars
    <2>3. work_map' = work_map /\ WorkSet' = WorkSet
      BY <2>2 DEF work_map, WorkSet
    <2>4. /\ active \in Assignment /\ active.task_id \in WorkIds
          /\ task_status[active.task_id] = "executing"
      BY <2>2 DEF TypeOK, Some, Assignment, ActiveIsExecuting
    <2>5. CASE report = "progress"
      <3>1. UNCHANGED <<reports, task_status, suspended, active>>
        BY <2>1, <2>5 DEF report_work
      <3>2. TypeOK'
        BY <2>2, <2>3, <3>1 DEF TypeOK
      <3>3. ActiveIsExecuting' /\ OperationsStand'
        BY <2>2, <3>1 DEF ActiveIsExecuting, OperationsStand
      <3>4. AcceptedWorkIsProven' /\ ReceiptsAreCurrent'
        BY <2>2, <2>3, <3>1 DEF AcceptedWorkIsProven, Proven, ReceiptsAreCurrent
      <3> QED
        BY <3>2, <3>3, <3>4
    <2>6. CASE report # "progress"
      <3>1. /\ active' = None
            /\ reports' = [reports EXCEPT ![active.task_id] = report]
            /\ task_status' = [task_status EXCEPT ![active.task_id] =
                    IF report = "submitted" THEN "awaiting_verification" ELSE "blocked"]
            /\ suspended' = [suspended EXCEPT ![active.task_id] = active]
        BY <2>1, <2>6 DEF report_work
      <3>2. TypeOK'
        <4>1. reports' \in [WorkIds -> {"none", "submitted", "blocked"}]
          BY <2>1, <2>4, <2>6, <3>1 DEF TypeOK
        <4>2. /\ task_status' \in [WorkIds -> Status]
              /\ \A t \in WorkIds : task_status'[t] = "absent" <=> task_status[t] = "absent"
          BY <2>4, <3>1 DEF TypeOK, Status
        <4>3. suspended' \in [WorkIds -> Some(Assignment)]
          BY <2>4, <3>1 DEF TypeOK, Some
        <4> QED
          BY <2>2, <2>3, <3>1, <4>1, <4>2, <4>3 DEF TypeOK, Some
      <3>3. ActiveIsExecuting' /\ OperationsStand'
        BY <2>2, <3>1 DEF ActiveIsExecuting, OperationsStand, TypeOK
      <3>4. AcceptedWorkIsProven'
        BY <2>2, <2>3, <2>4, <3>1 DEF AcceptedWorkIsProven, Proven, TypeOK
      <3>5. ReceiptsAreCurrent'
        BY <2>2, <2>3 DEF ReceiptsAreCurrent
      <3> QED
        BY <3>2, <3>3, <3>4, <3>5
    <2> QED
      BY <2>5, <2>6
  <1>3. CASE yield_execution
    <2>1. /\ pending = None /\ pending' = None /\ active' = active /\ suspended' = suspended
          /\ plan' = plan /\ goal_checks' = goal_checks /\ plan_version' = plan_version
          /\ check_catalog' = check_catalog /\ reports' = reports /\ failures' = failures
          /\ verification' = verification /\ workspace_digest' = workspace_digest
          /\ task_status' = task_status /\ acceptance' = acceptance /\ control' = "decision"
          /\ pending_plan' = pending_plan /\ pending_checks' = pending_checks
          /\ tree' = tree /\ transaction' = transaction /\ status' = status
      BY <1>3 DEF yield_execution, contractVars, proofVars, plannerVars, diskVars
    <2>2. work_map' = work_map /\ WorkSet' = WorkSet
      BY <2>1 DEF work_map, WorkSet
    <2>3. TypeOK' /\ ActiveIsExecuting' /\ OperationsStand'
      BY <2>1, <2>2 DEF TypeOK, ActiveIsExecuting, OperationsStand
    <2>4. AcceptedWorkIsProven' /\ ReceiptsAreCurrent'
      BY <2>1, <2>2 DEF AcceptedWorkIsProven, Proven, ReceiptsAreCurrent
    <2> QED
      BY <2>3, <2>4
  <1> QED
    BY <1>1, <1>2, <1>3

-----------------------------------------------------------------------------
(* Steps that record a tree.                                               *)

\* A tool's receipt, and the refusals that record somebody else's edit.
LEMMA RecordStep ==
    ASSUME IInv, FinishTool \/ RefreshWorkspace \/ CheckReviewStale
    PROVE  IInv'
  <1> USE DEF IInv
  <1>1. /\ plan' = plan /\ goal_checks' = goal_checks /\ plan_version' = plan_version
        /\ check_catalog' = check_catalog /\ reports' = reports /\ failures' = failures
        /\ active' = active /\ suspended' = suspended /\ control' = control
        /\ pending_plan' = pending_plan /\ tree' = tree /\ status' = status
        /\ pending_checks' \in {pending_checks, None}
        /\ transaction' \in {transaction, "none"}
        /\ pending' = None
    BY DEF FinishTool, RefreshWorkspace, CheckReviewStale, PlanReview, CheckReview, Planned, Reply,
           contractVars, workerVars, plannerVars, diskVars
  <1>2. /\ verification' = InvalidatedVerification /\ task_status' = InvalidatedStatus
        /\ acceptance' = InvalidatedAcceptance /\ workspace_digest' = tree
    BY DEF FinishTool, RefreshWorkspace, CheckReviewStale, invalidate
  <1>3. work_map' = work_map /\ WorkSet' = WorkSet
    BY <1>1 DEF work_map, WorkSet
  <1>4. TypeOK'
    BY <1>1, <1>2, <1>3, Invalidation DEF TypeOK
  <1>5. ActiveIsExecuting' /\ OperationsStand'
    <2>1. active # None => active.task_id \in WorkIds
      BY DEF TypeOK, Some, Assignment
    <2> QED
      BY <1>1, <1>2, <2>1, Invalidation DEF ActiveIsExecuting, OperationsStand
  <1>6. AcceptedWorkIsProven'
    BY <1>1, <1>2, <1>3, Invalidation DEF AcceptedWorkIsProven, Proven
  <1>7. ReceiptsAreCurrent'
    BY <1>2, <1>3, Invalidation DEF ReceiptsAreCurrent
  <1> QED
    BY <1>4, <1>5, <1>6, <1>7

\* A write out of scope blocks the task of the assignment, which was executing.
LEMMA ScopeViolationStep ==
    ASSUME IInv, FinishScopeViolation
    PROVE  IInv'
  <1> USE DEF IInv
  <1>1. active # None /\ active.task_id \in WorkIds /\ task_status[active.task_id] = "executing"
    BY DEF FinishScopeViolation, OperationsStand, ActiveIsExecuting, TypeOK, Some, Assignment
  <1>2. /\ plan' = plan /\ goal_checks' = goal_checks /\ plan_version' = plan_version
        /\ check_catalog' = check_catalog /\ failures' = failures
        /\ active' = None /\ suspended' = suspended /\ control' = "decision"
        /\ pending_plan' = pending_plan /\ pending_checks' = pending_checks
        /\ tree' = tree /\ status' = status /\ transaction' = "none" /\ pending' = None
        /\ reports' = [reports EXCEPT ![active.task_id] = "blocked"]
    BY DEF FinishScopeViolation, contractVars, plannerVars, diskVars
  <1>3. /\ verification' = InvalidatedVerification /\ acceptance' = InvalidatedAcceptance
        /\ task_status' = [InvalidatedStatus EXCEPT ![active.task_id] = "blocked"]
        /\ workspace_digest' = tree
    BY DEF FinishScopeViolation, invalidate
  <1>4. work_map' = work_map /\ WorkSet' = WorkSet
    BY <1>2 DEF work_map, WorkSet
  <1>5. TypeOK'
    <2>1. /\ task_status' \in [WorkIds -> Status]
          /\ \A t \in WorkIds : task_status'[t] = "absent" <=> task_status[t] = "absent"
      BY <1>1, <1>3, Invalidation DEF Status
    <2>2. reports' \in [WorkIds -> {"none", "submitted", "blocked"}]
      BY <1>2 DEF TypeOK
    <2> QED
      BY <1>2, <1>3, <1>4, <2>1, <2>2, Invalidation DEF TypeOK, Some
  <1>6. ActiveIsExecuting' /\ OperationsStand'
    BY <1>2 DEF ActiveIsExecuting, OperationsStand
  <1>7. AcceptedWorkIsProven'
    <2>1. \A t \in WorkIds \ {active.task_id} : reports'[t] = reports[t]
                                             /\ task_status'[t] = InvalidatedStatus[t]
      BY <1>1, <1>2, <1>3, Invalidation DEF TypeOK
    <2>2. task_status'[active.task_id] = "blocked"
      BY <1>1, <1>3, Invalidation
    <2>3. InvalidatedStatus[active.task_id] = "executing"
      BY <1>1, Invalidation
    <2> QED
      BY <1>2, <1>3, <1>4, <2>1, <2>2, <2>3, Invalidation DEF AcceptedWorkIsProven, Proven
  <1>8. ReceiptsAreCurrent'
    BY <1>3, <1>4, Invalidation DEF ReceiptsAreCurrent
  <1> QED
    BY <1>5, <1>6, <1>7, <1>8

\* A verification passes only if it ran a submitted claim's nonempty checks.
LEMMA VerificationStep ==
    ASSUME IInv, FinishVerify
    PROVE  IInv'
  <1> USE DEF IInv
  <1>1. PICK failed \in SUBSET ChecksOf(work_map) : finish_verification(failed)
    BY DEF FinishVerify
  <1> DEFINE t == pending.task_id
             outcome == IF failed = {} THEN "passed" ELSE "failed"
             receipt == [status |-> outcome, workspace_digest |-> tree, task |-> work_map[t],
                         operation_id |-> FreshId(t), failed |-> failed]
  <1>2. /\ active = None /\ t \in WorkSet /\ t \in WorkIds /\ reports[t] = "submitted"
        /\ work_map[t].checks # {} /\ work_map[t] \in Task
    <2>1. pending # None /\ pending.kind = "verification"
      BY <1>1 DEF finish_verification
    <2> QED
      BY <2>1, WorkIsTyped DEF OperationsStand, TypeOK
  <1>3. failed \in SUBSET Check
    BY <1>1, <1>2 DEF finish_verification, Task
  <1>4. receipt \in Receipt /\ receipt # None
    <2>1. receipt \in Receipt
      BY <1>2, <1>3, FreshIdIsTyped DEF Receipt, TypeOK
    <2> QED
      BY <2>1, NoneAssumption
  <1>5. /\ verification' = [InvalidatedVerification EXCEPT ![t] = receipt]
        /\ task_status' = [InvalidatedStatus EXCEPT ![t] =
                IF failed = {} THEN "checks_passed" ELSE "failed"]
        /\ acceptance' = [InvalidatedAcceptance EXCEPT ![t] = None]
        /\ failures' = failures \cup {[task_id |-> t, check |-> c] : c \in failed}
        /\ workspace_digest' = tree
    BY <1>1 DEF finish_verification
  <1>6. /\ plan' = plan /\ goal_checks' = goal_checks /\ plan_version' = plan_version
        /\ check_catalog' = check_catalog /\ reports' = reports
        /\ active' = active /\ suspended' = suspended /\ control' = control
        /\ pending_plan' = pending_plan /\ pending_checks' = pending_checks
        /\ tree' = tree /\ transaction' = transaction /\ status' = status /\ pending' = None
    BY <1>1 DEF finish_verification, contractVars, workerVars, plannerVars, diskVars
  <1>7. work_map' = work_map /\ WorkSet' = WorkSet
    BY <1>6 DEF work_map, WorkSet
  <1> HIDE DEF t, receipt
  <1>8. TypeOK'
    <2>1. /\ task_status' \in [WorkIds -> Status]
          /\ \A u \in WorkIds : task_status'[u] = "absent" <=> (task_status[u] = "absent" /\ u # t)
      BY <1>2, <1>5, Invalidation DEF Status
    <2>2. task_status[t] # "absent"
      BY <1>2 DEF TypeOK
    <2>3. verification' \in [WorkIds -> Some(Receipt)] /\ acceptance' \in [WorkIds -> Some(Acceptance)]
      BY <1>4, <1>5, Invalidation DEF Some
    <2>4. failures' \subseteq [task_id : WorkIds, check : Check]
      BY <1>2, <1>3, <1>5 DEF TypeOK
    <2> QED
      BY <1>5, <1>6, <1>7, <2>1, <2>2, <2>3, <2>4 DEF TypeOK
  <1>9. ActiveIsExecuting' /\ OperationsStand'
    BY <1>2, <1>6 DEF ActiveIsExecuting, OperationsStand
  <1>10. /\ verification'[t] = receipt /\ acceptance'[t] = None
         /\ task_status'[t] = IF failed = {} THEN "checks_passed" ELSE "failed"
         /\ \A u \in WorkIds \ {t} : /\ verification'[u] = InvalidatedVerification[u]
                                     /\ acceptance'[u] = InvalidatedAcceptance[u]
                                     /\ task_status'[u] = InvalidatedStatus[u]
    BY <1>2, <1>5, Invalidation
  <1>11. /\ receipt.workspace_digest = tree /\ receipt.task = work_map[t] /\ receipt.failed = failed
         /\ failed = {} => receipt.status = "passed"
    BY DEF receipt
  <1>12. AcceptedWorkIsProven'
    <2> SUFFICES ASSUME NEW u \in WorkIds
                 PROVE  /\ task_status'[u] \in {"checks_passed", "verified"} => u \in WorkSet' /\ Proven(u)'
                        /\ task_status'[u] = "verified" =>
                              acceptance'[u] = [verification_id |-> verification'[u].operation_id,
                                                workspace_digest |-> workspace_digest']
                        /\ task_status'[u] # "verified" => acceptance'[u] = None
      BY DEF AcceptedWorkIsProven
    <2>1. CASE u = t
      BY <1>2, <1>4, <1>5, <1>6, <1>7, <1>10, <1>11, <2>1 DEF Proven
    <2>2. CASE u # t
      BY <1>5, <1>6, <1>7, <1>10, <2>2, Invalidation DEF AcceptedWorkIsProven, Proven
    <2> QED
      BY <2>1, <2>2
  <1>13. ReceiptsAreCurrent'
    BY <1>2, <1>5, <1>7, <1>10, <1>11, Invalidation DEF ReceiptsAreCurrent
  <1> QED
    BY <1>8, <1>9, <1>12, <1>13

-----------------------------------------------------------------------------
(* Steps that revise the work.                                             *)

\* The plan that is installed keeps every task, and a task it does not affect
\* keeps its contract.
LEMMA PlanStep ==
    ASSUME IInv, AcceptPlan
    PROVE  IInv'
  <1> USE DEF IInv
  <1> DEFINE p == pending_plan.plan
  <1>1. /\ apply_plan(p) /\ pending_plan # None /\ p \in Plan /\ p # None
    <2>1. apply_plan(p) /\ pending_plan # None
      BY DEF AcceptPlan, PlanReview
    <2> QED
      BY <2>1, LedgerAssumption, NoneAssumption DEF TypeOK
  <1>2. /\ plan' = p /\ goal_checks' = goal_checks /\ active' = active /\ control' = control
        /\ plan_version' = plan_version + 1 /\ check_catalog' = check_catalog \cup Bound(p.tasks)
        /\ pending_plan' = None /\ pending_checks' = pending_checks /\ pending' = None
        /\ failures' = failures /\ workspace_digest' = workspace_digest
        /\ tree' = tree /\ transaction' = transaction /\ status' = status
    BY <1>1 DEF AcceptPlan, PlanReview, Planned, Reply, apply_plan, diskVars
  <1>3. Installable(p)
    BY <1>1 DEF apply_plan
  <1> DEFINE A == affected(p)
  <1>4. /\ task_status' = [t \in WorkIds |-> IF t \in A THEN "pending"
                              ELSE IF Superseded(t) THEN "absent" ELSE task_status[t]]
        /\ \A t \in WorkIds : t \notin A /\ ~Superseded(t) => reports'[t] = reports[t]
        /\ reports' \in [WorkIds -> {"none", "submitted", "blocked"}]
        /\ acceptance' = [t \in WorkIds |-> IF t \in A \/ Superseded(t) THEN None ELSE acceptance[t]]
        /\ suspended' = [t \in WorkIds |-> IF t \in A \/ Superseded(t) THEN None ELSE suspended[t]]
        /\ verification' = [t \in WorkIds |-> IF Superseded(t) THEN None
                               ELSE IF t \in A THEN StaleReceipt(verification[t]) ELSE verification[t]]
    <2>1. reports' = [t \in WorkIds |->
            IF (t \in A /\ ~binding_only(p, t)) \/ Superseded(t) THEN "none" ELSE reports[t]]
      BY <1>1 DEF apply_plan
    <2>2. /\ \A t \in WorkIds : t \notin A /\ ~Superseded(t) => reports'[t] = reports[t]
          /\ reports' \in [WorkIds -> {"none", "submitted", "blocked"}]
      BY <2>1 DEF TypeOK
    <2> QED
      BY <1>1, <2>2 DEF apply_plan
  <1>5. /\ WorkSet' = DOMAIN p.tasks /\ work_map' = p.tasks
        /\ DOMAIN p.tasks \subseteq TaskIds
        /\ p.tasks \in [DOMAIN p.tasks -> Task]
    <2>1. WorkSet' = DOMAIN p.tasks /\ work_map' = p.tasks
      BY <1>1, <1>2 DEF WorkSet, work_map, work_items
    <2>2. PICK S \in SUBSET TaskIds : p.tasks \in [S -> Task]
      BY <1>1 DEF Plan
    <2> QED
      BY <2>1, <2>2
  <1>6. /\ A \subseteq DOMAIN p.tasks
        /\ \A t \in DOMAIN p.tasks \ A : t \in DOMAIN OldTasks /\ OldTasks[t] = p.tasks[t]
    BY AffectedWork DEF affected
  <1>7. \A t \in WorkSet : t \in DOMAIN p.tasks \/ Superseded(t)
    BY <1>3, WorkIsTyped DEF Installable, KeepsObligations, Superseded, TypeOK
  <1>8. \A t \in DOMAIN p.tasks \ A :
            plan # None /\ ~Superseded(t) /\ t \in WorkSet /\ work_map'[t] = work_map[t]
    BY <1>5, <1>6, WorkIsTyped DEF OldTasks, Superseded, TypeOK
  <1>9. \A t \in DOMAIN p.tasks : ~Superseded(t)
    BY <1>5, ContractAssumption DEF Superseded
  <1> HIDE DEF p, A
  <1>10. TypeOK'
    <2>1. task_status' \in [WorkIds -> Status]
      BY <1>4 DEF TypeOK, Status
    <2>2. WorkSet' = {t \in WorkIds : task_status'[t] # "absent"}
      BY <1>4, <1>5, <1>6, <1>7, <1>8, <1>9 DEF TypeOK, WorkIds
    <2>3. verification' \in [WorkIds -> Some(Receipt)]
      BY <1>4, StaleReceiptIsTyped DEF TypeOK, Some
    <2>4. acceptance' \in [WorkIds -> Some(Acceptance)] /\ suspended' \in [WorkIds -> Some(Assignment)]
      BY <1>4 DEF TypeOK, Some
    <2>5. check_catalog' \subseteq [task_id : WorkIds, check : Check]
      BY <1>2, <1>5 DEF TypeOK, Bound, Task, WorkIds
    <2> QED
      BY <1>1, <1>2, <1>4, <2>1, <2>2, <2>3, <2>4, <2>5 DEF TypeOK, Some
  <1>11. ActiveIsExecuting' /\ OperationsStand'
    <2>1. active # None => /\ active.task_id \in WorkIds
                           /\ active.task_id \in DOMAIN p.tasks \ A
      BY <1>3 DEF TypeOK, Some, Assignment, Installable, KeepsActive, A
    <2> QED
      BY <1>2, <1>4, <1>9, <2>1 DEF ActiveIsExecuting, OperationsStand
  <1>12. AcceptedWorkIsProven'
    <2> SUFFICES ASSUME NEW t \in WorkIds
                 PROVE  /\ task_status'[t] \in {"checks_passed", "verified"} => t \in WorkSet' /\ Proven(t)'
                        /\ task_status'[t] = "verified" =>
                              acceptance'[t] = [verification_id |-> verification'[t].operation_id,
                                                workspace_digest |-> workspace_digest']
                        /\ task_status'[t] # "verified" => acceptance'[t] = None
      BY DEF AcceptedWorkIsProven
    <2>1. CASE t \in A \/ Superseded(t)
      BY <1>4, <2>1
    <2>2. CASE t \notin A /\ ~Superseded(t)
      <3>1. /\ task_status'[t] = task_status[t] /\ acceptance'[t] = acceptance[t]
            /\ verification'[t] = verification[t] /\ reports'[t] = reports[t]
        BY <1>4, <2>2
      <3>2. t \in WorkSet => t \in WorkSet' /\ work_map'[t] = work_map[t]
        BY <1>5, <1>7, <1>8, <2>2
      <3> QED
        BY <1>2, <3>1, <3>2 DEF AcceptedWorkIsProven, Proven
    <2> QED
      BY <2>1, <2>2
  <1>13. ReceiptsAreCurrent'
    <2> SUFFICES ASSUME NEW t \in WorkIds, verification'[t] # None, verification'[t].status # "stale"
                 PROVE  /\ t \in WorkSet' /\ verification'[t].workspace_digest = workspace_digest'
                        /\ verification'[t].task = work_map'[t]
      BY DEF ReceiptsAreCurrent
    <2>1. ~Superseded(t)
      BY <1>4
    <2>2. t \notin A
      BY <1>4, <2>1, StaleReceiptIsTyped DEF TypeOK
    <2>3. verification'[t] = verification[t]
      BY <1>4, <2>1, <2>2
    <2>4. t \in WorkSet
      BY <2>3 DEF ReceiptsAreCurrent
    <2> QED
      BY <1>2, <1>5, <1>7, <1>8, <2>1, <2>2, <2>3, <2>4 DEF ReceiptsAreCurrent
  <1> QED
    BY <1>10, <1>11, <1>12, <1>13

\* The checks that are bound change one contract, and void what depends on it.
LEMMA ChecksStep ==
    ASSUME IInv, AcceptChecks
    PROVE  IInv'
  <1> USE DEF IInv
  <1> DEFINE checks == pending_checks.checks
             void == affected_work(WithChecks(Subject, checks), {Subject})
  <1>1. /\ Subject \in WorkSet /\ active = None /\ checks \in SUBSET Check
        /\ pending = None /\ pending_checks # None
    BY DEF AcceptChecks, CheckReview, Planned, Reply, validate_work_checks, TypeOK
  <1>2. /\ acceptance' = [t \in WorkIds |-> IF t \in void THEN None ELSE acceptance[t]]
        /\ suspended' = [t \in WorkIds |-> IF t \in void THEN None ELSE suspended[t]]
        /\ verification' = [t \in WorkIds |->
              IF t \in void THEN StaleReceipt(verification[t]) ELSE verification[t]]
        /\ task_status' = [t \in WorkIds |-> IF t \notin void THEN task_status[t]
              ELSE IF reports[t] = "submitted" THEN "awaiting_verification" ELSE "pending"]
        /\ check_catalog' = check_catalog \cup {[task_id |-> Subject, check |-> c] : c \in checks}
        /\ IF plan = None
           THEN goal_checks' = checks /\ plan' = plan
           ELSE plan' = [plan EXCEPT !.tasks = WithChecks(Subject, checks)] /\ goal_checks' = goal_checks
    BY DEF AcceptChecks
  <1>3. /\ plan_version' = plan_version + 1 /\ reports' = reports /\ active' = active
        /\ control' = control /\ pending_plan' = pending_plan /\ pending_checks' = None
        /\ pending' = pending /\ failures' = failures /\ workspace_digest' = workspace_digest
        /\ tree' = tree /\ transaction' = transaction /\ status' = status
    BY DEF AcceptChecks, diskVars
  <1>4. /\ WorkSet \subseteq WorkIds /\ work_map \in [WorkSet -> Task]
    BY WorkIsTyped DEF TypeOK
  <1>5. WithChecks(Subject, checks) \in [WorkSet -> Task]
    BY <1>1, <1>4 DEF WithChecks, Task
  <1>6. /\ void \subseteq WorkSet /\ Subject \in void
    BY <1>1, <1>5, AffectedWork
  <1>7. /\ plan' \in Some(Plan) /\ goal_checks' \subseteq Check
        /\ WorkSet' = WorkSet
        /\ \A t \in WorkSet \ {Subject} : work_map'[t] = work_map[t]
    <2>1. CASE plan = None
      <3>1. plan' = None /\ goal_checks' = checks
        BY <1>2, <2>1
      <3>2. WorkSet' = {GOAL_ID} /\ WorkSet = {GOAL_ID}
        BY <2>1, <3>1 DEF WorkSet, work_map, work_items
      <3> QED
        BY <1>1, <3>1, <3>2 DEF Some
    <2>2. CASE plan # None
      <3>1. /\ plan \in Plan /\ plan' = [plan EXCEPT !.tasks = WithChecks(Subject, checks)]
            /\ goal_checks' = goal_checks /\ WorkSet \subseteq TaskIds
        BY <1>2, <2>2, WorkIsTyped DEF TypeOK, Some
      <3>2. plan' \in Plan /\ plan'.tasks = WithChecks(Subject, checks)
        BY <1>5, <3>1 DEF Plan
      <3>3. plan' # None
        BY <3>2, NoneAssumption
      <3>4. work_map' = WithChecks(Subject, checks) /\ WorkSet' = WorkSet
        BY <1>5, <3>2, <3>3 DEF WorkSet, work_map, work_items
      <3> QED
        BY <1>4, <3>1, <3>2, <3>4 DEF Some, WithChecks, TypeOK
    <2> QED
      BY <2>1, <2>2
  <1> HIDE DEF checks, void
  <1>8. TypeOK'
    <2>1. /\ task_status' \in [WorkIds -> Status]
          /\ WorkSet = {t \in WorkIds : task_status'[t] # "absent"}
      BY <1>2, <1>6 DEF TypeOK, Status
    <2>2. verification' \in [WorkIds -> Some(Receipt)]
      BY <1>2, StaleReceiptIsTyped DEF TypeOK
    <2>3. acceptance' \in [WorkIds -> Some(Acceptance)] /\ suspended' \in [WorkIds -> Some(Assignment)]
      BY <1>2 DEF TypeOK, Some
    <2>4. check_catalog' \subseteq [task_id : WorkIds, check : Check]
      BY <1>1, <1>2, <1>4 DEF TypeOK
    <2> QED
      BY <1>3, <1>7, <2>1, <2>2, <2>3, <2>4 DEF TypeOK
  <1>9. ActiveIsExecuting' /\ OperationsStand'
    BY <1>1, <1>2, <1>3 DEF ActiveIsExecuting, OperationsStand
  <1>10. AcceptedWorkIsProven'
    BY <1>2, <1>3, <1>6, <1>7 DEF AcceptedWorkIsProven, Proven
  <1>11. ReceiptsAreCurrent'
    BY <1>2, <1>3, <1>6, <1>7, StaleReceiptIsTyped DEF ReceiptsAreCurrent, TypeOK
  <1> QED
    BY <1>8, <1>9, <1>10, <1>11

-----------------------------------------------------------------------------
(* Theorems.                                                               *)

\* Every step of the ledger, and every edit from outside, preserves the
\* invariant.
LEMMA Inductive == IInv /\ [Next \/ ExternalEdit]_vars => IInv'
  <1> SUFFICES ASSUME IInv, [Next \/ ExternalEdit]_vars PROVE IInv'
    OBVIOUS
  <1>1. CASE BeginModel \/ ReturnModel \/ SetReplyAside \/ BeginTool \/ publish_workspace
             \/ BeginVerify \/ BeginRead \/ FinishPlannerRead \/ ExternalEdit
    BY <1>1, QuietSteps
  <1>2. CASE Assign
    BY <1>2, DelegateStep, ContinueStep DEF Assign
  <1>3. CASE Judge
    BY <1>3, AcceptStep, QuietSteps, WorkerStops DEF Judge
  <1>4. CASE Report \/ yield_execution
    BY <1>4, WorkerStops
  <1>5. CASE RecordTool
    BY <1>5, RecordStep, ScopeViolationStep DEF RecordTool
  <1>6. CASE FinishVerify
    BY <1>6, VerificationStep
  <1>7. CASE Planning
    BY <1>7, QuietSteps, PlanStep, RecordStep, ChecksStep DEF Planning
  <1>8. CASE UNCHANGED vars
    BY <1>8, QuietStep DEF vars, contractVars, proofVars, workerVars, plannerVars, diskVars,
       IInv, TypeOK, OperationsStand, WorkSet, work_map
  <1> QED
    BY <1>1, <1>2, <1>3, <1>4, <1>5, <1>6, <1>7, <1>8 DEF Next

\* The worker's own steps are a special case of a shared workspace.
LEMMA SpecIsShared == Spec => SharedSpec
  <1>1. [Next]_vars => [Next \/ ExternalEdit]_vars
    OBVIOUS
  <1> QED
    BY <1>1, PTL DEF Spec, SharedSpec

LEMMA Invariance == SharedSpec => []IInv
  BY Initially, Inductive, PTL DEF SharedSpec

\* The types of the ledger's fields, and that the keys of task_status are the
\* work items, through every plan, binding and supersession (_apply_plan).
THEOREM TypeCorrect == SharedSpec => []TypeOK
  <1>1. IInv => TypeOK
    BY DEF IInv
  <1> QED
    BY <1>1, Invariance, PTL

\* Work counts as passed or verified only with a current, complete proof, and
\* is verified exactly while the acceptance of that proof stands (accept_task,
\* finish_verification, invalidate, _apply_plan, resolve_work_check_review).
THEOREM AcceptanceIsProven == SharedSpec => []AcceptedWorkIsProven
  <1>1. IInv => AcceptedWorkIsProven
    BY DEF IInv
  <1> QED
    BY <1>1, Invariance, PTL

\* A receipt that still says passed or failed is about the recorded tree and
\* the present contract.
THEOREM ReceiptsCurrent == SharedSpec => []ReceiptsAreCurrent
  <1>1. IInv => ReceiptsAreCurrent
    BY DEF IInv
  <1> QED
    BY <1>1, Invariance, PTL

LEMMA CompletionStep ==
    ASSUME IInv, CompletedIsProven, [Next \/ ExternalEdit]_vars
    PROVE  CompletedIsProven'
  <1> SUFFICES ASSUME status' = "completed"
               PROVE  /\ \A t \in WorkSet' : task_status'[t] = "verified" /\ Proven(t)'
                      /\ active' = None /\ pending' = None /\ inbox' = None
                      /\ pending_plan' = None /\ pending_checks' = None /\ planner_request' = None
    BY DEF CompletedIsProven
  <1>1. CASE status = "completed"
    <2>1. pending = None /\ inbox = None
      BY <1>1 DEF CompletedIsProven
    <2>2. ExternalEdit \/ UNCHANGED vars
      BY <1>1, <2>1
      DEF Next, BeginModel, ReturnModel, SetReplyAside, Assign, delegate, continue_current, Judge,
          accept_task, bind_checks, complete, block, help, replan, Report, report_work,
          yield_execution, BeginTool, publish_workspace, RecordTool, FinishTool,
          FinishScopeViolation, BeginVerify, BeginVerification, FinishVerify,
          finish_verification, BeginRead, BeginPlannerRead, FinishPlannerRead, Planning, advise,
          propose_plan, AcceptPlan, RejectPlan, RefreshWorkspace, propose_work_checks,
          CheckReviewStale, RejectChecks, AcceptChecks, PlanReview, CheckReview, Planned,
          Decided, Reply
    <2>3. UNCHANGED <<contractVars, proofVars, workerVars, plannerVars, pending, inbox,
                      workspace_digest>>
      BY <2>2 DEF ExternalEdit, vars
    <2>4. WorkSet' = WorkSet /\ work_map' = work_map
      BY <2>3 DEF contractVars, WorkSet, work_map
    <2> QED
      BY <1>1, <2>3, <2>4
      DEF CompletedIsProven, Proven, proofVars, workerVars, plannerVars
  <1>2. CASE status # "completed"
    <2>1. complete \/ \E t \in WorkIds, deliver \in BOOLEAN : accept_task(t, deliver) /\ deliver
      BY <1>2
      DEF Next, vars, ExternalEdit, BeginModel, ReturnModel, SetReplyAside, Assign, delegate,
          continue_current, Judge, accept_task, bind_checks, block, help, replan, Report,
          report_work, yield_execution, BeginTool, publish_workspace, RecordTool, FinishTool,
          FinishScopeViolation, BeginVerify, BeginVerification, FinishVerify,
          finish_verification, BeginRead, BeginPlannerRead, FinishPlannerRead, Planning, advise,
          propose_plan, AcceptPlan, RejectPlan, RefreshWorkspace, propose_work_checks,
          CheckReviewStale, RejectChecks, AcceptChecks
    <2>2. /\ completion_ready(task_status', acceptance')
          /\ UNCHANGED <<contractVars, workerVars, plannerVars, pending>>
          /\ inbox' = None
      BY <2>1 DEF complete, accept_task, proofVars
    <2>3. IInv'
      BY Inductive
    <2>4. WorkSet' = WorkSet /\ WorkSet' \subseteq WorkIds
      BY <2>2, <2>3 DEF contractVars, WorkSet, work_map, IInv, TypeOK
    <2>5. \A t \in WorkSet' : task_status'[t] = "verified"
      BY <2>2, <2>4 DEF completion_ready
    <2> QED
      BY <2>2, <2>3, <2>4, <2>5
      DEF completion_ready, IInv, AcceptedWorkIsProven, workerVars, plannerVars
  <1> QED
    BY <1>1, <1>2

\* A completed project has all its work proven and accepted, and nothing left
\* over (complete, accept_task with deliver_report_id).
THEOREM CompletionIsProven == SharedSpec => []CompletedIsProven
  <1>1. Init => CompletedIsProven
    BY DEF Init, CompletedIsProven
  <1> QED
    BY <1>1, CompletionStep, Invariance, PTL DEF SharedSpec

-----------------------------------------------------------------------------
(* Revisions of the work, and the directions of Decision.                  *)

\* A candidate was validated when it was proposed.
CandidateStands == pending_plan # None => validate_plan(pending_plan.plan)

\* The dependencies of work are work, and some order respects them all.
WorkStands ==
    /\ \A t \in WorkSet : work_map[t].dependencies \subseteq WorkSet
    /\ Acyclic(work_map)

\* What the running assignment depends on is verified, or was and is bridged: a
\* write took the acceptance back, and the stale receipt is of the same contract.
BridgeStands ==
    active # None =>
        \A d \in active.contract.dependencies :
            \/ task_status[d] = "verified"
            \/ /\ task_status[d] = "awaiting_verification"
               /\ verification[d] # None
               /\ verification[d].status = "stale"
               /\ verification[d].task = work_map[d]

DecisionIsDue ==
    /\ planner_request = None /\ pending_plan = None /\ pending_checks = None
    /\ control = "decision"

\* Decision is asked, and its reply waits, only while nothing is being planned and
\* no worker is in control.
DecisionIsAlone ==
    /\ active = None => control = "decision"
    /\ pending # None =>
          /\ pending.kind \in {"model", "planner_read"} => "role" \in DOMAIN pending.request
          /\ pending.kind = "planner_read" => pending.request.role = "planner"
          /\ (pending.kind = "model" /\ pending.request.role = "decision") => DecisionIsDue
    /\ inbox # None =>
          /\ "role" \in DOMAIN inbox
          /\ inbox.role = "decision" => DecisionIsDue

\* The second inductive invariant, which rests on the first.
RInv ==
    /\ CandidateStands
    /\ WorkStands
    /\ ChecksKeepTheirIdentity
    /\ AssignmentsStand
    /\ BridgeStands
    /\ DecisionIsAlone

\* A revision whose closure is A: outside A nothing changes or depends on A,
\* inside A proof, acceptance and interrupted assignments are void.
Revises(A) ==
    /\ \A t \in WorkSet' \ A : t \in WorkSet /\ work_map'[t] = work_map[t]
    /\ WorkSet \ A \subseteq WorkSet'
    /\ \A t \in WorkSet' \ A : work_map'[t].dependencies \cap A = {}
    /\ \A t \in A : /\ acceptance'[t] = None /\ suspended'[t] = None
                    /\ verification'[t] # None => verification'[t].status = "stale"
    /\ \A t \in WorkIds \ A : /\ task_status'[t] = task_status[t]
                              /\ verification'[t] = verification[t]
                              /\ suspended'[t] = suspended[t]
    /\ suspended' \in [WorkIds -> Some(Assignment)]
    /\ active' = active
    /\ active # None => active.task_id \in WorkSet' \ A

\* The action of RevisionsVoidProof.
ProofIsVoided ==
    \A t \in WorkSet : \A d \in work_map[t].dependencies :
        work_map'[d] # work_map[d] =>
            /\ verification'[t] # None => verification'[t].status = "stale"
            /\ acceptance'[t] = None
            /\ suspended'[t] = None

\* The action of ChecksAreNotWeakened.
ChecksLeaveAfterFailure ==
    (plan = None) = (plan' = None) =>
        \A t \in WorkSet : \A c \in work_map[t].checks \ work_map'[t].checks :
            [task_id |-> t, check |-> c] \in failures

\* Whatever depends on a member of the closure is a member.
LEMMA DependentsAreAffected ==
    ASSUME NEW tasks, NEW changed, NEW t \in DOMAIN tasks,
           tasks[t].dependencies \cap affected_work(tasks, changed) # {}
    PROVE  t \in affected_work(tasks, changed)
  <1>1. PICK d \in tasks[t].dependencies : d \in affected_work(tasks, changed)
    OBVIOUS
  <1>2. SUFFICES ASSUME NEW S \in SUBSET DOMAIN tasks, changed \subseteq S,
                        \A u \in DOMAIN tasks : tasks[u].dependencies \cap S # {} => u \in S
                 PROVE  t \in S
    BY DEF affected_work
  <1>3. d \in S
    BY <1>1, <1>2 DEF affected_work
  <1> QED
    BY <1>1, <1>2, <1>3

LEMMA RevisionStands ==
    ASSUME IInv, WorkStands, AssignmentsStand, BridgeStands, NEW A, Revises(A)
    PROVE  AssignmentsStand' /\ BridgeStands' /\ ProofIsVoided
  <1> DEFINE Unrevised(t) == /\ t \in WorkSet /\ t \in WorkSet' /\ t \notin A /\ t \in WorkIds
                             /\ work_map'[t] = work_map[t]
                             /\ task_status'[t] = task_status[t]
                             /\ verification'[t] = verification[t]
  <1>1. \A t \in WorkSet \ A : Unrevised(t)
    BY DEF Revises, IInv, TypeOK
  <1>2. \A t \in WorkSet \ A : \A d \in work_map[t].dependencies : Unrevised(d)
    <2> SUFFICES ASSUME NEW t \in WorkSet \ A, NEW d \in work_map[t].dependencies
                 PROVE  d \in WorkSet \ A
      BY <1>1
    <2>1. t \in WorkSet' \ A /\ work_map'[t] = work_map[t]
      BY <1>1
    <2> QED
      BY <2>1 DEF WorkStands, Revises
  <1>3. \A x \in Assignments' : x \in Assignments /\ x.task_id \in WorkSet \ A
    <2> SUFFICES ASSUME NEW x \in Assignments'
                 PROVE  x \in Assignments /\ x.task_id \in WorkSet \ A
      OBVIOUS
    <2>1. x # None /\ (x = active' \/ \E t \in WorkIds : x = suspended'[t])
      BY DEF Assignments
    <2>2. CASE x = active'
      <3>1. x = active /\ x.task_id \in WorkSet' \ A
        BY <2>1, <2>2 DEF Revises
      <3> QED
        BY <2>1, <3>1 DEF Assignments, Revises
    <2>3. CASE \E t \in WorkIds : x = suspended'[t]
      <3>1. PICK t \in WorkIds : x = suspended'[t]
        BY <2>3
      <3>2. t \notin A /\ x = suspended[t]
        BY <2>1, <3>1 DEF Revises
      <3>3. x \in Assignments /\ x.task_id = t
        BY <2>1, <3>2 DEF Assignments, IInv, ActiveIsExecuting
      <3> QED
        BY <3>2, <3>3 DEF AssignmentsStand
    <2> QED
      BY <2>1, <2>2, <2>3
  <1>4. AssignmentsStand'
    <2> SUFFICES ASSUME NEW x \in Assignments'
                 PROVE  /\ x.task_id \in WorkSet'
                        /\ x.contract = work_map'[x.task_id]
                        /\ \A d \in x.contract.dependencies :
                              /\ d \in WorkSet'
                              /\ x.dependencies[d] # None
                              /\ x.dependencies[d].status = "passed"
                              /\ x.dependencies[d].task = work_map'[d]
      BY DEF AssignmentsStand
    <2>1. x \in Assignments /\ x.task_id \in WorkSet \ A
      BY <1>3
    <2>2. x.contract = work_map[x.task_id] /\ Unrevised(x.task_id)
      BY <1>1, <2>1 DEF AssignmentsStand
    <2>3. \A d \in x.contract.dependencies : Unrevised(d)
      BY <1>2, <2>1, <2>2
    <2> QED
      BY <2>1, <2>2, <2>3 DEF AssignmentsStand
  <1>5. BridgeStands'
    <2> SUFFICES ASSUME active' # None, NEW d \in active'.contract.dependencies
                 PROVE  \/ task_status'[d] = "verified"
                        \/ /\ task_status'[d] = "awaiting_verification"
                           /\ verification'[d] # None
                           /\ verification'[d].status = "stale"
                           /\ verification'[d].task = work_map'[d]
      BY DEF BridgeStands
    <2>1. active' = active /\ active \in Assignments'
      BY DEF Revises, Assignments
    <2>2. active \in Assignments /\ active.task_id \in WorkSet \ A
      BY <1>3, <2>1
    <2>3. Unrevised(d)
      BY <1>2, <2>1, <2>2 DEF AssignmentsStand
    <2> QED
      BY <2>1, <2>3 DEF BridgeStands
  <1>6. ProofIsVoided
    <2> SUFFICES ASSUME NEW t \in WorkSet, NEW d \in work_map[t].dependencies,
                        work_map'[d] # work_map[d]
                 PROVE  t \in A
      BY DEF ProofIsVoided, Revises
    <2> QED
      BY <1>2
  <1> QED
    BY <1>4, <1>5, <1>6

-----------------------------------------------------------------------------
(* The two revisions.                                                      *)

\* A plan is installed.
LEMMA PlanRevises ==
    ASSUME IInv, CandidateStands, WorkStands, AcceptPlan
    PROVE  /\ \E A : Revises(A)
           /\ WorkStands'
  <1> DEFINE p == pending_plan.plan
             A == affected(p) \cup {t \in WorkIds : Superseded(t)}
  <1>1. /\ apply_plan(p) /\ Installable(p) /\ validate_plan(p) /\ p \in Plan /\ p # None
        /\ active' = active
    <2>1. apply_plan(p) /\ pending_plan # None /\ active' = active
      BY DEF AcceptPlan, PlanReview
    <2> QED
      BY <2>1, LedgerAssumption, NoneAssumption DEF IInv, TypeOK, CandidateStands, apply_plan
  <1>2. /\ plan' = p
        /\ task_status' = [t \in WorkIds |-> IF t \in affected(p) THEN "pending"
                              ELSE IF Superseded(t) THEN "absent" ELSE task_status[t]]
        /\ acceptance' = [t \in WorkIds |->
              IF t \in affected(p) \/ Superseded(t) THEN None ELSE acceptance[t]]
        /\ suspended' = [t \in WorkIds |->
              IF t \in affected(p) \/ Superseded(t) THEN None ELSE suspended[t]]
        /\ verification' = [t \in WorkIds |-> IF Superseded(t) THEN None
              ELSE IF t \in affected(p) THEN StaleReceipt(verification[t]) ELSE verification[t]]
    BY <1>1 DEF apply_plan
  <1>3. /\ WorkSet' = DOMAIN p.tasks /\ work_map' = p.tasks
        /\ DOMAIN p.tasks \subseteq TaskIds /\ p.tasks \in [DOMAIN p.tasks -> Task]
    <2>1. WorkSet' = DOMAIN p.tasks /\ work_map' = p.tasks
      BY <1>1, <1>2 DEF WorkSet, work_map, work_items
    <2>2. PICK S \in SUBSET TaskIds : p.tasks \in [S -> Task]
      BY <1>1 DEF Plan
    <2> QED
      BY <2>1, <2>2
  <1>4. /\ affected(p) \subseteq DOMAIN p.tasks
        /\ \A t \in DOMAIN p.tasks \ affected(p) :
              t \in DOMAIN OldTasks /\ OldTasks[t] = p.tasks[t]
        /\ \A t \in DOMAIN p.tasks \ affected(p) : p.tasks[t].dependencies \cap affected(p) = {}
    <2>1. \A t \in DOMAIN p.tasks :
              p.tasks[t].dependencies \cap affected(p) # {} => t \in affected(p)
      BY DependentsAreAffected DEF affected
    <2> QED
      BY <2>1, AffectedWork DEF affected
  <1>5. /\ affected(p) \subseteq WorkIds /\ A \subseteq WorkIds
        /\ \A t \in TaskIds : t \in A <=> t \in affected(p)
        /\ \A t \in WorkIds : t \in A <=> t \in affected(p) \/ Superseded(t)
    BY <1>3, <1>4, ContractAssumption DEF WorkIds, Superseded
  <1>6. \A t \in WorkSet' \ A : t \in WorkSet /\ work_map'[t] = work_map[t]
    BY <1>3, <1>4, <1>5, WorkIsTyped DEF OldTasks, IInv, TypeOK
  <1>7. WorkSet \ A \subseteq WorkSet'
    BY <1>1, <1>3, <1>5, WorkIsTyped
    DEF Installable, KeepsObligations, Superseded, IInv, TypeOK
  <1>8. \A t \in WorkSet' \ A : work_map'[t].dependencies \cap A = {}
    <2> SUFFICES ASSUME NEW t \in WorkSet' \ A, NEW d \in work_map'[t].dependencies
                 PROVE  d \notin A
      OBVIOUS
    <2>1. t \in DOMAIN p.tasks \ affected(p) /\ d \in p.tasks[t].dependencies
      BY <1>3, <1>5
    <2>2. d \in TaskIds
      BY <1>3, <2>1 DEF Task
    <2> QED
      BY <1>4, <1>5, <2>1, <2>2
  <1>9. \A t \in A : /\ acceptance'[t] = None /\ suspended'[t] = None
                     /\ verification'[t] # None => verification'[t].status = "stale"
    <2> SUFFICES ASSUME NEW t \in A
                 PROVE  /\ acceptance'[t] = None /\ suspended'[t] = None
                        /\ verification'[t] # None => verification'[t].status = "stale"
      OBVIOUS
    <2>1. t \in WorkIds /\ verification[t] \in Some(Receipt)
      BY <1>5 DEF IInv, TypeOK
    <2>2. verification'[t] \in {None, StaleReceipt(verification[t])}
      BY <1>2, <1>5, <2>1
    <2> QED
      BY <1>2, <1>5, <2>1, <2>2, StaleReceiptIsTyped
  <1>10. /\ \A t \in WorkIds \ A : /\ task_status'[t] = task_status[t]
                                   /\ verification'[t] = verification[t]
                                   /\ suspended'[t] = suspended[t]
         /\ suspended' \in [WorkIds -> Some(Assignment)]
    BY <1>2, <1>5 DEF IInv, TypeOK, Some
  <1>11. active # None => active.task_id \in WorkSet' \ A
    BY <1>1, <1>3, <1>5 DEF Installable, KeepsActive
  <1>12. WorkStands'
    <2>1. (\A t \in DOMAIN p.tasks : p.tasks[t].dependencies \subseteq DOMAIN p.tasks)
          /\ Acyclic(p.tasks)
      BY <1>1 DEF validate_plan
    <2>2. Acyclic(work_map)' <=> Acyclic(p.tasks)
      BY <1>3 DEF Acyclic
    <2> QED
      BY <1>3, <2>1, <2>2 DEF WorkStands
  <1> HIDE DEF A
  <1>13. Revises(A)
    BY <1>1, <1>6, <1>7, <1>8, <1>9, <1>10, <1>11 DEF Revises
  <1> QED
    BY <1>12, <1>13

\* The work after checks were bound is the work with those checks.
LEMMA CheckedWork ==
    ASSUME IInv, AcceptChecks
    PROVE  /\ Subject \in WorkSet /\ active = None /\ active' = active
           /\ pending_checks.checks \in SUBSET Check
           /\ work_map' = WithChecks(Subject, pending_checks.checks) /\ WorkSet' = WorkSet
           /\ \A t \in WorkSet : work_map'[t].dependencies = work_map[t].dependencies
           /\ \A t \in WorkSet \ {Subject} : work_map'[t] = work_map[t]
           /\ work_map'[Subject].checks = pending_checks.checks
  <1> DEFINE checks == pending_checks.checks
  <1>1. /\ Subject \in WorkSet /\ active = None /\ active' = active /\ checks \in SUBSET Check
        /\ IF plan = None
           THEN goal_checks' = checks /\ plan' = plan
           ELSE plan' = [plan EXCEPT !.tasks = WithChecks(Subject, checks)]
    BY DEF AcceptChecks, CheckReview, validate_work_checks, IInv, TypeOK
  <1>2. work_map \in [WorkSet -> Task]
    BY WorkIsTyped DEF IInv, TypeOK
  <1>3. /\ WithChecks(Subject, checks) \in [WorkSet -> Task]
        /\ \A t \in WorkSet : WithChecks(Subject, checks)[t].dependencies = work_map[t].dependencies
        /\ \A t \in WorkSet \ {Subject} : WithChecks(Subject, checks)[t] = work_map[t]
        /\ WithChecks(Subject, checks)[Subject].checks = checks
    BY <1>1, <1>2 DEF WithChecks, Task
  <1>4. work_map' = WithChecks(Subject, checks)
    <2>1. CASE plan = None
      <3>1. /\ plan' = None /\ goal_checks' = checks /\ WorkSet = {GOAL_ID} /\ Subject = GOAL_ID
        BY <1>1, <2>1 DEF WorkSet, work_map, work_items
      <3>2. work_map' = [t \in {GOAL_ID} |-> GoalTask(checks)]
        BY <3>1 DEF work_map, work_items
      <3>3. work_map = [t \in {GOAL_ID} |-> GoalTask(goal_checks)]
        BY <2>1 DEF work_map, work_items
      <3>4. WithChecks(Subject, checks) = [t \in {GOAL_ID} |-> [GoalTask(goal_checks) EXCEPT !.checks = checks]]
        BY <3>1, <3>3 DEF WithChecks
      <3>5. [GoalTask(goal_checks) EXCEPT !.checks = checks] = GoalTask(checks)
        BY DEF GoalTask
      <3> QED
        BY <3>2, <3>4, <3>5
    <2>2. CASE plan # None
      <3>1. plan \in Plan
        BY <2>2 DEF IInv, TypeOK, Some
      <3>2. plan' = [plan EXCEPT !.tasks = WithChecks(Subject, checks)]
        BY <1>1, <2>2
      <3>3. plan'.tasks = WithChecks(Subject, checks)
        BY <3>1, <3>2 DEF Plan
      <3>4. plan' # None
        <4>1. IInv'
          BY ChecksStep
        <4>2. WorkSet \subseteq TaskIds /\ Subject \in TaskIds
          BY <1>1, <2>2, WorkIsTyped DEF IInv, TypeOK
        <4>3. plan' \in Plan
          BY <1>3, <3>1, <3>2, <4>2, WorkIsTyped, <2>2 DEF Plan, IInv, TypeOK
        <4> QED
          BY <4>3, NoneAssumption
      <3> QED
        BY <3>3, <3>4 DEF work_map, work_items
    <2> QED
      BY <2>1, <2>2
  <1>5. WorkSet' = WorkSet
    BY <1>3, <1>4 DEF WorkSet
  <1> QED
    BY <1>1, <1>3, <1>4, <1>5

\* Checks are bound.
LEMMA ChecksRevise ==
    ASSUME IInv, WorkStands, AcceptChecks
    PROVE  /\ \E A : Revises(A)
           /\ WorkStands'
  <1> DEFINE work == WithChecks(Subject, pending_checks.checks)
             void == affected_work(work, {Subject})
  <1>1. /\ acceptance' = [t \in WorkIds |-> IF t \in void THEN None ELSE acceptance[t]]
        /\ suspended' = [t \in WorkIds |-> IF t \in void THEN None ELSE suspended[t]]
        /\ verification' = [t \in WorkIds |->
              IF t \in void THEN StaleReceipt(verification[t]) ELSE verification[t]]
        /\ task_status' = [t \in WorkIds |-> IF t \notin void THEN task_status[t]
              ELSE IF reports[t] = "submitted" THEN "awaiting_verification" ELSE "pending"]
    BY DEF AcceptChecks
  <1>2. DOMAIN work = WorkSet /\ work_map' = work
    BY CheckedWork DEF WorkSet
  <1>3. /\ void \subseteq WorkSet /\ void \subseteq WorkIds /\ Subject \in void
        /\ \A t \in WorkSet : work[t].dependencies \cap void # {} => t \in void
    <2>1. WorkSet \subseteq WorkIds
      BY DEF IInv, TypeOK
    <2> HIDE DEF work
    <2>2. void \subseteq DOMAIN work /\ {Subject} \cap DOMAIN work \subseteq void
      BY AffectedWork
    <2>3. \A t \in DOMAIN work : work[t].dependencies \cap void # {} => t \in void
      BY DependentsAreAffected
    <2> QED
      BY <1>2, <2>1, <2>2, <2>3, CheckedWork
  <1>4. \A t \in void : /\ acceptance'[t] = None /\ suspended'[t] = None
                        /\ verification'[t] # None => verification'[t].status = "stale"
    <2> SUFFICES ASSUME NEW t \in void
                 PROVE  /\ acceptance'[t] = None /\ suspended'[t] = None
                        /\ verification'[t] # None => verification'[t].status = "stale"
      OBVIOUS
    <2>1. t \in WorkIds /\ verification[t] \in Some(Receipt)
      BY <1>3 DEF IInv, TypeOK
    <2>2. verification'[t] = StaleReceipt(verification[t])
      BY <1>1, <2>1
    <2> QED
      BY <1>1, <2>1, <2>2, StaleReceiptIsTyped
  <1>5. /\ \A t \in WorkIds \ void : /\ task_status'[t] = task_status[t]
                                     /\ verification'[t] = verification[t]
                                     /\ suspended'[t] = suspended[t]
        /\ suspended' \in [WorkIds -> Some(Assignment)]
    BY <1>1 DEF IInv, TypeOK, Some
  <1>6. WorkStands'
    <2>1. \A t \in WorkSet : work_map'[t].dependencies = work_map[t].dependencies
      BY CheckedWork
    <2>2. Acyclic(work_map) => Acyclic(work_map)'
      BY <1>2, <2>1 DEF Acyclic, WorkSet
    <2> QED
      BY <2>1, <2>2, CheckedWork DEF WorkStands
  <1> HIDE DEF work, void
  <1>7. Revises(void)
    BY <1>2, <1>3, <1>4, <1>5, CheckedWork DEF Revises
  <1> QED
    BY <1>6, <1>7

-----------------------------------------------------------------------------
(* Checks.                                                                 *)

\* The catalogue grows by the checks of a plan or of a task, each registered and
\* none of two meanings.
LEMMA CatalogueGrows ==
    ASSUME ChecksKeepTheirIdentity,
           NEW new, check_catalog' = check_catalog \cup new,
           \A e \in new : Registered(check_catalog, e.task_id, e.check),
           \A e \in new : e = [task_id |-> e.task_id, check |-> e.check],
           \A e, f \in new : e.check.id = f.check.id => e = f,
           Bound(work_map') \subseteq check_catalog'
    PROVE  ChecksKeepTheirIdentity'
  <1>1. \A e \in check_catalog, f \in new : e.check.id = f.check.id => e = f
    BY DEF Registered
  <1>2. \A e, f \in check_catalog' : e.check.id = f.check.id => e = f
    BY <1>1 DEF ChecksKeepTheirIdentity
  <1>3. Bound(work_map)' \subseteq check_catalog'
    BY DEF Bound
  <1> QED
    BY <1>2, <1>3 DEF ChecksKeepTheirIdentity

\* What is bound, as members.
LEMMA BoundMembers ==
    ASSUME NEW tasks
    PROVE  /\ \A t \in DOMAIN tasks : \A c \in tasks[t].checks :
                  [task_id |-> t, check |-> c] \in Bound(tasks)
           /\ \A e \in Bound(tasks) : \E t \in DOMAIN tasks : \E c \in tasks[t].checks :
                  e = [task_id |-> t, check |-> c]
  BY DEF Bound

LEMMA PlanKeepsChecks ==
    ASSUME IInv, CandidateStands, ChecksKeepTheirIdentity, AcceptPlan
    PROVE  ChecksKeepTheirIdentity' /\ ChecksLeaveAfterFailure
  <1> DEFINE p == pending_plan.plan
  <1>1. /\ apply_plan(p) /\ KeepsChecks(p) /\ validate_plan(p) /\ p # None
        /\ plan' = p /\ check_catalog' = check_catalog \cup Bound(p.tasks)
    <2>1. apply_plan(p) /\ pending_plan # None
      BY DEF AcceptPlan, PlanReview
    <2> QED
      BY <2>1, LedgerAssumption, NoneAssumption
      DEF IInv, TypeOK, CandidateStands, apply_plan, Installable
  <1>2. work_map' = p.tasks
    BY <1>1 DEF work_map, work_items
  <1>3. \A t \in DOMAIN p.tasks : \A c \in p.tasks[t].checks : Registered(check_catalog, t, c)
    BY <1>1 DEF KeepsChecks
  <1>4. UniqueCheckIds(p.tasks)
    BY <1>1 DEF validate_plan
  <1> HIDE DEF p
  <1>5. ChecksKeepTheirIdentity'
    <2>1. \A e \in Bound(p.tasks) : /\ Registered(check_catalog, e.task_id, e.check)
                                    /\ e = [task_id |-> e.task_id, check |-> e.check]
      BY <1>3, BoundMembers
    <2>2. \A e, f \in Bound(p.tasks) : e.check.id = f.check.id => e = f
      BY <1>4, BoundMembers DEF UniqueCheckIds
    <2>3. Bound(work_map') \subseteq check_catalog'
      BY <1>1, <1>2
    <2> QED
      BY <1>1, <2>1, <2>2, <2>3, CatalogueGrows
  <1>6. ChecksLeaveAfterFailure
    <2> SUFFICES ASSUME plan # None, NEW t \in WorkSet,
                        NEW c \in work_map[t].checks \ work_map'[t].checks
                 PROVE  [task_id |-> t, check |-> c] \in failures
      BY <1>1 DEF ChecksLeaveAfterFailure
    <2>1. /\ work_map = plan.tasks /\ t \in DOMAIN plan.tasks
          /\ c \in plan.tasks[t].checks /\ c \notin p.tasks[t].checks
          /\ c \in ChecksOf(plan.tasks)
      BY <1>2, WorkIsTyped DEF IInv, TypeOK, ChecksOf
    <2>2. [task_id |-> t, check |-> c] \in check_catalog
      BY <2>1, BoundMembers DEF ChecksKeepTheirIdentity
    <2>3. c.id \notin Ids(ChecksOf(p.tasks))
      <3> SUFFICES ASSUME c.id \in Ids(ChecksOf(p.tasks)) PROVE FALSE
        OBVIOUS
      <3>1. PICK d \in ChecksOf(p.tasks) : d.id = c.id
        BY DEF Ids
      <3>2. PICK u \in DOMAIN p.tasks : d \in p.tasks[u].checks
        BY DEF ChecksOf
      <3>3. c = d
        BY <1>1, <2>1, <3>1 DEF KeepsChecks
      <3>4. u = t
        BY <1>3, <2>2, <3>2, <3>3 DEF Registered
      <3> QED
        BY <2>1, <3>2, <3>3, <3>4
    <2>4. \E u \in DOMAIN plan.tasks :
              c \in plan.tasks[u].checks /\ [task_id |-> u, check |-> c] \in failures
      BY <1>1, <2>1, <2>3 DEF KeepsChecks, validate_replacements
    <2>5. PICK u \in DOMAIN plan.tasks :
              c \in plan.tasks[u].checks /\ [task_id |-> u, check |-> c] \in failures
      BY <2>4
    <2>6. [task_id |-> u, check |-> c] \in check_catalog
      BY <2>1, <2>5, BoundMembers DEF ChecksKeepTheirIdentity
    <2>7. u = t
      BY <2>2, <2>6 DEF ChecksKeepTheirIdentity
    <2> QED
      BY <2>5, <2>7
  <1> QED
    BY <1>5, <1>6

LEMMA BindingKeepsChecks ==
    ASSUME IInv, ChecksKeepTheirIdentity, AcceptChecks
    PROVE  ChecksKeepTheirIdentity' /\ ChecksLeaveAfterFailure
  <1> DEFINE checks == pending_checks.checks
             new == {[task_id |-> Subject, check |-> c] : c \in checks}
             work == WithChecks(Subject, checks)
  <1>1. /\ check_catalog' = check_catalog \cup new
        /\ \A c, d \in checks : c.id = d.id => c = d
        /\ \A c \in checks : Registered(check_catalog, Subject, c)
        /\ validate_replacements(work_map, work, failures)
    BY DEF AcceptChecks, validate_work_checks
  <1>2. /\ Subject \in WorkSet /\ work_map' = work /\ WorkSet' = WorkSet /\ DOMAIN work = WorkSet
        /\ \A t \in WorkSet \ {Subject} : work[t] = work_map[t]
        /\ work[Subject].checks = checks
    BY CheckedWork DEF WorkSet
  <1>3. \A t \in WorkSet : \A c \in work_map[t].checks : [task_id |-> t, check |-> c] \in check_catalog
    BY BoundMembers DEF ChecksKeepTheirIdentity, WorkSet
  <1> HIDE DEF work, checks
  <1>4. ChecksKeepTheirIdentity'
    <2>1. \A e \in new : /\ Registered(check_catalog, e.task_id, e.check)
                         /\ e = [task_id |-> e.task_id, check |-> e.check]
      BY <1>1
    <2>2. \A e, f \in new : e.check.id = f.check.id => e = f
      BY <1>1
    <2>3. Bound(work) \subseteq check_catalog'
      <3> SUFFICES ASSUME NEW t \in WorkSet, NEW c \in work[t].checks
                   PROVE  [task_id |-> t, check |-> c] \in check_catalog'
        BY <1>2, BoundMembers
      <3> QED
        BY <1>1, <1>2, <1>3
    <2> HIDE DEF new
    <2> QED
      BY <1>1, <1>2, <2>1, <2>2, <2>3, CatalogueGrows
  <1>5. ChecksLeaveAfterFailure
    <2> SUFFICES ASSUME NEW t \in WorkSet, NEW c \in work_map[t].checks \ work[t].checks
                 PROVE  [task_id |-> t, check |-> c] \in failures
      BY <1>2 DEF ChecksLeaveAfterFailure
    <2>1. t = Subject /\ c \notin checks /\ c \in ChecksOf(work_map)
      BY <1>2 DEF ChecksOf, WorkSet
    <2>2. c.id \notin Ids(ChecksOf(work))
      <3> SUFFICES ASSUME c.id \in Ids(ChecksOf(work)) PROVE FALSE
        OBVIOUS
      <3>1. PICK d \in ChecksOf(work) : d.id = c.id
        BY DEF Ids
      <3>2. PICK u \in WorkSet : d \in work[u].checks
        BY <1>2 DEF ChecksOf
      <3>3. CASE u = Subject
        <4>1. d \in checks /\ [task_id |-> Subject, check |-> c] = [task_id |-> Subject, check |-> d]
          BY <1>1, <1>2, <1>3, <2>1, <3>1, <3>2, <3>3 DEF Registered
        <4>2. c = d
          BY <4>1
        <4> QED
          BY <2>1, <4>1, <4>2
      <3>4. CASE u # Subject
        <4>1. [task_id |-> u, check |-> d] \in check_catalog /\ [task_id |-> t, check |-> c] \in check_catalog
          BY <1>2, <1>3, <3>2, <3>4
        <4>2. u = t
          BY <3>1, <4>1 DEF ChecksKeepTheirIdentity
        <4> QED
          BY <2>1, <3>4, <4>2
      <3> QED
        BY <3>3, <3>4
    <2>3. PICK u \in DOMAIN work_map :
              c \in work_map[u].checks /\ [task_id |-> u, check |-> c] \in failures
      BY <1>1, <2>1, <2>2 DEF validate_replacements
    <2>4. [task_id |-> u, check |-> c] \in check_catalog /\ [task_id |-> t, check |-> c] \in check_catalog
      BY <1>3, <2>3 DEF WorkSet
    <2>5. u = t
      BY <2>4 DEF ChecksKeepTheirIdentity
    <2> QED
      BY <2>3, <2>5
  <1> QED
    BY <1>4, <1>5

-----------------------------------------------------------------------------
(* Steps that do not revise the work.                                      *)

LEMMA WorkIsKept ==
    ASSUME UNCHANGED contractVars
    PROVE  /\ work_map' = work_map /\ WorkSet' = WorkSet
           /\ WorkStands => WorkStands'
           /\ ChecksKeepTheirIdentity => ChecksKeepTheirIdentity'
           /\ ProofIsVoided
           /\ ChecksLeaveAfterFailure
  <1>1. work_map' = work_map /\ WorkSet' = WorkSet /\ check_catalog' = check_catalog
        /\ plan' = plan
    BY DEF contractVars, work_map, WorkSet
  <1>2. WorkStands => WorkStands'
    <2>1. Acyclic(work_map) => Acyclic(work_map)'
      BY <1>1 DEF Acyclic
    <2> QED
      BY <1>1, <2>1 DEF WorkStands
  <1>3. ChecksKeepTheirIdentity => ChecksKeepTheirIdentity'
    <2>1. Bound(work_map)' = Bound(work_map)
      BY <1>1 DEF Bound
    <2> QED
      BY <1>1, <2>1 DEF ChecksKeepTheirIdentity
  <1> QED
    BY <1>1, <1>2, <1>3 DEF ProofIsVoided, ChecksLeaveAfterFailure

\* Assignments stand as long as the work does, if none is made.
LEMMA NoNewAssignment ==
    ASSUME AssignmentsStand, UNCHANGED contractVars, Assignments' \subseteq Assignments
    PROVE  AssignmentsStand'
  BY WorkIsKept DEF AssignmentsStand

\* delegate: every dependency is verified, so its receipt passed its checks.
LEMMA DelegationStands ==
    ASSUME IInv, WorkStands, AssignmentsStand, NEW t \in WorkIds, delegate(t)
    PROVE  AssignmentsStand' /\ BridgeStands'
  <1>1. /\ t \in WorkSet /\ active = None /\ task_status[t] # "verified"
        /\ tree = workspace_digest
        /\ \A d \in work_map[t].dependencies : task_status[d] = "verified"
        /\ UNCHANGED contractVars
        /\ suspended' = [suspended EXCEPT ![t] = None]
        /\ active' = [task_id |-> t, contract |-> work_map[t],
                      dependencies |-> [d \in TaskIds |->
                          IF d \in work_map[t].dependencies THEN verification[d] ELSE None]]
    BY DEF delegate, Decided, MayDelegate
  <1>2. /\ verification' = verification
        /\ task_status' = [task_status EXCEPT ![t] = "executing"]
    BY <1>1 DEF delegate, invalidate, Changed, InvalidatedVerification, InvalidatedStatus, IInv, TypeOK
  <1>3. \A d \in work_map[t].dependencies :
            /\ d \in WorkSet /\ d \in TaskIds /\ d # t
            /\ verification[d] # None /\ verification[d].status = "passed"
            /\ verification[d].task = work_map[d]
            /\ task_status'[d] = "verified"
    <2> SUFFICES ASSUME NEW d \in work_map[t].dependencies
                 PROVE  /\ d \in WorkSet /\ d \in TaskIds /\ d # t
                        /\ verification[d] # None /\ verification[d].status = "passed"
                        /\ verification[d].task = work_map[d]
                        /\ task_status'[d] = "verified"
      OBVIOUS
    <2>1. d \in WorkSet /\ d \in WorkIds /\ task_status[d] = "verified" /\ d # t
      BY <1>1 DEF WorkStands, IInv, TypeOK
    <2>2. d \in TaskIds
      BY <1>1, WorkIsTyped DEF IInv, TypeOK, Task
    <2> QED
      BY <1>2, <2>1, <2>2 DEF IInv, AcceptedWorkIsProven, Proven, TypeOK
  <1>4. \A x \in Assignments' : x \in Assignments \/ x = active'
    <2> SUFFICES ASSUME NEW x \in Assignments', x # active'
                 PROVE  x \in Assignments
      OBVIOUS
    <2>1. x # None /\ \E u \in WorkIds : x = suspended'[u]
      BY DEF Assignments
    <2> QED
      BY <1>1, <2>1 DEF Assignments, IInv, TypeOK
  <1>5. AssignmentsStand'
    <2> SUFFICES ASSUME NEW x \in Assignments'
                 PROVE  /\ x.task_id \in WorkSet
                        /\ x.contract = work_map[x.task_id]
                        /\ \A d \in x.contract.dependencies :
                              /\ d \in WorkSet
                              /\ x.dependencies[d] # None
                              /\ x.dependencies[d].status = "passed"
                              /\ x.dependencies[d].task = work_map[d]
      BY <1>1, WorkIsKept DEF AssignmentsStand
    <2>1. CASE x \in Assignments
      BY <2>1 DEF AssignmentsStand
    <2>2. CASE x = active'
      BY <1>1, <1>3, <2>2
    <2> QED
      BY <1>4, <2>1, <2>2
  <1>6. BridgeStands'
    BY <1>1, <1>3 DEF BridgeStands
  <1> QED
    BY <1>5, <1>6

\* continue_current, replan, reports and writes out of scope move assignments.
LEMMA AssignmentMoves ==
    ASSUME IInv, WorkStands, AssignmentsStand, BridgeStands,
           \/ \E t \in WorkIds : continue_current(t)
           \/ replan \/ Report \/ FinishScopeViolation
    PROVE  AssignmentsStand' /\ BridgeStands'
  <1>1. suspended \in [WorkIds -> Some(Assignment)] /\ active \in Some(Assignment)
    BY DEF IInv, TypeOK
  <1>2. ASSUME NEW t \in WorkIds, continue_current(t)
        PROVE  AssignmentsStand' /\ BridgeStands'
    <2>1. /\ t \in WorkSet /\ t \in resumable
          /\ active' = ResumableAssignment(t)
          /\ suspended' = [suspended EXCEPT ![t] = None]
          /\ task_status' = [task_status EXCEPT ![t] = "executing"]
          /\ verification' = verification
          /\ ResumableAssignment(t).contract = work_map[t]
          /\ assignment_dependencies_resumable(ResumableAssignment(t))
          /\ UNCHANGED contractVars
      BY <1>2 DEF continue_current, MayContinue
    <2>2. active' = active \/ active' = suspended[t]
      BY <2>1 DEF ResumableAssignment
    <2>3. Assignments' \subseteq Assignments
      BY <1>1, <2>1, <2>2 DEF Assignments
    <2>4. t \notin work_map[t].dependencies
      <3>1. {t} \subseteq DOMAIN work_map /\ {t} # {}
        BY <2>1 DEF WorkSet
      <3>2. \E u \in {t} : work_map[u].dependencies \cap {t} = {}
        BY <3>1 DEF WorkStands, Acyclic
      <3> QED
        BY <3>2
    <2>5. BridgeStands'
      <3> SUFFICES ASSUME NEW d \in work_map[t].dependencies
                   PROVE  \/ task_status'[d] = "verified"
                          \/ /\ task_status'[d] = "awaiting_verification"
                             /\ verification'[d] # None
                             /\ verification'[d].status = "stale"
                             /\ verification'[d].task = work_map'[d]
        BY <2>1 DEF BridgeStands
      <3>1. d # t
        BY <2>4
      <3> QED
        BY <2>1, <3>1, WorkIsKept DEF assignment_dependencies_resumable, IInv, TypeOK
    <2> QED
      BY <2>1, <2>3, <2>5, NoNewAssignment
  <1>3. ASSUME replan \/ Report \/ FinishScopeViolation
        PROVE  AssignmentsStand' /\ BridgeStands'
    <2>1. UNCHANGED contractVars
      BY <1>3 DEF replan, Report, report_work, FinishScopeViolation
    <2>2. \/ /\ active' = None
             /\ \/ suspended' = suspended
                \/ active # None /\ suspended' = [suspended EXCEPT ![active.task_id] = active]
          \/ UNCHANGED <<active, suspended, task_status, verification>>
      BY <1>3 DEF replan, Report, report_work, FinishScopeViolation
    <2>3. Assignments' \subseteq Assignments
      <3>1. CASE active' = None /\ suspended' = suspended
        BY <3>1 DEF Assignments
      <3>2. CASE /\ active' = None /\ active # None
                 /\ suspended' = [suspended EXCEPT ![active.task_id] = active]
        BY <1>1, <3>2 DEF Assignments
      <3>3. CASE UNCHANGED <<active, suspended, task_status, verification>>
        BY <3>3 DEF Assignments
      <3> QED
        BY <2>2, <3>1, <3>2, <3>3
    <2>4. BridgeStands'
      BY <2>1, <2>2, WorkIsKept DEF BridgeStands
    <2> QED
      BY <2>1, <2>3, <2>4, NoNewAssignment
  <1> QED
    BY <1>2, <1>3

\* A write takes acceptances back; the bridge over the stale receipts stands.
LEMMA RecordingStands ==
    ASSUME IInv, WorkStands, AssignmentsStand, BridgeStands,
           FinishTool \/ RefreshWorkspace \/ CheckReviewStale
    PROVE  AssignmentsStand' /\ BridgeStands'
  <1>1. /\ UNCHANGED <<contractVars, active, suspended>>
        /\ verification' = InvalidatedVerification /\ task_status' = InvalidatedStatus
    BY DEF FinishTool, RefreshWorkspace, CheckReviewStale, invalidate, workerVars
  <1>2. AssignmentsStand'
    <2>1. Assignments' \subseteq Assignments
      BY <1>1 DEF Assignments
    <2> QED
      BY <1>1, <2>1, NoNewAssignment
  <1>3. BridgeStands'
    <2> SUFFICES ASSUME active # None, NEW d \in active.contract.dependencies
                 PROVE  \/ task_status'[d] = "verified"
                        \/ /\ task_status'[d] = "awaiting_verification"
                           /\ verification'[d] # None
                           /\ verification'[d].status = "stale"
                           /\ verification'[d].task = work_map[d]
      BY <1>1, WorkIsKept DEF BridgeStands
    <2>1. d \in WorkSet /\ d \in WorkIds
      BY DEF AssignmentsStand, Assignments, IInv, TypeOK
    <2>2. CASE ~Changed
      BY <1>1, <2>1, <2>2 DEF BridgeStands, InvalidatedVerification, InvalidatedStatus
    <2>3. CASE Changed
      <3>1. /\ verification[d] # None /\ verification[d].task = work_map[d]
            /\ task_status[d] \in {"verified", "awaiting_verification"}
            /\ verification[d] \in Receipt
        BY <2>1 DEF BridgeStands, IInv, AcceptedWorkIsProven, Proven, TypeOK, Some
      <3>2. /\ verification'[d] = [verification[d] EXCEPT !.status = "stale"]
            /\ task_status'[d] = "awaiting_verification"
        BY <1>1, <2>1, <2>3, <3>1
        DEF InvalidatedVerification, InvalidatedStatus, StaleReceipt
      <3>3. /\ verification'[d] \in Receipt /\ verification'[d].status = "stale"
            /\ verification'[d].task = work_map[d]
        BY <3>1, <3>2 DEF Receipt
      <3> QED
        BY <3>2, <3>3, NoneAssumption
    <2> QED
      BY <2>2, <2>3
  <1> QED
    BY <1>2, <1>3

\* Verification and acceptance need that nobody works.
LEMMA JudgingStands ==
    ASSUME IInv, AssignmentsStand,
           FinishVerify \/ \E t \in WorkIds, deliver \in BOOLEAN : accept_task(t, deliver)
    PROVE  AssignmentsStand' /\ BridgeStands'
  <1>1. UNCHANGED <<contractVars, active, suspended>> /\ active = None
    BY DEF FinishVerify, finish_verification, accept_task, require_current_verification,
           workerVars, IInv, OperationsStand
  <1>2. Assignments' \subseteq Assignments
    BY <1>1 DEF Assignments
  <1> QED
    BY <1>1, <1>2, NoNewAssignment DEF BridgeStands

LEMMA QuietlyStands ==
    ASSUME AssignmentsStand, BridgeStands,
           UNCHANGED <<contractVars, active, suspended, task_status, verification>>
    PROVE  AssignmentsStand' /\ BridgeStands'
  <1>1. Assignments' \subseteq Assignments
    BY DEF Assignments
  <1>2. BridgeStands'
    BY WorkIsKept DEF BridgeStands
  <1> QED
    BY <1>1, <1>2, NoNewAssignment

-----------------------------------------------------------------------------
(* Who is asked.                                                           *)

LEMMA NextRequestIsARequest ==
    ASSUME IInv, DecisionIsAlone
    PROVE  /\ "role" \in DOMAIN NextRequest
           /\ NextRequest.role = "decision" => DecisionIsDue
  BY DEF NextRequest, Request, DecisionIsDue, DecisionIsAlone, IInv, TypeOK

\* Whoever is delegated or continued has an assignment.
LEMMA WorkersAreAssigned ==
    ASSUME IInv, NEW t \in WorkIds, delegate(t) \/ continue_current(t)
    PROVE  active' # None
  <1>1. CASE delegate(t)
    <2>1. /\ t \in WorkSet
          /\ active' = [task_id |-> t, contract |-> work_map[t],
                        dependencies |-> [d \in TaskIds |->
                            IF d \in work_map[t].dependencies THEN verification[d] ELSE None]]
      BY <1>1 DEF delegate
    <2>2. work_map[t] \in Task
      BY <2>1, WorkIsTyped DEF IInv, TypeOK
    <2>3. [d \in TaskIds |-> IF d \in work_map[t].dependencies THEN verification[d] ELSE None]
            \in [TaskIds -> Some(Receipt)]
      BY DEF IInv, TypeOK, WorkIds, Some
    <2>4. active' \in Assignment
      BY <2>1, <2>2, <2>3 DEF Assignment
    <2> QED
      BY <2>4, NoneAssumption
  <1>2. CASE continue_current(t)
    BY <1>2 DEF continue_current, MayContinue, resumable, ResumableAssignment
  <1> QED
    BY <1>1, <1>2

LEMMA AskedAlone ==
    ASSUME IInv, DecisionIsAlone, [Next \/ ExternalEdit]_vars
    PROVE  DecisionIsAlone'
  <1>1. CASE BeginModel
    <2>1. /\ pending'.kind = "model" /\ pending'.request = NextRequest
          /\ inbox' = None /\ UNCHANGED <<plannerVars, workerVars>>
      BY <1>1 DEF BeginModel, Op
    <2> QED
      BY <2>1, NextRequestIsARequest DEF DecisionIsAlone, DecisionIsDue, plannerVars, workerVars
  <1>2. CASE ReturnModel
    BY <1>2 DEF ReturnModel, DecisionIsAlone, DecisionIsDue, plannerVars, workerVars
  <1>3. CASE BeginRead
    <2>1. PICK batch \in 1..MaxReads : BeginPlannerRead(batch)
      BY <1>3 DEF BeginRead
    <2>2. /\ pending'.kind = "planner_read"
          /\ pending'.request = [inbox EXCEPT !.batch = batch, !.reads = @ + 1]
          /\ inbox' = [inbox EXCEPT !.batch = batch]
          /\ inbox # None /\ inbox.role = "planner"
      BY <2>1 DEF BeginPlannerRead, Op
    <2>3. "role" \in DOMAIN inbox
      BY <2>2 DEF DecisionIsAlone
    <2>4. /\ UNCHANGED workerVars
          /\ "role" \in DOMAIN inbox' /\ inbox'.role = "planner"
          /\ "role" \in DOMAIN pending'.request /\ pending'.request.role = "planner"
      BY <2>1, <2>2, <2>3 DEF BeginPlannerRead
    <2> QED
      BY <2>2, <2>4 DEF DecisionIsAlone, workerVars
  <1>4. CASE FinishPlannerRead
    BY <1>4 DEF FinishPlannerRead, DecisionIsAlone, DecisionIsDue, plannerVars, workerVars
  <1>5. CASE BeginTool \/ BeginVerify
    <2>1. /\ pending'.kind \in {"tool", "verification"}
          /\ inbox' = inbox /\ UNCHANGED <<plannerVars, workerVars>>
      BY <1>5 DEF BeginTool, BeginVerify, BeginVerification, Op
    <2> QED
      BY <2>1 DEF DecisionIsAlone, DecisionIsDue, plannerVars, workerVars
  <1>6. CASE \/ SetReplyAside \/ Assign \/ Judge \/ Report \/ RecordTool \/ FinishVerify \/ Planning
    <2>1. inbox' = None /\ pending' = None
      BY <1>6
      DEF SetReplyAside, Assign, delegate, continue_current, Judge, accept_task, bind_checks,
          complete, block, help, replan, Report, report_work, RecordTool, FinishTool,
          FinishScopeViolation, FinishVerify, finish_verification, Planning, advise,
          propose_plan, AcceptPlan, RejectPlan, RefreshWorkspace, propose_work_checks,
          CheckReviewStale, RejectChecks, AcceptChecks, PlanReview, CheckReview, Planned,
          Decided, Reply
    <2>2. CASE Assign
      BY <2>1, <2>2, WorkersAreAssigned DEF Assign, DecisionIsAlone
    <2>3. CASE ~Assign
      <3>1. \/ control' = "decision"
            \/ control' = control /\ active' = active
        BY <1>6, <2>3
        DEF SetReplyAside, Judge, accept_task, bind_checks, complete, block, help, replan,
            Report, report_work, RecordTool, FinishTool, FinishScopeViolation, FinishVerify,
            finish_verification, Planning, advise, propose_plan, AcceptPlan, RejectPlan,
            RefreshWorkspace, propose_work_checks, CheckReviewStale, RejectChecks,
            AcceptChecks, workerVars
      <3> QED
        BY <2>1, <3>1 DEF DecisionIsAlone
    <2> QED
      BY <2>2, <2>3
  <1>7. CASE yield_execution \/ publish_workspace \/ ExternalEdit \/ UNCHANGED vars
    <2>1. /\ UNCHANGED <<plannerVars, active, pending, inbox>>
          /\ control' \in {control, "decision"}
      BY <1>7 DEF yield_execution, publish_workspace, ExternalEdit, vars, workerVars
    <2> QED
      BY <2>1 DEF DecisionIsAlone, DecisionIsDue, plannerVars, workerVars
  <1> QED
    BY <1>1, <1>2, <1>3, <1>4, <1>5, <1>6, <1>7 DEF Next

-----------------------------------------------------------------------------
(* Theorems about revisions and directions.                                *)

LEMMA ProposedIsValid ==
    ASSUME CandidateStands, [Next \/ ExternalEdit]_vars
    PROVE  CandidateStands'
  <1>1. CASE \E p \in Plans : propose_plan(p)
    BY <1>1 DEF propose_plan, CandidateStands
  <1>2. CASE pending_plan' \in {pending_plan, None}
    BY <1>2 DEF CandidateStands
  <1>3. (\E p \in Plans : propose_plan(p)) \/ pending_plan' \in {pending_plan, None}
    BY DEF Next, ExternalEdit, vars, plannerVars, BeginModel, ReturnModel, SetReplyAside, Assign,
        delegate, continue_current, Judge, accept_task, bind_checks, complete, block, help, replan,
        Report, report_work, yield_execution, BeginTool, publish_workspace, RecordTool, FinishTool,
        FinishScopeViolation, BeginVerify, BeginVerification, FinishVerify, finish_verification,
        BeginRead, BeginPlannerRead, FinishPlannerRead, Planning, advise, AcceptPlan, RejectPlan,
        RefreshWorkspace, propose_work_checks, CheckReviewStale, RejectChecks, AcceptChecks
  <1> QED
    BY <1>1, <1>2, <1>3

\* A step revises the work, or keeps it.
LEMMA KeptOrRevised ==
    ASSUME [Next \/ ExternalEdit]_vars
    PROVE  AcceptPlan \/ AcceptChecks \/ UNCHANGED contractVars
  BY DEF Next, ExternalEdit, vars, BeginModel, ReturnModel, SetReplyAside, Assign,
        delegate, continue_current, Judge, accept_task, bind_checks, complete, block, help, replan,
        Report, report_work, yield_execution, BeginTool, publish_workspace, RecordTool, FinishTool,
        FinishScopeViolation, BeginVerify, BeginVerification, FinishVerify, finish_verification,
        BeginRead, BeginPlannerRead, FinishPlannerRead, Planning, advise, RejectPlan, propose_plan,
        RefreshWorkspace, propose_work_checks, CheckReviewStale, RejectChecks

LEMMA AssignmentStep ==
    ASSUME IInv, RInv, [Next \/ ExternalEdit]_vars, UNCHANGED contractVars,
           ~AcceptPlan, ~AcceptChecks
    PROVE  AssignmentsStand' /\ BridgeStands'
  <1> USE DEF RInv
  <1>1. CASE \E t \in WorkIds : delegate(t)
    BY <1>1, DelegationStands
  <1>2. CASE \/ \E t \in WorkIds : continue_current(t)
             \/ replan \/ Report \/ FinishScopeViolation
    BY <1>2, AssignmentMoves
  <1>3. CASE FinishTool \/ RefreshWorkspace \/ CheckReviewStale
    BY <1>3, RecordingStands
  <1>4. CASE FinishVerify \/ \E t \in WorkIds, deliver \in BOOLEAN : accept_task(t, deliver)
    BY <1>4, JudgingStands
  <1>5. CASE UNCHANGED <<contractVars, active, suspended, task_status, verification>>
    BY <1>5, QuietlyStands
  <1>6. \/ \E t \in WorkIds : delegate(t)
        \/ \E t \in WorkIds : continue_current(t)
        \/ replan \/ Report \/ FinishScopeViolation
        \/ FinishTool \/ RefreshWorkspace \/ CheckReviewStale
        \/ FinishVerify \/ \E t \in WorkIds, deliver \in BOOLEAN : accept_task(t, deliver)
        \/ UNCHANGED <<contractVars, active, suspended, task_status, verification>>
    BY DEF Next, ExternalEdit, vars, proofVars, workerVars, BeginModel, ReturnModel, SetReplyAside,
        Assign, Judge, bind_checks, complete, block, help, yield_execution, BeginTool,
        publish_workspace, RecordTool, BeginVerify, BeginVerification, BeginRead,
        BeginPlannerRead, FinishPlannerRead, Planning, advise, RejectPlan, propose_plan,
        propose_work_checks, RejectChecks
  <1> QED
    BY <1>1, <1>2, <1>3, <1>4, <1>5, <1>6

LEMMA RevisionStep ==
    ASSUME IInv, RInv, [Next \/ ExternalEdit]_vars
    PROVE  RInv' /\ ProofIsVoided /\ ChecksLeaveAfterFailure
  <1>1. CandidateStands' /\ DecisionIsAlone'
    BY ProposedIsValid, AskedAlone DEF RInv
  <1>2. CASE AcceptPlan
    <2>1. PICK A : Revises(A)
      BY <1>2, PlanRevises DEF RInv
    <2>2. AssignmentsStand' /\ BridgeStands' /\ ProofIsVoided
      BY <2>1, RevisionStands DEF RInv
    <2> QED
      BY <1>1, <1>2, <2>2, PlanRevises, PlanKeepsChecks DEF RInv
  <1>3. CASE AcceptChecks
    <2>1. PICK A : Revises(A)
      BY <1>3, ChecksRevise DEF RInv
    <2>2. AssignmentsStand' /\ BridgeStands' /\ ProofIsVoided
      BY <2>1, RevisionStands DEF RInv
    <2> QED
      BY <1>1, <1>3, <2>2, ChecksRevise, BindingKeepsChecks DEF RInv
  <1>4. CASE UNCHANGED contractVars /\ ~AcceptPlan /\ ~AcceptChecks
    <2>1. AssignmentsStand' /\ BridgeStands'
      BY <1>4, AssignmentStep
    <2> QED
      BY <1>1, <1>4, <2>1, WorkIsKept DEF RInv
  <1> QED
    BY <1>2, <1>3, <1>4, KeptOrRevised

LEMMA RevisionsBegin == Init => RInv
  <1> SUFFICES ASSUME Init PROVE RInv
    OBVIOUS
  <1>1. WorkSet = {GOAL_ID} /\ work_map = [t \in {GOAL_ID} |-> GoalTask({})]
    BY DEF Init, WorkSet, work_map, work_items
  <1>2. WorkStands
    BY <1>1 DEF WorkStands, Acyclic, GoalTask
  <1>3. ChecksKeepTheirIdentity
    BY <1>1 DEF Init, ChecksKeepTheirIdentity, Bound, GoalTask
  <1>4. CandidateStands /\ AssignmentsStand /\ BridgeStands /\ DecisionIsAlone
    BY DEF Init, CandidateStands, AssignmentsStand, Assignments, BridgeStands, DecisionIsAlone
  <1> QED
    BY <1>2, <1>3, <1>4 DEF RInv

LEMMA RevisionInvariance == SharedSpec => []RInv
  BY RevisionsBegin, RevisionStep, Invariance, PTL DEF SharedSpec

\* Whatever the executor works on or may return to is a contract that stands,
\* delegated on proof of the dependencies it has now (delegate, _apply_plan,
\* resolve_work_check_review).
THEOREM AssignmentsAlwaysStand == SharedSpec => []AssignmentsStand
  <1>1. RInv => AssignmentsStand
    BY DEF RInv
  <1> QED
    BY <1>1, RevisionInvariance, PTL

\* An identifier of a check means one check of one task for the life of the
\* project (check_catalog).
THEOREM ChecksAlwaysKeepTheirIdentity == SharedSpec => []ChecksKeepTheirIdentity
  <1>1. RInv => ChecksKeepTheirIdentity
    BY DEF RInv
  <1> QED
    BY <1>1, RevisionInvariance, PTL

\* A changed contract voids the proof, the acceptance and the interrupted
\* assignment of whatever depends on it (affected_work).
THEOREM RevisionsAlwaysVoidProof == SharedSpec => RevisionsVoidProof
  <1>1. ASSUME IInv, RInv, [Next \/ ExternalEdit]_vars
        PROVE  [\A t \in WorkSet : \A d \in work_map[t].dependencies :
                   work_map'[d] # work_map[d] =>
                      /\ verification'[t] # None => verification'[t].status = "stale"
                      /\ acceptance'[t] = None
                      /\ suspended'[t] = None]_vars
    BY <1>1, RevisionStep DEF ProofIsVoided
  <1> QED
    BY <1>1, Invariance, RevisionInvariance, PTL DEF SharedSpec, RevisionsVoidProof

\* A completion check leaves its task only after a verification of that task
\* failed it (validate_work_check_replacements).
THEOREM ChecksLeaveOnlyAfterFailure == SharedSpec => ChecksAreNotWeakened
  <1>1. ASSUME IInv, RInv, [Next \/ ExternalEdit]_vars
        PROVE  [(plan = None) = (plan' = None) =>
                   \A t \in WorkSet : \A c \in work_map[t].checks \ work_map'[t].checks :
                       [task_id |-> t, check |-> c] \in failures]_vars
    BY <1>1, RevisionStep DEF ChecksLeaveAfterFailure
  <1> QED
    BY <1>1, Invariance, RevisionInvariance, PTL DEF SharedSpec, ChecksAreNotWeakened

\* With nobody at work, either everything is proven and accepted, or the first
\* unverified task, in an order of the dependencies, can be delegated or resumed.
LEMMA SomebodyCanWork ==
    ASSUME IInv, RInv, active = None, pending = None, DecisionIsDue, tree = workspace_digest
    PROVE  \/ completion_ready(task_status, acceptance)
           \/ \E t \in WorkSet : MayDelegate(t) \/ MayContinue(t)
  <1> DEFINE S == {t \in WorkSet : task_status[t] # "verified"}
  <1>1. WorkSet \subseteq WorkIds
    BY DEF IInv, TypeOK
  <1>2. CASE S = {}
    <2>1. \A t \in WorkSet : /\ task_status[t] = "verified" /\ Proven(t)
                             /\ acceptance[t] = [verification_id |-> verification[t].operation_id,
                                                 workspace_digest |-> workspace_digest]
      BY <1>1, <1>2 DEF IInv, AcceptedWorkIsProven
    <2> QED
      BY <2>1 DEF completion_ready, DecisionIsDue, Proven
  <1>3. CASE S # {}
    <2>1. PICK t \in S : work_map[t].dependencies \cap S = {}
      BY <1>3 DEF RInv, WorkStands, Acyclic, WorkSet
    <2>2. /\ t \in WorkSet /\ task_status[t] # "verified"
          /\ \A d \in work_map[t].dependencies : d \in WorkSet /\ task_status[d] = "verified"
      BY <2>1 DEF RInv, WorkStands
    <2>3. CASE t \notin resumable
      BY <2>2, <2>3 DEF MayDelegate
    <2>4. CASE t \in resumable
      <3>1. /\ t \in WorkIds /\ suspended[t] # None /\ ResumableAssignment(t) = suspended[t]
            /\ suspended[t].task_id = t /\ suspended[t] \in Assignments
        BY <2>4 DEF resumable, ResumableAssignment, Assignments, IInv, ActiveIsExecuting
      <3>2. suspended[t].contract = work_map[t]
        BY <3>1 DEF RInv, AssignmentsStand
      <3>3. assignment_dependencies_resumable(suspended[t])
        BY <2>2, <3>2 DEF assignment_dependencies_resumable
      <3> QED
        BY <2>2, <2>4, <3>1, <3>2, <3>3 DEF MayContinue
    <2> QED
      BY <2>2, <2>3, <2>4
  <1> QED
    BY <1>2, <1>3

\* With a worker stopped in its assignment, it can be continued.
LEMMA TheWorkerCanContinue ==
    ASSUME IInv, RInv, active # None
    PROVE  \E t \in WorkSet : MayContinue(t)
  <1> DEFINE t == active.task_id
  <1>1. active \in Assignments /\ active \in Assignment
    BY DEF Assignments, IInv, TypeOK, Some
  <1>2. t \in WorkSet /\ t \in WorkIds /\ active.contract = work_map[t]
    BY <1>1 DEF RInv, AssignmentsStand, IInv, TypeOK
  <1>3. t \in resumable /\ ResumableAssignment(t) = active
    BY <1>2 DEF resumable, ResumableAssignment
  <1>4. assignment_dependencies_resumable(active)
    BY <1>1 DEF assignment_dependencies_resumable, RInv, AssignmentsStand, BridgeStands
  <1>5. MayContinue(t)
    BY <1>2, <1>3, <1>4 DEF MayContinue
  <1> QED
    BY <1>2, <1>5

\* Whenever Decision is asked it has a direction that advances the work
\* (permitted_directions): no write, failure, revision or interruption locks the
\* work out.
THEOREM DecisionAlwaysHasADirection == SharedSpec => []DecisionIsNeverStuck
  <1>1. ASSUME IInv, RInv, pending = None, tree = workspace_digest, DecisionIsDue
        PROVE  \/ completion_ready(task_status, acceptance)
               \/ \E t \in WorkSet : \/ MayDelegate(t)
                                     \/ MayContinue(t) /\ control = "decision"
                                     \/ require_current_verification(t)
    <2>1. control = "decision"
      BY <1>1 DEF DecisionIsDue
    <2>2. CASE active = None
      BY <1>1, <2>1, <2>2, SomebodyCanWork
    <2>3. CASE active # None
      BY <1>1, <2>1, <2>3, TheWorkerCanContinue
    <2> QED
      BY <2>2, <2>3
  <1>2. IInv /\ RInv => DecisionIsNeverStuck
    BY <1>1 DEF DecisionIsNeverStuck, RInv, DecisionIsAlone
  <1> QED
    BY <1>2, Invariance, RevisionInvariance, PTL

-----------------------------------------------------------------------------
(* The ledger implements proof-gated delivery (ProofGatedDelivery), for    *)
(* any plans, checks and workspaces and with outside edits at any time:    *)
(* every step of SharedSpec is a step of Gate or leaves it unchanged.      *)

-----------------------------------------------------------------------------
(* The kinds of step.                                                      *)

\* A step that leaves the work, its statuses and the outcome alone stutters.
LEMMA Stuttering ==
    ASSUME UNCHANGED <<contractVars, task_status, status>>
    PROVE  UNCHANGED Gate!vars
  BY DEF contractVars, WorkSet, work_map, Gate!vars

\* A step of a running project that keeps its work and in which no task becomes
\* proven or accepted withdraws proof, or nothing.
LEMMA Withdrawal ==
    ASSUME status = "running", status' = status,
           WorkSet \subseteq WorkSet',
           \A t \in WorkIds :
               task_status'[t] \in {"checks_passed", "verified"} => task_status'[t] = task_status[t]
    PROVE  Gate!Withdraw
  BY DEF Gate!Withdraw, Gate!Running

\* Statuses that invalidation leaves, but for one task, make nothing proven.
LEMMA InvalidationWithdraws ==
    ASSUME IInv, status = "running", status' = status, UNCHANGED contractVars,
           NEW t, NEW s \in Status \ {"checks_passed", "verified"},
           \/ task_status' = InvalidatedStatus
           \/ task_status' = [InvalidatedStatus EXCEPT ![t] = s]
           \/ task_status' = [task_status EXCEPT ![t] = s]
    PROVE  Gate!Withdraw
  <1>1. WorkSet' = WorkSet
    BY DEF contractVars, WorkSet, work_map
  <1>2. \A u \in WorkIds :
            task_status'[u] \in {"checks_passed", "verified"} => task_status'[u] = task_status[u]
    BY Invalidation DEF IInv, TypeOK
  <1> QED
    BY <1>1, <1>2, Withdrawal

\* An acceptance, with or without the delivery.
LEMMA Acceptances ==
    ASSUME IInv, NEW t \in WorkIds, NEW deliver \in BOOLEAN, accept_task(t, deliver)
    PROVE  Gate!Accept(t)
  <1>1. /\ status = "running" /\ t \in WorkSet /\ task_status[t] = "checks_passed"
        /\ task_status' = [task_status EXCEPT ![t] = "verified"]
        /\ status' = IF deliver THEN "completed" ELSE status
        /\ deliver => completion_ready(task_status', acceptance')
        /\ UNCHANGED contractVars
    BY DEF accept_task, Decided, Reply, require_current_verification
  <1>2. WorkSet' = WorkSet
    BY <1>1 DEF contractVars, WorkSet, work_map
  <1>3. task_status \in [WorkIds -> Status]
    BY DEF IInv, TypeOK
  <1>4. IInv'
    BY AcceptStep
  <1>5. deliver => {u \in WorkIds : task_status'[u] = "verified"} = WorkSet
    <2>1. {u \in WorkIds : task_status'[u] = "verified"} \subseteq WorkSet
      BY <1>2, <1>4 DEF IInv, AcceptedWorkIsProven
    <2>2. deliver => WorkSet \subseteq {u \in WorkIds : task_status'[u] = "verified"}
      BY <1>1, WorkIsTyped DEF completion_ready, IInv, TypeOK
    <2> QED
      BY <2>1, <2>2
  <1> QED
    BY <1>1, <1>2, <1>3, <1>5 DEF Gate!Accept, Gate!Running

LEMMA Deliveries ==
    ASSUME IInv, complete
    PROVE  Gate!Deliver
  <1>1. /\ status = "running" /\ status' = "completed" /\ completion_ready(task_status, acceptance)
        /\ UNCHANGED <<contractVars, task_status>>
    BY DEF complete, Decided, Reply, proofVars
  <1>2. WorkSet' = WorkSet
    BY <1>1 DEF contractVars, WorkSet, work_map
  <1>3. {u \in WorkIds : task_status[u] = "verified"} = WorkSet
    BY <1>1, WorkIsTyped DEF completion_ready, IInv, TypeOK, AcceptedWorkIsProven
  <1> QED
    BY <1>1, <1>2, <1>3 DEF Gate!Deliver, Gate!Running

\* A verification that passed proves its task, one that failed only withdraws.
LEMMA Verifications ==
    ASSUME IInv, FinishVerify
    PROVE  Gate!Withdraw \/ \E t \in WorkIds : Gate!Prove(t)
  <1>1. PICK failed \in SUBSET ChecksOf(work_map) : finish_verification(failed)
    BY DEF FinishVerify
  <1>2. PICK t \in WorkIds : t = pending.task_id /\ t \in WorkSet
    BY <1>1, WorkIsTyped DEF finish_verification, IInv, OperationsStand, TypeOK
  <1>3. /\ status = "running" /\ status' = status /\ UNCHANGED contractVars /\ WorkSet' = WorkSet
        /\ task_status' = [InvalidatedStatus EXCEPT ![t] =
                IF failed = {} THEN "checks_passed" ELSE "failed"]
    BY <1>1, <1>2 DEF finish_verification, IInv, OperationsStand, contractVars, WorkSet, work_map
  <1>4. CASE failed # {}
    <2>1. task_status' = [InvalidatedStatus EXCEPT ![t] = "failed"]
      BY <1>3, <1>4
    <2> QED
      BY <1>3, <2>1, InvalidationWithdraws DEF Status
  <1>5. CASE failed = {}
    <2>1. /\ task_status'[t] = "checks_passed"
          /\ \A u \in WorkIds \ {t} :
                task_status'[u] \in {"checks_passed", "verified"} => task_status'[u] = task_status[u]
      BY <1>2, <1>3, <1>5, Invalidation
    <2>2. Gate!Prove(t)
      BY <1>2, <1>3, <2>1 DEF Gate!Prove, Gate!Running
    <2> QED
      BY <2>2
  <1> QED
    BY <1>4, <1>5

-----------------------------------------------------------------------------
(* Revisions.                                                              *)

\* The first plan replaces the goal; a later one keeps all the work.
LEMMA Plannings ==
    ASSUME IInv, CandidateStands, AcceptPlan
    PROVE  Gate!Decompose \/ Gate!Withdraw
  <1> DEFINE p == pending_plan.plan
  <1>1. /\ status = "running" /\ status' = status /\ apply_plan(p) /\ p \in Plan
        /\ p # None /\ DOMAIN p.tasks # {}
    BY LedgerAssumption, NoneAssumption
    DEF AcceptPlan, PlanReview, Planned, Reply, IInv, TypeOK, CandidateStands, validate_plan
  <1>2. /\ plan' = p /\ Installable(p)
        /\ task_status' = [t \in WorkIds |-> IF t \in affected(p) THEN "pending"
                              ELSE IF Superseded(t) THEN "absent" ELSE task_status[t]]
    BY <1>1 DEF apply_plan
  <1>3. WorkSet' = DOMAIN p.tasks /\ DOMAIN p.tasks \subseteq TaskIds
    <2>1. PICK S \in SUBSET TaskIds : p.tasks \in [S -> Task]
      BY <1>1 DEF Plan
    <2> QED
      BY <1>1, <1>2, <2>1 DEF WorkSet, work_map, work_items
  <1> HIDE DEF p
  <1>4. CASE plan # None
    <2>1. WorkSet \subseteq WorkSet'
      BY <1>2, <1>3, <1>4, WorkIsTyped DEF Installable, KeepsObligations, IInv, TypeOK
    <2>2. \A t \in WorkIds :
              task_status'[t] \in {"checks_passed", "verified"} => task_status'[t] = task_status[t]
      BY <1>2
    <2> QED
      BY <1>1, <2>1, <2>2, Withdrawal
  <1>5. CASE plan = None
    <2>1. WorkSet = {GOAL_ID}
      BY <1>5, WorkIsTyped DEF IInv, TypeOK
    <2>2. \A t \in WorkIds : task_status'[t] \in {"pending", "absent"}
      BY <1>2, <1>5, <2>1 DEF Superseded, IInv, TypeOK
    <2>3. GOAL_ID \notin WorkSet' /\ WorkSet' \subseteq WorkIds
      BY <1>3, ContractAssumption DEF WorkIds
    <2> QED
      BY <1>1, <1>3, <2>1, <2>2, <2>3 DEF Gate!Decompose, Gate!Running
  <1> QED
    BY <1>4, <1>5

\* The checks that are bound keep all the work and prove nothing.
LEMMA Bindings ==
    ASSUME IInv, AcceptChecks
    PROVE  Gate!Withdraw
  <1> DEFINE void == affected_work(WithChecks(Subject, pending_checks.checks), {Subject})
  <1>1. /\ status = "running" /\ status' = status /\ Subject \in WorkSet
        /\ task_status' = [t \in WorkIds |-> IF t \notin void THEN task_status[t]
              ELSE IF reports[t] = "submitted" THEN "awaiting_verification" ELSE "pending"]
    BY DEF AcceptChecks, CheckReview, Planned, Reply, validate_work_checks
  <1>2. IInv'
    BY ChecksStep
  <1>3. WorkSet' = WorkSet
    <2>1. void \subseteq WorkSet
      <3>1. DOMAIN WithChecks(Subject, pending_checks.checks) = WorkSet
        BY DEF WithChecks, WorkSet
      <3> QED
        BY <3>1, AffectedWork
    <2>2. \A t \in WorkIds : task_status'[t] = "absent" <=> task_status[t] = "absent"
      BY <1>1, <2>1 DEF IInv, TypeOK
    <2> QED
      BY <1>2, <2>2 DEF IInv, TypeOK
  <1>4. \A t \in WorkIds :
            task_status'[t] \in {"checks_passed", "verified"} => task_status'[t] = task_status[t]
    BY <1>1
  <1> QED
    BY <1>1, <1>3, <1>4, Withdrawal

-----------------------------------------------------------------------------
LEMMA GateStep ==
    ASSUME IInv, CandidateStands, [Next \/ ExternalEdit]_vars
    PROVE  [Gate!Next]_(Gate!vars)
  <1>1. CASE BeginModel \/ ReturnModel \/ SetReplyAside \/ BeginTool \/ publish_workspace
             \/ BeginVerify \/ BeginRead \/ FinishPlannerRead \/ yield_execution \/ ExternalEdit
             \/ UNCHANGED vars
    BY <1>1, Stuttering
    DEF BeginModel, ReturnModel, SetReplyAside, BeginTool, publish_workspace, BeginVerify,
        BeginVerification, BeginRead, BeginPlannerRead, FinishPlannerRead, yield_execution,
        ExternalEdit, vars, proofVars
  <1>2. CASE Assign
    <2>1. PICK t \in WorkIds : delegate(t) \/ continue_current(t)
      BY <1>2 DEF Assign
    <2>2. /\ status = "running" /\ status' = status /\ UNCHANGED contractVars
          /\ \/ task_status' = [InvalidatedStatus EXCEPT ![t] = "executing"]
             \/ task_status' = [task_status EXCEPT ![t] = "executing"]
      BY <2>1 DEF delegate, continue_current, Decided, Reply, invalidate
    <2> QED
      BY <2>2, InvalidationWithdraws DEF Status, Gate!Next
  <1>3. CASE Judge
    <2>1. CASE \E t \in WorkIds, deliver \in BOOLEAN : accept_task(t, deliver)
      BY <2>1, Acceptances DEF Gate!Next
    <2>2. CASE complete
      BY <2>2, Deliveries DEF Gate!Next
    <2>3. CASE block
      <3>1. /\ status = "running" /\ status' = "blocked" /\ UNCHANGED <<contractVars, task_status>>
        BY <2>3 DEF block, Decided, Reply, proofVars
      <3>2. WorkSet' = WorkSet
        BY <3>1 DEF contractVars, WorkSet, work_map
      <3>3. Gate!Block
        BY <3>1, <3>2 DEF Gate!Block, Gate!Running
      <3> QED
        BY <3>3 DEF Gate!Next
    <2>4. CASE help \/ replan \/ \E t \in WorkIds : bind_checks(t)
      BY <2>4, Stuttering DEF help, replan, bind_checks, proofVars
    <2> QED
      BY <1>3, <2>1, <2>2, <2>3, <2>4 DEF Judge
  <1>4. CASE Report
    <2>1. PICK report \in {"progress", "submitted", "blocked"} : report_work(report)
      BY <1>4 DEF Report
    <2>2. CASE report = "progress"
      BY <2>1, <2>2, Stuttering DEF report_work
    <2>3. CASE report # "progress"
      <3>1. /\ status = "running" /\ status' = status /\ UNCHANGED contractVars
            /\ \E s \in {"awaiting_verification", "blocked"} :
                  task_status' = [task_status EXCEPT ![active.task_id] = s]
        BY <2>1, <2>3 DEF report_work, Reply
      <3> QED
        BY <3>1, InvalidationWithdraws DEF Status, Gate!Next
    <2> QED
      BY <2>2, <2>3
  <1>5. CASE RecordTool \/ RefreshWorkspace \/ CheckReviewStale
    <2>1. /\ status = "running" /\ status' = status /\ UNCHANGED contractVars
          /\ \/ task_status' = InvalidatedStatus
             \/ task_status' = [InvalidatedStatus EXCEPT ![active.task_id] = "blocked"]
      BY <1>5 DEF RecordTool, FinishTool, FinishScopeViolation, RefreshWorkspace, PlanReview,
          CheckReviewStale, CheckReview, Planned, Reply, invalidate, IInv, OperationsStand
    <2> QED
      BY <2>1, InvalidationWithdraws DEF Status, Gate!Next
  <1>6. CASE FinishVerify
    BY <1>6, Verifications DEF Gate!Next
  <1>7. CASE Planning
    <2>1. CASE AcceptPlan
      BY <2>1, Plannings DEF Gate!Next
    <2>2. CASE AcceptChecks
      BY <2>2, Bindings DEF Gate!Next
    <2>3. CASE \/ advise \/ RejectPlan \/ RejectChecks
               \/ \E p \in Plans : propose_plan(p)
               \/ \E checks \in Proofs : propose_work_checks(checks)
      BY <2>3, Stuttering
      DEF advise, RejectPlan, RejectChecks, propose_plan, propose_work_checks, proofVars
    <2> QED
      BY <1>5, <1>7, <2>1, <2>2, <2>3 DEF Planning
  <1> QED
    BY <1>1, <1>2, <1>3, <1>4, <1>5, <1>6, <1>7 DEF Next

\* The ledger delivers a project only through the gate: work is accepted only
\* after its proof, withdrawn proof takes the acceptance with it, the first plan
\* carries nothing over, and completion leaves nothing unaccepted (accept_task,
\* complete, invalidate, _apply_plan, resolve_work_check_review).
THEOREM LedgerIsGated == SharedSpec => DeliveryIsGated
  <1>1. Init => Gate!Init
    BY DEF Init, WorkSet, work_map, work_items, WorkIds, Gate!Init
  <1>2. SharedSpec => Gate!Init /\ [][Gate!Next]_(Gate!vars)
    <2>1. RInv => CandidateStands
      BY DEF RInv
    <2> QED
      BY <1>1, <2>1, GateStep, Invariance, RevisionInvariance, PTL DEF SharedSpec
  <1> QED
    BY <1>2 DEF DeliveryIsGated, Gate!Spec

=============================================================================
