------------------------- MODULE ProjectRuntimeProofs --------------------------
(***************************************************************************)
(* The run loop issues only transactions of the ledger, so that what is    *)
(* proved of the ledger holds of every run; and, for any budgets and any   *)
(* number of restarts, it starts a tool once, never loses the operation    *)
(* that a changed tree comes from, and keeps to its budgets.               *)
(***************************************************************************)
EXTENDS ProjectRuntime, ProjectLedgerProofs

-----------------------------------------------------------------------------
(* The run loop implements the ledger.                                     *)

LEMMA RunStep ==
    ASSUME [RunNext]_runVars
    PROVE  [Next]_vars
  <1>1. CASE Stop \/ Resume \/ Reserve \/ Iterate \/ Start \/ Interrupt \/ UNCHANGED runVars
    BY <1>1 DEF Stop, Resume, Reserve, Iterate, Start, Interrupt, runVars
  <1>2. CASE Begin \/ Return \/ ConsumeAssign \/ Consume
    BY <1>2 DEF Begin, Return, ConsumeAssign, Consume, Next
  <1>3. CASE BeginOperation \/ Publish \/ FinishOperation \/ Yield
    BY <1>3 DEF BeginOperation, Publish, FinishOperation, Yield, Next
  <1> QED
    BY <1>1, <1>2, <1>3 DEF RunNext, Work

\* What is proved of the ledger holds of its runs (run, _consume).
LEMMA RunsTheLedger == RunSpec => Spec
  <1>1. RunInit => Init
    BY DEF RunInit
  <1>2. RunSpec => RunInit /\ [][RunNext]_runVars
    BY PTL DEF RunSpec
  <1> QED
    BY <1>1, <1>2, RunStep, PTL DEF Spec

\* No run completes a project whose work is not all proven and accepted.
THEOREM RunsCompleteProvenWork == RunSpec => [](AcceptedWorkIsProven /\ CompletedIsProven)
  BY RunsTheLedger, SpecIsShared, AcceptanceIsProven, CompletionIsProven, PTL

\* What the ledger promises is promised of every run: delivery is gated by proof, revisions
\* void proof and never weaken a check, and whoever decides has a direction to choose.
THEOREM RunsKeepThePromises ==
    RunSpec => /\ DeliveryIsGated /\ RevisionsVoidProof /\ ChecksAreNotWeakened
               /\ [](AssignmentsStand /\ ChecksKeepTheirIdentity /\ ReceiptsAreCurrent /\ DecisionIsNeverStuck)
  BY RunsTheLedger, SpecIsShared, LedgerIsGated, RevisionsAlwaysVoidProof, ChecksLeaveOnlyAfterFailure,
     AssignmentsAlwaysStand, ChecksAlwaysKeepTheirIdentity, ReceiptsCurrent, DecisionAlwaysHasADirection, PTL

-----------------------------------------------------------------------------
(* Unknown operations.                                                     *)

ToolPending == pending # None /\ pending.kind = "tool"

\* Who carries the operation of a tool, from its intent to its receipt.
ToolsAreCarried ==
    ToolPending =>
        /\ active # None /\ active.task_id = pending.task_id
        /\ inbox # None /\ inbox.role = "executor" /\ ran
        /\ status = "running"
        /\ pc \in {"operation", "stopped"}

\* A tree is unrecorded only while its tool is pending.
TreesAreTools == tree # workspace_digest => ToolPending /\ transaction = "published"

LEMMA TreesStep ==
    ASSUME TypeOK, ToolsAreCarried, TreesAreTools, [RunNext]_runVars
    PROVE  (ToolsAreCarried /\ TreesAreTools)'
  <1> USE DEF ToolPending, ToolsAreCarried, TreesAreTools
  <1>1. CASE Stop \/ Resume \/ Reserve \/ Iterate \/ Start \/ Interrupt \/ UNCHANGED runVars
    <2>1. UNCHANGED <<pending, inbox, active, status, tree, workspace_digest, transaction, ran>>
      BY <1>1 DEF Stop, Resume, Reserve, Iterate, Start, Interrupt, runVars, vars, workerVars, diskVars
    <2>2. pc' = pc \/ pc' = "stopped" \/ ~ToolPending
      BY <1>1 DEF Stop, Resume, Reserve, Iterate, Start, Interrupt, runVars
    <2> QED BY <2>1, <2>2
  <1>2. CASE Begin
    <2>1. pending = None /\ UNCHANGED <<tree, workspace_digest>> /\ pending' = Op("model", None, NextRequest)
      BY <1>2 DEF Begin, BeginModel, diskVars
    <2> QED BY <2>1 DEF Op
  <1>3. CASE Return
    <2>1. pending.kind = "model" /\ UNCHANGED <<tree, workspace_digest>> /\ pending' = None
      BY <1>3 DEF Return, ReturnModel, diskVars
    <2> QED BY <2>1
  <1>4. CASE ConsumeAssign \/ Consume \/ Yield
    <2> DEFINE Confirms == /\ pending = None /\ pending' = None /\ tree' = tree
                           /\ workspace_digest' \in {workspace_digest, tree}
    <2>1. ASSUME ConsumeAssign PROVE Confirms
      BY <2>1 DEF ConsumeAssign, Assign, delegate, continue_current, Decided, Reply, invalidate, diskVars
    <2>2. ASSUME Judge PROVE Confirms
      BY <2>2 DEF Judge, accept_task, bind_checks, complete, block, help, replan, Decided, Reply, invalidate, diskVars
    <2>3. ASSUME Report \/ SetReplyAside \/ yield_execution PROVE Confirms
      BY <2>3 DEF Report, report_work, SetReplyAside, yield_execution, Reply, diskVars
    <2>4. ASSUME Planning PROVE Confirms
      <3>1. (advise \/ \E p \in Plans : propose_plan(p)) \/ RejectPlan \/ RejectChecks => Confirms
        BY DEF advise, propose_plan, RejectPlan, RejectChecks, PlanReview, CheckReview, Planned, Reply, diskVars
      <3> QED
        BY <2>4, <3>1 DEF Planning, AcceptPlan, RefreshWorkspace, propose_work_checks, CheckReviewStale,
            AcceptChecks, PlanReview, CheckReview, Planned, Reply, invalidate, diskVars
    <2>5. Confirms
      BY <1>4, <2>1, <2>2, <2>3, <2>4 DEF Consume, Yield
    <2> QED BY <2>5
  <1>5. CASE BeginOperation
    <2>1. tree = workspace_digest /\ UNCHANGED <<tree, workspace_digest>>
      BY <1>5 DEF BeginOperation, BeginTool, BeginVerify, BeginVerification, Decided, BeginRead,
          BeginPlannerRead, diskVars
    <2>2. CASE BeginTool /\ ran' = TRUE
      <3>1. pending' = Op("tool", active.task_id, None)
        BY <2>2 DEF BeginTool
      <3>2. /\ active' = active /\ inbox' = inbox /\ status' = status /\ pc' = "operation"
            /\ active # None /\ inbox # None /\ inbox.role = "executor" /\ status = "running"
        BY <1>5, <2>2 DEF BeginOperation, BeginTool, Reply, workerVars
      <3> QED BY <2>1, <2>2, <3>1, <3>2 DEF Op
    <2>3. CASE BeginVerify \/ BeginRead
      <3>1. BeginVerify => pending'.kind = "verification"
        BY DEF BeginVerify, BeginVerification, Op
      <3>2. BeginRead => pending'.kind = "planner_read"
        BY DEF BeginRead, BeginPlannerRead, Op
      <3> QED BY <2>1, <2>3, <3>1, <3>2
    <2> QED BY <1>5, <2>2, <2>3 DEF BeginOperation
  <1>6. CASE Publish
    BY <1>6 DEF Publish, publish_workspace, workerVars
  <1>7. CASE FinishOperation
    <2>1. CASE RecordTool
      <3>1. tree' = tree /\ workspace_digest' = tree /\ pending' = None
        BY <2>1 DEF RecordTool, FinishTool, FinishScopeViolation, invalidate
      <3> QED BY <3>1
    <2>2. CASE FinishVerify \/ FinishPlannerRead
      <3>1. /\ ~ToolPending /\ tree' = tree /\ pending' = None
            /\ workspace_digest' \in {tree, workspace_digest}
        BY <2>2 DEF FinishVerify, finish_verification, FinishPlannerRead, diskVars
      <3> QED BY <3>1
    <2> QED BY <1>7, <2>1, <2>2 DEF FinishOperation
  <1> QED
    BY <1>1, <1>2, <1>3, <1>4, <1>5, <1>6, <1>7 DEF RunNext, Work

\* Wherever the process dies, a tree that was exchanged and has no receipt is still the
\* one of the pending operation, and nothing else is done on it (_tool,
\* publish_workspace, require_recoverable).
THEOREM UnrecordedTreesStayClaimed == RunSpec => []UnrecordedTreesAreClaimed
  <1>1. RunInit => ToolsAreCarried /\ TreesAreTools
    BY DEF RunInit, Init, ToolPending, ToolsAreCarried, TreesAreTools
  <1>2. ToolsAreCarried /\ TreesAreTools => UnrecordedTreesAreClaimed
    BY DEF ToolPending, ToolsAreCarried, TreesAreTools, UnrecordedTreesAreClaimed
  <1>3. RunSpec => RunInit /\ [][RunNext]_runVars
    BY PTL DEF RunSpec
  <1>4. RunSpec => []TypeOK
    BY RunsTheLedger, SpecIsShared, TypeCorrect, PTL
  <1> QED
    BY <1>1, <1>2, <1>3, <1>4, TreesStep, PTL

-----------------------------------------------------------------------------
(* Tools start once.                                                       *)

\* The reply whose tool was started is with that tool or gone.
StartedIsSpent ==
    ran => \/ pending # None /\ pending.kind = "tool"
           \/ inbox = None /\ (pending # None => pending.kind = "model")

\* A transaction that neither begins nor ends a tool, a verification or a read,
\* and returns no reply.
LEMMA PlainStep ==
    ASSUME StartedIsSpent, pending' = pending, inbox' \in {inbox, None},
           ran' = ran, pending = None
    PROVE  StartedIsSpent'
  BY DEF StartedIsSpent

LEMMA SpentStep ==
    ASSUME TypeOK, StartedIsSpent, [RunNext]_runVars
    PROVE  StartedIsSpent'
  <1>1. CASE Stop \/ Resume \/ Reserve \/ Iterate \/ Start \/ Interrupt \/ UNCHANGED runVars
    BY <1>1 DEF Stop, Resume, Reserve, Iterate, Start, Interrupt, runVars, vars, StartedIsSpent
  <1>2. CASE Begin \/ Return
    BY <1>2 DEF Begin, BeginModel, Op, Return, ReturnModel, StartedIsSpent
  <1>3. CASE ConsumeAssign \/ Consume \/ Yield
    <2>1. pending = None /\ pending' = pending /\ inbox' \in {inbox, None} /\ ran' = ran
      BY <1>3
      DEF ConsumeAssign, Consume, Yield, Assign, delegate, continue_current, Judge, accept_task,
          bind_checks, complete, block, help, replan, Report, report_work, yield_execution,
          Planning, advise, propose_plan, AcceptPlan, RejectPlan, RefreshWorkspace,
          propose_work_checks, CheckReviewStale, RejectChecks, AcceptChecks, SetReplyAside,
          PlanReview, CheckReview, Planned, Decided, Reply
    <2> QED
      BY <2>1, PlainStep
  <1>4. CASE BeginOperation
    <2>1. CASE BeginTool /\ ran' = TRUE
      <3>1. active \in Assignment /\ workspace_digest \in Trees
        BY <2>1 DEF BeginTool, TypeOK, Some
      <3>2. pending' = Op("tool", active.task_id, None)
        BY <2>1 DEF BeginTool
      <3>3. pending' \in WorkOperation
        BY <3>1, <3>2 DEF Op, WorkOperation, Assignment
      <3> QED
        BY <3>2, <3>3, NoneAssumption DEF Op, StartedIsSpent
    <2>2. CASE (BeginVerify \/ BeginRead) /\ UNCHANGED ran
      <3>1. pending = None /\ inbox # None
        BY <2>2
        DEF BeginVerify, BeginVerification, Decided, Reply, BeginRead, BeginPlannerRead
      <3> QED
        BY <2>2, <3>1 DEF StartedIsSpent
    <2> QED
      BY <1>4, <2>1, <2>2 DEF BeginOperation
  <1>5. CASE Publish
    BY <1>5 DEF Publish, publish_workspace, StartedIsSpent
  <1>6. CASE FinishOperation
    BY <1>6 DEF FinishOperation, RecordTool, FinishTool, FinishScopeViolation, FinishVerify,
        finish_verification, FinishPlannerRead, StartedIsSpent
  <1> QED
    BY <1>1, <1>2, <1>3, <1>4, <1>5, <1>6 DEF RunNext, Work

\* Only a reply that was not spent starts a tool.
LEMMA ToolStep ==
    ASSUME StartedIsSpent, [RunNext]_runVars,
           pending = None, pending' # None, pending'.kind = "tool"
    PROVE  ~ran
  <1>1. BeginTool
    <2>1. ~(Stop \/ Resume \/ Reserve \/ Iterate \/ Start \/ Interrupt \/ UNCHANGED runVars)
      BY DEF Stop, Resume, Reserve, Iterate, Start, Interrupt, runVars, vars
    <2>2. ~(Begin \/ Return \/ Publish \/ FinishOperation)
      BY DEF Begin, BeginModel, Op, Return, ReturnModel, Publish, publish_workspace,
          FinishOperation, RecordTool, FinishTool, FinishScopeViolation, FinishVerify,
          finish_verification, FinishPlannerRead
    <2>3. ~(ConsumeAssign \/ Consume \/ Yield)
      BY DEF ConsumeAssign, Consume, Yield, Assign, delegate, continue_current, Judge,
          accept_task, bind_checks, complete, block, help, replan, Report, report_work,
          yield_execution, Planning, advise, propose_plan, AcceptPlan, RejectPlan,
          RefreshWorkspace, propose_work_checks, CheckReviewStale, RejectChecks, AcceptChecks,
          SetReplyAside
    <2>4. BeginVerify => pending'.kind = "verification"
      BY DEF BeginVerify, BeginVerification, Op
    <2>5. BeginRead => pending'.kind = "planner_read"
      BY DEF BeginRead, BeginPlannerRead, Op
    <2> QED
      BY <2>1, <2>2, <2>3, <2>4, <2>5 DEF RunNext, Work, BeginOperation
  <1> QED
    BY <1>1 DEF BeginTool, Reply, StartedIsSpent

\* However often the process dies, a reply starts its tool at most once
\* (begin_operation, finish_operation).
THEOREM ToolsStartOnce == RunSpec => ToolStartsOnce
  <1>1. RunInit => StartedIsSpent
    BY DEF RunInit, StartedIsSpent
  <1>2. StartedIsSpent /\ [RunNext]_runVars
            => [pending = None /\ pending' # None /\ pending'.kind = "tool" => ~ran]_runVars
    BY ToolStep
  <1>3. RunSpec => RunInit /\ [][RunNext]_runVars
    BY PTL DEF RunSpec
  <1>4. RunSpec => []TypeOK
    BY RunsTheLedger, SpecIsShared, TypeCorrect, PTL
  <1> QED
    BY <1>1, <1>2, <1>3, <1>4, SpentStep, PTL DEF ToolStartsOnce

-----------------------------------------------------------------------------
(* Budgets.                                                                *)

\* Only at the beginning of an iteration may an executor be called, and only
\* a restart brings an exhausted unit there.
UnitHasRoom ==
    /\ RunTypeOK
    /\ UnitOverrunIsBounded
    /\ (pc = "loop" /\ active # None /\ control = "executor") => unit_calls < UnitCalls + restarts

LEMMA UnitStep ==
    ASSUME UnitHasRoom, [RunNext]_runVars
    PROVE  UnitHasRoom'
  <1> USE RuntimeAssumption DEF UnitHasRoom, UnitOverrunIsBounded, RunTypeOK, PC
  <1>1. CASE Reserve
    <2>1. NextRequest.role = "executor" => active # None /\ control = "executor"
      BY DEF NextRequest, Request
    <2>2. /\ pc = "loop" /\ pc' = "reserved" /\ calls < MaxCalls /\ calls' = calls + 1
          /\ unit_calls' = unit_calls + (IF NextRequest.role = "executor" THEN 1 ELSE 0)
          /\ restarts' = restarts /\ ran' = ran
      BY <1>1 DEF Reserve
    <2> QED
      BY <2>1, <2>2
  <1>2. CASE Start
    BY <1>2 DEF Start, budgetVars
  <1>3. CASE Yield
    BY <1>3 DEF Yield, yield_execution, budgetVars
  <1>4. CASE Iterate
    BY <1>4 DEF Iterate, UnitExhausted, budgetVars, vars, workerVars
  <1>5. CASE ConsumeAssign
    BY <1>5 DEF ConsumeAssign
  <1>6. CASE Stop \/ Resume \/ Begin \/ Return \/ Consume \/ BeginOperation \/ Publish
             \/ FinishOperation \/ Interrupt
    <2>1. /\ pc' \in PC \ {"loop"} /\ ran' \in BOOLEAN
          /\ calls' = calls /\ unit_calls' = unit_calls /\ restarts' = restarts
      BY <1>6 DEF Stop, Resume, Begin, Return, Consume, BeginOperation, Publish, FinishOperation,
          Interrupt, budgetVars
    <2> QED
      BY <2>1
  <1>7. CASE UNCHANGED runVars
    BY <1>7 DEF runVars, budgetVars, vars, workerVars
  <1> QED
    BY <1>1, <1>2, <1>3, <1>4, <1>5, <1>6, <1>7 DEF RunNext, Work

\* The call budget is never exceeded, a work unit by at most one call for each
\* restart (call_reserved, the end of an iteration of run).
THEOREM BudgetsHold == RunSpec => [](RunTypeOK /\ UnitOverrunIsBounded)
  <1>1. RunInit => UnitHasRoom
    <2>1. Init => active = None
      BY DEF Init
    <2>2. MaxCalls \in Nat /\ UnitCalls \in Nat /\ MaxRestarts \in Nat
      BY RuntimeAssumption
    <2>3. RunInit => RunTypeOK
      <3>1. RunInit => ran \in BOOLEAN
        BY Zenon DEF RunInit
      <3>2. RunInit => /\ pc \in PC /\ calls \in 0..MaxCalls /\ unit_calls \in Nat
                       /\ restarts \in 0..MaxRestarts
        BY <2>2 DEF RunInit, PC
      <3> QED
        BY <3>1, <3>2 DEF RunTypeOK
    <2>4. RunInit => UnitOverrunIsBounded
      BY <2>2 DEF RunInit, UnitOverrunIsBounded
    <2> QED
      BY <2>1, <2>3, <2>4 DEF RunInit, UnitHasRoom
  <1>2. UnitHasRoom => RunTypeOK /\ UnitOverrunIsBounded
    BY DEF UnitHasRoom
  <1>3. RunSpec => RunInit /\ [][RunNext]_runVars
    BY PTL DEF RunSpec
  <1> QED
    BY <1>1, <1>2, <1>3, UnitStep, PTL

-----------------------------------------------------------------------------
(* What is left of a run, the most significant part first.                 *)

CallsLeft == MaxCalls - calls

\* A reply that is left in the inbox is consumed before another call is paid.
Stage ==
    IF pc = "loop" THEN (IF inbox = None THEN 1 ELSE 4)
    ELSE [stopped |-> 0, settle |-> 2, consume |-> 3, operation |-> 3, waiting |-> 4, reserved |-> 5][pc]

\* A batch of reads goes back and forth between its reply and its operations.
ReadsLeft ==
    IF pending # None /\ pending.kind = "planner_read" THEN (MaxReads + 1) - pending.request.reads
    ELSE IF inbox # None THEN MaxReads - inbox.reads
    ELSE 0

Place == IF pc = "operation" THEN (IF transaction = "published" THEN 0 ELSE 1) ELSE 2

RunsAreBounded == CallsLeft \in Nat /\ Stage \in 0..5 /\ ReadsLeft \in Nat /\ Place \in 0..2

LessIsLeft ==
    \/ CallsLeft' < CallsLeft
    \/ CallsLeft' = CallsLeft /\ Stage' < Stage
    \/ CallsLeft' = CallsLeft /\ Stage' = Stage /\ ReadsLeft' < ReadsLeft
    \/ CallsLeft' = CallsLeft /\ Stage' = Stage /\ ReadsLeft' = ReadsLeft /\ Place' < Place

\* Whatever the roles answer, each step leaves less of a run.
StepsAreBounded == [][Work => LessIsLeft]_runVars

\* A reply with a batch has read less than the batch asks for.
Batched(x) ==
    /\ {"reads", "batch"} \subseteq DOMAIN x
    /\ x.batch \in 0..MaxReads /\ x.reads \in 0..MaxReads
    /\ x.reads = 0 \/ x.reads < x.batch

ReadInv ==
    /\ inbox # None => Batched(inbox)
    /\ pending # None /\ pending.kind = "model" => Batched(pending.request)
    /\ pending # None /\ pending.kind = "planner_read" =>
          /\ {"reads", "batch"} \subseteq DOMAIN pending.request
          /\ pending.request.batch \in 1..MaxReads
          /\ pending.request.reads \in 1..pending.request.batch

\* At the end of an iteration the reply is spent.
SettledInv == pc = "settle" => inbox = None

\* Whatever ends the consumption of a reply, or the operation it asked for, spends it; only
\* a batch of reads is resumed.
LEMMA RepliesAreSpent ==
    ASSUME SetReplyAside \/ Assign \/ Judge \/ Report \/ RecordTool \/ FinishVerify \/ Planning
    PROVE  inbox' = None /\ pending' = None
  BY DEF SetReplyAside, Assign, delegate, continue_current, Judge, accept_task, bind_checks,
      complete, block, help, replan, Report, report_work, RecordTool, FinishTool,
      FinishScopeViolation, FinishVerify, finish_verification, Planning, advise,
      propose_plan, AcceptPlan, RejectPlan, RefreshWorkspace, propose_work_checks,
      CheckReviewStale, RejectChecks, AcceptChecks, PlanReview, CheckReview, Planned,
      Decided, Reply

LEMMA ReadStep ==
    ASSUME ReadInv, [Next]_vars
    PROVE  ReadInv'
  <1>0. MaxReads \in Nat
    BY LedgerAssumption
  <1>1. CASE BeginModel
    <2>1. /\ pending' = Op("model", None, NextRequest) /\ inbox = None /\ inbox' = None
      BY <1>1 DEF BeginModel
    <2>2. Batched(NextRequest)
      BY <1>0 DEF NextRequest, Request, Batched
    <2> QED
      BY <2>1, <2>2 DEF ReadInv, Op, Batched
  <1>2. CASE ReturnModel
    <2>1. Batched(pending.request)
      BY <1>2 DEF ReturnModel, ReadInv
    <2> QED
      BY <1>2, <2>1 DEF ReturnModel, ReadInv, Batched
  <1>3. CASE BeginRead
    <2>1. PICK batch \in 1..MaxReads : BeginPlannerRead(batch)
      BY <1>3 DEF BeginRead
    <2> DEFINE r == [inbox EXCEPT !.batch = batch, !.reads = @ + 1]
    <2> DEFINE i == [inbox EXCEPT !.batch = batch]
    <2>2. /\ inbox # None /\ inbox.batch \in {0, batch}
          /\ pending' = Op("planner_read", None, r) /\ inbox' = i
      BY <2>1 DEF BeginPlannerRead
    <2>3. Batched(inbox)
      BY <2>2 DEF ReadInv
    <2>4. /\ {"reads", "batch"} \subseteq DOMAIN r /\ r.batch = batch /\ r.reads = inbox.reads + 1
          /\ {"reads", "batch"} \subseteq DOMAIN i /\ i.batch = batch /\ i.reads = inbox.reads
      BY <2>3 DEF Batched
    <2>5. inbox.reads \in 0..MaxReads /\ inbox.reads < batch
      BY <1>0, <2>2, <2>3 DEF Batched
    <2>6. Batched(i) /\ r.reads \in 1..batch
      BY <1>0, <2>4, <2>5 DEF Batched
    <2>7. pending'.kind = "planner_read" /\ pending'.request = r
      BY <2>2 DEF Op
    <2> HIDE DEF r, i
    <2> QED
      BY <2>2, <2>4, <2>6, <2>7 DEF ReadInv, Batched
  <1>4. CASE FinishPlannerRead
    <2>1. /\ pending # None /\ pending.kind = "planner_read" /\ pending' = None
          /\ inbox' = IF pending.request.reads = pending.request.batch THEN None ELSE pending.request
      BY <1>4 DEF FinishPlannerRead
    <2>2. pending.request.reads # pending.request.batch => Batched(pending.request)
      BY <1>0, <2>1 DEF ReadInv, Batched
    <2> QED
      BY <2>1, <2>2 DEF ReadInv, Batched
  <1>5. CASE BeginTool \/ BeginVerify
    <2>1. pending'.kind \in {"tool", "verification"} /\ inbox' = inbox
      BY <1>5 DEF BeginTool, BeginVerify, BeginVerification, Op
    <2> QED
      BY <2>1 DEF ReadInv, Batched
  <1>6. CASE \/ SetReplyAside \/ Assign \/ Judge \/ Report \/ RecordTool \/ FinishVerify \/ Planning
    <2>1. inbox' = None /\ pending' = None
      BY <1>6, RepliesAreSpent
    <2> QED
      BY <2>1 DEF ReadInv
  <1>7. CASE yield_execution \/ publish_workspace \/ UNCHANGED vars
    <2>1. pending' = pending /\ inbox' = inbox
      BY <1>7 DEF yield_execution, publish_workspace, vars
    <2> QED
      BY <2>1 DEF ReadInv, Batched
  <1> QED
    BY <1>1, <1>2, <1>3, <1>4, <1>5, <1>6, <1>7 DEF Next

LEMMA SettledStep ==
    ASSUME SettledInv, [RunNext]_runVars
    PROVE  SettledInv'
  <1>1. CASE UNCHANGED runVars
    BY <1>1 DEF runVars, vars, SettledInv
  <1>2. CASE ConsumeAssign \/ Consume
    BY <1>2, RepliesAreSpent DEF ConsumeAssign, Consume, SettledInv
  <1>3. CASE FinishOperation
    BY <1>3 DEF FinishOperation, SettledInv
  <1>4. CASE Stop \/ Resume \/ Reserve \/ Begin \/ Return \/ BeginOperation \/ Yield \/ Iterate \/ Start \/ Interrupt
    BY <1>4 DEF Stop, Resume, Reserve, Begin, Return, BeginOperation, Yield, Iterate, Start, Interrupt, SettledInv
  <1>5. CASE Publish
    BY <1>5 DEF Publish, SettledInv
  <1> QED
    BY <1>1, <1>2, <1>3, <1>4, <1>5 DEF RunNext, Work

LEMMA WorkStep ==
    ASSUME RunTypeOK, ReadInv, SettledInv, Work
    PROVE  LessIsLeft
  <1>0. /\ MaxReads \in Nat /\ MaxCalls \in Nat /\ calls \in 0..MaxCalls
    BY LedgerAssumption, RuntimeAssumption DEF RunTypeOK
  <1>1. ASSUME calls' = calls, Stage' < Stage
        PROVE  LessIsLeft
    BY <1>1 DEF LessIsLeft, CallsLeft
  <1>2. CASE Reserve
    BY <1>0, <1>2 DEF Reserve, LessIsLeft, CallsLeft
  <1>3. CASE Stop \/ Resume \/ Begin \/ Return
    <2>1. /\ calls' = calls /\ inbox = inbox
          /\ \/ pc = "loop" /\ pc' = "stopped"
             \/ pc = "loop" /\ inbox # None /\ pc' = "consume"
             \/ pc = "reserved" /\ pc' = "waiting"
             \/ pc = "waiting" /\ pc' = "consume"
      BY <1>3 DEF Stop, Resume, Begin, Return, budgetVars
    <2>2. Stage' < Stage
      BY <2>1 DEF Stage
    <2> QED
      BY <1>1, <2>1, <2>2
  <1>4. CASE ConsumeAssign \/ Consume
    <2>1. calls' = calls /\ pc = "consume" /\ pc' = "settle"
      BY <1>4 DEF ConsumeAssign, Consume, budgetVars
    <2>2. Stage' < Stage
      BY <2>1 DEF Stage
    <2> QED
      BY <1>1, <2>1, <2>2
  <1>5. CASE Yield \/ Iterate
    <2>1. calls' = calls /\ pc = "settle" /\ pc' = "loop" /\ inbox' = inbox
      BY <1>5 DEF Yield, yield_execution, Iterate, budgetVars, vars
    <2>2. Stage' < Stage
      BY <2>1 DEF Stage, SettledInv
    <2> QED
      BY <1>1, <2>1, <2>2
  <1>6. CASE BeginOperation
    <2>1. calls' = calls /\ pc = "consume" /\ pc' = "operation" /\ pending = None /\ inbox # None
      BY <1>6 DEF BeginOperation, BeginTool, BeginVerify, BeginVerification, Decided, BeginRead, BeginPlannerRead, Reply,
          budgetVars
    <2>2. Stage' = Stage /\ CallsLeft' = CallsLeft /\ Place' < Place
      BY <2>1 DEF Stage, CallsLeft, Place
    <2>3. Batched(inbox) /\ ReadsLeft = MaxReads - inbox.reads
      BY <2>1 DEF ReadInv, ReadsLeft
    <2>4. inbox.reads \in 0..MaxReads
      BY <2>3 DEF Batched
    <2>5. CASE BeginTool \/ BeginVerify
      <3>1. pending'.kind \in {"tool", "verification"} /\ inbox' = inbox
        BY <2>5 DEF BeginTool, BeginVerify, BeginVerification, Op
      <3>2. ReadsLeft' = ReadsLeft
        BY <2>1, <2>3, <3>1 DEF ReadsLeft
      <3> QED
        BY <2>2, <3>2 DEF LessIsLeft
    <2>6. CASE BeginRead
      <3>1. PICK batch \in 1..MaxReads : BeginPlannerRead(batch)
        BY <2>6 DEF BeginRead
      <3>2. /\ pending'.kind = "planner_read"
            /\ pending'.request = [inbox EXCEPT !.batch = batch, !.reads = @ + 1]
            /\ inbox' = [inbox EXCEPT !.batch = batch]
        BY <3>1 DEF BeginPlannerRead, Op
      <3>3. pending'.request.reads = inbox.reads + 1 /\ inbox'.reads = inbox.reads
        BY <2>3, <3>2 DEF Batched
      <3>4. \/ ReadsLeft' = (MaxReads + 1) - pending'.request.reads
            \/ ReadsLeft' = MaxReads - inbox'.reads
            \/ ReadsLeft' = 0
        BY DEF ReadsLeft
      <3>5. ReadsLeft' < ReadsLeft \/ ReadsLeft' = ReadsLeft
        BY <1>0, <2>3, <2>4, <3>3, <3>4
      <3> QED
        BY <2>2, <3>5 DEF LessIsLeft
    <2> QED
      BY <1>6, <2>5, <2>6 DEF BeginOperation
  <1>7. CASE Publish
    <2>1. /\ calls' = calls /\ pc = "operation" /\ pc' = pc /\ UNCHANGED <<pending, inbox>>
          /\ transaction = "open" /\ transaction' = "published"
      BY <1>7 DEF Publish, publish_workspace, budgetVars
    <2> QED
      BY <2>1 DEF LessIsLeft, CallsLeft, Stage, ReadsLeft, Place
  <1>8. CASE FinishOperation
    <2>1. calls' = calls /\ pc = "operation" /\ pc' = IF inbox' = None THEN "settle" ELSE "consume"
      BY <1>8 DEF FinishOperation, budgetVars
    <2>2. CASE inbox' = None
      <3>1. Stage' < Stage
        BY <2>1, <2>2 DEF Stage
      <3> QED
        BY <1>1, <2>1, <3>1
    <2>3. CASE inbox' # None
      <3>1. FinishPlannerRead
        BY <1>8, <2>3, RepliesAreSpent DEF FinishOperation
      <3>2. /\ pending # None /\ pending.kind = "planner_read" /\ inbox' = pending.request /\ pending' = None
        BY <2>3, <3>1 DEF FinishPlannerRead
      <3>3. pending.request.reads \in Nat
        BY <1>0, <3>2 DEF ReadInv
      <3>4. ReadsLeft' < ReadsLeft
        BY <1>0, <2>3, <3>2, <3>3 DEF ReadsLeft
      <3>5. Stage' = Stage /\ CallsLeft' = CallsLeft
        BY <2>1, <2>3 DEF Stage, CallsLeft
      <3> QED
        BY <3>4, <3>5 DEF LessIsLeft
    <2> QED
      BY <2>2, <2>3
  <1> QED
    BY <1>2, <1>3, <1>4, <1>5, <1>6, <1>7, <1>8 DEF Work

LEMMA RunInvariants == RunSpec => [](RunTypeOK /\ ReadInv /\ SettledInv)
  <1>1. RunInit => ReadInv /\ SettledInv
    BY DEF RunInit, Init, ReadInv, SettledInv
  <1>2. RunSpec => RunInit /\ [][RunNext]_runVars
    BY PTL DEF RunSpec
  <1> QED
    BY <1>1, <1>2, RunStep, ReadStep, SettledStep, BudgetsHold, PTL

\* Whatever the roles answer, no run goes on for ever: each step of the loop leaves less of
\* it, in an order without infinite descent (max_calls, the reads of a batch, the loop of run).
THEOREM RunsStayBounded == RunSpec => []RunsAreBounded /\ StepsAreBounded
  <1>1. ASSUME RunTypeOK, ReadInv
        PROVE  RunsAreBounded
    <2>1. MaxReads \in Nat /\ MaxCalls \in Nat
      BY LedgerAssumption, RuntimeAssumption
    <2>2. CallsLeft \in Nat
      BY <1>1, <2>1 DEF RunTypeOK, CallsLeft
    <2>3. Stage \in 0..5 /\ Place \in 0..2
      BY <1>1 DEF RunTypeOK, PC, Stage, Place
    <2>4. ReadsLeft \in Nat
      <3>1. CASE pending # None /\ pending.kind = "planner_read"
        <4>1. pending.request.batch \in 1..MaxReads /\ pending.request.reads \in 1..pending.request.batch
          BY <1>1, <3>1 DEF ReadInv
        <4> QED
          BY <2>1, <3>1, <4>1 DEF ReadsLeft
      <3>2. CASE ~(pending # None /\ pending.kind = "planner_read")
        BY <1>1, <2>1, <3>2 DEF ReadInv, Batched, ReadsLeft
      <3> QED
        BY <3>1, <3>2
    <2> QED
      BY <2>2, <2>3, <2>4 DEF RunsAreBounded
  <1>2. RunTypeOK /\ ReadInv /\ SettledInv /\ [RunNext]_runVars => [Work => LessIsLeft]_runVars
    BY WorkStep
  <1>3. RunSpec => RunInit /\ [][RunNext]_runVars
    BY PTL DEF RunSpec
  <1> QED
    BY <1>1, <1>2, <1>3, RunInvariants, PTL DEF StepsAreBounded

=============================================================================
