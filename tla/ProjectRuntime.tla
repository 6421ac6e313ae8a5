----------------------------- MODULE ProjectRuntime -----------------------------
(***************************************************************************)
(* The run loop of project_runtime.py over the durable ledger.  ProjectLedger *)
(* says what each transaction does; this module says in which order a      *)
(* process issues them, what it pays for them, and that the process may    *)
(* die between any two of them and be started again.  Only pc is lost with *)
(* the process; the counters are fields of the ledger.                     *)
(***************************************************************************)
EXTENDS ProjectLedger

CONSTANTS
    MaxCalls,     \* max_calls
    UnitCalls,    \* unit_calls
    MaxRestarts   \* bound on the restarts of the process

ASSUME RuntimeAssumption ==
    /\ MaxCalls \in Nat \ {0}
    /\ UnitCalls \in Nat \ {0}
    /\ MaxRestarts \in Nat

VARIABLES
    pc,          \* where the process is; "stopped" if there is none
    calls,       \* model calls paid from the project budget
    unit_calls,  \* executor calls paid from the work unit
    restarts,    \* runs after the first one
    ran          \* history: the tool of the reply in the inbox has been started

budgetVars == <<calls, unit_calls>>
runVars == <<vars, pc, budgetVars, restarts, ran>>

PC == {"stopped", "loop", "reserved", "waiting", "consume", "operation", "settle"}

RunTypeOK ==
    /\ pc \in PC
    /\ calls \in 0..MaxCalls
    /\ unit_calls \in Nat
    /\ restarts \in 0..MaxRestarts
    /\ ran \in BOOLEAN

RunInit ==
    /\ Init
    /\ pc = "loop"
    /\ calls = 0 /\ unit_calls = 0 /\ restarts = 0
    /\ ran = FALSE

-----------------------------------------------------------------------------
\* run(): the lease is free, and require_recoverable finds neither an unknown
\* operation nor a tree it has not recorded.
Start ==
    /\ pc = "stopped"
    /\ restarts < MaxRestarts
    /\ status = "running"
    /\ pending = None
    /\ tree = workspace_digest
    /\ pc' = "loop"
    /\ restarts' = restarts + 1
    /\ UNCHANGED <<vars, budgetVars, ran>>

\* The loop ends with the project or with its budget.
Stop ==
    /\ pc = "loop"
    /\ status # "running" \/ (inbox = None /\ calls = MaxCalls)
    /\ pc' = "stopped"
    /\ UNCHANGED <<vars, budgetVars, restarts, ran>>

\* A reply that an earlier process left in the inbox is consumed first.
Resume ==
    /\ pc = "loop" /\ status = "running" /\ inbox # None
    /\ pc' = "consume"
    /\ UNCHANGED <<vars, budgetVars, restarts, ran>>

\* Mutant: only the executor's calls are paid.
ReserveExecutorOnly ==
    /\ pc = "loop" /\ status = "running" /\ inbox = None
    /\ calls < MaxCalls
    /\ calls' = calls + (IF NextRequest.role = "executor" THEN 1 ELSE 0)
    /\ unit_calls' = unit_calls + (IF NextRequest.role = "executor" THEN 1 ELSE 0)
    /\ pc' = "reserved"
    /\ UNCHANGED <<vars, restarts, ran>>

\* call_reserved: the call is paid before it is begun, and not given back.
Reserve ==
    /\ pc = "loop" /\ status = "running" /\ inbox = None
    /\ calls < MaxCalls
    /\ calls' = calls + 1
    /\ unit_calls' = unit_calls + (IF NextRequest.role = "executor" THEN 1 ELSE 0)
    /\ pc' = "reserved"
    /\ UNCHANGED <<vars, restarts, ran>>

Begin ==
    /\ pc = "reserved"
    /\ BeginModel
    /\ pc' = "waiting"
    /\ UNCHANGED <<budgetVars, restarts, ran>>

Return ==
    /\ pc = "waiting"
    /\ ReturnModel
    /\ pc' = "consume"
    /\ ran' = FALSE
    /\ UNCHANGED <<budgetVars, restarts>>

-----------------------------------------------------------------------------
(* _consume: one transaction, or the beginning of an operation.            *)

\* A new assignment or the continuation of one starts a new work unit.
ConsumeAssign ==
    /\ pc = "consume"
    /\ Assign
    /\ pc' = "settle"
    /\ unit_calls' = 0
    /\ UNCHANGED <<calls, restarts, ran>>

Consume ==
    /\ pc = "consume"
    /\ Judge \/ Report \/ Planning \/ SetReplyAside
    /\ pc' = "settle"
    /\ UNCHANGED <<budgetVars, restarts, ran>>

BeginOperation ==
    /\ pc = "consume"
    /\ \/ BeginTool /\ ran' = TRUE
       \/ (BeginVerify \/ BeginRead) /\ UNCHANGED ran
    /\ pc' = "operation"
    /\ UNCHANGED <<budgetVars, restarts>>

Publish ==
    /\ pc = "operation"
    /\ publish_workspace
    /\ UNCHANGED <<pc, budgetVars, restarts, ran>>

\* The receipt, the end of the operation and of the reply are one transaction;
\* only a batch of reads has its reply for longer than one operation.
FinishOperation ==
    /\ pc = "operation"
    /\ RecordTool \/ FinishVerify \/ FinishPlannerRead
    /\ pc' = IF inbox' = None THEN "settle" ELSE "consume"
    /\ UNCHANGED <<budgetVars, restarts, ran>>

-----------------------------------------------------------------------------
(* The end of an iteration: an exhausted work unit yields to Decision.     *)

\* Mutant: the unit yields one call late.
UnitOverdrawn ==
    active # None /\ control = "executor" /\ unit_calls > UnitCalls

UnitExhausted ==
    active # None /\ control = "executor" /\ unit_calls >= UnitCalls

Yield ==
    /\ pc = "settle" /\ UnitExhausted
    /\ yield_execution
    /\ pc' = "loop"
    /\ UNCHANGED <<budgetVars, restarts, ran>>

Iterate ==
    /\ pc = "settle" /\ ~UnitExhausted
    /\ pc' = "loop"
    /\ UNCHANGED <<vars, budgetVars, restarts, ran>>

\* Mutant: the dying process withdraws the intent of its operation.
InterruptAndForget ==
    /\ pc # "stopped"
    /\ pc' = "stopped"
    /\ pending' = None
    /\ UNCHANGED <<contractVars, proofVars, workerVars, plannerVars, inbox, failures,
                   workspace_digest, diskVars, status, budgetVars, restarts, ran>>

\* The process dies, meets its wall-clock deadline, or leaves the loop on an
\* error: the ledger stays as the last transaction left it.
Interrupt ==
    /\ pc # "stopped"
    /\ pc' = "stopped"
    /\ UNCHANGED <<vars, budgetVars, restarts, ran>>

Work ==
    \/ Stop \/ Resume \/ Reserve \/ Begin \/ Return
    \/ ConsumeAssign \/ Consume \/ BeginOperation \/ Publish \/ FinishOperation
    \/ Yield \/ Iterate

RunNext == Work \/ Start \/ Interrupt

\* The process keeps running while it can: every wait of the loop ends, a model
\* call at the latest with the wall-clock deadline.  Nobody has to restart it.
RunSpec == RunInit /\ [][RunNext]_runVars /\ WF_runVars(Work)

-----------------------------------------------------------------------------
\* A tree that no receipt speaks of is what a tool of the present assignment published.
\* Its intent stays on record with the reply that asked for it, and until the receipt is
\* written no process asks, judges or verifies anything, or starts to.
UnrecordedTreesAreClaimed ==
    tree # workspace_digest =>
        /\ pending # None /\ pending.kind = "tool" /\ transaction = "published"
        /\ active # None /\ active.task_id = pending.task_id
        /\ inbox # None /\ inbox.role = "executor" /\ ran
        /\ status = "running"
        /\ pc \in {"operation", "stopped"}

\* A reply starts its tool at most once, however often the process dies.
ToolStartsOnce ==
    [][pending = None /\ pending' # None /\ pending'.kind = "tool" => ~ran]_runVars

\* The work unit is exceeded by at most one call for each restart: the boundary
\* at which it should have yielded is forgotten with the process.
UnitOverrunIsBounded == unit_calls <= UnitCalls + restarts

\* Every run ends, whatever the roles answer.
RunsEnd == pc # "stopped" ~> pc = "stopped"

=============================================================================
