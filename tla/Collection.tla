------------------------------- MODULE Collection -------------------------------
(***************************************************************************)
(* Collection of task executions: a campaign admits reviewed batches        *)
(* (collection_campaign.py, run_collection_campaign.py), a runner dispatches *)
(* the rows of the batch's queue to worker processes (collection_queue.py,   *)
(* collection_execution.py), and a worker leaves receipts on disk and        *)
(* retires the State of its run (collection_retirement.py).  The processes   *)
(* are killed; a worker may outlive the runner that started it.              *)
(***************************************************************************)
EXTENDS Naturals, FiniteSets, Sequences, SequencesExt

CONSTANTS
    Items,          \* source_ids of tasks
    Batches,        \* batch manifests a reviewer may put into ready/
    Inventory,      \* the tasks of each batch, in the order of its file
    target_tasks,   \* the registered number of tasks
    concurrency,    \* worker slots
    failure_limit,  \* runs in a row without a complete trace that stop a queue
    MaxRestarts,    \* bound on operators starting something again
    None            \* no batch, no result, no receipt

\* What a result says: whether every model call of the run is in its trace, whether its
\* artifact was looked at, and what became of its State.
Results == [trace : BOOLEAN, acceptance : {"pending", "evaluated"},
            retirement : {"none", "released", "failed"}]

ASSUME CollectionAssumption ==
    /\ Inventory \in [Batches -> Seq(Items)]
    /\ \A b \in Batches : Inventory[b] # <<>> /\ IsInjective(Inventory[b])
    /\ concurrency \in Nat \ {0} /\ failure_limit \in Nat \ {0}
    /\ target_tasks \in Nat /\ MaxRestarts \in Nat
    /\ None \notin Batches \cup Results

VARIABLES
    campaign,   \* where the campaign process is
    current,    \* the batch the campaign works on
    admitted,   \* table batches, in admission order
    recorded,   \* the batches with status recorded
    deadline,   \* the frozen deadline has passed
    queue,      \* queue.sqlite3 of a batch: "none", "empty" or "filled"
    row,        \* status of a task row, "absent" before it is admitted
    result,     \* the result column
    streak,     \* operational.failure_streak of a batch
    runner,     \* where dispatch is
    failures, stop, reason, active,    \* its locals
    worker, outcome,                   \* where execute is, and its result
    receipt,    \* COLLECTION_RECEIPT.json
    planned,    \* the runs with a RETIREMENT_PLAN.json
    released,   \* the runs whose State the service has released
    started,    \* history: how often a task was executed
    faults,     \* history: retirement faults the present runner has seen
    restarts

campaignVars == <<campaign, current, admitted, recorded, deadline>>
queueVars == <<queue, row, result, streak>>
runnerVars == <<runner, failures, stop, reason, active, faults>>
workerVars == <<worker, outcome>>
diskVars == <<receipt, planned, released>>
historyVars == <<started, restarts>>
vars == <<campaignVars, queueVars, runnerVars, workerVars, diskVars, historyVars>>

Live == {"executing", "checking", "sealing", "releasing", "saving"}

CollectionTypeOK ==
    /\ campaign \in {"off", "scan", "creating", "filling", "collecting", "finishing",
                     "operator", "review", "recorded", "deadline"}
    /\ current \in Batches \cup {None}
    /\ admitted \in Seq(Batches)
    /\ recorded \subseteq Batches
    /\ deadline \in BOOLEAN
    /\ queue \in [Batches -> {"none", "empty", "filled"}]
    /\ row \in [Items -> {"absent", "pending", "running", "recorded"}]
    /\ result \in [Items -> Results \cup {None}]
    /\ streak \in [Batches -> Nat]
    /\ runner \in {"off", "loop", "counting"}
    /\ failures \in Nat /\ stop \in BOOLEAN
    /\ reason \in {"exhausted", "stopped"}
    /\ active \subseteq Items
    /\ worker \in [Items -> Live \cup {"none", "returned", "dead"}]
    /\ outcome \in [Items -> Results \cup {None}]
    /\ receipt \in [Items -> Results \cup {None}]
    /\ planned \subseteq Items /\ released \subseteq Items
    /\ started \in [Items -> Nat]
    /\ faults \subseteq Items
    /\ restarts \in 0..MaxRestarts

Init ==
    /\ campaign = "scan" /\ current = None
    /\ admitted = <<>> /\ recorded = {} /\ deadline = FALSE
    /\ queue = [b \in Batches |-> "none"]
    /\ row = [i \in Items |-> "absent"]
    /\ result = [i \in Items |-> None]
    /\ streak = [b \in Batches |-> 0]
    /\ runner = "off" /\ failures = 0 /\ stop = FALSE /\ reason = "exhausted" /\ active = {}
    /\ worker = [i \in Items |-> "none"]
    /\ outcome = [i \in Items |-> None]
    /\ receipt = [i \in Items |-> None]
    /\ planned = {} /\ released = {}
    /\ started = [i \in Items |-> 0]
    /\ faults = {} /\ restarts = 0

ItemsOf(b) == {Inventory[b][n] : n \in DOMAIN Inventory[b]}
Admitted == {admitted[n] : n \in DOMAIN admitted}
Tasks == UNION {ItemsOf(b) : b \in Admitted}
Rows(status) == {i \in ItemsOf(current) : row[i] = status}

Expire ==
    /\ ~deadline
    /\ deadline' = TRUE
    /\ UNCHANGED <<campaign, current, admitted, recorded, queueVars, runnerVars, workerVars,
                   diskVars, historyVars>>

-----------------------------------------------------------------------------
(* The campaign.                                                             *)

GoTo(place) == campaign' = place /\ UNCHANGED <<admitted, recorded, deadline>>
StopForReview == GoTo("review") /\ UNCHANGED current

\* The registered budget, and one batch for each source.
Fits(b) ==
    /\ Cardinality(Tasks) + Cardinality(ItemsOf(b)) <= target_tasks
    /\ ItemsOf(b) \cap Tasks = {}

admit(b) ==
    /\ campaign = "scan" /\ ~deadline
    /\ b \notin Admitted
    /\ IF Fits(b)
       THEN admitted' = Append(admitted, b) /\ UNCHANGED <<campaign, current, recorded, deadline>>
       ELSE StopForReview
    /\ UNCHANGED <<queueVars, runnerVars, workerVars, diskVars, historyVars>>

\* The oldest pending batch; its queue is created when there is no file yet.
next_batch ==
    /\ campaign = "scan" /\ ~deadline
    /\ \E b \in Admitted \ recorded :
        /\ \A n \in DOMAIN admitted : admitted[n] = b =>
              \A k \in 1..(n - 1) : admitted[k] \in recorded
        /\ current' = b
        /\ GoTo(IF queue[b] = "none" THEN "creating" ELSE "collecting")
    /\ UNCHANGED <<queueVars, runnerVars, workerVars, diskVars, historyVars>>

CampaignEnds ==
    /\ campaign = "scan"
    /\ \/ deadline /\ GoTo("deadline")
       \/ /\ ~deadline /\ Admitted = recorded
          /\ Cardinality(Tasks) = target_tasks
          /\ GoTo("recorded")
    /\ UNCHANGED <<current, queueVars, runnerVars, workerVars, diskVars, historyVars>>

\* sqlite3.connect makes the file before the rows are committed ...
CreateQueue ==
    /\ campaign = "creating"
    /\ queue' = [queue EXCEPT ![current] = "empty"]
    /\ GoTo("filling")
    /\ UNCHANGED <<current, row, result, streak, runnerVars, workerVars, diskVars, historyVars>>

\* ... all of them, or none when one fails its verification.
FillQueue ==
    /\ campaign = "filling"
    /\ UNCHANGED current
    /\ \/ /\ queue' = [queue EXCEPT ![current] = "filled"]
          /\ row' = [i \in Items |-> IF i \in ItemsOf(current) THEN "pending" ELSE row[i]]
          /\ GoTo("collecting")
       \/ UNCHANGED <<queue, row>> /\ GoTo("review")
    /\ UNCHANGED <<result, streak, runnerVars, workerVars, diskVars, historyVars>>

\* Mutant: what the queue says is enough, also when it says nothing.
FinishWhenIdle ==
    /\ campaign = "finishing"
    /\ IF \A i \in ItemsOf(current) : row[i] \notin {"running", "pending"}
       THEN recorded' = recorded \cup {current} /\ campaign' = "scan" /\ UNCHANGED <<admitted, deadline>>
       ELSE GoTo("review")
    /\ UNCHANGED <<current, queueVars, runnerVars, workerVars, diskVars, historyVars>>

\* Campaign.finish after a runner that exited with 0
finish_batch ==
    /\ campaign = "finishing"
    /\ IF \A i \in ItemsOf(current) : row[i] = "recorded" /\ result[i].trace
       THEN recorded' = recorded \cup {current} /\ campaign' = "scan" /\ UNCHANGED <<admitted, deadline>>
       ELSE GoTo("review")
    /\ UNCHANGED <<current, queueVars, runnerVars, workerVars, diskVars, historyVars>>

-----------------------------------------------------------------------------
(* The runner.                                                               *)

Recovered == {i \in Rows("running") : receipt[i] # None}

\* Mutant: a row without a receipt is given to another worker.
ReconcileByRetry ==
    /\ row' = [i \in Items |-> IF i \in Recovered THEN "recorded"
                               ELSE IF i \in Rows("running") THEN "pending" ELSE row[i]]
    /\ result' = [i \in Items |-> IF i \in Recovered THEN receipt[i] ELSE result[i]]

\* Complete receipts are recorded; a row without one stays as it is.
reconcile ==
    /\ row' = [i \in Items |-> IF i \in Recovered THEN "recorded" ELSE row[i]]
    /\ result' = [i \in Items |-> IF i \in Recovered THEN receipt[i] ELSE result[i]]

LoadStreak == streak[current]

\* dispatch up to its loop
Start ==
    /\ campaign \in {"collecting", "operator"} /\ runner = "off"
    /\ reconcile
    /\ IF \/ \E i \in ItemsOf(current) : row'[i] = "running"
          \/ LoadStreak >= failure_limit
       THEN GoTo("review") /\ UNCHANGED runnerVars
       ELSE /\ runner' = "loop" /\ failures' = LoadStreak
            /\ UNCHANGED <<campaign, admitted, recorded, deadline, stop, reason, active, faults>>
    /\ UNCHANGED <<current, queue, streak, workerVars, diskVars, historyVars>>

\* The locals end with the process.
RunnerEnds ==
    /\ runner' = "off" /\ failures' = 0 /\ stop' = FALSE /\ reason' = "exhausted"
    /\ active' = {} /\ faults' = {}

Looping == runner = "loop"
HasSlot == ~stop /\ Cardinality(active) < concurrency

\* claim, and the submission to the pool; verification is part of the transaction
claim(i) ==
    /\ Looping /\ HasSlot /\ ~deadline
    /\ \E n \in DOMAIN Inventory[current] :
          /\ i = Inventory[current][n] /\ row[i] = "pending"
          /\ \A k \in 1..(n - 1) : row[Inventory[current][k]] # "pending"
    /\ row' = [row EXCEPT ![i] = "running"]
    /\ active' = active \cup {i}
    /\ worker' = [worker EXCEPT ![i] = "executing"]
    /\ started' = [started EXCEPT ![i] = @ + 1]
    /\ UNCHANGED <<campaignVars, queue, result, streak, runner, failures, stop, reason, faults, outcome,
                   diskVars, restarts>>

\* Mutant: an empty queue is looked at again until the deadline.
StopAtDeadline ==
    /\ Looping /\ HasSlot /\ Rows("pending") # {}
    /\ stop' = TRUE /\ reason' = "stopped"
    /\ UNCHANGED <<campaignVars, queueVars, runner, failures, active, faults, workerVars, diskVars, historyVars>>

\* Nothing is pending, the deadline has passed, or disk space or an item fails its check.
StopClaiming ==
    /\ Looping /\ HasSlot
    /\ stop' = TRUE
    /\ \/ ~deadline /\ Rows("pending") = {} /\ UNCHANGED reason
       \/ reason' = "stopped"
    /\ UNCHANGED <<campaignVars, queueVars, runner, failures, active, faults, workerVars, diskVars, historyVars>>

Fault(i) == outcome[i].retirement = "failed"

\* Mutant: a retirement fault counts as one failure among others.
FinishCountingFault(i) ==
    /\ Looping /\ i \in active /\ worker[i] = "returned"
    /\ row' = [row EXCEPT ![i] = "recorded"]
    /\ result' = [result EXCEPT ![i] = outcome[i]]
    /\ active' = active \ {i}
    /\ runner' = "counting"
    /\ failures' = IF outcome[i].trace /\ ~Fault(i) THEN 0 ELSE failures + 1
    /\ reason' = IF ~stop /\ failures' >= failure_limit THEN "stopped" ELSE reason
    /\ stop' = (stop \/ failures' >= failure_limit)
    /\ faults' = IF Fault(i) THEN faults \cup {i} ELSE faults
    /\ outcome' = [outcome EXCEPT ![i] = None]
    /\ UNCHANGED <<campaignVars, queue, streak, worker, diskVars, historyVars>>

\* A future is done: its row gets the result ...
finish(i) ==
    /\ Looping /\ i \in active /\ worker[i] = "returned"
    /\ row' = [row EXCEPT ![i] = "recorded"]
    /\ result' = [result EXCEPT ![i] = outcome[i]]
    /\ active' = active \ {i}
    /\ runner' = "counting"
    /\ failures' = IF Fault(i) THEN failure_limit
                   ELSE IF outcome[i].trace THEN 0 ELSE failures + 1
    /\ reason' = IF Fault(i) \/ (~stop /\ failures' >= failure_limit) THEN "stopped" ELSE reason
    /\ stop' = (stop \/ Fault(i) \/ failures' >= failure_limit)
    /\ faults' = IF Fault(i) THEN faults \cup {i} ELSE faults
    /\ outcome' = [outcome EXCEPT ![i] = None]
    /\ UNCHANGED <<campaignVars, queue, streak, worker, diskVars, historyVars>>

\* ... and the streak is stored by a statement of its own.
Count ==
    /\ runner = "counting"
    /\ runner' = "loop"
    /\ streak' = [streak EXCEPT ![current] = failures]
    /\ UNCHANGED <<campaignVars, queue, row, result, failures, stop, reason, active, faults,
                   workerVars, diskVars, historyVars>>

Exhausted ==
    /\ campaign = "collecting" /\ reason = "exhausted"
    /\ Rows("running") = {} /\ Rows("pending") = {}

Exit ==
    /\ Looping /\ stop /\ active = {}
    /\ RunnerEnds
    /\ GoTo(IF Exhausted THEN "finishing" ELSE "review")
    /\ UNCHANGED <<current, queueVars, workerVars, diskVars, historyVars>>

-----------------------------------------------------------------------------
(* A worker: execute(item).                                                  *)

Step(i, from, to) == worker[i] = from /\ worker' = [worker EXCEPT ![i] = to]
Becomes(i, value) == outcome' = [outcome EXCEPT ![i] = value]
save_receipt(i) == receipt' = [receipt EXCEPT ![i] = outcome'[i]]
Evaluated(i, retirement) ==
    [trace |-> outcome[i].trace, acceptance |-> "evaluated", retirement |-> retirement]
NotWorker == UNCHANGED <<campaignVars, queueVars, runnerVars, historyVars>>

\* The run ends, with a complete trace or not, and its first receipt is saved.
Run(i) ==
    /\ Step(i, "executing", "checking")
    /\ \E trace \in BOOLEAN :
          Becomes(i, [trace |-> trace, acceptance |-> "pending", retirement |-> "none"])
    /\ save_receipt(i)
    /\ UNCHANGED <<planned, released>> /\ NotWorker

\* evaluate_artifact, within 30 seconds, and the second receipt
Evaluate(i) ==
    /\ Step(i, "checking", IF outcome[i].trace THEN "sealing" ELSE "returned")
    /\ Becomes(i, Evaluated(i, "none"))
    /\ save_receipt(i)
    /\ UNCHANGED <<planned, released>> /\ NotWorker

RetirementFails(i) ==
    /\ worker[i] \in {"sealing", "releasing"}
    /\ worker' = [worker EXCEPT ![i] = "saving"]
    /\ Becomes(i, Evaluated(i, "failed"))
    /\ UNCHANGED diskVars /\ NotWorker

\* Mutant: the plan is only made, and written after the answer.
PrepareInMemory(i) ==
    /\ Step(i, "sealing", "releasing")
    /\ UNCHANGED <<outcome, diskVars>> /\ NotWorker

\* seal_run and prepare_retirement: the decision is on disk before anything is sent.
prepare_retirement(i) ==
    /\ Step(i, "sealing", "releasing")
    /\ planned' = planned \cup {i}
    /\ UNCHANGED <<outcome, receipt, released>> /\ NotWorker

\* state_release; the service may have released although the reply is lost.
release(i) ==
    /\ Step(i, "releasing", "saving")
    /\ released' = released \cup {i}
    /\ \E retirement \in {"released", "failed"} :
          Becomes(i, Evaluated(i, retirement))
    /\ UNCHANGED <<receipt, planned>> /\ NotWorker

SaveRetirement(i) ==
    /\ Step(i, "saving", "returned")
    /\ UNCHANGED outcome /\ save_receipt(i)
    /\ UNCHANGED <<planned, released>> /\ NotWorker

-----------------------------------------------------------------------------
(* Processes are killed and started again.                                   *)

Die(items) ==
    /\ worker' = [i \in Items |-> IF i \in items THEN "dead" ELSE worker[i]]
    /\ outcome' = [i \in Items |-> IF i \in items THEN None ELSE outcome[i]]

\* A worker dies: the pool ends the other ones, and every future without a result fails.
PoolBreaks ==
    /\ Looping
    /\ LET lost == {i \in active : worker[i] \in Live} IN
        /\ lost # {}
        /\ Die(lost)
        /\ active' = active \ lost
    /\ stop' = TRUE /\ reason' = "stopped"
    /\ UNCHANGED <<campaignVars, queueVars, runner, failures, faults, diskVars, historyVars>>

\* The runner or the campaign is killed, or the machine: some workers go on, some do not.
Kill ==
    /\ campaign \notin {"off", "review", "recorded", "deadline"}
    /\ GoTo("off") /\ current' = None
    /\ RunnerEnds
    /\ \E dead \in SUBSET {i \in Items : worker[i] \in Live} : Die(dead)
    /\ UNCHANGED <<queueVars, diskVars, historyVars>>

Again == restarts < MaxRestarts /\ restarts' = restarts + 1

Restart ==
    /\ campaign \in {"off", "review"} /\ Again
    /\ GoTo("scan") /\ current' = None
    /\ UNCHANGED <<queueVars, runnerVars, workerVars, diskVars, started>>

\* An operator runs the queue of a batch, and acknowledges its faults.
AcknowledgeRecovery ==
    /\ campaign \in {"off", "review"} /\ Again
    /\ \E b \in Admitted :
        /\ queue[b] = "filled"
        /\ current' = b
        /\ streak' = [streak EXCEPT ![b] = 0]
    /\ GoTo("operator")
    /\ UNCHANGED <<queue, row, result, runnerVars, workerVars, diskVars, started>>

-----------------------------------------------------------------------------
Campaign ==
    \/ next_batch \/ CampaignEnds \/ CreateQueue \/ FillQueue \/ finish_batch
    \/ \E b \in Batches : admit(b)

Runner ==
    \/ Start \/ StopClaiming \/ Count \/ Exit
    \/ \E i \in Items : claim(i) \/ finish(i)

Worker(i) ==
    \/ Run(i) \/ Evaluate(i) \/ prepare_retirement(i) \/ release(i)
    \/ RetirementFails(i) \/ SaveRetirement(i)

Next ==
    \/ Campaign \/ Runner \/ Expire \/ PoolBreaks \/ Kill \/ Restart \/ AcknowledgeRecovery
    \/ \E i \in Items : Worker(i)

Spec == Init /\ [][Next]_vars

\* Every job has its own deadline, the check of its artifact another one; the loop of
\* the runner waits for nothing but its workers.
FairSpec == Spec /\ WF_vars(Runner) /\ \A i \in Items : WF_vars(Worker(i))

-----------------------------------------------------------------------------
(* Properties.                                                               *)

\* A task is executed once, over any number of kills, recoveries and operators' restarts:
\* a second execution would start from another State and count as another sample.
TasksRunOnce == \A i \in Items : started[i] <= 1

\* A batch the campaign has left behind is whole: every task of it ran with a complete
\* trace and its result stands in the queue and on disk, also when the queue file was
\* found empty, or its rows were recorded by a recovery.
RecordedBatchesAreWhole ==
    \A b \in recorded : \A i \in ItemsOf(b) :
        /\ row[i] = "recorded" /\ result[i] # None /\ result[i].trace
        /\ receipt[i] # None /\ receipt[i].trace

\* The State of a run is released only with the plan on disk, for a run whose trace is
\* complete and whose evidence has a receipt, whatever was killed when.
ReleaseIsPlanned ==
    \A i \in released : i \in planned /\ receipt[i] # None /\ receipt[i].trace

\* A runner that has seen a retirement fault claims no further task, however the tasks in
\* flight end afterwards.
FaultsStopTheRunner ==
    [][\A i \in Items : row[i] = "pending" /\ row'[i] = "running" => faults = {}]_vars

\* dispatch ends: the runner waits for the workers it started and for nothing else.
DispatchEnds == (runner # "off") ~> (runner = "off")

\* Refuted.  dispatch promises "no newly queued work after an infra fault" and stores a
\* full streak for a fault; a task in flight that ends well afterwards stores 0 again, and
\* the next runner goes on without anybody having acknowledged the fault.
NoWorkAfterFault ==
    [][\A i \in Items : row[i] = "pending" /\ row'[i] = "running" =>
          \A j \in ItemsOf(current) : row[j] = "recorded" => result[j].retirement # "failed"]_vars

=================================================================================
