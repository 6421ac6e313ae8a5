----------------------------- MODULE CollectionProofs -----------------------------
(***************************************************************************)
(* Proofs about Collection, for any number of tasks, batches, workers and    *)
(* restarts.  A task that was not claimed has left nothing anywhere; from    *)
(* its claim on, its receipt and its result agree on the trace.              *)
(***************************************************************************)
EXTENDS Collection, FiniteSetTheorems, TLAPS

USE DEF CollectionTypeOK, Results, Live

\* The tables: batches share no task, and rows exist only in a filled queue.
TablesAreDisjoint ==
    /\ \A b, c \in Admitted : b # c => ItemsOf(b) \cap ItemsOf(c) = {}
    /\ campaign \in {"creating", "filling"} => current \in Admitted /\ queue[current] # "filled"
    /\ campaign \in {"collecting", "operator", "finishing"} => current \in Admitted
    /\ \A i \in Items : row[i] # "absent" =>
          \E b \in Admitted : i \in ItemsOf(b) /\ queue[b] = "filled"

\* A task that nobody has claimed.
Untouched(i) ==
    /\ worker[i] = "none" /\ started[i] = 0
    /\ i \notin active

\* Rows and the tasks of the pool.
RowsAreClaimedOnce ==
    /\ \A i \in Items : row[i] \in {"absent", "pending"} => Untouched(i)
    /\ \A i \in active : row[i] = "running"
    /\ runner = "off" => active = {}
    /\ TasksRunOnce

\* Once a run has ended, its worker knows the result.
Knows(i) ==
    \/ worker[i] \in {"checking", "sealing", "releasing", "saving"}
    \/ worker[i] = "returned" /\ i \in active

\* What a worker knows, what its receipt says and what the row says agree.
ReceiptsAgree ==
    /\ \A i \in Items : worker[i] \in {"none", "executing"} =>
          receipt[i] = None /\ outcome[i] = None /\ i \notin released
    /\ \A i \in Items : Knows(i) => outcome[i] # None
    /\ \A i \in Items : outcome[i] # None => receipt[i] # None /\ receipt[i].trace = outcome[i].trace
    /\ \A i \in Items : worker[i] \in {"sealing", "releasing", "saving"} => outcome[i].trace
    /\ \A i \in Items : worker[i] = "releasing" => i \in planned
    /\ \A i \in Items : row[i] = "recorded" =>
          result[i] # None /\ receipt[i] # None /\ receipt[i].trace = result[i].trace

-----------------------------------------------------------------------------
LEMMA CollectionInitial ==
    Init => CollectionTypeOK /\ TablesAreDisjoint /\ RowsAreClaimedOnce /\ ReceiptsAgree
<1> SUFFICES ASSUME Init PROVE CollectionTypeOK /\ TablesAreDisjoint /\ RowsAreClaimedOnce /\ ReceiptsAgree
  OBVIOUS
<1>1. CollectionTypeOK
  <2>1. admitted \in Seq(Batches) /\ restarts \in 0..MaxRestarts
    BY CollectionAssumption DEF Init
  <2>2. /\ campaign = "scan" /\ current = None /\ recorded = {} /\ deadline = FALSE
        /\ queue \in [Batches -> {"none", "empty", "filled"}]
        /\ row \in [Items -> {"absent", "pending", "running", "recorded"}]
        /\ streak \in [Batches -> Nat]
        /\ runner = "off" /\ failures = 0 /\ stop = FALSE /\ reason = "exhausted" /\ active = {}
    BY DEF Init
  <2>3. /\ worker \in [Items -> Live \cup {"none", "returned", "dead"}]
        /\ result \in [Items -> Results \cup {None}]
        /\ outcome \in [Items -> Results \cup {None}]
        /\ receipt \in [Items -> Results \cup {None}]
        /\ planned = {} /\ released = {}
        /\ started \in [Items -> Nat]
        /\ faults = {}
    BY DEF Init
  <2> QED BY <2>1, <2>2, <2>3
<1>2. TablesAreDisjoint
  BY DEF Init, TablesAreDisjoint, Admitted
<1>3. RowsAreClaimedOnce
  BY DEF Init, RowsAreClaimedOnce, Untouched, TasksRunOnce
<1>4. ReceiptsAgree
  BY DEF Init, ReceiptsAgree, Knows
<1> QED BY <1>1, <1>2, <1>3, <1>4

\* The tasks of a batch are tasks, and an admission adds one batch.
LEMMA BatchItems == \A b \in Batches : ItemsOf(b) \subseteq Items
BY CollectionAssumption DEF ItemsOf

LEMMA AdmittedGrows ==
    ASSUME CollectionTypeOK, NEW b \in Batches, admitted' = Append(admitted, b)
    PROVE  Admitted' = Admitted \cup {b}
<1>1. /\ Len(admitted') = Len(admitted) + 1
      /\ \A n \in DOMAIN admitted : admitted'[n] = admitted[n]
      /\ admitted'[Len(admitted) + 1] = b
      /\ DOMAIN admitted' = 1..(Len(admitted) + 1) /\ DOMAIN admitted = 1..Len(admitted)
      /\ Len(admitted) \in Nat
  OBVIOUS
<1>2. \A x : x \in Admitted' <=> \E n \in DOMAIN admitted' : admitted'[n] = x
  BY DEF Admitted
<1>3. \A x : x \in Admitted <=> \E n \in DOMAIN admitted : admitted[n] = x
  BY DEF Admitted
<1>4. \A n : n \in 1..(Len(admitted) + 1) <=> n \in 1..Len(admitted) \/ n = Len(admitted) + 1
  BY <1>1
<1>5. ASSUME NEW x PROVE x \in Admitted' <=> x \in Admitted \/ x = b
  BY <1>1, <1>2, <1>3, <1>4
<1> QED BY <1>5

LEMMA AdmittedStays == ASSUME admitted' = admitted PROVE Admitted' = Admitted
BY DEF Admitted

LEMMA AdmittedBatches == CollectionTypeOK => Admitted \subseteq Batches
BY DEF Admitted

-----------------------------------------------------------------------------
LEMMA CollectionTypes == CollectionTypeOK /\ TablesAreDisjoint /\ ReceiptsAgree /\ [Next]_vars => CollectionTypeOK'
<1> SUFFICES ASSUME CollectionTypeOK, TablesAreDisjoint, ReceiptsAgree, [Next]_vars PROVE CollectionTypeOK'
  OBVIOUS
<1> USE CollectionAssumption, AdmittedBatches
<1>1. CASE UNCHANGED vars
  BY <1>1 DEF vars, campaignVars, queueVars, runnerVars, workerVars, diskVars, historyVars
<1>2. CASE Campaign
  <2>1. ASSUME NEW b \in Batches, admit(b) PROVE CollectionTypeOK'
    <3>1. Append(admitted, b) \in Seq(Batches)
      OBVIOUS
    <3> QED BY <2>1, <3>1 DEF admit, StopForReview, GoTo, queueVars, runnerVars, workerVars, diskVars, historyVars
  <2>2. ASSUME next_batch PROVE CollectionTypeOK'
    BY <2>2 DEF next_batch, GoTo, queueVars, runnerVars, workerVars, diskVars, historyVars
  <2>3. ASSUME CampaignEnds PROVE CollectionTypeOK'
    BY <2>3 DEF CampaignEnds, GoTo, queueVars, runnerVars, workerVars, diskVars, historyVars
  <2>4. ASSUME CreateQueue PROVE CollectionTypeOK'
    BY <2>4 DEF CreateQueue, GoTo, queueVars, runnerVars, workerVars, diskVars, historyVars
  <2>5. ASSUME FillQueue PROVE CollectionTypeOK'
    BY <2>5 DEF FillQueue, GoTo, queueVars, runnerVars, workerVars, diskVars, historyVars
  <2>6. ASSUME finish_batch PROVE CollectionTypeOK'
    <3>1. current \in Batches
      BY <2>6 DEF finish_batch, TablesAreDisjoint
    <3> QED BY <2>6, <3>1 DEF finish_batch, GoTo, queueVars, runnerVars, workerVars, diskVars, historyVars
  <2> QED BY <1>2, <2>1, <2>2, <2>3, <2>4, <2>5, <2>6 DEF Campaign
<1>3. CASE Runner
  <2>1. ASSUME Start PROVE CollectionTypeOK'
    <3>1. row' \in [Items -> {"absent", "pending", "running", "recorded"}] /\ result' \in [Items -> Results \cup {None}]
      BY <2>1 DEF Start, reconcile, Recovered
    <3>2. LoadStreak \in Nat
      <4>1. current \in Admitted
        BY <2>1 DEF Start, TablesAreDisjoint
      <4>2. current \in Batches
        BY <4>1
      <4> QED BY <4>2 DEF LoadStreak
    <3> QED BY <2>1, <3>1, <3>2 DEF Start, GoTo, runnerVars, workerVars, diskVars, historyVars
  <2>2. ASSUME StopClaiming PROVE CollectionTypeOK'
    BY <2>2 DEF StopClaiming, campaignVars, queueVars, workerVars, diskVars, historyVars
  <2>3. ASSUME Count PROVE CollectionTypeOK'
    BY <2>3 DEF Count, campaignVars, workerVars, diskVars, historyVars
  <2>4. ASSUME Exit PROVE CollectionTypeOK'
    BY <2>4 DEF Exit, RunnerEnds, GoTo, queueVars, workerVars, diskVars, historyVars
  <2>5. ASSUME NEW i \in Items, claim(i) PROVE CollectionTypeOK'
    BY <2>5 DEF claim, campaignVars, diskVars
  <2>6. ASSUME NEW i \in Items, finish(i) PROVE CollectionTypeOK'
    BY <2>6 DEF finish, campaignVars, diskVars, historyVars
  <2> QED BY <1>3, <2>1, <2>2, <2>3, <2>4, <2>5, <2>6 DEF Runner
<1>4. ASSUME NEW i \in Items, Worker(i) PROVE CollectionTypeOK'
  <2>1. Knows(i) => outcome[i] \in Results
    BY DEF ReceiptsAgree
  <2>2. CASE Run(i)
    BY <2>2 DEF Run, Step, Becomes, save_receipt, NotWorker, campaignVars, queueVars, runnerVars, historyVars
  <2>3. CASE Evaluate(i)
    BY <2>1, <2>3 DEF Evaluate, Evaluated, Knows, Step, Becomes, save_receipt, NotWorker, campaignVars, queueVars, runnerVars, historyVars
  <2>4. CASE prepare_retirement(i)
    BY <2>4 DEF prepare_retirement, Step, NotWorker, campaignVars, queueVars, runnerVars, historyVars
  <2>5. CASE release(i)
    BY <2>1, <2>5 DEF release, Evaluated, Knows, Step, Becomes, NotWorker, campaignVars, queueVars, runnerVars, historyVars
  <2>6. CASE RetirementFails(i)
    BY <2>1, <2>6 DEF RetirementFails, Evaluated, Knows, Becomes, NotWorker, campaignVars, queueVars, runnerVars, historyVars, diskVars
  <2>7. CASE SaveRetirement(i)
    BY <2>1, <2>7 DEF SaveRetirement, Knows, Step, save_receipt, NotWorker, campaignVars, queueVars, runnerVars, historyVars
  <2> QED BY <1>4, <2>2, <2>3, <2>4, <2>5, <2>6, <2>7 DEF Worker
<1>5. CASE Expire
  BY <1>5 DEF Expire, queueVars, runnerVars, workerVars, diskVars, historyVars
<1>6. CASE PoolBreaks
  BY <1>6 DEF PoolBreaks, Die, campaignVars, queueVars, diskVars, historyVars
<1>7. CASE Kill
  BY <1>7 DEF Kill, Die, GoTo, RunnerEnds, queueVars, diskVars, historyVars
<1>8. CASE Restart
  BY <1>8 DEF Restart, Again, GoTo, queueVars, runnerVars, workerVars, diskVars
<1>9. CASE AcknowledgeRecovery
  BY <1>9 DEF AcknowledgeRecovery, Again, GoTo, runnerVars, workerVars, diskVars
<1> QED BY <1>1, <1>2, <1>3, <1>4, <1>5, <1>6, <1>7, <1>8, <1>9 DEF Next

-----------------------------------------------------------------------------
LEMMA TablesStep ==
    ASSUME CollectionTypeOK, TablesAreDisjoint, RowsAreClaimedOnce, [Next]_vars
    PROVE  TablesAreDisjoint'
<1> USE CollectionAssumption, AdmittedBatches
<1>1. CASE UNCHANGED <<campaign, current, admitted, queue, row>>
  BY <1>1, AdmittedStays DEF TablesAreDisjoint
<1>2. ASSUME NEW b \in Batches, admit(b) PROVE TablesAreDisjoint'
  <2>1. UNCHANGED <<current, queue, row>>
    BY <1>2 DEF admit, StopForReview, GoTo, queueVars
  <2>2. CASE Fits(b)
    <3>1. campaign' = campaign /\ admitted' = Append(admitted, b) /\ campaign = "scan"
      BY <1>2, <2>2 DEF admit
    <3>2. Admitted' = Admitted \cup {b}
      BY <3>1, AdmittedGrows
    <3>3. \A c \in Admitted : ItemsOf(c) \cap ItemsOf(b) = {}
      BY <2>2 DEF Fits, Tasks
    <3>4. ItemsOf(b)' = ItemsOf(b) /\ \A c \in Admitted : ItemsOf(c)' = ItemsOf(c)
      BY DEF ItemsOf
    <3> QED BY <2>1, <3>1, <3>2, <3>3, <3>4 DEF TablesAreDisjoint
  <2>3. CASE ~Fits(b)
    BY <1>2, <2>1, <2>3, AdmittedStays DEF admit, StopForReview, GoTo, TablesAreDisjoint
  <2> QED BY <2>2, <2>3
<1>3. CASE next_batch
  <2>1. current' \in Admitted /\ campaign' = IF queue[current'] = "none" THEN "creating" ELSE "collecting"
    BY <1>3 DEF next_batch, GoTo
  <2>2. UNCHANGED <<admitted, queue, row>>
    BY <1>3 DEF next_batch, GoTo, queueVars
  <2> QED BY <2>1, <2>2, AdmittedStays DEF TablesAreDisjoint
<1>4. CASE CampaignEnds
  BY <1>4, AdmittedStays DEF CampaignEnds, GoTo, queueVars, TablesAreDisjoint
<1>5. CASE CreateQueue
  <2>1. current \in Admitted /\ queue[current] # "filled" /\ current \in Batches
    BY <1>5 DEF CreateQueue, TablesAreDisjoint
  <2>2. /\ queue' = [queue EXCEPT ![current] = "empty"] /\ UNCHANGED <<current, admitted, row>>
        /\ campaign' = "filling"
    BY <1>5 DEF CreateQueue, GoTo
  <2>3. \A b \in Batches : queue'[b] = "filled" <=> queue[b] = "filled"
    BY <2>1, <2>2
  <2> QED BY <2>1, <2>2, <2>3, AdmittedStays DEF TablesAreDisjoint
<1>6. CASE FillQueue
  <2>1. current \in Admitted /\ current \in Batches /\ UNCHANGED <<current, admitted>>
    BY <1>6 DEF FillQueue, GoTo, TablesAreDisjoint
  <2>2. CASE UNCHANGED <<queue, row>>
    BY <1>6, <2>1, <2>2, AdmittedStays DEF FillQueue, GoTo, TablesAreDisjoint
  <2>3. CASE /\ queue' = [queue EXCEPT ![current] = "filled"] /\ campaign' = "collecting"
             /\ row' = [i \in Items |-> IF i \in ItemsOf(current) THEN "pending" ELSE row[i]]
    <3>1. ASSUME NEW i \in Items, row'[i] # "absent"
          PROVE  \E b \in Admitted : i \in ItemsOf(b) /\ queue'[b] = "filled"
      <4>1. CASE i \in ItemsOf(current)
        BY <2>1, <2>3, <4>1
      <4>2. CASE i \notin ItemsOf(current)
        <5>1. PICK b \in Admitted : i \in ItemsOf(b) /\ queue[b] = "filled"
          BY <2>3, <3>1, <4>2 DEF TablesAreDisjoint
        <5>2. b \in Batches
          BY <5>1
        <5>3. queue'[b] = "filled"
          BY <2>3, <5>1, <5>2
        <5> QED BY <5>1, <5>3
      <4> QED BY <4>1, <4>2
    <3>2. ItemsOf(current)' = ItemsOf(current) /\ \A b \in Batches : ItemsOf(b)' = ItemsOf(b)
      BY <2>1 DEF ItemsOf
    <3> QED BY <2>1, <2>3, <3>1, <3>2, AdmittedStays DEF TablesAreDisjoint
  <2> QED BY <1>6, <2>2, <2>3 DEF FillQueue, GoTo
<1>7. CASE finish_batch
  BY <1>7, AdmittedStays DEF finish_batch, GoTo, queueVars, TablesAreDisjoint
<1>8. CASE Start
  <2>1. /\ UNCHANGED <<current, admitted, queue>> /\ campaign' \in {campaign, "review"}
        /\ \A i \in Items : row'[i] # "absent" => row[i] # "absent"
    BY <1>8 DEF Start, GoTo, reconcile, Recovered, Rows
  <2> QED BY <1>8, <2>1, AdmittedStays DEF Start, TablesAreDisjoint
<1>9. CASE Exit
  BY <1>9, AdmittedStays DEF Exit, Exhausted, GoTo, queueVars, TablesAreDisjoint
<1>10. ASSUME NEW i \in Items, claim(i) \/ finish(i) PROVE TablesAreDisjoint'
  <2>1. UNCHANGED <<campaign, current, admitted, queue>>
    BY <1>10 DEF claim, finish, campaignVars
  <2>2. row[i] # "absent"
    BY <1>10 DEF claim, finish, RowsAreClaimedOnce
  <2>3. \A j \in Items : row'[j] # "absent" => row[j] # "absent"
    BY <1>10, <2>2 DEF claim, finish
  <2> QED BY <2>1, <2>3, AdmittedStays DEF TablesAreDisjoint
<1>11. CASE StopClaiming \/ Count \/ PoolBreaks \/ \E i \in Items : Worker(i)
  BY <1>1, <1>11 DEF StopClaiming, Count, PoolBreaks, Worker, Run, Evaluate, prepare_retirement, release,
     RetirementFails, SaveRetirement, NotWorker, campaignVars, queueVars
<1>12. CASE Expire
  BY <1>1, <1>12 DEF Expire, queueVars
<1>13. CASE Kill \/ Restart
  BY <1>13, AdmittedStays DEF Kill, Restart, GoTo, queueVars, TablesAreDisjoint
<1>14. CASE AcknowledgeRecovery
  BY <1>14, AdmittedStays DEF AcknowledgeRecovery, GoTo, TablesAreDisjoint
<1> QED
  BY <1>1, <1>2, <1>3, <1>4, <1>5, <1>6, <1>7, <1>8, <1>9, <1>10, <1>11, <1>12, <1>13, <1>14
  DEF Next, Campaign, Runner, vars, campaignVars, queueVars

-----------------------------------------------------------------------------
LEMMA RowsStep ==
    ASSUME CollectionTypeOK, TablesAreDisjoint, RowsAreClaimedOnce, [Next]_vars
    PROVE  RowsAreClaimedOnce'
<1> USE CollectionAssumption, AdmittedBatches
<1>1. CASE UNCHANGED <<row, active, runner, worker, started>>
  BY <1>1 DEF RowsAreClaimedOnce, Untouched, TasksRunOnce
<1>2. CASE Campaign /\ ~FillQueue
  BY <1>1, <1>2 DEF Campaign, admit, next_batch, CampaignEnds, CreateQueue, finish_batch, queueVars, runnerVars,
     workerVars, historyVars
<1>3. CASE FillQueue
  <2>1. UNCHANGED <<active, runner, worker, started>>
    BY <1>3 DEF FillQueue, runnerVars, workerVars, historyVars
  <2>2. ASSUME NEW i \in Items PROVE row'[i] = row[i] \/ (row[i] = "absent" /\ row'[i] = "pending")
    <3>1. CASE i \in ItemsOf(current) /\ row[i] # "absent"
      <4>1. PICK b \in Admitted : i \in ItemsOf(b) /\ queue[b] = "filled"
        BY <3>1 DEF TablesAreDisjoint
      <4>2. current \in Admitted /\ queue[current] # "filled"
        BY <1>3 DEF FillQueue, TablesAreDisjoint
      <4> QED BY <3>1, <4>1, <4>2 DEF TablesAreDisjoint
    <3>2. CASE i \notin ItemsOf(current) \/ row[i] = "absent"
      BY <1>3, <3>2 DEF FillQueue
    <3> QED BY <3>1, <3>2
  <2> QED BY <2>1, <2>2 DEF RowsAreClaimedOnce, Untouched, TasksRunOnce
<1>4. CASE Start
  <2>1. active = {} /\ UNCHANGED <<active, worker, started>>
    BY <1>4 DEF Start, RowsAreClaimedOnce, runnerVars, workerVars, historyVars
  <2>2. \A i \in Items : row'[i] = row[i] \/ row'[i] = "recorded"
    BY <1>4 DEF Start, reconcile, Recovered, Rows
  <2> QED BY <2>1, <2>2 DEF RowsAreClaimedOnce, Untouched, TasksRunOnce
<1>5. CASE StopClaiming
  BY <1>1, <1>5 DEF StopClaiming, queueVars, workerVars, historyVars
<1>6. CASE Count
  BY <1>6 DEF Count, RowsAreClaimedOnce, Untouched, TasksRunOnce, workerVars, historyVars
<1>7. CASE Exit
  BY <1>7 DEF Exit, RunnerEnds, RowsAreClaimedOnce, Untouched, TasksRunOnce, queueVars, workerVars, historyVars
<1>8. ASSUME NEW i \in Items, claim(i) PROVE RowsAreClaimedOnce'
  <2>1. row[i] = "pending" /\ runner = "loop" /\ started[i] = 0
    BY <1>8 DEF claim, Looping, RowsAreClaimedOnce, Untouched
  <2> QED BY <1>8, <2>1 DEF claim, RowsAreClaimedOnce, Untouched, TasksRunOnce
<1>9. ASSUME NEW i \in Items, finish(i) PROVE RowsAreClaimedOnce'
  BY <1>9 DEF finish, RowsAreClaimedOnce, Untouched, TasksRunOnce, historyVars
<1>10. ASSUME NEW i \in Items, Worker(i) PROVE RowsAreClaimedOnce'
  <2>1. /\ UNCHANGED <<row, active, runner, started>>
        /\ worker[i] # "none" /\ \A j \in Items : j # i => worker'[j] = worker[j]
    BY <1>10 DEF Worker, Run, Evaluate, prepare_retirement, release, RetirementFails, SaveRetirement, NotWorker,
       Step, queueVars, runnerVars, historyVars
  <2> QED BY <2>1 DEF RowsAreClaimedOnce, Untouched, TasksRunOnce
<1>11. CASE PoolBreaks
  BY <1>11 DEF PoolBreaks, Die, Looping, RowsAreClaimedOnce, Untouched, TasksRunOnce, queueVars, historyVars
<1>12. CASE Kill
  <2>1. /\ UNCHANGED <<row, started>> /\ active' = {} /\ runner' = "off"
        /\ \A i \in Items : worker[i] = "none" => worker'[i] = "none"
    BY <1>12 DEF Kill, Die, RunnerEnds, queueVars, historyVars
  <2> QED BY <2>1 DEF RowsAreClaimedOnce, Untouched, TasksRunOnce
<1>13. CASE Expire \/ Restart \/ AcknowledgeRecovery
  BY <1>1, <1>13 DEF Expire, Restart, AcknowledgeRecovery, queueVars, runnerVars, workerVars, historyVars
<1> QED
  BY <1>1, <1>2, <1>3, <1>4, <1>5, <1>6, <1>7, <1>8, <1>9, <1>10, <1>11, <1>12, <1>13
  DEF Next, Campaign, Runner, vars, queueVars, runnerVars, workerVars, historyVars

-----------------------------------------------------------------------------
LEMMA ReceiptsStep ==
    ASSUME CollectionTypeOK, RowsAreClaimedOnce, ReceiptsAgree, [Next]_vars
    PROVE  ReceiptsAgree'
<1> USE CollectionAssumption
<1>1. CASE UNCHANGED <<row, active, worker, outcome, result, diskVars>>
  BY <1>1 DEF ReceiptsAgree, Knows, diskVars
<1>2. CASE Campaign /\ ~FillQueue
  BY <1>1, <1>2 DEF Campaign, admit, next_batch, CampaignEnds, CreateQueue, finish_batch, queueVars, runnerVars,
     workerVars
<1>3. CASE FillQueue
  <2>1. /\ UNCHANGED <<active, worker, outcome, result, diskVars>>
        /\ \A i \in Items : row'[i] = row[i] \/ row'[i] = "pending"
    BY <1>3 DEF FillQueue, runnerVars, workerVars
  <2> QED BY <2>1 DEF ReceiptsAgree, Knows, diskVars
<1>4. CASE Start
  <2>1. UNCHANGED <<active, worker, outcome, diskVars>>
    BY <1>4 DEF Start, runnerVars, workerVars
  <2>2. \A i \in Items : \/ row'[i] = row[i] /\ result'[i] = result[i]
                         \/ row'[i] = "recorded" /\ receipt[i] # None /\ result'[i] = receipt[i]
    BY <1>4 DEF Start, reconcile, Recovered, Rows
  <2> HIDE DEF CollectionTypeOK, Results, Live
  <2> QED BY <2>1, <2>2 DEF ReceiptsAgree, Knows, diskVars
<1>5. CASE StopClaiming \/ Count
  BY <1>1, <1>5 DEF StopClaiming, Count, queueVars, workerVars
<1>6. CASE Exit \/ PoolBreaks \/ Kill
  <2>1. /\ UNCHANGED <<row, result, diskVars>> /\ active' \subseteq active
        /\ \A i \in Items : \/ worker'[i] = worker[i] /\ outcome'[i] = outcome[i]
                            \/ worker'[i] = "dead" /\ outcome'[i] = None
    <3> HIDE DEF CollectionTypeOK, Results, Live
    <3>1. CASE Exit
      BY <3>1 DEF Exit, Looping, RunnerEnds, queueVars, workerVars
    <3>2. CASE PoolBreaks
      BY <3>2 DEF PoolBreaks, Die, queueVars
    <3>3. CASE Kill
      BY <3>3 DEF Kill, Die, RunnerEnds, queueVars
    <3> QED BY <1>6, <3>1, <3>2, <3>3
  <2> HIDE DEF CollectionTypeOK, Results, Live
  <2> QED BY <2>1 DEF ReceiptsAgree, Knows, diskVars
<1>7. ASSUME NEW i \in Items, claim(i) PROVE ReceiptsAgree'
  <2>1. row[i] = "pending" /\ worker[i] = "none"
    BY <1>7 DEF claim, RowsAreClaimedOnce, Untouched
  <2>2. /\ row' = [row EXCEPT ![i] = "running"] /\ worker' = [worker EXCEPT ![i] = "executing"]
        /\ active' = active \cup {i} /\ UNCHANGED <<outcome, result, diskVars>>
    BY <1>7 DEF claim
  <2> QED BY <2>1, <2>2 DEF ReceiptsAgree, Knows, diskVars
<1>8. ASSUME NEW i \in Items, finish(i) PROVE ReceiptsAgree'
  <2>1. worker[i] = "returned" /\ i \in active /\ outcome[i] # None
    BY <1>8 DEF finish, ReceiptsAgree, Knows
  <2>2. /\ row' = [row EXCEPT ![i] = "recorded"] /\ result' = [result EXCEPT ![i] = outcome[i]]
        /\ active' = active \ {i} /\ outcome' = [outcome EXCEPT ![i] = None]
        /\ UNCHANGED <<worker, diskVars>>
    BY <1>8 DEF finish
  <2> QED BY <2>1, <2>2 DEF ReceiptsAgree, Knows, diskVars
<1>9. ASSUME NEW i \in Items, Worker(i) PROVE ReceiptsAgree'
  <2>1. UNCHANGED <<row, result, active>>
    BY <1>9 DEF Worker, Run, Evaluate, prepare_retirement, release, RetirementFails, SaveRetirement, NotWorker,
       queueVars, runnerVars
  <2>2. CASE Run(i)
    <3>1. worker[i] = "executing" /\ row[i] # "recorded" /\ i \notin released
      BY <2>2 DEF Run, Step, ReceiptsAgree
    <3>2. PICK trace \in BOOLEAN :
             outcome' = [outcome EXCEPT ![i] = [trace |-> trace, acceptance |-> "pending", retirement |-> "none"]]
      BY <2>2 DEF Run, Becomes
    <3>3. outcome'[i] \in Results /\ outcome'[i] # None
      BY <3>2
    <3>4. /\ receipt' = [receipt EXCEPT ![i] = outcome'[i]] /\ worker' = [worker EXCEPT ![i] = "checking"]
          /\ UNCHANGED <<planned, released>>
      BY <2>2 DEF Run, Step, save_receipt
    <3> QED BY <2>1, <3>1, <3>2, <3>3, <3>4 DEF ReceiptsAgree, Knows
  <2>3. CASE Evaluate(i)
    <3>1. worker[i] = "checking" /\ outcome[i] # None /\ outcome[i] \in Results
      BY <2>3 DEF Evaluate, Step, ReceiptsAgree, Knows
    <3>2. outcome' = [outcome EXCEPT ![i] = Evaluated(i, "none")]
      BY <2>3 DEF Evaluate, Becomes
    <3>3. outcome'[i] \in Results /\ outcome'[i] # None /\ outcome'[i].trace = outcome[i].trace
      BY <3>1, <3>2 DEF Evaluated
    <3>4. /\ receipt' = [receipt EXCEPT ![i] = outcome'[i]] /\ UNCHANGED <<planned, released>>
          /\ worker' = [worker EXCEPT ![i] = IF outcome[i].trace THEN "sealing" ELSE "returned"]
      BY <2>3 DEF Evaluate, Step, save_receipt
    <3> QED BY <2>1, <3>1, <3>2, <3>3, <3>4 DEF ReceiptsAgree, Knows
  <2>4. CASE prepare_retirement(i)
    BY <2>1, <2>4 DEF prepare_retirement, Step, ReceiptsAgree, Knows
  <2>5. CASE release(i) \/ RetirementFails(i)
    <3>1. worker[i] \in {"sealing", "releasing"} /\ outcome[i] # None /\ outcome[i] \in Results
      BY <2>5 DEF release, RetirementFails, Step, ReceiptsAgree, Knows
    <3>2. PICK retirement \in {"released", "failed"} : outcome' = [outcome EXCEPT ![i] = Evaluated(i, retirement)]
      BY <2>5 DEF release, RetirementFails, Becomes
    <3>3. outcome'[i] \in Results /\ outcome'[i] # None /\ outcome'[i].trace = outcome[i].trace
      BY <3>1, <3>2 DEF Evaluated
    <3>4. UNCHANGED <<receipt, planned>> /\ worker' = [worker EXCEPT ![i] = "saving"] /\ released' \subseteq released \cup {i}
      BY <2>5 DEF release, RetirementFails, Step, diskVars
    <3> QED BY <2>1, <3>1, <3>2, <3>3, <3>4 DEF ReceiptsAgree, Knows
  <2>6. CASE SaveRetirement(i)
    <3>1. worker[i] = "saving" /\ outcome[i] # None
      BY <2>6 DEF SaveRetirement, Step, ReceiptsAgree, Knows
    <3>2. /\ receipt' = [receipt EXCEPT ![i] = outcome[i]] /\ worker' = [worker EXCEPT ![i] = "returned"]
          /\ UNCHANGED <<outcome, planned, released>>
      BY <2>6 DEF SaveRetirement, Step, save_receipt
    <3> QED BY <2>1, <3>1, <3>2 DEF ReceiptsAgree, Knows
  <2> QED BY <1>9, <2>2, <2>3, <2>4, <2>5, <2>6 DEF Worker
<1>10. CASE Expire \/ Restart \/ AcknowledgeRecovery
  BY <1>1, <1>10 DEF Expire, Restart, AcknowledgeRecovery, queueVars, runnerVars, workerVars
<1> QED
  BY <1>1, <1>2, <1>3, <1>4, <1>5, <1>6, <1>7, <1>8, <1>9, <1>10
  DEF Next, Campaign, Runner, vars, queueVars, runnerVars, workerVars

-----------------------------------------------------------------------------
\* A recorded row is final.
LEMMA RecordedStays ==
    ASSUME CollectionTypeOK, TablesAreDisjoint, RowsAreClaimedOnce, [Next]_vars,
           NEW i \in Items, row[i] = "recorded"
    PROVE  row'[i] = "recorded" /\ result'[i] = result[i]
<1> USE CollectionAssumption, AdmittedBatches
<1> HIDE DEF CollectionTypeOK, Results, Live
<1>0. row \in [Items -> {"absent", "pending", "running", "recorded"}] /\ result \in [Items -> Results \cup {None}]
  BY DEF CollectionTypeOK
<1>1. CASE UNCHANGED <<row, result>>
  BY <1>1
<1>2. CASE Campaign /\ ~FillQueue
  BY <1>1, <1>2 DEF Campaign, admit, next_batch, CampaignEnds, CreateQueue, finish_batch, queueVars
<1>3. CASE FillQueue
  <2>1. i \notin ItemsOf(current)
    <3>1. PICK b \in Admitted : i \in ItemsOf(b) /\ queue[b] = "filled"
      BY DEF TablesAreDisjoint
    <3>2. current \in Admitted /\ queue[current] # "filled"
      BY <1>3 DEF FillQueue, TablesAreDisjoint
    <3> QED BY <3>1, <3>2 DEF TablesAreDisjoint
  <2> QED BY <1>0, <1>3, <2>1 DEF FillQueue
<1>4. CASE Start
  BY <1>0, <1>4 DEF Start, reconcile, Recovered, Rows
<1>5. ASSUME NEW j \in Items, claim(j) \/ finish(j) PROVE row'[i] = "recorded" /\ result'[i] = result[i]
  <2>1. row[j] \in {"pending", "running"}
    BY <1>5 DEF claim, finish, RowsAreClaimedOnce
  <2> QED BY <1>0, <1>5, <2>1 DEF claim, finish
<1>6. CASE StopClaiming \/ Count \/ Exit \/ Expire \/ PoolBreaks \/ Kill \/ Restart \/ AcknowledgeRecovery
  BY <1>1, <1>6 DEF StopClaiming, Count, Exit, Expire, PoolBreaks, Kill, Restart, AcknowledgeRecovery, queueVars
<1>7. CASE \E j \in Items : Worker(j)
  BY <1>1, <1>7 DEF Worker, Run, Evaluate, prepare_retirement, release, RetirementFails, SaveRetirement,
     NotWorker, queueVars
<1> QED
  BY <1>1, <1>2, <1>3, <1>4, <1>5, <1>6, <1>7 DEF Next, Campaign, Runner, vars, queueVars

\* The batches the campaign has left behind.
BatchesStand ==
    \A b \in recorded : \A i \in ItemsOf(b) : row[i] = "recorded" /\ result[i].trace

LEMMA BatchesStep ==
    ASSUME CollectionTypeOK, TablesAreDisjoint, RowsAreClaimedOnce, BatchesStand, [Next]_vars
    PROVE  BatchesStand'
<1> USE BatchItems
<1>1. \A b \in Batches : ItemsOf(b)' = ItemsOf(b)
  BY DEF ItemsOf
<1>2. ASSUME NEW b \in recorded, NEW i \in ItemsOf(b) PROVE row'[i] = "recorded" /\ result'[i].trace
  <2>1. i \in Items /\ row[i] = "recorded" /\ result[i].trace
    BY <1>2 DEF BatchesStand
  <2>2. row'[i] = "recorded" /\ result'[i] = result[i]
    BY <2>1, RecordedStays
  <2> QED BY <2>1, <2>2
<1> HIDE DEF CollectionTypeOK, Results, Live
<1>3. recorded \subseteq Batches
  BY DEF CollectionTypeOK
<1>4. CASE recorded' = recorded
  BY <1>1, <1>2, <1>3, <1>4 DEF BatchesStand
<1>5. CASE finish_batch
  <2>1. UNCHANGED <<row, result>> /\ recorded' \subseteq recorded \cup {current}
    BY <1>5 DEF finish_batch, GoTo, queueVars
  <2>2. recorded' # recorded =>
          /\ current \in Batches
          /\ \A i \in ItemsOf(current) : row[i] = "recorded" /\ result[i].trace
    BY <1>5, AdmittedBatches DEF finish_batch, GoTo, TablesAreDisjoint
  <2> QED BY <1>1, <1>2, <1>3, <1>4, <2>1, <2>2 DEF BatchesStand
<1> QED
  BY <1>4, <1>5 DEF Next, Campaign, Runner, Worker, admit, next_batch, CampaignEnds, CreateQueue, FillQueue, Start,
     StopClaiming, Count, Exit, claim, finish, Run, Evaluate, prepare_retirement, release, RetirementFails,
     SaveRetirement, NotWorker, Expire, PoolBreaks, Kill, Restart, AcknowledgeRecovery, StopForReview, GoTo,
     campaignVars, vars

\* Released States, and the runner after a fault.
FaultsAreFinal == faults # {} => stop

LEMMA ReleaseStep ==
    ASSUME CollectionTypeOK, RowsAreClaimedOnce, ReceiptsAgree, ReleaseIsPlanned, [Next]_vars
    PROVE  ReleaseIsPlanned'
<1> USE CollectionAssumption
<1>1. CASE UNCHANGED diskVars
  BY <1>1 DEF ReleaseIsPlanned, diskVars
<1>2. ASSUME NEW i \in Items, Worker(i) PROVE ReleaseIsPlanned'
  <2>0. worker[i] \notin {"executing"} => outcome[i] # None /\ receipt[i] # None /\ receipt[i].trace = outcome[i].trace
    BY <1>2 DEF Worker, Run, Evaluate, prepare_retirement, release, RetirementFails, SaveRetirement, Step,
       ReceiptsAgree, Knows
  <2>1. CASE Run(i)
    BY <2>1 DEF Run, Step, save_receipt, ReceiptsAgree, ReleaseIsPlanned
  <2>2. CASE Evaluate(i)
    <3>1. worker[i] = "checking" /\ outcome'[i] = Evaluated(i, "none") /\ outcome[i] \in Results
      BY <2>0, <2>2 DEF Evaluate, Step, Becomes
    <3>2. outcome'[i] # None /\ outcome'[i].trace = outcome[i].trace
      BY <3>1 DEF Evaluated
    <3>3. receipt' = [receipt EXCEPT ![i] = outcome'[i]] /\ UNCHANGED <<planned, released>>
      BY <2>2 DEF Evaluate, save_receipt
    <3> QED BY <2>0, <3>1, <3>2, <3>3 DEF ReleaseIsPlanned
  <2>3. CASE prepare_retirement(i) \/ RetirementFails(i)
    BY <1>1, <2>3 DEF prepare_retirement, RetirementFails, diskVars, ReleaseIsPlanned
  <2>4. CASE release(i)
    BY <2>0, <2>4 DEF release, Step, ReceiptsAgree, ReleaseIsPlanned
  <2>5. CASE SaveRetirement(i)
    BY <2>0, <2>5 DEF SaveRetirement, Step, save_receipt, ReleaseIsPlanned
  <2> QED BY <1>2, <2>1, <2>2, <2>3, <2>4, <2>5 DEF Worker
<1> QED
  BY <1>1, <1>2 DEF Next, Campaign, Runner, admit, next_batch, CampaignEnds, CreateQueue, FillQueue, finish_batch,
     Start, StopClaiming, Count, Exit, claim, finish, Expire, PoolBreaks, Kill, Restart, AcknowledgeRecovery, vars

LEMMA FaultsStep ==
    ASSUME CollectionTypeOK, TablesAreDisjoint, RowsAreClaimedOnce, FaultsAreFinal, [Next]_vars
    PROVE  /\ FaultsAreFinal'
           /\ \A i \in Items : row[i] = "pending" /\ row'[i] = "running" => faults = {}
<1> HIDE DEF Results, Live
<1>1. FaultsAreFinal'
  BY DEF FaultsAreFinal, Next, Campaign, Runner, Worker, admit, next_batch, CampaignEnds, CreateQueue, FillQueue,
     finish_batch, Start, StopClaiming, Count, Exit, claim, finish, Run, Evaluate, prepare_retirement, release,
     RetirementFails, SaveRetirement, NotWorker, Expire, PoolBreaks, Kill, Restart, AcknowledgeRecovery,
     RunnerEnds, runnerVars, vars
<1>2. ASSUME NEW i \in Items, row[i] = "pending", row'[i] = "running" PROVE faults = {}
  <2>1. PICK j \in Items : claim(j)
    BY <1>2 DEF Next, Campaign, Runner, Worker, admit, next_batch, CampaignEnds, CreateQueue, FillQueue,
       finish_batch, Start, reconcile, StopClaiming, Count, Exit, finish, Run, Evaluate, prepare_retirement, release,
       RetirementFails, SaveRetirement, NotWorker, Expire, PoolBreaks, Kill, Restart, AcknowledgeRecovery,
       queueVars, vars
  <2> QED BY <2>1 DEF claim, HasSlot, FaultsAreFinal
<1> QED BY <1>1, <1>2

-----------------------------------------------------------------------------
CollectionInv ==
    /\ CollectionTypeOK /\ TablesAreDisjoint /\ RowsAreClaimedOnce /\ ReceiptsAgree
    /\ BatchesStand /\ ReleaseIsPlanned /\ FaultsAreFinal

\* The invariant the theorems rest on.
THEOREM CollectionInvariant == Spec => []CollectionInv
<1>1. Init => CollectionInv
  BY CollectionInitial DEF Init, CollectionInv, BatchesStand, ReleaseIsPlanned, FaultsAreFinal
<1>2. CollectionInv /\ [Next]_vars => CollectionInv'
  BY CollectionTypes, TablesStep, RowsStep, ReceiptsStep, BatchesStep, ReleaseStep, FaultsStep DEF CollectionInv
<1> QED BY <1>1, <1>2, PTL DEF Spec

\* collection_queue.py: however often the runner and the campaign are killed and started
\* again, a task that was claimed is never claimed a second time.
THEOREM TasksRunOnceAlways == Spec => []TasksRunOnce
<1>1. CollectionInv => TasksRunOnce
  BY DEF CollectionInv, RowsAreClaimedOnce
<1> QED BY <1>1, CollectionInvariant, PTL

\* Campaign.finish: a recorded batch is whole, in the queue and on disk, and stays so.
THEOREM RecordedBatchesStayWhole == Spec => []RecordedBatchesAreWhole
<1>1. CollectionInv => RecordedBatchesAreWhole
  <2> SUFFICES ASSUME CollectionInv, NEW b \in recorded, NEW i \in ItemsOf(b)
               PROVE  /\ row[i] = "recorded" /\ result[i] # None /\ result[i].trace
                      /\ receipt[i] # None /\ receipt[i].trace
    BY DEF RecordedBatchesAreWhole
  <2>1. i \in Items
    BY BatchItems DEF CollectionInv
  <2>2. row[i] = "recorded" /\ result[i].trace
    BY DEF CollectionInv, BatchesStand
  <2> QED BY <2>1, <2>2 DEF CollectionInv, ReceiptsAgree
<1> QED BY <1>1, CollectionInvariant, PTL

\* collection_retirement.py: a State is released only for a complete trace with its plan
\* and its receipt on disk.
THEOREM ReleasesArePlanned == Spec => []ReleaseIsPlanned
<1>1. CollectionInv => ReleaseIsPlanned
  BY DEF CollectionInv
<1> QED BY <1>1, CollectionInvariant, PTL

\* dispatch: after a retirement fault the runner claims nothing.
THEOREM FaultsStopClaims == Spec => FaultsStopTheRunner
<1>1. CollectionInv /\ [Next]_vars =>
        [\A i \in Items : row[i] = "pending" /\ row'[i] = "running" => faults = {}]_vars
  BY FaultsStep DEF CollectionInv
<1> QED BY <1>1, CollectionInvariant, PTL DEF Spec, FaultsStopTheRunner

-----------------------------------------------------------------------------
(* What is left of a dispatch, the most significant part first.              *)

Unclaimed == Cardinality(Rows("pending"))
Claiming == IF stop \/ runner = "off" THEN 0 ELSE 1
InFlight == Cardinality(active)
Place == [off |-> 0, loop |-> 1, counting |-> 2][runner]

\* What is left of the execution of a task.
StagesLeft(i) ==
    [executing |-> 5, checking |-> 4, sealing |-> 3, releasing |-> 2, saving |-> 1,
     none |-> 0, returned |-> 0, dead |-> 0][worker[i]]

DispatchesAreBounded ==
    runner # "off" =>
        /\ Unclaimed \in Nat /\ Claiming \in 0..1 /\ Place \in 0..2
        /\ InFlight \in 0..concurrency

LessToDispatch ==
    \/ Unclaimed' < Unclaimed
    \/ Unclaimed' = Unclaimed /\ Claiming' < Claiming
    \/ Unclaimed' = Unclaimed /\ Claiming' = Claiming /\ InFlight' < InFlight
    \/ Unclaimed' = Unclaimed /\ Claiming' = Claiming /\ InFlight' = InFlight /\ Place' < Place

NothingToDispatch ==
    Unclaimed' = Unclaimed /\ Claiming' = Claiming /\ InFlight' = InFlight /\ Place' = Place

\* Each step of a dispatch leaves less of it, whatever its workers, the deadline and a broken
\* pool do in between; each step of a worker leaves less of its task, which only a claim begins.
DispatchStep ==
    /\ runner # "off" /\ Runner => LessToDispatch
    /\ runner # "off" /\ runner' # "off" => LessToDispatch \/ NothingToDispatch
    /\ \A i \in Items :
          /\ Worker(i) => StagesLeft(i)' < StagesLeft(i)
          /\ row[i] # "pending" \/ row'[i] # "running" => StagesLeft(i)' <= StagesLeft(i)
StepsAreBounded == [][DispatchStep]_vars

\* The loop runs within a campaign or for an operator, and its pool has slots for tasks
\* of the batch.
DispatchInv ==
    runner # "off" =>
        /\ campaign \in {"collecting", "operator"}
        /\ active \subseteq ItemsOf(current)
        /\ Cardinality(active) \in 0..concurrency

LEMMA BatchesAreFinite == \A b \in Batches : IsFiniteSet(ItemsOf(b))
<1> SUFFICES ASSUME NEW b \in Batches PROVE IsFiniteSet(ItemsOf(b))
  OBVIOUS
<1>1. Inventory[b] \in Seq(Items) /\ Len(Inventory[b]) \in Nat /\ DOMAIN Inventory[b] = 1..Len(Inventory[b])
  BY CollectionAssumption
<1>2. Inventory[b] \in Surjection(1..Len(Inventory[b]), ItemsOf(b))
  <2>1. Inventory[b] \in [1..Len(Inventory[b]) -> ItemsOf(b)]
    BY <1>1 DEF ItemsOf
  <2> QED BY <1>1, <2>1 DEF Surjection, ItemsOf
<1> QED BY <1>1, <1>2, FS_NatSurjection DEF ExistsSurjection

\* The tasks of the pool and the rows to claim are finitely many.
LEMMA DispatchIsFinite ==
    ASSUME CollectionTypeOK, TablesAreDisjoint, DispatchInv, runner # "off"
    PROVE  /\ current \in Batches
           /\ IsFiniteSet(active)
           /\ IsFiniteSet(Rows("pending")) /\ Unclaimed \in Nat
<1>1. current \in Batches
  BY AdmittedBatches DEF DispatchInv, TablesAreDisjoint
<1>2. IsFiniteSet(ItemsOf(current))
  BY <1>1, BatchesAreFinite
<1>3. Rows("pending") \subseteq ItemsOf(current)
  BY DEF Rows
<1>4. IsFiniteSet(active) /\ IsFiniteSet(Rows("pending"))
  BY <1>2, <1>3, FS_Subset DEF DispatchInv
<1> QED BY <1>1, <1>4, FS_CardinalityType DEF Unclaimed

LEMMA DispatchInvStep ==
    ASSUME CollectionTypeOK, TablesAreDisjoint, RowsAreClaimedOnce, DispatchInv, [Next]_vars
    PROVE  DispatchInv'
<1> USE CollectionAssumption
<1>0. active = {} => active \subseteq ItemsOf(current)' /\ Cardinality(active) \in 0..concurrency
  BY FS_EmptySet
<1>1. CASE Start
  <2>1. active' = {}
    BY <1>1 DEF Start, RowsAreClaimedOnce, runnerVars
  <2>2. runner' # "off" => campaign' \in {"collecting", "operator"}
    BY <1>1 DEF Start, GoTo, runnerVars
  <2>3. Cardinality(active') \in 0..concurrency
    BY <2>1, FS_EmptySet
  <2> QED BY <2>1, <2>2, <2>3 DEF DispatchInv
<1>2. ASSUME NEW i \in Items, claim(i) PROVE DispatchInv'
  <2>1. /\ runner # "off" /\ Cardinality(active) < concurrency /\ i \in ItemsOf(current)
        /\ active' = active \cup {i} /\ campaign' = campaign /\ current' = current
    BY <1>2 DEF claim, Looping, HasSlot, campaignVars, ItemsOf
  <2>2. IsFiniteSet(active) /\ Cardinality(active) \in Nat
    BY <2>1, DispatchIsFinite, FS_CardinalityType
  <2>3. Cardinality(active \cup {i}) \in {Cardinality(active), Cardinality(active) + 1}
    BY <2>2, FS_AddElement
  <2>4. concurrency \in Nat
    OBVIOUS
  <2>5. Cardinality(active') \in 0..concurrency
    BY <2>1, <2>2, <2>3, <2>4
  <2> QED BY <2>1, <2>5 DEF DispatchInv, ItemsOf
<1>3. ASSUME NEW i \in Items, finish(i) PROVE DispatchInv'
  <2>1. /\ runner # "off" /\ active' = active \ {i} /\ i \in active
        /\ campaign' = campaign /\ current' = current
    BY <1>3 DEF finish, Looping, campaignVars
  <2>2. IsFiniteSet(active) /\ Cardinality(active) \in Nat /\ Cardinality(active') \in Nat
    BY <2>1, DispatchIsFinite, FS_CardinalityType, FS_RemoveElement
  <2>3. Cardinality(active) \in 0..concurrency /\ concurrency \in Nat
    BY <2>1 DEF DispatchInv
  <2>4. Cardinality(active \ {i}) = Cardinality(active) - 1
    BY <2>1, <2>2, FS_RemoveElement
  <2>5. Cardinality(active') \in 0..concurrency
    BY <2>1, <2>2, <2>3, <2>4
  <2> QED BY <2>1, <2>5 DEF DispatchInv, ItemsOf
<1>4. CASE PoolBreaks
  <2>1. /\ runner # "off" /\ active' \subseteq active
        /\ campaign' = campaign /\ current' = current
    BY <1>4 DEF PoolBreaks, Looping, campaignVars
  <2>2. IsFiniteSet(active) /\ Cardinality(active) \in Nat
    BY <2>1, DispatchIsFinite, FS_CardinalityType
  <2>3. IsFiniteSet(active') /\ Cardinality(active') \in Nat /\ Cardinality(active') <= Cardinality(active)
    BY <2>1, <2>2, FS_Subset, FS_CardinalityType
  <2>4. Cardinality(active') \in 0..concurrency
    BY <2>1, <2>2, <2>3 DEF DispatchInv
  <2> QED BY <2>1, <2>4 DEF DispatchInv, ItemsOf
<1>5. CASE Exit \/ Kill
  BY <1>5 DEF Exit, Kill, RunnerEnds, DispatchInv
<1>6. CASE Campaign \/ Restart \/ AcknowledgeRecovery
  <2>1. runner' = runner /\ active' = active
    BY <1>6 DEF Campaign, admit, next_batch, CampaignEnds, CreateQueue, FillQueue, finish_batch,
       Restart, AcknowledgeRecovery, runnerVars
  <2>2. campaign \notin {"collecting", "operator"}
    BY <1>6 DEF Campaign, admit, next_batch, CampaignEnds, CreateQueue, FillQueue, finish_batch,
       Restart, AcknowledgeRecovery
  <2> QED BY <2>1, <2>2 DEF DispatchInv
<1>7. CASE UNCHANGED vars \/ StopClaiming \/ Count \/ Expire \/ \E i \in Items : Worker(i)
  <2>1. /\ runner # "off" <=> runner' # "off"
        /\ UNCHANGED <<active, campaign, current>>
    BY <1>7 DEF vars, StopClaiming, Looping, Count, Expire, Worker, Run, Evaluate, prepare_retirement, release,
       RetirementFails, SaveRetirement, NotWorker, runnerVars, campaignVars
  <2> QED BY <2>1 DEF DispatchInv, ItemsOf
<1> QED BY <1>1, <1>2, <1>3, <1>4, <1>5, <1>6, <1>7 DEF Next, Runner

\* Whatever else happens, the steps of a worker are its own.
LEMMA WorkersProgress ==
    ASSUME CollectionTypeOK, RowsAreClaimedOnce, [Next]_vars, NEW i \in Items
    PROVE  /\ Worker(i) => StagesLeft(i)' < StagesLeft(i)
           /\ row[i] # "pending" \/ row'[i] # "running" => StagesLeft(i)' <= StagesLeft(i)
<1>0. StagesLeft(i) \in 0..5
  BY DEF StagesLeft
<1>1. ASSUME Worker(i) PROVE StagesLeft(i)' < StagesLeft(i)
  <2>1. \/ worker[i] = "executing" /\ worker'[i] = "checking"
        \/ worker[i] = "checking" /\ worker'[i] \in {"sealing", "returned"}
        \/ worker[i] = "sealing" /\ worker'[i] \in {"releasing", "saving"}
        \/ worker[i] = "releasing" /\ worker'[i] = "saving"
        \/ worker[i] = "saving" /\ worker'[i] = "returned"
    BY <1>1 DEF Worker, Run, Evaluate, prepare_retirement, release, RetirementFails, SaveRetirement, Step
  <2> QED BY <2>1 DEF StagesLeft
<1>2. ASSUME row[i] # "pending" \/ row'[i] # "running", worker'[i] # worker[i], ~Worker(i)
      PROVE  worker'[i] = "dead"
  <2>1. ASSUME NEW j \in Items, Worker(j) PROVE FALSE
    <3>1. j # i
      BY <1>2, <2>1
    <3> QED BY <1>2, <2>1, <3>1 DEF Worker, Run, Evaluate, prepare_retirement, release, RetirementFails,
               SaveRetirement, Step
  <2>2. ASSUME NEW j \in Items, claim(j) PROVE FALSE
    <3>1. worker' = [worker EXCEPT ![j] = "executing"] /\ row' = [row EXCEPT ![j] = "running"] /\ row[j] = "pending"
      BY <2>2 DEF claim
    <3> QED BY <1>2, <3>1
  <2>3. CASE PoolBreaks \/ Kill
    BY <1>2, <2>3 DEF PoolBreaks, Kill, Die
  <2> QED
    BY <1>2, <2>1, <2>2, <2>3 DEF Next, Campaign, Runner, admit, next_batch, CampaignEnds, CreateQueue, FillQueue,
       finish_batch, Start, StopClaiming, Count, Exit, finish, Expire, Restart, AcknowledgeRecovery,
       workerVars, vars
<1>3. ASSUME row[i] # "pending" \/ row'[i] # "running" PROVE StagesLeft(i)' <= StagesLeft(i)
  <2>1. worker'[i] = worker[i] => StagesLeft(i)' = StagesLeft(i)
    BY DEF StagesLeft
  <2>2. worker'[i] = "dead" => StagesLeft(i)' = 0
    BY DEF StagesLeft
  <2>3. CASE Worker(i)
    <3>1. StagesLeft(i)' < StagesLeft(i)
      BY <1>1, <2>3
    <3>2. worker'[i] \in Live \cup {"returned"}
      BY <2>3 DEF Worker, Run, Evaluate, prepare_retirement, release, RetirementFails, SaveRetirement, Step
    <3>3. StagesLeft(i)' \in 0..5
      BY <3>2 DEF StagesLeft
    <3> QED BY <1>0, <3>1, <3>3
  <2> QED BY <1>0, <1>2, <1>3, <2>1, <2>2, <2>3
<1> QED BY <1>1, <1>3

\* What one action does to what is left of its dispatch.
LEMMA DispatchProgress ==
    ASSUME CollectionTypeOK, TablesAreDisjoint, RowsAreClaimedOnce, DispatchInv, [Next]_vars, runner # "off"
    PROVE  /\ Runner => LessToDispatch
           /\ runner' # "off" => LessToDispatch \/ NothingToDispatch
<1>1. current' = current => ItemsOf(current)' = ItemsOf(current)
  BY DEF ItemsOf
<1>2. current' = current /\ row' = row => Unclaimed' = Unclaimed
  BY <1>1 DEF Unclaimed, Rows
<1>3. ASSUME NEW i \in Items, claim(i) PROVE LessToDispatch
  <2>1. /\ current' = current /\ row[i] = "pending" /\ i \in ItemsOf(current)
        /\ row' = [row EXCEPT ![i] = "running"]
    BY <1>3 DEF claim, campaignVars, ItemsOf
  <2>2. ItemsOf(current) \subseteq Items
    BY DispatchIsFinite, BatchItems
  <2>3. Rows("pending")' = Rows("pending") \ {i} /\ i \in Rows("pending")
    BY <1>1, <2>1, <2>2 DEF Rows
  <2>4. IsFiniteSet(Rows("pending")) /\ Unclaimed \in Nat
    BY DispatchIsFinite
  <2>5. Cardinality(Rows("pending") \ {i}) = Cardinality(Rows("pending")) - 1
    BY <2>3, <2>4, FS_RemoveElement
  <2>6. Unclaimed' = Unclaimed - 1
    BY <2>3, <2>5 DEF Unclaimed
  <2> QED BY <2>4, <2>6 DEF LessToDispatch
<1>4. ASSUME NEW i \in Items, finish(i) PROVE LessToDispatch
  <2>1. /\ current' = current /\ row' = [row EXCEPT ![i] = "recorded"]
        /\ active' = active \ {i} /\ i \in active /\ row[i] = "running"
        /\ runner = "loop" /\ runner' = "counting" /\ (stop = TRUE => stop' = TRUE)
    BY <1>4 DEF finish, campaignVars, Looping, RowsAreClaimedOnce
  <2>2. Rows("pending")' = Rows("pending")
    BY <1>1, <2>1, DispatchIsFinite, BatchItems DEF Rows
  <2>3. Unclaimed' = Unclaimed
    BY <2>2 DEF Unclaimed
  <2>4. Claiming' < Claiming \/ Claiming' = Claiming
    <3>1. stop \in BOOLEAN
      OBVIOUS
    <3>2. Claiming = (IF stop = TRUE THEN 0 ELSE 1)
      BY <2>1, <3>1 DEF Claiming
    <3>3. Claiming' \in 0..1 /\ (stop' = TRUE => Claiming' = 0)
      BY DEF Claiming
    <3> QED BY <2>1, <3>2, <3>3
  <2>5. InFlight' < InFlight
    <3>1. Cardinality(active \ {i}) = Cardinality(active) - 1 /\ Cardinality(active) \in Nat
      BY <2>1, DispatchIsFinite, FS_RemoveElement, FS_CardinalityType
    <3> QED BY <2>1, <3>1 DEF InFlight
  <2> QED BY <2>3, <2>4, <2>5 DEF LessToDispatch
<1>5. ASSUME StopClaiming PROVE LessToDispatch
  <2>1. UNCHANGED <<current, row>> /\ ~stop /\ stop' = TRUE
    BY <1>5 DEF StopClaiming, HasSlot, campaignVars, queueVars
  <2>2. Claiming' < Claiming
    BY <2>1 DEF Claiming
  <2> QED BY <1>2, <2>1, <2>2 DEF LessToDispatch
<1>6. ASSUME Count PROVE LessToDispatch
  <2>1. UNCHANGED <<current, row, active, stop>> /\ runner = "counting" /\ runner' = "loop"
    BY <1>6 DEF Count, campaignVars
  <2>2. Claiming' = Claiming /\ InFlight' = InFlight /\ Place' < Place
    BY <2>1 DEF Claiming, InFlight, Place
  <2> QED BY <1>2, <2>1, <2>2 DEF LessToDispatch
<1>7. ASSUME Exit PROVE LessToDispatch
  <2>1. UNCHANGED <<current, row>> /\ active = {} /\ active' = {} /\ stop = TRUE
        /\ runner = "loop" /\ runner' = "off"
    BY <1>7 DEF Exit, RunnerEnds, Looping, queueVars
  <2>2. Claiming' = Claiming /\ InFlight' = InFlight /\ Place' < Place
    BY <2>1 DEF Claiming, InFlight, Place
  <2> QED BY <1>2, <2>1, <2>2 DEF LessToDispatch
<1>8. ASSUME PoolBreaks PROVE LessToDispatch \/ NothingToDispatch
  <2>1. UNCHANGED <<current, row, runner>> /\ stop' = TRUE /\ active' \subseteq active
    BY <1>8 DEF PoolBreaks, campaignVars, queueVars
  <2>2. Claiming' < Claiming \/ Claiming' = Claiming
    BY <2>1 DEF Claiming
  <2>3. InFlight' < InFlight \/ InFlight' = InFlight
    <3>1. /\ Cardinality(active) \in Nat /\ Cardinality(active') \in Nat
          /\ Cardinality(active') <= Cardinality(active)
      BY <2>1, DispatchIsFinite, FS_Subset, FS_CardinalityType
    <3> QED BY <3>1 DEF InFlight
  <2>4. Place' = Place
    BY <2>1 DEF Place
  <2> QED BY <1>2, <2>1, <2>2, <2>3, <2>4 DEF LessToDispatch, NothingToDispatch
<1>9. ASSUME UNCHANGED vars \/ Expire \/ \E i \in Items : Worker(i)
      PROVE  LessToDispatch \/ NothingToDispatch
  <2>1. UNCHANGED <<current, row, active, stop, runner>>
    BY <1>9 DEF vars, Expire, Worker, Run, Evaluate, prepare_retirement, release, RetirementFails, SaveRetirement,
       NotWorker, runnerVars, campaignVars, queueVars
  <2>2. Claiming' = Claiming /\ InFlight' = InFlight /\ Place' = Place
    BY <2>1 DEF Claiming, InFlight, Place
  <2> QED BY <1>2, <2>1, <2>2 DEF NothingToDispatch
<1>10. ASSUME Start \/ Campaign \/ Restart \/ AcknowledgeRecovery PROVE FALSE
  BY <1>10 DEF DispatchInv, Start, Campaign, admit, next_batch, CampaignEnds, CreateQueue, FillQueue, finish_batch,
     Restart, AcknowledgeRecovery
<1>11. Next <=> \/ \E i \in Items : claim(i) \/ finish(i)
                \/ StopClaiming \/ Count \/ Exit \/ PoolBreaks \/ Expire \/ Kill \/ Start \/ Campaign
                \/ Restart \/ AcknowledgeRecovery \/ \E i \in Items : Worker(i)
  BY DEF Next, Runner
<1>12. Runner => LessToDispatch
  BY <1>3, <1>4, <1>5, <1>6, <1>7, <1>10 DEF Runner
<1>13. ASSUME runner' # "off" PROVE LessToDispatch \/ NothingToDispatch
  <2>1. ~Kill
    BY <1>13 DEF Kill, RunnerEnds
  <2> QED BY <1>3, <1>4, <1>5, <1>6, <1>7, <1>8, <1>9, <1>10, <1>11, <2>1
<1> QED BY <1>12, <1>13

\* dispatch: whatever its workers, its pool and the deadline do, no loop of a runner goes on
\* for ever; each step leaves less of it, in an order without infinite descent.
THEOREM DispatchesStayBounded == Spec => []DispatchesAreBounded /\ StepsAreBounded
<1> DEFINE Inv == CollectionInv /\ DispatchInv
<1>1. Init => DispatchInv
  BY DEF Init, DispatchInv
<1>2. Inv /\ [Next]_vars => DispatchInv'
  BY DispatchInvStep DEF CollectionInv
<1>3. Inv => DispatchesAreBounded
  <2> SUFFICES ASSUME Inv, runner # "off" PROVE DispatchesAreBounded
    BY DEF DispatchesAreBounded
  <2>1. Unclaimed \in Nat
    BY DispatchIsFinite DEF CollectionInv
  <2>2. Claiming \in 0..1 /\ Place \in 0..2
    BY DEF CollectionInv, Claiming, Place
  <2> QED BY <2>1, <2>2 DEF DispatchesAreBounded, DispatchInv, InFlight
<1>4. Inv /\ [Next]_vars => [DispatchStep]_vars
  BY DispatchProgress, WorkersProgress DEF CollectionInv, DispatchStep
<1> HIDE DEF Inv
<1> QED BY <1>1, <1>2, <1>3, <1>4, CollectionInvariant, PTL DEF Spec, StepsAreBounded, Inv

=================================================================================
