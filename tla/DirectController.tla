---------------------------- MODULE DirectController ----------------------------
(***************************************************************************)
(* One run of the direct controller (controller.py, run() without a         *)
(* supervisor) over the store of runs (store.py).  A controller holds the    *)
(* lease of the run, loads its record, and saves it after every step with a  *)
(* compare-and-swap of the revision; it asks the model for the next          *)
(* operation, records it, performs it and records its result.  Controllers   *)
(* are killed; one that was suspended for longer than its lease goes on      *)
(* beside its successor.                                                     *)
(*                                                                           *)
(* The revision is abstracted to what the comparison tells: whether somebody *)
(* else has saved since a controller loaded or saved (stale).  Saves that    *)
(* change nothing kept here (an accepted reply, the event of a rejection, a  *)
(* new session, the note of a recovery) are one step with the save that      *)
(* follows them.                                                             *)
(***************************************************************************)
EXTENDS Naturals, FiniteSets, Sequences

CONSTANTS
    Controllers,    \* the processes that may call run() for this run
    Operations,     \* operations with their arguments
    Kind,           \* the contract of an operation
    max_transitions,
    TransportLimit, RejectionLimit, FailureLimit, ZeroProgressLimit, TerminalLimit,
    MaxActions,     \* bound on the actions of a run
    MaxCalls,       \* bound on the calls of run()
    MaxLapses,      \* bound on the leases that lapse under a live controller
    Nobody, Orphan  \* no lease; the lease of a controller that was killed

\* read: observes only; mutation: idempotent, in the workspace; once: not idempotent;
\* snapshot: not idempotent, but its provider's answer is kept.
Kinds == {"read", "mutation", "once", "snapshot"}

ASSUME DirectAssumption ==
    /\ Kind \in [Operations -> Kinds]
    /\ {max_transitions, TransportLimit, RejectionLimit, FailureLimit, ZeroProgressLimit,
        TerminalLimit} \subseteq Nat \ {0}
    /\ {MaxActions, MaxCalls, MaxLapses} \subseteq Nat
    /\ Nobody \notin Controllers /\ Orphan \notin Controllers /\ Nobody # Orphan

VARIABLES
    run,        \* the row of the run
    lease,      \* run_leases.owner_id
    stale,      \* the controllers whose copy of the record is behind the row
    pc,         \* where a controller is
    job,        \* the action it performs, 0 for none
    outcome,    \* what performing it has returned
    pending,    \* pending_events: the action whose result is to be appended, 0 for none
    forced,     \* forced_terminal_event: the action of the boundary, 0 for none
    turns, fails,   \* transitions; transport failures or terminal attempts in a row
    effects,    \* history: how often an action took effect
    kept,       \* the actions whose provider's answer was committed as a snapshot
    calls, lapses

storeVars == <<run, lease, stale>>
localVars == <<job, outcome, pending, forced, turns, fails>>
worldVars == <<effects, kept>>
boundVars == <<calls, lapses>>
vars == <<storeVars, pc, localVars, worldVars, boundVars>>

Ids == 1..MaxActions
Running(n) == run.actions[n].status = "running"
ActiveActions == {n \in DOMAIN run.actions : Running(n)}

DirectTypeOK ==
    /\ run \in [goal : BOOLEAN,         \* run_lifecycle_policy: "goal", and not "bounded"
                status : {"created", "running", "completed", "interrupted", "failed"},
                actions : Seq([op : Operations,
                               status : {"running", "succeeded", "failed", "interrupted"}]),
                seen : SUBSET Ids,      \* actions whose result is in the lane of the model
                boundary : Nat,         \* the last idempotent_mutation_repeat_boundary
                told : BOOLEAN,         \* and whether its event is in the lane
                rejections : Nat,       \* protocol rejections that count
                epoch : Nat]            \* actions that repeat limits have forgotten
    /\ Len(run.actions) <= MaxActions
    /\ lease \in Controllers \cup {Nobody, Orphan}
    /\ stale \subseteq Controllers
    /\ pc \in [Controllers -> {"off", "recover", "replay", "replayed", "start", "loop", "asked",
                               "perform", "finish", "repeat", "stop", "closing"}]
    /\ job \in [Controllers -> Nat] /\ pending \in [Controllers -> Nat]
    /\ forced \in [Controllers -> Nat]
    /\ outcome \in [Controllers -> {"none", "succeeded", "failed"}]
    /\ turns \in [Controllers -> Nat] /\ fails \in [Controllers -> Nat]
    /\ effects \in [Ids -> Nat] /\ kept \subseteq Ids
    /\ calls \in 0..MaxCalls /\ lapses \in 0..MaxLapses

Init ==
    /\ \E goal \in BOOLEAN :
          run = [goal |-> goal, status |-> "created", actions |-> <<>>, seen |-> {},
                 boundary |-> 0, told |-> FALSE, rejections |-> 0, epoch |-> 0]
    /\ lease = Nobody /\ stale = {}
    /\ pc = [c \in Controllers |-> "off"]
    /\ job = [c \in Controllers |-> 0] /\ pending = [c \in Controllers |-> 0]
    /\ forced = [c \in Controllers |-> 0]
    /\ outcome = [c \in Controllers |-> "none"]
    /\ turns = [c \in Controllers |-> 0] /\ fails = [c \in Controllers |-> 0]
    /\ effects = [n \in Ids |-> 0] /\ kept = {}
    /\ calls = 0 /\ lapses = 0

-----------------------------------------------------------------------------
(* The store.                                                                *)

Active == {c \in Controllers : pc[c] # "off"}

\* Mutant: the revision is not compared.
SaveAnyway(c, record) ==
    /\ run' = record
    /\ stale' = stale
    /\ UNCHANGED lease

\* save(expected_revision): everybody else falls behind.
Save(c, record) ==
    /\ c \notin stale
    /\ run' = record
    /\ stale' = stale \cup (Active \ {c})
    /\ UNCHANGED lease

Goto(c, place) == pc' = [pc EXCEPT ![c] = place]
At(c, place) == pc[c] = place
Keep(c, var, value) == [var EXCEPT ![c] = value]

\* The call of run() returns or raises; a lease is released by its owner only.
Leave(c) ==
    /\ Goto(c, "off")
    /\ job' = Keep(c, job, 0) /\ pending' = Keep(c, pending, 0) /\ forced' = Keep(c, forced, 0)
    /\ outcome' = Keep(c, outcome, "none")
    /\ turns' = Keep(c, turns, 0) /\ fails' = Keep(c, fails, 0)

Released(c) == IF lease = c THEN Nobody ELSE lease

\* Leave after a save
SaveAndLeave(c, record) ==
    /\ c \notin stale
    /\ run' = record
    /\ stale' = (stale \cup Active) \ {c}
    /\ lease' = Released(c)
    /\ Leave(c)

\* ConcurrentStateError: a save finds another revision.  A stale controller gets as far as
\* its next save; what it does until then is only seen when it performs an operation.
Abort(c) ==
    /\ c \in stale /\ pc[c] \notin {"replay", "perform"}
    /\ lease' = Released(c) /\ stale' = stale \ {c}
    /\ Leave(c)
    /\ UNCHANGED <<run, worldVars, boundVars>>

\* controller_lease and load; a completed run returns at once.
Begin(c) ==
    /\ At(c, "off") /\ calls < MaxCalls /\ calls' = calls + 1
    /\ lease = Nobody /\ run.status # "completed"
    /\ lease' = c /\ stale' = stale \ {c}
    /\ \/ ActiveActions = {} /\ Goto(c, "start") /\ UNCHANGED job
       \/ \E n \in ActiveActions : job' = Keep(c, job, n) /\ Goto(c, "recover")
    /\ UNCHANGED <<run, outcome, pending, forced, turns, fails, worldVars, lapses>>

\* The lease of a dead process runs out, or that of a process that did not renew in time.
Lapse ==
    /\ lease # Nobody
    /\ lease' = Nobody
    /\ IF lease = Orphan THEN UNCHANGED lapses ELSE lapses < MaxLapses /\ lapses' = lapses + 1
    /\ UNCHANGED <<run, stale, pc, localVars, worldVars, calls>>

Kill(c) ==
    /\ pc[c] # "off"
    /\ lease' = IF lease = c THEN Orphan ELSE lease
    /\ stale' = stale \ {c}
    /\ Leave(c)
    /\ UNCHANGED <<run, worldVars, boundVars>>

-----------------------------------------------------------------------------
(* The action a predecessor has left running.                                *)

KindOf(n) == Kind[run.actions[n].op]
Snapshots == {n \in DOMAIN run.actions : KindOf(n) = "snapshot"}
Concluded(n, status) == [op |-> run.actions[n].op, status |-> status]
WithStatus(n, status) == [run EXCEPT !.actions[n] = Concluded(n, status)]

\* Mutant: whatever was interrupted is done again.
ReplayAll(n) == TRUE

Replayable(n) == KindOf(n) \in {"read", "mutation"}

\* Mutant: the answer of a provider is taken to be kept.
TakenForKept(n, status) ==
    IF KindOf(n) = "snapshot" THEN status \in {"succeeded", "failed"} ELSE status = "interrupted"

\* A committed snapshot is read again, which may fail; otherwise the effect is unknown.
RecoveredAs(n, status) ==
    IF KindOf(n) = "snapshot" /\ n \in kept
    THEN status \in {"succeeded", "failed"}
    ELSE status = "interrupted"

\* It is performed again under the same id, however old the copy is by now.
Replay(c) ==
    /\ At(c, "recover") /\ Replayable(job[c])
    /\ Goto(c, "replay")
    /\ UNCHANGED <<storeVars, localVars, worldVars, boundVars>>

Recover(c) ==
    /\ At(c, "recover") /\ ~Replayable(job[c])
    /\ \E status \in {"succeeded", "failed", "interrupted"} :
          /\ RecoveredAs(job[c], status)
          /\ Save(c, WithStatus(job[c], status))
    /\ job' = Keep(c, job, 0)
    /\ Goto(c, "start")
    /\ UNCHANGED <<outcome, pending, forced, turns, fails, worldVars, boundVars>>

Unappended == {n \in DOMAIN run.actions : ~Running(n) /\ n \notin run.seen}

\* Mutant: the lane of the model is taken to be up to date.
NothingUnappended == 0

first_unappended_action == IF Unappended = {} THEN 0
                           ELSE CHOOSE n \in Unappended : \A k \in Unappended : n <= k

pending_repeat == IF run.goal \/ run.told THEN 0 ELSE run.boundary

\* run_started, unless the run is in progress already; then what is still to be told.
Start(c) ==
    /\ At(c, "start")
    /\ IF run.status = "running" THEN c \notin stale /\ UNCHANGED storeVars
       ELSE Save(c, [run EXCEPT !.status = "running"])
    /\ pending' = Keep(c, pending, first_unappended_action)
    /\ forced' = Keep(c, forced, pending_repeat)
    /\ Goto(c, "loop")
    /\ UNCHANGED <<job, outcome, turns, fails, worldVars, boundVars>>

-----------------------------------------------------------------------------
(* The loop.                                                                 *)

\* The transition budget is spent.
Exhaust(c) ==
    /\ At(c, "loop") /\ turns[c] >= max_transitions
    /\ Goto(c, "stop")
    /\ UNCHANGED <<storeVars, localVars, worldVars, boundVars>>

\* The pending event is appended to the lane of the model, and the model is called.
Ask(c) ==
    /\ At(c, "loop") /\ turns[c] < max_transitions
    /\ IF forced[c] # 0
       THEN Save(c, [run EXCEPT !.told = TRUE])
       ELSE IF pending[c] = 0 \/ pending[c] \in run.seen
            THEN c \notin stale /\ UNCHANGED storeVars
            ELSE Save(c, [run EXCEPT !.seen = @ \cup {pending[c]}])
    /\ Goto(c, "asked")
    /\ UNCHANGED <<localVars, worldVars, boundVars>>

\* Mutant: a failure that may be retried is not counted.
CountNonRetryable(c, retryable) == IF retryable THEN fails[c] ELSE fails[c] + 1

CountFailure(c, retryable) == fails[c] + 1

\* model_transport_failure; whether it may be retried depends on the error.
TransportFails(c, retryable) ==
    /\ pc[c] \in {"loop", "asked"} /\ turns[c] < max_transitions
    /\ Save(c, run)
    /\ LET count == CountFailure(c, retryable)
           ends == ~retryable \/ count >= TransportLimit IN
        /\ Goto(c, IF ends THEN "stop" ELSE "loop")
        /\ fails' = Keep(c, fails, IF ends THEN 0 ELSE count)
    /\ UNCHANGED <<job, outcome, pending, forced, turns, worldVars, boundVars>>

\* model_call_rejected and protocol_rejection_recorded: in goal mode what counts begins anew
\* with each yield.
Reject(c) ==
    /\ At(c, "asked")
    /\ Save(c, [run EXCEPT !.rejections = @ + 1])
    /\ turns' = Keep(c, turns, turns[c] + 1)
    /\ pending' = Keep(c, pending, 0)
    /\ Goto(c, IF run.rejections + 1 >= RejectionLimit THEN "stop" ELSE "loop")
    /\ UNCHANGED <<job, outcome, forced, fails, worldVars, boundVars>>

\* model_call_accepted with the final answer, and run_completed
Complete(c) ==
    /\ At(c, "asked")
    /\ SaveAndLeave(c, [run EXCEPT !.status = "completed"])
    /\ UNCHANGED <<worldVars, boundVars>>

\* model_call_accepted with an operation, which a boundary does not allow, and
\* action_started: it is saved before anything is done.
StartAction(c, op) ==
    /\ At(c, "asked") /\ forced[c] = 0 /\ Len(run.actions) < MaxActions
    /\ Save(c, [run EXCEPT !.actions = Append(@, [op |-> op, status |-> "running"])])
    /\ job' = Keep(c, job, Len(run.actions) + 1)
    /\ turns' = Keep(c, turns, turns[c] + 1)
    /\ pending' = Keep(c, pending, 0) /\ fails' = Keep(c, fails, 0)
    /\ Goto(c, "perform")
    /\ UNCHANGED <<outcome, forced, worldVars, boundVars>>

\* harness.execute: nothing here looks at the store.
Perform(c) ==
    /\ pc[c] \in {"perform", "replay"}
    /\ effects' = [effects EXCEPT ![job[c]] = @ + 1]
    /\ kept' \in {kept} \cup {kept \cup {n} : n \in {job[c]} \cap Snapshots}
    /\ \E result \in {"succeeded", "failed"} : outcome' = Keep(c, outcome, result)
    /\ Goto(c, IF At(c, "replay") THEN "replayed" ELSE "finish")
    /\ UNCHANGED <<storeVars, job, pending, forced, turns, fails, boundVars>>

\* Earlier results like this one: since the last yield in goal mode
Alike(record, n) ==
    {k \in DOMAIN record.actions : k > record.epoch /\ record.actions[k] = record.actions[n]}

\* What follows a result: a limit ends the loop, a repeated mutation closes the menu.
After(record, n) ==
    LET count == Cardinality(Alike(record, n))
        kind == KindOf(n)
        status == record.actions[n].status IN
    IF status = "failed" /\ count >= FailureLimit THEN {"stop"}
    ELSE IF status = "succeeded" /\ kind = "read" /\ count >= ZeroProgressLimit THEN {"stop"}
    ELSE IF ~run.goal /\ status = "succeeded" /\ kind = "mutation" /\ count >= 2
         THEN {"repeat", "loop"}      \* whether it changed a byte
    ELSE {"loop"}

\* action_finished
FinishAction(c) ==
    /\ At(c, "finish")
    /\ LET n == job[c]
           record == WithStatus(n, outcome[c]) IN
        /\ Save(c, record)
        /\ \E next \in After(record, n) :
              /\ Goto(c, next)
              /\ job' = Keep(c, job, IF next = "repeat" THEN n ELSE 0)
        /\ pending' = Keep(c, pending, n)
    /\ outcome' = Keep(c, outcome, "none")
    /\ UNCHANGED <<forced, turns, fails, worldVars, boundVars>>

FinishReplay(c) ==
    /\ At(c, "replayed")
    /\ Save(c, WithStatus(job[c], outcome[c]))
    /\ Goto(c, "start")
    /\ job' = Keep(c, job, 0) /\ outcome' = Keep(c, outcome, "none")
    /\ UNCHANGED <<pending, forced, turns, fails, worldVars, boundVars>>

\* idempotent_mutation_repeat_boundary
CloseMenu(c) ==
    /\ At(c, "repeat")
    /\ Save(c, [run EXCEPT !.boundary = job[c], !.told = FALSE])
    /\ forced' = Keep(c, forced, job[c])
    /\ job' = Keep(c, job, 0)
    /\ Goto(c, "loop")
    /\ UNCHANGED <<outcome, pending, turns, fails, worldVars, boundVars>>

-----------------------------------------------------------------------------
(* _terminal_output.                                                         *)

\* A goal only yields: nobody but the model ends it.
Yield(c) ==
    /\ At(c, "stop") /\ run.goal
    /\ SaveAndLeave(c, [run EXCEPT !.epoch = Len(run.actions), !.rejections = 0])
    /\ UNCHANGED <<worldVars, boundVars>>

\* A bounded run asks for a last answer, so many times; rejected answers and failed calls
\* have limits of their own there, and one here.
AskLast(c) ==
    /\ At(c, "stop") /\ ~run.goal
    /\ Save(c, run)
    /\ Goto(c, "closing")
    /\ fails' = Keep(c, fails, 0)
    /\ UNCHANGED <<job, outcome, pending, forced, turns, worldVars, boundVars>>

LastAnswerFails(c) ==
    /\ At(c, "closing") /\ fails[c] + 1 < TerminalLimit
    /\ Save(c, run)
    /\ fails' = Keep(c, fails, fails[c] + 1)
    /\ UNCHANGED <<pc, job, outcome, pending, forced, turns, worldVars, boundVars>>

\* run_failed: the last attempt has failed, or a call that may not be repeated
FailRun(c) ==
    /\ At(c, "closing")
    /\ SaveAndLeave(c, [run EXCEPT !.status = "failed"])
    /\ UNCHANGED <<worldVars, boundVars>>

\* run_interrupted with the answer
LastAnswer(c) ==
    /\ At(c, "closing")
    /\ SaveAndLeave(c, [run EXCEPT !.status = "interrupted"])
    /\ UNCHANGED <<worldVars, boundVars>>

-----------------------------------------------------------------------------
Controller(c) ==
    \/ Replay(c) \/ Recover(c) \/ Start(c) \/ Exhaust(c) \/ Ask(c) \/ Reject(c) \/ Complete(c)
    \/ \E retryable \in BOOLEAN : TransportFails(c, retryable)
    \/ \E op \in Operations : StartAction(c, op)
    \/ Perform(c) \/ FinishAction(c) \/ FinishReplay(c) \/ CloseMenu(c)
    \/ Yield(c) \/ AskLast(c) \/ LastAnswerFails(c) \/ LastAnswer(c) \/ FailRun(c)
    \/ Abort(c)

Next == Lapse \/ \E c \in Controllers : Begin(c) \/ Kill(c) \/ Controller(c)

Spec == Init /\ [][Next]_vars

\* A controller that is not killed goes on: model calls and operations have time limits.
FairSpec == Spec /\ \A c \in Controllers : WF_vars(Controller(c))

-----------------------------------------------------------------------------
(* Properties.                                                               *)

\* An operation that must not be repeated takes effect at most once under its action,
\* over kills, recoveries and a suspended controller that goes on beside its successor.
OnceActionsRunOnce ==
    \A n \in DOMAIN run.actions : KindOf(n) \in {"once", "snapshot"} => effects[n] <= 1

\* What is recorded as succeeded has happened, also when a successor recorded it.
SuccessesHappened ==
    \A n \in DOMAIN run.actions : run.actions[n].status = "succeeded" => effects[n] >= 1

\* The controllers of a run keep one log between them, whichever of them is killed, loses
\* its lease or goes on beside its successor: see ActionLog.
Log == INSTANCE ActionLog WITH
    Once <- {op \in Operations : Kind[op] \in {"once", "snapshot"}},
    log <- run.actions,
    closed <- run.status = "completed"

ControllersKeepALog == Log!Spec

\* The model has been told the result of every earlier action, also of an interrupted one,
\* before it is given another one to perform.
ActionsSeeEarlierResults ==
    \A n \in DOMAIN run.actions : n < Len(run.actions) => n \in run.seen

\* A completed run stays as it is, whoever still works on it.
CompletionStands == [][run.status = "completed" => run' = run]_run

\* Every call of run() ends.
ControllerEnds == \A c \in Controllers : (pc[c] # "off") ~> (pc[c] = "off")
=================================================================================
