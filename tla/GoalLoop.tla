-------------------------------- MODULE GoalLoop --------------------------------
(***************************************************************************)
(* The goal loop (stateful_goal_loop.py): a planner writes a rolling plan    *)
(* in stages (goal_loop_protocol.py), an executor performs one action for    *)
(* the first open step, an auditor judges the evidence, a checker reviews    *)
(* every completed stage, and a final answer passes a last audit.  All of    *)
(* it is derived from the stored events of the run, so every save is a step  *)
(* here, and the controller may be killed after each of them.                *)
(*                                                                           *)
(* Steps are numbered in the order in which patches add them, which is the   *)
(* order of the frontier.  A dependency of a step lies in an earlier stage   *)
(* and is complete when its stage is reached, so stages stand for            *)
(* dependencies.  Saves that record a fact nothing here looks at are one     *)
(* step with the save that follows.  Leases are in DirectController.         *)
(***************************************************************************)
EXTENDS Naturals, FiniteSets, Sequences, FiniteSetsExt

CONSTANTS
    Stages,              \* numbers of stages
    Obligations,         \* phases of obligations the first patch declares
    MaxSteps,            \* bound on the steps of all patches
    MaxActions,          \* bound on the actions
    MaxPatches,          \* bound on the patches
    MaxRuns,             \* bound on the calls of run()
    max_transitions,
    ProtocolLimit,       \* _MAX_PROTOCOL_REJECTIONS
    AuditLimit,          \* _MAX_AUDIT_PROTOCOL_REJECTIONS
    FinalLimit,          \* _MAX_IDENTICAL_FINAL_AUDIT_REJECTIONS
    IdenticalLimit,      \* actions with the same result before the loop stops
    TransportLimit,      \* _MAX_TRANSPORT_FAILURES
    None

StepIds == 1..MaxSteps
ActionIds == 1..MaxActions
PlanStep == [stage : Stages, covers : SUBSET Obligations \ {{}}, revision : Nat]

\* covers: succeeded and touched the roots of its step; strays: a command whose changes
\* leave them or cannot be seen; gap: anything else.
Results == {"covers", "gap", "strays"}

Judgements == [kind : {"action", "pre_final"}, action : 0..MaxActions,
               verdict : {"none", "continue", "repair", "ready"}]

ASSUME GoalAssumption ==
    /\ Stages \subseteq Nat \ {0} /\ Stages # {}
    /\ IsFiniteSet(Obligations) /\ Obligations # {}
    /\ {MaxSteps, MaxActions, MaxPatches, MaxRuns} \subseteq Nat
    /\ {max_transitions, ProtocolLimit, AuditLimit, FinalLimit, IdenticalLimit,
        TransportLimit} \subseteq Nat \ {0}
    /\ None \notin Judgements \cup PlanStep \cup StepIds \X Nat

VARIABLES
    status,       \* of the run
    plan,         \* [step, known, patches]: the plan, the ids used, the number of patches
    evidence,     \* completed_evidence, {} for an open step
    actions,      \* the actions with their step and result
    observed,     \* actions whose result is a fact the models are given
    settled,      \* actions whose audit boundary is resolved
    boundary,     \* the unresolved audit boundary
    reviewed,     \* keys of reviewed stages
    stageRepair,  \* a stage review that asks for a repair and has no patch yet
    finalRepair,  \* a rejected final audit that asks for a repair and has no patch yet
    finals,       \* identical rejections of final answers since progress
    rejections,   \* protocol rejections since progress or a manual resume
    auditRejections,    \* those of the unresolved boundary
    pc,           \* where the controller is
    observation,  \* pending_observation
    turns, fails, \* transitions, transport failures in a row
    runs          \* calls of run()

planVars == <<plan, evidence>>
actionVars == <<actions, observed, settled, boundary>>
reviewVars == <<reviewed, stageRepair, finalRepair>>
countVars == <<finals, rejections, auditRejections>>
localVars == <<observation, turns, fails>>
vars == <<status, planVars, actionVars, reviewVars, countVars, pc, localVars, runs>>

GoalTypeOK ==
    /\ status \in {"created", "running", "interrupted", "blocked", "completed"}
    /\ plan \in [step : [StepIds -> PlanStep \cup {None}], known : 0..MaxSteps, patches : Nat]
    /\ evidence \in [StepIds -> SUBSET ActionIds]
    /\ actions \in Seq([chosen : StepIds \X Nat, bound : (StepIds \X Nat) \cup {None},
                        result : Results \cup {"running"}])
    /\ observed \subseteq ActionIds /\ settled \subseteq ActionIds
    /\ boundary \in Judgements \cup {None}
    /\ stageRepair \in BOOLEAN /\ finalRepair \in BOOLEAN
    /\ finals \in Nat /\ rejections \in Nat /\ auditRejections \in Nat
    /\ pc \in {"off", "starting", "loop", "going", "acting", "finished", "assigned", "final",
               "audited", "rejected", "ready", "blocking"}
    /\ observation \in 0..MaxActions /\ turns \in Nat /\ fails \in Nat
    /\ runs \in 0..MaxRuns

Init ==
    /\ status = "created"
    /\ plan = [step |-> [s \in StepIds |-> None], known |-> 0, patches |-> 0]
    /\ evidence = [s \in StepIds |-> {}]
    /\ actions = <<>> /\ observed = {} /\ settled = {} /\ boundary = None
    /\ reviewed = {} /\ stageRepair = FALSE /\ finalRepair = FALSE
    /\ finals = 0 /\ rejections = 0 /\ auditRejections = 0
    /\ pc = "off" /\ observation = 0 /\ turns = 0 /\ fails = 0 /\ runs = 0

-----------------------------------------------------------------------------
(* The rolling plan.                                                         *)

Steps == {s \in StepIds : plan.step[s] # None}
StageOf(s) == plan.step[s].stage
open_step_ids == {s \in Steps : evidence[s] = {}}
current_stage == Min({StageOf(s) : s \in open_step_ids})
frontier == {s \in open_step_ids : StageOf(s) = current_stage}
stage_steps(stage) == {s \in Steps : StageOf(s) = stage}
completed_stages == {StageOf(s) : s \in Steps} \ {StageOf(s) : s \in open_step_ids}

\* A stage is reviewed as it stands: a step added or done anew is another key.
stage_boundary_key(stage) ==
    {<<s, plan.step[s].revision, evidence[s]>> : s \in stage_steps(stage)}

uncovered == Obligations \ UNION {plan.step[s].covers : s \in Steps \ open_step_ids}

\* Mutant: the goal is done when the plan is.
all_done == Steps # {} /\ open_step_ids = {}

complete == Steps # {} /\ open_step_ids = {} /\ uncovered = {}

Unreviewed == {stage \in completed_stages : stage_boundary_key(stage) \notin reviewed}
Binding(s) == <<s, plan.step[s].revision>>

\* apply_goal_patch: only open steps are replaced or discarded, and ids are never used again.
Patched(new, replaced, discarded) ==
    [step |-> [s \in StepIds |->
                 IF s \in DOMAIN replaced
                 THEN [stage |-> replaced[s].stage, covers |-> replaced[s].covers,
                       revision |-> plan.step[s].revision + 1]
                 ELSE IF s \in discarded THEN None
                 ELSE IF s \in plan.known + 1 .. plan.known + Len(new) THEN new[s - plan.known]
                 ELSE plan.step[s]],
     known |-> plan.known + Len(new),
     patches |-> plan.patches + 1]

-----------------------------------------------------------------------------
(* The position of the controller.                                           *)

\* The top of the loop with its two limits, or the middle of an iteration.
Iterating ==
    \/ pc = "loop" /\ turns < max_transitions /\ rejections < ProtocolLimit
    \/ pc = "going"

Deciding == Iterating /\ Steps # {} /\ boundary = None /\ observation = 0
Working == Deciding /\ ~finalRepair /\ ~stageRepair

\* Mutant: stages are reviewed when the work is done.
ReviewedAtEnd == Working /\ (open_step_ids = {} => Unreviewed = {})

PastReview == Working /\ Unreviewed = {}

AnswerDue == PastReview /\ complete /\ finals < FinalLimit

\* The executor or the finalizer is asked.
CallDue == AnswerDue \/ (PastReview /\ open_step_ids # {})

\* Mutant: audits cost nothing.
TurnOfWork == turns' = IF boundary = None THEN turns + 1 ELSE turns

Turn == turns' = turns + 1
Return(to) == status' = to /\ pc' = "off" /\ observation' = 0 /\ turns' = 0 /\ fails' = 0

\* _yield, after a planner, a checker or the model could not be reached
Yields ==
    /\ Return("interrupted")
    /\ UNCHANGED <<planVars, actionVars, reviewVars, countVars, runs>>

-----------------------------------------------------------------------------
(* A call of run().                                                          *)

Begin ==
    /\ pc = "off" /\ status # "completed" /\ runs < MaxRuns
    /\ runs' = runs + 1 /\ pc' = "starting"
    /\ UNCHANGED <<status, planVars, actionVars, reviewVars, countVars, localVars>>

WithResult(n, result) ==
    [actions EXCEPT ![n] = [chosen |-> actions[n].chosen, bound |-> actions[n].bound, result |-> result]]

\* The action a killed controller has left running is performed again, or interrupted.
_recover_active_action ==
    /\ pc = "starting"
    /\ \E n \in DOMAIN actions, result \in Results :
          /\ actions[n].result = "running"
          /\ actions' = WithResult(n, result)
    /\ finals' = 0 /\ rejections' = 0
    /\ UNCHANGED <<status, planVars, observed, settled, boundary, reviewVars, auditRejections,
                   pc, localVars, runs>>

Unappended == {n \in DOMAIN actions : actions[n].result # "running" /\ n \notin observed}

\* Mutant: results are taken to be known.
all_appended == 0

first_unappended_action == IF Unappended = {} THEN 0 ELSE Min(Unappended)

\* Mutant: a resume counts on from where the run was blocked.
StartCounting ==
    /\ pc = "starting"
    /\ \A n \in DOMAIN actions : actions[n].result # "running"
    /\ status' = "running" /\ pc' = "loop"
    /\ observation' = first_unappended_action
    /\ UNCHANGED <<planVars, actionVars, reviewVars, countVars, turns, fails, runs>>

\* run_started; after a block somebody has looked at the run, and rejections count anew.
StartRun ==
    /\ pc = "starting"
    /\ \A n \in DOMAIN actions : actions[n].result # "running"
    /\ status' = "running" /\ pc' = "loop"
    /\ observation' = first_unappended_action
    /\ rejections' = IF status = "blocked" THEN 0 ELSE rejections
    /\ auditRejections' = IF status = "blocked" THEN 0 ELSE auditRejections
    /\ UNCHANGED <<planVars, actionVars, reviewVars, finals, turns, fails, runs>>

Exhaust ==
    /\ pc = "loop" /\ turns >= max_transitions
    /\ Yields

\* run_blocked: at a limit, or because an input or a target cannot be made to fit
_block ==
    /\ \/ pc = "blocking"
       \/ pc = "loop" /\ turns < max_transitions /\ rejections >= ProtocolLimit
       \/ PastReview /\ (complete \/ open_step_ids # {})
       \/ Iterating /\ Steps # {} /\ boundary # None
    /\ Return("blocked")
    /\ UNCHANGED <<planVars, actionVars, reviewVars, countVars, runs>>

Kill ==
    /\ pc # "off"
    /\ pc' = "off" /\ observation' = 0 /\ turns' = 0 /\ fails' = 0
    /\ UNCHANGED <<status, planVars, actionVars, reviewVars, countVars, runs>>

-----------------------------------------------------------------------------
(* The planner and the checker of stages.                                    *)

\* There is no plan yet, a repair was asked for, or everything planned is done and an
\* obligation is not covered.
PatchDue ==
    \/ Iterating /\ Steps = {}
    \/ Deciding /\ (finalRepair \/ stageRepair)
    \/ PastReview /\ open_step_ids = {} /\ ~complete

FirstRevision == [stage : Stages, covers : SUBSET Obligations \ {{}}, revision : {1}]

\* A repair changes the work that is next: _validate_stage_repair_patch and its like.
Repairs(candidate, changed) ==
    finalRepair \/ stageRepair =>
        IF open_step_ids = {} THEN \E s \in StepIds : candidate.step[s] # None /\ evidence[s] = {}
        ELSE changed \cap frontier # {}

goal_plan_patch ==
    /\ PatchDue /\ plan.patches < MaxPatches
    /\ \E n \in 0 .. MaxSteps - plan.known, discarded \in SUBSET open_step_ids :
       \E new \in [1..n -> FirstRevision], replaced \in
            UNION {[changed -> FirstRevision] : changed \in SUBSET (open_step_ids \ discarded)} :
          /\ n > 0 \/ discarded # {} \/ DOMAIN replaced # {}
          /\ LET candidate == Patched(new, replaced, discarded) IN
              /\ Repairs(candidate, DOMAIN replaced \cup discarded)
              /\ plan' = candidate
    /\ stageRepair' = FALSE /\ finalRepair' = FALSE
    /\ finals' = 0
    /\ pc' = IF Steps = {} THEN "going" ELSE "loop"
    /\ Turn
    /\ UNCHANGED <<status, evidence, actionVars, reviewed, rejections, auditRejections, observation,
                   fails, runs>>

PlannerFails == PatchDue /\ Yields

\* review_goal_stage; a repair goes to the planner at once.
goal_stage_review ==
    /\ Working /\ Unreviewed # {}
    /\ reviewed' = reviewed \cup {stage_boundary_key(Min(Unreviewed))}
    /\ \E repair \in BOOLEAN :
          /\ stageRepair' = repair
          /\ pc' = IF repair THEN "going" ELSE "loop"
    /\ finals' = 0
    /\ Turn
    /\ UNCHANGED <<status, planVars, actionVars, finalRepair, rejections, auditRejections, observation,
                   fails, runs>>

CheckerFails == Working /\ Unreviewed # {} /\ Yields

-----------------------------------------------------------------------------
(* The executor.                                                             *)

\* action_started, for the first step of the frontier
StartAction ==
    /\ PastReview /\ open_step_ids # {} /\ Len(actions) < MaxActions
    /\ actions' = Append(actions, [chosen |-> Binding(Min(frontier)), bound |-> None,
                                   result |-> "running"])
    /\ pc' = "acting" /\ fails' = 0 /\ finals' = 0
    /\ UNCHANGED <<status, planVars, observed, settled, boundary, reviewVars, rejections,
                   auditRejections, observation, turns, runs>>

\* action_finished
FinishAction ==
    /\ pc = "acting"
    /\ \E result \in Results : actions' = WithResult(Len(actions), result)
    /\ pc' = "finished" /\ rejections' = 0
    /\ Turn
    /\ UNCHANGED <<status, planVars, observed, settled, boundary, reviewVars, finals,
                   auditRejections, observation, fails, runs>>

\* goal_action_plan_step_assigned
Assigned(n) ==
    [actions EXCEPT ![n] = [chosen |-> actions[n].chosen, bound |-> Binding(Min(frontier)),
                            result |-> actions[n].result]]

_assign_action_to_step ==
    /\ pc = "finished"
    /\ actions' = Assigned(Len(actions))
    /\ pc' = "assigned"
    /\ UNCHANGED <<status, planVars, observed, settled, boundary, reviewVars, countVars, localVars,
                   runs>>

Alike(n) == {k \in DOMAIN actions : actions[k].result = actions[n].result}

\* A command that strays stops the loop, and so may a result that is always the same;
\* otherwise the action goes before the auditor.
_open_audit_boundary ==
    /\ pc = "assigned"
    /\ LET n == Len(actions)
           stop == actions[n].result = "strays"
           open == /\ pc' = "loop"
                   /\ boundary' = [kind |-> "action", action |-> n, verdict |-> "none"]
           block == pc' = "blocking" /\ UNCHANGED boundary IN
        \/ ~stop /\ open
        \/ (stop \/ Cardinality(Alike(n)) >= IdenticalLimit) /\ block
    /\ auditRejections' = 0
    /\ UNCHANGED <<status, planVars, actions, observed, settled, reviewVars, finals, rejections,
                   localVars, runs>>

\* The action a predecessor did not bring before the auditor; it may have to be assigned.
RecoverObservation ==
    /\ Iterating /\ Steps # {} /\ boundary = None /\ observation # 0
    /\ actions' = IF actions[observation].bound = None THEN Assigned(observation) ELSE actions
    /\ boundary' = [kind |-> "action", action |-> observation, verdict |-> "none"]
    /\ auditRejections' = 0
    /\ observation' = 0 /\ pc' = "loop"
    /\ UNCHANGED <<status, planVars, observed, settled, reviewVars, finals, rejections, turns, fails,
                   runs>>

-----------------------------------------------------------------------------
(* The audit of an action.                                                   *)

Auditing(kind) == Iterating /\ boundary # None /\ boundary.kind = kind
BoundTo(binding) == {n \in DOMAIN actions : actions[n].bound = binding}

\* Mutant: only what the auditor would cite is looked at.
some_evidence(binding) == \E n \in BoundTo(binding) : actions[n].result = "covers"

\* _step_mechanical_evidence_coverage: a change outside the roots is not made good by a
\* later action.
evidence_coverage(binding) ==
    /\ \E n \in BoundTo(binding) : actions[n].result = "covers"
    /\ \A n \in BoundTo(binding) : actions[n].result # "strays"

append_action_observation ==
    /\ Auditing("action") /\ boundary.verdict = "none" /\ boundary.action \notin observed
    /\ observed' = observed \cup {boundary.action}
    /\ UNCHANGED <<status, planVars, actions, settled, boundary, reviewVars, countVars, pc,
                   localVars, runs>>

Settle ==
    /\ settled' = settled \cup {boundary.action}
    /\ boundary' = None /\ auditRejections' = 0 /\ observation' = 0
    /\ pc' = "loop"

\* Without mechanical evidence nobody is asked.
ResolveGap ==
    /\ Auditing("action") /\ boundary.action \in observed
    /\ ~evidence_coverage(actions[boundary.action].bound)
    /\ Settle /\ Turn
    /\ UNCHANGED <<status, planVars, actions, observed, reviewVars, finals, rejections, fails, runs>>

\* goal_audit_accepted
Accept(verdict) ==
    /\ boundary' = [kind |-> boundary.kind, action |-> boundary.action, verdict |-> verdict]
    /\ pc' = "audited"
    /\ Turn
    /\ UNCHANGED <<status, plan, actions, observed, settled, reviewVars, countVars, observation, fails,
                   runs>>

\* A step is completed by actions of its present revision that succeeded.
AcceptStepAudit ==
    /\ Auditing("action") /\ boundary.verdict = "none" /\ boundary.action \in observed
    /\ LET binding == actions[boundary.action].bound
           successes == {n \in BoundTo(binding) : actions[n].result = "covers"} IN
        /\ evidence_coverage(binding)
        /\ \/ Accept("repair") /\ UNCHANGED evidence
           \/ /\ Accept("continue")
              /\ \E cited \in SUBSET successes \ {{}} :
                    evidence' = [evidence EXCEPT ![binding[1]] = cited]

\* An audit that was accepted before a crash is not asked for again.
ReuseAudit ==
    /\ Iterating /\ boundary # None /\ boundary.verdict # "none"
    /\ boundary.kind = "action" => evidence_coverage(actions[boundary.action].bound)
    /\ pc' = "audited"
    /\ Turn
    /\ UNCHANGED <<status, planVars, actionVars, reviewVars, countVars, observation, fails, runs>>

ResolveAction ==
    /\ pc = "audited" /\ boundary.kind = "action"
    /\ Settle
    /\ UNCHANGED <<status, planVars, actions, observed, reviewVars, finals, rejections, turns, fails,
                   runs>>

-----------------------------------------------------------------------------
(* The final answer.                                                         *)

\* finalize_goal_answer
FinalAnswer ==
    /\ AnswerDue
    /\ pc' = "final" /\ fails' = 0
    /\ UNCHANGED <<status, planVars, actionVars, reviewVars, countVars, observation, turns, runs>>

OpenFinal ==
    /\ pc = "final"
    /\ boundary' = [kind |-> "pre_final", action |-> 0, verdict |-> "none"]
    /\ auditRejections' = 0
    /\ pc' = "loop"
    /\ UNCHANGED <<status, planVars, actions, observed, settled, reviewVars, finals, rejections,
                   localVars, runs>>

AcceptFinalAudit ==
    /\ Auditing("pre_final") /\ boundary.verdict = "none"
    /\ \E verdict \in {"repair", "ready"} : Accept(verdict)
    /\ UNCHANGED evidence

\* goal_final_rejected: what is missing is work, or a better answer.
RejectFinal ==
    /\ pc = "audited" /\ boundary.kind = "pre_final" /\ boundary.verdict # "ready"
    /\ finalRepair' \in BOOLEAN
    /\ finals' \in {1, finals + 1}
    /\ pc' = "rejected"
    /\ UNCHANGED <<status, planVars, actionVars, reviewed, stageRepair, rejections, auditRejections,
                   localVars, runs>>

\* goal_audit_boundary_resolved
ResolveFinal ==
    /\ \/ pc = "rejected" /\ pc' = "loop"
       \/ pc = "audited" /\ boundary.kind = "pre_final" /\ boundary.verdict = "ready" /\ pc' = "ready"
    /\ boundary' = None /\ auditRejections' = 0
    /\ UNCHANGED <<status, planVars, actions, observed, settled, reviewVars, finals, rejections,
                   localVars, runs>>

\* run_completed
Complete ==
    /\ pc = "ready"
    /\ Return("completed")
    /\ UNCHANGED <<planVars, actionVars, reviewVars, countVars, runs>>

-----------------------------------------------------------------------------
(* Calls of the models fail.                                                 *)

\* A reply breaks the protocol: it counts for the run, and for the audit it was to be.
RejectReply ==
    /\ rejections' = rejections + 1
    /\ \/ CallDue
          /\ UNCHANGED <<auditRejections, observation>>
          /\ pc' = IF rejections' >= ProtocolLimit THEN "blocking" ELSE "loop"
       \/ Iterating /\ boundary # None /\ boundary.verdict = "none"
          /\ auditRejections' = auditRejections + 1 /\ observation' = 0
          /\ pc' = IF auditRejections' >= AuditLimit THEN "blocking" ELSE "loop"
    /\ Turn
    /\ UNCHANGED <<status, planVars, actionVars, reviewVars, finals, fails, runs>>

TransportFails ==
    /\ \/ CallDue
       \/ Iterating /\ boundary # None /\ boundary.verdict = "none"
    /\ \/ Yields
       \/ /\ fails + 1 < TransportLimit
          /\ fails' = fails + 1 /\ pc' = "loop"
          /\ UNCHANGED <<status, planVars, actionVars, reviewVars, countVars, observation, turns, runs>>

-----------------------------------------------------------------------------
Planner == goal_plan_patch \/ PlannerFails
Checker == goal_stage_review \/ CheckerFails
Executor == StartAction \/ FinishAction \/ _assign_action_to_step \/ _open_audit_boundary
Auditor ==
    \/ append_action_observation \/ ResolveGap \/ AcceptStepAudit \/ ReuseAudit \/ ResolveAction
    \/ AcceptFinalAudit
Finalizer == FinalAnswer \/ OpenFinal \/ RejectFinal \/ ResolveFinal \/ Complete

Controller ==
    \/ _recover_active_action \/ StartRun \/ Exhaust \/ _block \/ RecoverObservation
    \/ Planner \/ Checker \/ Executor \/ Auditor \/ Finalizer
    \/ RejectReply \/ TransportFails

Next == Begin \/ Kill \/ Controller

Spec == Init /\ [][Next]_vars

\* A controller that is not killed goes on: calls of models and tools have time limits.
FairSpec == Spec /\ WF_vars(Controller)

-----------------------------------------------------------------------------
(* Properties.                                                               *)

\* Before another action is started, every earlier one has been given to the models and
\* judged, as an action of the step it was chosen for, wherever the controller was killed
\* or blocked in between.
ActionsAreJudged ==
    \A n \in DOMAIN actions :
        /\ n < Len(actions) => n \in observed /\ n \in settled
        /\ actions[n].bound \in {None, actions[n].chosen}

\* A completed step holds no stray change: every command assigned to its revision kept to
\* the roots of the step, also one that was judged after a block and a resume.
CompletedWorkIsClean ==
    \A s \in Steps \ open_step_ids : \A n \in BoundTo(Binding(s)) : actions[n].result # "strays"

\* A run is completed only with every step done and every obligation covered, every stage
\* reviewed as it stands, and no repair that somebody asked for left open.
CompletionIsReviewed ==
    status = "completed" =>
        /\ Steps # {} /\ open_step_ids = {} /\ uncovered = {}
        /\ \A stage \in completed_stages : stage_boundary_key(stage) \in reviewed
        /\ ~stageRepair /\ ~finalRepair

\* No action is started for a stage before every earlier stage was completed and reviewed
\* as it stands.
StagesAreBarriers ==
    [][Len(actions') > Len(actions) =>
          \A s \in Steps : StageOf(s) < StageOf(actions'[Len(actions')].chosen[1]) =>
              evidence[s] # {} /\ stage_boundary_key(StageOf(s)) \in reviewed]_vars

\* Every call of run() ends.
RunEnds == pc # "off" ~> pc = "off"

\* There is something to do: a role to ask, an audit to go on with, or an action to judge.
SomebodyIsDue ==
    \/ PatchDue
    \/ Working /\ Unreviewed # {}
    \/ CallDue
    \/ Iterating /\ (boundary # None \/ observation # 0)

\* A run that was blocked goes on when it is resumed, whatever it was blocked for and
\* wherever: somebody is asked before it can be blocked again.  The count of rejected
\* final answers is the exception.
ResumedRunsGoOn ==
    [][status = "blocked" /\ status' = "running" /\ finals < FinalLimit => SomebodyIsDue']_vars

\* Refuted.  run_blocked says of every blocked run that it is resumable, by hand.  A run
\* that was blocked because its final answers were rejected too often keeps their count
\* and is blocked again before anybody is asked, however often it is resumed.
BlockedRunsCanResume ==
    [][status = "blocked" /\ status' = "running" => SomebodyIsDue']_vars
=================================================================================
