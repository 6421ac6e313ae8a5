------------------------------ MODULE GoalLoopProofs ------------------------------
(***************************************************************************)
(* Proofs about GoalLoop, for any number of steps, actions, patches and calls *)
(* of run().  At most one action is not judged: the last one, and it was      *)
(* chosen for the work that is still next.  The plan changes, and the         *)
(* finalizer is asked, only when there is none.                               *)
(***************************************************************************)
EXTENDS GoalLoop, WellFoundedInduction, SequenceTheorems, TLAPS

\* A set of numbers has a least member.
LEMMA LeastIsMember ==
    ASSUME NEW S, S \subseteq Nat, S # {}
    PROVE  Min(S) \in S /\ \A x \in S : Min(S) <= x
<1>1. PICK x \in S : \A y \in S : ~ (<<y, x>> \in OpToRel(<, Nat))
  BY WFMin, NatLessThanWellFounded
<1>2. \A y \in S : x <= y
  <2> SUFFICES ASSUME NEW y \in S PROVE x <= y
    OBVIOUS
  <2>1. x \in Nat /\ y \in Nat
    OBVIOUS
  <2>2. ~ (y < x)
    BY <1>1, <2>1 DEF OpToRel
  <2> QED BY <2>1, <2>2
<1> QED BY <1>2 DEF Min

Entry == [chosen : StepIds \X Nat, bound : (StepIds \X Nat) \cup {None},
          result : Results \cup {"running"}]

-----------------------------------------------------------------------------
(* The invariant.                                                            *)

\* The last action.
Total == Len(actions)
Judged(n) == n \in observed /\ n \in settled
AllJudged == \A n \in DOMAIN actions : Judged(n)

\* The work that is next, as actions are bound to it.
Next1 == Binding(Min(frontier))

\* One judgement at a time: whatever is not judged is the last action.
LastIsOpen ==
    /\ \A n \in DOMAIN actions : n < Total => Judged(n)
    /\ observed \subseteq DOMAIN actions /\ settled \subseteq observed
    /\ \A n \in DOMAIN actions : actions[n].result = "running" =>
          /\ n \notin observed /\ actions[n].bound = None /\ boundary = None
          /\ pc \in {"off", "starting", "acting"}
    /\ \A n \in DOMAIN actions : actions[n].bound \in {None, actions[n].chosen}

\* The judgement that is open, and where its action is.
JudgementInv ==
    /\ boundary = None => \A n \in DOMAIN actions : n \in observed => n \in settled
    /\ boundary # None /\ boundary.kind = "action" =>
          LET n == boundary.action IN
          /\ n \in DOMAIN actions /\ n = Total /\ n \notin settled
          /\ actions[n].bound = actions[n].chosen
          /\ boundary.verdict # "none" => n \in observed
    /\ boundary # None /\ boundary.kind = "pre_final" => AllJudged

\* Where the controller is, and what it has left to do for the last action.
PlaceInv ==
    /\ pc \in {"acting", "finished", "assigned"} =>
          boundary = None /\ Total # 0 /\ ~Judged(Total) /\ Total \notin observed /\ observation = 0
    /\ pc = "assigned" => actions[Total].bound = actions[Total].chosen
    /\ pc \in {"off", "starting"} => observation = 0
    /\ pc = "audited" => boundary # None /\ boundary.verdict # "none"
    /\ pc = "rejected" => boundary # None /\ boundary.kind = "pre_final"
    /\ pc \in {"final", "ready"} => boundary = None /\ observation = 0 /\ AllJudged
    /\ observation # 0 /\ boundary = None => observation \in DOMAIN actions /\ observation \notin observed
    /\ boundary # None /\ boundary.kind = "pre_final" => observation = 0
    /\ pc \in {"loop", "going"} /\ boundary = None /\ observation = 0 => AllJudged

\* The last action was chosen for the work that is still next.
WorkInv ==
    /\ \A n \in DOMAIN actions :
          n \notin settled /\ (boundary = None \/ boundary.verdict = "none") =>
             open_step_ids # {} /\ actions[n].chosen = Next1
    /\ \A s \in StepIds : s \notin Steps => evidence[s] = {}
    /\ \A s \in StepIds : s > plan.known => s \notin Steps
    /\ CompletedWorkIsClean

\* The goal as the finalizer found it.
Done ==
    /\ complete /\ ~stageRepair
    /\ \A stage \in completed_stages : stage_boundary_key(stage) \in reviewed

DoneInv ==
    /\ pc \in {"final", "ready"} \/ (boundary # None /\ boundary.kind = "pre_final") => Done
    /\ pc \in {"final", "ready"} => ~finalRepair
    /\ boundary # None /\ boundary.kind = "pre_final" /\ boundary.verdict \in {"none", "ready"} => ~finalRepair
    /\ pc = "rejected" => boundary.verdict # "ready"
    /\ status = "completed" => Done /\ ~finalRepair /\ pc = "off"

GoalInv ==
    /\ GoalTypeOK /\ Total <= MaxActions
    /\ LastIsOpen /\ JudgementInv /\ PlaceInv /\ WorkInv /\ DoneInv

-----------------------------------------------------------------------------
(* Data.                                                                     *)

LEMMA Bounds == {MaxSteps, MaxActions, MaxPatches, MaxRuns} \subseteq Nat
BY GoalAssumption

LEMMA ActionsTyped ==
    ASSUME GoalTypeOK
    PROVE  /\ actions \in Seq(Entry) /\ Total \in Nat /\ DOMAIN actions = 1..Total
           /\ \A n \in DOMAIN actions : actions[n] \in Entry
<1>1. actions \in Seq(Entry)
  BY DEF GoalTypeOK, Entry
<1> HIDE DEF Entry
<1> QED BY <1>1, ElementOfSeq DEF Total

LEMMA EntryReplaced ==
    ASSUME NEW s \in Seq(Entry), NEW n \in DOMAIN s, NEW e \in Entry
    PROVE  /\ [s EXCEPT ![n] = e] \in Seq(Entry)
           /\ Len([s EXCEPT ![n] = e]) = Len(s)
           /\ DOMAIN [s EXCEPT ![n] = e] = DOMAIN s
           /\ \A k \in DOMAIN s : [s EXCEPT ![n] = e][k] = IF k = n THEN e ELSE s[k]
BY ExceptSeq

\* The steps that are next have the least stage of the open ones.
LEMMA FrontierIs ==
    ASSUME GoalTypeOK, open_step_ids # {}
    PROVE  /\ current_stage \in Nat /\ Min(frontier) \in frontier /\ Min(frontier) \in StepIds
           /\ Min(frontier) \in open_step_ids /\ StageOf(Min(frontier)) = current_stage
           /\ \A s \in open_step_ids : current_stage <= StageOf(s)
           /\ Binding(Min(frontier)) \in StepIds \X Nat
<1> DEFINE S == {StageOf(s) : s \in open_step_ids}
<1>0. \A s \in Steps : s \in StepIds /\ plan.step[s] \in PlanStep
  BY DEF GoalTypeOK, Steps
<1>1. S \subseteq Nat /\ S # {}
  <2>1. \A s \in open_step_ids : StageOf(s) \in Stages
    BY <1>0 DEF open_step_ids, StageOf, PlanStep
  <2>2. Stages \subseteq Nat
    BY GoalAssumption
  <2>3. S # {}
    OBVIOUS
  <2> QED BY <2>1, <2>2, <2>3
<1>2. Min(S) \in S /\ \A x \in S : Min(S) <= x
  <2> HIDE DEF S
  <2> QED BY <1>1, LeastIsMember
<1>3. frontier \subseteq Nat /\ frontier # {} /\ frontier \subseteq open_step_ids
  <2>1. \E s \in open_step_ids : StageOf(s) = current_stage
    BY <1>2 DEF current_stage
  <2>2. open_step_ids \subseteq Nat
    BY Bounds DEF open_step_ids, Steps, StepIds
  <2> QED BY <2>1, <2>2 DEF frontier
<1>4. Min(frontier) \in frontier
  BY <1>3, LeastIsMember
<1>5. Min(frontier) \in open_step_ids /\ StageOf(Min(frontier)) = current_stage
  BY <1>3, <1>4 DEF frontier
<1>6. Min(frontier) \in Steps /\ Min(frontier) \in StepIds
  BY <1>5, <1>0 DEF open_step_ids
<1>7. Binding(Min(frontier)) \in StepIds \X Nat
  BY <1>0, <1>6 DEF Binding, PlanStep
<1> QED BY <1>1, <1>2, <1>4, <1>5, <1>6, <1>7 DEF current_stage

LEMMA UnappendedIs ==
    ASSUME GoalTypeOK, LastIsOpen
    PROVE  /\ \A n \in Unappended : n = Total /\ n \in DOMAIN actions
           /\ first_unappended_action \in {0} \cup Unappended
           /\ first_unappended_action = 0 => Unappended = {}
<1>1. DOMAIN actions = 1..Total /\ Total \in Nat
  BY ActionsTyped
<1>2. \A n \in Unappended : n = Total /\ n \in DOMAIN actions /\ n \in Nat /\ n # 0
  BY <1>1 DEF Unappended, LastIsOpen, Judged
<1>3. CASE Unappended = {}
  BY <1>3 DEF first_unappended_action
<1>4. CASE Unappended # {}
  <2>1. Min(Unappended) \in Unappended
    BY <1>2, <1>4, LeastIsMember
  <2> QED BY <1>2, <1>4, <2>1 DEF first_unappended_action
<1> QED BY <1>2, <1>3, <1>4

\* An action gets its result, or its step.
LEMMA WithResultIs ==
    ASSUME GoalTypeOK, NEW n \in DOMAIN actions, NEW r \in Results
    PROVE  /\ WithResult(n, r) \in Seq(Entry) /\ Len(WithResult(n, r)) = Total
           /\ DOMAIN WithResult(n, r) = DOMAIN actions
           /\ \A k \in DOMAIN actions :
                 /\ WithResult(n, r)[k].chosen = actions[k].chosen
                 /\ WithResult(n, r)[k].bound = actions[k].bound
                 /\ WithResult(n, r)[k].result = IF k = n THEN r ELSE actions[k].result
<1> DEFINE e == [chosen |-> actions[n].chosen, bound |-> actions[n].bound, result |-> r]
<1>1. e \in Entry /\ actions \in Seq(Entry)
  BY ActionsTyped DEF Entry
<1>2. /\ WithResult(n, r) \in Seq(Entry) /\ Len(WithResult(n, r)) = Total
      /\ DOMAIN WithResult(n, r) = DOMAIN actions
      /\ \A k \in DOMAIN actions : WithResult(n, r)[k] = IF k = n THEN e ELSE actions[k]
  BY <1>1, EntryReplaced DEF WithResult, Total
<1> QED BY <1>2

LEMMA AssignedIs ==
    ASSUME GoalTypeOK, NEW n \in DOMAIN actions, open_step_ids # {}
    PROVE  /\ Assigned(n) \in Seq(Entry) /\ Len(Assigned(n)) = Total
           /\ DOMAIN Assigned(n) = DOMAIN actions
           /\ \A k \in DOMAIN actions :
                 /\ Assigned(n)[k].chosen = actions[k].chosen
                 /\ Assigned(n)[k].bound = IF k = n THEN Next1 ELSE actions[k].bound
                 /\ Assigned(n)[k].result = actions[k].result
<1> DEFINE e == [chosen |-> actions[n].chosen, bound |-> Next1, result |-> actions[n].result]
<1>1. e \in Entry /\ actions \in Seq(Entry)
  BY ActionsTyped, FrontierIs DEF Entry, Next1
<1>2. /\ Assigned(n) \in Seq(Entry) /\ Len(Assigned(n)) = Total
      /\ DOMAIN Assigned(n) = DOMAIN actions
      /\ \A k \in DOMAIN actions : Assigned(n)[k] = IF k = n THEN e ELSE actions[k]
  BY <1>1, EntryReplaced DEF Assigned, Next1, Total
<1> QED BY <1>2

Plans == [step : [StepIds -> PlanStep \cup {None}], known : 0..MaxSteps, patches : Nat]

\* What a patch with so many new steps leaves of the plan.
Keeps(p, n, changed, discarded) ==
    /\ p \in Plans
    /\ p.known = plan.known + n
    /\ \A s \in StepIds : s > plan.known + n /\ s \notin changed /\ plan.step[s] = None => p.step[s] = None
    /\ \A s \in StepIds : s \notin changed /\ s \notin discarded /\ s <= plan.known =>
          p.step[s] = plan.step[s]

LEMMA PatchedIs ==
    ASSUME GoalTypeOK, NEW n \in 0 .. MaxSteps - plan.known, NEW new \in [1..n -> FirstRevision],
           NEW changed \in SUBSET StepIds, NEW replaced \in [changed -> FirstRevision],
           NEW discarded \in SUBSET StepIds, \A s \in changed : s \in Steps,
           NEW p, p = Patched(new, replaced, discarded)
    PROVE  Keeps(p, n, changed, discarded)
<1>0. /\ plan.known \in Nat /\ plan.patches \in Nat /\ n \in Nat /\ plan.known + n <= MaxSteps
      /\ \A s \in StepIds : plan.step[s] \in PlanStep \cup {None}
      /\ MaxSteps \in Nat
  BY Bounds DEF GoalTypeOK
<1>1. Len(new) = n /\ DOMAIN new = 1..n
  BY <1>0
<1>1a. p = Patched(new, replaced, discarded)
  OBVIOUS
<1>2. DOMAIN replaced = changed
  OBVIOUS
<1>3. \A k \in 1..n : new[k] \in PlanStep
  BY DEF FirstRevision, PlanStep
<1>4. \A s \in changed :
        [stage |-> replaced[s].stage, covers |-> replaced[s].covers, revision |-> plan.step[s].revision + 1] \in PlanStep
  BY <1>0 DEF FirstRevision, PlanStep, Steps
<1>5. p.known = plan.known + n /\ p.patches = plan.patches + 1
  BY <1>1, <1>1a DEF Patched
<1>6. \A s \in StepIds : p.step[s] =
         IF s \in changed
         THEN [stage |-> replaced[s].stage, covers |-> replaced[s].covers, revision |-> plan.step[s].revision + 1]
         ELSE IF s \in discarded THEN None
         ELSE IF s \in plan.known + 1 .. plan.known + n THEN new[s - plan.known]
         ELSE plan.step[s]
  BY <1>1, <1>1a, <1>2 DEF Patched
<1>7. \A s \in StepIds : s \in plan.known + 1 .. plan.known + n => new[s - plan.known] \in PlanStep
  BY <1>0, <1>3 DEF StepIds
<1>8. p.step \in [StepIds -> PlanStep \cup {None}]
  <2>1. \A s \in StepIds : p.step[s] \in PlanStep \cup {None}
    BY <1>0, <1>4, <1>6, <1>7
  <2>2. p.step = [s \in StepIds |-> p.step[s]]
    BY <1>1a DEF Patched
  <2> QED BY <2>1, <2>2
<1>9. p \in [step : [StepIds -> PlanStep \cup {None}], known : 0..MaxSteps, patches : Nat]
  <2>1. p = [step |-> p.step, known |-> p.known, patches |-> p.patches]
    BY <1>1a DEF Patched
  <2> QED BY <1>0, <1>5, <1>8, <2>1
<1>10. \A s \in StepIds : s \in Nat
  BY <1>0 DEF StepIds
<1>11. \A s \in StepIds : s > plan.known + n /\ s \notin changed /\ plan.step[s] = None => p.step[s] = None
  <2> SUFFICES ASSUME NEW s \in StepIds, s > plan.known + n, s \notin changed, plan.step[s] = None PROVE p.step[s] = None
    OBVIOUS
  <2>1. s \notin plan.known + 1 .. plan.known + n
    BY <1>0, <1>10
  <2> QED BY <1>6, <2>1
<1>12. \A s \in StepIds : s \notin changed /\ s \notin discarded /\ s <= plan.known => p.step[s] = plan.step[s]
  <2> SUFFICES ASSUME NEW s \in StepIds, s \notin changed, s \notin discarded, s <= plan.known PROVE p.step[s] = plan.step[s]
    OBVIOUS
  <2>1. s \notin plan.known + 1 .. plan.known + n
    BY <1>0, <1>10
  <2> QED BY <1>6, <2>1
<1> QED BY <1>5, <1>9, <1>11, <1>12 DEF Keeps, Plans

\* What a patch leaves of the plan: completed steps, and no step beyond the known ones.
LEMMA PatchIs ==
    ASSUME GoalTypeOK, goal_plan_patch
    PROVE  /\ plan' \in Plans
           /\ plan'.known >= plan.known
           /\ \A s \in StepIds : s > plan'.known /\ plan.step[s] = None /\ s > plan.known => plan'.step[s] = None
           /\ \A s \in Steps \ open_step_ids : s <= plan.known => plan'.step[s] = plan.step[s]
<1>1. PICK n \in 0 .. MaxSteps - plan.known, discarded \in SUBSET open_step_ids :
         \E new \in [1..n -> FirstRevision], replaced \in
            UNION {[changed -> FirstRevision] : changed \in SUBSET (open_step_ids \ discarded)} :
               plan' = Patched(new, replaced, discarded)
  BY DEF goal_plan_patch
<1>2. PICK new \in [1..n -> FirstRevision], changed \in SUBSET (open_step_ids \ discarded) :
         \E replaced \in [changed -> FirstRevision] : plan' = Patched(new, replaced, discarded)
  BY <1>1
<1>3. PICK replaced \in [changed -> FirstRevision] : plan' = Patched(new, replaced, discarded)
  BY <1>2
<1>4. /\ changed \in SUBSET StepIds /\ discarded \in SUBSET StepIds
      /\ \A s \in changed : s \in Steps /\ s \in open_step_ids
      /\ \A s \in discarded : s \in open_step_ids
      /\ \A s \in Steps : s \in StepIds /\ plan.step[s] # None
  BY DEF open_step_ids, Steps
<1>5. Keeps(plan', n, changed, discarded)
  BY <1>1, <1>2, <1>3, <1>4, PatchedIs
<1>6. plan.known \in Nat /\ n \in Nat
  BY Bounds DEF GoalTypeOK
<1> QED BY <1>4, <1>5, <1>6 DEF Keeps

\* The first patch plans something.
LEMMA FirstPatchPlans ==
    ASSUME GoalTypeOK, goal_plan_patch, Steps = {}
    PROVE  Steps' # {}
<1>0. open_step_ids = {} /\ plan.known \in Nat /\ MaxSteps \in Nat
  BY Bounds DEF open_step_ids, GoalTypeOK
<1>1. PICK n \in 0 .. MaxSteps - plan.known :
         \E new \in [1..n -> FirstRevision], replaced \in [{} -> FirstRevision] :
            n > 0 /\ plan' = Patched(new, replaced, {})
  <2>1. PICK n \in 0 .. MaxSteps - plan.known, discarded \in SUBSET open_step_ids :
         \E new \in [1..n -> FirstRevision], replaced \in
            UNION {[changed -> FirstRevision] : changed \in SUBSET (open_step_ids \ discarded)} :
               /\ n > 0 \/ discarded # {} \/ DOMAIN replaced # {}
               /\ plan' = Patched(new, replaced, discarded)
    BY DEF goal_plan_patch
  <2>2. PICK new \in [1..n -> FirstRevision], changed \in SUBSET (open_step_ids \ discarded) :
           \E replaced \in [changed -> FirstRevision] :
               /\ n > 0 \/ discarded # {} \/ DOMAIN replaced # {}
               /\ plan' = Patched(new, replaced, discarded)
    BY <2>1
  <2>3. discarded = {} /\ changed = {}
    BY <1>0
  <2> QED BY <2>2, <2>3
<1>2. PICK new \in [1..n -> FirstRevision], replaced \in [{} -> FirstRevision] :
         n > 0 /\ plan' = Patched(new, replaced, {})
  BY <1>1
<1>3. n > 0 /\ n \in Nat /\ Len(new) = n /\ plan.known + 1 \in StepIds
  BY <1>0, <1>1, <1>2 DEF StepIds
<1>4. plan'.step[plan.known + 1] = new[1]
  BY <1>0, <1>1, <1>2, <1>3 DEF Patched
<1>5. new[1] \in PlanStep
  BY <1>3 DEF FirstRevision, PlanStep
<1> QED BY <1>3, <1>4, <1>5, GoalAssumption DEF Steps

-----------------------------------------------------------------------------
(* Types.                                                                    *)

LEMMA TypesStep ==
    ASSUME GoalInv, [Next]_vars
    PROVE  GoalTypeOK' /\ Total' <= MaxActions
<1> DEFINE Typed == GoalTypeOK' /\ Total' <= MaxActions
<1>0. GoalTypeOK /\ Total <= MaxActions /\ Total \in Nat /\ DOMAIN actions = 1..Total
  BY ActionsTyped DEF GoalInv
<1>0a. MaxSteps \in Nat /\ MaxActions \in Nat /\ MaxRuns \in Nat
  BY Bounds
<1>0b. DOMAIN actions \subseteq ActionIds /\ \A n \in DOMAIN actions : n \in 0..MaxActions
  BY <1>0, <1>0a DEF ActionIds
<1> USE DEF GoalTypeOK, Total
<1>1. CASE UNCHANGED vars
  BY <1>0, <1>1 DEF vars, planVars, actionVars, reviewVars, countVars, localVars
<1>2. CASE Begin \/ Kill \/ Exhaust \/ _block \/ PlannerFails \/ CheckerFails
  <2>1. /\ UNCHANGED <<plan, evidence, actions, observed, settled, boundary, stageRepair, finalRepair,
                       finals, rejections, auditRejections>>
        /\ status' \in {status, "interrupted", "blocked"} /\ pc' \in {"off", "starting"}
        /\ runs' \in {runs, runs + 1} /\ (runs' = runs \/ runs < MaxRuns)
        /\ \/ observation' = observation /\ turns' = turns /\ fails' = fails
           \/ observation' = 0 /\ turns' = 0 /\ fails' = 0
    BY <1>2 DEF Begin, Kill, Exhaust, _block, PlannerFails, CheckerFails, Yields, Return,
       planVars, actionVars, reviewVars, countVars, localVars
  <2>2. runs' \in 0..MaxRuns /\ observation' \in 0..MaxActions /\ turns' \in Nat /\ fails' \in Nat
    BY <1>0, <1>0a, <2>1
  <2>3. Total' = Total
    BY <2>1
  <2> QED BY <1>0, <2>1, <2>2, <2>3
<1>3. CASE _recover_active_action
  <2>1. PICK n \in DOMAIN actions, result \in Results : actions' = WithResult(n, result)
    BY <1>3 DEF _recover_active_action
  <2>2. actions' \in Seq(Entry) /\ Len(actions') = Len(actions)
    BY <1>0, <2>1, WithResultIs
  <2> QED BY <1>0, <1>3, <2>2 DEF _recover_active_action, Entry, planVars, reviewVars, localVars
<1>4. CASE StartRun
  <2>1. first_unappended_action \in 0..MaxActions
    BY <1>0, <1>0a, <1>0b, UnappendedIs DEF GoalInv
  <2> QED BY <1>0, <1>4, <2>1 DEF StartRun, planVars, actionVars, reviewVars
<1>5. CASE goal_plan_patch
  <2>2. plan' \in [step : [StepIds -> PlanStep \cup {None}], known : 0..MaxSteps, patches : Nat]
    BY <1>0, <1>5, PatchIs DEF Plans
  <2>3. /\ stageRepair' = FALSE /\ finalRepair' = FALSE /\ finals' = 0 /\ pc' \in {"going", "loop"}
        /\ turns' = turns + 1
        /\ UNCHANGED <<status, evidence, actions, observed, settled, boundary, reviewed, rejections,
                       auditRejections, observation, fails, runs>>
    BY <1>5 DEF goal_plan_patch, Turn, actionVars
  <2>4. evidence' = evidence /\ actions' = actions /\ runs' = runs /\ boundary' = boundary
    BY <2>3
  <2>5. turns' \in Nat
    BY <1>0, <2>3
  <2>6. GoalTypeOK'
    BY <1>0, <2>2, <2>3, <2>5, <2>4 
  <2> QED BY <1>0, <2>4, <2>6
<1>6. CASE goal_stage_review
  BY <1>0, <1>6 DEF goal_stage_review, Turn, planVars, actionVars
<1>7. CASE StartAction
  <2>1. open_step_ids # {} /\ Len(actions) < MaxActions
    BY <1>7 DEF StartAction
  <2>2. [chosen |-> Next1, bound |-> None, result |-> "running"] \in Entry
    BY <1>0, <2>1, FrontierIs DEF Entry, Next1
  <2>3. actions' = Append(actions, [chosen |-> Next1, bound |-> None, result |-> "running"])
    BY <1>7 DEF StartAction, Next1
  <2>4. actions' \in Seq(Entry) /\ Len(actions') = Len(actions) + 1
    BY <1>0, <2>2, <2>3, ActionsTyped, AppendProperties
  <2> QED BY <1>0, <1>0a, <1>7, <2>1, <2>4 DEF StartAction, Entry, planVars, reviewVars
<1>8. CASE FinishAction
  <2>1. PICK result \in Results : actions' = WithResult(Len(actions), result)
    BY <1>8 DEF FinishAction
  <2>2. Len(actions) \in DOMAIN actions
    BY <1>0, <1>8 DEF FinishAction, GoalInv, PlaceInv
  <2>3. actions' \in Seq(Entry) /\ Len(actions') = Len(actions)
    BY <1>0, <2>1, <2>2, WithResultIs
  <2> QED BY <1>0, <1>8, <2>3 DEF FinishAction, Entry, Turn, planVars, reviewVars
<1>9. ASSUME NEW n \in DOMAIN actions, actions' = Assigned(n), n \notin settled, boundary = None
      PROVE  actions' \in Seq(Entry) /\ Len(actions') = Len(actions)
  BY <1>0, <1>9, AssignedIs DEF GoalInv, WorkInv
<1>10. CASE _assign_action_to_step
  <2>1. Len(actions) \in DOMAIN actions /\ Len(actions) \notin settled /\ boundary = None
    BY <1>0, <1>10 DEF _assign_action_to_step, GoalInv, PlaceInv, LastIsOpen, Judged
  <2>2. actions' \in Seq(Entry) /\ Len(actions') = Len(actions)
    BY <1>9, <1>10, <2>1 DEF _assign_action_to_step
  <2> QED BY <1>0, <1>10, <2>2 DEF _assign_action_to_step, Entry, planVars, reviewVars, countVars, localVars
<1>11. CASE _open_audit_boundary
  <2>1. Len(actions) \in DOMAIN actions
    BY <1>0, <1>11 DEF _open_audit_boundary, GoalInv, PlaceInv
  <2>2. boundary' = boundary \/ boundary' = [kind |-> "action", action |-> Len(actions), verdict |-> "none"]
    BY <1>11 DEF _open_audit_boundary
  <2>3. boundary' \in Judgements \cup {None}
    BY <1>0, <1>0b, <2>1, <2>2 DEF Judgements
  <2> QED BY <1>0, <1>11, <2>3 DEF _open_audit_boundary, planVars, reviewVars, localVars
<1>12. CASE RecoverObservation
  <2>1. observation \in DOMAIN actions /\ observation \notin settled /\ boundary = None
    BY <1>0, <1>12 DEF RecoverObservation, GoalInv, PlaceInv, LastIsOpen
  <2>2. actions' \in Seq(Entry) /\ Len(actions') = Len(actions)
    BY <1>0, <1>9, <1>12, <2>1, ActionsTyped DEF RecoverObservation
  <2>3. boundary' \in Judgements
    BY <1>0, <1>12 DEF RecoverObservation, Judgements
  <2> QED BY <1>0, <1>0a, <1>12, <2>2, <2>3 DEF RecoverObservation, Entry, planVars, reviewVars
<1>13. CASE append_action_observation
  <2>1. boundary.action \in ActionIds
    BY <1>0b, <1>13 DEF append_action_observation, Auditing, GoalInv, JudgementInv
  <2> QED BY <1>0, <1>13, <2>1 DEF append_action_observation, planVars, reviewVars, countVars, localVars
<1>14. CASE ResolveGap \/ ResolveAction
  <2>1. boundary # None /\ boundary.kind = "action"
    BY <1>14 DEF ResolveGap, ResolveAction, Auditing, GoalInv, PlaceInv
  <2>2. boundary.action \in ActionIds
    BY <1>0b, <2>1 DEF GoalInv, JudgementInv
  <2>3. CASE ResolveGap
    BY <1>0, <1>0a, <2>2, <2>3 DEF ResolveGap, Settle, Turn, planVars, reviewVars
  <2>4. CASE ResolveAction
    BY <1>0, <1>0a, <2>2, <2>4 DEF ResolveAction, Settle, planVars, reviewVars
  <2> QED BY <1>14, <2>3, <2>4
<1>15. ASSUME NEW verdict \in {"continue", "repair", "ready"}, Accept(verdict), boundary # None,
              evidence' \in [StepIds -> SUBSET ActionIds]
       PROVE  Typed
  <2>1. boundary' \in Judgements
    BY <1>0, <1>15 DEF Accept, Judgements
  <2> QED BY <1>0, <1>15, <2>1 DEF Accept, Turn, reviewVars, countVars
<1>16. CASE AcceptStepAudit
  <2>1. boundary # None /\ boundary.kind = "action" /\ boundary.action \in DOMAIN actions
    BY <1>16 DEF AcceptStepAudit, Auditing, GoalInv, JudgementInv
  <2>2. CASE Accept("repair") /\ UNCHANGED evidence
    BY <1>0, <1>15, <2>1, <2>2
  <2>3. ASSUME NEW s, NEW cited \in SUBSET DOMAIN actions, evidence' = [evidence EXCEPT ![s] = cited]
        PROVE  evidence' \in [StepIds -> SUBSET ActionIds]
    BY <1>0, <1>0b, <2>3
  <2>4. CASE Accept("continue") /\ ~UNCHANGED evidence
    <3>1. PICK cited \in SUBSET DOMAIN actions :
             evidence' = [evidence EXCEPT ![actions[boundary.action].bound[1]] = cited]
      BY <1>16, <2>4 DEF AcceptStepAudit, BoundTo
    <3>2. evidence' \in [StepIds -> SUBSET ActionIds]
      BY <2>3, <3>1
    <3> QED BY <1>15, <2>1, <2>4, <3>2
  <2> QED BY <1>0, <1>15, <1>16, <2>1, <2>2, <2>4 DEF AcceptStepAudit
<1>17. CASE AcceptFinalAudit
  BY <1>0, <1>15, <1>17 DEF AcceptFinalAudit, Auditing
<1>18. CASE ReuseAudit
  BY <1>0, <1>18 DEF ReuseAudit, Turn, planVars, actionVars, reviewVars, countVars
<1>22. CASE FinalAnswer
  BY <1>0, <1>22 DEF FinalAnswer, planVars, actionVars, reviewVars, countVars
<1>23. CASE Complete
  BY <1>0, <1>0a, <1>23 DEF Complete, Return, planVars, actionVars, reviewVars, countVars
<1>19. CASE OpenFinal
  BY <1>0, <1>0a, <1>19 DEF OpenFinal, Judgements, planVars, reviewVars, localVars
<1>20. CASE RejectFinal \/ ResolveFinal
  BY <1>0, <1>20 DEF RejectFinal, ResolveFinal, planVars, actionVars, reviewVars, localVars
<1>21. CASE RejectReply
  <2>1. observation' \in 0..MaxActions /\ auditRejections' \in Nat
    BY <1>0, <1>0a, <1>21 DEF RejectReply
  <2>2. pc' \in {"blocking", "loop"} /\ rejections' \in Nat
    BY <1>0, <1>21 DEF RejectReply
  <2> QED BY <1>0, <1>21, <2>1, <2>2 DEF RejectReply, Turn, planVars, actionVars, reviewVars
<1>24. CASE TransportFails
  <2>1. CASE Yields
    BY <1>0, <1>0a, <2>1 DEF Yields, Return, planVars, actionVars, reviewVars, countVars
  <2>2. CASE ~Yields
    BY <1>0, <1>24, <2>2 DEF TransportFails, planVars, actionVars, reviewVars, countVars
  <2> QED BY <2>1, <2>2
<1> QED
  BY <1>1, <1>2, <1>3, <1>4, <1>5, <1>6, <1>7, <1>8, <1>10, <1>11, <1>12, <1>13, <1>14, <1>16, <1>17, <1>18, <1>19, <1>20, <1>21, <1>22, <1>23, <1>24
  DEF Next, Controller, Planner, Checker, Executor, Auditor, Finalizer

-----------------------------------------------------------------------------
(* Judgements.                                                               *)

\* Steps that leave the actions and their judgements alone move the controller.
LEMMA PlaceStepMoves ==
    ASSUME GoalInv, UNCHANGED actionVars,
           \/ UNCHANGED vars \/ Begin \/ Kill \/ StartRun \/ Exhaust \/ _block \/ Planner \/ Checker
           \/ ReuseAudit \/ FinalAnswer \/ RejectFinal \/ Complete \/ RejectReply \/ TransportFails
    PROVE  LastIsOpen' /\ JudgementInv' /\ PlaceInv'
<1>0. GoalTypeOK /\ LastIsOpen /\ JudgementInv /\ PlaceInv /\ Total \in Nat /\ DOMAIN actions = 1..Total
  BY ActionsTyped DEF GoalInv
<1>1. /\ actions' = actions /\ observed' = observed /\ settled' = settled /\ boundary' = boundary
      /\ Total' = Total /\ AllJudged' = AllJudged
  BY DEF actionVars, Total, AllJudged, Judged
<1>2. JudgementInv'
  BY <1>0, <1>1 DEF JudgementInv
<1>3. (\A n \in DOMAIN actions : actions[n].result = "running" => pc' \in {"off", "starting", "acting"}) => LastIsOpen'
  BY <1>0, <1>1 DEF LastIsOpen, Judged
<1> USE DEF PlaceInv, Judged
<1>4. CASE UNCHANGED vars
  BY <1>0, <1>1, <1>2, <1>3, <1>4 DEF vars, localVars, LastIsOpen
<1>5. CASE Begin
  BY <1>0, <1>1, <1>2, <1>3, <1>5 DEF Begin, localVars, LastIsOpen
<1>6. CASE Kill
  BY <1>0, <1>1, <1>2, <1>3, <1>6 DEF Kill
<1>7. CASE StartRun
  <2>1. \A n \in DOMAIN actions : actions[n].result # "running"
    BY <1>7 DEF StartRun
  <2>2. first_unappended_action # 0 => first_unappended_action \in DOMAIN actions /\ first_unappended_action \notin observed
    BY <1>0, UnappendedIs DEF Unappended
  <2>3. boundary = None /\ first_unappended_action = 0 => AllJudged
    BY <1>0, <2>1, UnappendedIs DEF Unappended, JudgementInv, AllJudged
  <2>4. boundary # None /\ boundary.kind = "pre_final" => first_unappended_action = 0
    BY <1>0, <2>2 DEF JudgementInv, AllJudged
  <2>5. pc' = "loop" /\ observation' = first_unappended_action
    BY <1>7 DEF StartRun
  <2> QED BY <1>0, <1>1, <1>2, <1>3, <2>1, <2>2, <2>3, <2>4, <2>5
<1>8. CASE Exhaust \/ PlannerFails \/ CheckerFails \/ Complete \/ (_block /\ Return("blocked"))
  <2>1. pc' = "off" /\ observation' = 0
    BY <1>8 DEF Exhaust, PlannerFails, CheckerFails, Complete, Yields, Return
  <2> QED BY <1>0, <1>1, <1>2, <1>3, <2>1
<1>9. CASE _block
  BY <1>8, <1>9 DEF _block
<1>10. CASE goal_plan_patch
  <2>1. pc \in {"loop", "going"} /\ pc' \in {"going", "loop"} /\ observation' = observation
    BY <1>10 DEF goal_plan_patch, PatchDue, Iterating, Deciding, PastReview, Working
  <2> QED BY <1>0, <1>1, <1>2, <1>3, <2>1 DEF LastIsOpen
<1>11. CASE goal_stage_review
  <2>1. pc \in {"loop", "going"} /\ pc' \in {"going", "loop"} /\ observation' = observation
    BY <1>11 DEF goal_stage_review, Iterating, Deciding, Working
  <2> QED BY <1>0, <1>1, <1>2, <1>3, <2>1 DEF LastIsOpen
<1>12. CASE ReuseAudit
  <2>1. pc \in {"loop", "going"} /\ pc' = "audited" /\ observation' = observation /\ boundary # None /\ boundary.verdict # "none"
    BY <1>12 DEF ReuseAudit, Iterating
  <2> QED BY <1>0, <1>1, <1>2, <1>3, <2>1 DEF LastIsOpen
<1>13. CASE FinalAnswer
  <2>1. pc \in {"loop", "going"} /\ pc' = "final" /\ observation' = observation /\ boundary = None /\ observation = 0
    BY <1>13 DEF AnswerDue, FinalAnswer, PastReview, Working, Deciding, Iterating
  <2> QED BY <1>0, <1>1, <1>2, <1>3, <2>1 DEF LastIsOpen
<1>14. CASE RejectFinal
  <2>1. pc = "audited" /\ pc' = "rejected" /\ observation' = observation /\ boundary.kind = "pre_final"
    BY <1>14 DEF RejectFinal, localVars
  <2> QED BY <1>0, <1>1, <1>2, <1>3, <2>1 DEF LastIsOpen
<1>15. CASE RejectReply
  <2>1. /\ pc \in {"loop", "going"} /\ pc' \in {"blocking", "loop"}
        /\ \/ observation' = observation
           \/ observation' = 0 /\ boundary # None
    BY <1>15 DEF RejectReply, CallDue, AnswerDue, PastReview, Working, Deciding, Iterating
  <2> QED BY <1>0, <1>1, <1>2, <1>3, <2>1 DEF LastIsOpen
<1>16. CASE TransportFails
  <2>1. pc \in {"loop", "going"}
    BY <1>16 DEF TransportFails, CallDue, AnswerDue, PastReview, Working, Deciding, Iterating
  <2>2. (pc' = "off" /\ observation' = 0) \/ (pc' = "loop" /\ observation' = observation)
    BY <1>16 DEF TransportFails, Yields, Return
  <2> QED BY <1>0, <1>1, <1>2, <1>3, <2>1, <2>2 DEF LastIsOpen
<1> QED BY <1>4, <1>5, <1>6, <1>7, <1>8, <1>9, <1>10, <1>11, <1>12, <1>13, <1>14, <1>15, <1>16 DEF Planner, Checker

\* Steps of an action.
LEMMA PlaceStepActions ==
    ASSUME GoalInv, _recover_active_action \/ StartAction \/ FinishAction \/ _assign_action_to_step \/ RecoverObservation
    PROVE  LastIsOpen' /\ JudgementInv' /\ PlaceInv'
<1>0. /\ GoalTypeOK /\ LastIsOpen /\ JudgementInv /\ PlaceInv /\ WorkInv
      /\ Total \in Nat /\ DOMAIN actions = 1..Total
  BY ActionsTyped DEF GoalInv
<1>1. \A n \in DOMAIN actions : actions[n].result = "running" =>
         n = Total /\ n \notin observed /\ n \notin settled /\ boundary = None /\ actions[n].bound = None
  BY <1>0 DEF LastIsOpen, Judged
<1>2. CASE _recover_active_action
  <2>1. PICK n \in DOMAIN actions, result \in Results : actions[n].result = "running" /\ actions' = WithResult(n, result)
    BY <1>2 DEF _recover_active_action
  <2>2. /\ observed' = observed /\ settled' = settled /\ boundary' = boundary /\ pc = "starting" /\ pc' = pc
        /\ observation' = observation
    BY <1>2 DEF _recover_active_action, localVars
  <2>3. /\ Total' = Total /\ DOMAIN actions' = DOMAIN actions
        /\ \A k \in DOMAIN actions :
              /\ actions'[k].chosen = actions[k].chosen /\ actions'[k].bound = actions[k].bound
              /\ actions'[k].result = IF k = n THEN result ELSE actions[k].result
    BY <1>0, <2>1, WithResultIs DEF Total
  <2>4. result # "running"
    BY DEF Results
  <2>5. LastIsOpen'
    BY <1>0, <2>1, <2>2, <2>3, <2>4 DEF LastIsOpen, Judged
  <2>6. JudgementInv'
    BY <1>0, <1>1, <2>1, <2>2, <2>3 DEF JudgementInv
  <2>7. PlaceInv'
    BY <1>0, <1>1, <2>1, <2>2 DEF PlaceInv
  <2> QED BY <2>5, <2>6, <2>7
<1>3. CASE StartAction
  <2>1. /\ open_step_ids # {} /\ boundary = None /\ observation = 0 /\ pc \in {"loop", "going"}
        /\ actions' = Append(actions, [chosen |-> Next1, bound |-> None, result |-> "running"])
        /\ observed' = observed /\ settled' = settled /\ boundary' = boundary /\ pc' = "acting"
        /\ observation' = observation
    BY <1>3 DEF StartAction, Next1, PastReview, Working, Deciding, Iterating
  <2>2. AllJudged
    BY <1>0, <2>1 DEF PlaceInv
  <2>3. /\ Total' = Total + 1 /\ DOMAIN actions' = 1..(Total + 1)
        /\ actions'[Total + 1] = [chosen |-> Next1, bound |-> None, result |-> "running"]
        /\ \A k \in DOMAIN actions : actions'[k] = actions[k]
    <3>1. [chosen |-> Next1, bound |-> None, result |-> "running"] \in Entry
      BY <1>0, <2>1, FrontierIs DEF Entry, Next1
    <3>2. actions \in Seq(Entry)
      BY <1>0, ActionsTyped
    <3> HIDE DEF Entry
    <3>3. /\ Len(actions') = Len(actions) + 1 /\ DOMAIN actions' = 1..(Len(actions) + 1)
          /\ actions'[Len(actions) + 1] = [chosen |-> Next1, bound |-> None, result |-> "running"]
          /\ \A k \in 1..Len(actions) : actions'[k] = actions[k]
      BY <2>1, <3>1, <3>2, AppendProperties
    <3> QED BY <1>0, <3>3 DEF Total
  <2>4. Total + 1 \notin observed /\ Total + 1 \notin settled
    BY <1>0 DEF LastIsOpen
  <2>5. \A n \in DOMAIN actions' : n \in DOMAIN actions \/ n = Total + 1
    BY <1>0, <2>3
  <2>6. \A n \in DOMAIN actions : actions[n].result # "running"
    BY <1>1, <2>2 DEF AllJudged, Judged
  <2>7. LastIsOpen'
    <3>1. \A n \in DOMAIN actions' : n < Total' => Judged(n)'
      BY <1>0, <2>1, <2>2, <2>3, <2>5 DEF AllJudged, Judged
    <3>2. observed' \subseteq DOMAIN actions' /\ settled' \subseteq observed'
      BY <1>0, <2>1, <2>3 DEF LastIsOpen
    <3> QED BY <1>0, <2>1, <2>3, <2>4, <2>5, <2>6, <3>1, <3>2 DEF LastIsOpen
  <2>8. JudgementInv'
    BY <2>1, <2>2, <2>4, <2>5 DEF JudgementInv, AllJudged, Judged
  <2>9. PlaceInv'
    BY <1>0, <2>1, <2>3, <2>4 DEF PlaceInv, Judged
  <2> QED BY <2>7, <2>8, <2>9
<1>4. CASE FinishAction
  <2>1. PICK result \in Results : actions' = WithResult(Len(actions), result)
    BY <1>4 DEF FinishAction
  <2>2. /\ observed' = observed /\ settled' = settled /\ boundary' = boundary /\ pc = "acting" /\ pc' = "finished"
        /\ observation' = observation
    BY <1>4 DEF FinishAction
  <2>3. Len(actions) = Total /\ Total \in DOMAIN actions /\ boundary = None
    BY <1>0, <2>2 DEF PlaceInv, Total
  <2>4. /\ Total' = Total /\ DOMAIN actions' = DOMAIN actions
        /\ \A k \in DOMAIN actions :
              /\ actions'[k].chosen = actions[k].chosen /\ actions'[k].bound = actions[k].bound
              /\ actions'[k].result = IF k = Total THEN result ELSE actions[k].result
    BY <1>0, <2>1, <2>3, WithResultIs DEF Total
  <2>5. result # "running"
    BY DEF Results
  <2>6. LastIsOpen'
    BY <1>0, <1>1, <2>2, <2>3, <2>4, <2>5 DEF LastIsOpen, Judged
  <2>7. JudgementInv'
    BY <1>0, <2>2, <2>3, <2>4 DEF JudgementInv
  <2>8. PlaceInv'
    BY <1>0, <2>2, <2>3, <2>4 DEF PlaceInv, Judged
  <2> QED BY <2>6, <2>7, <2>8
<1>5. ASSUME NEW n \in DOMAIN actions, actions' = Assigned(n), n \notin settled, boundary = None
      PROVE  /\ Total' = Total /\ DOMAIN actions' = DOMAIN actions
             /\ \A k \in DOMAIN actions :
                   /\ actions'[k].chosen = actions[k].chosen /\ actions'[k].result = actions[k].result
                   /\ actions'[k].bound = IF k = n THEN actions[k].chosen ELSE actions[k].bound
  <2>1. open_step_ids # {} /\ actions[n].chosen = Next1
    BY <1>0, <1>5 DEF WorkInv
  <2> QED BY <1>0, <1>5, <2>1, AssignedIs DEF Total
<1>6. CASE _assign_action_to_step
  <2>1. /\ pc = "finished" /\ actions' = Assigned(Len(actions)) /\ pc' = "assigned"
        /\ observed' = observed /\ settled' = settled /\ boundary' = boundary /\ observation' = observation
    BY <1>6 DEF _assign_action_to_step, localVars
  <2>2. Len(actions) = Total /\ Total \in DOMAIN actions /\ boundary = None /\ Total \notin settled
    BY <1>0, <2>1 DEF PlaceInv, LastIsOpen, Total
  <2>3. /\ Total' = Total /\ DOMAIN actions' = DOMAIN actions
        /\ \A k \in DOMAIN actions :
              /\ actions'[k].chosen = actions[k].chosen /\ actions'[k].result = actions[k].result
              /\ actions'[k].bound = IF k = Total THEN actions[k].chosen ELSE actions[k].bound
    BY <1>5, <2>1, <2>2
  <2>4. \A n \in DOMAIN actions : actions[n].result # "running"
    BY <1>0, <2>1 DEF LastIsOpen
  <2>5. LastIsOpen'
    BY <1>0, <2>1, <2>2, <2>3, <2>4 DEF LastIsOpen, Judged
  <2>6. JudgementInv'
    BY <1>0, <2>1, <2>2, <2>3 DEF JudgementInv
  <2>7. PlaceInv'
    BY <1>0, <2>1, <2>2, <2>3 DEF PlaceInv, Judged
  <2> QED BY <2>5, <2>6, <2>7
<1>7. CASE RecoverObservation
  <2>1. /\ pc \in {"loop", "going"} /\ boundary = None /\ observation # 0
        /\ actions' = IF actions[observation].bound = None THEN Assigned(observation) ELSE actions
        /\ boundary' = [kind |-> "action", action |-> observation, verdict |-> "none"]
        /\ observation' = 0 /\ pc' = "loop" /\ observed' = observed /\ settled' = settled
    BY <1>7 DEF RecoverObservation, Iterating
  <2>2. observation \in DOMAIN actions /\ observation \notin observed /\ observation \notin settled /\ observation = Total
    BY <1>0, <2>1 DEF PlaceInv, LastIsOpen, Judged
  <2>3. /\ Total' = Total /\ DOMAIN actions' = DOMAIN actions
        /\ \A k \in DOMAIN actions :
              /\ actions'[k].chosen = actions[k].chosen /\ actions'[k].result = actions[k].result
              /\ actions'[k].bound = IF k = Total THEN actions[k].chosen ELSE actions[k].bound
    <3>1. CASE actions[observation].bound = None
      BY <1>5, <2>1, <2>2, <3>1
    <3>2. CASE actions[observation].bound # None
      BY <1>0, <2>1, <2>2, <3>2 DEF Total, LastIsOpen
    <3> QED BY <3>1, <3>2
  <2>4. \A n \in DOMAIN actions : actions[n].result # "running"
    BY <1>0, <2>1 DEF LastIsOpen
  <2>5. boundary' # None
    BY <1>0, <2>1, GoalAssumption DEF Judgements, GoalTypeOK
  <2>6. LastIsOpen'
    BY <1>0, <2>1, <2>2, <2>3, <2>4 DEF LastIsOpen, Judged
  <2>7. JudgementInv'
    BY <1>0, <2>1, <2>2, <2>3, <2>5 DEF JudgementInv
  <2>8. PlaceInv'
    BY <1>0, <2>1, <2>2, <2>3, <2>5 DEF PlaceInv, Judged
  <2> QED BY <2>6, <2>7, <2>8
<1> QED BY <1>2, <1>3, <1>4, <1>6, <1>7

\* Steps of a judgement.
LEMMA PlaceStepAudits ==
    ASSUME GoalInv,
           \/ _open_audit_boundary \/ append_action_observation \/ ResolveGap \/ AcceptStepAudit
           \/ ResolveAction \/ AcceptFinalAudit \/ OpenFinal \/ ResolveFinal
    PROVE  LastIsOpen' /\ JudgementInv' /\ PlaceInv'
<1>0. /\ GoalTypeOK /\ LastIsOpen /\ JudgementInv /\ PlaceInv
      /\ Total \in Nat /\ DOMAIN actions = 1..Total /\ Total <= MaxActions
  BY ActionsTyped DEF GoalInv
<1>1. \A kind, action, verdict :
         kind \in {"action", "pre_final"} /\ action \in 0..MaxActions /\ verdict \in {"none", "continue", "repair", "ready"}
         => [kind |-> kind, action |-> action, verdict |-> verdict] # None
  BY GoalAssumption DEF Judgements
<1>1a. MaxActions \in Nat /\ \A n \in DOMAIN actions : n \in 0..MaxActions
  BY <1>0, Bounds
<1>2. actions' = actions /\ Total' = Total
  BY DEF _open_audit_boundary, append_action_observation, ResolveGap, AcceptStepAudit, ResolveAction,
     AcceptFinalAudit, OpenFinal, ResolveFinal, Accept, Total
<1>3. pc \notin {"off", "starting", "acting"} => \A n \in DOMAIN actions : actions[n].result # "running"
  BY <1>0 DEF LastIsOpen
<1>4. CASE _open_audit_boundary
  <2>1. /\ pc = "assigned" /\ observed' = observed /\ settled' = settled /\ observation' = observation
        /\ \/ pc' = "loop" /\ boundary' = [kind |-> "action", action |-> Total, verdict |-> "none"]
           \/ pc' = "blocking" /\ boundary' = boundary
    BY <1>4 DEF _open_audit_boundary, localVars, Total
  <2>2. /\ Total \in DOMAIN actions /\ boundary = None /\ Total \notin settled /\ Total \notin observed
        /\ actions[Total].bound = actions[Total].chosen
    BY <1>0, <2>1 DEF PlaceInv, LastIsOpen
  <2>3. LastIsOpen'
    BY <1>0, <1>2, <1>3, <2>1, <2>2 DEF LastIsOpen, Judged
  <2>4. JudgementInv'
    BY <1>0, <1>1, <1>1a, <1>2, <2>1, <2>2 DEF JudgementInv
  <2>5. PlaceInv'
    BY <1>0, <1>1, <1>1a, <1>2, <2>1, <2>2 DEF PlaceInv, Judged
  <2> QED BY <2>3, <2>4, <2>5
<1>5. CASE append_action_observation
  <2>1. /\ pc \in {"loop", "going"} /\ boundary # None /\ boundary.kind = "action" /\ boundary.verdict = "none"
        /\ observed' = observed \cup {boundary.action} /\ settled' = settled /\ boundary' = boundary
        /\ pc' = pc /\ observation' = observation
    BY <1>5 DEF append_action_observation, Auditing, Iterating, localVars
  <2>2. boundary.action = Total /\ Total \in DOMAIN actions
    BY <1>0, <2>1 DEF JudgementInv
  <2>3. LastIsOpen'
    BY <1>0, <1>2, <1>3, <2>1, <2>2 DEF LastIsOpen, Judged
  <2>4. JudgementInv'
    BY <1>0, <1>2, <2>1, <2>2 DEF JudgementInv
  <2>5. PlaceInv'
    BY <1>0, <1>2, <2>1, <2>2 DEF PlaceInv, Judged
  <2> QED BY <2>3, <2>4, <2>5
<1>6. CASE ResolveGap \/ ResolveAction
  <2>1. /\ pc \in {"loop", "going", "audited"} /\ boundary # None /\ boundary.kind = "action" /\ boundary.action \in observed
        /\ observed' = observed /\ settled' = settled \cup {boundary.action} /\ boundary' = None
        /\ pc' = "loop" /\ observation' = 0
    BY <1>0, <1>6 DEF ResolveGap, ResolveAction, Settle, Auditing, Iterating, PlaceInv, JudgementInv
  <2>2. boundary.action = Total /\ Total \in DOMAIN actions
    BY <1>0, <2>1 DEF JudgementInv
  <2>3. LastIsOpen'
    BY <1>0, <1>2, <1>3, <2>1, <2>2 DEF LastIsOpen, Judged
  <2>4. \A n \in DOMAIN actions : n \in observed' /\ n \in settled'
    BY <1>0, <2>1, <2>2 DEF LastIsOpen, Judged
  <2>5. JudgementInv'
    BY <1>2, <2>1, <2>4 DEF JudgementInv
  <2>6. PlaceInv'
    BY <1>2, <2>1, <2>4 DEF PlaceInv, AllJudged, Judged
  <2> QED BY <2>3, <2>5, <2>6
<1>7. ASSUME NEW verdict \in {"continue", "repair", "ready"}, Accept(verdict), boundary # None,
             pc \in {"loop", "going"}, boundary.kind = "action" => boundary.action \in observed
      PROVE  LastIsOpen' /\ JudgementInv' /\ PlaceInv'
  <2>1. /\ boundary' = [kind |-> boundary.kind, action |-> boundary.action, verdict |-> verdict]
        /\ observed' = observed /\ settled' = settled /\ pc' = "audited" /\ observation' = observation
    BY <1>7 DEF Accept
  <2>2. boundary' # None /\ boundary'.kind = boundary.kind /\ boundary'.action = boundary.action /\ boundary'.verdict = verdict
    BY <1>0, <1>1, <1>7, <2>1 DEF GoalTypeOK, Judgements
  <2>3. LastIsOpen'
    BY <1>0, <1>2, <1>3, <1>7, <2>1, <2>2 DEF LastIsOpen, Judged
  <2>4. JudgementInv'
    BY <1>0, <1>2, <1>7, <2>1, <2>2 DEF JudgementInv, AllJudged, Judged
  <2>5. PlaceInv'
    BY <1>0, <1>2, <1>7, <2>1, <2>2 DEF PlaceInv, Judged
  <2> QED BY <2>3, <2>4, <2>5
<1>8. CASE AcceptStepAudit
  BY <1>7, <1>8 DEF AcceptStepAudit, Auditing, Iterating
<1>9. CASE AcceptFinalAudit
  BY <1>7, <1>9 DEF AcceptFinalAudit, Auditing, Iterating
<1>10. CASE OpenFinal
  <2>1. /\ pc = "final" /\ boundary' = [kind |-> "pre_final", action |-> 0, verdict |-> "none"]
        /\ observed' = observed /\ settled' = settled /\ pc' = "loop" /\ observation' = observation
    BY <1>10 DEF OpenFinal, localVars
  <2>2. AllJudged /\ observation = 0 /\ boundary' # None
    BY <1>0, <1>1, <1>1a, <2>1 DEF PlaceInv
  <2>3. LastIsOpen'
    BY <1>0, <1>2, <1>3, <2>1, <2>2 DEF LastIsOpen, Judged
  <2>4. JudgementInv'
    BY <1>0, <1>2, <2>1, <2>2 DEF JudgementInv, AllJudged, Judged
  <2>5. PlaceInv'
    BY <1>0, <1>2, <2>1, <2>2 DEF PlaceInv, AllJudged, Judged
  <2> QED BY <2>3, <2>4, <2>5
<1>11. CASE ResolveFinal
  <2>1. /\ pc \in {"rejected", "audited"} /\ boundary # None /\ boundary.kind = "pre_final" /\ boundary' = None
        /\ observed' = observed /\ settled' = settled /\ pc' \in {"loop", "ready"} /\ observation' = observation
    BY <1>0, <1>11 DEF ResolveFinal, PlaceInv, localVars
  <2>2. AllJudged /\ observation = 0
    BY <1>0, <2>1 DEF PlaceInv, JudgementInv
  <2>3. LastIsOpen'
    BY <1>0, <1>2, <1>3, <2>1, <2>2 DEF LastIsOpen, Judged
  <2>4. JudgementInv'
    BY <1>0, <1>2, <2>1, <2>2 DEF JudgementInv, AllJudged, Judged
  <2>5. PlaceInv'
    BY <1>0, <1>2, <2>1, <2>2 DEF PlaceInv, AllJudged, Judged
  <2> QED BY <2>3, <2>4, <2>5
<1> QED BY <1>4, <1>5, <1>6, <1>8, <1>9, <1>10, <1>11

-----------------------------------------------------------------------------
(* The work that is next, and the work that is done.                         *)

LEMMA WorkKept ==
    ASSUME WorkInv, UNCHANGED <<plan, evidence, actions, settled, boundary>>
    PROVE  WorkInv'
<1>1. Steps' = Steps /\ open_step_ids' = open_step_ids /\ Next1' = Next1
  BY DEF Next1, Binding, frontier, open_step_ids, current_stage, Steps, StageOf
<1>2. CompletedWorkIsClean' = CompletedWorkIsClean
  BY DEF CompletedWorkIsClean, Binding, open_step_ids, Steps, BoundTo
<1> QED BY <1>1, <1>2 DEF WorkInv

\* What is bound to a completed step is not the action that is worked on.
LEMMA ActionOfOpenStep ==
    ASSUME GoalTypeOK, LastIsOpen, WorkInv, NEW n \in DOMAIN actions, n \notin settled,
           boundary = None \/ boundary.verdict = "none"
    PROVE  /\ open_step_ids # {} /\ actions[n].chosen = Next1
           /\ Next1 # None /\ Next1[1] \in open_step_ids /\ Next1 = Binding(Next1[1])
           /\ \A s \in Steps \ open_step_ids : Binding(s) # None /\ Binding(s) # Next1
<1>1. open_step_ids # {} /\ actions[n].chosen = Next1
  BY DEF WorkInv
<1>2. Min(frontier) \in open_step_ids /\ Next1 \in StepIds \X Nat
  BY <1>1, FrontierIs DEF Next1
<1>3. \A s \in Steps : Binding(s) \in StepIds \X Nat
  BY DEF GoalTypeOK, Steps, Binding, PlanStep
<1>4. \A b \in StepIds \X Nat : b # None
  BY GoalAssumption
<1>5. \A s : Binding(s)[1] = s
  BY DEF Binding
<1> QED BY <1>1, <1>2, <1>3, <1>4, <1>5 DEF Next1

\* Only the action that is worked on changes, and its step stays open.
LEMMA WorkOfAction ==
    ASSUME GoalTypeOK, LastIsOpen, WorkInv, UNCHANGED <<plan, evidence, settled>>,
           NEW n \in DOMAIN actions, n \notin settled, boundary = None,
           DOMAIN actions' = DOMAIN actions,
           \A k \in DOMAIN actions :
              /\ actions'[k].chosen = actions[k].chosen
              /\ k = n => actions'[k].bound \in {None, actions[k].chosen}
              /\ k # n => actions'[k].bound = actions[k].bound /\ actions'[k].result = actions[k].result
    PROVE  WorkInv'
<1>1. /\ open_step_ids # {} /\ actions[n].chosen = Next1
      /\ \A s \in Steps \ open_step_ids : Binding(s) # None /\ Binding(s) # Next1
  BY ActionOfOpenStep
<1>2. /\ open_step_ids' = open_step_ids /\ Steps' = Steps /\ Next1' = Next1
      /\ \A s : Binding(s)' = Binding(s)
  BY DEF Next1, Binding, frontier, open_step_ids, current_stage, Steps, StageOf
<1>3. \A s \in Steps \ open_step_ids : \A k \in DOMAIN actions :
         actions'[k].bound = Binding(s) => actions'[k].result # "strays"
  BY <1>1 DEF WorkInv, CompletedWorkIsClean, BoundTo
<1>4. CompletedWorkIsClean'
  BY <1>2, <1>3 DEF CompletedWorkIsClean, BoundTo
<1>5. \A k \in DOMAIN actions : k \notin settled => open_step_ids # {} /\ actions[k].chosen = Next1
  BY DEF WorkInv
<1> QED BY <1>1, <1>2, <1>4, <1>5 DEF WorkInv

LEMMA WorkStep ==
    ASSUME GoalInv, [Next]_vars, LastIsOpen', PlaceInv', JudgementInv'
    PROVE  WorkInv'
<1>0. /\ GoalTypeOK /\ LastIsOpen /\ JudgementInv /\ PlaceInv /\ WorkInv
      /\ Total \in Nat /\ DOMAIN actions = 1..Total
  BY ActionsTyped DEF GoalInv
<1>1. CASE UNCHANGED <<plan, evidence, actions, settled, boundary>>
  BY <1>0, <1>1, WorkKept
<1>2. CASE _recover_active_action
  <2>1. PICK n \in DOMAIN actions, result \in Results : actions[n].result = "running" /\ actions' = WithResult(n, result)
    BY <1>2 DEF _recover_active_action
  <2>2. boundary = None /\ n \notin settled /\ actions[n].bound = None /\ UNCHANGED <<plan, evidence, settled>>
    BY <1>0, <1>2, <2>1 DEF _recover_active_action, LastIsOpen, planVars
  <2> QED BY <1>0, <2>1, <2>2, WithResultIs, WorkOfAction
<1>3. CASE StartAction
  <2>1. /\ open_step_ids # {} /\ boundary = None /\ observation = 0 /\ pc \in {"loop", "going"}
        /\ actions' = Append(actions, [chosen |-> Next1, bound |-> None, result |-> "running"])
        /\ UNCHANGED <<plan, evidence, settled, boundary>>
    BY <1>3 DEF StartAction, Next1, PastReview, Working, Deciding, Iterating, planVars
  <2>2. /\ DOMAIN actions' = 1..(Total + 1)
        /\ actions'[Total + 1] = [chosen |-> Next1, bound |-> None, result |-> "running"]
        /\ \A k \in DOMAIN actions : actions'[k] = actions[k]
    <3>1. [chosen |-> Next1, bound |-> None, result |-> "running"] \in Entry
      BY <1>0, <2>1, FrontierIs DEF Entry, Next1
    <3>2. actions \in Seq(Entry)
      BY <1>0, ActionsTyped
    <3> HIDE DEF Entry
    <3>3. /\ DOMAIN actions' = 1..(Len(actions) + 1)
          /\ actions'[Len(actions) + 1] = [chosen |-> Next1, bound |-> None, result |-> "running"]
          /\ \A k \in 1..Len(actions) : actions'[k] = actions[k]
      BY <2>1, <3>1, <3>2, AppendProperties
    <3> QED BY <1>0, <3>3 DEF Total
  <2>3. /\ open_step_ids' = open_step_ids /\ Steps' = Steps /\ Next1' = Next1
        /\ \A s : Binding(s)' = Binding(s)
    BY <2>1 DEF Next1, Binding, frontier, open_step_ids, current_stage, Steps, StageOf
  <2>4. \A k \in DOMAIN actions' : k \in DOMAIN actions \/ k = Total + 1
    BY <1>0, <2>2
  <2>5. actions'[Total + 1].chosen = Next1 /\ actions'[Total + 1].result # "strays"
    BY <2>2
  <2>6. CompletedWorkIsClean'
    BY <1>0, <2>2, <2>3, <2>4, <2>5 DEF WorkInv, CompletedWorkIsClean, BoundTo
  <2>7. \A k \in DOMAIN actions : k \notin settled => open_step_ids # {} /\ actions[k].chosen = Next1
    BY <1>0, <2>1 DEF WorkInv
  <2>8. \A k \in DOMAIN actions' : k \notin settled => open_step_ids # {} /\ actions'[k].chosen = Next1
    BY <2>1, <2>2, <2>4, <2>5, <2>7
  <2> QED BY <1>0, <2>1, <2>3, <2>6, <2>8 DEF WorkInv
<1>4. CASE FinishAction
  <2>1. PICK result \in Results : actions' = WithResult(Total, result)
    BY <1>4 DEF FinishAction, Total
  <2>2. Total \in DOMAIN actions /\ Total \notin settled /\ boundary = None /\ UNCHANGED <<plan, evidence, settled>>
    BY <1>0, <1>4 DEF FinishAction, PlaceInv, LastIsOpen, planVars
  <2>3. actions[Total].bound \in {None, actions[Total].chosen}
    BY <1>0, <2>2 DEF LastIsOpen
  <2> QED BY <1>0, <2>1, <2>2, <2>3, WithResultIs, WorkOfAction
<1>5. CASE _assign_action_to_step
  <2>1. /\ Total \in DOMAIN actions /\ Total \notin settled /\ boundary = None
        /\ actions' = Assigned(Total) /\ UNCHANGED <<plan, evidence, settled>>
    BY <1>0, <1>5 DEF _assign_action_to_step, PlaceInv, LastIsOpen, planVars, Total
  <2>2. open_step_ids # {} /\ actions[Total].chosen = Next1
    BY <1>0, <2>1, ActionOfOpenStep
  <2> QED BY <1>0, <2>1, <2>2, AssignedIs, WorkOfAction
<1>6. CASE RecoverObservation
  <2>1. /\ pc \in {"loop", "going"} /\ boundary = None /\ observation # 0
        /\ actions' = IF actions[observation].bound = None THEN Assigned(observation) ELSE actions
        /\ UNCHANGED <<plan, evidence, settled>>
    BY <1>6 DEF RecoverObservation, Iterating, planVars
  <2>2. observation \in DOMAIN actions /\ observation \notin settled
    BY <1>0, <2>1 DEF PlaceInv, LastIsOpen
  <2>3. open_step_ids # {} /\ actions[observation].chosen = Next1
    BY <1>0, <2>1, <2>2, ActionOfOpenStep
  <2>4. CASE actions[observation].bound = None
    BY <1>0, <2>1, <2>2, <2>3, <2>4, AssignedIs, WorkOfAction
  <2>5. CASE actions[observation].bound # None
    <3>1. actions[observation].bound \in {None, actions[observation].chosen}
      BY <1>0, <2>2 DEF LastIsOpen
    <3> QED BY <1>0, <2>1, <2>2, <2>5, <3>1, WorkOfAction
  <2> QED BY <2>4, <2>5
<1>7. CASE _open_audit_boundary
  <2>1. boundary = None /\ UNCHANGED <<plan, evidence, actions, settled>>
    BY <1>0, <1>7 DEF _open_audit_boundary, PlaceInv, planVars
  <2>2. /\ open_step_ids' = open_step_ids /\ Steps' = Steps /\ Next1' = Next1
        /\ CompletedWorkIsClean' = CompletedWorkIsClean
    BY <2>1 DEF Next1, Binding, frontier, open_step_ids, current_stage, Steps, StageOf, CompletedWorkIsClean, BoundTo
  <2> QED BY <1>0, <2>1, <2>2 DEF WorkInv
<1>8. ASSUME UNCHANGED <<plan, evidence, actions>>, \A n \in DOMAIN actions : n \in settled'
      PROVE  WorkInv'
  <2>1. Steps' = Steps /\ CompletedWorkIsClean' = CompletedWorkIsClean
    BY <1>8 DEF Binding, open_step_ids, Steps, CompletedWorkIsClean, BoundTo
  <2> QED BY <1>0, <1>8, <2>1 DEF WorkInv
<1>9. CASE ResolveGap \/ ResolveAction
  <2>1. /\ boundary # None /\ boundary.kind = "action" /\ settled' = settled \cup {boundary.action}
        /\ UNCHANGED <<plan, evidence, actions>>
    BY <1>0, <1>9 DEF ResolveGap, ResolveAction, Settle, Auditing, PlaceInv, planVars
  <2>2. boundary.action = Total
    BY <1>0, <2>1 DEF JudgementInv
  <2>3. \A n \in DOMAIN actions : n \in settled'
    BY <1>0, <2>1, <2>2 DEF LastIsOpen, Judged
  <2> QED BY <1>8, <2>1, <2>3
<1>10. CASE OpenFinal \/ ResolveFinal \/ AcceptFinalAudit
  <2>1. UNCHANGED <<plan, evidence, actions, settled>>
    BY <1>10 DEF OpenFinal, ResolveFinal, AcceptFinalAudit, Accept, planVars
  <2>2. AllJudged
    BY <1>0, <1>10 DEF OpenFinal, ResolveFinal, AcceptFinalAudit, Auditing, PlaceInv, JudgementInv
  <2> QED BY <1>8, <2>1, <2>2 DEF AllJudged, Judged
<1>11. CASE AcceptStepAudit
  <2> DEFINE binding == actions[boundary.action].bound
  <2>1. /\ boundary # None /\ boundary.kind = "action" /\ boundary.verdict = "none" /\ evidence_coverage(binding)
        /\ UNCHANGED <<plan, actions, settled>>
        /\ boundary'.verdict \in {"continue", "repair"}
        /\ \/ evidence' = evidence
           \/ \E cited \in SUBSET BoundTo(binding) \ {{}} : evidence' = [evidence EXCEPT ![binding[1]] = cited]
    BY <1>11 DEF AcceptStepAudit, Auditing, Accept
  <2>2. boundary.action \in DOMAIN actions /\ boundary.action \notin settled /\ binding = actions[boundary.action].chosen
    BY <1>0, <2>1 DEF JudgementInv
  <2>3. /\ binding = Next1 /\ Next1[1] \in open_step_ids /\ Next1 = Binding(Next1[1])
    BY <1>0, <2>1, <2>2, ActionOfOpenStep
  <2>4. \A k \in BoundTo(binding) : actions[k].result # "strays"
    BY <2>1 DEF evidence_coverage
  <2>5. Steps' = Steps /\ (\A s : Binding(s)' = Binding(s)) /\ (\A b : BoundTo(b)' = BoundTo(b))
    BY <2>1 DEF Steps, Binding, BoundTo
  <2>6. \A s \in StepIds : s # Next1[1] => evidence'[s] = evidence[s]
    BY <1>0, <2>1, <2>3 DEF GoalTypeOK
  <2>7. CompletedWorkIsClean'
    <3> SUFFICES ASSUME NEW s \in Steps, evidence'[s] # {}, NEW k \in BoundTo(Binding(s)) PROVE actions[k].result # "strays"
      BY <2>1, <2>5 DEF CompletedWorkIsClean, open_step_ids
    <3>1. CASE s = Next1[1]
      BY <2>3, <2>4, <3>1
    <3>2. CASE s # Next1[1]
      BY <1>0, <2>6, <3>2 DEF WorkInv, CompletedWorkIsClean, open_step_ids, Steps
    <3> QED BY <3>1, <3>2
  <2>8. \A s \in StepIds : s \notin Steps => evidence'[s] = {}
    BY <1>0, <2>3, <2>6 DEF WorkInv, open_step_ids
  <2>9. boundary' # None
    BY <1>11, <2>1 DEF PlaceInv, AcceptStepAudit, Accept
  <2> QED BY <1>0, <2>1, <2>5, <2>7, <2>8, <2>9 DEF WorkInv
<1>12. CASE goal_plan_patch
  <2>1. /\ pc \in {"loop", "going"} /\ UNCHANGED <<evidence, actions, settled, boundary>>
        /\ Steps = {} \/ (boundary = None /\ observation = 0)
    BY <1>12 DEF goal_plan_patch, PatchDue, Iterating, Deciding, PastReview, Working, actionVars
  <2>2. /\ plan'.known >= plan.known /\ plan.known \in Nat /\ plan'.known \in Nat
        /\ \A s \in StepIds : s > plan'.known /\ plan.step[s] = None /\ s > plan.known => plan'.step[s] = None
        /\ \A s \in Steps \ open_step_ids : s <= plan.known => plan'.step[s] = plan.step[s]
        /\ \A s \in StepIds : s \in Nat
    BY <1>0, <1>12, Bounds, PatchIs DEF Plans, GoalTypeOK, StepIds
  <2>3. \A s \in StepIds : s > plan.known => s \notin Steps
    BY <1>0 DEF WorkInv
  <2>4. \A s \in StepIds : evidence[s] # {} => s \in Steps /\ s \notin open_step_ids /\ s <= plan.known
    BY <1>0, <2>2, <2>3 DEF WorkInv, open_step_ids
  <2>5. \A s \in StepIds : evidence[s] # {} => plan'.step[s] = plan.step[s] /\ s \in Steps'
    BY <2>2, <2>4 DEF Steps
  <2>6. \A s \in StepIds : s > plan'.known => s \notin Steps'
    BY <2>2, <2>3 DEF Steps
  <2>7. CompletedWorkIsClean'
    <3> SUFFICES ASSUME NEW s \in StepIds, evidence[s] # {}, NEW k \in DOMAIN actions,
                        actions[k].bound = <<s, plan'.step[s].revision>>
                 PROVE  actions[k].result # "strays"
      BY <2>1 DEF CompletedWorkIsClean, open_step_ids, Steps, BoundTo, Binding
    <3>1. actions[k].bound = Binding(s) /\ s \in Steps \ open_step_ids
      BY <2>4, <2>5 DEF Binding
    <3> QED BY <1>0, <3>1 DEF WorkInv, CompletedWorkIsClean, BoundTo
  <2>8. \A n \in DOMAIN actions : n \notin settled /\ (boundary = None \/ boundary.verdict = "none") => FALSE
    <3>1. CASE Steps = {}
      BY <1>0, <3>1 DEF WorkInv, open_step_ids
    <3>2. CASE boundary = None /\ observation = 0
      BY <1>0, <2>1, <3>2 DEF PlaceInv, AllJudged, Judged
    <3> QED BY <2>1, <3>1, <3>2
  <2> QED BY <2>1, <2>5, <2>6, <2>7, <2>8 DEF WorkInv
<1>13. CASE \/ UNCHANGED vars \/ Begin \/ Kill \/ StartRun \/ Exhaust \/ _block \/ PlannerFails \/ Checker
            \/ append_action_observation
  BY <1>1, <1>13
  DEF Checker, CheckerFails, goal_stage_review, vars, planVars, actionVars, Begin, Kill, StartRun, Exhaust, _block,
      Return, Yields, PlannerFails, append_action_observation
<1>14. CASE ReuseAudit \/ FinalAnswer \/ RejectFinal \/ Complete \/ RejectReply \/ TransportFails
  BY <1>1, <1>14
  DEF planVars, actionVars, Yields, ReuseAudit, FinalAnswer, RejectFinal, Complete, RejectReply, TransportFails
<1> QED
  BY <1>2, <1>3, <1>4, <1>5, <1>6, <1>7, <1>9, <1>10, <1>11, <1>12, <1>13, <1>14
  DEF Next, Controller, Planner, Executor, Auditor, Finalizer

-----------------------------------------------------------------------------
(* The end of the goal.                                                      *)

LEMMA PlanKept ==
    ASSUME UNCHANGED <<plan, evidence, reviewed>>
    PROVE  /\ Steps' = Steps /\ open_step_ids' = open_step_ids /\ complete' = complete
           /\ completed_stages' = completed_stages /\ Unreviewed' = Unreviewed
           /\ \A x : stage_boundary_key(x)' = stage_boundary_key(x)
<1>1. Steps' = Steps /\ open_step_ids' = open_step_ids
  BY DEF open_step_ids, Steps
<1>2. uncovered' = uncovered
  BY <1>1 DEF uncovered
<1>3. \A x : StageOf(x)' = StageOf(x)
  BY DEF StageOf
<1>4. completed_stages' = completed_stages
  BY <1>1, <1>3 DEF completed_stages
<1>5. \A x : stage_boundary_key(x)' = stage_boundary_key(x)
  BY <1>1, <1>3 DEF stage_boundary_key, stage_steps
<1>6. Unreviewed' = Unreviewed
  BY <1>4, <1>5 DEF Unreviewed
<1> QED BY <1>1, <1>2, <1>4, <1>5, <1>6 DEF complete

LEMMA DoneKept ==
    ASSUME UNCHANGED <<plan, evidence, reviewed, stageRepair>>
    PROVE  Done' = Done
BY PlanKept DEF Done

\* Nothing but the finalizer brings a goal nearer to its end.
LEMMA DoneElsewhere ==
    ASSUME DoneInv, UNCHANGED finalRepair,
           UNCHANGED <<plan, evidence, reviewed, stageRepair>>,
           boundary' = boundary \/ (boundary' # None => boundary'.kind # "pre_final"),
           status' \in {status, "running", "interrupted", "blocked"},
           pc' \notin {"final", "ready", "rejected"}, status' = "completed" => pc' = "off"
    PROVE  DoneInv'
BY DoneKept DEF DoneInv

LEMMA DoneStep ==
    ASSUME GoalInv, [Next]_vars, JudgementInv'
    PROVE  DoneInv'
<1>0. /\ GoalTypeOK /\ JudgementInv /\ PlaceInv /\ DoneInv
      /\ boundary # None => boundary.kind \in {"action", "pre_final"} /\ boundary.verdict \in {"none", "continue", "repair", "ready"}
      /\ status = "completed" => pc = "off"
  BY DEF GoalInv, GoalTypeOK, Judgements, DoneInv
<1>1. CASE UNCHANGED vars
  <2>1. UNCHANGED <<plan, evidence, reviewed, stageRepair>> /\ UNCHANGED <<status, pc, boundary, finalRepair>>
    BY <1>1 DEF vars, planVars, reviewVars, actionVars
  <2> QED BY <1>0, <2>1, DoneKept DEF DoneInv
<1>2. CASE \/ Begin \/ Kill \/ StartRun \/ Exhaust \/ _block \/ PlannerFails \/ CheckerFails \/ _recover_active_action
           \/ FinishAction \/ _assign_action_to_step \/ append_action_observation \/ RejectReply \/ TransportFails
           \/ StartAction \/ ReuseAudit
  <2>1. UNCHANGED <<plan, evidence, reviewed, stageRepair>> /\ UNCHANGED finalRepair /\ boundary' = boundary
    BY <1>2 DEF Begin, Kill, StartRun, Exhaust, _block, PlannerFails, CheckerFails, _recover_active_action, FinishAction,
       _assign_action_to_step, append_action_observation, RejectReply, TransportFails, StartAction, ReuseAudit,
       Yields, planVars, reviewVars, actionVars
  <2>2. CASE Begin \/ Kill \/ StartRun \/ Exhaust \/ _block \/ PlannerFails \/ CheckerFails \/ _recover_active_action
    <3>1. /\ status' \in {status, "running", "interrupted", "blocked"} /\ pc' \in {"off", "starting", "loop"}
          /\ status' = "completed" => pc' = "off"
      BY <1>0, <2>2 DEF Begin, Kill, StartRun, Exhaust, _block, PlannerFails, CheckerFails, _recover_active_action,
         Yields, Return
    <3> QED BY <1>0, <2>1, <3>1, DoneElsewhere
  <2>3. CASE FinishAction \/ _assign_action_to_step \/ RejectReply \/ StartAction \/ ReuseAudit
    <3>1. /\ status' = status /\ pc # "off" /\ pc' \in {"acting", "finished", "assigned", "loop", "blocking", "audited"}
      BY <1>0, <2>3 DEF FinishAction, _assign_action_to_step, RejectReply, StartAction, ReuseAudit,
         CallDue, AnswerDue, PastReview, Working, Deciding, Iterating
    <3> QED BY <1>0, <2>1, <3>1, DoneElsewhere
  <2>4. CASE append_action_observation
    <3>1. status' = status /\ pc \in {"loop", "going"} /\ pc' = pc
      BY <2>4 DEF append_action_observation, Auditing, Iterating, localVars
    <3> QED BY <1>0, <2>1, <3>1, DoneElsewhere
  <2>5. CASE TransportFails
    <3>1. pc \in {"loop", "going"}
      BY <2>5 DEF TransportFails, CallDue, AnswerDue, PastReview, Working, Deciding, Iterating
    <3>2. (status' = status /\ pc' = "loop") \/ (status' = "interrupted" /\ pc' = "off")
      BY <2>5 DEF TransportFails, Yields, Return
    <3> QED BY <1>0, <2>1, <3>1, <3>2, DoneElsewhere
  <2> QED BY <1>2, <2>2, <2>3, <2>4, <2>5
<1>3. CASE _open_audit_boundary \/ RecoverObservation
  <2>1. /\ UNCHANGED <<plan, evidence, reviewed, stageRepair>> /\ UNCHANGED finalRepair /\ status' = status /\ pc # "off"
        /\ pc' \in {"loop", "blocking"}
    BY <1>3 DEF _open_audit_boundary, RecoverObservation, Iterating, planVars, reviewVars
  <2>2. boundary' = boundary \/ boundary'.kind = "action"
    BY <1>3 DEF _open_audit_boundary, RecoverObservation
  <2> QED BY <1>0, <2>1, <2>2, DoneElsewhere
<1>4. CASE ResolveGap \/ ResolveAction
  <2>1. /\ UNCHANGED <<plan, evidence, reviewed, stageRepair>> /\ UNCHANGED finalRepair /\ status' = status /\ pc # "off"
        /\ pc' = "loop" /\ boundary' = None
    BY <1>4 DEF ResolveGap, ResolveAction, Settle, Auditing, Iterating, planVars, reviewVars
  <2> QED BY <1>0, <2>1, DoneElsewhere
<1>5. CASE goal_plan_patch
  <2>1. pc \in {"loop", "going"} /\ pc' \in {"loop", "going"} /\ status' = status /\ boundary' = boundary /\ (Steps = {} \/ boundary = None)
    BY <1>5 DEF goal_plan_patch, PatchDue, PastReview, Working, Deciding, Iterating, actionVars
  <2>2. boundary = None \/ boundary.kind # "pre_final"
    BY <1>0, <2>1 DEF DoneInv, Done, complete
  <2> QED BY <1>0, <2>1, <2>2 DEF DoneInv
<1>6. CASE goal_stage_review
  <2>1. pc \in {"loop", "going"} /\ pc' \in {"loop", "going"} /\ status' = status /\ boundary' = None /\ boundary = None
    BY <1>6 DEF goal_stage_review, Working, Deciding, Iterating, actionVars
  <2> QED BY <1>0, <2>1 DEF DoneInv
<1>7. CASE AcceptStepAudit
  <2>1. /\ pc \in {"loop", "going"} /\ pc' = "audited" /\ status' = status /\ boundary'.kind = "action"
    BY <1>7 DEF AcceptStepAudit, Accept, Auditing, Iterating
  <2> QED BY <1>0, <2>1 DEF DoneInv
<1>8. CASE AcceptFinalAudit
  <2>1. /\ UNCHANGED <<plan, evidence, reviewed, stageRepair>> /\ finalRepair' = finalRepair
        /\ pc \in {"loop", "going"} /\ pc' = "audited" /\ status' = status
        /\ boundary # None /\ boundary.kind = "pre_final" /\ boundary.verdict = "none"
    BY <1>8 DEF AcceptFinalAudit, Accept, Auditing, Iterating, planVars, reviewVars
  <2>2. Done' /\ ~finalRepair'
    BY <1>0, <2>1, DoneKept DEF DoneInv
  <2> QED BY <1>0, <2>1, <2>2 DEF DoneInv
<1>9. CASE FinalAnswer
  <2>1. /\ UNCHANGED <<plan, evidence, reviewed, stageRepair>> /\ finalRepair' = finalRepair /\ status' = status
        /\ boundary' = None /\ boundary = None /\ pc \in {"loop", "going"} /\ pc' = "final" /\ ~finalRepair /\ ~stageRepair /\ complete /\ Unreviewed = {}
    BY <1>9 DEF AnswerDue, FinalAnswer, PastReview, Working, Deciding, Iterating, planVars, reviewVars, actionVars
  <2>2. Done'
    BY <2>1, DoneKept DEF Done, Unreviewed
  <2> QED BY <1>0, <2>1, <2>2 DEF DoneInv
<1>10. CASE OpenFinal
  <2>1. /\ UNCHANGED <<plan, evidence, reviewed, stageRepair>> /\ finalRepair' = finalRepair /\ status' = status
        /\ pc = "final" /\ pc' = "loop"
    BY <1>10 DEF OpenFinal, planVars, reviewVars
  <2>2. Done' /\ ~finalRepair'
    BY <1>0, <2>1, DoneKept DEF DoneInv
  <2> QED BY <1>0, <2>1, <2>2 DEF DoneInv
<1>11. CASE RejectFinal
  <2>1. /\ UNCHANGED <<plan, evidence, reviewed, stageRepair>> /\ status' = status /\ boundary' = boundary
        /\ pc = "audited" /\ pc' = "rejected" /\ boundary.kind = "pre_final" /\ boundary.verdict # "ready"
    BY <1>11 DEF RejectFinal, planVars, actionVars
  <2>2. Done' /\ boundary # None /\ boundary.verdict # "none"
    BY <1>0, <2>1, DoneKept DEF DoneInv, PlaceInv
  <2> QED BY <1>0, <2>1, <2>2 DEF DoneInv
<1>12. CASE ResolveFinal
  <2>1. /\ UNCHANGED <<plan, evidence, reviewed, stageRepair>> /\ finalRepair' = finalRepair /\ status' = status /\ boundary' = None
        /\ \/ pc = "rejected" /\ pc' = "loop"
           \/ pc = "audited" /\ boundary.kind = "pre_final" /\ boundary.verdict = "ready" /\ pc' = "ready"
    BY <1>12 DEF ResolveFinal, planVars, reviewVars
  <2>2. CASE pc = "rejected" /\ pc' = "loop"
    BY <1>0, <2>1, <2>2, DoneElsewhere
  <2>3. CASE pc = "audited" /\ boundary.kind = "pre_final" /\ boundary.verdict = "ready" /\ pc' = "ready"
    <3>1. boundary # None
      BY <1>0, <2>3 DEF PlaceInv
    <3>2. Done' /\ ~finalRepair'
      BY <1>0, <2>1, <2>3, <3>1, DoneKept DEF DoneInv
    <3> QED BY <1>0, <2>1, <2>3, <3>2 DEF DoneInv
  <2> QED BY <2>1, <2>2, <2>3
<1>13. CASE Complete
  <2>1. /\ UNCHANGED <<plan, evidence, reviewed, stageRepair>> /\ finalRepair' = finalRepair /\ boundary' = boundary
        /\ pc = "ready" /\ pc' = "off" /\ status' = "completed"
    BY <1>13 DEF Complete, Return, planVars, reviewVars, actionVars
  <2>2. Done' /\ ~finalRepair' /\ boundary = None
    BY <1>0, <2>1, DoneKept DEF DoneInv, PlaceInv
  <2> QED BY <1>0, <2>1, <2>2 DEF DoneInv
<1> QED
  BY <1>1, <1>2, <1>3, <1>4, <1>5, <1>6, <1>7, <1>8, <1>9, <1>10, <1>11, <1>12, <1>13
  DEF Next, Controller, Planner, Checker, Executor, Auditor, Finalizer

-----------------------------------------------------------------------------
LEMMA GoalInvStarts == ASSUME Init PROVE GoalInv
<1>0. MaxSteps \in Nat /\ MaxActions \in Nat /\ MaxRuns \in Nat
  BY Bounds
<1>1. GoalTypeOK /\ Total <= MaxActions
  <2>1. plan \in [step : [StepIds -> PlanStep \cup {None}], known : 0..MaxSteps, patches : Nat]
    BY <1>0 DEF Init
  <2>2. evidence \in [StepIds -> SUBSET ActionIds]
    BY DEF Init
  <2>3. actions = <<>> /\ actions \in Seq(Entry) /\ Len(actions) = 0
    BY DEF Init
  <2>4. /\ status = "created" /\ observed = {} /\ settled = {} /\ boundary = None
        /\ stageRepair = FALSE /\ finalRepair = FALSE /\ finals = 0 /\ rejections = 0 /\ auditRejections = 0
        /\ pc = "off" /\ observation = 0 /\ turns = 0 /\ fails = 0 /\ runs = 0
    BY DEF Init
  <2>5. actions \in Seq([chosen : StepIds \X Nat, bound : (StepIds \X Nat) \cup {None},
                        result : Results \cup {"running"}])
    BY <2>3 DEF Entry
  <2>6. runs \in 0..MaxRuns /\ observation \in 0..MaxActions /\ Total <= MaxActions
    BY <1>0, <2>3, <2>4 DEF Total
  <2>7. /\ status \in {"created", "running", "interrupted", "blocked", "completed"}
        /\ pc \in {"off", "starting", "loop", "going", "acting", "finished", "assigned", "final",
                  "audited", "rejected", "ready", "blocking"}
        /\ finals \in Nat /\ rejections \in Nat /\ auditRejections \in Nat /\ turns \in Nat /\ fails \in Nat
        /\ stageRepair \in BOOLEAN /\ finalRepair \in BOOLEAN
        /\ observed \subseteq ActionIds /\ settled \subseteq ActionIds /\ boundary \in Judgements \cup {None}
    BY <2>4
  <2> QED BY <2>1, <2>2, <2>5, <2>6, <2>7 DEF GoalTypeOK
<1>2. actions = <<>> /\ DOMAIN actions = {} /\ boundary = None /\ pc = "off" /\ observation = 0 /\ status = "created" /\ observed = {} /\ settled = {}
  BY DEF Init
<1>3. LastIsOpen /\ JudgementInv /\ PlaceInv /\ DoneInv
  BY <1>2 DEF LastIsOpen, JudgementInv, PlaceInv, DoneInv
<1>4. Steps = {} /\ \A s \in StepIds : evidence[s] = {}
  BY DEF Init, Steps
<1>5. WorkInv
  BY <1>2, <1>4 DEF WorkInv, CompletedWorkIsClean
<1> QED BY <1>1, <1>3, <1>5 DEF GoalInv

LEMMA GoalInvSteps == ASSUME GoalInv, [Next]_vars PROVE GoalInv'
<1>1. GoalTypeOK' /\ Total' <= MaxActions'
  BY TypesStep
<1>2. LastIsOpen' /\ JudgementInv' /\ PlaceInv'
  <2>1. CASE \/ UNCHANGED vars \/ Begin \/ Kill \/ StartRun \/ Exhaust \/ _block \/ Planner \/ Checker
             \/ ReuseAudit \/ FinalAnswer \/ RejectFinal \/ Complete \/ RejectReply \/ TransportFails
    <3>1. UNCHANGED actionVars
      BY <2>1 DEF vars, Begin, Kill, StartRun, Exhaust, _block, Planner, Checker, goal_plan_patch, goal_stage_review,
         PlannerFails, CheckerFails, Yields, ReuseAudit, FinalAnswer, RejectFinal, Complete, RejectReply, TransportFails
    <3> QED BY <2>1, <3>1, PlaceStepMoves
  <2>2. CASE _recover_active_action \/ StartAction \/ FinishAction \/ _assign_action_to_step \/ RecoverObservation
    BY <2>2, PlaceStepActions
  <2>3. CASE \/ _open_audit_boundary \/ append_action_observation \/ ResolveGap \/ AcceptStepAudit
             \/ ResolveAction \/ AcceptFinalAudit \/ OpenFinal \/ ResolveFinal
    BY <2>3, PlaceStepAudits
  <2> QED BY <2>1, <2>2, <2>3 DEF Next, Controller, Executor, Auditor, Finalizer
<1>3. WorkInv' /\ DoneInv'
  BY <1>2, WorkStep, DoneStep
<1> QED BY <1>1, <1>2, <1>3 DEF GoalInv

LEMMA GoalInvAlways == Spec => []GoalInv
BY GoalInvStarts, GoalInvSteps, PTL DEF Spec

-----------------------------------------------------------------------------
(* The results.                                                              *)

\* At most the last action is not judged, so none is started over one that is not: the
\* event store and the audit boundaries put a restarted controller back before the same
\* action.
THEOREM ActionsAreAlwaysJudged == Spec => []ActionsAreJudged
<1>1. GoalInv => ActionsAreJudged
  BY DEF GoalInv, LastIsOpen, Total, Judged, ActionsAreJudged
<1> QED BY <1>1, GoalInvAlways, PTL

\* An action is assigned to a step that is open, and the audit that completes the step
\* looks at all that are assigned to it.
THEOREM CompletedWorkStaysClean == Spec => []CompletedWorkIsClean
<1>1. GoalInv => CompletedWorkIsClean
  BY DEF GoalInv, WorkInv
<1> QED BY <1>1, GoalInvAlways, PTL

\* What the finalizer found holds until run_completed: nothing touches the plan, the
\* evidence or the reviews while a final answer is audited.
THEOREM CompletionsAreReviewed == Spec => []CompletionIsReviewed
<1>1. GoalInv => CompletionIsReviewed
  BY DEF GoalInv, DoneInv, Done, complete, CompletionIsReviewed
<1> QED BY <1>1, GoalInvAlways, PTL

\* The frontier is of the earliest open stage, and the executor is asked past its review.
THEOREM StagesStayBarriers == Spec => StagesAreBarriers
<1>1. ASSUME GoalInv, [Next]_vars
      PROVE  [Len(actions') > Len(actions) =>
                \A s \in Steps : StageOf(s) < StageOf(actions'[Len(actions')].chosen[1]) =>
                    evidence[s] # {} /\ stage_boundary_key(StageOf(s)) \in reviewed]_vars
  <2>0. GoalTypeOK /\ LastIsOpen /\ PlaceInv /\ Total \in Nat /\ DOMAIN actions = 1..Total
    BY <1>1, ActionsTyped DEF GoalInv
  <2>1. SUFFICES ASSUME StartAction
                 PROVE  \A s \in Steps : StageOf(s) < StageOf(actions'[Len(actions')].chosen[1]) =>
                           evidence[s] # {} /\ stage_boundary_key(StageOf(s)) \in reviewed
    <3>1. StartAction \/ Len(actions') = Len(actions)
      <4>1. CASE actions' = actions
        BY <4>1
      <4>2. CASE _recover_active_action \/ FinishAction
        <5>1. PICK n \in DOMAIN actions, result \in Results : actions' = WithResult(n, result)
          BY <2>0, <4>2 DEF _recover_active_action, FinishAction, PlaceInv, Total
        <5> QED BY <2>0, <5>1, WithResultIs DEF Total
      <4>3. CASE _assign_action_to_step \/ RecoverObservation
        <5>1. Len(Assigned(Len(actions))) = Len(actions) /\ Len(Assigned(observation)) = Len(actions)
          BY DEF Assigned
        <5> QED BY <4>3, <5>1 DEF _assign_action_to_step, RecoverObservation
      <4> QED
        BY <1>1, <4>1, <4>2, <4>3
        DEF Next, Controller, Planner, Checker, Executor, Auditor, Finalizer, vars, actionVars, Begin, Kill, StartRun,
            Exhaust, _block, Yields, goal_plan_patch, goal_stage_review, PlannerFails, CheckerFails,
            append_action_observation, ResolveGap, AcceptStepAudit, AcceptFinalAudit, Accept, ReuseAudit, ResolveAction,
            FinalAnswer, OpenFinal, RejectFinal, ResolveFinal, Complete, RejectReply, TransportFails, _open_audit_boundary
    <3> QED BY <2>0, <3>1 DEF Total
  <2>2. open_step_ids # {} /\ Unreviewed = {} /\ actions' = Append(actions, [chosen |-> Next1, bound |-> None, result |-> "running"])
    BY <2>1 DEF StartAction, PastReview, Next1
  <2>3. actions'[Len(actions')].chosen[1] = Min(frontier)
    <3>1. actions'[Len(actions')] = [chosen |-> Next1, bound |-> None, result |-> "running"]
      <4>1. actions \in Seq(Entry)
        BY <2>0, ActionsTyped
      <4> HIDE DEF Entry
      <4>2. Len(actions') = Len(actions) + 1
        BY <2>2, <4>1
      <4> QED BY <2>2, <4>1, <4>2
    <3> QED BY <3>1 DEF Next1, Binding
  <2>4. StageOf(Min(frontier)) = current_stage /\ current_stage \in Nat /\ \A s \in open_step_ids : current_stage <= StageOf(s)
    BY <2>0, <2>2, FrontierIs
  <2>5. \A s \in Steps : StageOf(s) \in Nat
    BY <2>0, GoalAssumption DEF GoalTypeOK, Steps, StageOf, PlanStep
  <2>6. SUFFICES ASSUME NEW s \in Steps, StageOf(s) < current_stage
                 PROVE  evidence[s] # {} /\ stage_boundary_key(StageOf(s)) \in reviewed
    BY <2>3, <2>4
  <2>7. \A t \in open_step_ids : StageOf(t) # StageOf(s)
    BY <2>4, <2>5, <2>6 DEF open_step_ids
  <2>8. evidence[s] # {} /\ StageOf(s) \in completed_stages
    BY <2>7 DEF open_step_ids, completed_stages
  <2> QED BY <2>2, <2>8 DEF Unreviewed
<1> QED BY <1>1, GoalInvAlways, PTL DEF Spec, StagesAreBarriers

-----------------------------------------------------------------------------
(* Rejected final answers.                                                   *)

\* The count of rejections is of a goal that is done: whatever reopens it resets the count.
FinalsInv ==
    finals # 0 =>
        /\ complete /\ ~stageRepair /\ Unreviewed = {} /\ AllJudged
        /\ boundary = None \/ boundary.kind = "pre_final"
        /\ pc \notin {"acting", "finished", "assigned"}

LEMMA FinalsStep ==
    ASSUME GoalInv, GoalInv', FinalsInv, [Next]_vars
    PROVE  FinalsInv'
<1> SUFFICES ASSUME finals' # 0 PROVE FinalsInv'
  BY DEF FinalsInv
<1>0. GoalTypeOK /\ Total \in Nat /\ DOMAIN actions = 1..Total /\ LastIsOpen /\ JudgementInv /\ PlaceInv /\ DoneInv
  BY ActionsTyped DEF GoalInv
<1> DEFINE Kept == UNCHANGED <<planVars, actions, observed, settled, reviewed, stageRepair>>
<1>1. ASSUME finals # 0, Kept,
             boundary' = None \/ boundary'.kind = "pre_final",
             pc' \notin {"acting", "finished", "assigned"}
      PROVE  FinalsInv'
  <2>1. UNCHANGED <<plan, evidence, reviewed, stageRepair, actions, observed, settled>>
    BY <1>1 DEF planVars
  <2>2. complete' = complete /\ Unreviewed' = Unreviewed
    BY <2>1, PlanKept
  <2>3. AllJudged' = AllJudged
    BY <2>1 DEF AllJudged, Judged
  <2> QED BY <1>1, <2>1, <2>2, <2>3 DEF FinalsInv
<1>2. CASE UNCHANGED vars
  BY <1>1, <1>2 DEF vars, planVars, actionVars, reviewVars, countVars, FinalsInv
<1>3. CASE Begin \/ Kill \/ StartRun \/ Exhaust \/ _block \/ PlannerFails \/ CheckerFails \/ TransportFails
           \/ RejectReply \/ ReuseAudit \/ FinalAnswer \/ Complete
  <2>1. /\ Kept /\ boundary' = boundary /\ finals' = finals
        /\ pc' \notin {"acting", "finished", "assigned"}
    BY <1>3 DEF Begin, Kill, StartRun, Exhaust, _block, PlannerFails, CheckerFails, Yields, Return, TransportFails,
       RejectReply, ReuseAudit, FinalAnswer, Complete, planVars, actionVars, reviewVars, countVars
  <2> QED BY <1>1, <2>1 DEF FinalsInv
<1>4. CASE _recover_active_action \/ goal_plan_patch \/ goal_stage_review \/ StartAction
  BY <1>4 DEF _recover_active_action, goal_plan_patch, goal_stage_review, StartAction
<1>5. CASE FinishAction \/ _assign_action_to_step \/ _open_audit_boundary
  BY <1>5 DEF FinishAction, _assign_action_to_step, _open_audit_boundary, FinalsInv, countVars
<1>6. CASE RecoverObservation
  BY <1>0, <1>6 DEF RecoverObservation, FinalsInv, AllJudged, Judged, PlaceInv
<1>7. CASE append_action_observation \/ ResolveGap \/ AcceptStepAudit \/ (ResolveAction /\ boundary # None)
  <2>1. boundary # None /\ boundary.kind = "action" /\ finals' = finals
    BY <1>7 DEF append_action_observation, ResolveGap, AcceptStepAudit, ResolveAction, Auditing, Accept, countVars
  <2> QED BY <2>1 DEF FinalsInv
<1>8. CASE ResolveAction
  <2>1. boundary # None
    BY <1>0, <1>8 DEF ResolveAction, PlaceInv
  <2> QED BY <1>7, <1>8, <2>1
<1>9. CASE AcceptFinalAudit \/ OpenFinal \/ ResolveFinal
  <2>1. /\ Kept /\ finals' = finals /\ pc' \notin {"acting", "finished", "assigned"}
        /\ boundary' = None \/ boundary'.kind = "pre_final"
    BY <1>9 DEF AcceptFinalAudit, Accept, Auditing, OpenFinal, ResolveFinal, planVars, reviewVars, countVars
  <2> QED BY <1>1, <2>1 DEF FinalsInv
<1>10. CASE RejectFinal
  <2>1. boundary # None /\ boundary.kind = "pre_final" /\ pc' = "rejected" /\ Kept /\ boundary' = boundary
    BY <1>0, <1>10 DEF RejectFinal, PlaceInv, planVars, actionVars
  <2>2. Done /\ AllJudged
    BY <1>0, <2>1 DEF DoneInv, JudgementInv
  <2>3. complete /\ ~stageRepair /\ Unreviewed = {}
    BY <2>2 DEF Done, Unreviewed
  <2>4. UNCHANGED <<plan, evidence, reviewed, stageRepair, actions, observed, settled>>
    BY <2>1 DEF planVars
  <2>5. complete' = complete /\ Unreviewed' = Unreviewed
    BY <2>4, PlanKept
  <2>6. AllJudged' = AllJudged
    BY <2>4 DEF AllJudged, Judged
  <2> QED BY <2>1, <2>2, <2>3, <2>4, <2>5, <2>6 DEF FinalsInv
<1> QED
  BY <1>2, <1>3, <1>4, <1>5, <1>6, <1>7, <1>8, <1>9, <1>10
  DEF Next, Controller, Planner, Checker, Executor, Auditor, Finalizer

\* The finalizer is asked, and its answer audited, while the count is not full.
AnswersHaveRoom ==
    /\ pc \in {"final", "ready"} => finals < FinalLimit
    /\ boundary # None /\ boundary.kind = "pre_final" /\ boundary.verdict \in {"none", "ready"} => finals < FinalLimit

LEMMA RoomStep ==
    ASSUME GoalInv, AnswersHaveRoom, [Next]_vars
    PROVE  AnswersHaveRoom'
<1>0. GoalTypeOK /\ PlaceInv /\ DoneInv /\ FinalLimit \in Nat \ {0}
  BY GoalAssumption DEF GoalInv
<1>1. CASE UNCHANGED vars
  BY <1>1 DEF vars, actionVars, countVars, AnswersHaveRoom
<1>2. CASE Begin \/ Kill \/ StartRun \/ Exhaust \/ _block \/ PlannerFails \/ CheckerFails \/ TransportFails
           \/ RejectReply \/ ReuseAudit \/ Complete \/ _assign_action_to_step \/ append_action_observation
  <2>1. boundary' = boundary /\ finals' = finals /\ (pc' = pc \/ pc' \notin {"final", "ready"})
    BY <1>2 DEF Begin, Kill, StartRun, Exhaust, _block, PlannerFails, CheckerFails, Yields, Return, TransportFails,
       RejectReply, ReuseAudit, Complete, _assign_action_to_step, append_action_observation, actionVars, countVars
  <2> QED BY <2>1 DEF AnswersHaveRoom
<1>3. CASE _recover_active_action \/ goal_plan_patch \/ goal_stage_review \/ StartAction
  <2>1. finals' = 0
    BY <1>3 DEF _recover_active_action, goal_plan_patch, goal_stage_review, StartAction
  <2> QED BY <1>0, <2>1 DEF AnswersHaveRoom
<1>4. CASE FinishAction
  BY <1>0, <1>4 DEF FinishAction, PlaceInv, AnswersHaveRoom
<1>5. CASE _open_audit_boundary \/ RecoverObservation \/ ResolveGap \/ ResolveAction
  <2>1. /\ boundary' = None \/ boundary' = boundary \/ boundary'.kind = "action"
        /\ pc' \notin {"final", "ready"} /\ finals' = finals
    BY <1>5 DEF _open_audit_boundary, RecoverObservation, ResolveGap, ResolveAction, Settle, countVars
  <2> QED BY <2>1 DEF AnswersHaveRoom
<1>6. CASE AcceptStepAudit
  <2>1. boundary'.kind = "action" /\ pc' = "audited"
    BY <1>6 DEF AcceptStepAudit, Accept, Auditing
  <2> QED BY <2>1 DEF AnswersHaveRoom
<1>7. CASE AcceptFinalAudit
  <2>1. boundary # None /\ boundary.kind = "pre_final" /\ boundary.verdict = "none" /\ finals' = finals /\ pc' = "audited"
    BY <1>7 DEF AcceptFinalAudit, Accept, Auditing, countVars
  <2> QED BY <2>1 DEF AnswersHaveRoom
<1>8. CASE FinalAnswer \/ OpenFinal
  BY <1>8 DEF AnswerDue, FinalAnswer, OpenFinal, actionVars, countVars, AnswersHaveRoom
<1>9. CASE RejectFinal
  <2>1. boundary' = boundary /\ pc' = "rejected" /\ boundary.verdict \notin {"none", "ready"}
    BY <1>0, <1>9 DEF RejectFinal, PlaceInv, actionVars
  <2> QED BY <2>1 DEF AnswersHaveRoom
<1>10. CASE ResolveFinal
  <2>1. boundary' = None /\ finals' = finals
        /\ \/ pc' = "loop"
           \/ boundary # None /\ boundary.kind = "pre_final" /\ boundary.verdict = "ready"
    BY <1>0, <1>10 DEF ResolveFinal, PlaceInv
  <2> QED BY <2>1 DEF AnswersHaveRoom
<1> QED
  BY <1>1, <1>2, <1>3, <1>4, <1>5, <1>6, <1>7, <1>8, <1>9, <1>10
  DEF Next, Controller, Planner, Checker, Executor, Auditor, Finalizer

\* A count that is full is of a goal with nothing left to do but to answer, and nobody is
\* asked for an answer (the limit before finalize_goal_answer).
LEMMA LimitStep ==
    ASSUME GoalInv, FinalsInv, AnswersHaveRoom, Next, finals >= FinalLimit, ~finalRepair, boundary = None
    PROVE  UNCHANGED <<planVars, actionVars, reviewVars, finals>> /\ status' # "completed"
<1>0. GoalTypeOK /\ Total \in Nat /\ DOMAIN actions = 1..Total /\ LastIsOpen /\ PlaceInv /\ DoneInv
      /\ FinalLimit \in Nat \ {0} /\ finals \in Nat
  BY ActionsTyped, GoalAssumption DEF GoalInv, GoalTypeOK
<1>1. /\ complete /\ ~stageRepair /\ Unreviewed = {} /\ AllJudged
      /\ pc \notin {"acting", "finished", "assigned", "final", "ready", "audited", "rejected"}
  BY <1>0 DEF FinalsInv, AnswersHaveRoom, PlaceInv
<1>2. Steps # {} /\ open_step_ids = {}
  BY <1>1 DEF complete
<1>3. ~(goal_plan_patch \/ PlannerFails \/ goal_stage_review \/ StartAction \/ FinalAnswer)
  BY <1>0, <1>1, <1>2 DEF AnswerDue, goal_plan_patch, PatchDue, PlannerFails, goal_stage_review, StartAction, FinalAnswer, PastReview
<1>4. ~(_recover_active_action \/ RecoverObservation)
  BY <1>0, <1>1 DEF _recover_active_action, RecoverObservation, LastIsOpen, PlaceInv, AllJudged, Judged
<1>5. ~(\/ FinishAction \/ _assign_action_to_step \/ _open_audit_boundary \/ append_action_observation \/ ResolveGap
        \/ AcceptStepAudit \/ ReuseAudit \/ ResolveAction \/ AcceptFinalAudit \/ OpenFinal \/ RejectFinal \/ ResolveFinal
        \/ Complete)
  BY <1>1 DEF FinishAction, _assign_action_to_step, _open_audit_boundary, append_action_observation, ResolveGap,
     AcceptStepAudit, ReuseAudit, ResolveAction, AcceptFinalAudit, OpenFinal, RejectFinal, ResolveFinal, Complete, Auditing
<1>6. Begin \/ Kill \/ StartRun \/ Exhaust \/ _block \/ CheckerFails \/ RejectReply \/ TransportFails
  BY <1>3, <1>4, <1>5 DEF Next, Controller, Planner, Checker, Executor, Auditor, Finalizer
<1>7. status = "completed" => pc = "off"
  BY <1>0 DEF DoneInv
<1> QED
  BY <1>6, <1>7 DEF Begin, Kill, StartRun, Exhaust, _block, CheckerFails, Yields, Return, RejectReply, TransportFails,
     planVars, actionVars, reviewVars, countVars, Iterating, Working, Deciding, PastReview, CallDue, AnswerDue

\* Once the limit on identical rejections of final answers is reached and nobody asked for a
\* repair, no resume has anything done again, and the run is never completed.
FinalLimitIsForGood ==
    [][finals >= FinalLimit /\ ~finalRepair /\ boundary = None =>
          UNCHANGED <<planVars, actionVars, reviewVars, finals>> /\ status' # "completed"]_vars

\* However often a run that was blocked by identical rejections is resumed, the count stands
\* and stops it before anybody is asked.  This is why BlockedRunsCanResume is refuted, for
\* every limit (the limit before finalize_goal_answer, and _block).
THEOREM FinalLimitStays == Spec => FinalLimitIsForGood
<1>1. Init => FinalsInv /\ AnswersHaveRoom
  BY GoalAssumption DEF Init, FinalsInv, AnswersHaveRoom
<1>2. Spec => []FinalsInv
  BY <1>1, GoalInvAlways, FinalsStep, PTL DEF Spec
<1>3. Spec => []AnswersHaveRoom
  BY <1>1, GoalInvAlways, RoomStep, PTL DEF Spec
<1>4. ASSUME GoalInv, FinalsInv, AnswersHaveRoom, [Next]_vars
      PROVE  [finals >= FinalLimit /\ ~finalRepair /\ boundary = None =>
                UNCHANGED <<planVars, actionVars, reviewVars, finals>> /\ status' # "completed"]_vars
  BY <1>4, LimitStep
<1> QED BY <1>2, <1>3, <1>4, GoalInvAlways, PTL DEF Spec, FinalLimitIsForGood

-----------------------------------------------------------------------------
(* Resumes.                                                                  *)

\* A call of run() begins with no turn taken.
StartsAfresh == pc \in {"off", "starting"} => turns = 0

LEMMA FreshStep ==
    ASSUME StartsAfresh, [Next]_vars
    PROVE  StartsAfresh'
<1> USE DEF StartsAfresh
<1>1. CASE Kill \/ Exhaust \/ _block \/ PlannerFails \/ CheckerFails \/ Complete
  BY <1>1 DEF Kill, Exhaust, _block, PlannerFails, CheckerFails, Complete, Yields, Return
<1>2. CASE Begin \/ _recover_active_action \/ append_action_observation \/ UNCHANGED vars
  BY <1>2 DEF Begin, _recover_active_action, append_action_observation, vars, localVars
<1>3. CASE StartRun \/ goal_plan_patch \/ goal_stage_review \/ StartAction \/ FinishAction \/ _assign_action_to_step
           \/ _open_audit_boundary \/ RecoverObservation \/ ResolveGap \/ AcceptStepAudit \/ ReuseAudit
           \/ ResolveAction \/ AcceptFinalAudit \/ FinalAnswer \/ OpenFinal \/ RejectFinal \/ ResolveFinal
           \/ RejectReply
  <2>1. pc' \notin {"off", "starting"}
    BY <1>3 DEF StartRun, goal_plan_patch, goal_stage_review, StartAction, FinishAction, _assign_action_to_step,
       _open_audit_boundary, RecoverObservation, ResolveGap, AcceptStepAudit, ReuseAudit, ResolveAction,
       AcceptFinalAudit, FinalAnswer, OpenFinal, RejectFinal, ResolveFinal, RejectReply, Settle, Accept
  <2> QED BY <2>1
<1>4. CASE TransportFails
  BY <1>4 DEF TransportFails, Yields, Return
<1> QED
  BY <1>1, <1>2, <1>3, <1>4 DEF Next, Controller, Planner, Checker, Executor, Auditor, Finalizer

\* Only the start of a call makes a blocked run a running one.
LEMMA ResumeIsStart ==
    ASSUME GoalInv, Next, status = "blocked", status' = "running"
    PROVE  StartRun
<1>1. ~(Begin \/ Kill \/ _recover_active_action \/ RecoverObservation \/ Executor \/ goal_plan_patch \/ goal_stage_review)
  BY DEF Begin, Kill, _recover_active_action, RecoverObservation, Executor, StartAction, FinishAction,
     _assign_action_to_step, _open_audit_boundary, goal_plan_patch, goal_stage_review
<1>2. ~(Exhaust \/ _block \/ PlannerFails \/ CheckerFails \/ TransportFails \/ RejectReply)
  BY DEF Exhaust, _block, PlannerFails, CheckerFails, TransportFails, RejectReply, Yields, Return
<1>3. ~(Auditor \/ Finalizer)
  BY DEF Auditor, append_action_observation, ResolveGap, AcceptStepAudit, ReuseAudit, ResolveAction, AcceptFinalAudit,
     Accept, Finalizer, FinalAnswer, OpenFinal, RejectFinal, ResolveFinal, Complete, Return
<1> QED BY <1>1, <1>2, <1>3 DEF Next, Controller, Planner, Checker

LEMMA ResumeStep ==
    ASSUME GoalInv, StartsAfresh, [Next]_vars, status = "blocked", status' = "running", finals < FinalLimit
    PROVE  SomebodyIsDue'
<1>1. StartRun
  BY ResumeIsStart DEF vars
<1>2. /\ pc' = "loop" /\ turns' = 0 /\ rejections' = 0 /\ finals' = finals
      /\ max_transitions \in Nat \ {0} /\ ProtocolLimit \in Nat \ {0}
  BY <1>1, GoalAssumption DEF StartRun, StartsAfresh
<1>3. Iterating'
  BY <1>2 DEF Iterating
<1>4. CASE boundary' # None \/ observation' # 0
  BY <1>3, <1>4 DEF SomebodyIsDue
<1>5. CASE boundary' = None /\ observation' = 0
  <2>1. CASE (Steps = {} \/ finalRepair \/ stageRepair)'
    BY <1>3, <1>5, <2>1 DEF SomebodyIsDue, PatchDue, Deciding
  <2>2. CASE ~(Steps = {} \/ finalRepair \/ stageRepair)'
    <3>1. Working'
      BY <1>3, <1>5, <2>2 DEF Working, Deciding
    <3>2. CASE (Unreviewed # {} \/ open_step_ids # {} \/ ~complete)'
      BY <3>1, <3>2 DEF SomebodyIsDue, PatchDue, PastReview, CallDue
    <3>3. CASE (Unreviewed = {} /\ complete)'
      BY <1>2, <3>1, <3>3 DEF SomebodyIsDue, PastReview, CallDue, AnswerDue
    <3> QED BY <3>2, <3>3
  <2> QED BY <2>1, <2>2
<1> QED BY <1>4, <1>5

\* Below the limit on final answers a resumed run has somebody to ask: no other count, and
\* nothing that was left open, blocks it again at once (StartRun, _block).
THEOREM ResumesGoOn == Spec => ResumedRunsGoOn
<1>1. Init => StartsAfresh
  BY DEF Init, StartsAfresh
<1>2. Spec => []StartsAfresh
  BY <1>1, FreshStep, PTL DEF Spec
<1>3. ASSUME GoalInv, StartsAfresh, [Next]_vars
      PROVE  [status = "blocked" /\ status' = "running" /\ finals < FinalLimit => SomebodyIsDue']_vars
  BY <1>3, ResumeStep
<1> QED BY <1>2, <1>3, GoalInvAlways, PTL DEF Spec, ResumedRunsGoOn

-----------------------------------------------------------------------------
(* A call of run() is bounded.                                               *)

Phase ==
    IF pc = "off" THEN 0
    ELSE IF pc # "starting" THEN 1
    ELSE IF \A n \in DOMAIN actions : actions[n].result # "running" THEN 2 ELSE 3

TurnsLeft == (max_transitions + 1) - turns

\* Where the controller is within a turn.
Place ==
    IF pc \in {"loop", "going"}
    THEN IF boundary = None THEN (IF observation # 0 THEN 5 ELSE 4)
         ELSE IF boundary.kind = "action" /\ boundary.action \notin observed THEN 2 ELSE 1
    ELSE [off |-> 0, starting |-> 0, blocking |-> 0, acting |-> 3, final |-> 3, ready |-> 6,
          rejected |-> 7, assigned |-> 8, audited |-> 8, finished |-> 9][pc]

TriesLeft == TransportLimit - fails

\* A call takes no more turns than it may, but one: the planner or the executor goes on in
\* the same iteration.
TurnsAreBounded == Phase \in 0..3 /\ TurnsLeft \in Nat /\ Place \in 0..9 /\ TriesLeft \in Nat \ {0}

\* Whatever the roles answer, each step leaves less of the call.
LessIsLeft ==
    \/ Phase' < Phase
    \/ Phase' = Phase /\ TurnsLeft' < TurnsLeft
    \/ Phase' = Phase /\ TurnsLeft' = TurnsLeft /\ Place' < Place
    \/ Phase' = Phase /\ TurnsLeft' = TurnsLeft /\ Place' = Place /\ TriesLeft' < TriesLeft

StepsAreBounded == [][Controller => LessIsLeft]_vars

\* Two steps can share an iteration: the first plan or a review that asks for a repair, and
\* what comes after it.
BoundInv ==
    /\ turns <= max_transitions + 1 /\ fails < TransportLimit
    /\ pc \in {"going", "acting"} => turns <= max_transitions
    /\ pc = "going" => Steps # {} /\ (stageRepair \/ Unreviewed = {})

LEMMA BoundStep ==
    ASSUME GoalInv, BoundInv, [Next]_vars
    PROVE  BoundInv'
<1>0. GoalTypeOK /\ WorkInv /\ turns \in Nat /\ fails \in Nat /\ max_transitions \in Nat \ {0}
      /\ TransportLimit \in Nat \ {0}
  BY GoalAssumption DEF GoalInv, GoalTypeOK
<1>1. CASE UNCHANGED vars \/ append_action_observation
  <2>1. UNCHANGED <<turns, fails, pc, plan, evidence, reviewed, stageRepair>>
    BY <1>1 DEF vars, planVars, reviewVars, localVars, append_action_observation
  <2> QED BY <2>1, PlanKept DEF BoundInv
<1>2. CASE Begin \/ Kill \/ Exhaust \/ _block \/ PlannerFails \/ CheckerFails \/ Complete
           \/ _recover_active_action \/ StartRun
  <2>1. pc' \in {"off", "starting", "loop"} /\ turns' \in {0, turns} /\ fails' \in {0, fails}
    BY <1>2 DEF Begin, Kill, Exhaust, _block, PlannerFails, CheckerFails, Complete, Yields, Return,
       _recover_active_action, StartRun, localVars
  <2> QED BY <1>0, <2>1 DEF BoundInv
<1>3. CASE goal_plan_patch
  <2>1. Iterating /\ turns' = turns + 1 /\ fails' = fails /\ pc' = IF Steps = {} THEN "going" ELSE "loop"
    BY <1>3 DEF goal_plan_patch, PatchDue, Deciding, PastReview, Working, Turn
  <2>2. CASE Steps # {}
    BY <1>0, <2>1, <2>2 DEF BoundInv, Iterating
  <2>3. CASE Steps = {}
    <3>1. pc = "loop" /\ turns < max_transitions /\ UNCHANGED evidence
      BY <1>3, <2>1, <2>3 DEF BoundInv, Iterating, goal_plan_patch
    <3>2. \A s \in StepIds : evidence'[s] = {}
      BY <1>0, <2>3, <3>1 DEF WorkInv
    <3>3. open_step_ids' = Steps'
      BY <3>2 DEF open_step_ids, Steps
    <3>4. Unreviewed' = {}
      BY <3>3 DEF Unreviewed, completed_stages
    <3>5. Steps' # {}
      BY <1>0, <1>3, <2>3, FirstPatchPlans
    <3> QED BY <1>0, <2>1, <2>3, <3>1, <3>4, <3>5 DEF BoundInv
  <2> QED BY <2>2, <2>3
<1>4. CASE goal_stage_review
  <2>1. /\ pc = "loop" /\ turns < max_transitions /\ Steps # {}
        /\ turns' = turns + 1 /\ fails' = fails /\ plan' = plan
        /\ pc' = IF stageRepair' THEN "going" ELSE "loop"
    BY <1>4 DEF goal_stage_review, BoundInv, Working, Deciding, Iterating, Turn, planVars
  <2>2. Steps' = Steps
    BY <2>1 DEF Steps
  <2> QED BY <1>0, <2>1, <2>2 DEF BoundInv
<1>5. CASE StartAction \/ FinalAnswer
  <2>1. /\ turns <= max_transitions /\ turns' = turns /\ fails' = 0 /\ pc' \in {"acting", "final"}
    BY <1>0, <1>5 DEF AnswerDue, StartAction, FinalAnswer, BoundInv, PastReview, Working, Deciding, Iterating
  <2> QED BY <1>0, <2>1 DEF BoundInv
<1>6. CASE FinishAction \/ ResolveGap \/ AcceptStepAudit \/ AcceptFinalAudit \/ ReuseAudit \/ RejectReply
  <2>1. /\ turns <= max_transitions /\ turns' = turns + 1 /\ fails' = fails /\ pc' \notin {"going", "acting"}
    BY <1>0, <1>6 DEF FinishAction, ResolveGap, AcceptStepAudit, AcceptFinalAudit, ReuseAudit, RejectReply, Accept,
       Auditing, Settle, CallDue, AnswerDue, PastReview, Working, Deciding, Iterating, BoundInv, Turn
  <2> QED BY <1>0, <2>1 DEF BoundInv
<1>7. CASE _assign_action_to_step \/ _open_audit_boundary \/ RecoverObservation \/ ResolveAction \/ OpenFinal
           \/ RejectFinal \/ ResolveFinal
  <2>1. turns' = turns /\ fails' = fails /\ pc' \notin {"going", "acting"}
    BY <1>7 DEF _assign_action_to_step, _open_audit_boundary, RecoverObservation, ResolveAction, OpenFinal,
       RejectFinal, ResolveFinal, Settle, localVars
  <2> QED BY <1>0, <2>1 DEF BoundInv
<1>8. CASE TransportFails
  <2>1. /\ turns' \in {0, turns} /\ pc' \in {"off", "loop"}
        /\ fails' = 0 \/ (fails' = fails + 1 /\ fails + 1 < TransportLimit)
    BY <1>8 DEF TransportFails, Yields, Return
  <2> QED BY <1>0, <2>1 DEF BoundInv
<1> QED
  BY <1>1, <1>2, <1>3, <1>4, <1>5, <1>6, <1>7, <1>8
  DEF Next, Controller, Planner, Checker, Executor, Auditor, Finalizer

LEMMA BoundAlways == Spec => []BoundInv
<1>1. Init => BoundInv
  BY GoalAssumption DEF Init, BoundInv
<1> QED BY <1>1, GoalInvAlways, BoundStep, PTL DEF Spec

\* A call of run() can neither take more than max_transitions + 1 turns nor lose more than
\* the permitted number of calls of the model in a row, whatever the roles answer.
THEOREM TurnsStayBounded == Spec => []TurnsAreBounded
<1>1. ASSUME GoalInv, BoundInv PROVE TurnsAreBounded
  <2>1. turns \in Nat /\ fails \in Nat
    BY <1>1 DEF GoalInv, GoalTypeOK
  <2>2. max_transitions \in Nat /\ TransportLimit \in Nat
    BY GoalAssumption
  <2>3. Phase \in 0..3
    BY DEF Phase
  <2>4. Place \in 0..9
    <3>1. pc \in {"off", "starting", "loop", "going", "acting", "finished", "assigned", "final", "audited", "rejected",
                  "ready", "blocking"}
      BY <1>1 DEF GoalInv, GoalTypeOK
    <3> QED BY <3>1 DEF Place
  <2> QED BY <1>1, <2>1, <2>2, <2>3, <2>4 DEF BoundInv, TurnsAreBounded, TurnsLeft, TriesLeft
<1> QED BY <1>1, GoalInvAlways, BoundAlways, PTL

LEMMA NewBoundary ==
    ASSUME NEW n \in 0..MaxActions, NEW kind \in {"action", "pre_final"}
    PROVE  [kind |-> kind, action |-> n, verdict |-> "none"] # None
BY GoalAssumption DEF Judgements

\* A step that ends the call, one that ends a turn, and one within a turn.
LEMMA CallEnds ==
    ASSUME pc \notin {"off", "starting"}, pc' = "off"
    PROVE  LessIsLeft
BY DEF LessIsLeft, Phase

LEMMA TurnEnds ==
    ASSUME turns \in Nat, turns' = turns + 1,
           pc \notin {"off", "starting"}, pc' \notin {"off", "starting"}
    PROVE  LessIsLeft
<1>1. Phase' = Phase
  BY DEF Phase
<1>2. TurnsLeft' < TurnsLeft
  BY GoalAssumption DEF TurnsLeft
<1> QED BY <1>1, <1>2 DEF LessIsLeft

LEMMA TurnGoesOn ==
    ASSUME turns' = turns, Place' < Place,
           pc \notin {"off", "starting"}, pc' \notin {"off", "starting"}
    PROVE  LessIsLeft
<1>1. Phase' = Phase
  BY DEF Phase
<1>2. TurnsLeft' = TurnsLeft
  BY DEF TurnsLeft
<1> QED BY <1>1, <1>2 DEF LessIsLeft

LEMMA StepIsBounded ==
    ASSUME GoalInv, BoundInv, Controller
    PROVE  LessIsLeft
<1>0. /\ GoalTypeOK /\ LastIsOpen /\ PlaceInv /\ turns \in Nat /\ fails \in Nat /\ TransportLimit \in Nat
      /\ Total \in Nat /\ DOMAIN actions = 1..Total
  BY ActionsTyped, GoalAssumption DEF GoalInv, GoalTypeOK
<1>1. CASE _recover_active_action
  <2>1. PICK n \in DOMAIN actions, result \in Results : actions[n].result = "running" /\ actions' = WithResult(n, result)
    BY <1>1 DEF _recover_active_action
  <2>2. \A k \in DOMAIN actions : actions[k].result = "running" => k = Total
    BY <1>0 DEF LastIsOpen, Judged
  <2>3. DOMAIN actions' = DOMAIN actions /\ \A k \in DOMAIN actions : actions'[k].result # "running"
    BY <2>1, <2>2 DEF WithResult, Results
  <2>4. Phase = 3
    BY <1>1, <2>1 DEF Phase, _recover_active_action
  <2>5. Phase' = 2
    BY <1>1, <2>3 DEF Phase, _recover_active_action
  <2> QED BY <2>4, <2>5 DEF LessIsLeft
<1>2. CASE StartRun
  BY <1>2 DEF StartRun, LessIsLeft, Phase
<1>3. CASE Exhaust \/ _block \/ PlannerFails \/ CheckerFails \/ Complete
  <2>1. pc \notin {"off", "starting"} /\ pc' = "off"
    BY <1>3 DEF Exhaust, _block, PlannerFails, CheckerFails, Complete, PatchDue, Yields, Return, PastReview, Working,
       Deciding, Iterating
  <2> QED BY <2>1, CallEnds
<1>4. CASE goal_plan_patch \/ goal_stage_review \/ FinishAction \/ ResolveGap \/ AcceptStepAudit \/ AcceptFinalAudit
           \/ ReuseAudit \/ RejectReply
  <2>1. turns' = turns + 1 /\ pc' \notin {"off", "starting"}
    BY <1>4 DEF goal_plan_patch, goal_stage_review, FinishAction, ResolveGap, AcceptStepAudit, AcceptFinalAudit, ReuseAudit,
       RejectReply, Accept, Settle, Turn
  <2>2. pc \in {"loop", "going", "acting"}
    BY <1>4 DEF goal_plan_patch, goal_stage_review, FinishAction, ResolveGap, AcceptStepAudit, AcceptFinalAudit, ReuseAudit,
       RejectReply, Auditing, PatchDue, CallDue, AnswerDue, PastReview, Working, Deciding, Iterating
  <2> QED BY <1>0, <2>1, <2>2, TurnEnds
<1>5. CASE StartAction \/ FinalAnswer
  <2>1. pc \in {"loop", "going"} /\ boundary = None /\ observation = 0 /\ pc' \in {"acting", "final"} /\ turns' = turns
    BY <1>5 DEF AnswerDue, StartAction, FinalAnswer, PastReview, Working, Deciding, Iterating
  <2>2. Place = 4 /\ Place' = 3
    BY <2>1 DEF Place
  <2> QED BY <2>1, <2>2, TurnGoesOn
<1>6. CASE _assign_action_to_step
  <2>1. pc = "finished" /\ pc' = "assigned" /\ turns' = turns
    BY <1>6 DEF _assign_action_to_step, localVars
  <2>2. Place = 9 /\ Place' = 8
    BY <2>1 DEF Place
  <2> QED BY <2>1, <2>2, TurnGoesOn
<1>7. CASE _open_audit_boundary
  <2>1. pc = "assigned" /\ turns' = turns /\ boundary = None
        /\ \/ pc' = "blocking"
           \/ pc' = "loop" /\ boundary' = [kind |-> "action", action |-> Total, verdict |-> "none"]
    BY <1>0, <1>7 DEF _open_audit_boundary, localVars, PlaceInv, Total
  <2>2. Place = 8
    BY <2>1 DEF Place
  <2>3. Place' < 8
    BY <2>1 DEF Place
  <2> QED BY <2>1, <2>2, <2>3, TurnGoesOn
<1>8. CASE RecoverObservation
  <2>1. /\ pc \in {"loop", "going"} /\ boundary = None /\ observation # 0
        /\ boundary' = [kind |-> "action", action |-> observation, verdict |-> "none"]
        /\ pc' = "loop" /\ turns' = turns
    BY <1>8 DEF RecoverObservation, Iterating
  <2>2. boundary' # None
    BY <1>0, <1>8, <2>1, NewBoundary DEF GoalTypeOK
  <2>3. Place = 5
    BY <2>1 DEF Place
  <2>4. Place' \in {1, 2}
    BY <2>1, <2>2 DEF Place
  <2> QED BY <2>1, <2>3, <2>4, TurnGoesOn
<1>9. CASE append_action_observation
  <2>1. /\ pc \in {"loop", "going"} /\ boundary # None /\ boundary.kind = "action" /\ boundary.action \notin observed
        /\ boundary' = boundary /\ boundary.action \in observed' /\ pc' = pc /\ turns' = turns
    BY <1>9 DEF append_action_observation, Auditing, Iterating, localVars
  <2>2. Place = 2 /\ Place' = 1
    BY <2>1 DEF Place
  <2> QED BY <2>1, <2>2, TurnGoesOn
<1>10. CASE ResolveAction \/ RejectFinal \/ ResolveFinal
  <2>1. /\ turns' = turns /\ pc \in {"audited", "rejected"}
        /\ \/ pc' = "loop" /\ boundary' = None
           \/ pc = "audited" /\ pc' \in {"rejected", "ready"}
    BY <1>10 DEF ResolveAction, RejectFinal, ResolveFinal, Settle, localVars
  <2>2. CASE pc = "audited"
    <3>1. Place = 8
      BY <2>2 DEF Place
    <3>2. Place' \in {4, 5, 6, 7}
      BY <2>1 DEF Place
    <3> QED BY <2>1, <3>1, <3>2, TurnGoesOn
  <2>3. CASE pc = "rejected"
    <3>1. Place = 7
      BY <2>3 DEF Place
    <3>2. Place' \in {4, 5}
      BY <2>1, <2>3 DEF Place
    <3> QED BY <2>1, <2>3, <3>1, <3>2, TurnGoesOn
  <2> QED BY <2>1, <2>2, <2>3
<1>11. CASE OpenFinal
  <2>1. pc = "final" /\ pc' = "loop" /\ turns' = turns
        /\ boundary' = [kind |-> "pre_final", action |-> 0, verdict |-> "none"]
    BY <1>11 DEF OpenFinal, localVars
  <2>2. boundary' # None
    <3>1. 0 \in 0..MaxActions
      BY Bounds
    <3> QED BY <2>1, <3>1, NewBoundary
  <2>3. Place = 3
    BY <2>1 DEF Place
  <2>4. Place' = 1
    BY <2>1, <2>2 DEF Place
  <2> QED BY <2>1, <2>3, <2>4, TurnGoesOn
<1>12. CASE TransportFails
  <2>1. pc \in {"loop", "going"}
    BY <1>12 DEF TransportFails, CallDue, AnswerDue, PastReview, Working, Deciding, Iterating
  <2>2. CASE pc' = "off"
    BY <2>1, <2>2, CallEnds
  <2>3. CASE pc' # "off"
    <3>1. fails' = fails + 1 /\ pc' = "loop" /\ UNCHANGED <<boundary, observed, observation, turns>>
      BY <1>12, <2>3 DEF TransportFails, Yields, Return, actionVars
    <3>2. Phase' = Phase /\ TurnsLeft' = TurnsLeft /\ Place' = Place
      BY <2>1, <3>1 DEF Phase, TurnsLeft, Place
    <3>3. TriesLeft' < TriesLeft
      BY <1>0, <3>1 DEF TriesLeft
    <3> QED BY <3>2, <3>3 DEF LessIsLeft
  <2> QED BY <2>2, <2>3
<1> QED
  BY <1>1, <1>2, <1>3, <1>4, <1>5, <1>6, <1>7, <1>8, <1>9, <1>10, <1>11, <1>12
  DEF Controller, Planner, Checker, Executor, Auditor, Finalizer

\* Every step of a controller leaves less of its call, in an order without infinite descent:
\* whatever the roles and the tools answer, a call of run() cannot go on for ever.
THEOREM StepsStayBounded == Spec => StepsAreBounded
<1>1. ASSUME GoalInv, BoundInv, [Next]_vars PROVE [Controller => LessIsLeft]_vars
  BY <1>1, StepIsBounded
<1> QED BY <1>1, GoalInvAlways, BoundAlways, PTL DEF Spec, StepsAreBounded

=================================================================================
