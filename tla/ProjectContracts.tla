--------------------------- MODULE ProjectContracts ---------------------------
(***************************************************************************)
(* The contracts of project_contracts.py and the replacement rule of       *)
(* project_protocols/planner.py, as operators without state.               *)
(*                                                                         *)
(* A digest is collision free for the purposes of the protocol, so a       *)
(* contract, a check or a plan stands for its own digest.  The wording of  *)
(* a task (stage, objective, interfaces, scope, completion) is one value   *)
(* of Texts; the argv of a check is one value of Argvs.                    *)
(***************************************************************************)
EXTENDS Naturals, FiniteSets

CONSTANTS
    TaskIds,        \* identifiers a plan may give its tasks
    GOAL_ID,        \* the identity of the verbatim user goal
    RequirementIds, \* identifiers of plan requirements
    Texts,          \* wordings of a task, a requirement or the goal
    CheckIds,       \* identifiers of completion checks
    Argvs,          \* commands a check may run
    Paths,          \* paths a plan may protect
    OwnerPaths,     \* paths the owner protected when the project was created
    GoalText,       \* the user's request
    None            \* Python's None, and the value of an absent key

ASSUME ContractAssumption ==
    /\ GOAL_ID \notin TaskIds
    /\ OwnerPaths \subseteq Paths
    /\ GoalText \in Texts

WorkIds == TaskIds \cup {GOAL_ID}

Check == [id : CheckIds, argv : Argvs]

Task == [dependencies : SUBSET TaskIds,
         requirements : SUBSET (RequirementIds \cup {GOAL_ID}),
         checks       : SUBSET Check,
         text         : Texts]

Plan == [tasks           : UNION {[S -> Task] : S \in SUBSET TaskIds},
         requirements    : UNION {[S -> Texts] : S \in SUBSET RequirementIds},
         protected_paths : SUBSET Paths]

Ids(checks) == {c.id : c \in checks}

-----------------------------------------------------------------------------
(* Plans.                                                                  *)

ChecksOf(tasks) == UNION {tasks[t].checks : t \in DOMAIN tasks}

\* Every task can be ordered after its dependencies: no nonempty set of tasks
\* in which each waits for another member.
Acyclic(tasks) ==
    \A S \in SUBSET DOMAIN tasks :
        S # {} => \E t \in S : tasks[t].dependencies \cap S = {}

\* One identifier names one check, across all the tasks of the plan.
UniqueCheckIds(tasks) ==
    \A t, u \in DOMAIN tasks :
        \A c \in tasks[t].checks, d \in tasks[u].checks :
            c.id = d.id => t = u /\ c = d

\* One round of the topological validation: the tasks that wait for nobody any more.
ready(tasks, resolved) ==
    {t \in DOMAIN tasks \ resolved : tasks[t].dependencies \subseteq resolved}

validate_plan(p) ==
    /\ DOMAIN p.requirements # {}
    /\ DOMAIN p.tasks # {}
    /\ GOAL_ID \notin DOMAIN p.tasks
    /\ \A t \in DOMAIN p.tasks :
          /\ p.tasks[t].requirements # {}
          /\ p.tasks[t].requirements \subseteq DOMAIN p.requirements
          /\ p.tasks[t].dependencies \subseteq DOMAIN p.tasks
    /\ UNION {p.tasks[t].requirements : t \in DOMAIN p.tasks} = DOMAIN p.requirements
    /\ UniqueCheckIds(p.tasks)
    /\ Acyclic(p.tasks)

-----------------------------------------------------------------------------
(* The work of a project: the plan's tasks, or the verbatim goal.          *)

GoalTask(checks) ==
    [dependencies |-> {}, requirements |-> {GOAL_ID}, checks |-> checks, text |-> GoalText]

work_items(plan, goal_checks) ==
    IF plan = None THEN [t \in {GOAL_ID} |-> GoalTask(goal_checks)] ELSE plan.tasks

\* Mutant: the tasks that depend on a changed one are forgotten.
only_changed(tasks, changed) == changed \cap DOMAIN tasks

\* The changed contracts and their transitive dependents: the least set that
\* contains changed (tasks of this work) and every task that depends on one
\* of its members.
affected_work(tasks, changed) ==
    {t \in DOMAIN tasks :
        \A S \in SUBSET DOMAIN tasks :
            (/\ changed \subseteq S
             /\ \A u \in DOMAIN tasks : tasks[u].dependencies \cap S # {} => u \in S)
            => t \in S}

\* One round of the loop that computes it.
expanded(tasks, affected) ==
    affected \cup {t \in DOMAIN tasks : tasks[t].dependencies \cap affected # {}}

-----------------------------------------------------------------------------
(* A check leaves the work only when it is replaced, inside the same task  *)
(* and for the same requirements, by a new check, after a verification     *)
(* receipt recorded that it failed.  failures holds the pairs of task and  *)
(* check for which such a receipt exists.                                  *)

\* Mutant: a check may be replaced though it never failed.
unproven_replacements(old, new, failures) ==
    \A t \in DOMAIN old \cap DOMAIN new :
        Cardinality({c \in old[t].checks : c.id \notin Ids(ChecksOf(new))})
            <= Cardinality({c \in new[t].checks : c.id \notin Ids(ChecksOf(old))})

validate_replacements(old, new, failures) ==
    LET removed == {c \in ChecksOf(old) : c.id \notin Ids(ChecksOf(new))}
        added   == {c \in ChecksOf(new) : c.id \notin Ids(ChecksOf(old))}
    IN \E target \in [removed -> added] :
          /\ \A c, d \in removed : target[c] = target[d] => c = d
          /\ \A c \in removed :
                \E t \in DOMAIN old \cap DOMAIN new :
                    /\ c \in old[t].checks
                    /\ target[c] \in new[t].checks
                    /\ old[t].requirements # {}
                    /\ old[t].requirements = new[t].requirements
                    /\ [task_id |-> t, check |-> c] \in failures

\* Mutant: the catalogue compares definitions and not tasks.
Redefined(catalog, t, c) ==
    \A e \in catalog : e.check.id = c.id => e.check = c

\* The catalogue binds an identifier to one check of one task for ever.
Registered(catalog, t, c) ==
    \A e \in catalog : e.check.id = c.id => e = [task_id |-> t, check |-> c]

=============================================================================
