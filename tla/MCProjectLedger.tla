---------------------------- MODULE MCProjectLedger ----------------------------
(* Small instances of ProjectLedger: the goal alone, and plans of two tasks. *)
EXTENDS ProjectLedger, TLC

CONSTANTS a, b

\* Contents of the workspace are interchangeable.
TreeSymmetry == Permutations(Trees)

C1 == [id |-> "c1", argv |-> "x"]
C2 == [id |-> "c2", argv |-> "x"]
C3 == [id |-> "c3", argv |-> "x"]

TaskOf(deps, reqs, checks, text) ==
    [dependencies |-> deps, requirements |-> reqs, checks |-> checks, text |-> text]

PlanOf(tasks, wording, protected) ==
    [tasks |-> tasks, requirements |-> wording, protected_paths |-> protected]

TaskA(checks) == TaskOf({}, {"r1"}, checks, "t1")
TaskB(checks) == TaskOf({a}, {"r1"}, checks, "t1")
Both(taskA, taskB) == [t \in {a, b} |-> IF t = a THEN taskA ELSE taskB]
Wording(text) == [r \in {"r1"} |-> text]

\* b depends on a; both are checked.
Chain == PlanOf(Both(TaskA({C1}), TaskB({C2})), Wording("t1"), Paths)

\* The chain is revised: another check for a, a check bound to b afterwards,
\* another wording of the requirement both tasks serve.
Rechecked == [Chain EXCEPT !.tasks[a].checks = {C3}]
Unbound   == [Chain EXCEPT !.tasks[b].checks = {}]
Reworded  == [Chain EXCEPT !.requirements = Wording("t2")]

\* Plans the ledger must refuse after the chain: a task dropped, a check moved
\* to another task, a path of the plan unprotected.
Dropped     == PlanOf([t \in {a} |-> TaskA({C1})], Wording("t1"), OwnerPaths)
Moved       == PlanOf(Both(TaskA({C2}), TaskB({C1})), Wording("t1"), OwnerPaths)
Unprotected == [Reworded EXCEPT !.protected_paths = {}]

ChainPlans == {Chain}
RevisedPlans == {Chain, Unbound, Reworded, Rechecked, Dropped, Moved, Unprotected}

GoalProofs == {{C1}, {C2}, {C1, C2}}
ChainProofs == {{C3}}
RevisedProofs == {{C1}, {C2}, {C3}}
=============================================================================
