---------------------------- MODULE MCProjectRuntime ----------------------------
(* Small instances of ProjectRuntime: the goal as the only work item. *)
EXTENDS ProjectRuntime

CONSTANT a

C1 == [id |-> "c1", argv |-> "x"]
NoPlans == {}
GoalProofs == {{C1}}

-----------------------------------------------------------------------------
(* The loops of the contracts agree with their definitions, for all graphs of *)
(* three tasks: a bounded check of what ProjectLedgerProofs proves.           *)

Graphs3 == [1..3 -> SUBSET (1..3)]
Depending(deps) == [t \in 1..3 |-> [dependencies |-> deps[t]]]

AfterRounds(tasks, changed) ==
    LET after[n \in Nat] == IF n = 0 THEN changed ELSE expanded(tasks, after[n - 1])
    IN  after[3]

ResolvedAfterRounds(tasks) ==
    LET after[n \in Nat] == IF n = 0 THEN {} ELSE after[n - 1] \cup ready(tasks, after[n - 1])
    IN  after[3]

ASSUME LoopsAgree ==
    \A deps \in Graphs3 :
        /\ Acyclic(Depending(deps)) <=> ResolvedAfterRounds(Depending(deps)) = 1..3
        /\ \A changed \in SUBSET (1..3) :
              affected_work(Depending(deps), changed) = AfterRounds(Depending(deps), changed)
=============================================================================
