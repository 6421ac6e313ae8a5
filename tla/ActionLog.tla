------------------------------- MODULE ActionLog -------------------------------
(***************************************************************************)
(* What the record of a run promises, however many controllers have a hand   *)
(* in it: one log, in which an action is begun when the one before it is     *)
(* concluded, a conclusion is final and tells the truth, and an operation    *)
(* that must not be repeated takes effect at most once under its entry.      *)
(***************************************************************************)
EXTENDS Naturals, Sequences

CONSTANTS
    Ids,            \* numbers of actions
    Operations,
    Once            \* the operations that must not be repeated

VARIABLES
    log,            \* the actions with their status
    effects,        \* how often an action took effect
    closed          \* the run is completed

vars == <<log, effects, closed>>

Init == log = <<>> /\ effects = [n \in Ids |-> 0] /\ closed = FALSE

Open == \E n \in DOMAIN log : log[n].status = "running"

Start(op) ==
    /\ ~closed /\ ~Open
    /\ log' = Append(log, [op |-> op, status |-> "running"])
    /\ UNCHANGED <<effects, closed>>

\* Whoever has begun an action may be late with it, even when the run is closed.
Perform(n) ==
    /\ n \in DOMAIN log
    /\ log[n].op \in Once => effects[n] = 0
    /\ effects' = [effects EXCEPT ![n] = @ + 1]
    /\ UNCHANGED <<log, closed>>

\* Only what must not be repeated is given up, and a result is that of something done.
Conclude(status) ==
    /\ log # <<>> /\ log[Len(log)].status = "running"
    /\ IF status = "interrupted" THEN log[Len(log)].op \in Once ELSE effects[Len(log)] > 0
    /\ log' = [log EXCEPT ![Len(log)] = [op |-> log[Len(log)].op, status |-> status]]
    /\ UNCHANGED <<effects, closed>>

Close ==
    /\ ~Open /\ closed' = TRUE
    /\ UNCHANGED <<log, effects>>

Next ==
    \/ \E op \in Operations : Start(op)
    \/ \E n \in Ids : Perform(n)
    \/ \E status \in {"succeeded", "failed", "interrupted"} : Conclude(status)
    \/ Close

Spec == Init /\ [][Next]_vars
=================================================================================
