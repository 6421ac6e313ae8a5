------------------------------- MODULE AtMostOnce -------------------------------
(***************************************************************************)
(* What a journal of requests promises to a client that may repeat itself: *)
(* a request is served at most once, its answer is final, what it makes    *)
(* becomes visible together with the answer "done" and never otherwise,    *)
(* and a request whose outcome was lost stays lost.                        *)
(***************************************************************************)
CONSTANT Requests

VARIABLES outcome, served, visible

vars == <<outcome, served, visible>>

Init ==
    /\ outcome = [r \in Requests |-> "new"]
    /\ served = [r \in Requests |-> 0]
    /\ visible = {}

Claim(r) ==
    /\ outcome[r] = "new"
    /\ outcome' = [outcome EXCEPT ![r] = "claimed"]
    /\ UNCHANGED <<served, visible>>

Serve(r) ==
    /\ outcome[r] = "claimed" /\ served[r] = 0
    /\ served' = [served EXCEPT ![r] = 1]
    /\ UNCHANGED <<outcome, visible>>

\* The answer and the effect are one step; a refusal has no effect.
Answer(r) ==
    /\ outcome[r] = "claimed" /\ served[r] \in {0, 1}
    /\ \/ outcome' = [outcome EXCEPT ![r] = "done"] /\ visible' \in {visible, visible \cup {r}}
       \/ outcome' = [outcome EXCEPT ![r] = "refused"] /\ UNCHANGED visible
    /\ served' = [served EXCEPT ![r] = 1]

\* A crash or an error: claimed requests are lost, all that a process held at once.
Lose ==
    /\ \E lost \in SUBSET {r \in Requests : outcome[r] = "claimed"} :
           outcome' = [r \in Requests |-> IF r \in lost THEN "unknown" ELSE outcome[r]]
    /\ UNCHANGED <<served, visible>>

Next == Lose \/ \E r \in Requests : Claim(r) \/ Serve(r) \/ Answer(r)

Spec == Init /\ [][Next]_vars
=================================================================================
