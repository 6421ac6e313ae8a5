--------------------------- MODULE ProofGatedDelivery ---------------------------
(***************************************************************************)
(* What the ledger promises about delivery, without saying how.  There is  *)
(* a set of obligations, at first the verbatim goal alone.  Work that is   *)
(* proven may be accepted, one item at a time; proof and acceptance may be *)
(* withdrawn at any time; the project is delivered in a step that leaves   *)
(* every obligation accepted, and nothing happens after that.              *)
(***************************************************************************)
CONSTANTS Work, Goal

VARIABLES obligations, proven, accepted, outcome

vars == <<obligations, proven, accepted, outcome>>

Init ==
    /\ obligations = {Goal}
    /\ proven = {}
    /\ accepted = {}
    /\ outcome = "running"

Running == outcome = "running"

\* Checks of one item passed: it is proven, and has to be accepted anew.
Prove(t) ==
    /\ Running /\ t \in obligations
    /\ proven' \subseteq proven \cup {t}
    /\ t \in proven'
    /\ accepted' = (accepted \cap proven') \ {t}
    /\ UNCHANGED <<obligations, outcome>>

\* Only proven work is accepted; the last acceptance may deliver.
Accept(t) ==
    /\ Running /\ t \in proven
    /\ accepted' = accepted \cup {t}
    /\ \/ outcome' = "running"
       \/ outcome' = "completed" /\ accepted' = obligations
    /\ UNCHANGED <<obligations, proven>>

Deliver ==
    /\ Running /\ accepted = obligations
    /\ outcome' = "completed"
    /\ UNCHANGED <<obligations, proven, accepted>>

\* New work, a changed contract or a changed workspace withdraws proof.
Withdraw ==
    /\ Running
    /\ obligations \subseteq obligations'
    /\ proven' \subseteq proven
    /\ accepted' = accepted \cap proven'
    /\ UNCHANGED outcome

\* A first plan replaces the goal as the unit of work, and nothing is carried over.
Decompose ==
    /\ Running /\ obligations = {Goal}
    /\ obligations' \subseteq Work \ {Goal}
    /\ obligations' # {}
    /\ proven' = {} /\ accepted' = {}
    /\ UNCHANGED outcome

Block ==
    /\ Running
    /\ outcome' = "blocked"
    /\ UNCHANGED <<obligations, proven, accepted>>

Next == (\E t \in Work : Prove(t) \/ Accept(t)) \/ Deliver \/ Withdraw \/ Decompose \/ Block

Spec == Init /\ [][Next]_vars

=============================================================================
