------------------------------ MODULE RunLeaseProofs ------------------------------
(***************************************************************************)
(* Proofs about RunLease, for any number of processes, calls and seconds.   *)
(***************************************************************************)
EXTENDS RunLease, TLAPS

\* Only the owner of the lease is past it.
Holding == {"running", "requesting", "leaving"}
OwnersHold == \A r \in Runners : pc[r] \in Holding => owner = r

\* A call that was found to be in the budget is charged before another one is looked at.
RoomForRequests == calls <= max_calls /\ \A r \in Runners : pc[r] = "requesting" => calls < max_calls

\* Without an overlap the ledger is as the only process found it, until it leaves.
SoleRun ==
    ~overlapped =>
        /\ \A q, r \in Runners : pc[q] # "idle" /\ pc[r] # "idle" => q = r
        /\ \A r \in Runners : pc[r] \notin {"idle", "leaving"} => initial_elapsed[r] = elapsed

ClocksGoOn == \A r \in Runners : started[r] <= now

LeaseInv == LeaseTypeOK /\ OwnersHold /\ RoomForRequests /\ SoleRun /\ ClocksGoOn

LEMMA LeaseInvStarts == ASSUME Init PROVE LeaseInv
<1>1. \A r \in Runners : pc[r] = "idle" /\ started[r] = 0 /\ initial_elapsed[r] = 0
  BY DEF Init
<1>2. LeaseTypeOK
  <2>1. now \in 0..MaxNow /\ elapsed \in Nat /\ calls \in Nat /\ owner \in Runners \cup {Nobody}
    BY LeaseAssumption DEF Init
  <2>2. overlapped \in BOOLEAN
    BY DEF Init
  <2>3. started \in [Runners -> 0..MaxNow] /\ initial_elapsed \in [Runners -> Nat]
    BY LeaseAssumption DEF Init
  <2>4. pc \in [Runners -> {"idle", "starting", "running", "requesting", "leaving"}]
    BY DEF Init
  <2> QED BY <2>1, <2>2, <2>3, <2>4 DEF LeaseTypeOK
<1>3. OwnersHold /\ RoomForRequests /\ SoleRun /\ ClocksGoOn
  BY <1>1, LeaseAssumption DEF Init, OwnersHold, RoomForRequests, SoleRun, ClocksGoOn, Holding
<1> QED BY <1>2, <1>3 DEF LeaseInv

LEMMA LeaseInvSteps == ASSUME LeaseInv, [Next]_vars PROVE LeaseInv'
<1> USE LeaseAssumption DEF LeaseInv, LeaseTypeOK, OwnersHold, RoomForRequests, SoleRun, ClocksGoOn, Holding
<1>1. CASE UNCHANGED vars
  BY <1>1 DEF vars, startVars, ledgerVars
<1>2. CASE Tick
  BY <1>2 DEF Tick, startVars, ledgerVars
<1>3. ASSUME NEW r \in Runners, ReadElapsed(r) PROVE LeaseInv'
  <2>1. /\ pc' = [pc EXCEPT ![r] = "starting"] /\ started' = [started EXCEPT ![r] = now]
        /\ initial_elapsed' = [initial_elapsed EXCEPT ![r] = elapsed]
        /\ overlapped' = (overlapped \/ \E q \in Runners \ {r} : pc[q] # "idle")
        /\ UNCHANGED <<now, owner, elapsed, calls>>
    BY <1>3 DEF ReadElapsed, Move, ledgerVars
  <2>2. overlapped' \in BOOLEAN
    BY <2>1
  <2>3. LeaseTypeOK'
    BY <2>1, <2>2
  <2>4. OwnersHold' /\ RoomForRequests' /\ ClocksGoOn'
    BY <2>1
  <2>5. SoleRun'
    BY <2>1
  <2> QED BY <2>3, <2>4, <2>5
<1>4. ASSUME NEW r \in Runners, lease(r) PROVE LeaseInv'
  BY <1>4 DEF lease, Move, startVars, ledgerVars
<1>5. ASSUME NEW r \in Runners, LeaseBusy(r) PROVE LeaseInv'
  BY <1>5 DEF LeaseBusy, Move, startVars, ledgerVars
<1>6. ASSUME NEW r \in Runners, CheckBudget(r) PROVE LeaseInv'
  BY <1>6 DEF CheckBudget, Move, startVars, ledgerVars
<1>7. ASSUME NEW r \in Runners, ReserveCall(r) PROVE LeaseInv'
  BY <1>7 DEF ReserveCall, Move, startVars
<1>8. ASSUME NEW r \in Runners, Checkpoint(r) PROVE LeaseInv'
  BY <1>8 DEF Checkpoint, Move, Duration, startVars
<1>9. ASSUME NEW r \in Runners, Release(r) PROVE LeaseInv'
  BY <1>9 DEF Release, Move, startVars, ledgerVars
<1>10. ASSUME NEW r \in Runners, Kill(r) PROVE LeaseInv'
  BY <1>10 DEF Kill, startVars, ledgerVars
<1> QED BY <1>1, <1>2, <1>3, <1>4, <1>5, <1>6, <1>7, <1>8, <1>9, <1>10 DEF Next, RunnerNext

LEMMA LeaseInvAlways == Spec => []LeaseInv
BY LeaseInvStarts, LeaseInvSteps, PTL DEF Spec

\* The lease keeps every other process out between the look at the budget and the charge.
THEOREM CallsAlwaysStayInBudget == Spec => []CallsStayInBudget
<1>1. LeaseInv => CallsStayInBudget
  BY DEF LeaseInv, RoomForRequests, CallsStayInBudget
<1> QED BY <1>1, LeaseInvAlways, PTL

\* What a sole run writes when it stops is what it found and a duration on top.
THEOREM SoleRunsKeepTime == Spec => SoleRunsKeepChargedTime
<1>1. ASSUME LeaseInv, [Next]_vars PROVE [overlapped' \/ elapsed' >= elapsed]_vars
  <2>1. CASE elapsed' = elapsed
    BY <1>1, <2>1 DEF LeaseInv, LeaseTypeOK
  <2>2. ASSUME NEW r \in Runners, Checkpoint(r) PROVE overlapped' \/ elapsed' >= elapsed
    <3>1. overlapped' = overlapped /\ pc[r] \in {"running", "requesting"} /\ elapsed' = initial_elapsed[r] + (now - started[r])
      BY <2>2 DEF Checkpoint, Move, Duration
    <3> QED BY <1>1, <3>1 DEF LeaseInv, LeaseTypeOK, SoleRun, ClocksGoOn
  <2> QED
    BY <1>1, <2>1, <2>2
    DEF Next, RunnerNext, Tick, ReadElapsed, lease, LeaseBusy, CheckBudget, ReserveCall, Release, Kill, vars, ledgerVars
<1> QED BY <1>1, LeaseInvAlways, PTL DEF Spec, SoleRunsKeepChargedTime

=============================================================================
