-------------------------------- MODULE RunLease --------------------------------
(***************************************************************************)
(* Several processes run the same project (ProjectRuntime.run and          *)
(* ProjectLedger.lease).  A process reads the elapsed time the ledger holds, *)
(* then tries to take the writer's lease without waiting, and adds its own *)
(* duration to what it read when it stops.  The budget of calls is looked  *)
(* at in one step and charged in another.                                  *)
(***************************************************************************)
EXTENDS Integers

CONSTANTS
    Runners,      \* processes
    Nobody,       \* no process
    max_calls,    \* the project's budget of model calls
    max_seconds,  \* the project's wall-clock budget
    MaxNow        \* bound on the clock

ASSUME LeaseAssumption ==
    /\ Nobody \notin Runners
    /\ max_calls \in Nat /\ max_seconds \in Nat /\ MaxNow \in Nat

VARIABLES
    now,              \* the monotonic clock, shared by the processes of a machine
    pc,               \* where each process is
    started, initial_elapsed,   \* what run() keeps of its beginning
    owner,            \* holder of writer.lock
    elapsed, calls,   \* fields of the ledger
    overlapped        \* history: a run began while another one was under way

ledgerVars == <<elapsed, calls>>
startVars == <<started, initial_elapsed>>
vars == <<now, pc, startVars, owner, ledgerVars, overlapped>>

LeaseTypeOK ==
    /\ now \in 0..MaxNow
    /\ pc \in [Runners -> {"idle", "starting", "running", "requesting", "leaving"}]
    /\ started \in [Runners -> 0..MaxNow]
    /\ initial_elapsed \in [Runners -> Nat]
    /\ owner \in Runners \cup {Nobody}
    /\ elapsed \in Nat /\ calls \in Nat
    /\ overlapped \in BOOLEAN

Init ==
    /\ now = 0
    /\ pc = [r \in Runners |-> "idle"]
    /\ started = [r \in Runners |-> 0]
    /\ initial_elapsed = [r \in Runners |-> 0]
    /\ owner = Nobody
    /\ elapsed = 0 /\ calls = 0
    /\ overlapped = FALSE

Move(r, from, to) == pc[r] = from /\ pc' = [pc EXCEPT ![r] = to]

Tick ==
    /\ now < MaxNow
    /\ now' = now + 1
    /\ UNCHANGED <<pc, startVars, owner, ledgerVars, overlapped>>

\* run(): the clock and the elapsed time are read before the lease is tried.
ReadElapsed(r) ==
    /\ Move(r, "idle", "starting")
    /\ started' = [started EXCEPT ![r] = now]
    /\ initial_elapsed' = [initial_elapsed EXCEPT ![r] = elapsed]
    /\ overlapped' = (overlapped \/ \E q \in Runners \ {r} : pc[q] # "idle")
    /\ UNCHANGED <<now, owner, ledgerVars>>

\* Mutant: the lock is shared.
ShareLease(r) ==
    /\ Move(r, "starting", "running")
    /\ owner' = r
    /\ UNCHANGED <<now, startVars, ledgerVars, overlapped>>

\* flock(LOCK_EX | LOCK_NB)
lease(r) ==
    /\ Move(r, "starting", "running")
    /\ owner = Nobody
    /\ owner' = r
    /\ UNCHANGED <<now, startVars, ledgerVars, overlapped>>

LeaseBusy(r) ==
    /\ owner # Nobody
    /\ Move(r, "starting", "idle")
    /\ UNCHANGED <<now, startVars, owner, ledgerVars, overlapped>>

Duration(r) == initial_elapsed[r] + (now - started[r])

\* The loop asks what remains, and only then builds and charges a request.
CheckBudget(r) ==
    /\ Move(r, "running", "requesting")
    /\ calls < max_calls
    /\ Duration(r) < max_seconds
    /\ UNCHANGED <<now, startVars, owner, ledgerVars, overlapped>>

ReserveCall(r) ==
    /\ Move(r, "requesting", "running")
    /\ calls' = calls + 1
    /\ UNCHANGED <<now, startVars, owner, elapsed, overlapped>>

\* Mutant: a run forgets what earlier runs spent.
CheckpointOwnTime(r) ==
    /\ \/ Move(r, "running", "leaving")
       \/ Move(r, "requesting", "leaving")
    /\ elapsed' = now - started[r]
    /\ UNCHANGED <<now, startVars, owner, calls, overlapped>>

\* finally: runtime_checkpoint, whatever ended the loop
Checkpoint(r) ==
    /\ \/ Move(r, "running", "leaving")
       \/ Move(r, "requesting", "leaving")
    /\ elapsed' = Duration(r)
    /\ UNCHANGED <<now, startVars, owner, calls, overlapped>>

Release(r) ==
    /\ Move(r, "leaving", "idle")
    /\ owner' = Nobody
    /\ UNCHANGED <<now, startVars, ledgerVars, overlapped>>

\* The process is killed: the system takes its lock back, nothing is written.
Kill(r) ==
    /\ pc[r] # "idle"
    /\ pc' = [pc EXCEPT ![r] = "idle"]
    /\ owner' = IF owner = r THEN Nobody ELSE owner
    /\ UNCHANGED <<now, startVars, ledgerVars, overlapped>>

RunnerNext(r) ==
    \/ ReadElapsed(r) \/ lease(r) \/ LeaseBusy(r)
    \/ CheckBudget(r) \/ ReserveCall(r)
    \/ Checkpoint(r) \/ Release(r) \/ Kill(r)

Next == Tick \/ \E r \in Runners : RunnerNext(r)

Spec == Init /\ [][Next]_vars

-----------------------------------------------------------------------------
\* The budget of calls holds for all processes together although it is checked
\* in one step and charged in a later one: only the lease keeps a second
\* process out of the gap.
CallsStayInBudget == calls <= max_calls

\* Time that the ledger has charged to the project stays charged, over any number of
\* runs that are killed or stop, as long as they do not overlap.
SoleRunsKeepChargedTime == [][overlapped' \/ elapsed' >= elapsed]_vars

\* Refuted.  A run resumes "with original total budgets" (resume_project), so charged
\* time stays charged; a run that overlaps another one writes back what it read before.
ChargedTimeStands == [][elapsed' >= elapsed]_vars

=============================================================================
