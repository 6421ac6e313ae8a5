------------------------------ MODULE NativeService ------------------------------
(***************************************************************************)
(* The State service with a client that reaches it over the network of     *)
(* NativeClient.  Some requests are sent by callers of _native_request;    *)
(* the others arrive from clients that are not looked at, and create,      *)
(* decide and release the States the callers work on.  A caller names its  *)
(* inputs when it prepares a request, and by the time a POST of it is      *)
(* received they may be retired, or lost with the service.                 *)
(***************************************************************************)
EXTENDS NativeRequests

CONSTANTS
    Callers,      \* the requests of callers of _native_request
    MaxAttempts   \* settings.native_resubmit_attempts

ASSUME ServiceAssumption ==
    /\ Callers \subseteq Requests
    /\ MaxAttempts \in Nat \ {0}

VARIABLES
    wanted,                        \* what a caller has prepared
    client, attempt, misses, seen, \* the caller: see NativeClient
    flying, arrived                \* the network: see NativeClient

callVars == <<wanted, client, attempt, misses, seen, flying, arrived>>
allVars == <<vars, callVars>>

\* The States a recorded result speaks of: recovery_metadata.
States(r) ==
    IF asked[r].op \in {"release", "rollback"} THEN {}
    ELSE IF asked[r].op = "commit" THEN asked[r].refs
    ELSE {r}

Has(r, result) == status[r] = "completed" /\ answer[r] = result
Dead(s) == state[s].phase # "live" \/ ~Resident(s)

\* NativeStateRetired: without a record, a request whose input is retired never gets one.
Retiring(c) ==
    /\ status[c] = "absent" /\ wanted[c] # None
    /\ wanted[c].op # "release" /\ ~(Inputs(wanted[c]) \subseteq Live)

\* NativeRequestOutcomeUnknown: another request may have decided its candidate.
Deciding(c) ==
    wanted[c].op \in {"commit", "rollback"} /\ \E s \in wanted[c].refs : Mutating(s) # {}

\* What callers see of the service: what it tells of their requests, how often it served
\* them, which made a State, and what nobody can be given any more.
Reported == [c \in Callers |-> Told[c]]
Served == [c \in Callers |-> invocations[c]]
Shown == Recorded \cap Callers
Gone == {c \in Callers : Retiring(c) \/ (Has(c, "ok") /\ \E s \in States(c) : Dead(s))}

\* What NativeClient asks of its server, and what the service is to it.
Wire == INSTANCE NativeClient WITH
    Requests <- Callers, outcome <- Reported, served <- Served, visible <- Shown, expired <- Gone

ServiceInit ==
    /\ Init
    /\ wanted = [c \in Callers |-> None]
    /\ client = [c \in Callers |-> "posting"]
    /\ attempt = [c \in Callers |-> 1]
    /\ misses = [c \in Callers |-> 0]
    /\ seen = [c \in Callers |-> "nothing"]
    /\ flying = [c \in Callers |-> {}]
    /\ arrived = [c \in Callers |-> {}]

-----------------------------------------------------------------------------
(* The result of a recorded request.                                         *)

\* _recover_current_states: a State that was retired is passed over, one that is being
\* decided is waited for, and one that was lost with the service cannot be loaded.
Replays(c) ==
    /\ Has(c, "ok")
    /\ \A s \in States(c) : state[s].phase # "live" \/ (Resident(s) /\ Mutating(s) = {})

Lost(c) ==
    /\ Has(c, "ok")
    /\ \E s \in States(c) : state[s].phase = "live" /\ ~Resident(s) /\ Mutating(s) = {}

-----------------------------------------------------------------------------
(* A call.                                                                   *)

Post(c) ==
    /\ IF wanted[c] = None
       THEN \E payload \in Requestable : wanted' = [wanted EXCEPT ![c] = payload]
       ELSE UNCHANGED wanted
    /\ UNCHANGED vars
    /\ Wire!Move(c, "posting", "waiting")
    /\ flying' = [flying EXCEPT ![c] = @ \cup {attempt[c]}]
    /\ UNCHANGED <<attempt, misses, seen, arrived>>

\* A POST is claimed, or finds its record; an input that is retired or being decided turns
\* it away without one.  A service that is not ready is like a network that loses it.
Arrive(c, n) ==
    /\ n \in flying[c]
    /\ flying' = [flying EXCEPT ![c] = @ \ {n}]
    /\ arrived' = [arrived EXCEPT ![c] = IF Wire!Awaited(c, n) THEN {n} ELSE @]
    /\ \/ Claim(c) /\ asked'[c] = wanted[c]
       \/ (status[c] # "absent" \/ Retiring(c) \/ Deciding(c)) /\ UNCHANGED vars
    /\ UNCHANGED <<wanted, client, attempt, misses, seen>>

\* Mutant: whatever is turned away without a record has failed.
ReplyFailed(c) ==
    /\ attempt[c] \in arrived[c]
    /\ \/ Replays(c) /\ Wire!Move(c, "waiting", "returned")
       \/ /\ status[c] = "absent" \/ Lost(c) \/ Has(c, "refused")
          /\ Wire!Move(c, "waiting", "failed")
    /\ UNCHANGED <<vars, wanted, attempt, misses, seen, flying, arrived>>

Reply(c) ==
    /\ attempt[c] \in arrived[c]
    /\ \/ Replays(c) /\ Wire!Move(c, "waiting", "returned")
       \/ /\ Retiring(c) \/ Lost(c) \/ Has(c, "refused")
          /\ Wire!Move(c, "waiting", "failed")
    /\ UNCHANGED <<vars, wanted, attempt, misses, seen, flying, arrived>>

Query(c) ==
    /\ client[c] = "recovering" /\ seen[c] = "nothing"
    /\ Has(c, "ok") => Replays(c)
    /\ Told[c] # "claimed"
    /\ seen' = [seen EXCEPT ![c] = Told[c]]
    /\ UNCHANGED <<vars, wanted, client, attempt, misses, flying, arrived>>

GiveUp(c) == UNCHANGED <<vars, wanted>> /\ Wire!GiveUp(c)

Call(c) ==
    \/ Post(c) \/ Reply(c) \/ Query(c) \/ GiveUp(c)
    \/ /\ UNCHANGED <<vars, wanted>>
       /\ Wire!Disconnect(c) \/ Wire!Conclude(c) \/ Wire!Confirm(c) \/ Wire!Resubmit(c)

\* Others use each name once, and one unused name is as good as another.
Unused == {r \in Requests \ Callers : status[r] = "absent"}

Service ==
    /\ \/ Unused # {} /\ Claim(CHOOSE r \in Unused : TRUE)
       \/ \E r \in Requests : Serve(r) \/ Proceed(r)
       \/ BeginSweep \/ Sweep
       \/ Restart
    /\ UNCHANGED callVars

ServiceNext == Service \/ \E c \in Callers : Call(c) \/ \E n \in 1..MaxAttempts : Arrive(c, n)

ServiceSpec == ServiceInit /\ [][ServiceNext]_allVars

\* A caller goes on: timeouts end every wait, and a recovery that is not over yet can
\* always give up.  Nothing is asked of the network, and of the service what NativeRequests asks.
FairServiceSpec ==
    /\ ServiceSpec /\ Fairness
    /\ \A c \in Callers : WF_allVars(Call(c))

-----------------------------------------------------------------------------
(* Properties.                                                               *)

\* What the caller of _native_request is told stands for ever, whichever of its POSTs was
\* claimed, late or not, and whatever others do to its inputs: a returned result is the
\* recorded one, and after a reported failure there is no State to use and none appears.
VerdictsStand == Wire!VerdictsStand

\* The service is the server that the client was written for: to one that posts again, late
\* or after a restart, it serves a name at most once, and claims none that it turned away
\* for good.
ServesTheClient == Wire!Spec

\* Every call of _native_request ends with a verdict, whatever the network does.
CallsEnd == \A c \in Callers : wanted[c] # None ~> client[c] \in Wire!Verdicts

\* Refuted.  RWKVRequestNotRecorded says that the journal proves the request was never
\* executed.  A POST that is still on its way is claimed and executed afterwards.
NotRecordedLeavesNothing ==
    \A c \in Callers : client[c] = "not_recorded" => state[c] = None

=================================================================================
