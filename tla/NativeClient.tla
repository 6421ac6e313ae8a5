------------------------------ MODULE NativeClient ------------------------------
(***************************************************************************)
(* The client of the State service over an unreliable network              *)
(* (_native_request and recover_native_request of openai_compat.py).  The  *)
(* server is represented by what a client may rely on: AtMostOnce, and     *)
(* that what has expired stays so; NativeService puts the real one in its  *)
(* place.  A client posts a named request; when the connection fails it    *)
(* asks the journal for the result.  Only when the journal has twice no    *)
(* record of the name does it post the same request again.  A POST that    *)
(* the client gave up may still be on its way: it arrives late, or never.  *)
(* The server may turn a POST away without a record: for now, or for good  *)
(* when an input is retired.                                               *)
(***************************************************************************)
EXTENDS Naturals

CONSTANTS
    Requests,     \* request identifiers, each used by one client
    MaxAttempts   \* settings.native_resubmit_attempts

\* What the proofs ask of the constants; NativeService assumes it.
ClientAssumption == MaxAttempts \in Nat \ {0}

VARIABLES
    outcome, served, visible,   \* the server: see AtMostOnce
    client,    \* where the caller of _native_request is, or what it was told
    attempt,   \* the loop variable of _native_request
    misses,    \* not_recorded_confirmations
    seen,      \* the answer to the query under way
    flying,    \* the attempts whose POST is in the network
    arrived,   \* the attempts whose POST reached the server
    expired    \* requests with a retired input, or whose State cannot be loaded any more

serverVars == <<outcome, served, visible>>
clientVars == <<client, attempt, misses, seen>>
networkVars == <<flying, arrived>>
vars == <<serverVars, clientVars, networkVars, expired>>

Journal == INSTANCE AtMostOnce

Outcomes == {"new", "claimed", "done", "refused", "unknown"}
Verdicts == {"returned", "failed", "unknown", "not_recorded"}

ClientTypeOK ==
    /\ outcome \in [Requests -> Outcomes]
    /\ served \in [Requests -> {0, 1}]
    /\ visible \in SUBSET Requests
    /\ client \in [Requests -> {"posting", "waiting", "recovering"} \cup Verdicts]
    /\ attempt \in [Requests -> 1..MaxAttempts]
    /\ misses \in [Requests -> 0..1]
    /\ seen \in [Requests -> (Outcomes \ {"claimed"}) \cup {"nothing"}]
    /\ flying \in [Requests -> SUBSET (1..MaxAttempts)]
    /\ arrived \in [Requests -> SUBSET (1..MaxAttempts)]
    /\ expired \in SUBSET Requests

Init ==
    /\ Journal!Init
    /\ client = [r \in Requests |-> "posting"]
    /\ attempt = [r \in Requests |-> 1]
    /\ misses = [r \in Requests |-> 0]
    /\ seen = [r \in Requests |-> "nothing"]
    /\ flying = [r \in Requests |-> {}]
    /\ arrived = [r \in Requests |-> {}]
    /\ expired = {}

Move(r, from, to) == client[r] = from /\ client' = [client EXCEPT ![r] = to]

-----------------------------------------------------------------------------
(* The client.                                                               *)

\* What a caller names may be retired when it posts it.
Post(r) ==
    /\ Move(r, "posting", "waiting")
    /\ flying' = [flying EXCEPT ![r] = @ \cup {attempt[r]}]
    /\ expired' \in {expired, expired \cup {r}}
    /\ UNCHANGED <<serverVars, attempt, misses, seen, arrived>>

\* The connection is closed with the attempt: only its own POST can be answered.
\* A retryable status (_RETRYABLE_STATUS) is treated like a lost connection: Disconnect.
Reply(r) ==
    /\ attempt[r] \in arrived[r]
    /\ \/ outcome[r] = "done" /\ Move(r, "waiting", "returned")
       \/ outcome[r] \in {"new", "done"} /\ r \in expired /\ Move(r, "waiting", "failed")
       \/ outcome[r] = "refused" /\ Move(r, "waiting", "failed")
    /\ UNCHANGED <<serverVars, attempt, misses, seen, networkVars, expired>>

Disconnect(r) ==
    /\ Move(r, "waiting", "recovering")
    /\ arrived' = [arrived EXCEPT ![r] = {}]
    /\ UNCHANGED <<serverVars, attempt, misses, seen, flying, expired>>

\* state_request_result: the answer is read at the server ...  While a request is pending
\* it is asked for again, which changes nothing.
Query(r) ==
    /\ client[r] = "recovering" /\ seen[r] = "nothing"
    /\ outcome[r] # "claimed"
    /\ seen' = [seen EXCEPT ![r] = outcome[r]]
    /\ UNCHANGED <<serverVars, client, attempt, misses, networkVars, expired>>

\* ... and used by the client some time later.
Conclude(r) ==
    /\ seen' = [seen EXCEPT ![r] = "nothing"]
    /\ \/ seen[r] = "done" /\ Move(r, "recovering", "returned")
       \/ seen[r] = "refused" /\ Move(r, "recovering", "failed")
       \/ seen[r] = "unknown" /\ Move(r, "recovering", "unknown")
    /\ UNCHANGED <<serverVars, attempt, misses, networkVars, expired>>

\* Mutant: a second submission is not counted.
ResubmitForever(r) ==
    /\ seen[r] = "new" /\ misses[r] = 1
    /\ Move(r, "recovering", "posting")
    /\ misses' = [misses EXCEPT ![r] = 0]
    /\ seen' = [seen EXCEPT ![r] = "nothing"]
    /\ UNCHANGED <<serverVars, attempt, networkVars, expired>>

Confirm(r) ==
    /\ seen[r] = "new" /\ misses[r] = 0
    /\ Move(r, "recovering", "recovering")
    /\ misses' = [misses EXCEPT ![r] = 1]
    /\ seen' = [seen EXCEPT ![r] = "nothing"]
    /\ UNCHANGED <<serverVars, attempt, networkVars, expired>>

\* Twice without a record: the same name is posted again, or the caller is told.
Resubmit(r) ==
    /\ seen[r] = "new" /\ misses[r] = 1
    /\ IF attempt[r] < MaxAttempts
       THEN /\ Move(r, "recovering", "posting")
            /\ attempt' = [attempt EXCEPT ![r] = @ + 1]
       ELSE Move(r, "recovering", "not_recorded") /\ UNCHANGED attempt
    /\ misses' = [misses EXCEPT ![r] = 0]
    /\ seen' = [seen EXCEPT ![r] = "nothing"]
    /\ UNCHANGED <<serverVars, networkVars, expired>>

\* The query failed, or the deadline passed without an answer.
GiveUp(r) ==
    /\ Move(r, "recovering", "unknown")
    /\ seen' = [seen EXCEPT ![r] = "nothing"]
    /\ UNCHANGED <<serverVars, attempt, misses, networkVars, expired>>

-----------------------------------------------------------------------------
(* The network and the server.                                               *)

Awaited(r, n) == client[r] = "waiting" /\ n = attempt[r]

\* The first POST that is not turned away claims the name; a later one only reads it.
Arrive(r, n) ==
    /\ n \in flying[r]
    /\ flying' = [flying EXCEPT ![r] = @ \ {n}]
    /\ arrived' = [arrived EXCEPT ![r] = IF Awaited(r, n) THEN {n} ELSE @]
    /\ \/ UNCHANGED serverVars
       \/ r \notin expired /\ Journal!Claim(r)
    /\ UNCHANGED <<clientVars, expired>>

\* Retirement is final, and so is the loss of the tensors of a State.
Server ==
    /\ \/ UNCHANGED serverVars
       \/ Journal!Lose
       \/ \E r \in Requests : Journal!Serve(r) \/ Journal!Answer(r)
    /\ expired \subseteq expired' /\ expired' \subseteq Requests
    /\ UNCHANGED <<clientVars, networkVars>>

Client(r) ==
    \/ Post(r) \/ Reply(r) \/ Disconnect(r) \/ Query(r)
    \/ Conclude(r) \/ Confirm(r) \/ Resubmit(r) \/ GiveUp(r)

Next ==
    \/ Server
    \/ \E r \in Requests : Client(r) \/ \E n \in 1..MaxAttempts : Arrive(r, n)

Spec == Init /\ [][Next]_vars

-----------------------------------------------------------------------------
(* Properties.                                                               *)

\* What the caller of _native_request is told stands for ever, whichever of the POSTs was
\* claimed, late or not: a returned result is the recorded one, and after a reported
\* failure there is no State to use and none appears.
VerdictsStand ==
    \A r \in Requests :
        /\ client[r] = "returned" => outcome[r] = "done"
        /\ client[r] = "failed" => \/ outcome[r] = "refused"
                                   \/ outcome[r] \in {"new", "done"} /\ r \in expired

=================================================================================
