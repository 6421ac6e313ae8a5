---------------------------- MODULE NativeClientProofs ----------------------------
(***************************************************************************)
(* Proofs about NativeClient, for any number of requests and attempts and   *)
(* whatever the network loses, delays or delivers out of order.             *)
(***************************************************************************)
EXTENDS NativeClient, TLAPS

Fields ==
    /\ outcome \in [Requests -> Outcomes]
    /\ client \in [Requests -> {"posting", "waiting", "recovering"} \cup Verdicts]
    /\ seen \in [Requests -> Outcomes \cup {"nothing"}]

\* An answer that the client has read and not used yet is still the answer.
AnswersStand == \A r \in Requests : seen[r] \in {"done", "refused"} => outcome[r] = seen[r]

ClientInv == Fields /\ AnswersStand /\ VerdictsStand

\* What a step may do to the server.
ServerStep ==
    \/ UNCHANGED serverVars
    \/ Journal!Lose
    \/ \E r \in Requests : Journal!Serve(r) \/ Journal!Answer(r) \/ (r \notin expired /\ Journal!Claim(r))

LEMMA StepsOfServer == ASSUME [Next]_vars PROVE ServerStep
<1>1. CASE Server
  BY <1>1 DEF Server, ServerStep
<1>2. ASSUME NEW r \in Requests, Client(r) PROVE ServerStep
  BY <1>2 DEF Client, ServerStep, serverVars, Post, Reply, Disconnect, Query, Conclude, Confirm, Resubmit, GiveUp
<1>3. ASSUME NEW r \in Requests, NEW n \in 1..MaxAttempts, Arrive(r, n) PROVE ServerStep
  BY <1>3 DEF Arrive, ServerStep
<1>4. CASE UNCHANGED vars
  BY <1>4 DEF vars, serverVars, ServerStep
<1> QED BY <1>1, <1>2, <1>3, <1>4 DEF Next

\* An outcome that is final stays, and one that is new is claimed only while the request can be served.
LEMMA OutcomesAreFinal ==
    ASSUME Fields, ServerStep
    PROVE  /\ outcome' \in [Requests -> Outcomes]
           /\ \A r \in Requests : outcome[r] \in {"done", "refused"} => outcome'[r] = outcome[r]
           /\ \A r \in Requests : outcome[r] = "new" /\ r \in expired => outcome'[r] = outcome[r]
<1>1. CASE UNCHANGED serverVars
  BY <1>1 DEF Fields, serverVars
<1>2. CASE Journal!Lose
  <2>1. PICK lost \in SUBSET {r \in Requests : outcome[r] = "claimed"} :
           outcome' = [r \in Requests |-> IF r \in lost THEN "unknown" ELSE outcome[r]]
    BY <1>2 DEF Journal!Lose
  <2> QED BY <2>1 DEF Fields, Outcomes
<1>3. ASSUME NEW r \in Requests, Journal!Serve(r) \/ Journal!Answer(r) \/ (r \notin expired /\ Journal!Claim(r))
      PROVE  /\ outcome' \in [Requests -> Outcomes]
             /\ \A q \in Requests : outcome[q] \in {"done", "refused"} => outcome'[q] = outcome[q]
             /\ \A q \in Requests : outcome[q] = "new" /\ q \in expired => outcome'[q] = outcome[q]
  BY <1>3 DEF Fields, Outcomes, Journal!Serve, Journal!Answer, Journal!Claim
<1> QED BY <1>1, <1>2, <1>3 DEF ServerStep

LEMMA ClientInvStarts == ASSUME Init PROVE ClientInv
<1>1. Fields
  BY DEF Init, Journal!Init, Fields, Outcomes
<1>2. AnswersStand /\ VerdictsStand
  BY DEF Init, AnswersStand, VerdictsStand
<1> QED BY <1>1, <1>2 DEF ClientInv

LEMMA ClientInvSteps == ASSUME ClientInv, [Next]_vars PROVE ClientInv'
<1>0. /\ Fields /\ AnswersStand /\ VerdictsStand
      /\ outcome' \in [Requests -> Outcomes]
      /\ \A r \in Requests : outcome[r] \in {"done", "refused"} => outcome'[r] = outcome[r]
      /\ \A r \in Requests : outcome[r] = "new" /\ r \in expired => outcome'[r] = outcome[r]
  BY StepsOfServer, OutcomesAreFinal DEF ClientInv
<1>1. CASE client' = client /\ seen' = seen /\ expired \subseteq expired'
  BY <1>0, <1>1 DEF ClientInv, Fields, AnswersStand, VerdictsStand
<1>2. ASSUME NEW r \in Requests, Client(r)
      PROVE  ClientInv'
  <2>0. expired \subseteq expired' /\ outcome' = outcome
    BY <1>2 DEF Client, Post, Reply, Disconnect, Query, Conclude, Confirm, Resubmit, GiveUp, serverVars
  <2>1. CASE Query(r)
    <3>1. seen' = [seen EXCEPT ![r] = outcome[r]] /\ client' = client
      BY <2>1 DEF Query
    <3> QED BY <1>0, <2>0, <3>1 DEF ClientInv, Fields, AnswersStand, VerdictsStand
  <2>2. CASE ~Query(r)
    <3>1. seen' = seen \/ seen' = [seen EXCEPT ![r] = "nothing"]
      BY <1>2, <2>2 DEF Client, Post, Reply, Disconnect, Conclude, Confirm, Resubmit, GiveUp
    <3>2. PICK to \in {"posting", "waiting", "recovering"} \cup Verdicts :
             /\ client' = [client EXCEPT ![r] = to]
             /\ to = "returned" => outcome[r] = "done"
             /\ to = "failed" => outcome[r] = "refused" \/ (outcome[r] \in {"new", "done"} /\ r \in expired)
      BY <1>0, <1>2, <2>2 DEF Client, Post, Reply, Disconnect, Conclude, Confirm, Resubmit, GiveUp, Move, Verdicts, AnswersStand
    <3> QED BY <1>0, <2>0, <3>1, <3>2 DEF ClientInv, Fields, AnswersStand, VerdictsStand
  <2> QED BY <2>1, <2>2
<1> QED BY <1>0, <1>1, <1>2 DEF Next, Server, Arrive, clientVars, vars

\* What is reported stays true although POSTs of the request may still arrive: returned,
\* the result is on record; failed, the request is refused, or its input or the State it
\* made has expired, and nothing that happens later gives the caller a State.
THEOREM VerdictsAlwaysStand == Spec => []VerdictsStand
<1>1. ClientInv => VerdictsStand
  BY DEF ClientInv
<1> QED BY <1>1, ClientInvStarts, ClientInvSteps, PTL DEF Spec

-----------------------------------------------------------------------------
(* What is left of a call of _native_request, the most significant part first. *)

AttemptsLeft(r) == MaxAttempts - attempt[r]

Stage(r) ==
    CASE client[r] = "posting" -> 3
      [] client[r] = "waiting" -> 2
      [] client[r] = "recovering" -> 1
      [] OTHER -> 0

\* One more query without a record, and the use of the answer that was read.
ConfirmationsLeft(r) == 1 - misses[r]
AnswersLeft(r) == IF seen[r] = "nothing" THEN 1 ELSE 0

CallsAreBounded ==
    \A r \in Requests :
        /\ AttemptsLeft(r) \in Nat /\ Stage(r) \in 0..3
        /\ ConfirmationsLeft(r) \in 0..1 /\ AnswersLeft(r) \in 0..1

LessIsLeft(r) ==
    \/ AttemptsLeft(r)' < AttemptsLeft(r)
    \/ AttemptsLeft(r)' = AttemptsLeft(r) /\ Stage(r)' < Stage(r)
    \/ /\ AttemptsLeft(r)' = AttemptsLeft(r) /\ Stage(r)' = Stage(r)
       /\ \/ ConfirmationsLeft(r)' < ConfirmationsLeft(r)
          \/ ConfirmationsLeft(r)' = ConfirmationsLeft(r) /\ AnswersLeft(r)' < AnswersLeft(r)

\* Each step of a client leaves less of its call, and nobody else has a hand in it.
CallStep ==
    \A r \in Requests :
        /\ Client(r) => LessIsLeft(r)
        /\ \/ Client(r)
           \/ UNCHANGED <<client[r], attempt[r], misses[r], seen[r]>>
StepsAreBounded == [][CallStep]_vars

\* Each attempt is posted once: what is in the network or has arrived is of an attempt made.
AttemptsArePosted ==
    \A r \in Requests :
        /\ flying[r] \cup arrived[r] \subseteq 1..attempt[r]
        /\ client[r] = "posting" => attempt[r] \notin flying[r] \cup arrived[r]
        /\ flying[r] \cap arrived[r] = {}

Counters ==
    /\ attempt \in [Requests -> 1..MaxAttempts]
    /\ misses \in [Requests -> 0..1]
    /\ flying \in [Requests -> SUBSET (1..MaxAttempts)]
    /\ arrived \in [Requests -> SUBSET (1..MaxAttempts)]

LEMMA CountersStep ==
    ASSUME ClientAssumption, Fields, Counters, AttemptsArePosted, [Next]_vars
    PROVE  Counters' /\ AttemptsArePosted'
<1>0. MaxAttempts \in Nat \ {0}
  BY DEF ClientAssumption
<1>1. ASSUME NEW r \in Requests, Post(r)
      PROVE  Counters' /\ AttemptsArePosted'
  <2>1. /\ client[r] = "posting" /\ client' = [client EXCEPT ![r] = "waiting"]
        /\ flying' = [flying EXCEPT ![r] = @ \cup {attempt[r]}]
        /\ UNCHANGED <<attempt, misses, arrived>>
    BY <1>1 DEF Post, Move
  <2>2. Counters'
    BY <1>0, <2>1 DEF Counters
  <2> QED BY <1>0, <2>1, <2>2 DEF Counters, Fields, AttemptsArePosted
<1>2. ASSUME NEW r \in Requests, NEW n \in 1..MaxAttempts, Arrive(r, n)
      PROVE  Counters' /\ AttemptsArePosted'
  <2>1. /\ n \in flying[r] /\ flying' = [flying EXCEPT ![r] = @ \ {n}]
        /\ arrived' = arrived \/ arrived' = [arrived EXCEPT ![r] = {n}]
        /\ UNCHANGED <<client, attempt, misses>>
    BY <1>2 DEF Arrive, clientVars, Counters
  <2>2. Counters'
    BY <2>1 DEF Counters
  <2> QED BY <2>1, <2>2 DEF Counters, Fields, AttemptsArePosted
<1>3. ASSUME NEW r \in Requests, Resubmit(r)
      PROVE  Counters' /\ AttemptsArePosted'
  <2>1. /\ misses' = [misses EXCEPT ![r] = 0] /\ UNCHANGED <<flying, arrived>>
        /\ \/ /\ attempt[r] < MaxAttempts /\ attempt' = [attempt EXCEPT ![r] = @ + 1]
              /\ client' = [client EXCEPT ![r] = "posting"]
           \/ attempt' = attempt /\ client' = [client EXCEPT ![r] = "not_recorded"]
    BY <1>3 DEF Resubmit, Move, networkVars
  <2>2. Counters'
    BY <1>0, <2>1 DEF Counters
  <2> QED BY <1>0, <2>1, <2>2 DEF Counters, Fields, AttemptsArePosted
<1>4. ASSUME NEW r \in Requests, Reply(r) \/ Disconnect(r) \/ Query(r) \/ Conclude(r) \/ Confirm(r) \/ GiveUp(r)
      PROVE  Counters' /\ AttemptsArePosted'
  <2>1. /\ UNCHANGED <<attempt, flying>>
        /\ arrived' = arrived \/ arrived' = [arrived EXCEPT ![r] = {}]
        /\ misses' = misses \/ misses' = [misses EXCEPT ![r] = 1]
        /\ client' = client \/ \E to \in {"recovering"} \cup Verdicts : client' = [client EXCEPT ![r] = to]
    BY <1>4 DEF Reply, Disconnect, Query, Conclude, Confirm, GiveUp, Move, networkVars, Verdicts
  <2>2. Counters'
    BY <2>1 DEF Counters
  <2>3. \A q \in Requests : client'[q] = "posting" => client[q] = "posting"
    BY <2>1 DEF Fields, Verdicts
  <2>4. \A q \in Requests : arrived'[q] \subseteq arrived[q]
    BY <2>1 DEF Counters
  <2> QED BY <2>1, <2>2, <2>3, <2>4 DEF AttemptsArePosted
<1>5. CASE Server \/ UNCHANGED vars
  BY <1>5 DEF Server, vars, clientVars, networkVars, Counters, AttemptsArePosted
<1> QED BY <1>1, <1>2, <1>3, <1>4, <1>5 DEF Next, Client

LEMMA CallProgress ==
    ASSUME ClientAssumption, Fields, Counters, [Next]_vars
    PROVE  CallStep
<1>0. MaxAttempts \in Nat \ {0}
  BY DEF ClientAssumption
<1>1. ASSUME NEW r \in Requests, Client(r)
      PROVE  LessIsLeft(r)
  <2>0. /\ client \in [Requests -> {"posting", "waiting", "recovering"} \cup Verdicts]
        /\ seen \in [Requests -> Outcomes \cup {"nothing"}]
        /\ attempt[r] \in 1..MaxAttempts /\ misses[r] \in 0..1
        /\ attempt \in [Requests -> 1..MaxAttempts] /\ misses \in [Requests -> 0..1]
    BY DEF Fields, Counters
  <2>1. ASSUME attempt' = attempt, Stage(r)' < Stage(r) PROVE LessIsLeft(r)
    BY <2>1 DEF LessIsLeft, AttemptsLeft
  <2>2. CASE Post(r) \/ Reply(r) \/ Disconnect(r) \/ GiveUp(r)
    <3>1. /\ attempt' = attempt
          /\ \/ client[r] = "posting" /\ client'[r] = "waiting"
             \/ client[r] = "waiting" /\ client'[r] \in {"recovering", "returned", "failed"}
             \/ client[r] = "recovering" /\ client'[r] = "unknown"
      BY <2>0, <2>2 DEF Post, Reply, Disconnect, GiveUp, Move
    <3>2. Stage(r)' < Stage(r)
      BY <3>1 DEF Stage
    <3> QED BY <2>1, <3>1, <3>2
  <2>3. CASE Query(r)
    <3>1. /\ UNCHANGED <<client, attempt, misses>> /\ seen[r] = "nothing" /\ seen'[r] = outcome[r]
      BY <2>0, <2>3 DEF Query
    <3>2. outcome[r] # "nothing"
      BY DEF Fields, Outcomes
    <3>3. Stage(r)' = Stage(r) /\ AttemptsLeft(r)' = AttemptsLeft(r) /\ ConfirmationsLeft(r)' = ConfirmationsLeft(r)
      BY <3>1 DEF Stage, AttemptsLeft, ConfirmationsLeft
    <3>4. AnswersLeft(r)' < AnswersLeft(r)
      BY <3>1, <3>2 DEF AnswersLeft
    <3> QED BY <3>3, <3>4 DEF LessIsLeft
  <2>4. CASE Conclude(r)
    <3>1. /\ attempt' = attempt /\ client[r] = "recovering"
          /\ client'[r] \in {"returned", "failed", "unknown"}
      BY <2>0, <2>4 DEF Conclude, Move
    <3>2. Stage(r)' < Stage(r)
      BY <3>1 DEF Stage
    <3> QED BY <2>1, <3>1, <3>2
  <2>5. CASE Confirm(r)
    <3>1. attempt' = attempt /\ client'[r] = client[r] /\ misses[r] = 0 /\ misses'[r] = 1
      BY <2>0, <2>5 DEF Confirm, Move
    <3>2. Stage(r)' = Stage(r) /\ AttemptsLeft(r)' = AttemptsLeft(r) /\ ConfirmationsLeft(r)' < ConfirmationsLeft(r)
      BY <3>1 DEF Stage, AttemptsLeft, ConfirmationsLeft
    <3> QED BY <3>2 DEF LessIsLeft
  <2>6. CASE Resubmit(r)
    <3>1. CASE attempt[r] < MaxAttempts
      <4>1. attempt'[r] = attempt[r] + 1
        BY <2>0, <2>6, <3>1 DEF Resubmit
      <4>2. AttemptsLeft(r)' < AttemptsLeft(r)
        BY <1>0, <2>0, <4>1 DEF AttemptsLeft
      <4> QED BY <4>2 DEF LessIsLeft
    <3>2. CASE ~(attempt[r] < MaxAttempts)
      <4>1. attempt' = attempt /\ client[r] = "recovering" /\ client'[r] = "not_recorded"
        BY <2>0, <2>6, <3>2 DEF Resubmit, Move
      <4>2. Stage(r)' < Stage(r)
        BY <4>1 DEF Stage
      <4> QED BY <2>1, <4>1, <4>2
    <3> QED BY <3>1, <3>2
  <2> QED BY <1>1, <2>2, <2>3, <2>4, <2>5, <2>6 DEF Client
<1>2. ASSUME NEW r \in Requests, ~Client(r)
      PROVE  UNCHANGED <<client[r], attempt[r], misses[r], seen[r]>>
  <2>1. CASE Server \/ UNCHANGED vars
    BY <2>1 DEF Server, vars, clientVars
  <2>2. ASSUME NEW q \in Requests, NEW n \in 1..MaxAttempts, Arrive(q, n)
        PROVE  UNCHANGED <<client, attempt, misses, seen>>
    BY <2>2 DEF Arrive, clientVars
  <2>3. ASSUME NEW q \in Requests, Client(q)
        PROVE  UNCHANGED <<client[r], attempt[r], misses[r], seen[r]>>
    <3>1. q # r
      BY <1>2, <2>3
    <3> QED BY <2>3, <3>1 DEF Fields, Counters, Client, Post, Reply, Disconnect, Query, Conclude, Confirm, Resubmit,
               GiveUp, Move
  <2> QED BY <2>1, <2>2, <2>3 DEF Next
<1> QED BY <1>1, <1>2 DEF CallStep

\* native_resubmit_attempts: each attempt posts the request once, however late the answers
\* to earlier ones are, and a call takes only as many steps as its attempts allow: each
\* step leaves less of it.
THEOREM CallsStayBounded ==
    ASSUME ClientAssumption
    PROVE  Spec => [](CallsAreBounded /\ AttemptsArePosted) /\ StepsAreBounded
<1> DEFINE Inv == ClientInv /\ Counters /\ AttemptsArePosted
<1>1. Init => Inv
  <2>1. Init => Counters
    BY DEF ClientAssumption, Init, Counters
  <2>2. Init => AttemptsArePosted
    BY DEF Init, AttemptsArePosted
  <2> QED BY <2>1, <2>2, ClientInvStarts
<1>2. Inv /\ [Next]_vars => Inv'
  BY ClientInvSteps, CountersStep DEF ClientInv
<1>3. Inv => CallsAreBounded
  <2> SUFFICES ASSUME Inv, NEW r \in Requests
               PROVE  /\ AttemptsLeft(r) \in Nat /\ Stage(r) \in 0..3
                      /\ ConfirmationsLeft(r) \in 0..1 /\ AnswersLeft(r) \in 0..1
    BY DEF CallsAreBounded
  <2>1. attempt[r] \in 1..MaxAttempts /\ misses[r] \in 0..1 /\ MaxAttempts \in Nat
    BY DEF ClientAssumption, Counters
  <2> QED BY <2>1 DEF AttemptsLeft, Stage, ConfirmationsLeft, AnswersLeft
<1>4. Inv /\ [Next]_vars => [CallStep]_vars
  BY CallProgress DEF ClientInv
<1> HIDE DEF Inv
<1>5. Inv => AttemptsArePosted
  BY DEF Inv
<1> QED BY <1>1, <1>2, <1>3, <1>4, <1>5, PTL DEF Spec, StepsAreBounded

=================================================================================
