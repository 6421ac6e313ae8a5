----------------------------- MODULE NativeRequests -----------------------------
(***************************************************************************)
(* The service that keeps the recurrent States of a model, and the journal *)
(* of its requests (native_state_service.py, native_request_recovery.py).  *)
(*                                                                         *)
(* A client names a request before it sends it.  The first arrival claims  *)
(* the name in the journal, with the inputs it pins, and a task of the     *)
(* process executes it under request_lock; every later arrival only reads  *)
(* the journal.  A result and the facts about the State it made are one    *)
(* transaction.  A claim that its process did not resolve is unknown to    *)
(* every later process, and is never executed again.                       *)
(*                                                                         *)
(* A request makes at most one State, so a State is named by the request   *)
(* that made it.  The store key of its tensors is the digest of what went  *)
(* in: a sequence of contents, one longer with every request in its line.  *)
(* The worker's cache of resident tensors may evict anything at any time   *)
(* and is left out: every use may have to load from the store.             *)
(***************************************************************************)
EXTENDS Naturals, Sequences, FiniteSets

CONSTANTS
    Requests,     \* request identifiers
    Contents,     \* texts a State may consume
    Operations,   \* the operations clients use
    Persistent,   \* TRUE: tensors on disk; FALSE: in the memory of the worker
    MaxRestarts,  \* bound on the restarts of the service
    None          \* no request, no content, no result

NATIVE_REQUEST_OPERATIONS ==
    {"create", "append", "generate", "commit", "rollback", "import", "release"}

Keys == Seq(Contents \cup Requests)
Payload == [op : NATIVE_REQUEST_OPERATIONS, refs : SUBSET Requests,
            content : Contents \cup {None}, aliases : BOOLEAN]
Metadata == [phase : {"live", "dropped", "released"}, committed : BOOLEAN,
             parent : Requests \cup {None}, origin : Requests \cup {None},
             key : Keys, epoch : 0..MaxRestarts]

ASSUME NativeAssumption ==
    /\ None \notin Requests \cup Contents \cup Payload \cup Metadata
    /\ Requests \cap Contents = {}
    /\ Operations \subseteq NATIVE_REQUEST_OPERATIONS
    /\ Persistent \in BOOLEAN
    /\ MaxRestarts \in Nat

VARIABLES
    epoch,    \* incarnation of the service: owner_id and storage_epoch
    status,   \* native_requests.status, "absent" without a row
    owner,    \* native_requests.owner_id
    asked,    \* the operation and the inputs the identifier is bound to
    answer,   \* the recorded result: "ok" or "refused" (an HTTP error)
    state,    \* native_request_states, by the request that made the State
    gc,       \* native_state_gc: store keys queued for deletion
    tasks,    \* requests with a live task in this process
    lock,     \* request_lock: who holds it and how far they are
    store,    \* the worker's tensors: keys, and the cache binding they were written for
    invocations  \* history: how often the operation of a request was called

journal == <<status, owner, asked, answer, state, gc>>
process == <<tasks, lock>>
vars == <<epoch, journal, process, store, invocations>>

Tensors == [key : Keys, committed : BOOLEAN]
Free == [holder |-> None, step |-> "free", keys |-> {}]

TypeOK ==
    /\ epoch \in 0..MaxRestarts
    /\ status \in [Requests -> {"absent", "pending", "unknown", "completed"}]
    /\ owner \in [Requests -> 0..MaxRestarts]
    /\ asked \in [Requests -> Payload \cup {None}]
    /\ answer \in [Requests -> {None, "ok", "refused"}]
    /\ state \in [Requests -> Metadata \cup {None}]
    /\ gc \in SUBSET Keys
    /\ tasks \in SUBSET Requests
    /\ lock \in [holder : Requests \cup {None},
                 step : {"free", "working", "exported", "sweeping"},
                 keys : SUBSET Keys]
    /\ store \in SUBSET Tensors
    /\ invocations \in [Requests -> Nat]

Init ==
    /\ epoch = 0
    /\ status = [r \in Requests |-> "absent"]
    /\ owner = [r \in Requests |-> 0]
    /\ asked = [r \in Requests |-> None]
    /\ answer = [r \in Requests |-> None]
    /\ state = [r \in Requests |-> None]
    /\ gc = {}
    /\ tasks = {}
    /\ lock = Free
    /\ store = {}
    /\ invocations = [r \in Requests |-> 0]

-----------------------------------------------------------------------------
(* What the journal knows.                                                   *)

\* A row of an earlier process that was never resolved reads as unknown.
Outcome(r) ==
    IF status[r] = "pending" /\ owner[r] # epoch THEN "unknown" ELSE status[r]

\* Mutant: a lost outcome does not bind any more.
Pending(r) == status[r] = "pending"

\* What the journal tells of a request, in the words of AtMostOnce.
Told == [r \in Requests |->
            CASE Outcome(r) = "absent" -> "new"
              [] Outcome(r) = "pending" -> "claimed"
              [] Outcome(r) = "completed" -> IF answer[r] = "ok" THEN "done" ELSE "refused"
              [] OTHER -> "unknown"]

Unresolved(r) == status[r] \in {"pending", "unknown"}
Recorded == {s \in Requests : state[s] # None}
Live == {s \in Recorded : state[s].phase = "live"}

\* Requests that will, or may, have decided a candidate.
Mutating(s) ==
    {r \in Requests : /\ Unresolved(r)
                      /\ asked[r].op \in {"commit", "rollback"} /\ asked[r].refs = {s}}

\* The States a request names: its inputs stay pinned until it is resolved.
Inputs(payload) ==
    payload.refs \cup
        (IF payload.op = "rollback" THEN {state[s].parent : s \in payload.refs} \ {None} ELSE {})

Pinned(r) == Inputs(asked[r])
PinnedKeys(r) == {state[s].key : s \in Pinned(r)}

\* A handle the running service can still use, on behalf of request r.
Usable(s, r) ==
    /\ Mutating(s) \subseteq {r}
    /\ s \in Live
    /\ Persistent \/ state[s].epoch = epoch

Aliases(r) ==
    IF asked[r].aliases
    THEN {s \in Recorded : state[s].origin \in asked[r].refs} \ asked[r].refs
    ELSE {}

Releasing(r) == asked[r].refs \cup Aliases(r)

\* Mutant: only requests keep a State, not the candidates that branch off it.
release_pinned_only(refs, r) ==
    \A q \in Requests \ {r} : Unresolved(q) => Pinned(q) \cap refs = {}

\* No live candidate branches off these States, and no other request waits for them.
validate_release(refs, r) ==
    /\ \A s \in Live : ~state[s].committed => state[s].parent \notin refs
    /\ \A q \in Requests \ {r} : Unresolved(q) =>
           /\ Pinned(q) \cap refs = {}
           /\ asked[q].op = "import" => PinnedKeys(q) \cap {state[s].key : s \in refs} = {}

\* The checks of an operation, made when it gets the lock.
Admissible(r) ==
    LET op == asked[r].op refs == asked[r].refs IN
    CASE op = "create" -> TRUE
      [] op \in {"append", "import"} -> \A s \in refs : Usable(s, r) /\ state[s].committed
      [] op = "generate" -> \A s \in refs : Usable(s, r)
      [] op = "rollback" -> \A s \in refs : Usable(s, r) /\ ~state[s].committed
      [] op = "commit" -> \A s \in refs : /\ Usable(s, r) /\ ~state[s].committed
                                          /\ Usable(state[s].parent, r)
      [] OTHER -> /\ \A s \in refs : /\ Mutating(s) \subseteq {r}
                                     /\ state[s].committed /\ state[s].phase # "dropped"
                  /\ \A s \in Aliases(r) : state[s].committed
                  /\ validate_release(Releasing(r), r)

\* The tensors an operation writes or reads, and the State it makes.
Digest(r) ==
    LET parent == CHOOSE s \in asked[r].refs : TRUE IN
    CASE asked[r].op = "create" -> <<asked[r].content>>
      [] asked[r].op = "append" -> Append(state[parent].key, asked[r].content)
      [] asked[r].op = "generate" -> Append(state[parent].key, r)
      [] OTHER -> state[parent].key

Made(r) ==
    LET source == CHOOSE s \in asked[r].refs : TRUE IN
    [phase |-> "live", committed |-> asked[r].op # "generate",
     parent |-> IF asked[r].op \in {"append", "generate"} THEN source ELSE None,
     origin |-> IF asked[r].op = "import" THEN source ELSE None,
     key |-> Digest(r), epoch |-> IF Persistent THEN 0 ELSE epoch]

Retired(refs, phase) ==
    [s \in Requests |-> IF s \in refs THEN [state[s] EXCEPT !.phase = phase] ELSE state[s]]

\* Mutant: a candidate that is rolled back leaves its tensors behind.
QueuedCommitted(refs) == {state[s].key : s \in {t \in refs \cap Live : state[t].committed}}

\* Only the first retirement of a State queues its key.
QueuedKeys(refs) == {state[s].key : s \in refs \cap Live}

-----------------------------------------------------------------------------
(* A request.                                                                *)

\* What a client can send: it knows the handles of recorded States.  An export
\* record carries the name of the State that was exported, never of an alias.
Requestable ==
    {p \in [op : Operations, refs : SUBSET Recorded,
            content : Contents \cup {None}, aliases : BOOLEAN] :
        /\ CASE p.op = "create" -> p.refs = {}
             [] p.op = "release" -> p.refs # {}
             [] OTHER -> \E s \in Recorded : p.refs = {s}
        /\ (p.content # None) <=> p.op \in {"create", "append"}
        /\ p.aliases => p.op = "release" /\ "import" \in Operations
        /\ p.op = "import" => \A s \in p.refs : state[s].origin = None}

\* Mutant: a request whose outcome was lost is executed again.
ClaimAgain(r) ==
    /\ Outcome(r) \in {"absent", "unknown"}
    /\ \E payload \in Requestable :
        /\ payload.op # "release" => Inputs(payload) \subseteq Live
        /\ payload.op \in {"commit", "rollback"} => \A s \in payload.refs : Mutating(s) = {}
        /\ status[r] # "absent" => payload = asked[r]
        /\ asked' = [asked EXCEPT ![r] = payload]
    /\ status' = [status EXCEPT ![r] = "pending"]
    /\ owner' = [owner EXCEPT ![r] = epoch]
    /\ tasks' = tasks \cup {r}
    /\ UNCHANGED <<epoch, answer, state, gc, lock, store, invocations>>

\* Mutant: the handle of a retired State still admits a request.
ClaimRetired(r) ==
    /\ status[r] = "absent"
    /\ \E payload \in Requestable :
        /\ payload.op \in {"commit", "rollback"} => \A s \in payload.refs : Mutating(s) = {}
        /\ asked' = [asked EXCEPT ![r] = payload]
    /\ status' = [status EXCEPT ![r] = "pending"]
    /\ owner' = [owner EXCEPT ![r] = epoch]
    /\ tasks' = tasks \cup {r}
    /\ UNCHANGED <<epoch, answer, state, gc, lock, store, invocations>>

\* The name is bound to its payload and the inputs are pinned, in one transaction.
Claim(r) ==
    /\ status[r] = "absent"
    /\ \E payload \in Requestable :
        /\ payload.op # "release" => Inputs(payload) \subseteq Live
        /\ payload.op \in {"commit", "rollback"} => \A s \in payload.refs : Mutating(s) = {}
        /\ asked' = [asked EXCEPT ![r] = payload]
    /\ status' = [status EXCEPT ![r] = "pending"]
    /\ owner' = [owner EXCEPT ![r] = epoch]
    /\ tasks' = tasks \cup {r}
    /\ UNCHANGED <<epoch, answer, state, gc, lock, store, invocations>>

Waiting(r) == lock = Free /\ r \in tasks
Working(r, step) == lock.holder = r /\ lock.step = step
Invoke(r) == invocations' = [invocations EXCEPT ![r] = @ + 1]

Resolve(r, result) ==
    /\ status' = [status EXCEPT ![r] = "completed"]
    /\ answer' = [answer EXCEPT ![r] = result]
    /\ tasks' = tasks \ {r}
    /\ lock' = Free
    /\ UNCHANGED <<epoch, owner, asked>>

Begin(r) ==
    /\ Waiting(r) /\ Admissible(r)
    /\ asked[r].op \notin {"release", "rollback"}
    /\ lock' = [holder |-> r, step |-> "working", keys |-> {}]
    /\ Invoke(r)
    /\ UNCHANGED <<epoch, journal, tasks, store>>

\* A retirement does not wait for anything between its checks and its transaction.
Retire(r) ==
    /\ Waiting(r) /\ Admissible(r)
    /\ \/ /\ asked[r].op = "rollback"
          /\ state' = Retired(asked[r].refs, "dropped")
          /\ gc' = gc \cup QueuedKeys(asked[r].refs)
       \/ /\ asked[r].op = "release"
          /\ state' = Retired(Releasing(r), "released")
          /\ gc' = gc \cup QueuedKeys(Releasing(r))
    /\ Resolve(r, "ok")
    /\ Invoke(r)
    /\ UNCHANGED store

\* An HTTP error is a result.  Storage space is asked of whatever allocates.
Refuse(r) ==
    /\ Waiting(r)
    /\ Admissible(r) => asked[r].op \notin {"release", "rollback"}
    /\ Resolve(r, "refused")
    /\ Invoke(r)
    /\ UNCHANGED <<state, gc, store>>

\* The engine may still find the request invalid.
Reject(r) ==
    /\ Working(r, "working")
    /\ Resolve(r, "refused")
    /\ UNCHANGED <<state, gc, store, invocations>>

\* The worker writes the tensors, replacing an earlier copy, or loads them.
Export(r) ==
    /\ Working(r, "working")
    /\ IF asked[r].op = "import"
       THEN /\ [key |-> Digest(r), committed |-> TRUE] \in store
            /\ UNCHANGED store
       ELSE store' = {t \in store : t.key # Digest(r)} \cup
                     {[key |-> Digest(r), committed |-> asked[r].op # "generate"]}
    /\ lock' = [lock EXCEPT !.step = "exported"]
    /\ UNCHANGED <<epoch, journal, tasks, invocations>>

\* The result and the facts about the State are one transaction.
Complete(r) ==
    /\ Working(r, "exported")
    /\ IF asked[r].op = "commit"
       THEN state' = [s \in Requests |-> IF s \in asked[r].refs
                                         THEN [state[s] EXCEPT !.committed = TRUE]
                                         ELSE state[s]]
       ELSE state' = [state EXCEPT ![r] = Made(r)]
    /\ Resolve(r, "ok")
    /\ UNCHANGED <<gc, store, invocations>>

\* Mutant: the error path keeps the lock.
BreakHolding(r) ==
    /\ lock.holder = r
    /\ status' = [status EXCEPT ![r] = "unknown"]
    /\ tasks' = tasks \ {r}
    /\ lock' = [lock EXCEPT !.step = "broken"]
    /\ UNCHANGED <<epoch, owner, asked, answer, state, gc, store, invocations>>

\* Any other error: whether it took effect is unknown.
Break(r) ==
    /\ lock.holder = r
    /\ status' = [status EXCEPT ![r] = "unknown"]
    /\ tasks' = tasks \ {r}
    /\ lock' = Free
    /\ UNCHANGED <<epoch, owner, asked, answer, state, gc, store, invocations>>

-----------------------------------------------------------------------------
(* Collection of retired tensors, and the death of the service.              *)

\* Mutant: a retired State takes its tensors with it, whoever shares the key.
UnpinnedKeys ==
    gc \ UNION {PinnedKeys(r) : r \in {q \in Requests : Unresolved(q)}}

\* Only live States and the inputs of unresolved requests keep tensors.
Reclaimable ==
    gc \ ({state[s].key : s \in Live} \cup
          UNION {PinnedKeys(r) : r \in {q \in Requests : Unresolved(q)}})

BeginSweep ==
    /\ lock = Free /\ Reclaimable # {}
    /\ lock' = [holder |-> None, step |-> "sweeping", keys |-> Reclaimable]
    /\ UNCHANGED <<epoch, journal, tasks, store, invocations>>

\* The worker deletes a key, then the queue forgets it.
DeleteExport(k) ==
    /\ k \in lock.keys
    /\ \E b \in store : b.key = k
    /\ store' = {b \in store : b.key # k}
    /\ UNCHANGED <<epoch, journal, process, invocations>>

MarkDeleted(k) ==
    /\ k \in lock.keys
    /\ \A b \in store : b.key # k
    /\ gc' = gc \ {k}
    /\ lock' = [lock EXCEPT !.keys = @ \ {k}]
    /\ UNCHANGED <<epoch, status, owner, asked, answer, state, tasks, store, invocations>>

\* The loop is done, or the worker failed and the rest stays queued.
EndSweep ==
    /\ lock.step = "sweeping"
    /\ lock' = Free
    /\ UNCHANGED <<epoch, journal, tasks, store, invocations>>

Restart ==
    /\ epoch < MaxRestarts
    /\ epoch' = epoch + 1
    /\ tasks' = {}
    /\ lock' = Free
    /\ store' = IF Persistent THEN store ELSE {}
    /\ UNCHANGED <<journal, invocations>>

Serve(r) == Begin(r) \/ Retire(r) \/ Refuse(r)
Proceed(r) == Export(r) \/ Complete(r) \/ Reject(r) \/ Break(r)
Sweep == EndSweep \/ \E k \in lock.keys : DeleteExport(k) \/ MarkDeleted(k)

Next ==
    \/ \E r \in Requests : Claim(r) \/ Serve(r) \/ Proceed(r)
    \/ BeginSweep \/ Sweep
    \/ Restart

Spec == Init /\ [][Next]_vars

\* An asyncio.Lock is granted in the order of arrival, so whoever waits for
\* request_lock gets it although others take it in between; whoever holds it goes on.
Fairness ==
    /\ \A r \in Requests : SF_vars(Serve(r)) /\ WF_vars(Proceed(r))
    /\ WF_vars(Sweep)

FairSpec == Spec /\ Fairness

-----------------------------------------------------------------------------
(* Properties.                                                               *)

Resident(s) == Persistent \/ state[s].epoch = epoch
TensorsOf(s) == [key |-> state[s].key, committed |-> state[s].committed]

\* A live handle can always be loaded: its tensors are in the store, and unless an
\* unresolved commit may have rewritten them, under the binding the handle has.
\* Two States may share a key, and a sweep deletes keys while claims arrive.
HandlesLoad ==
    \A s \in Live : Resident(s) =>
        /\ \E b \in store : b.key = state[s].key
        /\ Mutating(s) = {} => TensorsOf(s) \in store

\* What an admitted or queued request will read is neither released under it nor
\* deleted by a sweep that was under way when it arrived.
QueuedInputsStand ==
    \A r \in Requests : Unresolved(r) /\ asked[r].op # "release" =>
        \A s \in Pinned(r) : /\ state[s].phase # "released"
                             /\ Resident(s) => \E b \in store : b.key = state[s].key

\* The tensors of live handles and of what requests are waiting for outlast every sweep.
TensorsAreKept == HandlesLoad /\ QueuedInputsStand

\* A candidate is committed or rolled back against its parent: a release does not
\* take the parent away while the candidate is undecided.
CandidatesKeepTheirParent ==
    \A s \in Live : ~state[s].committed => state[state[s].parent].phase # "released"

\* Storage does not leak: tensors belong to a live State, are queued for deletion,
\* or were written by a request whose outcome is not known.
TensorsAreOwned ==
    \A b \in store : \/ \E s \in Live : state[s].key = b.key
                    \/ b.key \in gc
                    \/ \E r \in Requests : /\ Unresolved(r)
                                          /\ asked[r].op \in {"create", "append", "generate"}
                                          /\ Digest(r) = b.key

\* What an operation with an unknown outcome may have changed stays as it was, for
\* every process that comes later: nobody commits, drops or releases it.
UncertainStatesFreeze ==
    [][\A r \in Requests :
         Outcome(r) = "unknown" /\ asked[r].op \in {"commit", "rollback"} =>
             \A s \in asked[r].refs : state'[s] = state[s]]_vars

\* The service keeps the promise of AtMostOnce: over restarts, a request is served at
\* most once, its answer is final, and its State appears with the answer.
Once == INSTANCE AtMostOnce WITH
    outcome <- Told,
    served <- invocations,
    visible <- Recorded

RequestsAreServedOnce == Once!Spec

\* Every request that is claimed gets an answer or is known to be lost: again and again
\* nobody waits for request_lock any more.  A name is claimed once.
ClaimsAreResolved == []<>(\A r \in Requests : Outcome(r) # "pending")

\* Refuted.  A release is refused while a State is referenced or awaited.  The refusal is
\* the recorded result of the request, whose name is the digest of its payload: the same
\* release is refused for ever, long after the State could go.
RefusalsHoldWhileNeeded ==
    \A r \in Requests : status[r] = "completed" /\ answer[r] = "refused" /\ asked[r].op = "release"
        => ~Admissible(r)

=================================================================================
