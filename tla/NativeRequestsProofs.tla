-------------------------- MODULE NativeRequestsProofs --------------------------
(***************************************************************************)
(* The journal of the State service serves a request at most once, and its *)
(* States, their tensors and the requests that wait for them agree, for    *)
(* any number of requests and restarts, with tensors on disk or in memory. *)
(* To its callers it is the server that their client was written for.      *)
(***************************************************************************)
EXTENDS NativeService, FiniteSetTheorems, TLAPS

\* What Claim has checked of a request it binds.
Bound(p) ==
    /\ p \in Payload /\ p.refs \subseteq Recorded
    /\ p.op \notin {"create", "release"} => \E s \in Recorded : p.refs = {s}
    /\ p.op \in {"create", "append"} => p.content \in Contents

\* A request with a task is pending and its operation was called if it holds the lock;
\* a State is recorded with the answer of the request that made it.
RequestsStand ==
    \A r \in Requests :
        /\ owner[r] \in 0..epoch
        /\ r \in tasks => /\ status[r] = "pending" /\ owner[r] = epoch
                          /\ invocations[r] = IF lock.holder = r THEN 1 ELSE 0
        /\ status[r] = "absent" => invocations[r] = 0
        /\ status[r] # "absent" => Bound(asked[r])
        /\ state[r] # None => status[r] = "completed"

\* The holder of the lock has a task; a sweep has no holder, and only a sweep has keys.
LockStands ==
    /\ lock.holder # None => /\ lock.holder \in tasks
                             /\ lock.step \in {"working", "exported"}
                             /\ asked[lock.holder].op \notin {"release", "rollback"}
    /\ lock.holder = None => lock.step \in {"free", "sweeping"}
    /\ lock.step # "sweeping" => lock.keys = {}

LastOf(key) == key[Len(key)]

\* A key ends with a content or with the request that generated it: nobody else has the
\* key of a candidate until it is committed.
StatesStand ==
    \A s \in Recorded :
        /\ state[s].epoch \in 0..epoch
        /\ state[s].key # << >>
        /\ LastOf(state[s].key) \notin Contents =>
              /\ LastOf(state[s].key) \in Recorded
              /\ LastOf(state[s].key) = s \/ state[LastOf(state[s].key)].committed
        /\ ~state[s].committed => LastOf(state[s].key) = s /\ state[s].parent \in Recorded

\* An import names a committed State, and a commit a live one, for as long as it runs; what it
\* exported is still there when it is recorded.
HolderStands ==
    \A r \in Requests : lock.holder = r =>
        /\ asked[r].op = "import" => \A s \in asked[r].refs : state[s].committed
        /\ asked[r].op = "commit" => asked[r].refs \subseteq Live
        /\ lock.step = "exported" =>
              [key |-> Digest(r), committed |-> asked[r].op # "generate"] \in store

\* Whose tensors and records are needed: live States, and what unresolved requests wait for.
Needed ==
    Live \cup UNION {Pinned(r) : r \in {q \in Requests : Unresolved(q) /\ asked[q].op # "release"}}

\* A needed State is not released, no sweep deletes its key and its tensors are stored; the
\* parent of an undecided candidate is not released either.
NeedsStand ==
    /\ \A s \in Needed :
          /\ s \in Recorded /\ state[s].phase # "released" /\ state[s].key \notin lock.keys
          /\ Resident(s) => \E b \in store : b.key = state[s].key
    /\ \A s \in Live : ~state[s].committed => state[state[s].parent].phase # "released"

\* At most one unresolved request decides a State.
MutatorsStand ==
    \A q, r \in Requests :
        Unresolved(q) /\ Unresolved(r) /\ asked[q].refs = asked[r].refs
        /\ asked[q].op \in {"commit", "rollback"} /\ asked[r].op \in {"commit", "rollback"} => q = r

\* No request that decides s has begun to write, or was lost while it could have.
Untouched(s) ==
    \A r \in Mutating(s) : r \in tasks /\ ~(lock.holder = r /\ lock.step = "exported")

\* The stored tensors of a live State have the binding of its handle.
LoadsStand == \A s \in Live : Resident(s) /\ Untouched(s) => TensorsOf(s) \in store

\* A request that may have written tensors without recording them.
Writing(r) ==
    /\ Unresolved(r) /\ asked[r].op \in {"create", "append", "generate"}
    /\ r \notin tasks \/ (lock.holder = r /\ lock.step = "exported")

\* Stored tensors belong to a live State, are queued for deletion, or were written by a
\* request that is about to record them or was lost.
OwnedStand ==
    \A b \in store : \/ \E s \in Live : state[s].key = b.key
                    \/ b.key \in gc
                    \/ \E r \in Requests : Writing(r) /\ Digest(r) = b.key

\* The journal: who asked for what, and the States that were made.
JournalInv == TypeOK /\ RequestsStand /\ LockStands /\ StatesStand

\* The inductive invariant of the service.
ServiceInv ==
    JournalInv /\ HolderStands /\ NeedsStand /\ MutatorsStand /\ LoadsStand /\ OwnedStand

-----------------------------------------------------------------------------
(* The States a step makes, retires and commits.                           *)

LEMMA Names ==
    /\ None \notin Requests /\ None \notin Contents
    /\ None \notin Payload /\ None \notin Metadata
    /\ Requests \cap Contents = {} /\ MaxRestarts \in Nat
  BY NativeAssumption

LEMMA DigestIs ==
    ASSUME JournalInv, NEW r \in Requests, status[r] # "absent", asked[r].op # "release"
    PROVE  /\ Digest(r) \in Keys /\ Digest(r) # << >>
           /\ asked[r].op \in {"create", "append"} => LastOf(Digest(r)) \in Contents
           /\ asked[r].op = "generate" => LastOf(Digest(r)) = r
           /\ asked[r].op \notin {"create", "append", "generate"} =>
                 \E s \in Recorded : asked[r].refs = {s} /\ Digest(r) = state[s].key
  <1>1. Bound(asked[r])
    BY DEF JournalInv, RequestsStand
  <1>2. CASE asked[r].op = "create"
    <2>1. Digest(r) = <<asked[r].content>> /\ asked[r].content \in Contents
      BY <1>1, <1>2 DEF Digest, Bound
    <2> QED BY <1>2, <2>1 DEF Keys, LastOf
  <1>3. CASE asked[r].op # "create"
    <2>1. PICK s \in Recorded : asked[r].refs = {s}
      BY <1>1, <1>3 DEF Bound
    <2>2. (CHOOSE t \in asked[r].refs : TRUE) = s
      BY <2>1
    <2>3. state[s].key \in Seq(Contents \cup Requests) /\ state[s].key # << >>
      BY <2>1, Names DEF JournalInv, TypeOK, StatesStand, Recorded, Metadata, Keys
    <2>4. CASE asked[r].op = "append"
      <3>1. Digest(r) = Append(state[s].key, asked[r].content) /\ asked[r].content \in Contents
        BY <1>1, <2>2, <2>4 DEF Digest, Bound
      <3> QED BY <2>3, <2>4, <3>1 DEF Keys, LastOf
    <2>5. CASE asked[r].op = "generate"
      <3>1. Digest(r) = Append(state[s].key, r)
        BY <2>2, <2>5 DEF Digest
      <3> QED BY <2>3, <2>5, <3>1 DEF Keys, LastOf
    <2>6. CASE asked[r].op \notin {"append", "generate"}
      <3>1. Digest(r) = state[s].key
        BY <1>3, <2>2, <2>6 DEF Digest
      <3> QED BY <1>3, <2>1, <2>3, <2>6, <3>1 DEF Keys
    <2> QED BY <2>4, <2>5, <2>6
  <1> QED BY <1>2, <1>3

\* What is known of a recorded State is not forgotten, and a State only moves on.
StatesGrow ==
    \A s \in Recorded :
        /\ state'[s] \in Metadata
        /\ state'[s].key = state[s].key /\ state'[s].parent = state[s].parent
        /\ state'[s].origin = state[s].origin /\ state'[s].epoch = state[s].epoch
        /\ state[s].committed => state'[s].committed
        /\ state[s].phase # "live" => state'[s].phase # "live"

\* The States of refs are retired, with a phase, and nothing else happens to States.
Retirement(refs, phase) ==
    \A s \in Requests :
        /\ s \notin refs => state'[s] = state[s]
        /\ s \in refs => /\ state'[s] \in Metadata /\ state'[s].phase = phase
                         /\ state'[s].committed = state[s].committed
                         /\ state'[s].key = state[s].key /\ state'[s].parent = state[s].parent
                         /\ state'[s].origin = state[s].origin /\ state'[s].epoch = state[s].epoch

LEMMA RetiredIs ==
    ASSUME TypeOK, NEW refs \in SUBSET Recorded, NEW phase \in {"dropped", "released"},
           state' = Retired(refs, phase)
    PROVE  /\ state' \in [Requests -> Metadata \cup {None}]
           /\ Retirement(refs, phase) /\ StatesGrow /\ Recorded' = Recorded
  <1>1. \A s \in Requests : s \notin refs => state'[s] = state[s]
    BY DEF Retired
  <1>2. ASSUME NEW s \in refs
        PROVE  state[s] \in Metadata /\ state'[s] = [state[s] EXCEPT !.phase = phase]
    BY Names DEF Retired, Recorded, TypeOK
  <1>3. ASSUME NEW s \in refs
        PROVE  /\ state'[s] \in Metadata /\ state'[s].phase = phase
               /\ state'[s].committed = state[s].committed
               /\ state'[s].key = state[s].key /\ state'[s].parent = state[s].parent
               /\ state'[s].origin = state[s].origin /\ state'[s].epoch = state[s].epoch
    <2> HIDE DEF Keys
    <2> QED BY <1>2, <1>3 DEF Metadata
  <1>4. DOMAIN state' = Requests /\ state' = [s \in Requests |-> state'[s]]
    BY DEF Retired
  <1>5. ASSUME NEW s \in Requests PROVE state'[s] \in Metadata \cup {None}
    BY <1>1, <1>3 DEF TypeOK
  <1>6. state' \in [Requests -> Metadata \cup {None}]
    BY <1>4, <1>5
  <1>7. Retirement(refs, phase)
    BY <1>1, <1>3 DEF Retirement
  <1>8. StatesGrow
    BY <1>1, <1>3, Names DEF StatesGrow, Recorded, TypeOK
  <1>9. Recorded' = Recorded
    BY <1>1, <1>3, Names DEF Recorded
  <1> QED BY <1>6, <1>7, <1>8, <1>9

LEMMA MarkedIs ==
    ASSUME NEW m \in Metadata, NEW b \in BOOLEAN
    PROVE  /\ [m EXCEPT !.committed = b] \in Metadata
           /\ [m EXCEPT !.committed = b] =
                  [phase |-> m.phase, committed |-> b, parent |-> m.parent,
                   origin |-> m.origin, key |-> m.key, epoch |-> m.epoch]
  BY DEF Metadata

\* A commit changes what the State it names says of itself.
LEMMA CommittedIs ==
    ASSUME TypeOK, NEW refs \in SUBSET Recorded,
           state' = [s \in Requests |-> IF s \in refs THEN [state[s] EXCEPT !.committed = TRUE]
                                        ELSE state[s]]
    PROVE  /\ state' \in [Requests -> Metadata \cup {None}]
           /\ \A s \in Requests \ refs : state'[s] = state[s]
           /\ \A s \in refs : state'[s].committed /\ state'[s].phase = state[s].phase
           /\ StatesGrow /\ Recorded' = Recorded
  <1>1. \A s \in Requests \ refs : state'[s] = state[s]
    OBVIOUS
  <1>2. ASSUME NEW s \in refs
        PROVE  state[s] \in Metadata /\ state'[s] = [state[s] EXCEPT !.committed = TRUE]
    BY Names DEF Recorded, TypeOK
  <1>3. ASSUME NEW s \in refs
        PROVE  /\ state'[s] \in Metadata /\ state'[s].phase = state[s].phase
               /\ state'[s].committed
               /\ state'[s].key = state[s].key /\ state'[s].parent = state[s].parent
               /\ state'[s].origin = state[s].origin /\ state'[s].epoch = state[s].epoch
    <2>0. TRUE \in BOOLEAN /\ state[s] \in Metadata
      BY <1>2, <1>3
    <2>1. state'[s] \in Metadata
      <3>1. [state[s] EXCEPT !.committed = TRUE] \in Metadata
        BY <2>0, MarkedIs, Zenon
      <3> QED BY <1>2, <1>3, <3>1
    <2>2. state'[s] = [phase |-> state[s].phase, committed |-> TRUE, parent |-> state[s].parent,
                       origin |-> state[s].origin, key |-> state[s].key, epoch |-> state[s].epoch]
      BY <1>2, <1>3, MarkedIs
    <2> QED BY <2>1, <2>2
  <1>4. DOMAIN state' = Requests /\ state' = [s \in Requests |-> state'[s]]
    OBVIOUS
  <1>5. ASSUME NEW s \in Requests PROVE state'[s] \in Metadata \cup {None}
    BY <1>1, <1>3 DEF TypeOK
  <1>6. state' \in [Requests -> Metadata \cup {None}]
    BY <1>4, <1>5
  <1>7. StatesGrow
    BY <1>1, <1>3, Names DEF StatesGrow, Recorded, TypeOK
  <1>8. Recorded' = Recorded
    BY <1>1, <1>3, Names DEF Recorded
  <1> QED BY <1>1, <1>3, <1>6, <1>7, <1>8

\* A new State appears under the name of the request that made it.
LEMMA MadeIs ==
    ASSUME JournalInv, NEW r \in tasks, asked[r].op \notin {"release", "rollback"},
           state' = [state EXCEPT ![r] = Made(r)]
    PROVE  /\ state' \in [Requests -> Metadata \cup {None}]
           /\ r \notin Recorded /\ Recorded' = Recorded \cup {r}
           /\ \A s \in Requests \ {r} : state'[s] = state[s]
           /\ state'[r] \in Metadata /\ state'[r].key = Digest(r) /\ state'[r].phase = "live"
           /\ state'[r].committed <=> asked[r].op # "generate"
           /\ asked[r].op = "generate" => asked[r].refs = {state'[r].parent} /\ state'[r].parent \in Recorded
           /\ state'[r].epoch = IF Persistent THEN 0 ELSE epoch
           /\ StatesGrow
  <1>0. r \in Requests /\ status[r] = "pending" /\ Bound(asked[r]) /\ state[r] = None
    BY DEF JournalInv, TypeOK, RequestsStand
  <1>1. Digest(r) \in Keys
    BY <1>0, DigestIs
  <1>2. asked[r].op # "create" => \E s \in Recorded : asked[r].refs = {s} /\ (CHOOSE t \in asked[r].refs : TRUE) = s
    BY <1>0 DEF Bound
  <1>3. Made(r) \in Metadata
    <2>1. epoch \in 0..MaxRestarts /\ 0 \in 0..MaxRestarts
      BY Names DEF JournalInv, TypeOK
    <2>2. (CHOOSE s \in asked[r].refs : TRUE) \in Requests \/ asked[r].op = "create"
      BY <1>2 DEF Recorded
    <2> HIDE DEF Keys
    <2> QED BY <1>1, <2>1, <2>2 DEF Made, Metadata
  <1>4. state'[r] = Made(r) /\ \A s \in Requests \ {r} : state'[s] = state[s]
    BY <1>0 DEF JournalInv, TypeOK
  <1>5. state' \in [Requests -> Metadata \cup {None}]
    BY <1>0, <1>3 DEF JournalInv, TypeOK
  <1>6. r \notin Recorded /\ Recorded' = Recorded \cup {r}
    BY <1>0, <1>3, <1>4, Names DEF Recorded
  <1>7. asked[r].op = "generate" => asked[r].refs = {Made(r).parent} /\ Made(r).parent \in Recorded
    BY <1>2 DEF Made
  <1>8. StatesGrow
    BY <1>4, <1>6, Names DEF StatesGrow, Recorded, JournalInv, TypeOK
  <1>9. /\ Made(r).key = Digest(r) /\ Made(r).phase = "live"
        /\ Made(r).committed <=> asked[r].op # "generate"
        /\ Made(r).epoch = IF Persistent THEN 0 ELSE epoch
    BY DEF Made
  <1> QED BY <1>3, <1>4, <1>5, <1>6, <1>7, <1>8, <1>9

-----------------------------------------------------------------------------
(* The journal.                                                            *)

LEMMA BoundStays ==
    ASSUME NEW q, Bound(asked[q]), asked'[q] = asked[q], Recorded \subseteq Recorded'
    PROVE  Bound(asked[q])'
  BY DEF Bound

\* Steps that make no State keep what the States say.
LEMMA StatesStandOn ==
    ASSUME JournalInv, StatesGrow, Recorded' = Recorded, epoch' \in Nat, epoch <= epoch'
    PROVE  StatesStand'
  <1>0. epoch \in Nat /\ epoch' \in Nat
    BY Names DEF JournalInv, TypeOK
  <1>1. ASSUME NEW s \in Recorded
        PROVE  /\ state'[s].epoch \in 0..epoch'
               /\ state'[s].key = state[s].key /\ state'[s].parent = state[s].parent
               /\ state[s].committed => state'[s].committed
    <2>1. state[s].epoch \in 0..epoch
      BY <1>1 DEF JournalInv, StatesStand
    <2>2. /\ state'[s].epoch = state[s].epoch
          /\ state'[s].key = state[s].key /\ state'[s].parent = state[s].parent
          /\ state[s].committed => state'[s].committed
      BY <1>1 DEF StatesGrow
    <2> QED BY <1>0, <2>1, <2>2
  <1>2. ASSUME NEW s \in Recorded
        PROVE  /\ state[s].key # << >>
               /\ LastOf(state[s].key) \notin Contents =>
                     /\ LastOf(state[s].key) \in Recorded
                     /\ LastOf(state[s].key) = s \/ state[LastOf(state[s].key)].committed
               /\ ~state[s].committed => LastOf(state[s].key) = s /\ state[s].parent \in Recorded
    BY <1>2 DEF JournalInv, StatesStand
  <1>3. ASSUME NEW s \in Recorded
        PROVE  /\ LastOf(state[s].key) \notin Contents =>
                     LastOf(state[s].key) = s \/ state'[LastOf(state[s].key)].committed
               /\ ~state'[s].committed => ~state[s].committed
    BY <1>1, <1>2
  <1> QED BY <1>1, <1>2, <1>3 DEF StatesStand

LEMMA NothingMade == UNCHANGED state /\ TypeOK => StatesGrow /\ Recorded' = Recorded
  BY Names DEF StatesGrow, Recorded, TypeOK

\* A request leaves the journal and the lock, with its answer.
LEMMA ResolveIs ==
    ASSUME JournalInv, NEW r \in tasks, NEW result \in {"ok", "refused"}, Resolve(r, result),
           lock.holder \in {None, r}, Recorded \subseteq Recorded',
           \A s \in Recorded' : s \in Recorded \cup {r},
           \A q \in Requests \ {r} : invocations'[q] = invocations[q]
    PROVE  RequestsStand' /\ LockStands'
  <1>0. /\ r \in Requests /\ status[r] = "pending" /\ tasks' = tasks \ {r} /\ lock' = Free
        /\ status' = [status EXCEPT ![r] = "completed"] /\ epoch' = epoch /\ owner' = owner /\ asked' = asked
    BY DEF JournalInv, TypeOK, RequestsStand, Resolve
  <1>1. ASSUME NEW q \in Requests
        PROVE  /\ owner'[q] \in 0..epoch'
               /\ q \in tasks' => /\ status'[q] = "pending" /\ owner'[q] = epoch'
                                  /\ invocations'[q] = IF lock'.holder = q THEN 1 ELSE 0
               /\ status'[q] = "absent" => invocations'[q] = 0
               /\ state'[q] # None => status'[q] = "completed"
    BY <1>0, <1>1, Names DEF JournalInv, TypeOK, RequestsStand, Recorded, Free
  <1>2. ASSUME NEW q \in Requests, status'[q] # "absent" PROVE Bound(asked[q])'
    BY <1>0, <1>2, BoundStays DEF JournalInv, TypeOK, RequestsStand
  <1>3. LockStands'
    BY <1>0 DEF LockStands, Free
  <1>4. RequestsStand'
    BY <1>1, <1>2 DEF RequestsStand
  <1> QED BY <1>3, <1>4

\* The other fields, when a request leaves.
LEMMA ResolveTypes ==
    ASSUME JournalInv, NEW r \in tasks, NEW result \in {"ok", "refused"}, Resolve(r, result),
           state' \in [Requests -> Metadata \cup {None}], gc' \in SUBSET Keys, UNCHANGED store,
           invocations' \in {invocations, [invocations EXCEPT ![r] = @ + 1]}
    PROVE  TypeOK'
  <1>1. /\ status' \in [Requests -> {"absent", "pending", "unknown", "completed"}]
        /\ answer' \in [Requests -> {None, "ok", "refused"}]
        /\ tasks' \in SUBSET Requests /\ epoch' \in 0..MaxRestarts
        /\ owner' \in [Requests -> 0..MaxRestarts]
        /\ asked' \in [Requests -> Payload \cup {None}]
        /\ invocations' \in [Requests -> Nat]
    BY DEF JournalInv, TypeOK, Resolve
  <1>2. lock' \in [holder : Requests \cup {None}, step : {"free", "working", "exported", "sweeping"},
                   keys : SUBSET Keys]
    BY DEF Resolve, Free
  <1>3. store' \in SUBSET Tensors
    BY DEF JournalInv, TypeOK
  <1> QED BY <1>1, <1>2, <1>3 DEF TypeOK

LEMMA QueuedAreKeys ==
    ASSUME TypeOK, NEW refs
    PROVE  QueuedKeys(refs) \subseteq Keys
  <1>1. \A s \in Live : state[s].key \in Keys
    <2> HIDE DEF Keys
    <2> QED BY Names DEF TypeOK, Live, Recorded, Metadata
  <1> QED BY <1>1 DEF QueuedKeys

LEMMA JournalClaims ==
    ASSUME JournalInv, NEW r \in Requests, Claim(r)
    PROVE  JournalInv'
  <1>0. PICK p \in Requestable : asked' = [asked EXCEPT ![r] = p]
    BY DEF Claim
  <1>1. /\ status[r] = "absent" /\ status' = [status EXCEPT ![r] = "pending"]
        /\ owner' = [owner EXCEPT ![r] = epoch] /\ tasks' = tasks \cup {r}
        /\ UNCHANGED <<epoch, answer, state, gc, lock, store, invocations>>
    BY DEF Claim
  <1>2. Bound(p)
    BY NativeAssumption, Names DEF Requestable, Bound, Payload, Recorded
  <1>3. Recorded' = Recorded /\ StatesGrow
    BY <1>1, NothingMade DEF JournalInv
  <1>4. asked'[r] = p
    BY <1>0 DEF JournalInv, TypeOK
  <1>5. TypeOK'
    <2>1. p \in Payload
      BY <1>2 DEF Bound
    <2>2. epoch \in 0..MaxRestarts
      BY DEF JournalInv, TypeOK
    <2> HIDE DEF Keys, Payload, Metadata, Tensors
    <2> QED BY <1>0, <1>1, <2>1, <2>2 DEF JournalInv, TypeOK
  <1>6. lock.holder # r
    BY <1>1, Names DEF JournalInv, RequestsStand, LockStands
  <1>7. ASSUME NEW q \in Requests
        PROVE  /\ owner'[q] \in 0..epoch'
               /\ q \in tasks' => /\ status'[q] = "pending" /\ owner'[q] = epoch'
                                  /\ invocations'[q] = IF lock'.holder = q THEN 1 ELSE 0
               /\ status'[q] = "absent" => invocations'[q] = 0
               /\ state'[q] # None => status'[q] = "completed"
    BY <1>1, <1>6, <1>7 DEF JournalInv, TypeOK, RequestsStand
  <1>8. ASSUME NEW q \in Requests, status'[q] # "absent" PROVE Bound(asked[q])'
    <2>1. CASE q = r
      BY <1>2, <1>3, <1>4, <2>1 DEF Bound
    <2>2. CASE q # r
      BY <1>0, <1>1, <1>3, <1>8, <2>2, BoundStays DEF JournalInv, TypeOK, RequestsStand
    <2> QED BY <2>1, <2>2
  <1>9. RequestsStand'
    BY <1>7, <1>8 DEF RequestsStand
  <1>10. LockStands'
    BY <1>0, <1>1, <1>6, Names DEF JournalInv, TypeOK, LockStands
  <1>11. StatesStand'
    BY <1>1, <1>3, StatesStandOn DEF JournalInv, TypeOK
  <1> QED BY <1>5, <1>9, <1>10, <1>11 DEF JournalInv

LEMMA JournalBegins ==
    ASSUME JournalInv, NEW r \in Requests, Begin(r)
    PROVE  JournalInv'
  <1>1. /\ lock = Free /\ r \in tasks /\ asked[r].op \notin {"release", "rollback"}
        /\ lock' = [holder |-> r, step |-> "working", keys |-> {}]
        /\ invocations' = [invocations EXCEPT ![r] = @ + 1]
        /\ UNCHANGED <<epoch, status, owner, asked, answer, state, gc, tasks, store>>
    BY DEF Begin, Waiting, Invoke, journal
  <1>2. Recorded' = Recorded /\ StatesGrow
    BY <1>1, NothingMade DEF JournalInv
  <1>3. TypeOK'
    <2> HIDE DEF Keys, Payload, Metadata, Tensors
    <2> QED BY <1>1 DEF JournalInv, TypeOK
  <1>4. RequestsStand'
    <2>1. ASSUME NEW q \in Requests, status'[q] # "absent" PROVE Bound(asked[q])'
      BY <1>1, <1>2, <2>1, BoundStays DEF JournalInv, RequestsStand
    <2> QED BY <1>1, <2>1, Names DEF JournalInv, TypeOK, RequestsStand, Free
  <1>5. LockStands'
    BY <1>1, Names DEF LockStands
  <1>6. StatesStand'
    BY <1>1, <1>2, StatesStandOn DEF JournalInv, TypeOK
  <1> QED BY <1>3, <1>4, <1>5, <1>6 DEF JournalInv

\* What a rollback or a release retires.
LEMMA RetireIs ==
    ASSUME JournalInv, NEW r \in Requests, Retire(r)
    PROVE  /\ r \in tasks /\ lock = Free /\ Resolve(r, "ok") /\ Admissible(r)
           /\ store' = store /\ invocations' = [invocations EXCEPT ![r] = @ + 1]
           /\ \E refs \in SUBSET Recorded, phase \in {"dropped", "released"} :
                 /\ \/ asked[r].op = "rollback" /\ refs = asked[r].refs /\ phase = "dropped"
                    \/ asked[r].op = "release" /\ refs = Releasing(r) /\ phase = "released"
                 /\ gc' = gc \cup QueuedKeys(refs) /\ gc' \in SUBSET Keys
                 /\ state' \in [Requests -> Metadata \cup {None}]
                 /\ Retirement(refs, phase) /\ StatesGrow /\ Recorded' = Recorded
  <1>1. /\ r \in tasks /\ lock = Free /\ Resolve(r, "ok") /\ Admissible(r)
        /\ store' = store /\ invocations' = [invocations EXCEPT ![r] = @ + 1]
    BY DEF Retire, Waiting, Invoke
  <1>2. asked[r].refs \subseteq Recorded /\ Releasing(r) \subseteq Recorded
    BY <1>1 DEF JournalInv, RequestsStand, Bound, Releasing, Aliases
  <1>3. PICK refs \in SUBSET Recorded, phase \in {"dropped", "released"} :
           /\ \/ asked[r].op = "rollback" /\ refs = asked[r].refs /\ phase = "dropped"
              \/ asked[r].op = "release" /\ refs = Releasing(r) /\ phase = "released"
           /\ gc' = gc \cup QueuedKeys(refs) /\ state' = Retired(refs, phase)
    BY <1>2 DEF Retire
  <1>4. gc' \in SUBSET Keys
    BY <1>3, QueuedAreKeys DEF JournalInv, TypeOK
  <1>5. TypeOK
    BY DEF JournalInv
  <1>6. /\ state' \in [Requests -> Metadata \cup {None}]
        /\ Retirement(refs, phase) /\ StatesGrow /\ Recorded' = Recorded
    BY <1>3, <1>5, RetiredIs
  <1> QED BY <1>1, <1>3, <1>4, <1>6

LEMMA JournalRetires ==
    ASSUME JournalInv, NEW r \in Requests, Retire(r)
    PROVE  JournalInv'
  <1>1. /\ r \in tasks /\ lock.holder = None /\ Resolve(r, "ok")
        /\ store' = store /\ invocations' = [invocations EXCEPT ![r] = @ + 1]
        /\ gc' \in SUBSET Keys /\ state' \in [Requests -> Metadata \cup {None}]
        /\ StatesGrow /\ Recorded' = Recorded
    BY RetireIs DEF Free
  <1>2. TypeOK'
    BY <1>1, ResolveTypes
  <1>3. RequestsStand' /\ LockStands'
    <2>1. \A q \in Requests \ {r} : invocations'[q] = invocations[q]
      BY <1>1 DEF JournalInv, TypeOK
    <2> QED BY <1>1, <2>1, ResolveIs
  <1>4. StatesStand'
    <2>1. epoch' = epoch /\ epoch \in Nat
      BY <1>1, Names DEF Resolve, JournalInv, TypeOK
    <2> QED BY <1>1, <2>1, StatesStandOn
  <1> QED BY <1>2, <1>3, <1>4 DEF JournalInv

\* A refusal, with or without the lock, leaves the States alone.
LEMMA JournalRefuses ==
    ASSUME JournalInv, NEW r \in Requests, Refuse(r) \/ Reject(r)
    PROVE  JournalInv'
  <1>1. /\ r \in tasks /\ lock.holder \in {None, r} /\ Resolve(r, "refused")
        /\ UNCHANGED <<state, gc, store>>
        /\ invocations' \in {invocations, [invocations EXCEPT ![r] = @ + 1]}
    BY Names DEF Refuse, Reject, Waiting, Working, Invoke, Free, JournalInv, LockStands
  <1>2. gc' \in SUBSET Keys /\ state' \in [Requests -> Metadata \cup {None}]
    BY <1>1 DEF JournalInv, TypeOK
  <1>3. StatesGrow /\ Recorded' = Recorded
    BY <1>1, NothingMade DEF JournalInv
  <1>4. TypeOK'
    BY <1>1, <1>2, ResolveTypes
  <1>5. RequestsStand' /\ LockStands'
    <2>1. \A q \in Requests \ {r} : invocations'[q] = invocations[q]
      BY <1>1 DEF JournalInv, TypeOK
    <2> QED BY <1>1, <1>3, <2>1, ResolveIs
  <1>6. StatesStand'
    <2>1. epoch' = epoch /\ epoch \in Nat
      BY <1>1, Names DEF Resolve, JournalInv, TypeOK
    <2> QED BY <1>3, <2>1, StatesStandOn
  <1> QED BY <1>4, <1>5, <1>6 DEF JournalInv

\* What a completion records: a commit, or a new State.
LEMMA CompleteIs ==
    ASSUME JournalInv, NEW r \in Requests, Complete(r)
    PROVE  /\ r \in tasks /\ lock.holder = r /\ lock.step = "exported" /\ Resolve(r, "ok")
           /\ UNCHANGED <<gc, store, invocations>> /\ asked[r].op \notin {"release", "rollback"}
           /\ state' \in [Requests -> Metadata \cup {None}] /\ StatesGrow
           /\ \/ /\ asked[r].op = "commit" /\ Recorded' = Recorded
                 /\ \E s \in Recorded :
                       /\ asked[r].refs = {s} /\ \A t \in Requests \ {s} : state'[t] = state[t]
                       /\ state'[s].committed /\ state'[s].phase = state[s].phase
              \/ /\ asked[r].op # "commit" /\ r \notin Recorded /\ Recorded' = Recorded \cup {r}
                 /\ \A s \in Requests \ {r} : state'[s] = state[s]
                 /\ state'[r] \in Metadata /\ state'[r].key = Digest(r) /\ state'[r].phase = "live"
                 /\ state'[r].committed <=> asked[r].op # "generate"
                 /\ asked[r].op = "generate" => /\ asked[r].refs = {state'[r].parent}
                                                /\ state'[r].parent \in Recorded
                 /\ state'[r].epoch = IF Persistent THEN 0 ELSE epoch
  <1>1. /\ lock.holder = r /\ lock.step = "exported" /\ Resolve(r, "ok")
        /\ UNCHANGED <<gc, store, invocations>>
    BY DEF Complete, Working
  <1>2. r \in tasks /\ asked[r].op \notin {"release", "rollback"} /\ status[r] = "pending" /\ TypeOK
    BY <1>1, Names DEF JournalInv, LockStands, RequestsStand
  <1>3. CASE asked[r].op = "commit"
    <2>1. PICK s \in Recorded : asked[r].refs = {s}
      BY <1>2, <1>3 DEF JournalInv, RequestsStand, Bound
    <2>2. state' = [t \in Requests |-> IF t \in {s} THEN [state[t] EXCEPT !.committed = TRUE] ELSE state[t]]
      BY <1>3, <2>1 DEF Complete
    <2>3. /\ state' \in [Requests -> Metadata \cup {None}]
          /\ \A t \in Requests \ {s} : state'[t] = state[t]
          /\ state'[s].committed /\ state'[s].phase = state[s].phase
          /\ StatesGrow /\ Recorded' = Recorded
      BY <1>2, <2>2, CommittedIs
    <2> QED BY <1>1, <1>2, <1>3, <2>1, <2>3
  <1>4. CASE asked[r].op # "commit"
    <2>1. state' = [state EXCEPT ![r] = Made(r)]
      BY <1>4 DEF Complete
    <2> QED BY <1>1, <1>2, <1>4, <2>1, MadeIs
  <1> QED BY <1>3, <1>4

\* A State that was just made: its key ends with what it added, or is the key of a
\* State that is already known.
LEMMA JournalCompletes ==
    ASSUME JournalInv, HolderStands, NEW r \in Requests, Complete(r)
    PROVE  JournalInv'
  <1>1. /\ r \in tasks /\ lock.holder = r /\ Resolve(r, "ok")
        /\ UNCHANGED <<gc, store, invocations>>
        /\ state' \in [Requests -> Metadata \cup {None}] /\ StatesGrow
        /\ Recorded \subseteq Recorded' /\ \A s \in Recorded' : s \in Recorded \cup {r}
    BY CompleteIs
  <1>2. TypeOK'
    <2>1. gc' \in SUBSET Keys
      BY <1>1 DEF JournalInv, TypeOK
    <2> QED BY <1>1, <2>1, ResolveTypes
  <1>3. RequestsStand' /\ LockStands'
    BY <1>1, ResolveIs
  <1>0. epoch' = epoch /\ epoch \in Nat /\ 0 \in 0..epoch /\ epoch \in 0..epoch
    BY <1>1, Names DEF Resolve, JournalInv, TypeOK
  <1>4. StatesStand'
    <2>1. CASE Recorded' = Recorded
      BY <1>0, <1>1, <2>1, StatesStandOn
    <2>2. CASE Recorded' # Recorded
      <3>1. /\ asked[r].op \notin {"commit", "release", "rollback"}
            /\ r \notin Recorded /\ Recorded' = Recorded \cup {r}
            /\ \A s \in Requests \ {r} : state'[s] = state[s]
            /\ state'[r] \in Metadata /\ state'[r].key = Digest(r)
            /\ state'[r].committed <=> asked[r].op # "generate"
            /\ asked[r].op = "generate" => state'[r].parent \in Recorded
            /\ state'[r].epoch = IF Persistent THEN 0 ELSE epoch
        BY <2>2, CompleteIs
      <3>2. status[r] # "absent" /\ Bound(asked[r]) /\ r \in Requests
        BY <1>1 DEF JournalInv, RequestsStand
      <3>3. /\ Digest(r) # << >>
            /\ asked[r].op \in {"create", "append"} => LastOf(Digest(r)) \in Contents
            /\ asked[r].op = "generate" => LastOf(Digest(r)) = r
            /\ asked[r].op \notin {"create", "append", "generate"} =>
                  \E s \in Recorded : asked[r].refs = {s} /\ Digest(r) = state[s].key
        BY <3>1, <3>2, DigestIs
      <3>4. state'[r].epoch \in 0..epoch'
        BY <1>0, <3>1
      <3>5. asked[r].op \notin {"create", "append", "generate"} => asked[r].op = "import"
        BY <3>1, <3>2 DEF Bound, Payload, NATIVE_REQUEST_OPERATIONS
      <3>6. ASSUME asked[r].op = "import", LastOf(Digest(r)) \notin Contents
            PROVE  LastOf(Digest(r)) \in Recorded /\ state[LastOf(Digest(r))].committed
        <4>1. PICK s \in Recorded : asked[r].refs = {s} /\ Digest(r) = state[s].key
          BY <3>3, <3>6
        <4>2. state[s].committed
          BY <1>1, <3>6, <4>1 DEF HolderStands
        <4> QED BY <3>6, <4>1, <4>2 DEF JournalInv, StatesStand
      <3>7. /\ LastOf(Digest(r)) \notin Contents =>
                  /\ LastOf(Digest(r)) \in Recorded'
                  /\ LastOf(Digest(r)) = r \/ state'[LastOf(Digest(r))].committed
            /\ ~state'[r].committed => LastOf(Digest(r)) = r
        BY <3>1, <3>3, <3>5, <3>6 DEF Recorded
      <3>8. ASSUME NEW s \in Recorded
            PROVE  /\ state'[s] = state[s] /\ state[s].epoch \in 0..epoch'
                   /\ state[s].key # << >>
                   /\ LastOf(state[s].key) \notin Contents =>
                         /\ LastOf(state[s].key) \in Recorded
                         /\ LastOf(state[s].key) = s \/ state'[LastOf(state[s].key)].committed
                   /\ ~state[s].committed => LastOf(state[s].key) = s /\ state[s].parent \in Recorded
        BY <1>0, <3>1, <3>8 DEF JournalInv, StatesStand, Recorded
      <3> QED BY <3>1, <3>3, <3>4, <3>7, <3>8 DEF StatesStand
    <2> QED BY <2>1, <2>2
  <1> QED BY <1>2, <1>3, <1>4 DEF JournalInv

LEMMA JournalExports ==
    ASSUME JournalInv, NEW r \in Requests, Export(r)
    PROVE  JournalInv'
  <1>1. /\ lock.holder = r /\ lock.step = "working" /\ lock' = [lock EXCEPT !.step = "exported"]
        /\ UNCHANGED <<epoch, status, owner, asked, answer, state, gc, tasks, invocations>>
        /\ store' \subseteq store \cup {[key |-> Digest(r), committed |-> asked[r].op # "generate"]}
    BY DEF Export, Working, journal
  <1>2. r \in tasks /\ asked[r].op # "release" /\ status[r] # "absent"
    BY <1>1, Names DEF JournalInv, LockStands, RequestsStand
  <1>3. Digest(r) \in Keys
    BY <1>2, DigestIs
  <1>4. store' \in SUBSET Tensors
    <2>1. ASSUME NEW k \in Keys, NEW b \in BOOLEAN PROVE [key |-> k, committed |-> b] \in Tensors
      BY DEF Tensors
    <2>2. [key |-> Digest(r), committed |-> asked[r].op # "generate"] \in Tensors
      BY <1>3, <2>1, Zenon
    <2> HIDE DEF Keys, Tensors
    <2> QED BY <1>1, <2>2 DEF JournalInv, TypeOK
  <1>5. TypeOK'
    <2> HIDE DEF Keys, Payload, Metadata, Tensors
    <2> QED BY <1>1, <1>4 DEF JournalInv, TypeOK
  <1>6. Recorded' = Recorded /\ StatesGrow
    BY <1>1, NothingMade DEF JournalInv
  <1>7. lock'.holder = lock.holder /\ lock'.step = "exported" /\ lock'.keys = lock.keys
    BY <1>1 DEF JournalInv, TypeOK
  <1>8. RequestsStand'
    <2>1. ASSUME NEW q \in Requests, status'[q] # "absent" PROVE Bound(asked[q])'
      BY <1>1, <1>6, <2>1, BoundStays DEF JournalInv, RequestsStand
    <2> QED BY <1>1, <1>7, <2>1 DEF JournalInv, RequestsStand
  <1>9. LockStands'
    BY <1>1, <1>2, <1>7, Names DEF JournalInv, LockStands
  <1>10. StatesStand'
    BY <1>1, <1>6, StatesStandOn, Names DEF JournalInv, TypeOK
  <1> QED BY <1>5, <1>8, <1>9, <1>10 DEF JournalInv

LEMMA JournalBreaks ==
    ASSUME JournalInv, NEW r \in Requests, Break(r)
    PROVE  JournalInv'
  <1>1. /\ lock.holder = r /\ status' = [status EXCEPT ![r] = "unknown"] /\ tasks' = tasks \ {r}
        /\ lock' = Free
        /\ UNCHANGED <<epoch, owner, asked, answer, state, gc, store, invocations>>
    BY DEF Break
  <1>2. r \in tasks
    BY <1>1, Names DEF JournalInv, LockStands
  <1>3. TypeOK'
    <2>1. Free \in [holder : Requests \cup {None}, step : {"free", "working", "exported", "sweeping"},
                    keys : SUBSET Keys]
      BY DEF Free
    <2> HIDE DEF Keys, Payload, Metadata, Tensors, Free
    <2> QED BY <1>1, <2>1 DEF JournalInv, TypeOK
  <1>4. Recorded' = Recorded /\ StatesGrow
    BY <1>1, NothingMade DEF JournalInv
  <1>5. RequestsStand'
    <2>1. ASSUME NEW q \in Requests, status'[q] # "absent" PROVE Bound(asked[q])'
      BY <1>1, <1>2, <1>4, <2>1, BoundStays DEF JournalInv, TypeOK, RequestsStand
    <2> QED BY <1>1, <1>2, <2>1, Names DEF JournalInv, TypeOK, RequestsStand, Free
  <1>6. LockStands'
    BY <1>1 DEF LockStands, Free
  <1>7. StatesStand'
    BY <1>1, <1>4, StatesStandOn, Names DEF JournalInv, TypeOK
  <1> QED BY <1>3, <1>5, <1>6, <1>7 DEF JournalInv

\* A sweep touches the tensors and the queue of keys only.
LEMMA JournalSweeps ==
    ASSUME JournalInv, BeginSweep \/ Sweep
    PROVE  JournalInv'
  <1>1. /\ UNCHANGED <<epoch, status, owner, asked, answer, state, tasks, invocations>>
        /\ gc' \subseteq gc /\ store' \subseteq store
    BY DEF BeginSweep, Sweep, EndSweep, DeleteExport, MarkDeleted, journal, process
  <1>2. lock.holder = None /\ lock'.holder = None
    BY DEF BeginSweep, Sweep, EndSweep, DeleteExport, MarkDeleted, process, Free,
           JournalInv, TypeOK, LockStands
  <1>3. lock'.step \in {"free", "sweeping"} /\ (lock'.step # "sweeping" => lock'.keys = {})
    BY DEF BeginSweep, Sweep, EndSweep, DeleteExport, MarkDeleted, process, Free,
           JournalInv, TypeOK, LockStands
  <1>4. Reclaimable \subseteq Keys
    BY DEF Reclaimable, JournalInv, TypeOK
  <1>5. lock' \in [holder : Requests \cup {None}, step : {"free", "working", "exported", "sweeping"},
                   keys : SUBSET Keys]
    <2>1. lock' \in {[holder |-> None, step |-> "sweeping", keys |-> Reclaimable], Free, lock}
             \/ \E k \in lock.keys : lock' = [lock EXCEPT !.keys = @ \ {k}]
      BY DEF BeginSweep, Sweep, EndSweep, DeleteExport, MarkDeleted, process
    <2> HIDE DEF Keys, Reclaimable
    <2> QED BY <1>4, <2>1 DEF JournalInv, TypeOK, Free
  <1>6. TypeOK'
    <2> HIDE DEF Keys, Payload, Metadata, Tensors
    <2> QED BY <1>1, <1>5 DEF JournalInv, TypeOK
  <1>7. Recorded' = Recorded /\ StatesGrow
    BY <1>1, NothingMade DEF JournalInv
  <1>8. RequestsStand'
    <2>1. ASSUME NEW q \in Requests, status'[q] # "absent" PROVE Bound(asked[q])'
      BY <1>1, <1>7, <2>1, BoundStays DEF JournalInv, RequestsStand
    <2> QED BY <1>1, <1>2, <2>1 DEF JournalInv, RequestsStand
  <1>9. LockStands'
    BY <1>2, <1>3 DEF LockStands
  <1>10. StatesStand'
    BY <1>1, <1>7, StatesStandOn, Names DEF JournalInv, TypeOK
  <1> QED BY <1>6, <1>8, <1>9, <1>10 DEF JournalInv

LEMMA JournalRestarts ==
    ASSUME JournalInv, Restart
    PROVE  JournalInv'
  <1>1. /\ epoch < MaxRestarts /\ epoch' = epoch + 1 /\ tasks' = {} /\ lock' = Free
        /\ store' \subseteq store
        /\ UNCHANGED <<status, owner, asked, answer, state, gc, invocations>>
    BY DEF Restart, journal
  <1>2. epoch \in Nat /\ epoch' \in 0..MaxRestarts /\ epoch <= epoch' /\ epoch' \in Nat
    BY <1>1, Names DEF JournalInv, TypeOK
  <1>3. TypeOK'
    <2>1. Free \in [holder : Requests \cup {None}, step : {"free", "working", "exported", "sweeping"},
                    keys : SUBSET Keys]
      BY DEF Free
    <2> HIDE DEF Keys, Payload, Metadata, Tensors, Free
    <2> QED BY <1>1, <1>2, <2>1 DEF JournalInv, TypeOK
  <1>4. Recorded' = Recorded /\ StatesGrow
    BY <1>1, NothingMade DEF JournalInv
  <1>5. RequestsStand'
    <2>1. ASSUME NEW q \in Requests, status'[q] # "absent" PROVE Bound(asked[q])'
      BY <1>1, <1>4, <2>1, BoundStays DEF JournalInv, RequestsStand
    <2>2. ASSUME NEW q \in Requests PROVE owner[q] \in 0..epoch'
      BY <1>2 DEF JournalInv, RequestsStand
    <2> QED BY <1>1, <2>1, <2>2 DEF JournalInv, RequestsStand
  <1>6. LockStands'
    BY <1>1 DEF LockStands, Free
  <1>7. StatesStand'
    BY <1>2, <1>4, StatesStandOn
  <1> QED BY <1>3, <1>5, <1>6, <1>7 DEF JournalInv

\* Every step of the journal.
LEMMA JournalSteps ==
    ASSUME JournalInv, HolderStands, [Next]_vars
    PROVE  JournalInv'
  <1>1. CASE UNCHANGED vars
    <2>1. UNCHANGED <<epoch, status, owner, asked, answer, state, gc, tasks, lock, store, invocations>>
      BY <1>1 DEF vars, journal, process
    <2>2. Recorded' = Recorded /\ TypeOK'
      BY <2>1 DEF Recorded, JournalInv, TypeOK
    <2>3. \A q \in Requests : Bound(asked[q])' <=> Bound(asked[q])
      BY <2>1 DEF Bound, Recorded
    <2> QED BY <2>1, <2>2, <2>3 DEF JournalInv, RequestsStand, LockStands, StatesStand
  <1> QED
    BY <1>1, JournalClaims, JournalBegins, JournalRetires, JournalRefuses, JournalCompletes,
       JournalExports, JournalBreaks, JournalSweeps, JournalRestarts
    DEF Next, Serve, Proceed

-----------------------------------------------------------------------------
(* What requests wait for.                                                 *)

\* A step that is no claim: no request is new, and no State forgets anything.
GoesOn ==
    /\ StatesGrow /\ Recorded \subseteq Recorded'
    /\ \A q \in Requests : Unresolved(q)' => Unresolved(q) /\ asked'[q] = asked[q]

LEMMA OthersGoOn ==
    ASSUME JournalInv, [Next]_vars
    PROVE  GoesOn \/ \E r \in Requests : Claim(r)
  <1>1. ASSUME NEW r \in Requests, Retire(r) PROVE GoesOn
    <2>1. StatesGrow /\ Recorded' = Recorded /\ Resolve(r, "ok")
      BY <1>1, RetireIs
    <2> QED BY <2>1 DEF GoesOn, Resolve, Unresolved, JournalInv, TypeOK
  <1>2. ASSUME NEW r \in Requests, Complete(r) PROVE GoesOn
    <2>1. StatesGrow /\ Recorded \subseteq Recorded' /\ Resolve(r, "ok")
      BY <1>2, CompleteIs
    <2> QED BY <2>1 DEF GoesOn, Resolve, Unresolved, JournalInv, TypeOK
  <1>3. ASSUME UNCHANGED <<state, asked>>, \A q \in Requests : Unresolved(q)' => Unresolved(q)
        PROVE  GoesOn
    <2>1. StatesGrow /\ Recorded' = Recorded
      BY <1>3, NothingMade DEF JournalInv
    <2> QED BY <1>3, <2>1 DEF GoesOn
  <1>4. ASSUME NEW r \in Requests, Refuse(r) \/ Reject(r) PROVE GoesOn
    <2>1. UNCHANGED <<state, asked>> /\ status' = [status EXCEPT ![r] = "completed"]
      BY <1>4 DEF Refuse, Reject, Resolve
    <2>2. \A q \in Requests : Unresolved(q)' => Unresolved(q)
      BY <2>1 DEF Unresolved, JournalInv, TypeOK
    <2> QED BY <1>3, <2>1, <2>2
  <1>5. ASSUME NEW r \in Requests, Break(r) PROVE GoesOn
    <2>1. status[r] = "pending"
      BY <1>5, Names DEF Break, JournalInv, LockStands, RequestsStand
    <2>2. UNCHANGED <<state, asked>> /\ status' = [status EXCEPT ![r] = "unknown"]
      BY <1>5 DEF Break
    <2>3. \A q \in Requests : Unresolved(q)' => Unresolved(q)
      BY <2>1, <2>2 DEF Unresolved, JournalInv, TypeOK
    <2> QED BY <1>3, <2>2, <2>3
  <1>6. CASE BeginSweep \/ Sweep \/ Restart \/ UNCHANGED vars \/ \E r \in Requests : Begin(r) \/ Export(r)
    <2>1. UNCHANGED <<state, asked, status>>
      BY <1>6 DEF BeginSweep, Sweep, EndSweep, DeleteExport, MarkDeleted, Restart, Begin, Export, journal, vars
    <2> QED BY <1>3, <2>1 DEF Unresolved
  <1> QED BY <1>1, <1>2, <1>4, <1>5, <1>6 DEF Next, Serve, Proceed

\* A request that waits pins the same States and would make the same tensors after the step.
LEMMA WaitingIsSame ==
    ASSUME JournalInv, StatesGrow, NEW r \in Requests, status[r] # "absent", asked'[r] = asked[r]
    PROVE  /\ Pinned(r)' = Pinned(r)
           /\ asked[r].op # "release" => Digest(r)' = Digest(r)
  <1>1. Bound(asked[r])
    BY DEF JournalInv, RequestsStand
  <1>2. \A s \in asked[r].refs : state'[s].parent = state[s].parent /\ state'[s].key = state[s].key
    BY <1>1 DEF Bound, StatesGrow
  <1>3. Pinned(r)' = Pinned(r)
    BY <1>2 DEF Pinned, Inputs
  <1>4. ASSUME asked[r].op # "release" PROVE Digest(r)' = Digest(r)
    <2>1. CASE asked[r].op = "create"
      BY <2>1 DEF Digest
    <2>2. CASE asked[r].op # "create"
      <3>1. PICK s \in Recorded : asked[r].refs = {s}
        BY <1>1, <1>4, <2>2 DEF Bound
      <3>2. (CHOOSE t \in asked[r].refs : TRUE) = s /\ (CHOOSE t \in asked'[r].refs : TRUE) = s
        BY <3>1
      <3>3. state'[s].key = state[s].key
        BY <1>2, <3>1
      <3>4. CASE asked[r].op = "append"
        BY <3>2, <3>3, <3>4 DEF Digest
      <3>5. CASE asked[r].op = "generate"
        BY <3>2, <3>3, <3>5 DEF Digest
      <3>6. CASE asked[r].op \notin {"append", "generate"}
        BY <2>2, <3>2, <3>3, <3>6 DEF Digest
      <3> QED BY <3>4, <3>5, <3>6
    <2> QED BY <2>1, <2>2
  <1> QED BY <1>3, <1>4

LEMMA LiveShrinks ==
    ASSUME StatesGrow
    PROVE  Live' \cap Recorded \subseteq Live
  BY DEF StatesGrow, Live

\* Nothing becomes needed but the State that is made.
LEMMA NeededShrinks ==
    ASSUME JournalInv, NeedsStand, [Next]_vars
    PROVE  Needed' \cap Recorded \subseteq Needed /\ Needed' \subseteq Needed \cup Recorded'
  <1>1. ASSUME GoesOn, NEW r \in Requests, Unresolved(r)', asked'[r].op # "release"
        PROVE  Pinned(r)' \subseteq Needed
    <2>1. Unresolved(r) /\ asked'[r] = asked[r] /\ StatesGrow
      BY <1>1 DEF GoesOn
    <2>2. Pinned(r)' = Pinned(r)
      BY <2>1, WaitingIsSame DEF Unresolved
    <2> QED BY <1>1, <2>1, <2>2 DEF Needed
  <1>2. CASE GoesOn
    <2>1. Live' \cap Recorded \subseteq Live
      BY <1>2, LiveShrinks DEF GoesOn
    <2> QED BY <1>1, <1>2, <2>1 DEF Needed, Live
  <1>3. ASSUME NEW r \in Requests, Claim(r)
        PROVE  Needed' \subseteq Needed
    <2>1. PICK p \in Requestable :
             /\ p.op # "release" => Inputs(p) \subseteq Live
             /\ asked' = [asked EXCEPT ![r] = p]
      BY <1>3 DEF Claim
    <2>2. status[r] = "absent" /\ status' = [status EXCEPT ![r] = "pending"] /\ state' = state
      BY <1>3 DEF Claim
    <2>3. Live' = Live
      BY <2>2 DEF Live, Recorded
    <2>4. ASSUME NEW q \in Requests, Unresolved(q)', asked'[q].op # "release"
          PROVE  Pinned(q)' \subseteq Needed
      <3>1. CASE q = r
        <4>1. asked'[r] = p /\ Pinned(r)' = Inputs(p)
          BY <2>1, <2>2 DEF JournalInv, TypeOK, Pinned, Inputs
        <4> QED BY <2>1, <2>4, <3>1, <4>1 DEF Needed
      <3>2. CASE q # r
        <4>1. Unresolved(q) /\ asked'[q] = asked[q]
          BY <2>1, <2>2, <2>4, <3>2 DEF Unresolved, JournalInv, TypeOK
        <4>2. Pinned(q)' = Pinned(q)
          BY <2>2, <4>1 DEF Pinned, Inputs
        <4> QED BY <2>4, <4>1, <4>2 DEF Needed
      <3> QED BY <3>1, <3>2
    <2> QED BY <2>3, <2>4 DEF Needed
  <1> QED BY <1>2, <1>3, OthersGoOn DEF Live

\* The holder of the lock is the request that took it, and nobody moves its States meanwhile.
LEMMA HolderStep ==
    ASSUME JournalInv, HolderStands, [Next]_vars
    PROVE  HolderStands'
  <1>1. CASE lock' = lock /\ UNCHANGED <<state, store>> /\ \A q \in tasks : asked'[q] = asked[q]
    <2>1. ASSUME NEW r \in Requests, lock'.holder = r
          PROVE  /\ asked'[r].op = "import" => \A s \in asked'[r].refs : state'[s].committed
                 /\ asked'[r].op = "commit" => asked'[r].refs \subseteq Live'
                 /\ lock'.step = "exported" =>
                       [key |-> Digest(r)', committed |-> asked'[r].op # "generate"] \in store'
      <3>1. asked'[r] = asked[r] /\ lock.holder = r
        BY <1>1, <2>1, Names DEF JournalInv, LockStands
      <3>2. Digest(r)' = Digest(r) /\ Live' = Live
        BY <1>1, <3>1 DEF Digest, Live, Recorded
      <3> QED BY <1>1, <3>1, <3>2 DEF HolderStands
    <2> QED BY <2>1 DEF HolderStands
  <1>2. ASSUME NEW r \in Requests, Claim(r) PROVE HolderStands'
    <2>1. lock' = lock /\ UNCHANGED <<state, store>> /\ \A q \in tasks : asked'[q] = asked[q]
      BY <1>2 DEF Claim, JournalInv, TypeOK, RequestsStand
    <2> QED BY <1>1, <2>1
  <1>3. ASSUME NEW r \in Requests, Begin(r) PROVE HolderStands'
    <2>1. /\ Admissible(r) /\ lock' = [holder |-> r, step |-> "working", keys |-> {}]
          /\ UNCHANGED <<asked, state>>
      BY <1>3 DEF Begin, journal
    <2>2. /\ asked[r].op = "import" => \A s \in asked[r].refs : state[s].committed
          /\ asked[r].op = "commit" => asked[r].refs \subseteq Live
      BY <2>1 DEF Admissible, Usable
    <2>3. Live' = Live
      BY <2>1 DEF Live, Recorded
    <2> QED BY <2>1, <2>2, <2>3 DEF HolderStands
  <1>4. ASSUME NEW r \in Requests, Export(r) PROVE HolderStands'
    <2>1. /\ lock.holder = r /\ lock' = [lock EXCEPT !.step = "exported"]
          /\ UNCHANGED <<asked, state>>
      BY <1>4 DEF Export, Working, journal
    <2>2. [key |-> Digest(r), committed |-> asked[r].op # "generate"] \in store'
      <3>1. CASE asked[r].op = "import"
        <4>1. asked[r].op # "generate" <=> TRUE
          BY <3>1
        <4>2. [key |-> Digest(r), committed |-> TRUE] \in store /\ store' = store
          BY <1>4, <3>1 DEF Export
        <4>3. (asked[r].op # "generate") = TRUE
          BY <4>1, Zenon
        <4> QED BY <4>2, <4>3, Zenon
      <3>2. CASE asked[r].op # "import"
        BY <1>4, <3>2, Zenon DEF Export
      <3> QED BY <3>1, <3>2
    <2>3. Live' = Live /\ Digest(r)' = Digest(r)
      BY <2>1 DEF Live, Recorded, Digest
    <2>4. lock'.holder = r
      BY <2>1 DEF JournalInv, TypeOK
    <2>5. /\ asked'[r].op = "import" => \A s \in asked'[r].refs : state'[s].committed
          /\ asked'[r].op = "commit" => asked'[r].refs \subseteq Live'
      BY <2>1, <2>3 DEF HolderStands
    <2>6. [key |-> Digest(r)', committed |-> asked'[r].op # "generate"] \in store'
      BY <2>1, <2>2, <2>3, Zenon
    <2> QED BY <2>4, <2>5, <2>6, Zenon DEF HolderStands
  <1>5. CASE lock'.holder = None
    BY <1>5, Names DEF HolderStands
  <1>6. ASSUME NEW r \in Requests, Retire(r) \/ Refuse(r) \/ Reject(r) \/ Complete(r) \/ Break(r)
        PROVE  HolderStands'
    BY <1>5, <1>6 DEF Retire, Refuse, Reject, Complete, Break, Resolve, Free
  <1>7. CASE BeginSweep \/ Sweep \/ Restart
    <2>1. lock'.holder = None
      BY <1>7 DEF BeginSweep, Sweep, EndSweep, DeleteExport, MarkDeleted, Restart, process, Free,
          JournalInv, TypeOK, LockStands
    <2> QED BY <1>5, <2>1
  <1>8. CASE UNCHANGED vars
    BY <1>1, <1>8 DEF vars, journal, process
  <1> QED BY <1>2, <1>3, <1>4, <1>6, <1>7, <1>8 DEF Next, Serve, Proceed

LEMMA MutatorsStep ==
    ASSUME JournalInv, MutatorsStand, [Next]_vars
    PROVE  MutatorsStand'
  <1>1. CASE GoesOn
    BY <1>1 DEF GoesOn, MutatorsStand
  <1>2. ASSUME NEW r \in Requests, Claim(r) PROVE MutatorsStand'
    <2>1. PICK p \in Requestable :
             /\ p.op \in {"commit", "rollback"} => \A s \in p.refs : Mutating(s) = {}
             /\ asked' = [asked EXCEPT ![r] = p]
      BY <1>2 DEF Claim
    <2>2. /\ \A q \in Requests \ {r} : asked'[q] = asked[q] /\ (Unresolved(q)' => Unresolved(q))
          /\ asked'[r] = p
      BY <1>2, <2>1 DEF Claim, Unresolved, JournalInv, TypeOK
    <2>3. ASSUME p.op \in {"commit", "rollback"},
                 NEW q \in Requests, Unresolved(q), asked[q].op \in {"commit", "rollback"}
          PROVE  asked[q].refs # p.refs
      <3>1. PICK s \in Recorded : p.refs = {s}
        BY <2>3 DEF Requestable
      <3> QED BY <2>1, <2>3, <3>1 DEF Mutating
    <2> QED BY <2>2, <2>3 DEF MutatorsStand
  <1> QED BY <1>1, <1>2, OthersGoOn

\* What a release or a rollback retires is needed by nobody else.
LEMMA RetiredUnneeded ==
    ASSUME JournalInv, NeedsStand, NEW r \in Requests, Retire(r), NEW s \in Needed', asked[r].op = "release"
    PROVE  s \notin Releasing(r) /\ state'[s] = state[s]
  <1>1. /\ validate_release(Releasing(r), r) /\ Resolve(r, "ok") /\ state' = Retired(Releasing(r), "released")
    BY DEF Retire, Admissible
  <1>2. /\ s \in Live' => state'[s].phase = "live"
    BY DEF Live
  <1>3. PICK refs \in SUBSET Recorded, phase \in {"dropped", "released"} :
           refs = Releasing(r) /\ phase = "released" /\ Retirement(refs, phase) /\ StatesGrow /\ Recorded' = Recorded
    BY RetireIs
  <1>4. s \in Live' => s \notin Releasing(r)
    BY <1>2, <1>3 DEF Retirement, Live, Recorded
  <1>5. ASSUME NEW q \in Requests, Unresolved(q)', asked'[q].op # "release", s \in Pinned(q)'
        PROVE  s \notin Releasing(r) /\ s \in Recorded
    <2>1. q # r /\ asked'[q] = asked[q] /\ Unresolved(q)
      BY <1>1, <1>5 DEF Resolve, Unresolved, JournalInv, TypeOK
    <2>2. Pinned(q)' = Pinned(q)
      BY <1>3, <2>1, WaitingIsSame DEF Unresolved
    <2>3. s \in Needed
      BY <1>5, <2>1, <2>2 DEF Needed
    <2> QED BY <1>1, <1>5, <2>1, <2>2, <2>3 DEF validate_release, NeedsStand
  <1>6. s \notin Releasing(r) /\ s \in Requests
    BY <1>3, <1>4, <1>5 DEF Needed, Live, Recorded
  <1> QED BY <1>3, <1>6 DEF Retirement

\* Steps that retire nothing, make nothing and delete nothing.
LEMMA NeedsStay ==
    ASSUME JournalInv, JournalInv', NeedsStand, [Next]_vars, state' = state, lock'.keys \subseteq lock.keys,
           Persistent \/ epoch' = epoch => \A b \in store : \E c \in store' : c.key = b.key,
           epoch <= epoch'
    PROVE  NeedsStand'
  <1>1. Needed' \subseteq Needed /\ Recorded' = Recorded /\ Live' = Live
    BY NeededShrinks DEF Live, Recorded
  <1>2. ASSUME NEW s \in Needed', Resident(s)'
        PROVE  \E b \in store' : b.key = state[s].key
    <2>1. s \in Recorded
      BY <1>1, <1>2 DEF NeedsStand
    <2>2. state[s].epoch \in 0..epoch /\ epoch \in Nat /\ epoch' \in Nat
      BY <2>1, Names DEF JournalInv, StatesStand, TypeOK
    <2>3. Persistent \/ epoch' = epoch
      BY <1>1, <1>2, <2>2 DEF Resident
    <2>4. Resident(s)
      BY <1>2, <2>3 DEF Resident
    <2> QED BY <1>1, <1>2, <2>3, <2>4 DEF NeedsStand
  <1> QED BY <1>1, <1>2 DEF NeedsStand

LEMMA NeedsStep ==
    ASSUME JournalInv, HolderStands, NeedsStand, [Next]_vars
    PROVE  NeedsStand'
  <1>0. JournalInv' /\ epoch \in Nat
    BY JournalSteps, Names DEF JournalInv, TypeOK
  <1>1. ASSUME NEW r \in Requests, Claim(r) \/ Begin(r) \/ Refuse(r) \/ Reject(r) \/ Break(r)
        PROVE  NeedsStand'
    <2>1. UNCHANGED <<state, store, epoch>> /\ lock'.keys \subseteq lock.keys
      BY <1>1 DEF Claim, Begin, Refuse, Reject, Break, Resolve, Free, journal
    <2> QED BY <1>0, <2>1, NeedsStay
  <1>2. ASSUME NEW r \in Requests, Export(r) PROVE NeedsStand'
    <2>1. UNCHANGED <<state, epoch>> /\ lock'.keys \subseteq lock.keys
      BY <1>2 DEF Export, journal, JournalInv, TypeOK
    <2>2. ASSUME NEW b \in store PROVE \E c \in store' : c.key = b.key
      <3>1. CASE asked[r].op = "import"
        BY <1>2, <3>1 DEF Export
      <3>2. CASE asked[r].op # "import"
        <4>1. PICK c : c.key = Digest(r) /\ store' = {t \in store : t.key # Digest(r)} \cup {c}
          BY <1>2, <3>2 DEF Export
        <4> QED BY <4>1
      <3> QED BY <3>1, <3>2
    <2> QED BY <1>0, <2>1, <2>2, NeedsStay
  <1>3. CASE EndSweep \/ Restart \/ UNCHANGED vars \/ \E k \in lock.keys : MarkDeleted(k)
    <2>1. /\ state' = state /\ lock'.keys \subseteq lock.keys /\ epoch <= epoch'
          /\ Persistent \/ epoch' = epoch => store' = store
      <3>1. CASE EndSweep \/ Restart \/ UNCHANGED vars
        BY <1>0, <3>1 DEF EndSweep, Restart, vars, journal, process, Free
      <3>2. ASSUME NEW k \in lock.keys, MarkDeleted(k)
            PROVE  /\ UNCHANGED <<state, store, epoch>> /\ lock'.keys = lock.keys \ {k}
        BY <3>2 DEF MarkDeleted, JournalInv, TypeOK
      <3> QED BY <1>0, <1>3, <3>1, <3>2
    <2> QED BY <1>0, <2>1, NeedsStay
  <1>4. CASE BeginSweep
    <2>1. /\ lock' = [holder |-> None, step |-> "sweeping", keys |-> Reclaimable]
          /\ UNCHANGED <<epoch, status, owner, asked, answer, state, gc, tasks, store, invocations>>
      BY <1>4 DEF BeginSweep, journal
    <2>2. Needed' = Needed /\ Live' = Live /\ Recorded' = Recorded
      BY <2>1 DEF Needed, Live, Recorded, Pinned, Inputs, Unresolved
    <2>3. ASSUME NEW s \in Needed PROVE state[s].key \notin Reclaimable
      BY <2>3 DEF Needed, Reclaimable, PinnedKeys
    <2> QED BY <2>1, <2>2, <2>3 DEF NeedsStand, Resident
  <1>5. ASSUME NEW k \in lock.keys, DeleteExport(k) PROVE NeedsStand'
    <2>1. /\ store' = {b \in store : b.key # k}
          /\ UNCHANGED <<epoch, status, owner, asked, answer, state, gc, tasks, lock, invocations>>
      BY <1>5 DEF DeleteExport, journal, process
    <2>2. Needed' = Needed /\ Live' = Live /\ Recorded' = Recorded
      BY <2>1 DEF Needed, Live, Recorded, Pinned, Inputs, Unresolved
    <2>3. ASSUME NEW s \in Needed PROVE state[s].key # k
      BY <1>5, <2>3 DEF NeedsStand
    <2> QED BY <2>1, <2>2, <2>3 DEF NeedsStand, Resident
  <1>6. ASSUME NEW r \in Requests, Retire(r) PROVE NeedsStand'
    <2>1. PICK refs \in SUBSET Recorded, phase \in {"dropped", "released"} :
             /\ \/ asked[r].op = "rollback" /\ refs = asked[r].refs /\ phase = "dropped"
                \/ asked[r].op = "release" /\ refs = Releasing(r) /\ phase = "released"
             /\ Retirement(refs, phase) /\ StatesGrow /\ Recorded' = Recorded
      BY <1>6, RetireIs
    <2>2. store' = store /\ epoch' = epoch /\ lock'.keys = {} /\ Admissible(r)
      BY <1>6, RetireIs DEF Resolve, Free
    <2>3. Needed' \subseteq Needed /\ Live' \subseteq Live
      BY <2>1, NeededShrinks, LiveShrinks DEF Live
    <2>4. ASSUME NEW s \in Needed'
          PROVE  state'[s].phase # "released" /\ state'[s].key = state[s].key /\ state'[s].epoch = state[s].epoch
      <3>1. s \in Recorded /\ state[s].phase # "released" /\ s \in Requests
        BY <2>3, <2>4 DEF NeedsStand, Recorded
      <3>2. state'[s].key = state[s].key /\ state'[s].epoch = state[s].epoch
        BY <2>1, <3>1 DEF StatesGrow
      <3>3. CASE phase = "dropped"
        BY <2>1, <3>1, <3>2, <3>3 DEF Retirement
      <3>4. CASE phase = "released"
        <4>1. asked[r].op = "release"
          BY <2>1, <3>4
        <4>2. state'[s] = state[s]
          BY <1>6, <2>4, <4>1, RetiredUnneeded
        <4> QED BY <3>1, <4>2
      <3> QED BY <3>3, <3>4
    <2>5. ASSUME NEW s \in Live', ~state'[s].committed PROVE state'[state'[s].parent].phase # "released"
      <3>1. s \in Live /\ s \in Recorded /\ state'[s].committed = state[s].committed /\ state'[s].parent = state[s].parent
        BY <2>1, <2>3, <2>5 DEF StatesGrow, Retirement, Live, Recorded
      <3>2. state[s].parent \in Requests /\ state[state[s].parent].phase # "released"
        BY <2>5, <3>1 DEF NeedsStand, JournalInv, StatesStand, Recorded
      <3>3. CASE phase = "dropped"
        BY <2>1, <3>1, <3>2, <3>3 DEF Retirement
      <3>4. CASE phase = "released"
        <4>1. asked[r].op = "release" /\ validate_release(Releasing(r), r) /\ refs = Releasing(r)
          BY <2>1, <2>2, <3>4 DEF Admissible
        <4>2. state[s].parent \notin refs
          BY <2>5, <3>1, <4>1 DEF validate_release
        <4> QED BY <2>1, <3>1, <3>2, <4>2 DEF Retirement
      <3> QED BY <3>3, <3>4
    <2>6. ASSUME NEW s \in Needed'
          PROVE  /\ s \in Recorded' /\ state'[s].phase # "released" /\ state'[s].key \notin lock'.keys
                 /\ Resident(s)' => \E b \in store' : b.key = state'[s].key
      BY <2>1, <2>2, <2>3, <2>4, <2>6 DEF NeedsStand, Resident
    <2> QED BY <2>5, <2>6 DEF NeedsStand
  <1>7. ASSUME NEW r \in Requests, Complete(r) PROVE NeedsStand'
    <2>1. /\ r \in tasks /\ lock.holder = r /\ lock.step = "exported" /\ UNCHANGED <<gc, store, epoch>>
          /\ lock'.keys = {} /\ StatesGrow /\ asked[r].op \notin {"release", "rollback"}
      BY <1>7, CompleteIs DEF Resolve, Free
    <2>2. Needed' \subseteq Needed \cup Recorded' /\ Needed' \cap Recorded \subseteq Needed
      BY NeededShrinks
    <2>3. PICK b \in store : b.key = Digest(r)
      <3>1. \A k, v : [key |-> k, committed |-> v].key = k
        OBVIOUS
      <3>2. [key |-> Digest(r), committed |-> asked[r].op # "generate"] \in store
        BY <2>1 DEF HolderStands
      <3> QED BY <3>1, <3>2, Zenon
    <2>4. CASE asked[r].op = "commit"
      <3>1. PICK t \in Recorded :
               /\ asked[r].refs = {t} /\ \A s \in Requests \ {t} : state'[s] = state[s]
               /\ state'[t].committed /\ state'[t].phase = state[t].phase
        BY <1>7, <2>4, CompleteIs
      <3>2. Recorded' = Recorded
        BY <1>7, <2>4, CompleteIs
      <3>3. ASSUME NEW s \in Requests PROVE state'[s].phase = state[s].phase
        BY <3>1
      <3>4. ASSUME NEW s \in Needed'
            PROVE  /\ s \in Recorded' /\ state'[s].phase # "released" /\ state'[s].key \notin lock'.keys
                   /\ Resident(s)' => \E c \in store' : c.key = state'[s].key
        <4>1. s \in Needed /\ s \in Recorded /\ s \in Requests
          BY <2>2, <3>2, <3>4 DEF NeedsStand, Recorded
        <4>2. state'[s].key = state[s].key /\ state'[s].epoch = state[s].epoch
          BY <2>1, <4>1 DEF StatesGrow
        <4> QED BY <2>1, <3>2, <3>3, <4>1, <4>2 DEF NeedsStand, Resident
      <3>5. ASSUME NEW s \in Live', ~state'[s].committed PROVE state'[state'[s].parent].phase # "released"
        <4>1. s \in Recorded /\ s # t /\ s \in Requests
          BY <3>1, <3>2, <3>5 DEF Live, Recorded
        <4>2. state'[s] = state[s] /\ s \in Live
          BY <3>1, <3>5, <4>1 DEF Live
        <4>3. state[s].parent \in Requests /\ state[state[s].parent].phase # "released"
          BY <3>5, <4>1, <4>2 DEF NeedsStand, JournalInv, StatesStand, Recorded
        <4> QED BY <3>3, <4>2, <4>3
      <3> QED BY <3>4, <3>5 DEF NeedsStand
    <2>5. CASE asked[r].op # "commit"
      <3>1. /\ r \notin Recorded /\ Recorded' = Recorded \cup {r}
            /\ \A s \in Requests \ {r} : state'[s] = state[s]
            /\ state'[r].key = Digest(r) /\ state'[r].phase = "live"
            /\ state'[r].committed <=> asked[r].op # "generate"
            /\ asked[r].op = "generate" => asked[r].refs = {state'[r].parent} /\ state'[r].parent \in Recorded
        BY <1>7, <2>5, CompleteIs
      <3>2. ASSUME NEW s \in Needed'
            PROVE  /\ s \in Recorded' /\ state'[s].phase # "released" /\ state'[s].key \notin lock'.keys
                   /\ Resident(s)' => \E c \in store' : c.key = state'[s].key
        <4>1. CASE s = r
          BY <2>1, <2>3, <3>1, <4>1
        <4>2. CASE s # r
          <5>1. s \in Needed
            BY <2>2, <3>1, <3>2, <4>2 DEF NeedsStand
          <5>2. s \in Recorded /\ state'[s] = state[s]
            BY <3>1, <4>2, <5>1 DEF NeedsStand, Recorded
          <5> QED BY <2>1, <3>1, <5>1, <5>2 DEF NeedsStand, Resident
        <4> QED BY <4>1, <4>2
      <3>3. ASSUME NEW s \in Live', ~state'[s].committed PROVE state'[state'[s].parent].phase # "released"
        <4>1. CASE s = r
          <5>1. asked[r].op = "generate"
            BY <3>1, <3>3, <4>1
          <5>2. state'[r].parent \in Pinned(r) /\ Unresolved(r)
            BY <2>1, <3>1, <5>1 DEF Pinned, Inputs, Unresolved, JournalInv, RequestsStand
          <5>3. state'[r].parent \in Needed
            BY <2>1, <5>2 DEF Needed
          <5> QED BY <3>1, <4>1, <5>1, <5>3 DEF NeedsStand, Recorded
        <4>2. CASE s # r
          <5>1. s \in Recorded /\ state'[s] = state[s] /\ s \in Live
            BY <3>1, <3>3, <4>2 DEF Live, Recorded
          <5>2. state[s].parent \in Recorded /\ state[state[s].parent].phase # "released"
            BY <3>3, <5>1 DEF NeedsStand, JournalInv, StatesStand
          <5> QED BY <3>1, <5>1, <5>2 DEF Recorded
        <4> QED BY <4>1, <4>2
      <3> QED BY <3>2, <3>3 DEF NeedsStand
    <2> QED BY <2>4, <2>5
  <1> QED BY <1>1, <1>2, <1>3, <1>4, <1>5, <1>6, <1>7 DEF Next, Serve, Proceed, Sweep

-----------------------------------------------------------------------------
(* The tensors.                                                            *)

\* A request that leaves while it has written nothing leaves its State untouched.
LEMMA UntouchedBefore ==
    ASSUME JournalInv, NEW r \in tasks, ~(lock.holder = r /\ lock.step = "exported"),
           lock.holder \in {None, r}, tasks' = tasks \ {r}, lock'.holder = None, UNCHANGED asked,
           \A q \in Requests \ {r} : status'[q] = status[q], NEW s, Untouched(s)'
    PROVE  Untouched(s)
  <1>1. ASSUME NEW q \in Mutating(s) PROVE q \in tasks /\ ~(lock.holder = q /\ lock.step = "exported")
    <2>1. CASE q = r
      BY <2>1
    <2>2. CASE q # r
      <3>1. q \in Mutating(s)' /\ q \in Requests
        BY <1>1, <2>2 DEF Mutating, Unresolved
      <3>2. q \in tasks /\ q # None
        BY <3>1, Names DEF Untouched
      <3> QED BY <2>2, <3>2
    <2> QED BY <2>1, <2>2
  <1> QED BY <1>1 DEF Untouched

\* The States, and the tensors of those that can load, stay.
LEMMA LoadsStay ==
    ASSUME JournalInv, LoadsStand, state' = state, epoch' = epoch,
           \A s \in Live : Untouched(s)' => Untouched(s),
           \A s \in Live : Untouched(s)' /\ TensorsOf(s) \in store => TensorsOf(s) \in store'
    PROVE  LoadsStand'
  <1>1. Live' = Live
    BY DEF Live, Recorded
  <1>2. ASSUME NEW s \in Live, Resident(s)', Untouched(s)' PROVE TensorsOf(s)' \in store'
    <2>1. Resident(s) /\ TensorsOf(s)' = TensorsOf(s)
      BY <1>2 DEF Resident, TensorsOf
    <2> QED BY <1>2, <2>1 DEF LoadsStand
  <1> QED BY <1>1, <1>2 DEF LoadsStand

\* Writing the tensors of a request spares those of every State it does not decide.
LEMMA ExportSpares ==
    ASSUME JournalInv, NEW r \in Requests, Export(r), asked[r].op # "import",
           NEW s \in Live, Untouched(s)', TensorsOf(s) \in store
    PROVE  TensorsOf(s) \in store'
  <1>1. /\ lock.holder = r /\ lock' = [lock EXCEPT !.step = "exported"]
        /\ UNCHANGED <<asked, state, status, tasks>>
        /\ store' = {t \in store : t.key # Digest(r)} \cup
                     {[key |-> Digest(r), committed |-> asked[r].op # "generate"]}
    BY DEF Export, Working, journal
  <1>2. /\ r \in tasks /\ status[r] = "pending" /\ asked[r].op \notin {"release", "rollback", "import"}
        /\ Bound(asked[r])
    BY <1>1, Names DEF JournalInv, LockStands, RequestsStand
  <1>3. TensorsOf(s).key = state[s].key
    BY DEF TensorsOf
  <1>4. CASE state[s].key # Digest(r)
    BY <1>1, <1>3, <1>4
  <1>5. CASE state[s].key = Digest(r)
    <2>1. s \in Recorded /\ s \in Requests /\ r \notin Recorded
      BY <1>2 DEF Live, Recorded, JournalInv, RequestsStand
    <2>2. /\ asked[r].op \in {"create", "append"} => LastOf(Digest(r)) \in Contents
          /\ asked[r].op = "generate" => LastOf(Digest(r)) = r
          /\ asked[r].op \notin {"create", "append", "generate"} =>
                \E t \in Recorded : asked[r].refs = {t} /\ Digest(r) = state[t].key
      BY <1>2, DigestIs
    <2>3. /\ LastOf(state[s].key) \notin Contents => LastOf(state[s].key) \in Recorded
          /\ ~state[s].committed => LastOf(state[s].key) = s
      BY <2>1 DEF JournalInv, StatesStand
    <2>4. asked[r].op # "generate"
      BY <1>5, <2>1, <2>2, <2>3, Names
    <2>5. state[s].committed
      <3>1. SUFFICES ASSUME ~state[s].committed PROVE FALSE
        OBVIOUS
      <3>2. LastOf(Digest(r)) = s /\ s \notin Contents
        BY <1>5, <2>1, <2>3, <3>1, Names
      <3>3. asked[r].op = "commit"
        BY <1>2, <2>2, <2>4, <3>2 DEF Bound, Payload, NATIVE_REQUEST_OPERATIONS
      <3>4. PICK t \in Recorded : asked[r].refs = {t} /\ Digest(r) = state[t].key
        BY <2>2, <3>3
      <3>5. t = s
        BY <3>1, <3>2, <3>4 DEF JournalInv, StatesStand
      <3>6. r \in Mutating(s)'
        BY <1>1, <1>2, <3>3, <3>4, <3>5 DEF Mutating, Unresolved
      <3>7. lock'.holder = r /\ lock'.step = "exported"
        BY <1>1 DEF JournalInv, TypeOK
      <3> QED BY <3>6, <3>7 DEF Untouched
    <2>6. state[s].committed = TRUE /\ (asked[r].op # "generate") = TRUE
      <3>1. state[s].committed \in BOOLEAN
        BY <2>1, Names DEF JournalInv, TypeOK, Recorded, Metadata
      <3> QED BY <2>4, <2>5, <3>1, Zenon
    <2>7. TensorsOf(s) = [key |-> Digest(r), committed |-> asked[r].op # "generate"]
      BY <1>5, <2>6, Zenon DEF TensorsOf
    <2> QED BY <1>1, <2>7, Zenon
  <1> QED BY <1>4, <1>5

LEMMA LoadsStep ==
    ASSUME JournalInv, HolderStands, NeedsStand, LoadsStand, [Next]_vars
    PROVE  LoadsStand'
  <1>0. JournalInv' /\ epoch \in Nat /\ epoch' \in Nat
    BY JournalSteps, Names DEF JournalInv, TypeOK
  <1>1. ASSUME NEW r \in Requests, Claim(r) PROVE LoadsStand'
    <2>1. /\ UNCHANGED <<epoch, state, lock, store>> /\ tasks' = tasks \cup {r}
          /\ status[r] = "absent" /\ \A q \in Requests \ {r} : status'[q] = status[q] /\ asked'[q] = asked[q]
      BY <1>1 DEF Claim, JournalInv, TypeOK
    <2>2. ASSUME NEW s \in Live, Untouched(s)' PROVE Untouched(s)
      <3>1. ASSUME NEW q \in Mutating(s) PROVE q \in Mutating(s)' /\ q # r
        BY <2>1, <3>1 DEF Mutating, Unresolved
      <3> QED BY <2>1, <2>2, <3>1 DEF Untouched
    <2> QED BY <2>1, <2>2, LoadsStay
  <1>2. ASSUME NEW r \in Requests, Begin(r) PROVE LoadsStand'
    <2>1. UNCHANGED <<epoch, state, status, asked, tasks, store>> /\ lock.holder = None
      BY <1>2 DEF Begin, Waiting, Free, journal
    <2>2. ASSUME NEW s \in Live, Untouched(s)' PROVE Untouched(s)
      <3>1. ASSUME NEW q \in Mutating(s) PROVE q \in Mutating(s)' /\ q # None
        BY <2>1, <3>1, Names DEF Mutating, Unresolved
      <3> QED BY <2>1, <2>2, <3>1 DEF Untouched
    <2> QED BY <2>1, <2>2, LoadsStay
  <1>3. ASSUME NEW r \in Requests, Refuse(r) \/ Reject(r) PROVE LoadsStand'
    <2>1. /\ r \in tasks /\ lock.holder \in {None, r} /\ ~(lock.holder = r /\ lock.step = "exported")
          /\ tasks' = tasks \ {r} /\ lock'.holder = None /\ UNCHANGED <<epoch, asked, state, store>>
          /\ \A q \in Requests \ {r} : status'[q] = status[q]
      BY <1>3, Names DEF Refuse, Reject, Waiting, Working, Resolve, Free, JournalInv, LockStands, TypeOK
    <2>2. ASSUME NEW s \in Live, Untouched(s)' PROVE Untouched(s)
      BY <2>1, <2>2, UntouchedBefore
    <2> QED BY <2>1, <2>2, LoadsStay
  <1>4. ASSUME NEW r \in Requests, Export(r) PROVE LoadsStand'
    <2>1. /\ UNCHANGED <<epoch, state, status, asked, tasks>> /\ lock.holder = r /\ lock.step = "working"
          /\ lock'.holder = r
      BY <1>4 DEF Export, Working, journal, JournalInv, TypeOK
    <2>2. ASSUME NEW s \in Live, Untouched(s)' PROVE Untouched(s)
      <3>1. ASSUME NEW q \in Mutating(s) PROVE q \in Mutating(s)'
        BY <2>1, <3>1 DEF Mutating, Unresolved
      <3> QED BY <2>1, <2>2, <3>1 DEF Untouched
    <2>3. ASSUME NEW s \in Live, Untouched(s)', TensorsOf(s) \in store PROVE TensorsOf(s) \in store'
      <3>1. CASE asked[r].op = "import"
        BY <1>4, <2>3, <3>1 DEF Export
      <3>2. CASE asked[r].op # "import"
        BY <1>4, <2>3, <3>2, ExportSpares
      <3> QED BY <3>1, <3>2
    <2> QED BY <2>1, <2>2, <2>3, LoadsStay
  <1>5. ASSUME NEW r \in Requests, Break(r) PROVE LoadsStand'
    <2>1. /\ UNCHANGED <<epoch, state, asked, store>> /\ lock.holder = r /\ tasks' = tasks \ {r}
          /\ \A q \in Requests : Unresolved(q) => Unresolved(q)'
      BY <1>5 DEF Break, Unresolved, JournalInv, TypeOK
    <2>2. ASSUME NEW s \in Live, Untouched(s)' PROVE Untouched(s)
      <3>1. ASSUME NEW q \in Mutating(s) PROVE q \in Mutating(s)'
        BY <2>1, <3>1 DEF Mutating
      <3> QED BY <2>1, <2>2, <3>1 DEF Untouched
    <2> QED BY <2>1, <2>2, LoadsStay
  <1>6. CASE BeginSweep \/ Sweep \/ UNCHANGED vars
    <2>1. UNCHANGED <<epoch, state, status, asked, tasks>> /\ lock'.holder = lock.holder
      BY <1>6 DEF BeginSweep, Sweep, EndSweep, DeleteExport, MarkDeleted, vars, journal, process, Free,
          JournalInv, TypeOK, LockStands
    <2>2. lock'.step = "exported" => lock.step = "exported"
      BY <1>6 DEF BeginSweep, Sweep, EndSweep, DeleteExport, MarkDeleted, vars, journal, process, Free,
          JournalInv, TypeOK
    <2>3. lock.step = "exported" => lock'.step = "exported"
      BY <1>6 DEF BeginSweep, Sweep, EndSweep, DeleteExport, MarkDeleted, vars, journal, process, Free,
          JournalInv, TypeOK, LockStands
    <2>4. ASSUME NEW s \in Live, Untouched(s)' PROVE Untouched(s)
      <3>1. ASSUME NEW q \in Mutating(s) PROVE q \in Mutating(s)'
        BY <2>1, <3>1 DEF Mutating, Unresolved
      <3> QED BY <2>1, <2>2, <2>3, <2>4, <3>1 DEF Untouched
    <2>5. ASSUME NEW s \in Live, TensorsOf(s) \in store PROVE TensorsOf(s) \in store'
      <3>1. s \in Needed /\ state[s].key \notin lock.keys
        BY <2>5 DEF Needed, NeedsStand
      <3>2. TensorsOf(s).key = state[s].key
        BY DEF TensorsOf
      <3> QED BY <1>6, <2>5, <3>1, <3>2 DEF BeginSweep, Sweep, EndSweep, DeleteExport, MarkDeleted, vars
    <2> QED BY <2>1, <2>4, <2>5, LoadsStay
  <1>7. CASE Restart
    <2>1. epoch' = epoch + 1 /\ tasks' = {} /\ UNCHANGED <<state, status, asked>> /\ (Persistent => store' = store)
      BY <1>7 DEF Restart, journal
    <2>2. ASSUME NEW s \in Live', Resident(s)', Untouched(s)' PROVE TensorsOf(s)' \in store'
      <3>1. s \in Live /\ s \in Recorded
        BY <2>1, <2>2 DEF Live, Recorded
      <3>2. state[s].epoch \in 0..epoch
        BY <3>1 DEF JournalInv, StatesStand
      <3>3. Persistent
        BY <1>0, <2>1, <2>2, <3>2 DEF Resident
      <3>4. Mutating(s) = {}
        BY <2>1, <2>2 DEF Untouched, Mutating, Unresolved
      <3>5. TensorsOf(s) \in store
        BY <3>1, <3>3, <3>4 DEF LoadsStand, Resident, Untouched
      <3> QED BY <2>1, <3>3, <3>5 DEF TensorsOf
    <2> QED BY <2>2 DEF LoadsStand
  <1>8. ASSUME NEW r \in Requests, Retire(r) PROVE LoadsStand'
    <2>1. PICK refs \in SUBSET Recorded, phase \in {"dropped", "released"} :
             Retirement(refs, phase) /\ StatesGrow /\ Recorded' = Recorded
      BY <1>8, RetireIs
    <2>2. /\ r \in tasks /\ lock.holder = None /\ r # None
          /\ tasks' = tasks \ {r} /\ lock'.holder = None /\ UNCHANGED <<epoch, asked, store>>
          /\ \A q \in Requests \ {r} : status'[q] = status[q]
      BY <1>8, RetireIs, Names DEF Resolve, Free, JournalInv, TypeOK
    <2>3. ASSUME NEW s \in Live', Resident(s)', Untouched(s)' PROVE TensorsOf(s)' \in store'
      <3>1. state'[s] = state[s] /\ s \in Live
        BY <2>1, <2>3 DEF Retirement, Live, Recorded
      <3>2. Untouched(s)
        BY <2>2, <2>3, UntouchedBefore
      <3> QED BY <2>2, <2>3, <3>1, <3>2 DEF LoadsStand, Resident, TensorsOf
    <2> QED BY <2>3 DEF LoadsStand
  <1>9. ASSUME NEW r \in Requests, Complete(r) PROVE LoadsStand'
    <2>1. /\ r \in tasks /\ lock.holder = r /\ UNCHANGED <<store, epoch, asked>>
          /\ tasks' = tasks \ {r} /\ lock'.holder = None /\ StatesGrow
          /\ \A q \in Requests \ {r} : status'[q] = status[q]
      BY <1>9, CompleteIs DEF Resolve, Free, JournalInv, TypeOK
    <2>2. [key |-> Digest(r), committed |-> asked[r].op # "generate"] \in store
      BY <1>9, CompleteIs DEF HolderStands
    \* A State that the request does not decide.
    <2>3. ASSUME NEW s \in Live, state'[s] = state[s], r \notin Mutating(s), Resident(s)', Untouched(s)'
          PROVE  TensorsOf(s)' \in store'
      <3>1. ASSUME NEW q \in Mutating(s) PROVE q \in Mutating(s)' /\ q # r
        BY <2>1, <2>3, <3>1 DEF Mutating, Unresolved
      <3>2. Untouched(s)
        BY <2>1, <2>3, <3>1 DEF Untouched
      <3> QED BY <2>1, <2>3, <3>2 DEF LoadsStand, Resident, TensorsOf
    <2>4. CASE asked[r].op = "commit"
      <3>1. PICK t \in Recorded :
               /\ asked[r].refs = {t} /\ \A s \in Requests \ {t} : state'[s] = state[s]
               /\ state'[t].committed /\ state'[t].phase = state[t].phase
        BY <1>9, <2>4, CompleteIs
      <3>2. Recorded' = Recorded
        BY <1>9, <2>4, CompleteIs
      <3>3. ASSUME NEW s \in Live', s # t, Resident(s)', Untouched(s)' PROVE TensorsOf(s)' \in store'
        <4>1. s \in Live /\ state'[s] = state[s] /\ r \notin Mutating(s)
          BY <3>1, <3>2, <3>3 DEF Live, Recorded, Mutating
        <4> QED BY <2>3, <3>3, <4>1
      <3>4. TensorsOf(t)' \in store'
        <4>1. status[r] # "absent" /\ r \in Requests
          BY <2>1 DEF JournalInv, RequestsStand
        <4>2. Digest(r) = state[t].key
          BY <2>4, <3>1, <4>1, DigestIs
        <4>3. state'[t].key = Digest(r) /\ state'[t].committed = TRUE
          <5>1. state'[t].key = state[t].key /\ state'[t] \in Metadata
            BY <2>1, <3>1 DEF StatesGrow
          <5>2. state'[t].committed \in BOOLEAN
            BY <5>1 DEF Metadata
          <5> QED BY <3>1, <4>2, <5>1, <5>2, Zenon
        <4>4. (asked[r].op # "generate") = TRUE
          BY <2>4, Zenon
        <4> QED BY <2>1, <2>2, <4>3, <4>4, Zenon DEF TensorsOf
      <3> QED BY <3>3, <3>4 DEF LoadsStand
    <2>5. CASE asked[r].op # "commit"
      <3>1. /\ r \notin Recorded /\ Recorded' = Recorded \cup {r}
            /\ \A s \in Requests \ {r} : state'[s] = state[s]
            /\ state'[r] \in Metadata /\ state'[r].key = Digest(r) /\ state'[r].phase = "live"
            /\ state'[r].committed <=> asked[r].op # "generate"
        BY <1>9, <2>5, CompleteIs
      <3>2. ASSUME NEW s \in Live', s # r, Resident(s)', Untouched(s)' PROVE TensorsOf(s)' \in store'
        <4>1. s \in Live /\ state'[s] = state[s] /\ r \notin Mutating(s)
          BY <1>9, <2>5, <3>1, <3>2, CompleteIs DEF Live, Recorded, Mutating
        <4> QED BY <2>3, <3>2, <4>1
      <3>3. TensorsOf(r)' \in store'
        <4>1. state'[r].committed \in BOOLEAN
          BY <3>1 DEF Metadata
        <4>2. state'[r].committed = (asked[r].op # "generate")
          BY <3>1, <4>1, Zenon
        <4> QED BY <2>1, <2>2, <3>1, <4>2, Zenon DEF TensorsOf
      <3> QED BY <3>2, <3>3 DEF LoadsStand
    <2> QED BY <2>4, <2>5
  <1> QED BY <1>1, <1>2, <1>3, <1>4, <1>5, <1>6, <1>7, <1>8, <1>9 DEF Next, Serve, Proceed

\* Whoever owned tensors before the step owns them after it.
LEMMA OwnedStays ==
    ASSUME JournalInv, OwnedStand, StatesGrow,
           \A s \in Live : s \in Live' \/ state[s].key \in gc',
           \A k \in gc : k \in gc' \/ \A b \in store' : b.key # k,
           \A r \in Requests : Writing(r) => Writing(r)' /\ asked'[r] = asked[r],
           \A b \in store' : (\E c \in store : c.key = b.key) \/ (\E s \in Live' : state'[s].key = b.key)
                             \/ (\E r \in Requests : Writing(r)' /\ Digest(r)' = b.key)
    PROVE  OwnedStand'
  <1>1. ASSUME NEW s \in Live PROVE state'[s].key = state[s].key
    BY DEF Live, StatesGrow
  <1>2. ASSUME NEW r \in Requests, Writing(r) PROVE Writing(r)' /\ Digest(r)' = Digest(r)
    <2>1. status[r] # "absent" /\ asked'[r] = asked[r] /\ asked[r].op # "release"
      BY <1>2 DEF Writing, Unresolved
    <2> QED BY <1>2, <2>1, WaitingIsSame
  <1>3. ASSUME NEW b \in store', NEW c \in store, c.key = b.key
        PROVE  \/ \E s \in Live' : state'[s].key = b.key
               \/ b.key \in gc'
               \/ \E r \in Requests : Writing(r)' /\ Digest(r)' = b.key
    <2>1. CASE \E s \in Live : state[s].key = c.key
      BY <1>1, <1>3, <2>1
    <2>2. CASE c.key \in gc
      BY <1>3, <2>2
    <2>3. CASE \E r \in Requests : Writing(r) /\ Digest(r) = c.key
      BY <1>2, <1>3, <2>3
    <2> QED BY <2>1, <2>2, <2>3 DEF OwnedStand
  <1>4. ASSUME NEW b \in store'
        PROVE  \/ \E s \in Live' : state'[s].key = b.key
               \/ b.key \in gc'
               \/ \E r \in Requests : Writing(r)' /\ Digest(r)' = b.key
    BY <1>3, <1>4
  <1> QED BY <1>4, Zenon DEF OwnedStand

LEMMA OwnedStep ==
    ASSUME JournalInv, HolderStands, OwnedStand, [Next]_vars
    PROVE  OwnedStand'
  <1>1. CASE state' = state /\ gc' = gc /\ store' \subseteq store
             /\ \A r \in Requests : Writing(r) => Writing(r)' /\ asked'[r] = asked[r]
    <2>1. Live' = Live /\ StatesGrow
      BY <1>1, NothingMade DEF Live, Recorded, JournalInv
    <2> QED BY <1>1, <2>1, OwnedStays
  <1>2. ASSUME NEW r \in Requests, Claim(r) PROVE OwnedStand'
    <2>1. \A q \in Requests : Writing(q) => Writing(q)' /\ asked'[q] = asked[q]
      BY <1>2 DEF Claim, Writing, Unresolved, JournalInv, TypeOK
    <2> QED BY <1>1, <1>2, <2>1 DEF Claim
  <1>3. ASSUME NEW r \in Requests, Begin(r) PROVE OwnedStand'
    <2>1. UNCHANGED <<status, asked, tasks, state, gc, store>> /\ lock.holder = None
      BY <1>3 DEF Begin, Waiting, Free, journal
    <2>2. \A q \in Requests : Writing(q) => Writing(q)' /\ asked'[q] = asked[q]
      BY <2>1, Names DEF Writing, Unresolved
    <2> QED BY <1>1, <2>1, <2>2
  <1>4. ASSUME NEW r \in Requests, Refuse(r) \/ Reject(r) PROVE OwnedStand'
    <2>1. /\ r \in tasks /\ ~(lock.holder = r /\ lock.step = "exported") /\ lock.holder \in {None, r}
          /\ UNCHANGED <<asked, state, gc, store>> /\ tasks' = tasks \ {r}
          /\ \A q \in Requests \ {r} : status'[q] = status[q]
      BY <1>4, Names DEF Refuse, Reject, Waiting, Working, Resolve, Free, JournalInv, LockStands, TypeOK
    <2>2. \A q \in Requests : Writing(q) => Writing(q)' /\ asked'[q] = asked[q]
      BY <2>1, Names DEF Writing, Unresolved
    <2> QED BY <1>1, <2>1, <2>2
  <1>5. ASSUME NEW r \in Requests, Break(r) PROVE OwnedStand'
    <2>1. /\ lock.holder = r /\ UNCHANGED <<asked, state, gc, store>> /\ tasks' = tasks \ {r}
          /\ \A q \in Requests : Unresolved(q) => Unresolved(q)'
      BY <1>5 DEF Break, Unresolved, JournalInv, TypeOK
    <2>2. \A q \in Requests : Writing(q) => Writing(q)' /\ asked'[q] = asked[q]
      BY <2>1 DEF Writing
    <2> QED BY <1>1, <2>1, <2>2
  <1>6. CASE BeginSweep \/ EndSweep \/ UNCHANGED vars \/ \E k \in lock.keys : DeleteExport(k)
    <2>1. UNCHANGED <<status, asked, tasks, state, gc>> /\ store' \subseteq store
      BY <1>6 DEF BeginSweep, EndSweep, DeleteExport, vars, journal, process
    <2>2. \A q \in Requests : lock.holder = q /\ lock.step = "exported" => lock' = lock
      BY <1>6, Names DEF BeginSweep, EndSweep, DeleteExport, vars, process, Free
    <2>3. \A q \in Requests : Writing(q) => Writing(q)' /\ asked'[q] = asked[q]
      BY <2>1, <2>2 DEF Writing, Unresolved
    <2> QED BY <1>1, <2>1, <2>3
  <1>7. CASE Restart
    <2>1. UNCHANGED <<status, asked, state, gc>> /\ store' \subseteq store /\ tasks' = {}
      BY <1>7 DEF Restart, journal
    <2>2. \A q \in Requests : Writing(q) => Writing(q)' /\ asked'[q] = asked[q]
      BY <2>1 DEF Writing, Unresolved
    <2> QED BY <1>1, <2>1, <2>2
  <1>8. ASSUME NEW k \in lock.keys, MarkDeleted(k) PROVE OwnedStand'
    <2>1. /\ gc' = gc \ {k} /\ UNCHANGED <<status, asked, state, tasks, store>>
          /\ \A b \in store : b.key # k
          /\ lock'.holder = lock.holder /\ lock'.step = lock.step
      BY <1>8 DEF MarkDeleted, JournalInv, TypeOK
    <2>2. \A q \in Requests : Writing(q) => Writing(q)' /\ asked'[q] = asked[q]
      BY <2>1 DEF Writing, Unresolved
    <2>3. Live' = Live /\ StatesGrow
      BY <2>1, NothingMade DEF Live, Recorded, JournalInv
    <2> QED BY <2>1, <2>2, <2>3, OwnedStays
  <1>9. ASSUME NEW r \in Requests, Export(r) PROVE OwnedStand'
    <2>1. /\ UNCHANGED <<status, asked, tasks, state, gc>> /\ lock.holder = r /\ lock.step = "working"
          /\ lock'.holder = r /\ lock'.step = "exported"
      BY <1>9 DEF Export, Working, journal, JournalInv, TypeOK
    <2>2. \A q \in Requests : Writing(q) => Writing(q)' /\ asked'[q] = asked[q]
      BY <2>1 DEF Writing, Unresolved
    <2>3. Live' = Live /\ StatesGrow
      BY <2>1, NothingMade DEF Live, Recorded, JournalInv
    <2>4. \A b \in store' : b \in store \/ (asked[r].op # "import" /\ b.key = Digest(r))
      BY <1>9 DEF Export
    <2>5. /\ r \in tasks /\ status[r] = "pending" /\ asked[r].op \notin {"release", "rollback"}
          /\ Bound(asked[r])
      BY <2>1, Names DEF JournalInv, LockStands, RequestsStand
    <2>6. Digest(r)' = Digest(r)
      BY <2>1, <2>3, <2>5, WaitingIsSame
    <2>7. CASE asked[r].op = "commit"
      <3>1. \E s \in Live : state[s].key = Digest(r)
        BY <2>1, <2>5, <2>7, DigestIs DEF HolderStands
      <3> QED BY <2>1, <2>2, <2>3, <2>4, <3>1, OwnedStays
    <2>8. CASE asked[r].op \in {"create", "append", "generate"}
      <3>1. Writing(r)'
        BY <2>1, <2>5, <2>8 DEF Writing, Unresolved
      <3> QED BY <2>1, <2>2, <2>3, <2>4, <2>6, <3>1, OwnedStays
    <2>9. CASE asked[r].op = "import"
      BY <2>1, <2>2, <2>3, <2>4, <2>9, OwnedStays
    <2> QED BY <2>5, <2>7, <2>8, <2>9 DEF Bound, Payload, NATIVE_REQUEST_OPERATIONS
  <1>10. ASSUME NEW r \in Requests, Retire(r) PROVE OwnedStand'
    <2>1. PICK refs \in SUBSET Recorded, phase \in {"dropped", "released"} :
             /\ gc' = gc \cup QueuedKeys(refs)
             /\ Retirement(refs, phase) /\ StatesGrow /\ Recorded' = Recorded
      BY <1>10, RetireIs
    <2>2. /\ r \in tasks /\ lock.holder = None /\ tasks' = tasks \ {r} /\ UNCHANGED <<asked, store>>
          /\ \A q \in Requests \ {r} : status'[q] = status[q]
      BY <1>10, RetireIs DEF Resolve, Free, JournalInv, TypeOK
    <2>3. \A q \in Requests : Writing(q) => Writing(q)' /\ asked'[q] = asked[q]
      BY <2>2, Names DEF Writing, Unresolved
    <2>4. \A s \in Live : s \in Live' \/ state[s].key \in gc'
      BY <2>1 DEF Retirement, Live, Recorded, QueuedKeys
    <2> QED BY <2>1, <2>2, <2>3, <2>4, OwnedStays
  <1>11. ASSUME NEW r \in Requests, Complete(r) PROVE OwnedStand'
    <2>1. /\ r \in tasks /\ lock.holder = r /\ tasks' = tasks \ {r} /\ UNCHANGED <<asked, gc, store>>
          /\ \A q \in Requests \ {r} : status'[q] = status[q]
          /\ StatesGrow
      BY <1>11, CompleteIs DEF Resolve, Free, JournalInv, TypeOK
    <2>2. \A s \in Live : s \in Live'
      <3>1. CASE asked[r].op = "commit"
        BY <1>11, <3>1, CompleteIs DEF Live, Recorded
      <3>2. CASE asked[r].op # "commit"
        BY <1>11, <3>2, CompleteIs DEF Live, Recorded
      <3> QED BY <3>1, <3>2
    <2>3. ASSUME NEW q \in Requests \ {r}, Writing(q) PROVE Writing(q)' /\ asked'[q] = asked[q]
      BY <2>1, <2>3 DEF Writing, Unresolved
    <2>4. CASE Writing(r)
      <3>1. asked[r].op \in {"create", "append", "generate"} /\ status[r] # "absent"
        BY <2>4 DEF Writing, Unresolved
      <3>2. r \in Live' /\ state'[r].key = Digest(r)
        BY <1>11, <3>1, CompleteIs DEF Live
      <3>3. ASSUME NEW q \in Requests \ {r}, Writing(q) PROVE Digest(q)' = Digest(q)
        BY <2>1, <3>3, WaitingIsSame DEF Writing, Unresolved
      <3>4. \A s \in Live : state'[s].key = state[s].key
        BY <2>1 DEF StatesGrow, Live
      <3>5. ASSUME NEW b \in store
            PROVE  \/ \E s \in Live' : state'[s].key = b.key
                   \/ b.key \in gc'
                   \/ \E q \in Requests : Writing(q)' /\ Digest(q)' = b.key
        <4>1. CASE \E s \in Live : state[s].key = b.key
          BY <2>2, <3>4, <4>1
        <4>2. CASE b.key \in gc
          BY <2>1, <4>2
        <4>3. CASE \E q \in Requests : Writing(q) /\ Digest(q) = b.key
          BY <2>3, <3>2, <3>3, <4>3
        <4> QED BY <3>5, <4>1, <4>2, <4>3 DEF OwnedStand
      <3> QED BY <2>1, <3>5, Zenon DEF OwnedStand
    <2>5. CASE ~Writing(r)
      <3>1. \A q \in Requests : Writing(q) => Writing(q)' /\ asked'[q] = asked[q]
        BY <2>3, <2>5
      <3> QED BY <2>1, <2>2, <3>1, OwnedStays
    <2> QED BY <2>4, <2>5
  <1> QED
    BY <1>2, <1>3, <1>4, <1>5, <1>6, <1>7, <1>8, <1>9, <1>10, <1>11 DEF Next, Serve, Proceed, Sweep

-----------------------------------------------------------------------------
(* The theorems.                                                           *)

LEMMA ServiceInvStarts == ASSUME Init PROVE ServiceInv
<1>1. TypeOK
  <2>1. epoch \in 0..MaxRestarts /\ owner \in [Requests -> 0..MaxRestarts]
    BY Names DEF Init
  <2>2. lock \in [holder : Requests \cup {None}, step : {"free", "working", "exported", "sweeping"},
                  keys : SUBSET Keys]
    BY DEF Init, Free
  <2>3. /\ status \in [Requests -> {"absent", "pending", "unknown", "completed"}]
        /\ asked \in [Requests -> Payload \cup {None}] /\ answer \in [Requests -> {None, "ok", "refused"}]
        /\ state \in [Requests -> Metadata \cup {None}] /\ invocations \in [Requests -> Nat]
    BY DEF Init
  <2>4. gc \in SUBSET Keys /\ tasks \in SUBSET Requests /\ store \in SUBSET Tensors
    BY DEF Init
  <2> QED BY <2>1, <2>2, <2>3, <2>4 DEF TypeOK
<1>2. Recorded = {} /\ Live = {} /\ \A r \in Requests : ~Unresolved(r)
  BY DEF Init, Recorded, Live, Unresolved
<1>3. RequestsStand
  BY DEF Init, RequestsStand
<1>4. LockStands /\ HolderStands
  BY Names DEF Init, Free, LockStands, HolderStands
<1>5. StatesStand /\ LoadsStand /\ OwnedStand /\ MutatorsStand
  BY <1>2 DEF Init, StatesStand, LoadsStand, OwnedStand, MutatorsStand
<1>6. NeedsStand
  BY <1>2 DEF NeedsStand, Needed
<1> QED BY <1>1, <1>3, <1>4, <1>5, <1>6 DEF ServiceInv, JournalInv

LEMMA ServiceInvSteps == ASSUME ServiceInv, [Next]_vars PROVE ServiceInv'
BY JournalSteps, HolderStep, NeedsStep, MutatorsStep, LoadsStep, OwnedStep DEF ServiceInv

LEMMA ServiceInvAlways == Spec => []ServiceInv
BY ServiceInvStarts, ServiceInvSteps, PTL DEF Spec

\* The fields of the journal, the lock and the store keep their types.
THEOREM ServiceIsTyped == Spec => []TypeOK
<1>1. ServiceInv => TypeOK
  BY DEF ServiceInv, JournalInv
<1> QED BY <1>1, ServiceInvAlways, PTL

\* A handle that says live loads, and what an admitted request waits for is neither
\* released nor swept away: a sweep deletes no key that is needed, and no export spoils
\* the tensors of another State.
THEOREM TensorsAreAlwaysKept == Spec => []TensorsAreKept
<1>1. ASSUME ServiceInv PROVE TensorsAreKept
  <2>1. HandlesLoad
    <3>1. ASSUME NEW s \in Live, Resident(s) PROVE \E b \in store : b.key = state[s].key
      BY <1>1, <3>1 DEF ServiceInv, NeedsStand, Needed
    <3>2. ASSUME NEW s \in Live, Resident(s), Mutating(s) = {} PROVE TensorsOf(s) \in store
      BY <1>1, <3>2 DEF ServiceInv, LoadsStand, Untouched
    <3> QED BY <3>1, <3>2 DEF HandlesLoad
  <2>2. QueuedInputsStand
    BY <1>1 DEF ServiceInv, NeedsStand, Needed, QueuedInputsStand
  <2> QED BY <2>1, <2>2 DEF TensorsAreKept
<1> QED BY <1>1, ServiceInvAlways, PTL

\* An undecided candidate can still be decided: its parent is not released.
THEOREM CandidatesAlwaysKeepTheirParent == Spec => []CandidatesKeepTheirParent
<1>1. ServiceInv => CandidatesKeepTheirParent
  BY DEF ServiceInv, NeedsStand, CandidatesKeepTheirParent
<1> QED BY <1>1, ServiceInvAlways, PTL

\* No tensors are left behind, whichever request or sweep was interrupted.
THEOREM TensorsAreAlwaysOwned == Spec => []TensorsAreOwned
<1>1. ServiceInv => TensorsAreOwned
  BY DEF ServiceInv, OwnedStand, Writing, TensorsAreOwned
<1> QED BY <1>1, ServiceInvAlways, PTL

\* A State that a lost commit or rollback may have changed is left as it is.
THEOREM UncertainStatesStayFrozen == Spec => UncertainStatesFreeze
<1>1. ASSUME ServiceInv, [Next]_vars, NEW r \in Requests,
             Outcome(r) = "unknown", asked[r].op \in {"commit", "rollback"}, NEW s \in asked[r].refs
      PROVE  state'[s] = state[s]
  <2>1. /\ Unresolved(r) /\ r \notin tasks /\ Bound(asked[r]) /\ JournalInv
        /\ s \in Recorded /\ s \in Requests /\ asked[r].refs = {s}
    <3>1. Unresolved(r) /\ r \notin tasks /\ Bound(asked[r]) /\ JournalInv
      BY <1>1 DEF Outcome, Unresolved, ServiceInv, JournalInv, RequestsStand
    <3> QED BY <1>1, <3>1 DEF Bound, Recorded
  <2>2. r \in Mutating(s) /\ s \in Pinned(r)
    BY <1>1, <2>1 DEF Mutating, Pinned, Inputs
  <2>3. ASSUME NEW q \in Requests, Retire(q) PROVE state'[s] = state[s]
    <3>1. q # r /\ Admissible(q)
      BY <2>1, <2>3, RetireIs
    <3>2. PICK refs \in SUBSET Recorded, phase \in {"dropped", "released"} :
             /\ \/ asked[q].op = "rollback" /\ refs = asked[q].refs
                \/ asked[q].op = "release" /\ refs = Releasing(q)
             /\ Retirement(refs, phase)
      BY <2>1, <2>3, RetireIs
    <3>3. CASE asked[q].op = "rollback" /\ refs = asked[q].refs
      BY <2>1, <2>2, <3>1, <3>2, <3>3 DEF Admissible, Usable, Retirement
    <3>4. CASE asked[q].op = "release" /\ refs = Releasing(q)
      BY <2>1, <2>2, <3>1, <3>2, <3>4 DEF Admissible, validate_release, Retirement
    <3> QED BY <3>2, <3>3, <3>4
  <2>4. ASSUME NEW q \in Requests, Complete(q) PROVE state'[s] = state[s]
    <3>1. q # r /\ Unresolved(q)
      BY <2>1, <2>4, CompleteIs DEF JournalInv, RequestsStand, Unresolved
    <3>2. CASE asked[q].op = "commit"
      <4>1. PICK t \in Recorded : asked[q].refs = {t} /\ \A u \in Requests \ {t} : state'[u] = state[u]
        BY <2>1, <2>4, <3>2, CompleteIs
      <4>2. asked[q].refs # asked[r].refs
        BY <1>1, <2>1, <3>1, <3>2 DEF ServiceInv, MutatorsStand
      <4> QED BY <2>1, <4>1, <4>2
    <3>3. CASE asked[q].op # "commit"
      BY <2>1, <2>4, <3>3, CompleteIs
    <3> QED BY <3>2, <3>3
  <2>5. (\E q \in Requests : Retire(q) \/ Complete(q)) \/ state' = state
    BY <1>1
    DEF Next, Claim, Serve, Proceed, Begin, Refuse, Reject, Export, Break, BeginSweep, Sweep, EndSweep,
        DeleteExport, MarkDeleted, Restart, journal, vars
  <2> QED BY <2>3, <2>4, <2>5
<1>2. ASSUME ServiceInv, [Next]_vars
      PROVE  [\A r \in Requests :
                Outcome(r) = "unknown" /\ asked[r].op \in {"commit", "rollback"} =>
                    \A s \in asked[r].refs : state'[s] = state[s]]_vars
  BY <1>1, <1>2
<1> QED BY <1>2, ServiceInvAlways, PTL DEF Spec, UncertainStatesFreeze

-----------------------------------------------------------------------------
(* The journal serves at most once.                                        *)

LEMMA ToldIs ==
    /\ Told = [r \in Requests |-> Told[r]]
    /\ \A r \in Requests :
          /\ status[r] = "absent" => Told[r] = "new"
          /\ status[r] = "pending" => Told[r] = IF owner[r] = epoch THEN "claimed" ELSE "unknown"
          /\ status[r] = "unknown" => Told[r] = "unknown"
          /\ status[r] = "completed" => Told[r] = IF answer[r] = "ok" THEN "done" ELSE "refused"
  BY DEF Told, Outcome

LEMMA ToldNext ==
    /\ Told' = [r \in Requests |-> Told'[r]]
    /\ \A r \in Requests :
          /\ status'[r] = "absent" => Told'[r] = "new"
          /\ status'[r] = "pending" => Told'[r] = IF owner'[r] = epoch' THEN "claimed" ELSE "unknown"
          /\ status'[r] = "unknown" => Told'[r] = "unknown"
          /\ status'[r] = "completed" => Told'[r] = IF answer'[r] = "ok" THEN "done" ELSE "refused"
  BY DEF Told, Outcome

\* A request is told the same while its row and the process stay.
LEMMA ToldStays ==
    ASSUME NEW r \in Requests, TypeOK, epoch' = epoch, status'[r] = status[r], owner'[r] = owner[r],
           answer'[r] = answer[r]
    PROVE  Told'[r] = Told[r]
  <1>1. status[r] \in {"absent", "pending", "unknown", "completed"}
    BY DEF TypeOK
  <1> QED BY <1>1, ToldIs, ToldNext

LEMMA ToldChanges ==
    ASSUME NEW r \in Requests, NEW v, \A q \in Requests \ {r} : Told'[q] = Told[q], Told'[r] = v
    PROVE  Told' = [Told EXCEPT ![r] = v]
  BY ToldIs, ToldNext

\* A request that is served and gets its answer.
LEMMA AnswerIs ==
    ASSUME ServiceInv, NEW r \in tasks, NEW result \in {"ok", "refused"}, Resolve(r, result),
           invocations' = [invocations EXCEPT ![r] = 1],
           Recorded' = Recorded \/ (Recorded' = Recorded \cup {r} /\ result = "ok")
    PROVE  Once!Answer(r)
  <1>1. /\ r \in Requests /\ status[r] = "pending" /\ owner[r] = epoch /\ invocations[r] \in {0, 1} /\ TypeOK
    BY DEF ServiceInv, JournalInv, TypeOK, RequestsStand
  <1>2. /\ \A q \in Requests \ {r} : status'[q] = status[q] /\ answer'[q] = answer[q]
        /\ status'[r] = "completed" /\ answer'[r] = result /\ epoch' = epoch /\ owner' = owner
    BY <1>1 DEF Resolve, TypeOK
  <1>3. \A q \in Requests \ {r} : Told'[q] = Told[q]
    BY <1>1, <1>2, ToldStays
  <1>4. Told[r] = "claimed" /\ Told'[r] = IF result = "ok" THEN "done" ELSE "refused"
    BY <1>1, <1>2, ToldIs, ToldNext
  <1>5. Told' = [Told EXCEPT ![r] = IF result = "ok" THEN "done" ELSE "refused"]
    BY <1>1, <1>3, <1>4, ToldChanges
  <1>6. CASE result = "ok"
    BY <1>1, <1>4, <1>5, <1>6 DEF Told, Once!Answer
  <1>7. CASE result = "refused"
    BY <1>1, <1>4, <1>5, <1>7 DEF Told, Once!Answer
  <1> QED BY <1>6, <1>7

LEMMA OnceStep ==
    ASSUME ServiceInv, ServiceInv', [Next]_vars
    PROVE  [Once!Next]_(Once!vars)
  <1>0. TypeOK /\ JournalInv
    BY DEF ServiceInv, JournalInv
  <1>1. ASSUME NEW r \in Requests, Claim(r) PROVE Once!Claim(r)
    <2>1. /\ status[r] = "absent" /\ status'[r] = "pending" /\ owner'[r] = epoch' /\ epoch' = epoch
          /\ UNCHANGED <<invocations, state, answer>>
          /\ \A q \in Requests \ {r} : status'[q] = status[q] /\ owner'[q] = owner[q]
      BY <1>0, <1>1 DEF Claim, TypeOK
    <2>2. \A q \in Requests \ {r} : Told'[q] = Told[q]
      BY <1>0, <2>1, ToldStays
    <2>3. Told[r] = "new" /\ Told'[r] = "claimed"
      BY <2>1, ToldIs, ToldNext
    <2>4. Told' = [Told EXCEPT ![r] = "claimed"] /\ Recorded' = Recorded
      BY <2>1, <2>2, <2>3, ToldChanges DEF Recorded
    <2> QED BY <2>1, <2>3, <2>4 DEF Told, Once!Claim
  <1>2. ASSUME NEW r \in Requests, Begin(r) PROVE Once!Serve(r)
    <2>1. /\ r \in tasks /\ invocations' = [invocations EXCEPT ![r] = @ + 1] /\ lock.holder = None
          /\ UNCHANGED <<epoch, status, owner, answer, state>>
      BY <1>2 DEF Begin, Waiting, Invoke, Free, journal
    <2>2. invocations[r] = 0 /\ status[r] = "pending" /\ owner[r] = epoch
      BY <1>0, <2>1, Names DEF JournalInv, RequestsStand
    <2>3. Told[r] = "claimed" /\ Told' = Told /\ Recorded' = Recorded
      BY <1>0, <2>1, <2>2, ToldIs, ToldNext, ToldStays DEF Recorded
    <2>4. invocations' = [invocations EXCEPT ![r] = 1]
      BY <2>1, <2>2
    <2> QED BY <2>2, <2>3, <2>4 DEF Told, Once!Serve
  <1>3. ASSUME NEW r \in Requests, Retire(r) \/ Refuse(r) \/ Reject(r) \/ Complete(r) PROVE Once!Answer(r)
    <2>1. CASE Retire(r) \/ Refuse(r)
      <3>1. r \in tasks /\ lock.holder = None /\ invocations' = [invocations EXCEPT ![r] = @ + 1]
        BY <2>1 DEF Retire, Refuse, Waiting, Invoke, Free
      <3>2. invocations[r] = 0
        BY <3>1, Names DEF ServiceInv, JournalInv, RequestsStand
      <3>3. invocations' = [invocations EXCEPT ![r] = 1]
        BY <3>1, <3>2
      <3>4. CASE Retire(r)
        <4>1. Resolve(r, "ok") /\ Recorded' = Recorded
          BY <1>0, <3>4, RetireIs
        <4> QED BY <3>1, <3>3, <4>1, AnswerIs
      <3>5. CASE Refuse(r)
        <4>1. Resolve(r, "refused") /\ Recorded' = Recorded
          BY <3>5 DEF Refuse, Recorded
        <4> QED BY <3>1, <3>3, <4>1, AnswerIs
      <3> QED BY <2>1, <3>4, <3>5
    <2>2. CASE Reject(r) \/ Complete(r)
      <3>1. lock.holder = r /\ invocations' = invocations
        BY <2>2 DEF Reject, Complete, Working
      <3>2. r \in tasks /\ invocations[r] = 1
        BY <3>1, Names DEF ServiceInv, JournalInv, LockStands, RequestsStand
      <3>3. invocations' = [invocations EXCEPT ![r] = 1]
        BY <1>0, <3>1, <3>2 DEF TypeOK
      <3>4. CASE Reject(r)
        <4>1. Resolve(r, "refused") /\ Recorded' = Recorded
          BY <3>4 DEF Reject, Recorded
        <4> QED BY <3>2, <3>3, <4>1, AnswerIs
      <3>5. CASE Complete(r)
        <4>1. Resolve(r, "ok") /\ (Recorded' = Recorded \/ Recorded' = Recorded \cup {r})
          BY <1>0, <3>5, CompleteIs
        <4> QED BY <3>2, <3>3, <4>1, AnswerIs
      <3> QED BY <2>2, <3>4, <3>5
    <2> QED BY <1>3, <2>1, <2>2
  <1>4. ASSUME NEW r \in Requests, Break(r) PROVE Once!Lose
    <2>1. /\ lock.holder = r /\ status' = [status EXCEPT ![r] = "unknown"]
          /\ UNCHANGED <<epoch, owner, answer, state, invocations>>
      BY <1>4 DEF Break
    <2>2. status[r] = "pending" /\ owner[r] = epoch
      BY <1>0, <2>1, Names DEF JournalInv, LockStands, RequestsStand
    <2>3. Told[r] = "claimed" /\ Told'[r] = "unknown" /\ \A q \in Requests \ {r} : Told'[q] = Told[q]
      BY <1>0, <2>1, <2>2, ToldIs, ToldNext, ToldStays DEF TypeOK
    <2>4. Told' = [q \in Requests |-> IF q \in {r} THEN "unknown" ELSE Told[q]]
      BY <2>3, ToldNext
    <2>5. {r} \in SUBSET {q \in Requests : Told[q] = "claimed"} /\ Recorded' = Recorded
      BY <2>1, <2>3 DEF Recorded
    <2> QED BY <2>1, <2>4, <2>5 DEF Told, Once!Lose
  <1>5. ASSUME Restart PROVE Once!Lose
    <2>1. epoch' = epoch + 1 /\ epoch \in Nat /\ UNCHANGED <<status, owner, answer, state, invocations>>
      BY <1>0, <1>5, Names DEF Restart, journal, TypeOK
    <2>2. ASSUME NEW q \in Requests
          PROVE  Told'[q] = IF Told[q] = "claimed" THEN "unknown" ELSE Told[q]
      <3>1. owner[q] # epoch' /\ status[q] \in {"absent", "pending", "unknown", "completed"}
        BY <1>0, <2>1 DEF JournalInv, RequestsStand, TypeOK
      <3> QED BY <2>1, <3>1, ToldIs, ToldNext
    <2> DEFINE lost == {q \in Requests : Told[q] = "claimed"}
    <2>3. Told' = [q \in Requests |-> IF q \in lost THEN "unknown" ELSE Told[q]]
      BY <2>2, ToldNext
    <2>4. lost \in SUBSET {q \in Requests : Told[q] = "claimed"} /\ Recorded' = Recorded
      BY <2>1 DEF Recorded
    <2> QED BY <2>1, <2>3, <2>4 DEF Told, Once!Lose
  <1>6. ASSUME (\E r \in Requests : Export(r)) \/ BeginSweep \/ Sweep \/ UNCHANGED vars
        PROVE  UNCHANGED Once!vars
    <2>1. UNCHANGED <<epoch, status, owner, answer, state, invocations>>
      BY <1>6 DEF Export, BeginSweep, Sweep, EndSweep, DeleteExport, MarkDeleted, journal, process, vars
    <2>2. Told' = Told /\ Recorded' = Recorded
      BY <2>1 DEF Told, Outcome, Recorded
    <2> QED BY <2>1, <2>2 DEF Told, Once!vars
  <1> QED
    BY <1>1, <1>2, <1>3, <1>4, <1>5, <1>6 DEF Next, Serve, Proceed, Once!Next

\* The journal implements AtMostOnce, over any number of restarts: whatever breaks, a
\* request is executed at most once, its answer is final and its State comes with it.
THEOREM RequestsAreAlwaysServedOnce == Spec => RequestsAreServedOnce
<1>1. Init => Once!Init
  BY Names DEF Init, Once!Init, Told, Outcome, Recorded
<1> QED BY <1>1, OnceStep, ServiceInvAlways, PTL DEF Spec, RequestsAreServedOnce, Once!Spec

-----------------------------------------------------------------------------
(* Nobody waits for a claim that nobody carries, or for a lock that nobody *)
(* gives back: what can be said of ClaimsAreResolved without time.         *)

\* A claim of this process is carried by a task of it.
ClaimsAreCarried == \A r \in Requests : Outcome(r) = "pending" => r \in tasks

\* What a sweep has before it, and how much of it is still stored.
SweepIsFinite ==
    /\ IsFiniteSet(Recorded) /\ IsFiniteSet(gc)
    /\ lock.keys \subseteq gc

Stored == {k \in lock.keys : \E b \in store : b.key = k}
Stage == CASE lock.step = "free" -> 0 [] lock.step = "working" -> 2 [] OTHER -> 1

\* What is left of the work of whoever holds the lock.
HoldLeft == Stage + Cardinality(lock.keys) + Cardinality(Stored)

HoldsAreBounded ==
    /\ HoldLeft \in Nat
    /\ HoldLeft = 0 <=> lock = Free

\* Who holds the lock gives it back: each step of the holder leaves less of its work, and
\* the steps of others leave lock and store alone.
LocksAreGivenBack ==
    [][lock # Free => HoldLeft' < HoldLeft \/ UNCHANGED <<lock, store>>]_vars

LEMMA CarriedStep ==
    ASSUME ServiceInv, ClaimsAreCarried, [Next]_vars
    PROVE  ClaimsAreCarried'
<1>0. TypeOK /\ RequestsStand /\ LockStands
  BY DEF ServiceInv, JournalInv
<1>1. ASSUME UNCHANGED <<epoch, status, owner, tasks>> PROVE ClaimsAreCarried'
  BY <1>1 DEF ClaimsAreCarried, Outcome
<1>2. ASSUME NEW r \in Requests, tasks' = tasks \ {r}, epoch' = epoch, owner' = owner,
             status' = [status EXCEPT ![r] = "completed"] \/ status' = [status EXCEPT ![r] = "unknown"]
      PROVE  ClaimsAreCarried'
  <2>1. status'[r] \in {"completed", "unknown"} /\ \A q \in Requests \ {r} : status'[q] = status[q]
    BY <1>0, <1>2 DEF TypeOK
  <2> QED BY <1>2, <2>1 DEF ClaimsAreCarried, Outcome
<1>3. ASSUME NEW r \in Requests, Claim(r) PROVE ClaimsAreCarried'
  <2>1. /\ tasks' = tasks \cup {r} /\ epoch' = epoch
        /\ \A q \in Requests \ {r} : status'[q] = status[q] /\ owner'[q] = owner[q]
    BY <1>0, <1>3 DEF Claim, TypeOK
  <2> QED BY <2>1 DEF ClaimsAreCarried, Outcome
<1>4. ASSUME NEW r \in Requests, Retire(r) \/ Refuse(r) \/ Reject(r) \/ Complete(r) \/ Break(r)
      PROVE  ClaimsAreCarried'
  BY <1>2, <1>4 DEF Retire, Refuse, Reject, Complete, Break, Resolve
<1>5. ASSUME Restart PROVE ClaimsAreCarried'
  <2>1. epoch' = epoch + 1 /\ epoch \in Nat /\ UNCHANGED <<status, owner>>
    BY <1>0, <1>5, Names DEF Restart, journal, TypeOK
  <2>2. \A q \in Requests : owner'[q] # epoch'
    BY <1>0, <2>1 DEF RequestsStand
  <2> QED BY <2>2 DEF ClaimsAreCarried, Outcome
<1>6. ASSUME (\E r \in Requests : Begin(r) \/ Export(r)) \/ BeginSweep \/ Sweep \/ UNCHANGED vars
      PROVE  ClaimsAreCarried'
  <2>1. UNCHANGED <<epoch, status, owner, tasks>>
    BY <1>6 DEF Begin, Export, BeginSweep, Sweep, EndSweep, DeleteExport, MarkDeleted, journal, process, vars
  <2> QED BY <1>1, <2>1
<1> QED BY <1>3, <1>4, <1>5, <1>6 DEF Next, Serve, Proceed

\* Finitely many States have finitely many keys.
LEMMA KeysAreFinite ==
    ASSUME NEW refs, IsFiniteSet(Recorded)
    PROVE  IsFiniteSet(QueuedKeys(refs))
<1> DEFINE S == refs \cap Live
           T == {state[s].key : s \in S}
           f == [s \in S |-> state[s].key]
<1>1. IsFiniteSet(S)
  BY FS_Subset DEF Live
<1>2. f \in Surjection(S, T)
  BY DEF Surjection
<1>3. IsFiniteSet(T)
  BY <1>1, <1>2, FS_Surjection
<1> QED BY <1>3 DEF QueuedKeys

LEMMA SweepFiniteStep ==
    ASSUME ServiceInv, SweepIsFinite, [Next]_vars
    PROVE  SweepIsFinite'
<1>0. JournalInv /\ TypeOK /\ LockStands
  BY DEF ServiceInv, JournalInv
<1>1. ASSUME NEW r \in Requests, Claim(r) \/ Begin(r) \/ Refuse(r) \/ Reject(r) \/ Export(r) \/ Break(r)
      PROVE  SweepIsFinite'
  <2>1. UNCHANGED <<state, gc>> /\ lock'.keys \subseteq lock.keys
    <3>1. Free.keys = {}
      BY DEF Free
    <3> QED BY <1>0, <1>1, <3>1 DEF Claim, Begin, Refuse, Reject, Export, Break, Resolve, journal, TypeOK
  <2> QED BY <2>1 DEF SweepIsFinite, Recorded
<1>2. ASSUME NEW r \in Requests, Retire(r) PROVE SweepIsFinite'
  <2>1. PICK refs \in SUBSET Recorded : gc' = gc \cup QueuedKeys(refs) /\ Recorded' = Recorded
    BY <1>0, <1>2, RetireIs
  <2>2. lock'.keys = {}
    BY <1>2 DEF Retire, Resolve, Free
  <2> QED BY <2>1, <2>2, KeysAreFinite, FS_Union DEF SweepIsFinite
<1>3. ASSUME NEW r \in Requests, Complete(r) PROVE SweepIsFinite'
  <2>1. gc' = gc /\ (Recorded' = Recorded \/ Recorded' = Recorded \cup {r})
    BY <1>0, <1>3, CompleteIs
  <2>2. lock'.keys = {}
    BY <1>3 DEF Complete, Resolve, Free
  <2> QED BY <2>1, <2>2, FS_AddElement DEF SweepIsFinite
<1>4. ASSUME BeginSweep PROVE SweepIsFinite'
  BY <1>4 DEF BeginSweep, Reclaimable, SweepIsFinite, journal, Recorded
<1>5. ASSUME Sweep PROVE SweepIsFinite'
  <2>1. UNCHANGED state /\ gc' \subseteq gc /\ lock'.keys \subseteq gc'
    <3>1. CASE EndSweep
      BY <3>1 DEF EndSweep, Free, journal
    <3>2. ASSUME NEW k \in lock.keys, DeleteExport(k) PROVE UNCHANGED <<state, gc, lock>>
      BY <3>2 DEF DeleteExport, journal, process
    <3>3. ASSUME NEW k \in lock.keys, MarkDeleted(k)
          PROVE  UNCHANGED state /\ gc' = gc \ {k} /\ lock'.keys = lock.keys \ {k}
      BY <1>0, <3>3 DEF MarkDeleted, TypeOK
    <3> QED BY <1>5, <3>1, <3>2, <3>3 DEF Sweep, SweepIsFinite
  <2> QED BY <2>1, FS_Subset DEF SweepIsFinite, Recorded
<1>6. ASSUME Restart \/ UNCHANGED vars PROVE SweepIsFinite'
  <2>1. UNCHANGED <<state, gc>> /\ lock'.keys \subseteq lock.keys
    <3>1. CASE Restart
      <4>1. lock'.keys = {}
        BY <3>1 DEF Restart, Free
      <4> QED BY <3>1, <4>1 DEF Restart, journal
    <3>2. CASE UNCHANGED vars
      BY <3>2 DEF vars, journal, process
    <3> QED BY <1>6, <3>1, <3>2
  <2> QED BY <2>1 DEF SweepIsFinite, Recorded
<1> QED BY <1>1, <1>2, <1>3, <1>4, <1>5, <1>6 DEF Next, Serve, Proceed

LEMMA StageIs ==
    ASSUME TypeOK
    PROVE  /\ Stage \in 0..2
           /\ lock.step = "free" <=> Stage = 0
           /\ lock.step = "working" <=> Stage = 2
  BY DEF TypeOK, Stage

SizesAreNatural ==
    /\ IsFiniteSet(lock.keys) /\ IsFiniteSet(Stored)
    /\ Cardinality(lock.keys) \in Nat /\ Cardinality(Stored) \in Nat /\ Stage \in 0..2

LEMMA HoldIsNatural == ServiceInv /\ SweepIsFinite => HoldsAreBounded /\ SizesAreNatural
<1> SUFFICES ASSUME ServiceInv, SweepIsFinite PROVE HoldsAreBounded /\ SizesAreNatural
  OBVIOUS
<1>0. TypeOK /\ LockStands
  BY DEF ServiceInv, JournalInv
<1>1. IsFiniteSet(lock.keys) /\ IsFiniteSet(Stored)
  <2>1. IsFiniteSet(lock.keys)
    BY FS_Subset DEF SweepIsFinite
  <2> QED BY <2>1, FS_Subset DEF Stored
<1>2. Cardinality(lock.keys) \in Nat /\ Cardinality(Stored) \in Nat
  BY <1>1, FS_CardinalityType
<1>3. Stage \in 0..2 /\ (lock.step = "free" <=> Stage = 0)
  BY <1>0, StageIs
<1>4. lock = Free => Cardinality(lock.keys) = 0 /\ Cardinality(Stored) = 0
  BY FS_EmptySet DEF Free, Stored
<1>5. lock.step = "free" => lock = Free
  BY <1>0 DEF LockStands, Free, TypeOK
<1>6. lock = Free => lock.step = "free"
  BY DEF Free
<1>7. HoldLeft \in Nat /\ (HoldLeft = 0 <=> lock = Free)
  BY <1>2, <1>3, <1>4, <1>5, <1>6 DEF HoldLeft
<1> QED BY <1>1, <1>2, <1>3, <1>7 DEF HoldsAreBounded, SizesAreNatural

LEMMA HoldStep ==
    ASSUME ServiceInv, ServiceInv', SweepIsFinite, SweepIsFinite', [Next]_vars, lock # Free
    PROVE  HoldLeft' < HoldLeft \/ UNCHANGED <<lock, store>>
<1>0. TypeOK /\ LockStands /\ TypeOK'
  BY DEF ServiceInv, JournalInv
<1>1. HoldsAreBounded /\ SizesAreNatural
  BY HoldIsNatural
<1>2. HoldsAreBounded' /\ SizesAreNatural'
  BY HoldIsNatural, PTL
<1>3. ASSUME lock' = Free PROVE HoldLeft' < HoldLeft
  <2>1. HoldLeft' = 0
    BY <1>2, <1>3 DEF HoldsAreBounded, Free
  <2> QED BY <1>1, <2>1 DEF HoldsAreBounded
<1>4. ASSUME NEW r \in Requests, Retire(r) \/ Refuse(r) \/ Reject(r) \/ Complete(r) \/ Break(r)
      PROVE  lock' = Free
  BY <1>4 DEF Retire, Refuse, Reject, Complete, Break, Resolve
<1>5. ASSUME NEW r \in Requests, Export(r) PROVE HoldLeft' < HoldLeft
  <2>1. lock.step = "working" /\ lock'.step = "exported" /\ lock.keys = {} /\ lock'.keys = {}
    BY <1>0, <1>5 DEF Export, Working, LockStands, TypeOK
  <2>2. Stage = 2 /\ Stage' = 1
    BY <2>1 DEF Stage
  <2>3. Stored = {} /\ Stored' = {}
    BY <2>1 DEF Stored
  <2> QED BY <2>1, <2>2, <2>3, FS_EmptySet DEF HoldLeft, SizesAreNatural
<1>6. ASSUME Sweep PROVE HoldLeft' < HoldLeft
  <2>1. CASE EndSweep
    BY <1>3, <2>1 DEF EndSweep
  <2>2. ASSUME NEW k \in lock.keys, DeleteExport(k) PROVE HoldLeft' < HoldLeft
    <3>1. lock' = lock /\ k \in Stored /\ store' = {b \in store : b.key # k}
      BY <2>2 DEF DeleteExport, process, Stored
    <3>2. Stored' = Stored \ {k}
      BY <3>1 DEF Stored
    <3>3. Cardinality(Stored') = Cardinality(Stored) - 1
      BY <1>1, <3>1, <3>2, FS_RemoveElement DEF SizesAreNatural
    <3>4. Stage' = Stage /\ Cardinality(lock'.keys) = Cardinality(lock.keys)
      BY <3>1 DEF Stage
    <3> QED BY <1>1, <3>3, <3>4 DEF HoldLeft, SizesAreNatural
  <2>3. ASSUME NEW k \in lock.keys, MarkDeleted(k) PROVE HoldLeft' < HoldLeft
    <3>1. lock'.keys = lock.keys \ {k} /\ lock'.step = lock.step /\ store' = store /\ k \notin Stored
      BY <1>0, <2>3 DEF MarkDeleted, Stored, TypeOK
    <3>2. Stored' = Stored
      BY <3>1 DEF Stored
    <3>3. Cardinality(lock'.keys) = Cardinality(lock.keys) - 1
      BY <1>1, <2>3, <3>1, FS_RemoveElement DEF SizesAreNatural
    <3>4. Stage' = Stage
      BY <3>1 DEF Stage
    <3> QED BY <1>1, <3>2, <3>3, <3>4 DEF HoldLeft, SizesAreNatural
  <2> QED BY <1>6, <2>1, <2>2, <2>3 DEF Sweep
<1>7. ASSUME (\E r \in Requests : Begin(r)) \/ BeginSweep PROVE FALSE
  BY <1>7 DEF Begin, Waiting, BeginSweep
<1>8. ASSUME (\E r \in Requests : Claim(r)) \/ UNCHANGED vars PROVE UNCHANGED <<lock, store>>
  BY <1>8 DEF Claim, vars, process
<1>9. ASSUME Restart PROVE lock' = Free
  BY <1>9 DEF Restart
<1> QED BY <1>3, <1>4, <1>5, <1>6, <1>7, <1>8, <1>9 DEF Next, Serve, Proceed

\* request_lock and _claim: a claim of this process always has a task that carries it, and
\* whoever holds the lock, request or sweep, takes finitely many steps and gives it back.
THEOREM ClaimsAreNeverOrphaned == Spec => [](ClaimsAreCarried /\ HoldsAreBounded) /\ LocksAreGivenBack
<1> DEFINE Inv == ServiceInv /\ ClaimsAreCarried /\ SweepIsFinite
<1>1. Init => Inv
  <2>1. ASSUME Init PROVE ClaimsAreCarried /\ SweepIsFinite
    <3>1. Recorded = {} /\ gc = {} /\ lock.keys = {}
      BY <2>1 DEF Init, Recorded, Free
    <3>2. ClaimsAreCarried
      BY <2>1 DEF Init, ClaimsAreCarried, Outcome
    <3> QED BY <3>1, <3>2, FS_EmptySet DEF SweepIsFinite
  <2> QED BY <2>1, ServiceInvStarts
<1>2. Inv /\ [Next]_vars => Inv'
  BY ServiceInvSteps, CarriedStep, SweepFiniteStep
<1>3. Inv => ClaimsAreCarried /\ HoldsAreBounded
  BY HoldIsNatural
<1>4. Inv /\ Inv' /\ [Next]_vars => [lock # Free => HoldLeft' < HoldLeft \/ UNCHANGED <<lock, store>>]_vars
  BY HoldStep
<1> QED BY <1>1, <1>2, <1>3, <1>4, PTL DEF Spec, LocksAreGivenBack

-----------------------------------------------------------------------------
(* The service is the server that its client was written for.              *)

\* A request that makes a State; the others decide or release one.
Making(r) == asked[r].op \notin {"commit", "rollback", "release"}

\* A State is recorded with its request, its parent was recorded before it, and a caller
\* names what it knows.
LineageStands ==
    /\ \A s \in Recorded : state[s].parent \in Recorded \cup {None}
    /\ \A r \in Requests : Has(r, "ok") /\ Making(r) => r \in Recorded
    /\ wanted \in [Callers -> Payload \cup {None}]
    /\ \A c \in Callers : wanted[c] # None => wanted[c].refs \subseteq Recorded

\* Rows are only written on: a binding stays, and so does a result.
RowsStay ==
    \A r \in Requests :
        /\ status[r] # "absent" => status'[r] # "absent" /\ asked'[r] = asked[r]
        /\ status[r] = "completed" => status'[r] = "completed" /\ answer'[r] = answer[r]
        /\ status[r] = "absent" /\ ~Claim(r) => status'[r] = "absent"
        /\ status[r] # "completed" /\ Has(r, "ok")' /\ Making(r)' => r \in Recorded'

LEMMA ResolvesStay ==
    ASSUME JournalInv, NEW r \in tasks, NEW result \in {"ok", "refused"}, Resolve(r, result),
           Recorded \subseteq Recorded', result = "ok" /\ Making(r) => r \in Recorded'
    PROVE  RowsStay
<1>1. r \in Requests /\ status[r] = "pending"
  BY DEF JournalInv, TypeOK, RequestsStand
<1>2. /\ status' = [status EXCEPT ![r] = "completed"] /\ answer' = [answer EXCEPT ![r] = result]
      /\ asked' = asked
  BY DEF Resolve
<1>3. \A q \in Requests \ {r} : status'[q] = status[q] /\ answer'[q] = answer[q]
  BY <1>1, <1>2 DEF JournalInv, TypeOK
<1>4. status'[r] = "completed" /\ answer'[r] = result
  BY <1>1, <1>2 DEF JournalInv, TypeOK
<1> QED BY <1>1, <1>2, <1>3, <1>4 DEF RowsStay, Has, Making

LEMMA RowsStep ==
    ASSUME JournalInv, [Next]_vars
    PROVE  RowsStay /\ StatesGrow /\ Recorded \subseteq Recorded' /\ epoch <= epoch'
<1>0. TypeOK /\ epoch \in Nat
  BY Names DEF JournalInv, TypeOK
<1>1. ASSUME NEW r \in Requests, Claim(r)
      PROVE  RowsStay /\ StatesGrow /\ Recorded \subseteq Recorded' /\ epoch' = epoch
  <2>1. /\ status[r] = "absent" /\ status' = [status EXCEPT ![r] = "pending"]
        /\ \E payload : asked' = [asked EXCEPT ![r] = payload]
        /\ UNCHANGED <<epoch, answer, state>>
    BY <1>1 DEF Claim
  <2>2. /\ \A q \in Requests \ {r} : status'[q] = status[q] /\ asked'[q] = asked[q]
        /\ status'[r] = "pending"
    BY <1>0, <2>1 DEF TypeOK
  <2>3. StatesGrow /\ Recorded' = Recorded
    BY <1>0, <2>1, NothingMade
  <2> QED BY <1>1, <2>1, <2>2, <2>3 DEF RowsStay, Has
<1>2. ASSUME NEW r \in Requests, Retire(r)
      PROVE  RowsStay /\ StatesGrow /\ Recorded' = Recorded /\ epoch' = epoch
  <2>1. /\ r \in tasks /\ Resolve(r, "ok") /\ asked[r].op \in {"rollback", "release"}
        /\ StatesGrow /\ Recorded' = Recorded
    BY <1>2, RetireIs
  <2> QED BY <2>1, ResolvesStay DEF Making, Resolve
<1>3. ASSUME NEW r \in Requests, Refuse(r) \/ Reject(r)
      PROVE  RowsStay /\ StatesGrow /\ Recorded' = Recorded /\ epoch' = epoch
  <2>1. r \in tasks /\ Resolve(r, "refused") /\ state' = state
    BY <1>3, Names DEF Refuse, Reject, Waiting, Working, JournalInv, LockStands
  <2>2. StatesGrow /\ Recorded' = Recorded
    BY <1>0, <2>1, NothingMade
  <2> QED BY <2>1, <2>2, ResolvesStay DEF Resolve
<1>4. ASSUME NEW r \in Requests, Complete(r)
      PROVE  RowsStay /\ StatesGrow /\ Recorded \subseteq Recorded' /\ epoch' = epoch
  <2>1. /\ r \in tasks /\ Resolve(r, "ok") /\ StatesGrow /\ Recorded \subseteq Recorded'
        /\ asked[r].op # "commit" => r \in Recorded'
    BY <1>4, CompleteIs
  <2> QED BY <2>1, ResolvesStay DEF Making, Resolve
<1>5. ASSUME NEW r \in Requests, Break(r)
      PROVE  RowsStay /\ StatesGrow /\ Recorded' = Recorded /\ epoch' = epoch
  <2>1. status[r] = "pending"
    BY <1>5, Names DEF Break, JournalInv, LockStands, RequestsStand
  <2>2. UNCHANGED <<state, asked, answer, epoch>> /\ status' = [status EXCEPT ![r] = "unknown"]
    BY <1>5 DEF Break
  <2>3. \A q \in Requests \ {r} : status'[q] = status[q]
    BY <1>0, <2>2 DEF TypeOK
  <2>4. status'[r] = "unknown"
    BY <1>0, <2>2 DEF TypeOK
  <2>5. StatesGrow /\ Recorded' = Recorded
    BY <1>0, <2>2, NothingMade
  <2> QED BY <2>1, <2>2, <2>3, <2>4, <2>5 DEF RowsStay, Has
<1>6. CASE BeginSweep \/ Sweep \/ Restart \/ UNCHANGED vars \/ \E r \in Requests : Begin(r) \/ Export(r)
  <2>1. UNCHANGED <<state, asked, status, answer>> /\ (epoch' = epoch \/ epoch' = epoch + 1)
    BY <1>6 DEF BeginSweep, Sweep, EndSweep, DeleteExport, MarkDeleted, Restart, Begin, Export, journal, vars
  <2>2. StatesGrow /\ Recorded' = Recorded
    BY <1>0, <2>1, NothingMade
  <2> QED BY <1>0, <2>1, <2>2 DEF RowsStay, Has
<1> QED BY <1>0, <1>1, <1>2, <1>3, <1>4, <1>5, <1>6 DEF Next, Serve, Proceed

\* A State that is new has its parent among the inputs of its request.
LEMMA ParentsStay ==
    ASSUME JournalInv, [Next]_vars, NEW s \in Recorded', s \notin Recorded
    PROVE  state'[s].parent \in Recorded \cup {None}
<1>0. TypeOK
  BY DEF JournalInv
<1>1. PICK r \in Requests : Complete(r)
  <2>1. ASSUME NEW r \in Requests, Retire(r) PROVE Recorded' = Recorded
    BY <2>1, RetireIs
  <2>2. ASSUME NEW r \in Requests, Claim(r) \/ Begin(r) \/ Refuse(r) \/ Export(r) \/ Reject(r) \/ Break(r)
        PROVE  state' = state
    BY <2>2 DEF Claim, Begin, Refuse, Export, Reject, Break, journal
  <2>3. CASE BeginSweep \/ Sweep \/ Restart \/ UNCHANGED vars
    BY <2>3 DEF BeginSweep, Sweep, EndSweep, DeleteExport, MarkDeleted, Restart, journal, vars, Recorded
  <2> QED BY <2>1, <2>2, <2>3 DEF Next, Serve, Proceed, Recorded
<1>2. r \in tasks /\ asked[r].op # "commit"
      /\ s = r /\ asked[r].op \notin {"release", "rollback"}
  BY <1>1, CompleteIs
<1>3. state' = [state EXCEPT ![r] = Made(r)] /\ Bound(asked[r])
  BY <1>1, <1>2 DEF Complete, JournalInv, RequestsStand
<1>4. state'[r] = Made(r)
  BY <1>0, <1>3 DEF TypeOK
<1>5. CASE asked[r].op = "create"
  BY <1>2, <1>4, <1>5 DEF Made
<1>6. CASE asked[r].op # "create"
  <2>1. PICK t \in Recorded : asked[r].refs = {t}
    BY <1>2, <1>3, <1>6 DEF Bound
  <2>2. (CHOOSE q \in asked[r].refs : TRUE) = t
    BY <2>1
  <2> QED BY <1>2, <1>4, <2>1, <2>2 DEF Made
<1> QED BY <1>5, <1>6

LEMMA LineageStarts == ASSUME ServiceInit PROVE LineageStands
<1>1. Recorded = {} /\ \A r \in Requests : status[r] = "absent"
  BY DEF ServiceInit, Init, Recorded
<1>2. wanted = [c \in Callers |-> None]
  BY DEF ServiceInit
<1> QED BY <1>1, <1>2 DEF LineageStands, Has

\* Every step of the composition is one of the service, or leaves it alone.
LEMMA ServiceSteps ==
    ASSUME [ServiceNext]_allVars
    PROVE  [Next]_vars
<1>1. CASE Service
  <2>1. CASE Unused # {} /\ Claim(CHOOSE r \in Unused : TRUE)
    <3>1. (CHOOSE r \in Unused : TRUE) \in Requests
      BY <2>1 DEF Unused
    <3> QED BY <2>1, <3>1 DEF Next
  <2> QED BY <1>1, <2>1 DEF Service, Next
<1>2. ASSUME NEW c \in Callers, Call(c) PROVE UNCHANGED vars
  BY <1>2 DEF Call, Post, Reply, Query, GiveUp
<1>3. ASSUME NEW c \in Callers, NEW n \in 1..MaxAttempts, Arrive(c, n) PROVE [Next]_vars
  BY <1>3, ServiceAssumption DEF Arrive, Next
<1>4. CASE UNCHANGED allVars
  BY <1>4 DEF allVars
<1> QED BY <1>1, <1>2, <1>3, <1>4 DEF ServiceNext

\* A caller prepares its request once.
LEMMA WantedStays ==
    ASSUME [ServiceNext]_allVars
    PROVE  \/ wanted' = wanted
           \/ \E c \in Callers, payload \in Requestable :
                 wanted[c] = None /\ wanted' = [wanted EXCEPT ![c] = payload] /\ Post(c)
<1>1. ASSUME NEW c \in Callers, Call(c), ~Post(c) PROVE wanted' = wanted
  BY <1>1 DEF Call, Reply, Query, GiveUp
<1> QED BY <1>1 DEF ServiceNext, Service, callVars, allVars, Arrive, Post

LEMMA LineageStep ==
    ASSUME JournalInv, LineageStands, [ServiceNext]_allVars
    PROVE  LineageStands'
<1>1. [Next]_vars
  BY ServiceSteps
<1>2. RowsStay /\ StatesGrow /\ Recorded \subseteq Recorded'
  BY <1>1, RowsStep
<1>3. ASSUME NEW s \in Recorded' PROVE state'[s].parent \in Recorded' \cup {None}
  BY <1>1, <1>2, <1>3, ParentsStay DEF LineageStands, StatesGrow
<1>4. ASSUME NEW r \in Requests, Has(r, "ok")', Making(r)' PROVE r \in Recorded'
  <2>1. CASE status[r] = "completed"
    BY <1>2, <1>4, <2>1 DEF RowsStay, LineageStands, Has, Making
  <2> QED BY <1>2, <1>4, <2>1 DEF RowsStay
<1>5. ASSUME NEW c \in Callers, wanted'[c] # None PROVE wanted'[c].refs \subseteq Recorded'
  <2>1. CASE wanted'[c] = wanted[c]
    BY <1>2, <1>5, <2>1 DEF LineageStands
  <2>2. CASE wanted'[c] # wanted[c]
    <3>1. wanted'[c] \in Requestable
      BY <2>2, WantedStays DEF LineageStands
    <3> QED BY <1>2, <3>1 DEF Requestable
  <2> QED BY <2>1, <2>2
<1>6. wanted' \in [Callers -> Payload \cup {None}]
  <2>1. Requestable \subseteq Payload
    BY NativeAssumption DEF Requestable, Payload, Recorded
  <2> QED BY <2>1, WantedStays DEF LineageStands
<1> QED BY <1>3, <1>4, <1>5, <1>6 DEF LineageStands

\* A dead State stays dead, in whatever process comes later.
LEMMA DeadStays ==
    ASSUME JournalInv, StatesGrow, epoch' \in Nat, epoch <= epoch', NEW s \in Recorded, Dead(s)
    PROVE  Dead(s)'
<1>1. state[s].epoch \in 0..epoch /\ epoch \in Nat
  BY Names DEF JournalInv, TypeOK, StatesStand
<1> QED BY <1>1 DEF StatesGrow, Dead, Resident

\* What is gone is gone.
LEMMA GoneStays ==
    ASSUME JournalInv, JournalInv', LineageStands, [Next]_vars, NEW c \in Gone,
           wanted'[c] = wanted[c], status[c] = "absent" => status'[c] = "absent"
    PROVE  c \in Gone'
<1>0. c \in Callers
  BY DEF Gone
<1>1. RowsStay /\ StatesGrow /\ Recorded \subseteq Recorded' /\ epoch <= epoch' /\ epoch' \in Nat /\ c \in Requests
  BY <1>0, RowsStep, Names, ServiceAssumption DEF JournalInv, TypeOK
<1>2. CASE Retiring(c)
  <2>1. PICK s \in Inputs(wanted[c]) : s \notin Live
    BY <1>2 DEF Retiring
  <2>2. /\ status'[c] = "absent" /\ wanted'[c] # None /\ wanted'[c].op # "release"
        /\ wanted[c].refs \subseteq Recorded
    BY <1>0, <1>2 DEF Retiring, LineageStands
  <2>3. s \in Inputs(wanted[c])' /\ s \in Recorded
    <3>1. CASE s \in wanted[c].refs
      BY <1>1, <2>2, <3>1 DEF Inputs
    <3>2. CASE s \notin wanted[c].refs
      <4>1. PICK t \in wanted[c].refs : wanted[c].op = "rollback" /\ s = state[t].parent /\ s # None
        BY <2>1, <3>2 DEF Inputs
      <4>2. t \in Recorded /\ state'[t].parent = s
        BY <1>1, <2>2, <4>1 DEF StatesGrow
      <4>3. s \in Recorded
        BY <4>1, <4>2 DEF LineageStands
      <4>4. s \in Inputs(wanted[c])'
        BY <4>1, <4>2 DEF Inputs
      <4> QED BY <4>3, <4>4
    <3> QED BY <2>2, <3>1, <3>2
  <2>4. s \notin Live'
    BY <1>1, <2>1, <2>3, LiveShrinks
  <2> QED BY <1>0, <2>2, <2>3, <2>4 DEF Gone, Retiring
<1>3. CASE Has(c, "ok") /\ \E s \in States(c) : Dead(s)
  <2>1. PICK s \in States(c) : Dead(s)
    BY <1>3
  <2>2. status[c] = "completed" /\ Bound(asked[c])
    BY <1>1, <1>3 DEF Has, JournalInv, RequestsStand
  <2>3. Has(c, "ok")' /\ States(c)' = States(c)
    BY <1>1, <1>3, <2>2 DEF RowsStay, Has, States
  <2>4. s \in Recorded
    BY <1>1, <1>3, <2>1, <2>2 DEF States, Bound, LineageStands, Making
  <2>5. Dead(s)'
    BY <1>1, <2>1, <2>4, DeadStays
  <2> QED BY <1>0, <2>1, <2>3, <2>5 DEF Gone
<1> QED BY <1>2, <1>3 DEF Gone

LEMMA NothingSeen ==
    ASSUME UNCHANGED vars
    PROVE  /\ Reported' = Reported /\ Served' = Served /\ Shown' = Shown
           /\ \A c \in Callers : wanted'[c] = wanted[c] => (c \in Gone' <=> c \in Gone)
<1>1. UNCHANGED <<epoch, status, owner, asked, answer, state, gc, tasks, lock, store, invocations>>
  BY DEF vars, journal, process
<1>2. Told' = Told /\ Recorded' = Recorded /\ Live' = Live
  BY <1>1 DEF Told, Outcome, Recorded, Live
<1>3. ASSUME NEW c \in Callers, wanted'[c] = wanted[c] PROVE c \in Gone' <=> c \in Gone
  <2>1. Retiring(c)' <=> Retiring(c)
    BY <1>1, <1>2, <1>3 DEF Retiring, Inputs
  <2>2. (Has(c, "ok") /\ \E s \in States(c) : Dead(s))' <=> (Has(c, "ok") /\ \E s \in States(c) : Dead(s))
    BY <1>1, <1>2 DEF Has, States, Dead, Resident
  <2> QED BY <2>1, <2>2 DEF Gone
<1> QED BY <1>1, <1>2, <1>3 DEF Reported, Served, Shown

LEMMA WireStarts == ASSUME ServiceInit PROVE Wire!Init
<1>1. Reported = [c \in Callers |-> "new"] /\ Served = [c \in Callers |-> 0]
  BY ServiceAssumption, Names DEF ServiceInit, Init, Reported, Served, Told, Outcome
<1>2. Shown = {} /\ Gone = {}
  BY ServiceAssumption DEF ServiceInit, Init, Shown, Gone, Recorded, Retiring, Has
<1> QED BY <1>1, <1>2 DEF ServiceInit, Wire!Init, Wire!Journal!Init, Reported, Served, Shown, Gone

\* A step of the journal is one for the callers, or none of their requests is touched.
LEMMA CallersSeeOnce ==
    ASSUME TypeOK, [Once!Next]_(Once!vars)
    PROVE  \/ UNCHANGED <<Reported, Served, Shown>>
           \/ Wire!Journal!Lose
           \/ \E c \in Callers : Wire!Journal!Claim(c) \/ Wire!Journal!Serve(c) \/ Wire!Journal!Answer(c)
<1>0. Callers \subseteq Requests /\ DOMAIN invocations = Requests
      /\ invocations = [r \in Requests |-> invocations[r]] /\ Told = [r \in Requests |-> Told[r]]
  BY ServiceAssumption, ToldIs DEF TypeOK
<1>1. CASE UNCHANGED Once!vars
  BY <1>1 DEF Once!vars, Reported, Served, Shown, Told
<1>2. CASE Once!Lose
  <2>1. PICK lost \in SUBSET {r \in Requests : Told[r] = "claimed"} :
           Told' = [r \in Requests |-> IF r \in lost THEN "unknown" ELSE Told[r]]
    BY <1>2 DEF Once!Lose, Told
  <2>2. UNCHANGED <<invocations, Recorded>>
    BY <1>2 DEF Once!Lose
  <2>3. lost \cap Callers \in SUBSET {c \in Callers : Reported[c] = "claimed"}
    BY <2>1 DEF Reported
  <2>4. Reported' = [c \in Callers |-> IF c \in lost \cap Callers THEN "unknown" ELSE Reported[c]]
    BY <1>0, <2>1 DEF Reported
  <2> QED BY <2>2, <2>3, <2>4 DEF Wire!Journal!Lose, Reported, Served, Shown
<1>3. ASSUME NEW r \in Requests, Once!Claim(r) \/ Once!Serve(r) \/ Once!Answer(r)
      PROVE  \/ UNCHANGED <<Reported, Served, Shown>>
             \/ r \in Callers /\ (Wire!Journal!Claim(r) \/ Wire!Journal!Serve(r) \/ Wire!Journal!Answer(r))
  <2>1. CASE r \notin Callers
    <3>1. \A c \in Callers : Told'[c] = Told[c] /\ invocations'[c] = invocations[c]
      BY <1>0, <1>3, <2>1, ToldIs, ToldNext DEF Once!Claim, Once!Serve, Once!Answer, TypeOK
    <3>2. Shown' = Shown
      BY <1>3, <2>1 DEF Once!Claim, Once!Serve, Once!Answer, Shown
    <3> QED BY <3>1, <3>2 DEF Reported, Served
  <2>2. CASE r \in Callers /\ Once!Claim(r)
    <3>1. Reported' = [Reported EXCEPT ![r] = "claimed"] /\ Reported[r] = "new" /\ UNCHANGED <<Served, Shown>>
      BY <1>0, <2>2 DEF Once!Claim, Told, Reported, Served, Shown
    <3> QED BY <2>2, <3>1 DEF Wire!Journal!Claim, Reported, Served, Shown
  <2>3. CASE r \in Callers /\ Once!Serve(r)
    <3>0. /\ Told[r] = "claimed" /\ invocations[r] = 0 /\ invocations' = [invocations EXCEPT ![r] = 1]
          /\ Told' = Told /\ Recorded' = Recorded
      BY <2>3 DEF Once!Serve
    <3>1. Served' = [Served EXCEPT ![r] = 1] /\ Served[r] = 0 /\ Reported[r] = "claimed" /\ UNCHANGED <<Reported, Shown>>
      BY <1>0, <2>3, <3>0 DEF Reported, Served, Shown
    <3> QED BY <2>3, <3>1 DEF Wire!Journal!Serve, Reported, Served, Shown
  <2>4. CASE r \in Callers /\ Once!Answer(r)
    <3>0. /\ Told[r] = "claimed" /\ invocations[r] \in {0, 1} /\ invocations' = [invocations EXCEPT ![r] = 1]
          /\ \/ Told' = [Told EXCEPT ![r] = "done"] /\ Recorded' \in {Recorded, Recorded \cup {r}}
             \/ Told' = [Told EXCEPT ![r] = "refused"] /\ Recorded' = Recorded
      BY <2>4 DEF Once!Answer
    <3>1. /\ Served' = [Served EXCEPT ![r] = 1] /\ Served[r] \in {0, 1} /\ Reported[r] = "claimed"
          /\ \/ Reported' = [Reported EXCEPT ![r] = "done"] /\ Shown' \in {Shown, Shown \cup {r}}
             \/ Reported' = [Reported EXCEPT ![r] = "refused"] /\ Shown' = Shown
      BY <1>0, <2>4, <3>0 DEF Reported, Served, Shown
    <3> QED BY <2>4, <3>1 DEF Wire!Journal!Answer, Reported, Served, Shown
  <2> QED BY <1>3, <2>1, <2>2, <2>3, <2>4
<1> QED BY <1>1, <1>2, <1>3 DEF Once!Next

\* The service's own steps are steps of the server.
LEMMA ServiceServes ==
    ASSUME ServiceInv, ServiceInv', LineageStands, Service
    PROVE  Wire!Server
<1>0. JournalInv /\ JournalInv' /\ TypeOK /\ Callers \subseteq Requests
  BY ServiceAssumption DEF ServiceInv, JournalInv
<1>1. [Next]_vars /\ UNCHANGED callVars
  BY ServiceSteps DEF Service, ServiceNext
<1>2. ASSUME NEW c \in Callers, status[c] = "absent" PROVE status'[c] = "absent"
  <2>1. CASE Unused # {} /\ Claim(CHOOSE r \in Unused : TRUE)
    <3>1. PICK r \in Requests \ Callers : Claim(r)
      BY <2>1 DEF Unused
    <3> QED BY <1>0, <1>2, <3>1 DEF Claim, TypeOK
  <2>2. ASSUME NEW r \in Requests, Serve(r) \/ Proceed(r) PROVE status'[c] = "absent"
    <3>1. status' = status \/ (r \in tasks /\ \E v : status' = [status EXCEPT ![r] = v])
      BY <1>0, <2>2, Names DEF Serve, Proceed, Begin, Retire, Refuse, Waiting, Export, Complete, Reject, Break,
         Working, Resolve, journal, JournalInv, LockStands
    <3>2. r \in tasks => status[r] = "pending"
      BY <1>0 DEF JournalInv, RequestsStand
    <3> QED BY <1>0, <1>2, <3>1, <3>2 DEF TypeOK
  <2>3. CASE BeginSweep \/ Sweep \/ Restart
    BY <1>2, <2>3 DEF BeginSweep, Sweep, EndSweep, DeleteExport, MarkDeleted, Restart, journal
  <2> QED BY <2>1, <2>2, <2>3 DEF Service
<1>3. UNCHANGED <<wanted, client, attempt, misses, seen, flying, arrived>>
  BY <1>1 DEF callVars
<1>4. Gone \subseteq Gone'
  <2>1. ASSUME NEW c \in Gone PROVE c \in Gone'
    BY <1>0, <1>1, <1>2, <1>3, <2>1, GoneStays DEF Gone
  <2> QED BY <2>1
<1>5. \A c \in Callers : ~Wire!Journal!Claim(c)
  <2>1. SUFFICES ASSUME NEW c \in Callers, Wire!Journal!Claim(c) PROVE FALSE
    OBVIOUS
  <2>2. Reported[c] = "new" /\ Reported' = [Reported EXCEPT ![c] = "claimed"]
    BY <2>1 DEF Wire!Journal!Claim, Reported
  <2>3. Told[c] = "new" /\ Told'[c] = "claimed" /\ status[c] \in {"absent", "pending", "unknown", "completed"}
    BY <1>0, <2>2 DEF Reported, TypeOK
  <2>4. status[c] = "absent"
    BY <1>0, <2>3, ToldIs
  <2> QED BY <1>0, <1>2, <2>3, <2>4, ToldNext
<1>6. \/ UNCHANGED <<Reported, Served, Shown>>
      \/ Wire!Journal!Lose
      \/ \E c \in Callers : Wire!Journal!Serve(c) \/ Wire!Journal!Answer(c)
  BY <1>0, <1>1, <1>5, OnceStep, CallersSeeOnce
<1> QED
  BY <1>3, <1>4, <1>6 DEF Wire!Server, Wire!serverVars, Wire!clientVars, Wire!networkVars, Reported, Served, Shown, Gone

\* A POST that arrives finds what the client expects of its server.
LEMMA ArrivalsServe ==
    ASSUME ServiceInv, ServiceInv', LineageStands, NEW c \in Callers, NEW n \in 1..MaxAttempts, Arrive(c, n)
    PROVE  Wire!Arrive(c, n)
<1>0. JournalInv /\ JournalInv' /\ TypeOK /\ Callers \subseteq Requests /\ c \in Requests
  BY ServiceAssumption DEF ServiceInv, JournalInv
<1>1. /\ n \in flying[c] /\ flying' = [flying EXCEPT ![c] = @ \ {n}]
      /\ arrived' = [arrived EXCEPT ![c] = IF Wire!Awaited(c, n) THEN {n} ELSE @]
      /\ UNCHANGED <<wanted, client, attempt, misses, seen>>
  BY DEF Arrive
<1>2. CASE UNCHANGED vars
  <2>1. Reported' = Reported /\ Served' = Served /\ Shown' = Shown /\ Gone' = Gone
    BY <1>1, <1>2, NothingSeen DEF Gone
  <2> QED BY <1>1, <2>1 DEF Wire!Arrive, Wire!serverVars, Wire!clientVars, Reported, Served, Shown, Gone
<1>3. CASE Claim(c) /\ asked'[c] = wanted[c]
  <2>1. /\ status[c] = "absent" /\ status' = [status EXCEPT ![c] = "pending"]
        /\ owner' = [owner EXCEPT ![c] = epoch] /\ UNCHANGED <<epoch, answer, state, invocations>>
    BY <1>3 DEF Claim
  <2>2. PICK payload \in Requestable : /\ payload.op # "release" => Inputs(payload) \subseteq Live
                                       /\ asked' = [asked EXCEPT ![c] = payload]
    BY <1>3 DEF Claim
  <2>3. wanted[c] = payload
    BY <1>0, <1>3, <2>2 DEF TypeOK
  <2>4. c \notin Gone
    BY <2>1, <2>2, <2>3 DEF Gone, Retiring, Has
  <2>5. \A q \in Requests \ {c} : status'[q] = status[q] /\ owner'[q] = owner[q] /\ asked'[q] = asked[q]
    BY <1>0, <2>1, <2>2 DEF TypeOK
  <2>6. status'[c] = "pending" /\ owner'[c] = epoch
    BY <1>0, <2>1 DEF TypeOK
  <2>7. Told[c] = "new" /\ Told'[c] = "claimed"
    BY <1>0, <2>1, <2>6, ToldIs, ToldNext
  <2>8. \A q \in Requests \ {c} : Told'[q] = Told[q]
    BY <1>0, <2>1, <2>5, ToldStays
  <2>9. Recorded' = Recorded /\ Live' = Live
    BY <2>1 DEF Recorded, Live
  <2>10. Reported' = [Reported EXCEPT ![c] = "claimed"] /\ Reported[c] = "new" /\ UNCHANGED <<Served, Shown>>
    BY <1>0, <2>1, <2>7, <2>8, <2>9 DEF Reported, Served, Shown
  <2>11. c \notin Gone'
    BY <2>6 DEF Gone, Retiring, Has
  <2>12. ASSUME NEW q \in Callers, q # c PROVE q \in Gone' <=> q \in Gone
    <3>1. Retiring(q)' <=> Retiring(q)
      BY <1>0, <1>1, <2>1, <2>5, <2>9, <2>12 DEF Retiring, Inputs
    <3>2. (Has(q, "ok") /\ \E s \in States(q) : Dead(s))' <=> (Has(q, "ok") /\ \E s \in States(q) : Dead(s))
      BY <1>0, <2>1, <2>5, <2>12 DEF Has, States, Dead, Resident
    <3> QED BY <3>1, <3>2 DEF Gone
  <2>13. Gone' = Gone
    BY <2>4, <2>11, <2>12 DEF Gone
  <2> QED
    BY <1>1, <2>4, <2>10, <2>13 DEF Wire!Arrive, Wire!Journal!Claim, Wire!clientVars, Reported, Served, Shown, Gone
<1> QED BY <1>2, <1>3 DEF Arrive

\* A caller does what the client does.
LEMMA CallersCall ==
    ASSUME ServiceInv, LineageStands, NEW c \in Callers, Call(c)
    PROVE  Wire!Client(c)
<1>0. TypeOK /\ c \in Requests
  BY ServiceAssumption DEF ServiceInv, JournalInv
<1>1. UNCHANGED vars
  BY DEF Call, Post, Reply, Query, GiveUp
<1>2. /\ Reported' = Reported /\ Served' = Served /\ Shown' = Shown
      /\ \A q \in Callers : wanted'[q] = wanted[q] => (q \in Gone' <=> q \in Gone)
  BY <1>1, NothingSeen
<1>3. CASE Post(c)
  <2>1. \A q \in Callers \ {c} : wanted'[q] = wanted[q]
    BY <1>3 DEF Post, LineageStands
  <2>2. c \in Gone => c \in Gone'
    <3>1. CASE wanted'[c] = wanted[c]
      BY <1>2, <3>1
    <3>2. CASE wanted'[c] # wanted[c]
      <4>1. wanted[c] = None
        BY <1>3, <3>2 DEF Post
      <4>2. UNCHANGED <<epoch, status, asked, answer, state>>
        BY <1>1 DEF vars, journal
      <4> QED BY <4>1, <4>2 DEF Gone, Retiring, Has, States, Dead, Resident
    <3> QED BY <3>1, <3>2
  <2>3. Gone' \in {Gone, Gone \cup {c}}
    BY <1>2, <2>1, <2>2 DEF Gone
  <2> QED BY <1>2, <1>3, <2>3 DEF Post, Wire!Client, Wire!Post, Wire!serverVars, Reported, Served, Shown, Gone
<1>4. CASE ~Post(c)
  <2>1. wanted' = wanted
    BY <1>4 DEF Call, Reply, Query, GiveUp
  <2>2. Gone' = Gone
    BY <1>2, <2>1 DEF Gone
  <2>3. CASE Reply(c)
    <3>1. Replays(c) => Reported[c] = "done"
      BY <1>0, ToldIs DEF Replays, Has, Reported
    <3>2. Retiring(c) => Reported[c] = "new" /\ c \in Gone
      BY <1>0, ToldIs DEF Retiring, Reported, Gone
    <3>3. Lost(c) => Reported[c] = "done" /\ c \in Gone
      BY <1>0, ToldIs DEF Lost, Has, Reported, Gone, Dead
    <3>4. Has(c, "refused") => Reported[c] = "refused"
      BY <1>0, ToldIs DEF Has, Reported
    <3> QED
      BY <1>2, <2>2, <2>3, <3>1, <3>2, <3>3, <3>4
      DEF Reply, Wire!Client, Wire!Reply, Wire!serverVars, Wire!networkVars, Reported, Served, Shown, Gone
  <2>4. CASE Query(c)
    <3>1. Reported[c] = Told[c]
      BY DEF Reported
    <3> QED
      BY <1>2, <2>2, <2>4, <3>1
      DEF Query, Wire!Client, Wire!Query, Wire!serverVars, Wire!networkVars, Reported, Served, Shown, Gone
  <2>5. CASE GiveUp(c) \/ Wire!Disconnect(c) \/ Wire!Conclude(c) \/ Wire!Confirm(c) \/ Wire!Resubmit(c)
    BY <2>5 DEF GiveUp, Wire!Client
  <2> QED BY <1>4, <2>3, <2>4, <2>5 DEF Call
<1> QED BY <1>3, <1>4

LEMMA WireStep ==
    ASSUME ServiceInv, ServiceInv', LineageStands, [ServiceNext]_allVars
    PROVE  [Wire!Next]_(Wire!vars)
<1>1. CASE UNCHANGED allVars
  <2>1. UNCHANGED <<vars, wanted, client, attempt, misses, seen, flying, arrived>>
    BY <1>1 DEF allVars, callVars
  <2>2. Reported' = Reported /\ Served' = Served /\ Shown' = Shown /\ Gone' = Gone
    BY <2>1, NothingSeen DEF Gone
  <2> QED
    BY <2>1, <2>2 DEF Wire!vars, Wire!serverVars, Wire!clientVars, Wire!networkVars, Reported, Served, Shown, Gone
<1>2. CASE Service
  BY <1>2, ServiceServes DEF Wire!Next
<1>3. ASSUME NEW c \in Callers, Call(c) PROVE Wire!Next
  BY <1>3, CallersCall DEF Wire!Next
<1>4. ASSUME NEW c \in Callers, NEW n \in 1..MaxAttempts, Arrive(c, n) PROVE Wire!Next
  BY <1>4, ArrivalsServe DEF Wire!Next
<1> QED BY <1>1, <1>2, <1>3, <1>4 DEF ServiceNext

\* Callers do not disturb the service.
LEMMA ServiceIsServed == ServiceSpec => Spec /\ [](ServiceInv /\ LineageStands)
<1>1. ServiceInit => Init /\ LineageStands
  BY LineageStarts DEF ServiceInit
<1>2. ServiceSpec => Spec
  BY <1>1, ServiceSteps, PTL DEF ServiceSpec, Spec
<1>3. ServiceInv => JournalInv
  BY DEF ServiceInv
<1> QED BY <1>1, <1>2, <1>3, LineageStep, ServiceInvAlways, PTL DEF ServiceSpec

\* The service is the server that its client was written for, for any number of requests,
\* callers and restarts: what a caller sees of retired, lost and undecided States is what
\* _native_request expects (_claim, recover, _recover_current_states).
THEOREM ServiceServesTheClient == ServiceSpec => ServesTheClient
BY WireStarts, WireStep, ServiceIsServed, PTL DEF ServiceSpec, ServesTheClient, Wire!Spec

\* The theorems about the client.
Proved == INSTANCE NativeClientProofs WITH
    Requests <- Callers, outcome <- Reported, served <- Served, visible <- Shown, expired <- Gone

\* A verdict of _native_request stands against the real service.
THEOREM ServiceVerdictsStand == ServiceSpec => []VerdictsStand
<1>1. Wire!Init => Proved!Init
  BY DEF Wire!Init, Proved!Init, Wire!Journal!Init, Proved!Journal!Init
<1>2. [Wire!Next]_(Wire!vars) => [Proved!Next]_(Proved!vars)
  <2>1. Wire!Server => Proved!Server
    BY DEF Wire!Server, Proved!Server, Wire!serverVars, Proved!serverVars, Wire!clientVars, Proved!clientVars,
       Wire!networkVars, Proved!networkVars, Wire!Journal!Lose, Proved!Journal!Lose,
       Wire!Journal!Serve, Proved!Journal!Serve, Wire!Journal!Answer, Proved!Journal!Answer
  <2>2. ASSUME NEW c \in Callers, Wire!Client(c) PROVE Proved!Client(c)
    BY <2>2 DEF Wire!Client, Wire!Post, Wire!Reply, Wire!Disconnect, Wire!Query, Wire!Conclude, Wire!Confirm,
       Wire!Resubmit, Wire!GiveUp, Wire!Move, Wire!serverVars, Wire!networkVars,
       Proved!Client, Proved!Post, Proved!Reply, Proved!Disconnect, Proved!Query, Proved!Conclude, Proved!Confirm,
       Proved!Resubmit, Proved!GiveUp, Proved!Move, Proved!serverVars, Proved!networkVars
  <2>3. ASSUME NEW c \in Callers, NEW n \in 1..MaxAttempts, Wire!Arrive(c, n) PROVE Proved!Arrive(c, n)
    BY <2>3 DEF Wire!Arrive, Proved!Arrive, Wire!Awaited, Proved!Awaited, Wire!Journal!Claim, Proved!Journal!Claim,
       Wire!serverVars, Proved!serverVars, Wire!clientVars, Proved!clientVars
  <2>4. UNCHANGED Wire!vars => UNCHANGED Proved!vars
    BY DEF Wire!vars, Proved!vars, Wire!serverVars, Proved!serverVars, Wire!clientVars, Proved!clientVars,
       Wire!networkVars, Proved!networkVars
  <2> QED BY <2>1, <2>2, <2>3, <2>4 DEF Wire!Next, Proved!Next
<1>3. Proved!VerdictsStand => VerdictsStand
  BY DEF Proved!VerdictsStand, VerdictsStand, Wire!VerdictsStand
<1> QED BY <1>1, <1>2, <1>3, Proved!VerdictsAlwaysStand, ServiceServesTheClient, PTL
     DEF ServesTheClient, Wire!Spec, Proved!Spec

=================================================================================
