------------------------- MODULE DirectControllerProofs -------------------------
(***************************************************************************)
(* Proofs about DirectController, for any number of controllers, calls,      *)
(* kills and lapses.  A save succeeds only for the controller whose copy is  *)
(* the row, and it makes every other copy stale: what is known about the row *)
(* is known to the controllers that are not stale.                           *)
(***************************************************************************)
EXTENDS DirectController, SequenceTheorems, TLAPS

Statuses == {"running", "succeeded", "failed", "interrupted"}
Record == [goal : BOOLEAN, status : {"created", "running", "completed", "interrupted", "failed"},
           actions : Seq([op : Operations, status : Statuses]), seen : SUBSET Ids,
           boundary : Nat, told : BOOLEAN, rejections : Nat, epoch : Nat]

-----------------------------------------------------------------------------
Entry == [op : Operations, status : Statuses]

\* The actions of a record are kept under their numbers.
LEMMA RecordActions ==
    ASSUME NEW r \in Record
    PROVE  /\ r.actions \in Seq(Entry)
           /\ Len(r.actions) \in Nat /\ DOMAIN r.actions = 1..Len(r.actions)
           /\ \A n \in DOMAIN r.actions : r.actions[n] \in Entry
<1>1. r.actions \in Seq(Entry)
  BY DEF Record, Entry
<1> HIDE DEF Entry
<1> QED BY <1>1, ElementOfSeq

\* Replacing an entry keeps the others.
LEMMA EntryReplaced ==
    ASSUME NEW s \in Seq(Entry), NEW n \in DOMAIN s, NEW e \in Entry
    PROVE  /\ [s EXCEPT ![n] = e] \in Seq(Entry)
           /\ Len([s EXCEPT ![n] = e]) = Len(s)
           /\ \A k \in DOMAIN s : [s EXCEPT ![n] = e][k] = IF k = n THEN e ELSE s[k]
BY ExceptSeq

LEMMA WithStatusIs ==
    ASSUME run \in Record, NEW n \in DOMAIN run.actions, NEW s \in Statuses
    PROVE  /\ WithStatus(n, s) \in Record
           /\ WithStatus(n, s).actions = [run.actions EXCEPT ![n] = Concluded(n, s)]
           /\ Concluded(n, s) \in Entry
           /\ WithStatus(n, s).seen = run.seen /\ WithStatus(n, s).status = run.status
           /\ WithStatus(n, s).goal = run.goal
<1>1. run.actions \in Seq(Entry) /\ Concluded(n, s) \in Entry
  BY RecordActions DEF Concluded, Entry
<1>2. [run.actions EXCEPT ![n] = Concluded(n, s)] \in Seq(Entry)
  BY <1>1, EntryReplaced
<1> QED BY <1>1, <1>2 DEF Record, WithStatus, Entry

-----------------------------------------------------------------------------
(* The invariant.                                                            *)

RunTypes == run \in Record /\ Len(run.actions) <= MaxActions

Places == {"off", "recover", "replay", "replayed", "start", "loop", "asked", "perform", "finish",
           "repeat", "stop", "closing"}

LocalTypes ==
    /\ stale \subseteq Controllers
    /\ lease \in Controllers \cup {Nobody, Orphan}
    /\ pc \in [Controllers -> Places]
    /\ job \in [Controllers -> Nat] /\ pending \in [Controllers -> Nat]
    /\ forced \in [Controllers -> Nat]
    /\ outcome \in [Controllers -> {"none", "succeeded", "failed"}]
    /\ turns \in [Controllers -> Nat] /\ fails \in [Controllers -> Nat]
    /\ effects \in [Ids -> Nat] /\ kept \subseteq Ids
    /\ calls \in 0..MaxCalls /\ lapses \in 0..MaxLapses

\* What the row says, with what has happened.
RowInv ==
    /\ \A n \in DOMAIN run.actions : Running(n) => n = Len(run.actions)
    /\ \A n \in Ids : n > Len(run.actions) => effects[n] = 0
    /\ \A n \in kept : effects[n] >= 1
    /\ ActionsSeeEarlierResults
    /\ SuccessesHappened
    /\ OnceActionsRunOnce

\* What a controller works on, whether its copy is the row or not.
JobInv(c) ==
    /\ pc[c] \in {"recover", "replay", "replayed", "perform", "finish", "repeat"} =>
          job[c] \in DOMAIN run.actions
    /\ pc[c] = "replay" => Replayable(job[c])
    /\ pc[c] = "perform" /\ ~Replayable(job[c]) => effects[job[c]] = 0
    /\ pc[c] \in {"replayed", "finish"} => effects[job[c]] >= 1 /\ outcome[c] # "none"
    /\ pending[c] = 0 \/ pending[c] \in DOMAIN run.actions

\* No two of them perform the same action for the first time.
JobsDiffer ==
    \A c, d \in Controllers :
        c # d /\ pc[c] = "perform" /\ pc[d] = "perform" => job[c] # job[d]

\* What the owner of a current copy knows about the row.
CopyInv(c) ==
    /\ pc[c] # "off" => run.status # "completed"
    /\ pc[c] \in {"start", "loop", "asked", "repeat", "stop", "closing"} =>
          \A n \in DOMAIN run.actions : ~Running(n)
    /\ pc[c] \in {"recover", "replay", "replayed", "perform", "finish"} =>
          \A n \in DOMAIN run.actions : Running(n) <=> n = job[c]
    /\ pc[c] = "asked" /\ forced[c] = 0 => DOMAIN run.actions \subseteq run.seen
    /\ pc[c] = "loop" /\ forced[c] = 0 =>
          \A n \in DOMAIN run.actions : n \in run.seen \/ n = pending[c]

DirectInv ==
    /\ RunTypes /\ LocalTypes /\ RowInv /\ JobsDiffer
    /\ \A c \in Controllers : JobInv(c) /\ (c \notin stale => CopyInv(c))

-----------------------------------------------------------------------------
(* What a step of c leaves to the others.                                    *)

Others(c) ==
    \A d \in Controllers \ {c} :
        /\ pc'[d] = pc[d] /\ job'[d] = job[d] /\ outcome'[d] = outcome[d]
        /\ pending'[d] = pending[d] /\ forced'[d] = forced[d]
        /\ d \in stale' \/ pc[d] = "off" \/ (run' = run /\ d \notin stale)

\* The actions of the row keep their numbers and operations.
Grows ==
    /\ DOMAIN run.actions \subseteq DOMAIN run'.actions
    /\ \A n \in DOMAIN run.actions : run'.actions[n].op = run.actions[n].op

\* At most the last result is untold, so that the first one of them is the last action.
LEMMA FirstUnappended ==
    ASSUME RunTypes, ActionsSeeEarlierResults
    PROVE  /\ first_unappended_action \in Nat
           /\ first_unappended_action \in {0} \cup DOMAIN run.actions
           /\ \A n \in Unappended : n = first_unappended_action
<1>1. DOMAIN run.actions = 1..Len(run.actions) /\ Len(run.actions) \in Nat
  BY RecordActions DEF RunTypes
<1>2. \A n \in Unappended : n = Len(run.actions)
  BY <1>1 DEF Unappended, ActionsSeeEarlierResults
<1>3. CASE Unappended = {}
  BY <1>3 DEF first_unappended_action
<1>4. CASE Unappended # {}
  <2>1. Len(run.actions) \in Unappended /\ \A k \in Unappended : Len(run.actions) <= k
    BY <1>1, <1>2, <1>4
  <2>2. first_unappended_action = CHOOSE n \in Unappended : \A k \in Unappended : n <= k
    BY <1>4 DEF first_unappended_action
  <2>3. first_unappended_action \in Unappended
    BY <2>1, <2>2
  <2> QED BY <1>1, <1>2, <2>3 DEF Unappended
<1> QED BY <1>3, <1>4

LEMMA LocalsStep ==
    ASSUME DirectInv, DirectAssumption, NEW c \in Controllers,
           Begin(c) \/ Kill(c) \/ Controller(c)
    PROVE  LocalTypes' /\ Others(c)
<1> USE DEF LocalTypes, Places, Others
<1>0. LocalTypes /\ RunTypes
  BY DEF DirectInv
<1>0a. DOMAIN run.actions = 1..Len(run.actions) /\ Len(run.actions) \in Nat /\ DOMAIN run.actions \subseteq Ids
  <2>1. DOMAIN run.actions = 1..Len(run.actions) /\ Len(run.actions) \in Nat
    BY <1>0, RecordActions DEF RunTypes
  <2> QED BY <1>0, <2>1, DirectAssumption DEF RunTypes, Ids
<1>1. CASE Begin(c)
  <2>1. \A n \in ActiveActions : n \in Nat
    BY <1>0a DEF ActiveActions
  <2> QED BY <1>0, <1>1, <2>1 DEF Begin, At, Goto, Keep, worldVars
<1>2. CASE Kill(c)
  BY <1>0, <1>2 DEF Kill, Leave, Goto, Keep, worldVars, boundVars
<1>3. CASE Replay(c) \/ Exhaust(c)
  BY <1>0, <1>3 DEF Replay, Exhaust, Goto, storeVars, localVars, worldVars, boundVars
<1>4. CASE Recover(c)
  BY <1>0, <1>4 DEF Recover, Save, Active, Goto, Keep, worldVars, boundVars
<1>5. CASE Start(c)
  <2>1. first_unappended_action \in Nat
    BY FirstUnappended DEF DirectInv, RowInv
  <2>2. pending_repeat \in Nat
    BY <1>0 DEF pending_repeat, RunTypes, Record
  <2> QED BY <1>0, <1>5, <2>1, <2>2 DEF Start, Save, Active, Goto, Keep, storeVars, worldVars, boundVars
<1>6. CASE Ask(c)
  BY <1>0, <1>6 DEF Ask, Save, Active, Goto, storeVars, localVars, worldVars, boundVars
<1>7. ASSUME NEW retryable \in BOOLEAN, TransportFails(c, retryable) PROVE LocalTypes' /\ Others(c)
  BY <1>0, <1>7 DEF TransportFails, CountFailure, Save, Active, Goto, Keep, worldVars, boundVars
<1>8. CASE Reject(c)
  BY <1>0, <1>8 DEF Reject, Save, Active, Goto, Keep, worldVars, boundVars
<1>9. CASE Complete(c) \/ FailRun(c) \/ LastAnswer(c) \/ Yield(c)
  BY <1>0, <1>9 DEF Complete, FailRun, LastAnswer, Yield, SaveAndLeave, Released, Leave, Active, Goto, Keep, worldVars, boundVars
<1>10. ASSUME NEW op \in Operations, StartAction(c, op) PROVE LocalTypes' /\ Others(c)
  <2>1. Len(run.actions) + 1 \in Nat
    BY <1>0a
  <2>2. c \notin stale /\ stale' = stale \cup (Active \ {c}) /\ lease' = lease
    BY <1>10 DEF StartAction, Save
  <2>3. job' = [job EXCEPT ![c] = Len(run.actions) + 1]
    BY <1>10 DEF StartAction, Keep
  <2>4. /\ pc' = [pc EXCEPT ![c] = "perform"]
        /\ turns' = [turns EXCEPT ![c] = turns[c] + 1] /\ pending' = [pending EXCEPT ![c] = 0]
        /\ fails' = [fails EXCEPT ![c] = 0] /\ UNCHANGED <<outcome, forced, effects, kept, calls, lapses>>
    BY <1>10 DEF StartAction, Goto, Keep, worldVars, boundVars
  <2>5. LocalTypes'
    <3>1. stale' \subseteq Controllers /\ lease' = lease
      BY <1>0, <2>2 DEF Active
    <3>2. pc' \in [Controllers -> Places] /\ turns' \in [Controllers -> Nat]
      BY <1>0, <2>4
    <3>4. job' \in [Controllers -> Nat]
      <4> DEFINE new == Len(run.actions) + 1
      <4>1. new \in Nat /\ job' = [job EXCEPT ![c] = new]
        BY <2>1, <2>3
      <4> HIDE DEF new
      <4> QED BY <1>0, <4>1
    <3>3. pending' \in [Controllers -> Nat] /\ fails' \in [Controllers -> Nat]
      BY <1>0, <2>4
    <3> QED BY <1>0, <2>4, <3>1, <3>2, <3>3, <3>4
  <2>6. Others(c)
    BY <1>0, <2>2, <2>4, <2>3 DEF Active
  <2> QED BY <2>5, <2>6
<1>11. CASE Perform(c)
  <2>1. job[c] \in Ids
    BY <1>0a, <1>11 DEF DirectInv, JobInv, Perform
  <2>2. kept' \subseteq Ids
    BY <1>0, <1>11, <2>1 DEF Perform
  <2>3. effects' = [effects EXCEPT ![job[c]] = @ + 1] /\ effects' \in [Ids -> Nat]
    BY <1>0, <1>11, <2>1 DEF Perform
  <2>4. PICK result \in {"succeeded", "failed"} : outcome' = [outcome EXCEPT ![c] = result]
    BY <1>11 DEF Perform, Keep
  <2>5. /\ \E place \in {"replayed", "finish"} : pc' = [pc EXCEPT ![c] = place]
        /\ UNCHANGED <<run, lease, stale, job, pending, forced, turns, fails, calls, lapses>>
    BY <1>11 DEF Perform, Goto, storeVars, boundVars
  <2> QED BY <1>0, <2>2, <2>3, <2>4, <2>5
<1>12. CASE FinishAction(c)
  <2>1. \A next \in After(WithStatus(job[c], outcome[c]), job[c]) : next \in {"stop", "repeat", "loop"}
    BY DEF After
  <2> QED BY <1>0, <1>12, <2>1 DEF FinishAction, Save, Active, Goto, Keep, worldVars, boundVars
<1>13. CASE FinishReplay(c)
  BY <1>0, <1>13 DEF FinishReplay, Save, Active, Goto, Keep, worldVars, boundVars
<1>14. CASE CloseMenu(c)
  BY <1>0, <1>14 DEF CloseMenu, Save, Active, Goto, Keep, worldVars, boundVars
<1>15. CASE AskLast(c) \/ LastAnswerFails(c)
  BY <1>0, <1>15 DEF AskLast, LastAnswerFails, Save, Active, Goto, Keep, worldVars, boundVars
<1>16. CASE Abort(c)
  BY <1>0, <1>16 DEF Abort, Released, Leave, Goto, Keep, worldVars, boundVars
<1> QED
  BY <1>1, <1>2, <1>3, <1>4, <1>5, <1>6, <1>7, <1>8, <1>9, <1>10, <1>11, <1>12, <1>13, <1>14, <1>15, <1>16
  DEF Controller


-----------------------------------------------------------------------------
(* What a step makes of the row: it leaves it, changes other columns, ends an *)
(* action, or appends one.                                                   *)

RowGoal == RunTypes' /\ Grows /\ RowInv'

LEMMA RowLeft ==
    ASSUME DirectInv, run' \in Record, run'.actions = run.actions, run.seen \subseteq run'.seen,
           UNCHANGED worldVars
    PROVE  RowGoal
BY DEF RowGoal, DirectInv, RunTypes, Grows, RowInv, Running, ActionsSeeEarlierResults, SuccessesHappened,
   OnceActionsRunOnce, KindOf, worldVars

LEMMA RowConcluded ==
    ASSUME DirectInv, NEW n \in DOMAIN run.actions, NEW s \in {"succeeded", "failed", "interrupted"},
           s = "succeeded" => effects[n] >= 1, run' = WithStatus(n, s), UNCHANGED worldVars
    PROVE  /\ RowGoal
           /\ \A k \in DOMAIN run'.actions : Running(k)' <=> k # n /\ Running(k)
           /\ DOMAIN run'.actions = DOMAIN run.actions /\ run'.seen = run.seen /\ run'.status = run.status
<1>0. run \in Record /\ s \in Statuses /\ RunTypes /\ RowInv
  BY DEF DirectInv, RunTypes, Statuses
<1>1. /\ run' \in Record /\ run'.seen = run.seen /\ run'.status = run.status
      /\ run'.actions = [run.actions EXCEPT ![n] = Concluded(n, s)]
      /\ Concluded(n, s) \in Entry
  BY <1>0, WithStatusIs
<1>2. /\ DOMAIN run.actions = 1..Len(run.actions) /\ Len(run.actions) \in Nat
      /\ run.actions \in Seq(Entry)
  BY <1>0, RecordActions
<1>3. /\ Len(run'.actions) = Len(run.actions) /\ DOMAIN run'.actions = DOMAIN run.actions
      /\ \A k \in DOMAIN run.actions : run'.actions[k] = IF k = n THEN Concluded(n, s) ELSE run.actions[k]
  BY <1>1, <1>2, EntryReplaced
<1>4. \A k \in DOMAIN run.actions :
         /\ run'.actions[k].op = run.actions[k].op
         /\ run'.actions[k].status = IF k = n THEN s ELSE run.actions[k].status
  BY <1>3 DEF Concluded
<1>5. RunTypes' /\ Grows
  BY <1>0, <1>1, <1>3, <1>4 DEF RunTypes, Grows
<1>6. RowInv'
  BY <1>0, <1>1, <1>3, <1>4 DEF RowInv, Running, ActionsSeeEarlierResults, SuccessesHappened, OnceActionsRunOnce,
     KindOf, worldVars
<1>7. \A k \in DOMAIN run'.actions : Running(k)' <=> k # n /\ Running(k)
  BY <1>3, <1>4 DEF Running
<1> QED BY <1>1, <1>3, <1>5, <1>6, <1>7 DEF RowGoal

LEMMA RowStarted ==
    ASSUME DirectInv, DirectAssumption, NEW op \in Operations,
           \A n \in DOMAIN run.actions : ~Running(n) /\ n \in run.seen,
           Len(run.actions) < MaxActions, UNCHANGED worldVars,
           run' = [run EXCEPT !.actions = Append(@, [op |-> op, status |-> "running"])]
    PROVE  /\ RowGoal
           /\ DOMAIN run'.actions = DOMAIN run.actions \cup {Len(run.actions) + 1}
           /\ \A n \in DOMAIN run'.actions : Running(n)' <=> n = Len(run.actions) + 1
           /\ effects[Len(run.actions) + 1] = 0 /\ run'.status = run.status
<1>0. run \in Record /\ RunTypes /\ RowInv
  BY DEF DirectInv, RunTypes
<1>1. /\ run.actions \in Seq(Entry) /\ Len(run.actions) \in Nat
      /\ DOMAIN run.actions = 1..Len(run.actions)
  BY <1>0, RecordActions
<1> DEFINE e == [op |-> op, status |-> "running"]
<1>2. e \in Entry
  BY DEF Entry, Statuses
<1>3. /\ Append(run.actions, e) \in Seq(Entry) /\ Len(Append(run.actions, e)) = Len(run.actions) + 1
      /\ \A k \in 1..Len(run.actions) : Append(run.actions, e)[k] = run.actions[k]
      /\ Append(run.actions, e)[Len(run.actions) + 1] = e
  <2> HIDE DEF e
  <2> QED BY <1>1, <1>2, AppendProperties
<1>4. run' \in Record /\ run'.actions = Append(run.actions, e) /\ run'.seen = run.seen /\ run'.status = run.status
  BY <1>0, <1>3 DEF Record, Entry
<1>5. /\ DOMAIN run'.actions = 1..(Len(run.actions) + 1) /\ Len(run'.actions) = Len(run.actions) + 1
      /\ \A k \in DOMAIN run.actions : run'.actions[k] = run.actions[k]
      /\ run'.actions[Len(run.actions) + 1].status = "running"
  BY <1>1, <1>3, <1>4
<1>6. Len(run.actions) + 1 \in Ids /\ effects[Len(run.actions) + 1] = 0
  <2>1. MaxActions \in Nat
    BY DirectAssumption
  <2>2. Len(run.actions) + 1 \in Ids
    BY <1>1, <2>1 DEF Ids
  <2> QED BY <1>0, <1>1, <2>2 DEF RowInv
<1>7. RunTypes' /\ Grows
  BY <1>0, <1>1, <1>4, <1>5, DirectAssumption DEF RunTypes, Grows
<1>8. RowInv'
  <2>1. UNCHANGED <<effects, kept>>
    BY DEF worldVars
  <2>2. \A n \in DOMAIN run'.actions : n \in DOMAIN run.actions \/ n = Len(run.actions) + 1
    BY <1>1, <1>5
  <2>3. \A n \in DOMAIN run'.actions : Running(n)' => n = Len(run'.actions)
    BY <1>5, <2>2 DEF Running
  <2>4. \A n \in Ids : n > Len(run'.actions) => effects[n] = 0
    BY <1>0, <1>1, <1>5 DEF RowInv, Ids
  <2>5. ActionsSeeEarlierResults'
    BY <1>1, <1>4, <1>5, <2>2 DEF ActionsSeeEarlierResults
  <2>6. SuccessesHappened'
    BY <1>0, <1>5, <2>1, <2>2 DEF SuccessesHappened, RowInv
  <2>7. OnceActionsRunOnce'
    BY <1>0, <1>5, <1>6, <2>1, <2>2 DEF OnceActionsRunOnce, RowInv, KindOf
  <2> QED BY <1>0, <2>1, <2>3, <2>4, <2>5, <2>6, <2>7 DEF RowInv
<1>9. \A n \in DOMAIN run'.actions : Running(n)' <=> n = Len(run.actions) + 1
  BY <1>1, <1>5 DEF Running
<1>10. DOMAIN run'.actions = DOMAIN run.actions \cup {Len(run.actions) + 1}
  BY <1>1, <1>5
<1> QED BY <1>4, <1>6, <1>7, <1>8, <1>9, <1>10 DEF RowGoal


\* The other columns of the row.
SameActions(r) == r \in Record /\ r.actions = run.actions

LEMMA Columns ==
    ASSUME run \in Record
    PROVE  /\ \A s \in {"running", "completed", "interrupted", "failed"} :
                 /\ SameActions([run EXCEPT !.status = s])
                 /\ [run EXCEPT !.status = s].seen = run.seen /\ [run EXCEPT !.status = s].status = s
           /\ SameActions([run EXCEPT !.told = TRUE])
           /\ [run EXCEPT !.told = TRUE].seen = run.seen /\ [run EXCEPT !.told = TRUE].status = run.status
           /\ \A n \in Nat :
                 /\ SameActions([run EXCEPT !.boundary = n, !.told = FALSE])
                 /\ [run EXCEPT !.boundary = n, !.told = FALSE].seen = run.seen
                 /\ [run EXCEPT !.boundary = n, !.told = FALSE].status = run.status
           /\ \A n \in Ids :
                 /\ SameActions([run EXCEPT !.seen = @ \cup {n}])
                 /\ [run EXCEPT !.seen = @ \cup {n}].seen = run.seen \cup {n}
                 /\ [run EXCEPT !.seen = @ \cup {n}].status = run.status
           /\ SameActions([run EXCEPT !.rejections = @ + 1])
           /\ [run EXCEPT !.rejections = @ + 1].seen = run.seen
           /\ [run EXCEPT !.rejections = @ + 1].status = run.status
           /\ SameActions([run EXCEPT !.epoch = Len(run.actions), !.rejections = 0])
           /\ [run EXCEPT !.epoch = Len(run.actions), !.rejections = 0].seen = run.seen
           /\ SameActions(run)
<1>1. Len(run.actions) \in Nat
  BY RecordActions
<1>2. \A s \in {"running", "completed", "interrupted", "failed"} :
         /\ SameActions([run EXCEPT !.status = s])
         /\ [run EXCEPT !.status = s].seen = run.seen /\ [run EXCEPT !.status = s].status = s
  BY DEF Record, SameActions
<1>3. /\ SameActions([run EXCEPT !.told = TRUE])
      /\ [run EXCEPT !.told = TRUE].seen = run.seen /\ [run EXCEPT !.told = TRUE].status = run.status
  BY DEF Record, SameActions
<1>4. \A n \in Nat :
         /\ SameActions([run EXCEPT !.boundary = n, !.told = FALSE])
         /\ [run EXCEPT !.boundary = n, !.told = FALSE].seen = run.seen
         /\ [run EXCEPT !.boundary = n, !.told = FALSE].status = run.status
  BY DEF Record, SameActions
<1>5. \A n \in Ids :
         /\ SameActions([run EXCEPT !.seen = @ \cup {n}])
         /\ [run EXCEPT !.seen = @ \cup {n}].seen = run.seen \cup {n}
         /\ [run EXCEPT !.seen = @ \cup {n}].status = run.status
  BY DEF Record, SameActions
<1>6. /\ SameActions([run EXCEPT !.rejections = @ + 1])
      /\ [run EXCEPT !.rejections = @ + 1].seen = run.seen
      /\ [run EXCEPT !.rejections = @ + 1].status = run.status
  BY DEF Record, SameActions
<1>7. /\ SameActions([run EXCEPT !.epoch = Len(run.actions), !.rejections = 0])
      /\ [run EXCEPT !.epoch = Len(run.actions), !.rejections = 0].seen = run.seen
  BY <1>1 DEF Record, SameActions
<1>8. SameActions(run)
  BY DEF SameActions
<1> QED BY <1>2, <1>3, <1>4, <1>5, <1>6, <1>7, <1>8

Goal(c) == RowGoal /\ JobInv(c)' /\ (c \notin stale' => CopyInv(c)')

\* A controller that leaves knows nothing more.
LEMMA LeaverStep ==
    ASSUME DirectInv, NEW c \in Controllers, pc'[c] = "off", pending'[c] = 0, SameActions(run'), run.seen \subseteq run'.seen,
           UNCHANGED worldVars
    PROVE  Goal(c)
BY RowLeft DEF Goal, JobInv, CopyInv, SameActions

\* A save, or none, that leaves the actions as they are.
LEMMA ColumnsStep ==
    ASSUME DirectInv, NEW c \in Controllers, c \notin stale, SameActions(run'), run.seen \subseteq run'.seen,
           run'.status # "completed", UNCHANGED worldVars,
           pending'[c] \in {0, pending[c]} \cup DOMAIN run.actions,
           pc[c] \in {"start", "loop", "asked", "repeat", "stop", "closing"},
           pc'[c] \in {"loop", "asked", "stop", "closing"},
           pc'[c] = "asked" /\ forced'[c] = 0 => DOMAIN run.actions \subseteq run'.seen,
           pc'[c] = "loop" /\ forced'[c] = 0 =>
              \A n \in DOMAIN run.actions : n \in run'.seen \/ n = pending'[c]
    PROVE  Goal(c)
<1>1. RowGoal
  BY RowLeft DEF SameActions
<1>2. \A n \in DOMAIN run'.actions : ~Running(n)'
  BY DEF DirectInv, CopyInv, SameActions, Running
<1>3. pending'[c] = 0 \/ pending'[c] \in DOMAIN run'.actions
  BY DEF DirectInv, JobInv, SameActions
<1> QED BY <1>1, <1>2, <1>3 DEF Goal, JobInv, CopyInv, SameActions

LEMMA ActorStep ==
    ASSUME DirectInv, DirectAssumption, NEW c \in Controllers,
           Begin(c) \/ Kill(c) \/ Controller(c), LocalTypes'
    PROVE  Goal(c)
<1>0. /\ run \in Record /\ LocalTypes /\ RowInv /\ JobInv(c) /\ (c \notin stale => CopyInv(c))
      /\ RunTypes
  BY DEF DirectInv, RunTypes
<1>0a. /\ DOMAIN run.actions = 1..Len(run.actions) /\ Len(run.actions) \in Nat
       /\ DOMAIN run.actions \subseteq Ids
  <2>1. DOMAIN run.actions = 1..Len(run.actions) /\ Len(run.actions) \in Nat
    BY <1>0, RecordActions
  <2> QED BY <1>0, <2>1, DirectAssumption DEF RunTypes, Ids
<1> USE <1>0
<1>1. CASE Begin(c)
  <2>1. /\ run' = run /\ UNCHANGED <<worldVars, pending>> /\ run.status # "completed"
        /\ \/ pc'[c] = "start" /\ ActiveActions = {}
           \/ pc'[c] = "recover" /\ job'[c] \in ActiveActions
    BY <1>1 DEF Begin, Goto, Keep, LocalTypes
  <2>2. RowGoal
    BY <2>1, RowLeft
  <2> QED BY <2>1, <2>2 DEF Goal, JobInv, CopyInv, ActiveActions, Running, RowInv
<1>2. CASE Kill(c) \/ Abort(c)
  <2>1. pc'[c] = "off" /\ pending'[c] = 0 /\ run' = run /\ UNCHANGED worldVars
    BY <1>2 DEF Kill, Abort, Leave, Goto, Keep, LocalTypes
  <2> QED BY <2>1, Columns, LeaverStep
<1>3. CASE Complete(c) \/ FailRun(c) \/ LastAnswer(c) \/ Yield(c)
  <2>1. pc'[c] = "off" /\ pending'[c] = 0 /\ UNCHANGED worldVars
    BY <1>3 DEF Complete, FailRun, LastAnswer, Yield, SaveAndLeave, Leave, Goto, Keep, LocalTypes
  <2>2. SameActions(run') /\ run'.seen = run.seen
    BY <1>3, Columns DEF Complete, FailRun, LastAnswer, Yield, SaveAndLeave
  <2> QED BY <2>1, <2>2, LeaverStep
<1>4. CASE Replay(c)
  <2>1. run' = run /\ UNCHANGED <<worldVars, stale, job, pending>> /\ pc[c] = "recover" /\ pc'[c] = "replay" /\ Replayable(job[c])
    BY <1>4 DEF Replay, At, Goto, storeVars, localVars, LocalTypes
  <2>2. RowGoal
    BY <2>1, RowLeft
  <2> QED BY <2>1, <2>2 DEF Goal, JobInv, CopyInv, Replayable, KindOf, Running
<1>5. CASE Recover(c)
  <2>1. PICK s \in {"succeeded", "failed", "interrupted"} : RecoveredAs(job[c], s) /\ Save(c, WithStatus(job[c], s))
    BY <1>5 DEF Recover
  <2>2. /\ pc[c] = "recover" /\ c \notin stale /\ run' = WithStatus(job[c], s)
        /\ UNCHANGED <<worldVars, pending>> /\ pc'[c] = "start"
    BY <1>5, <2>1 DEF Recover, Save, At, Goto, LocalTypes
  <2>3. s = "succeeded" => effects[job[c]] >= 1
    BY <2>1 DEF RecoveredAs, RowInv
  <2>4. job[c] \in DOMAIN run.actions
    BY <2>2 DEF JobInv
  <2>5. /\ RowGoal /\ run'.status = run.status /\ DOMAIN run'.actions = DOMAIN run.actions
        /\ \A k \in DOMAIN run'.actions : Running(k)' <=> k # job[c] /\ Running(k)
    BY <2>2, <2>3, <2>4, RowConcluded
  <2> QED BY <2>2, <2>5 DEF Goal, JobInv, CopyInv
<1>6. CASE Start(c)
  <2>1. /\ c \notin stale /\ pc[c] = "start" /\ pc'[c] = "loop" /\ UNCHANGED worldVars
        /\ pending'[c] = first_unappended_action
        /\ run' = run \/ run' = [run EXCEPT !.status = "running"]
    BY <1>6 DEF Start, Save, At, Goto, Keep, storeVars, LocalTypes
  <2>2. SameActions(run') /\ run'.seen = run.seen /\ run'.status # "completed"
    BY <2>1, Columns DEF CopyInv
  <2>3. \A n \in DOMAIN run.actions : n \in run'.seen \/ n = pending'[c]
    BY <2>1, <2>2, FirstUnappended DEF CopyInv, Unappended, RowInv
  <2>4. pending'[c] \in {0} \cup DOMAIN run.actions
    BY <2>1, FirstUnappended DEF RowInv
  <2> QED BY <2>1, <2>2, <2>3, <2>4, ColumnsStep
<1>7. CASE Exhaust(c)
  <2>1. /\ run' = run /\ UNCHANGED <<worldVars, stale, job, pending>> /\ pc[c] = "loop" /\ pc'[c] = "stop"
    BY <1>7 DEF Exhaust, At, Goto, storeVars, localVars, LocalTypes
  <2>2. RowGoal
    BY <2>1, RowLeft
  <2> QED BY <2>1, <2>2 DEF Goal, JobInv, CopyInv, Running
<1>8. CASE Ask(c)
  <2>1. c \notin stale /\ pc[c] = "loop" /\ pc'[c] = "asked" /\ UNCHANGED <<worldVars, pending, forced>>
    BY <1>8 DEF Ask, Save, At, Goto, localVars, LocalTypes
  <2>2. \/ run' = run /\ forced[c] = 0 /\ (pending[c] = 0 \/ pending[c] \in run.seen)
        \/ run' = [run EXCEPT !.told = TRUE] /\ forced[c] # 0
        \/ run' = [run EXCEPT !.seen = @ \cup {pending[c]}] /\ forced[c] = 0 /\ pending[c] # 0 /\ pending[c] \notin run.seen
    BY <1>8 DEF Ask, Save, storeVars
  <2>3. pending[c] # 0 => pending[c] \in Ids
    BY <1>0a DEF JobInv
  <2>4. SameActions(run') /\ run.seen \subseteq run'.seen /\ run'.status = run.status
    BY <2>2, <2>3, Columns
  <2>5. forced[c] = 0 => DOMAIN run.actions \subseteq run'.seen
    <3>1. forced[c] = 0 => \A n \in DOMAIN run.actions : n \in run.seen \/ n = pending[c]
      BY <2>1 DEF CopyInv
    <3>2. forced[c] = 0 => pending[c] = 0 \/ pending[c] \in run'.seen
      BY <2>2, <2>3, <2>4, Columns
    <3> QED BY <1>0a, <2>4, <3>1, <3>2
  <2> QED BY <2>1, <2>4, <2>5, ColumnsStep DEF CopyInv
<1>9. ASSUME NEW retryable \in BOOLEAN, TransportFails(c, retryable) PROVE Goal(c)
  <2>1. /\ c \notin stale /\ run' = run /\ UNCHANGED <<worldVars, pending, forced>> /\ pc[c] \in {"loop", "asked"}
        /\ pc'[c] \in {"loop", "stop"}
    BY <1>9 DEF TransportFails, Save, Goto, LocalTypes
  <2> QED BY <2>1, Columns, ColumnsStep DEF CopyInv
<1>10. CASE Reject(c)
  <2>1. /\ c \notin stale /\ run' = [run EXCEPT !.rejections = @ + 1] /\ UNCHANGED <<worldVars, forced>>
        /\ pc[c] = "asked" /\ pc'[c] \in {"loop", "stop"} /\ pending'[c] = 0
    BY <1>10 DEF Reject, Save, At, Goto, Keep, LocalTypes
  <2>2. SameActions(run') /\ run'.seen = run.seen /\ run'.status = run.status
    BY <2>1, Columns
  <2> QED BY <2>1, <2>2, ColumnsStep DEF CopyInv
<1>11. CASE AskLast(c) \/ LastAnswerFails(c)
  <2>1. /\ c \notin stale /\ run' = run /\ UNCHANGED <<worldVars, pending, forced>>
        /\ pc[c] \in {"stop", "closing"} /\ pc'[c] = "closing"
    BY <1>11 DEF AskLast, LastAnswerFails, Save, At, Goto, LocalTypes
  <2> QED BY <2>1, Columns, ColumnsStep DEF CopyInv
<1>12. CASE CloseMenu(c)
  <2>1. /\ c \notin stale /\ run' = [run EXCEPT !.boundary = job[c], !.told = FALSE] /\ UNCHANGED <<worldVars, pending>>
        /\ forced'[c] = job[c] /\ pc[c] = "repeat" /\ pc'[c] = "loop"
    BY <1>12 DEF CloseMenu, Save, At, Goto, Keep, LocalTypes
  <2>2. job[c] \in DOMAIN run.actions /\ job[c] \in Nat /\ job[c] # 0
    BY <1>0a, <2>1 DEF JobInv
  <2>3. SameActions(run') /\ run'.seen = run.seen /\ run'.status = run.status
    BY <2>1, <2>2, Columns
  <2> QED BY <2>1, <2>2, <2>3, ColumnsStep DEF CopyInv
<1>13. ASSUME NEW op \in Operations, StartAction(c, op) PROVE Goal(c)
  <2>1. /\ c \notin stale /\ pc[c] = "asked" /\ forced[c] = 0 /\ Len(run.actions) < MaxActions
        /\ run' = [run EXCEPT !.actions = Append(@, [op |-> op, status |-> "running"])]
    BY <1>13 DEF StartAction, Save, At
  <2>2. /\ job'[c] = Len(run.actions) + 1 /\ pending'[c] = 0 /\ pc'[c] = "perform" /\ UNCHANGED worldVars
    BY <1>13 DEF StartAction, Goto, Keep, LocalTypes
  <2>3. \A n \in DOMAIN run.actions : ~Running(n) /\ n \in run.seen
    BY <2>1 DEF CopyInv
  <2>4. /\ RowGoal /\ DOMAIN run'.actions = DOMAIN run.actions \cup {Len(run.actions) + 1}
        /\ \A n \in DOMAIN run'.actions : Running(n)' <=> n = Len(run.actions) + 1
        /\ effects[Len(run.actions) + 1] = 0 /\ run'.status = run.status
    BY <2>1, <2>2, <2>3, RowStarted
  <2>5. JobInv(c)'
    BY <2>2, <2>4 DEF JobInv, worldVars
  <2>6. CopyInv(c)'
    BY <2>1, <2>2, <2>4 DEF CopyInv
  <2> QED BY <2>4, <2>5, <2>6 DEF Goal
<1>14. CASE Perform(c)
  <2>1. /\ run' = run /\ UNCHANGED <<stale, job, pending>>
        /\ pc[c] \in {"perform", "replay"} /\ pc'[c] \in {"replayed", "finish"} /\ outcome'[c] # "none"
    BY <1>14 DEF Perform, Goto, Keep, storeVars, LocalTypes
  <2>2. job[c] \in DOMAIN run.actions /\ job[c] \in Ids
    BY <1>0a, <2>1 DEF JobInv
  <2>3. /\ effects' = [effects EXCEPT ![job[c]] = effects[job[c]] + 1] /\ kept' \subseteq kept \cup {job[c]}
    BY <1>14 DEF Perform
  <2>4. \A n \in Ids : effects'[n] = IF n = job[c] THEN effects[n] + 1 ELSE effects[n]
    BY <2>3 DEF LocalTypes
  <2>5. \A n \in Ids : effects[n] \in Nat
    BY DEF LocalTypes
  <2>6. ~Replayable(job[c]) => effects[job[c]] = 0
    BY <2>1 DEF JobInv
  <2>7. OnceActionsRunOnce'
    <3>1. ASSUME NEW n \in DOMAIN run.actions, KindOf(n) \in {"once", "snapshot"} PROVE effects'[n] <= 1
      <4>1. n \in Ids /\ effects[n] <= 1
        BY <1>0a, <3>1 DEF RowInv, OnceActionsRunOnce
      <4>2. CASE n = job[c]
        <5>1. effects[n] = 0
          BY <2>6, <3>1, <4>2 DEF Replayable
        <5> QED BY <2>4, <4>1, <4>2, <5>1
      <4>3. CASE n # job[c]
        BY <2>4, <4>1, <4>3
      <4> QED BY <4>2, <4>3
    <3> QED BY <2>1, <3>1 DEF OnceActionsRunOnce, KindOf
  <2>8. SuccessesHappened'
    <3>1. ASSUME NEW n \in DOMAIN run.actions, run.actions[n].status = "succeeded" PROVE effects'[n] >= 1
      <4>1. n \in Ids /\ effects[n] >= 1 /\ effects[n] \in Nat
        BY <1>0a, <2>5, <3>1 DEF RowInv, SuccessesHappened
      <4> QED BY <2>4, <4>1
    <3> QED BY <2>1, <3>1 DEF SuccessesHappened
  <2>9. \A n \in kept' : effects'[n] >= 1
    <3>1. ASSUME NEW n \in kept' PROVE effects'[n] >= 1
      <4>1. n \in Ids /\ (n = job[c] \/ effects[n] >= 1)
        BY <2>2, <2>3, <3>1 DEF RowInv, LocalTypes
      <4> QED BY <2>4, <2>5, <4>1
    <3> QED BY <3>1
  <2>10. \A n \in Ids : n > Len(run.actions) => effects'[n] = 0
    BY <1>0a, <2>2, <2>4 DEF RowInv
  <2>11. RowGoal
    BY <2>1, <2>7, <2>8, <2>9, <2>10 DEF RowGoal, RunTypes, Grows, RowInv, Running, ActionsSeeEarlierResults
  <2>12. JobInv(c)'
    BY <2>1, <2>2, <2>4, <2>5 DEF JobInv
  <2>13. c \notin stale' => CopyInv(c)'
    BY <2>1 DEF CopyInv, Running
  <2> QED BY <2>11, <2>12, <2>13 DEF Goal
<1>15. CASE FinishAction(c)
  <2>1. /\ c \notin stale /\ pc[c] = "finish" /\ run' = WithStatus(job[c], outcome[c]) /\ UNCHANGED worldVars
        /\ pending'[c] = job[c]
    BY <1>15 DEF FinishAction, Save, At, Keep, LocalTypes
  <2>2. PICK next \in {"stop", "repeat", "loop"} :
           pc' = [pc EXCEPT ![c] = next] /\ job' = [job EXCEPT ![c] = IF next = "repeat" THEN job[c] ELSE 0]
    <3>1. \A next \in After(WithStatus(job[c], outcome[c]), job[c]) : next \in {"stop", "repeat", "loop"}
      BY DEF After
    <3> QED BY <1>15, <3>1 DEF FinishAction, Goto, Keep
  <2>3. /\ job[c] \in DOMAIN run.actions /\ effects[job[c]] >= 1
        /\ outcome[c] \in {"succeeded", "failed"}
    BY <2>1 DEF JobInv, LocalTypes
  <2>4. /\ RowGoal /\ DOMAIN run'.actions = DOMAIN run.actions /\ run'.seen = run.seen /\ run'.status = run.status
        /\ \A k \in DOMAIN run'.actions : Running(k)' <=> k # job[c] /\ Running(k)
    BY <2>1, <2>3, RowConcluded
  <2>5. pc'[c] = next /\ job'[c] = IF next = "repeat" THEN job[c] ELSE 0
    BY <2>2 DEF LocalTypes
  <2>6. JobInv(c)'
    BY <2>1, <2>3, <2>4, <2>5 DEF JobInv
  <2>7. \A n \in DOMAIN run.actions : n \in run.seen \/ n = job[c]
    <3>1. job[c] = Len(run.actions)
      BY <2>1, <2>3 DEF CopyInv, RowInv
    <3> QED BY <1>0a, <2>3, <3>1 DEF RowInv, ActionsSeeEarlierResults
  <2>8. CopyInv(c)'
    BY <2>1, <2>4, <2>5, <2>7 DEF CopyInv
  <2> QED BY <2>4, <2>6, <2>8 DEF Goal
<1>16. CASE FinishReplay(c)
  <2>1. /\ c \notin stale /\ pc[c] = "replayed" /\ run' = WithStatus(job[c], outcome[c]) /\ UNCHANGED <<worldVars, pending>>
        /\ pc'[c] = "start"
    BY <1>16 DEF FinishReplay, Save, At, Goto, LocalTypes
  <2>3. /\ job[c] \in DOMAIN run.actions /\ effects[job[c]] >= 1
        /\ outcome[c] \in {"succeeded", "failed"}
    BY <2>1 DEF JobInv, LocalTypes
  <2>4. /\ RowGoal /\ DOMAIN run'.actions = DOMAIN run.actions /\ run'.status = run.status
        /\ \A k \in DOMAIN run'.actions : Running(k)' <=> k # job[c] /\ Running(k)
    BY <2>1, <2>3, RowConcluded
  <2> QED BY <2>1, <2>4 DEF Goal, JobInv, CopyInv
<1> QED
  BY <1>1, <1>2, <1>3, <1>4, <1>5, <1>6, <1>7, <1>8, <1>9, <1>10, <1>11, <1>12, <1>13, <1>14, <1>15, <1>16
  DEF Controller


\* What a controller knows stands while another one makes a step.
LEMMA OthersStep ==
    ASSUME DirectInv, DirectAssumption, NEW c \in Controllers, NEW d \in Controllers \ {c},
           Begin(c) \/ Kill(c) \/ Controller(c), LocalTypes', Others(c), Goal(c)
    PROVE  /\ JobInv(d)' /\ (d \notin stale' => CopyInv(d)')
           /\ pc'[c] = "perform" /\ pc'[d] = "perform" => job'[c] # job'[d]
<1>0. /\ JobInv(d) /\ JobInv(c) /\ (d \notin stale => CopyInv(d)) /\ LocalTypes /\ RunTypes /\ Grows
  BY DEF DirectInv, Goal, RowGoal
<1>0a. DOMAIN run.actions = 1..Len(run.actions) /\ Len(run.actions) \in Nat /\ DOMAIN run.actions \subseteq Ids
  <2>1. DOMAIN run.actions = 1..Len(run.actions) /\ Len(run.actions) \in Nat
    BY <1>0, RecordActions DEF RunTypes
  <2> QED BY <1>0, <2>1, DirectAssumption DEF RunTypes, Ids
<1>1. /\ pc'[d] = pc[d] /\ job'[d] = job[d] /\ outcome'[d] = outcome[d]
      /\ pending'[d] = pending[d] /\ forced'[d] = forced[d]
      /\ d \in stale' \/ pc[d] = "off" \/ (run' = run /\ d \notin stale)
  BY DEF Others
<1>2. \A n \in DOMAIN run.actions : n \in DOMAIN run'.actions /\ (Replayable(n)' <=> Replayable(n))
  BY <1>0 DEF Grows, Replayable, KindOf
<1>3. \A n \in Ids : effects'[n] >= effects[n] /\ (effects'[n] = effects[n] \/ (Perform(c) /\ n = job[c]))
  <2>1. CASE Perform(c)
    <3>1. effects' = [effects EXCEPT ![job[c]] = effects[job[c]] + 1] /\ effects \in [Ids -> Nat]
      BY <1>0, <2>1 DEF Perform, LocalTypes
    <3> QED BY <2>1, <3>1
  <2>2. CASE UNCHANGED worldVars
    <3>1. effects' = effects /\ effects \in [Ids -> Nat]
      BY <1>0, <2>2 DEF worldVars, LocalTypes
    <3> QED BY <3>1
  <2>3. Perform(c) \/ UNCHANGED worldVars
    BY DEF Begin, Kill, Controller, Replay, Recover, Start, Exhaust, Ask, Reject, Complete, TransportFails, StartAction,
       FinishAction, FinishReplay, CloseMenu, Yield, AskLast, LastAnswerFails, LastAnswer, FailRun, Abort
  <2> QED BY <2>1, <2>2, <2>3
<1>4. pc[d] = "perform" /\ Perform(c) => Replayable(job[c]) \/ job[c] # job[d]
  BY <1>0 DEF Perform, JobInv, DirectInv, JobsDiffer
<1>5. JobInv(d)'
  <2>1. pc[d] \in {"recover", "replay", "replayed", "perform", "finish", "repeat"} =>
          job[d] \in DOMAIN run.actions /\ job[d] \in Ids
    BY <1>0, <1>0a DEF JobInv
  <2>2. pc[d] \in {"replayed", "finish"} => effects'[job[d]] >= 1 /\ outcome[d] # "none"
    BY <1>0, <1>3, <2>1 DEF JobInv, LocalTypes
  <2>3. pc[d] = "perform" /\ ~Replayable(job[d]) => effects'[job[d]] = 0
    BY <1>0, <1>3, <1>4, <2>1 DEF JobInv
  <2>4. pending[d] = 0 \/ pending[d] \in DOMAIN run'.actions
    BY <1>0, <1>2 DEF JobInv
  <2>5. job[d] \in DOMAIN run.actions => (Replayable(job[d])' <=> Replayable(job[d]))
    BY <1>0, <1>1 DEF Grows, Replayable, KindOf
  <2> QED BY <1>0, <1>1, <1>2, <2>1, <2>2, <2>3, <2>4, <2>5 DEF JobInv
<1>6. d \notin stale' => CopyInv(d)'
  BY <1>0, <1>1 DEF CopyInv, Running
<1>7. pc'[c] = "perform" /\ pc'[d] = "perform" => job'[c] # job'[d]
  <2>1. pc'[c] = "perform" => \E op \in Operations : StartAction(c, op)
    <3>1. \A next \in After(WithStatus(job[c], outcome[c]), job[c]) : next \in {"stop", "repeat", "loop"}
      BY DEF After
    <3> QED BY <1>0, <3>1 DEF Begin, Kill, Controller, Replay, Recover, Start, Exhaust, Ask, Reject, Complete, TransportFails,
       Perform, FinishAction, FinishReplay, CloseMenu, Yield, AskLast, LastAnswerFails, LastAnswer, FailRun, Abort,
       SaveAndLeave, Leave, At, Goto, LocalTypes, storeVars, localVars, worldVars, boundVars
  <2>2. ASSUME NEW op \in Operations, StartAction(c, op) PROVE job'[c] = Len(run.actions) + 1
    BY <1>0, <2>2 DEF StartAction, Keep, LocalTypes
  <2>3. pc[d] = "perform" => job[d] \in DOMAIN run.actions
    BY <1>0 DEF JobInv
  <2> QED BY <1>0a, <1>1, <2>1, <2>2, <2>3
<1> QED BY <1>5, <1>6, <1>7


LEMMA LapseStep == ASSUME DirectInv, Lapse PROVE DirectInv'
<1>1. UNCHANGED <<run, stale, pc, localVars, effects, kept>>
  BY DEF Lapse, worldVars
<1>2. MaxLapses \in Nat /\ MaxCalls \in Nat
  BY DirectAssumption
<1>3. LocalTypes'
  BY <1>1, <1>2 DEF Lapse, DirectInv, LocalTypes, localVars
<1> QED
  BY <1>1, <1>3 DEF DirectInv, RunTypes, RowInv, JobsDiffer, JobInv, CopyInv, Running, ActionsSeeEarlierResults,
     SuccessesHappened, OnceActionsRunOnce, KindOf, Replayable, localVars

LEMMA StutterStep == ASSUME DirectInv, UNCHANGED vars PROVE DirectInv'
BY DEF DirectInv, RunTypes, LocalTypes, RowInv, JobsDiffer, JobInv, CopyInv, Running, ActionsSeeEarlierResults,
   SuccessesHappened, OnceActionsRunOnce, KindOf, Replayable, vars, storeVars, localVars, worldVars, boundVars

-----------------------------------------------------------------------------
\* The invariant the theorems rest on.
THEOREM DirectInvariant == Spec => []DirectInv
<1>1. Init => DirectInv
  <2> SUFFICES ASSUME Init PROVE DirectInv
    OBVIOUS
  <2>1. PICK goal \in BOOLEAN :
           run = [goal |-> goal, status |-> "created", actions |-> <<>>, seen |-> {},
                  boundary |-> 0, told |-> FALSE, rejections |-> 0, epoch |-> 0]
    BY DEF Init
  <2>2. run \in Record /\ DOMAIN run.actions = {} /\ Len(run.actions) = 0
    BY <2>1 DEF Record
  <2>3. {MaxActions, MaxCalls, MaxLapses} \subseteq Nat
    BY DirectAssumption
  <2>4. LocalTypes
    BY <2>3 DEF Init, LocalTypes, Places
  <2>5. RunTypes /\ RowInv /\ JobsDiffer
    BY <2>2, <2>3 DEF Init, RunTypes, RowInv, JobsDiffer, ActionsSeeEarlierResults, SuccessesHappened, OnceActionsRunOnce
  <2>6. \A c \in Controllers : JobInv(c) /\ CopyInv(c)
    BY DEF Init, JobInv, CopyInv
  <2> QED BY <2>4, <2>5, <2>6 DEF DirectInv
<1>2. DirectInv /\ [Next]_vars => DirectInv'
  <2> SUFFICES ASSUME DirectInv, [Next]_vars PROVE DirectInv'
    OBVIOUS
  <2>1. ASSUME NEW c \in Controllers, Begin(c) \/ Kill(c) \/ Controller(c) PROVE DirectInv'
    <3>1. LocalTypes' /\ Others(c)
      BY <2>1, DirectAssumption, LocalsStep
    <3>2. Goal(c)
      BY <2>1, <3>1, DirectAssumption, ActorStep
    <3>3. ASSUME NEW d \in Controllers \ {c}
          PROVE  /\ JobInv(d)' /\ (d \notin stale' => CopyInv(d)')
                 /\ pc'[c] = "perform" /\ pc'[d] = "perform" => job'[c] # job'[d]
      BY <2>1, <3>1, <3>2, DirectAssumption, OthersStep
    <3>4. JobsDiffer'
      BY <3>1, <3>3 DEF DirectInv, JobsDiffer, Others
    <3> QED BY <3>1, <3>2, <3>3, <3>4 DEF DirectInv, Goal, RowGoal
  <2>2. CASE Lapse
    BY <2>2, LapseStep
  <2>3. CASE UNCHANGED vars
    BY <2>3, StutterStep
  <2> QED BY <2>1, <2>2, <2>3 DEF Next
<1> QED BY <1>1, <1>2, PTL DEF Spec

\* controller.py recovery and replay: an operation that must not be repeated takes effect at
\* most once, for any number of kills, recoveries and lapsed leases.
THEOREM OnceActionsAlwaysRunOnce == Spec => []OnceActionsRunOnce
<1>1. DirectInv => OnceActionsRunOnce
  BY DEF DirectInv, RowInv
<1> QED BY <1>1, DirectInvariant, PTL

\* action_finished: a success on record has happened, whoever recorded it.
THEOREM SuccessesAlwaysHappened == Spec => []SuccessesHappened
<1>1. DirectInv => SuccessesHappened
  BY DEF DirectInv, RowInv
<1> QED BY <1>1, DirectInvariant, PTL

\* first_unappended_action: no action starts before the model was told all earlier results.
THEOREM ResultsAreAlwaysTold == Spec => []ActionsSeeEarlierResults
<1>1. DirectInv => ActionsSeeEarlierResults
  BY DEF DirectInv, RowInv
<1> QED BY <1>1, DirectInvariant, PTL

\* RunStore.save: a completed run stays as it is, also while a controller whose lease has
\* lapsed still works on it.
THEOREM CompletedRunsStand == Spec => CompletionStands
<1>1. DirectInv /\ [Next]_vars => [run.status = "completed" => run' = run]_run
  <2> SUFFICES ASSUME DirectInv, [Next]_vars, run.status = "completed" PROVE run' = run
    OBVIOUS
  <2>1. \A c \in Controllers : c \notin stale => pc[c] = "off"
    BY DEF DirectInv, CopyInv
  <2> QED
    BY <2>1 DEF Next, vars, storeVars, Lapse, Begin, Kill, Controller, Replay, Recover, Start, Exhaust, Ask, Reject, Complete,
       TransportFails, StartAction, Perform, FinishAction, FinishReplay, CloseMenu, Yield, AskLast, LastAnswerFails,
       LastAnswer, FailRun, Abort, Save, SaveAndLeave, At
<1> QED BY <1>1, DirectInvariant, PTL DEF Spec, CompletionStands

-----------------------------------------------------------------------------
(* The run is one log.                                                       *)

Closed == run.status = "completed"

\* An action that is running is the last one.
LEMMA LogConcludes ==
    ASSUME DirectInv, NEW n \in DOMAIN run.actions, Running(n), NEW s \in {"succeeded", "failed", "interrupted"},
           IF s = "interrupted" THEN ~Replayable(n) ELSE effects[n] >= 1,
           run' = WithStatus(n, s), UNCHANGED worldVars
    PROVE  Log!Conclude(s)
<1>1. /\ n = Len(run.actions) /\ run.actions # <<>>
      /\ run.actions[n].op \in Operations /\ run.actions[n].status = "running"
      /\ effects[n] >= 1 => effects[n] > 0
  <2>1. run \in Record /\ n = Len(run.actions) /\ run.actions[n].status = "running" /\ DOMAIN effects = Ids
        /\ effects \in [Ids -> Nat]
    BY DEF DirectInv, RunTypes, RowInv, Running, LocalTypes
  <2>2. run.actions[n] \in Entry /\ n \in 1..Len(run.actions) /\ Len(run.actions) \in Nat /\ Len(run.actions) <= MaxActions
    BY <2>1, RecordActions DEF DirectInv, RunTypes
  <2>3. effects[n] \in Nat
    BY <2>1, <2>2, DirectAssumption DEF Ids
  <2>4. run.actions # <<>>
    BY <2>2
  <2> QED BY <2>1, <2>2, <2>3, <2>4 DEF Entry
<1>2. ~Replayable(n) => run.actions[n].op \in {op \in Operations : Kind[op] \in {"once", "snapshot"}}
  BY <1>1, DirectAssumption DEF Replayable, KindOf, Kinds
<1>3. run'.actions = [run.actions EXCEPT ![n] = [op |-> run.actions[n].op, status |-> s]] /\ run'.status = run.status
  BY WithStatusIs DEF DirectInv, RunTypes, Concluded, Statuses
<1> QED BY <1>1, <1>2, <1>3 DEF Log!Conclude, worldVars

LEMMA LogStep ==
    ASSUME DirectInv, [Next]_vars
    PROVE  [Log!Next]_(Log!vars)
<1>1. ASSUME run'.actions = run.actions, run'.status = run.status, UNCHANGED effects
      PROVE  UNCHANGED Log!vars
  BY <1>1 DEF Log!vars
<1>2. ASSUME NEW c \in Controllers, Controller(c) PROVE Log!Next \/ UNCHANGED Log!vars
  <2>0. /\ run \in Record /\ JobInv(c) /\ (c \notin stale => CopyInv(c))
        /\ pc[c] \in Places /\ outcome[c] \in {"none", "succeeded", "failed"}
    BY DEF DirectInv, RunTypes, LocalTypes
  <2>1. CASE Replay(c) \/ Exhaust(c) \/ Abort(c)
    BY <1>1, <2>1 DEF Replay, Exhaust, Abort, storeVars, worldVars
  <2>2. CASE Ask(c) \/ Reject(c) \/ CloseMenu(c) \/ Yield(c) \/ AskLast(c) \/ LastAnswerFails(c)
             \/ \E retryable \in BOOLEAN : TransportFails(c, retryable)
    <3>1. run'.actions = run.actions /\ run'.status = run.status /\ UNCHANGED effects
      BY <2>0, <2>2 DEF Ask, Reject, CloseMenu, Yield, AskLast, LastAnswerFails, TransportFails, Save, SaveAndLeave,
         storeVars, worldVars, Record
    <3> QED BY <1>1, <3>1
  <2>3. CASE Start(c) \/ LastAnswer(c) \/ FailRun(c)
    <3>1. c \notin stale /\ pc[c] # "off"
      BY <2>3 DEF Start, LastAnswer, FailRun, Save, SaveAndLeave, At
    <3>2. ~Closed
      BY <2>0, <3>1 DEF CopyInv, Closed
    <3>3. run'.actions = run.actions /\ UNCHANGED effects /\ (run'.status = "completed" <=> Closed)
      BY <2>0, <2>3, <3>2 DEF Start, LastAnswer, FailRun, Save, SaveAndLeave, storeVars, worldVars, Record, Closed
    <3> QED BY <3>3 DEF Log!vars, Closed
  <2>4. CASE Complete(c)
    <3>1. c \notin stale /\ At(c, "asked") /\ run' = [run EXCEPT !.status = "completed"] /\ UNCHANGED effects
      BY <2>4 DEF Complete, SaveAndLeave, worldVars
    <3>2. \A n \in DOMAIN run.actions : ~Running(n)
      BY <2>0, <3>1 DEF CopyInv, At
    <3>3. run'.actions = run.actions /\ run'.status = "completed"
      BY <2>0, <3>1 DEF Record
    <3> QED BY <3>1, <3>2, <3>3 DEF Log!Next, Log!Close, Log!Open, Running
  <2>5. ASSUME NEW op \in Operations, StartAction(c, op) PROVE Log!Next
    <3>1. /\ c \notin stale /\ At(c, "asked") /\ UNCHANGED effects
          /\ run' = [run EXCEPT !.actions = Append(@, [op |-> op, status |-> "running"])]
      BY <2>5 DEF StartAction, Save, worldVars
    <3>2. ~Closed /\ \A n \in DOMAIN run.actions : ~Running(n)
      BY <2>0, <3>1 DEF CopyInv, At, Closed
    <3>3. run'.actions = Append(run.actions, [op |-> op, status |-> "running"]) /\ run'.status = run.status
      BY <2>0, <3>1 DEF Record
    <3> QED BY <3>1, <3>2, <3>3 DEF Log!Next, Log!Start, Log!Open, Running, Closed
  <2>6. CASE Perform(c)
    <3>1. /\ pc[c] \in {"perform", "replay"} /\ effects' = [effects EXCEPT ![job[c]] = @ + 1] /\ run' = run
      BY <2>6 DEF Perform, storeVars
    <3>2. job[c] \in DOMAIN run.actions /\ (Replayable(job[c]) \/ effects[job[c]] = 0)
      BY <2>0, <3>1 DEF JobInv
    <3>3. job[c] \in Ids
      <4>1. DOMAIN run.actions = 1..Len(run.actions) /\ Len(run.actions) \in Nat /\ Len(run.actions) <= MaxActions
        BY <2>0, RecordActions DEF DirectInv, RunTypes
      <4> QED BY <3>2, <4>1, DirectAssumption DEF Ids
    <3>4. Log!Perform(job[c])
      BY <3>1, <3>2 DEF Log!Perform, Replayable, KindOf
    <3> QED BY <3>3, <3>4 DEF Log!Next
  <2>7. CASE Recover(c)
    <3>1. PICK s \in {"succeeded", "failed", "interrupted"} :
             RecoveredAs(job[c], s) /\ c \notin stale /\ run' = WithStatus(job[c], s)
      BY <2>7 DEF Recover, Save
    <3>2. At(c, "recover") /\ ~Replayable(job[c]) /\ UNCHANGED worldVars
      BY <2>7 DEF Recover
    <3>3. job[c] \in DOMAIN run.actions /\ Running(job[c])
      BY <2>0, <3>1, <3>2 DEF JobInv, CopyInv, At
    <3>4. s # "interrupted" => effects[job[c]] >= 1
      BY <3>1 DEF RecoveredAs, DirectInv, RowInv
    <3>5. Log!Conclude(s)
      BY <3>1, <3>2, <3>3, <3>4, LogConcludes
    <3> QED BY <3>5 DEF Log!Next
  <2>8. CASE FinishAction(c) \/ FinishReplay(c)
    <3>1. /\ c \notin stale /\ pc[c] \in {"finish", "replayed"} /\ run' = WithStatus(job[c], outcome[c])
          /\ UNCHANGED worldVars
      BY <2>8 DEF FinishAction, FinishReplay, Save, At
    <3>2. /\ job[c] \in DOMAIN run.actions /\ Running(job[c]) /\ effects[job[c]] >= 1
          /\ outcome[c] \in {"succeeded", "failed"}
      BY <2>0, <3>1 DEF JobInv, CopyInv
    <3>3. Log!Conclude(outcome[c])
      BY <3>1, <3>2, LogConcludes
    <3> QED BY <3>2, <3>3 DEF Log!Next
  <2> QED BY <1>2, <2>1, <2>2, <2>3, <2>4, <2>5, <2>6, <2>7, <2>8 DEF Controller
<1>3. ASSUME NEW c \in Controllers, Begin(c) \/ Kill(c) PROVE UNCHANGED Log!vars
  BY <1>1, <1>3 DEF Begin, Kill, worldVars
<1>4. CASE Lapse \/ UNCHANGED vars
  BY <1>1, <1>4 DEF Lapse, vars, storeVars, worldVars
<1> QED BY <1>2, <1>3, <1>4 DEF Next

\* store.py save and controller.py recovery: controllers that are killed, lose their lease and
\* go on beside one another keep one log, in which every entry is begun, performed and
\* concluded in turn.
THEOREM ControllersAlwaysKeepALog == Spec => ControllersKeepALog
<1>1. Init => Log!Init
  <2> SUFFICES ASSUME Init PROVE Log!Init
    OBVIOUS
  <2>1. run.actions = <<>> /\ run.status = "created" /\ effects = [n \in Ids |-> 0]
    BY DEF Init
  <2> QED BY <2>1 DEF Log!Init
<1> QED BY <1>1, LogStep, DirectInvariant, PTL DEF Spec, ControllersKeepALog, Log!Spec

-----------------------------------------------------------------------------
(* What is left of a call of run(), the most significant part first.         *)

InLoop == {"loop", "asked", "perform", "finish", "repeat"}

Phase(c) ==
    IF pc[c] \in InLoop THEN 3
    ELSE [off |-> 0, closing |-> 1, stop |-> 2, start |-> 4, replayed |-> 5, replay |-> 6, recover |-> 7][pc[c]]

TurnsLeft(c) == max_transitions - turns[c]

\* Failed calls of the model in the loop, failed attempts at a last answer after it.
TriesLeft(c) == (TransportLimit + TerminalLimit) - fails[c]

Place(c) ==
    IF pc[c] \in InLoop THEN [asked |-> 1, loop |-> 2, repeat |-> 3, finish |-> 4, perform |-> 5][pc[c]] ELSE 0

CallsAreBounded ==
    \A c \in Controllers :
        Phase(c) \in 0..7 /\ TurnsLeft(c) \in Nat /\ TriesLeft(c) \in Nat \ {0} /\ Place(c) \in 0..5

LessIsLeft(c) ==
    \/ Phase(c)' < Phase(c)
    \/ Phase(c)' = Phase(c) /\ TurnsLeft(c)' < TurnsLeft(c)
    \/ Phase(c)' = Phase(c) /\ TurnsLeft(c)' = TurnsLeft(c) /\ TriesLeft(c)' < TriesLeft(c)
    \/ Phase(c)' = Phase(c) /\ TurnsLeft(c)' = TurnsLeft(c) /\ TriesLeft(c)' = TriesLeft(c) /\ Place(c)' < Place(c)

\* Each step of a controller leaves less of its call, whatever the others do meanwhile.
StepsAreBounded ==
    [][\A c \in Controllers : IF Controller(c) THEN LessIsLeft(c)
                              ELSE pc'[c] # "off" /\ pc[c] # "off" =>
                                      UNCHANGED <<pc[c], turns[c], fails[c]>>]_vars

LocalTypesNow ==
    /\ pc \in [Controllers -> Places]
    /\ turns \in [Controllers -> Nat] /\ fails \in [Controllers -> Nat]

LEMMA LocalTypesAreTyped == DirectInv => LocalTypesNow
BY DEF DirectInv, LocalTypes, LocalTypesNow

\* What a controller does to its own counters.
Counts(c) ==
    \/ turns'[c] = turns[c] /\ fails'[c] = fails[c] /\ (pc'[c] = "asked" => turns[c] < max_transitions)
    \/ pc'[c] # "asked" /\ turns'[c] \in {0, turns[c]} /\ fails'[c] = 0
    \/ pc'[c] # "asked" /\ pc[c] = "asked" /\ turns'[c] = turns[c] + 1 /\ fails'[c] \in {0, fails[c]}
    \/ pc'[c] # "asked" /\ turns'[c] = turns[c] /\ fails'[c] = fails[c] + 1
       /\ (fails[c] + 1 < TransportLimit \/ fails[c] + 1 < TerminalLimit)

BoundInv(c) ==
    /\ turns[c] <= max_transitions
    /\ pc[c] = "asked" => turns[c] < max_transitions
    /\ fails[c] < TransportLimit \/ fails[c] < TerminalLimit

CountInv == \A c \in Controllers : BoundInv(c)

Silent(c) == UNCHANGED <<pc[c], turns[c], fails[c]>>

\* A controller leaves the counters of the others alone.
LEMMA OthersCount ==
    ASSUME LocalTypesNow, NEW c \in Controllers, Begin(c) \/ Kill(c) \/ Controller(c)
    PROVE  \A d \in Controllers \ {c} : Silent(d)
<1> USE DEF LocalTypesNow, Silent, Goto, Keep, Leave, localVars, Save, SaveAndLeave
<1>1. CASE Begin(c) \/ Kill(c) \/ Abort(c) \/ Complete(c) \/ Yield(c) \/ LastAnswer(c) \/ FailRun(c)
  BY <1>1 DEF Begin, Kill, Abort, Complete, Yield, LastAnswer, FailRun
<1>2. CASE Replay(c) \/ Recover(c) \/ Start(c) \/ Exhaust(c) \/ Ask(c) \/ Perform(c) \/ FinishReplay(c) \/ CloseMenu(c)
           \/ AskLast(c) \/ LastAnswerFails(c) \/ Reject(c)
  BY <1>2 DEF Replay, Recover, Start, Exhaust, Ask, Perform, FinishReplay, CloseMenu, AskLast, LastAnswerFails, Reject
<1>3. CASE FinishAction(c) \/ (\E retryable \in BOOLEAN : TransportFails(c, retryable))
           \/ \E op \in Operations : StartAction(c, op)
  BY <1>3 DEF FinishAction, TransportFails, StartAction
<1> QED BY <1>1, <1>2, <1>3 DEF Controller

\* Only a controller at work can be behind.
StaleInv == stale \subseteq Active

LEMMA StaleStep ==
    ASSUME LocalTypesNow, StaleInv, [Next]_vars
    PROVE  StaleInv'
<1> USE DEF LocalTypesNow, StaleInv, Active, Goto, Keep, Leave, At
<1>1. ASSUME NEW c \in Controllers, Begin(c) \/ Kill(c) \/ Controller(c) PROVE StaleInv'
  <2>1. \A d \in Controllers \ {c} : pc'[d] = pc[d]
    BY <1>1, OthersCount DEF Silent
  <2>2. stale' \subseteq stale \cup Active
    BY <1>1 DEF Begin, Kill, Controller, Replay, Recover, Start, Exhaust, Ask, Reject, Complete, TransportFails, StartAction,
       Perform, FinishAction, FinishReplay, CloseMenu, Yield, AskLast, LastAnswerFails, LastAnswer, FailRun, Abort, Save,
       SaveAndLeave, storeVars
  <2>3. pc'[c] = "off" => c \notin stale'
    <3>1. CASE Begin(c) \/ Kill(c) \/ Abort(c) \/ Complete(c) \/ Yield(c) \/ LastAnswer(c) \/ FailRun(c)
      BY <3>1 DEF Begin, Kill, Abort, Complete, Yield, LastAnswer, FailRun, SaveAndLeave
    <3>2. CASE Replay(c) \/ Recover(c) \/ Start(c) \/ Exhaust(c) \/ Ask(c) \/ Perform(c) \/ FinishReplay(c) \/ CloseMenu(c)
           \/ AskLast(c) \/ LastAnswerFails(c) \/ Reject(c)
      BY <3>2 DEF Replay, Recover, Start, Exhaust, Ask, Perform, FinishReplay, CloseMenu, AskLast, LastAnswerFails, Reject
    <3>3. CASE FinishAction(c) \/ (\E retryable \in BOOLEAN : TransportFails(c, retryable))
           \/ \E op \in Operations : StartAction(c, op)
      BY <3>3 DEF FinishAction, After, TransportFails, StartAction
    <3> QED BY <1>1, <3>1, <3>2, <3>3 DEF Controller
  <2> QED BY <2>1, <2>2, <2>3
<1>2. CASE Lapse \/ UNCHANGED vars
  BY <1>2 DEF Lapse, vars, storeVars
<1> QED BY <1>1, <1>2 DEF Next

LEMMA StaleAreActive == Spec => []StaleInv
<1>1. Init => StaleInv
  BY DEF Init, StaleInv
<1> QED BY <1>1, StaleStep, LocalTypesAreTyped, DirectInvariant, PTL DEF Spec

\* What a step of a controller leaves of its call.
LEMMA OwnStep ==
    ASSUME LocalTypesNow, StaleInv, NEW c \in Controllers, Controller(c)
    PROVE  LessIsLeft(c) /\ Counts(c)
<1> USE DEF LocalTypesNow, Goto, Keep, At
<1>0. /\ max_transitions \in Nat /\ TransportLimit \in Nat /\ TerminalLimit \in Nat
      /\ turns[c] \in Nat /\ fails[c] \in Nat /\ pc[c] \in Places
  BY DirectAssumption
<1>1. ASSUME Phase(c)' < Phase(c) PROVE LessIsLeft(c)
  BY <1>1 DEF LessIsLeft
<1>2. CASE Abort(c) \/ Complete(c) \/ Yield(c) \/ LastAnswer(c) \/ FailRun(c)
  <2>1. pc'[c] = "off" /\ turns'[c] = 0 /\ fails'[c] = 0
    BY <1>2 DEF Abort, Complete, Yield, LastAnswer, FailRun, SaveAndLeave, Leave
  <2>2. pc[c] # "off"
    BY <1>2 DEF Abort, Complete, Yield, LastAnswer, FailRun, Active, StaleInv
  <2>3. Phase(c)' = 0 /\ Phase(c) > 0
    BY <1>0, <2>1, <2>2 DEF Phase, InLoop, Places
  <2> QED BY <1>1, <2>1, <2>3 DEF Counts
<1>3. CASE Replay(c) \/ Recover(c) \/ Start(c) \/ Exhaust(c) \/ FinishReplay(c) \/ (Perform(c) /\ pc[c] = "replay")
  <2>1. <<pc[c], pc'[c]>> \in {<<"recover", "replay">>, <<"recover", "start">>, <<"start", "loop">>, <<"loop", "stop">>,
                                <<"replayed", "start">>, <<"replay", "replayed">>}
        /\ turns'[c] = turns[c] /\ fails'[c] = fails[c]
    BY <1>3 DEF Replay, Recover, Start, Exhaust, FinishReplay, Perform, localVars
  <2>2. Phase(c)' < Phase(c)
    BY <2>1 DEF Phase, InLoop
  <2> QED BY <1>1, <2>1, <2>2 DEF Counts
<1>4. CASE AskLast(c)
  <2>1. pc[c] = "stop" /\ pc'[c] = "closing" /\ turns'[c] = turns[c] /\ fails'[c] = 0
    BY <1>4 DEF AskLast
  <2>2. Phase(c)' < Phase(c)
    BY <2>1 DEF Phase, InLoop
  <2> QED BY <1>1, <2>1, <2>2 DEF Counts
<1>5. CASE Reject(c) \/ \E op \in Operations : StartAction(c, op)
  <2>1. pc[c] = "asked" /\ pc'[c] \in {"stop", "loop", "perform"} /\ turns'[c] = turns[c] + 1 /\ fails'[c] \in {0, fails[c]}
    BY <1>5 DEF Reject, StartAction
  <2>2. Phase(c)' <= Phase(c) /\ Phase(c)' \in Nat /\ Phase(c) \in Nat
    BY <2>1 DEF Phase, InLoop
  <2>3. TurnsLeft(c)' < TurnsLeft(c)
    BY <1>0, <2>1 DEF TurnsLeft
  <2>4. Phase(c)' < Phase(c) \/ Phase(c)' = Phase(c)
    BY <2>2
  <2> QED BY <2>1, <2>3, <2>4 DEF LessIsLeft, Counts
<1>6. CASE Ask(c) \/ FinishAction(c) \/ CloseMenu(c) \/ (Perform(c) /\ pc[c] # "replay")
  <2>1. turns'[c] = turns[c] /\ fails'[c] = fails[c]
    BY <1>6 DEF Ask, FinishAction, CloseMenu, Perform, localVars
  <2>2. <<pc[c], pc'[c]>> \in {<<"loop", "asked">>, <<"finish", "loop">>, <<"finish", "repeat">>, <<"finish", "stop">>,
                                <<"repeat", "loop">>, <<"perform", "finish">>}
    <3>1. ASSUME FinishAction(c) PROVE pc[c] = "finish" /\ pc'[c] \in {"loop", "repeat", "stop"}
      <4>1. pc[c] = "finish" /\ \E next \in After(WithStatus(job[c], outcome[c]), job[c]) : pc' = [pc EXCEPT ![c] = next]
        BY <3>1 DEF FinishAction
      <4>2. After(WithStatus(job[c], outcome[c]), job[c]) \subseteq {"loop", "repeat", "stop"}
        BY DEF After
      <4> QED BY <4>1, <4>2
    <3> QED BY <1>6, <3>1 DEF Ask, CloseMenu, Perform
  <2>3. TurnsLeft(c)' = TurnsLeft(c) /\ TriesLeft(c)' = TriesLeft(c)
    BY <2>1 DEF TurnsLeft, TriesLeft
  <2>4. Phase(c)' < Phase(c) \/ (Phase(c)' = Phase(c) /\ Place(c)' < Place(c))
    BY <2>2 DEF Phase, Place, InLoop
  <2>5. pc'[c] = "asked" => turns[c] < max_transitions
    BY <1>6, <2>2 DEF Ask, FinishAction, CloseMenu, Perform
  <2> QED BY <2>1, <2>3, <2>4, <2>5 DEF LessIsLeft, Counts
<1>7. CASE LastAnswerFails(c)
  <2>1. pc[c] = "closing" /\ pc'[c] = "closing" /\ turns'[c] = turns[c] /\ fails'[c] = fails[c] + 1
        /\ fails[c] + 1 < TerminalLimit
    BY <1>7 DEF LastAnswerFails
  <2>2. Phase(c)' = Phase(c) /\ TurnsLeft(c)' = TurnsLeft(c)
    BY <2>1 DEF Phase, InLoop, TurnsLeft
  <2>3. TriesLeft(c)' < TriesLeft(c)
    BY <1>0, <2>1 DEF TriesLeft
  <2> QED BY <2>1, <2>2, <2>3 DEF LessIsLeft, Counts
<1>8. ASSUME NEW retryable \in BOOLEAN, TransportFails(c, retryable) PROVE LessIsLeft(c) /\ Counts(c)
  <2>1. /\ pc[c] \in {"loop", "asked"} /\ turns'[c] = turns[c]
        /\ \/ pc'[c] = "stop" /\ fails'[c] = 0
           \/ pc'[c] = "loop" /\ fails'[c] = fails[c] + 1 /\ fails[c] + 1 < TransportLimit
    BY <1>0, <1>8 DEF TransportFails, CountFailure
  <2>2. CASE pc'[c] = "stop"
    <3>1. Phase(c)' < Phase(c)
      BY <2>1, <2>2 DEF Phase, InLoop
    <3> QED BY <1>1, <2>1, <2>2, <3>1 DEF Counts
  <2>3. CASE pc'[c] = "loop"
    <3>1. Phase(c)' = Phase(c) /\ TurnsLeft(c)' = TurnsLeft(c)
      BY <2>1, <2>3 DEF Phase, InLoop, TurnsLeft
    <3>2. TriesLeft(c)' < TriesLeft(c)
      BY <1>0, <2>1, <2>3 DEF TriesLeft
    <3> QED BY <2>1, <2>3, <3>1, <3>2 DEF LessIsLeft, Counts
  <2> QED BY <2>1, <2>2, <2>3
<1> QED BY <1>2, <1>3, <1>4, <1>5, <1>6, <1>7, <1>8 DEF Controller

LEMMA BoundStep ==
    ASSUME DirectInv, StaleInv, CountInv, [Next]_vars
    PROVE  CountInv'
<1> USE DEF CountInv
<1>0. /\ max_transitions \in Nat \ {0} /\ TransportLimit \in Nat \ {0} /\ TerminalLimit \in Nat \ {0}
      /\ LocalTypesNow /\ \A c \in Controllers : turns[c] \in Nat /\ fails[c] \in Nat
  BY DirectAssumption, LocalTypesAreTyped DEF LocalTypesNow
<1>1. ASSUME NEW d \in Controllers, Silent(d) PROVE BoundInv(d)'
  BY <1>1 DEF Silent, BoundInv
<1>2. ASSUME NEW c \in Controllers, Begin(c) \/ Kill(c) PROVE BoundInv(c)'
  <2>1. /\ pc'[c] \in {"off", "start", "recover"} /\ turns'[c] \in {0, turns[c]} /\ fails'[c] \in {0, fails[c]}
    BY <1>0, <1>2 DEF Begin, Kill, Leave, Goto, Keep, LocalTypesNow
  <2> QED BY <1>0, <2>1 DEF BoundInv
<1>3. ASSUME NEW c \in Controllers, Controller(c) PROVE BoundInv(c)'
  <2>1. Counts(c)
    BY <1>0, <1>3, OwnStep
  <2> QED BY <1>0, <2>1 DEF Counts, BoundInv
<1>4. ASSUME NEW c \in Controllers, Begin(c) \/ Kill(c) \/ Controller(c) PROVE \A d \in Controllers : BoundInv(d)'
  BY <1>0, <1>1, <1>2, <1>3, <1>4, OthersCount
<1>5. CASE Lapse \/ UNCHANGED vars
  BY <1>1, <1>5 DEF Lapse, vars, localVars, Silent
<1> QED BY <1>4, <1>5 DEF Next

\* A call of run() takes no more turns than it may and loses no more calls of the model than
\* it may, in a row and at its end.
THEOREM CallsStayBounded == Spec => []CallsAreBounded
<1>1. Init => CountInv
  <2>1. 0 <= max_transitions /\ 0 < TransportLimit
    BY DirectAssumption
  <2> QED BY <2>1 DEF Init, CountInv, BoundInv
<1>2. Spec => []CountInv
  BY <1>1, BoundStep, StaleAreActive, DirectInvariant, PTL DEF Spec
<1>3. ASSUME DirectInv, CountInv PROVE CallsAreBounded
  <2> SUFFICES ASSUME NEW c \in Controllers
               PROVE Phase(c) \in 0..7 /\ TurnsLeft(c) \in Nat /\ TriesLeft(c) \in Nat \ {0} /\ Place(c) \in 0..5
    BY DEF CallsAreBounded
  <2>1. pc[c] \in Places /\ turns[c] \in Nat /\ fails[c] \in Nat /\ BoundInv(c)
    BY <1>3, LocalTypesAreTyped DEF LocalTypesNow, CountInv
  <2>2. max_transitions \in Nat /\ TransportLimit \in Nat /\ TerminalLimit \in Nat
    BY DirectAssumption
  <2>3. Phase(c) \in 0..7
    BY <2>1 DEF Phase, InLoop, Places
  <2>4. Place(c) \in 0..5
    BY DEF Place, InLoop
  <2> QED BY <2>1, <2>2, <2>3, <2>4 DEF BoundInv, TurnsLeft, TriesLeft
<1> QED BY <1>2, <1>3, DirectInvariant, PTL

\* A call of run() cannot go on for ever, whatever the model, the operations, and the other
\* controllers do: each of its steps leaves less of it, and no step of another one gives
\* anything back.
THEOREM StepsStayBounded == Spec => StepsAreBounded
<1>1. ASSUME DirectInv, StaleInv, [Next]_vars, NEW c \in Controllers
      PROVE  IF Controller(c) THEN LessIsLeft(c)
             ELSE pc'[c] # "off" /\ pc[c] # "off" => UNCHANGED <<pc[c], turns[c], fails[c]>>
  <2>0. LocalTypesNow
    BY <1>1, LocalTypesAreTyped
  <2>1. CASE Controller(c)
    BY <1>1, <2>0, <2>1, OwnStep
  <2>2. CASE ~Controller(c)
    <3>1. CASE Begin(c) \/ Kill(c)
      BY <2>0, <2>2, <3>1 DEF Begin, Kill, Leave, Goto, At, LocalTypesNow
    <3>2. ASSUME NEW d \in Controllers \ {c}, Begin(d) \/ Kill(d) \/ Controller(d) PROVE Silent(c)
      BY <2>0, <3>2, OthersCount
    <3>3. CASE Lapse \/ UNCHANGED vars
      BY <2>2, <3>3 DEF Lapse, vars, localVars
    <3> QED BY <1>1, <2>2, <3>1, <3>2, <3>3 DEF Next, Silent
  <2> QED BY <2>1, <2>2
<1>2. ASSUME DirectInv, StaleInv, [Next]_vars
      PROVE  [\A c \in Controllers : IF Controller(c) THEN LessIsLeft(c)
                              ELSE pc'[c] # "off" /\ pc[c] # "off" =>
                                      UNCHANGED <<pc[c], turns[c], fails[c]>>]_vars
  BY <1>1, <1>2
<1> QED BY <1>2, StaleAreActive, DirectInvariant, PTL DEF Spec, StepsAreBounded

=================================================================================
