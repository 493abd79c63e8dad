------------------------ MODULE PaymentIntentsProofs ------------------------
(* Proofs about the payment lifecycle for every number of intents, attempts, *)
(* reversal dispatchers and rail submissions, and both capture methods: what *)
(* the rows say of each other, then that money on the rail and money in the  *)
(* books are traced to each other, whether the rail answers exactly or not.  *)
EXTENDS PaymentIntents, TLAPS

(* A step that names no prover is tried with each of these in turn.         *)
USE ZenonT(2), SMT, Zenon, SMTT(30)

Early == {"ABSENT", "CREATED", "REQUIRES_PAYMENT_METHOD", "REQUIRES_CONFIRMATION",
          "REQUIRES_ACTION"}
LatestIs(row, s) == row.n > 0 /\ row.att[row.n] = s

(* What holds of the rows of an intent wherever a transaction sees them.     *)
RowInv(row) ==
    /\ row \in Rows
    /\ \A k \in Numbers : /\ k < row.n => row.att[k] = "AUTHORIZATION_FAILED"
                          /\ k > row.n => row.att[k] = "ABSENT"
    /\ row.captured <=> row.status = "SUCCEEDED"
    /\ row.captured <=> LatestIs(row, "CHARGED")
    /\ row.hold = "OPEN" <=> LatestIs(row, "AUTHORIZED")
    /\ row.status = "REQUIRES_CAPTURE" => LatestIs(row, "AUTHORIZED")
    /\ LatestIs(row, "AUTHORIZED") => \/ row.status \in Reversing \cup {"REQUIRES_CAPTURE"}
                                      \/ row.status = "FAILED" /\ row.queued
    /\ row.status \in Early => row.n = 0

(* A task is at work only once the intent is past its pre-flight; an open    *)
(* transaction belongs to a PROCESSING intent; and the attempt to be         *)
(* inserted is the one after the last, which has failed.                     *)
TaskInv(i) ==
    /\ db[i].status \in Early => \A t \in Tasks : task[i][t].at = "idle"
    /\ open[i] # "none" => /\ RowInv(draft[i]) /\ draft[i].n > 0
                           /\ draft[i].status = "PROCESSING" /\ db[i].status = "PROCESSING"
    /\ \A t \in Tasks : task[i][t].at = "dispatch" =>
          \/ /\ open[i] = t /\ draft[i].n = task[i][t].k - 1
             /\ draft[i].att[draft[i].n] = "AUTHORIZATION_FAILED"
          \/ /\ t = "request" /\ open[i] = "none" /\ task[i][t].k = 1 /\ db[i].n = 0
             /\ task[i]["callback"].at = "idle"

Good(i) == RowInv(db[i]) /\ TaskInv(i)

(* A reversal under way addresses an attempt.                                *)
RevInv == \A r \in Reversers : rev[r].at # "idle" => rev[r].i \in Intents /\ db[rev[r].i].n > 0

Inv == TypeOK /\ RevInv /\ \A i \in Intents : Good(i)
-----------------------------------------------------------------------------
(* Rows of the transition tables: which status a trigger starts from.        *)

(* Resolving a trigger of the intent table fixes the status it starts from.  *)
LEMMA IntentRules ==
    ASSUME NEW row, NEW to
    PROVE  /\ IntentMove(row, "method_supplied", to) =>
                 \/ row.status = "CREATED" /\ to = "REQUIRES_PAYMENT_METHOD"
                 \/ row.status = "REQUIRES_PAYMENT_METHOD" /\ to = "REQUIRES_CONFIRMATION"
           /\ IntentMove(row, "confirm", to) => row.status \in {"CREATED", "REQUIRES_CONFIRMATION"}
           /\ IntentMove(row, "action_completed", to) =>
                 row.status = "REQUIRES_ACTION" /\ to = "PROCESSING"
           /\ IntentMove(row, "action_failed", to) =>
                 row.status = "REQUIRES_ACTION" /\ to = "FAILED"
           /\ IntentMove(row, "cancel_requested", to) => row.status \in Early
           /\ IntentMove(row, "void_requested", to) => row.status = "REQUIRES_CAPTURE"
           /\ IntentMove(row, "capture_requested", to) => row.status = "REQUIRES_CAPTURE"
  BY DEF IntentMove, Resolves, INTENT_TABLE, PreDispatchRules, RailRules, ReversalRules,
         RefundingRules, Early

(* The answers of the rail move only a PROCESSING intent, and the triggers   *)
(* of a reversal only one that is being reversed.                            *)
LEMMA RailRulesFrom ==
    ASSUME NEW row, NEW to
    PROVE  /\ \A trigger \in {"attempt_authorized", "attempt_charged", "attempt_failed_retryable",
                              "attempt_timed_out", "attempt_hard_declined", "reversal_triggered"} :
                 IntentMove(row, trigger, to) => row.status = "PROCESSING"
           /\ \A trigger \in {"reversal_dispatch_claimed", "reversal_confirmed",
                              "reversal_failed"} :
                 IntentMove(row, trigger, to) => row.status \in Reversing
  BY DEF IntentMove, Resolves, INTENT_TABLE, PreDispatchRules, RailRules, ReversalRules,
         RefundingRules, Reversing

(* The outcomes of pre-flight.                                               *)
LEMMA PreFlightRules ==
    ASSUME NEW to
    PROVE  /\ Resolves(INTENT_TABLE, "PRE_FLIGHT", "preflight_passed", to) => to = "PROCESSING"
           /\ Resolves(INTENT_TABLE, "PRE_FLIGHT", "action_required", to) => to = "REQUIRES_ACTION"
           /\ Resolves(INTENT_TABLE, "PRE_FLIGHT", "aml_block", to) => to = "FAILED"
  BY DEF Resolves, INTENT_TABLE, PreDispatchRules, RailRules, ReversalRules, RefundingRules

(* An answer applies to an attempt that awaits one.                          *)
LEMMA AttemptRules ==
    ASSUME NEW row, NEW k, NEW to
    PROVE  /\ AttemptMove(row, k, "submitted", to) => row.att[k] = "STARTED"
           /\ \A trigger \in {"connector_authorized", "connector_success_direct",
                              "connector_failed", "connector_rejected", "connector_timeout"} :
                 AttemptMove(row, k, trigger, to) => row.att[k] = "AUTHORIZATION_PENDING"
           /\ AttemptMove(row, k, "poll_success", to) => row.att[k] = "TIMED_OUT"
  BY DEF AttemptMove, Resolves, ATTEMPT_TABLE
-----------------------------------------------------------------------------
(* What the operations make of the rows of an intent.                        *)

(* An attempt that is neither missing nor failed is the latest one.          *)
LEMMA LiveIsLatest ==
    ASSUME NEW row, RowInv(row), NEW k \in Numbers,
           row.att[k] \notin {"AUTHORIZATION_FAILED", "ABSENT"}
    PROVE  k = row.n /\ row.n > 0 /\ row.n \in Numbers
  BY IntentsAssumption DEF RowInv, Rows, Numbers

(* Before pre-flight is passed no attempt has any status.                    *)
LEMMA EarlyRow ==
    ASSUME NEW row, RowInv(row), row.status \in Early, NEW s
    PROVE  ~LatestIs(row, s)
<1>1. row.n = 0
  BY DEF RowInv
<1> QED  BY <1>1 DEF LatestIs

(* A change of status alone.                                                 *)
LEMMA StatusRow ==
    ASSUME NEW row, RowInv(row), NEW to \in IntentStates,
           to # "SUCCEEDED", row.status # "SUCCEEDED", to # "REQUIRES_CAPTURE",
           LatestIs(row, "AUTHORIZED") => to \in Reversing \/ (to = "FAILED" /\ row.queued),
           to \in Early => row.n = 0
    PROVE  RowInv([row EXCEPT !.status = to])
  BY DEF RowInv, Rows, LatestIs

(* The rows once the latest attempt has been given a status.                 *)
LEMMA LatestRow ==
    ASSUME NEW row, RowInv(row), row.n > 0, NEW s \in AttemptStates,
           NEW new \in Rows, new.n = row.n, new.att = [row.att EXCEPT ![row.n] = s],
           new.captured <=> new.status = "SUCCEEDED", new.captured <=> s = "CHARGED",
           new.hold = "OPEN" <=> s = "AUTHORIZED",
           new.status = "REQUIRES_CAPTURE" <=> s = "AUTHORIZED",
           new.status \notin Early
    PROVE  RowInv(new)
<1>1. row.n \in Numbers /\ new.att[row.n] = s
  BY IntentsAssumption DEF RowInv, Rows, Numbers
<1>2. \A k \in Numbers : k # row.n => new.att[k] = row.att[k]
  BY DEF RowInv, Rows
<1>3. \A x : LatestIs(new, x) <=> s = x
  BY <1>1 DEF LatestIs
<1>4. \A k \in Numbers : /\ k < new.n => new.att[k] = "AUTHORIZATION_FAILED"
                         /\ k > new.n => new.att[k] = "ABSENT"
  BY <1>2 DEF RowInv, Rows, Numbers
<1> QED  BY <1>3, <1>4 DEF RowInv

(* The rows with a new attempt after one that failed, or with a first one.   *)
LEMMA InsertedRow ==
    ASSUME NEW row, RowInv(row), NEW k \in Numbers, row.n = k - 1, row.status \notin Early,
           row.n > 0 => row.att[row.n] = "AUTHORIZATION_FAILED",
           NEW new \in Rows, new.n = k, new.att = [row.att EXCEPT ![k] = "STARTED"],
           new.status = row.status, new.captured = row.captured, new.hold = row.hold
    PROVE  RowInv(new)
<1>3. new.att[k] = "STARTED" /\ \A m \in Numbers : m # k => new.att[m] = row.att[m]
  BY DEF RowInv, Rows
<1>4. /\ ~LatestIs(row, "CHARGED") /\ ~LatestIs(row, "AUTHORIZED")
      /\ ~LatestIs(new, "CHARGED") /\ ~LatestIs(new, "AUTHORIZED")
  BY <1>3 DEF LatestIs
<1>5. \A m \in Numbers : /\ m < new.n => new.att[m] = "AUTHORIZATION_FAILED"
                         /\ m > new.n => new.att[m] = "ABSENT"
  <2> SUFFICES ASSUME NEW m \in Numbers
               PROVE  /\ m < k => new.att[m] = "AUTHORIZATION_FAILED"
                      /\ m > k => new.att[m] = "ABSENT"
    OBVIOUS
  <2>1. m \in Nat /\ k \in Nat /\ m > 0 /\ row.n = k - 1
    BY IntentsAssumption DEF Numbers
  <2>2. /\ m < row.n => row.att[m] = "AUTHORIZATION_FAILED"
        /\ m > row.n => row.att[m] = "ABSENT"
    BY DEF RowInv
  <2>3. m < k => m < row.n \/ m = row.n
    BY <2>1
  <2>4. m > k => m > row.n
    BY <2>1
  <2>5. m = row.n => row.att[m] = "AUTHORIZATION_FAILED"
    BY <2>1
  <2>6. m < k \/ m > k => m # k
    BY <2>1
  <2> QED  BY <1>3, <2>2, <2>3, <2>4, <2>5, <2>6
<1> QED  BY <1>4, <1>5 DEF RowInv
-----------------------------------------------------------------------------
(* What a transaction does to the invariant, whoever runs it.                *)

TaskRecs == [at : {"idle", "dispatch", "submit", "wait", "apply"}, k : Numbers, res : Results]

RowsType ==
    /\ db \in [Intents -> Rows] /\ draft \in [Intents -> Rows]
    /\ open \in [Intents -> Tasks \cup {"none"}]
    /\ task \in [Intents -> [Tasks -> TaskRecs]]

(* The part of Inv that depends on the rows and the tasks.                   *)
RowsInv == RowsType /\ \A i \in Intents : Good(i)
Keeps == \A i \in Intents : db[i].n > 0 => db'[i].n > 0

(* The row of an intent that has not been created is a row.                  *)
LEMMA EmptyRow == NewRow \in Rows
  BY IntentsAssumption DEF NewRow, Rows, IntentStates, AttemptStates, Numbers

(* An intent of which nothing changes stays good.                            *)
LEMMA Untouched ==
    ASSUME NEW j \in Intents, Good(j), db'[j] = db[j], draft'[j] = draft[j],
           open'[j] = open[j], task'[j] = task[j]
    PROVE  Good(j)'
  BY DEF Good, TaskInv

(* A transaction on committed rows that inserts no attempt.                  *)
LEMMA CommitStep ==
    ASSUME RowsInv, NEW i \in Intents, NEW row, Commit(i, row), RowInv(row),
           row.n = db[i].n, row.status \in Early => db[i].status \in Early, task' = task
    PROVE  RowsInv' /\ Keeps
<1>1. RowsType' /\ db'[i] = row /\ \A j \in Intents : j # i => db'[j] = db[j]
  BY DEF RowsInv, RowsType, Commit, RowInv
<1>2. Good(i)'
  BY <1>1 DEF RowsInv, Good, TaskInv, Commit, Free
<1>3. ASSUME NEW j \in Intents, j # i PROVE Good(j)'
  BY <1>1, <1>3, Untouched DEF RowsInv, Commit
<1> QED  BY <1>1, <1>2, <1>3 DEF RowsInv, Keeps

(* The transaction that also spawns the request task: the intent leaves its  *)
(* pre-flight, where nothing was at work.                                    *)
LEMMA SpawnStep ==
    ASSUME RowsInv, NEW i \in Intents, db[i].status \in Early,
           Commit(i, [db[i] EXCEPT !.status = "PROCESSING"]), Spawn(i, "request", 1)
    PROVE  RowsInv' /\ Keeps
<1> DEFINE row == [db[i] EXCEPT !.status = "PROCESSING"]
<1>1. RowInv(db[i]) /\ db[i].n = 0 /\ \A t \in Tasks : task[i][t].at = "idle"
  BY DEF RowsInv, Good, TaskInv, RowInv
<1>2. RowInv(row) /\ row.n = 0 /\ row.status = "PROCESSING"
  <2>1. row.n = 0 /\ row.status = "PROCESSING"
    BY <1>1 DEF RowInv, Rows
  <2>2. ~LatestIs(db[i], "AUTHORIZED") /\ db[i].status # "SUCCEEDED"
    BY <1>1 DEF LatestIs, Early
  <2>3. "PROCESSING" \in IntentStates /\ "PROCESSING" \notin Early
    BY DEF Early, IntentStates
  <2> QED  BY <1>1, <2>1, <2>2, <2>3, StatusRow
<1>3. RowsType' /\ db'[i] = row /\ \A j \in Intents : j # i => db'[j] = db[j] /\ task'[j] = task[j]
  <2>1. db' \in [Intents -> Rows] /\ db'[i] = row /\ \A j \in Intents : j # i => db'[j] = db[j]
    BY <1>2 DEF RowsInv, RowsType, Commit, RowInv
  <2>2. 1 \in Numbers /\ "PENDING" \in Results
    BY IntentsAssumption DEF Numbers, Results
  <2> QED  BY <2>1, <2>2 DEF RowsInv, RowsType, Commit, Spawn, Tasks, TaskRecs
<1>4. /\ task'[i]["request"].at = "dispatch" /\ task'[i]["request"].k = 1
      /\ task'[i]["callback"].at = "idle"
  BY <1>1 DEF Spawn, RowsInv, RowsType, IdleTask, Tasks
<1>5. Good(i)'
  BY <1>2, <1>3, <1>4 DEF RowsInv, Good, TaskInv, Commit, Free, Tasks, Early
<1>6. ASSUME NEW j \in Intents, j # i PROVE Good(j)'
  BY <1>3, <1>6, Untouched DEF RowsInv, Commit
<1> QED  BY <1>1, <1>2, <1>3, <1>5, <1>6 DEF RowsInv, Keeps

(* The rows a task works on are good, and not those of an early intent.      *)
LEMMA WorkRow ==
    ASSUME RowsInv, NEW i \in Intents, NEW t \in Tasks, CanWork(i, t), task[i][t].at # "idle"
    PROVE  /\ RowInv(Work(i, t)) /\ Work(i, t).status \notin Early
           /\ db[i].n > 0 \/ open[i] = t => Work(i, t).n > 0
           /\ open[i] = t => Work(i, t).status = "PROCESSING" /\ db[i].status = "PROCESSING"
           /\ Tasks = {"request", "callback"} /\ t # "none"
<1>1. Good(i) /\ Tasks = {"request", "callback"} /\ t # "none"
  BY DEF RowsInv, Tasks
<1>2. CASE open[i] = t
  BY <1>1, <1>2 DEF Good, TaskInv, Work, Early
<1>3. CASE open[i] # t
  BY <1>1, <1>3 DEF Good, TaskInv, Work
<1> QED  BY <1>1, <1>2, <1>3

(* A task that commits and ends, without a new attempt.                      *)
LEMMA FinishStep ==
    ASSUME RowsInv, NEW i \in Intents, NEW t \in Tasks, CanWork(i, t), task[i][t].at # "idle",
           NEW row, RowInv(row), row.n = Work(i, t).n, row.status \notin Early, Finish(i, t, row)
    PROVE  RowsInv' /\ Keeps
<1>0. IdleTask \in TaskRecs
  BY IntentsAssumption DEF TaskRecs, IdleTask, Numbers, Results
<1>1. RowsType'
  BY <1>0, EmptyRow DEF RowsInv, RowsType, Finish, RowInv
<1>2. /\ db'[i] = row /\ open'[i] = "none" /\ task'[i][t].at = "idle"
      /\ \A u \in Tasks : u # t => task'[i][u] = task[i][u]
      /\ \A j \in Intents : j # i => /\ db'[j] = db[j] /\ draft'[j] = draft[j]
                                     /\ open'[j] = open[j] /\ task'[j] = task[j]
  BY DEF RowsInv, RowsType, Finish, IdleTask
<1>3. \A u \in Tasks : task'[i][u].at # "dispatch"
  <2> SUFFICES ASSUME NEW u \in Tasks, task[i][u].at = "dispatch", u # t  PROVE FALSE
    BY <1>2
  <2>1. TaskInv(i)
    BY DEF RowsInv, Good
  <2>2. t = "callback" \/ open[i] = u
    BY <2>1 DEF TaskInv, Tasks
  <2>3. open[i] # u
    BY WorkRow DEF CanWork, Tasks
  <2> QED  BY <2>1, <2>2, <2>3 DEF TaskInv, Tasks
<1>4. Good(i)'
  BY <1>2, <1>3 DEF Good, TaskInv
<1>5. ASSUME NEW j \in Intents, j # i PROVE Good(j)'
  BY <1>2, <1>5, Untouched DEF RowsInv
<1>6. Keeps
  BY <1>2, WorkRow DEF Keeps
<1> QED  BY <1>1, <1>4, <1>5, <1>6 DEF RowsInv

(* A task that ends without committing.                                      *)
LEMMA RollBackStep ==
    ASSUME RowsInv, NEW i \in Intents, NEW t \in Tasks, RollBack(i, t)
    PROVE  RowsInv' /\ Keeps
<1>0. IdleTask \in TaskRecs
  BY IntentsAssumption DEF TaskRecs, IdleTask, Numbers, Results
<1>1. RowsType'
  BY <1>0, EmptyRow DEF RowsInv, RowsType, RollBack
<1>2. /\ db' = db /\ task'[i][t].at = "idle"
      /\ \A u \in Tasks : u # t => task'[i][u] = task[i][u]
      /\ open'[i] = IF open[i] = t THEN "none" ELSE open[i]
      /\ open[i] # t => draft'[i] = draft[i]
      /\ \A j \in Intents : j # i => /\ draft'[j] = draft[j]
                                     /\ open'[j] = open[j] /\ task'[j] = task[j]
  BY DEF RowsInv, RowsType, RollBack, IdleTask
<1>3. Good(i)'
  <2>1. Good(i)
    BY DEF RowsInv
  <2>2. CASE open[i] = t
    BY <1>2, <2>1, <2>2 DEF Good, TaskInv, Tasks
  <2>3. CASE open[i] # t
    BY <1>2, <2>1, <2>3 DEF Good, TaskInv, Tasks
  <2> QED  BY <2>2, <2>3
<1>4. ASSUME NEW j \in Intents, j # i PROVE Good(j)'
  BY <1>2, <1>4, Untouched DEF RowsInv
<1> QED  BY <1>1, <1>2, <1>3, <1>4 DEF RowsInv, Keeps

(* A task that writes in its transaction, or in one of its own, and goes on  *)
(* to another stage than "dispatch".                                         *)
LEMMA PutStep ==
    ASSUME RowsInv, NEW i \in Intents, NEW t \in Tasks, CanWork(i, t), task[i][t].at # "idle",
           NEW row, RowInv(row), row.status = Work(i, t).status,
           row.n > 0, Put(i, t, row),
           NEW stage \in {"submit", "wait"}, task' = [task EXCEPT ![i][t].at = stage],
           \A u \in Tasks : u # t => task[i][u].at # "dispatch"
    PROVE  RowsInv' /\ Keeps
<1>1. RowsType'
  <2>1. task' \in [Intents -> [Tasks -> TaskRecs]]
    <3>1. [task[i][t] EXCEPT !.at = stage] \in TaskRecs
      <4>1. task[i][t] \in TaskRecs
        BY DEF RowsInv, RowsType
      <4> QED  BY <4>1 DEF TaskRecs
    <3>2. task' = [task EXCEPT ![i][t] = [task[i][t] EXCEPT !.at = stage]]
      BY DEF RowsInv, RowsType
    <3> QED  BY <3>1, <3>2 DEF RowsInv, RowsType
  <2>2. /\ db' \in [Intents -> Rows] /\ draft' \in [Intents -> Rows]
        /\ open' \in [Intents -> Tasks \cup {"none"}]
    BY DEF RowsInv, RowsType, Put, RowInv
  <2> QED  BY <2>1, <2>2 DEF RowsType
<1>2. /\ open' = open /\ \A u \in Tasks : task'[i][u].at # "dispatch"
      /\ \A j \in Intents : j # i => /\ db'[j] = db[j] /\ draft'[j] = draft[j]
                                     /\ task'[j] = task[j]
  BY DEF RowsInv, RowsType, Put
<1>3. Good(i)' /\ (db[i].n > 0 => db'[i].n > 0)
  <2>1. Good(i) /\ row.status \notin Early
    BY WorkRow DEF RowsInv
  <2>2. CASE open[i] = t
    <3>1. draft'[i] = row /\ db' = db /\ db[i].status \notin Early /\ row.status = "PROCESSING"
      BY <2>2, WorkRow DEF RowsInv, RowsType, Put, Early
    <3> QED  BY <1>2, <2>1, <3>1 DEF Good, TaskInv
  <2>3. CASE open[i] # t
    <3>1. db'[i] = row /\ open[i] = "none"
      BY <2>3 DEF RowsInv, RowsType, Put, CanWork
    <3> QED  BY <1>2, <2>1, <3>1 DEF Good, TaskInv
  <2> QED  BY <2>2, <2>3
<1>4. ASSUME NEW j \in Intents, j # i PROVE Good(j)'
  BY <1>2, <1>4, Untouched DEF RowsInv
<1> QED  BY <1>1, <1>2, <1>3, <1>4 DEF RowsInv, Keeps

(* Two tasks of an intent never both wait to insert an attempt.              *)
LEMMA DispatchAlone ==
    ASSUME RowsInv, NEW i \in Intents, NEW t \in Tasks, CanWork(i, t), task[i][t].at # "idle",
           NEW u \in Tasks, u # t
    PROVE  task[i][u].at # "dispatch"
<1>1. TaskInv(i)
  BY DEF RowsInv, Good
<1>2. open[i] # u
  BY DEF CanWork, Tasks
<1> QED  BY <1>1, <1>2 DEF TaskInv, Tasks

(* insert_attempt adds an attempt after the last, which has failed.          *)
LEMMA InsertStep ==
    ASSUME RowsInv, sent \in [Intents -> 0..MaxSubmissions],
           NEW i \in Intents, NEW t \in Tasks, InsertAttempt(i, t)
    PROVE  RowsInv' /\ Keeps
<1> DEFINE k == task[i][t].k
           row == [Work(i, t) EXCEPT !.att[k] = "STARTED", !.ref[k] = sent[i] + 1,
                                     !.n = k, !.polls = 0]
<1>1. /\ task[i][t].at = "dispatch" /\ CanWork(i, t) /\ Put(i, t, row)
      /\ task' = [task EXCEPT ![i][t].at = "submit"]
  BY DEF InsertAttempt
<1>2. k \in Numbers /\ sent[i] + 1 \in 0..MaxSubmissions
  BY IntentsAssumption DEF RowsInv, RowsType, TaskRecs, InsertAttempt
<1>3. Work(i, t).n = k - 1 /\ (Work(i, t).n > 0 => Work(i, t).att[Work(i, t).n] = "AUTHORIZATION_FAILED")
  <2>1. TaskInv(i) /\ t # "none"
    BY DEF RowsInv, Good, Tasks
  <2>2. CASE open[i] = t
    BY <1>1, <2>1, <2>2 DEF TaskInv, Work
  <2>3. CASE open[i] # t
    BY <1>1, <2>1, <2>3 DEF TaskInv, Work
  <2> QED  BY <2>2, <2>3
<1>4. RowInv(Work(i, t)) /\ Work(i, t).status \notin Early
  BY <1>1, WorkRow
<1> HIDE DEF k
<1>a. row = [Work(i, t) EXCEPT !.att[k] = "STARTED", !.ref[k] = sent[i] + 1,
                               !.n = k, !.polls = 0]
  OBVIOUS
<1> HIDE DEF row
<1>b. /\ row \in Rows /\ row.n = k /\ row.att = [Work(i, t).att EXCEPT ![k] = "STARTED"]
      /\ row.status = Work(i, t).status /\ row.captured = Work(i, t).captured
      /\ row.hold = Work(i, t).hold
  <2> DEFINE old == Work(i, t)
  <2>1. old \in Rows /\ k \in 0..MAX_ATTEMPTS_PER_INTENT /\ 0 \in 0..MAX_STATUS_POLLS
    BY <1>2, <1>4, IntentsAssumption DEF RowInv, Numbers
  <2>2. [old.att EXCEPT ![k] = "STARTED"] \in [Numbers -> AttemptStates]
    BY <2>1 DEF Rows, AttemptStates
  <2>3. [old.ref EXCEPT ![k] = sent[i] + 1] \in [Numbers -> 0..MaxSubmissions]
    BY <1>2, <2>1 DEF Rows
  <2> HIDE DEF old
  <2>4. row = [old EXCEPT !.att = [old.att EXCEPT ![k] = "STARTED"],
                          !.ref = [old.ref EXCEPT ![k] = sent[i] + 1], !.n = k, !.polls = 0]
    BY <1>a, <2>1 DEF Rows, old
  <2> QED  BY <2>1, <2>2, <2>3, <2>4 DEF Rows, old
<1>5. RowInv(row)
  BY <1>2, <1>3, <1>4, <1>b, InsertedRow
<1>6. row.n > 0
  BY <1>2, <1>b, IntentsAssumption DEF Numbers
<1>7. \A u \in Tasks : u # t => task[i][u].at # "dispatch"
  BY <1>1, DispatchAlone
<1> QED  BY <1>1, <1>b, <1>5, <1>6, <1>7, PutStep

(* The result of giving the latest attempt a status, field by field.         *)
LEMMA LatestFields ==
    ASSUME NEW row \in Rows, NEW k \in Numbers, NEW s \in AttemptStates,
           NEW new, new = [row EXCEPT !.att[k] = s]
    PROVE  /\ new \in Rows /\ new.att = [row.att EXCEPT ![k] = s] /\ new.n = row.n
           /\ new.status = row.status /\ new.hold = row.hold
           /\ new.captured = row.captured /\ new.queued = row.queued
<1>1. [row.att EXCEPT ![k] = s] \in [Numbers -> AttemptStates]
  BY DEF Rows
<1> QED  BY <1>1 DEF Rows

(* Giving the latest attempt a status in which nothing is held or charged,   *)
(* when nothing was before.                                                  *)
LEMMA PlainRow ==
    ASSUME NEW row, RowInv(row), NEW k \in Numbers, row.status \notin Early,
           row.att[k] \in {"STARTED", "AUTHORIZATION_PENDING", "TIMED_OUT"},
           NEW s \in AttemptStates \ {"CHARGED", "AUTHORIZED"}
    PROVE  /\ RowInv([row EXCEPT !.att[k] = s])
           /\ [row EXCEPT !.att[k] = s].n = row.n /\ row.n = k /\ row.n > 0
           /\ [row EXCEPT !.att[k] = s].status = row.status
           /\ [row EXCEPT !.att[k] = s].att[k] = s
<1> DEFINE new == [row EXCEPT !.att[k] = s]
<1>a. new = [row EXCEPT !.att[k] = s]
  OBVIOUS
<1> HIDE DEF new
<1>1. row.n = k /\ row.n > 0 /\ row \in Rows
  BY LiveIsLatest DEF RowInv
<1>2. /\ new \in Rows /\ new.att = [row.att EXCEPT ![k] = s] /\ new.n = row.n
      /\ new.status = row.status /\ new.hold = row.hold /\ new.captured = row.captured
  <2>1. [row.att EXCEPT ![k] = s] \in [Numbers -> AttemptStates]
    BY <1>1 DEF Rows
  <2> QED  BY <1>1, <1>a, <2>1 DEF Rows
<1>3. ~LatestIs(row, "CHARGED") /\ ~LatestIs(row, "AUTHORIZED")
  BY <1>1 DEF LatestIs
<1>4. ~row.captured /\ row.hold # "OPEN" /\ row.status \notin {"SUCCEEDED", "REQUIRES_CAPTURE"}
  BY <1>3 DEF RowInv
<1>5. new.att[k] = s
  BY <1>1, <1>2 DEF Rows
<1>6. RowInv(new)
  BY <1>1, <1>2, <1>4, LatestRow
<1> QED  BY <1>1, <1>2, <1>5, <1>6, <1>a

(* An answer charges the attempt that awaited it.                            *)
LEMMA ChargedRow ==
    ASSUME NEW row, RowInv(row), NEW k \in Numbers, row.status = "PROCESSING",
           row.att[k] \in {"AUTHORIZATION_PENDING", "TIMED_OUT"}
    PROVE  RowInv(Charged(row, k)) /\ Charged(row, k).n = row.n
           /\ Charged(row, k).status = "SUCCEEDED"
<1>1. row.n = k /\ row.n > 0 /\ row \in Rows
  BY LiveIsLatest DEF RowInv
<1>2. row.hold # "OPEN"
  BY <1>1 DEF RowInv, LatestIs
<1>3. [row.att EXCEPT ![k] = "CHARGED"] \in [Numbers -> AttemptStates]
  BY <1>1 DEF Rows, AttemptStates
<1> DEFINE new == Charged(row, k)
<1>4. /\ new \in Rows /\ new.att = [row.att EXCEPT ![k] = "CHARGED"] /\ new.n = row.n
      /\ new.status = "SUCCEEDED" /\ new.captured = TRUE /\ new.hold = row.hold
  BY <1>1, <1>3 DEF Charged, Rows, IntentStates
<1> HIDE DEF new
<1>5. "SUCCEEDED" \notin Early /\ "CHARGED" \in AttemptStates
  BY DEF Early, AttemptStates
<1>6. RowInv(new)
  BY <1>1, <1>2, <1>4, <1>5, LatestRow
<1> QED  BY <1>4, <1>6 DEF new

(* An answer authorizes the attempt that awaited it, and the hold is posted. *)
LEMMA AuthorizedRow ==
    ASSUME NEW row, RowInv(row), NEW k \in Numbers, row.status = "PROCESSING",
           row.att[k] = "AUTHORIZATION_PENDING"
    PROVE  LET new == [row EXCEPT !.att[k] = "AUTHORIZED", !.hold = "OPEN",
                                  !.status = "REQUIRES_CAPTURE"]
           IN  RowInv(new) /\ new.n = row.n /\ new.status = "REQUIRES_CAPTURE"
<1> DEFINE new == [row EXCEPT !.att[k] = "AUTHORIZED", !.hold = "OPEN",
                              !.status = "REQUIRES_CAPTURE"]
<1>1. row.n = k /\ row.n > 0 /\ row \in Rows
  BY LiveIsLatest DEF RowInv
<1>2. ~row.captured
  BY DEF RowInv
<1>3. [row.att EXCEPT ![k] = "AUTHORIZED"] \in [Numbers -> AttemptStates]
  BY <1>1 DEF Rows, AttemptStates
<1>4. /\ new \in Rows /\ new.att = [row.att EXCEPT ![k] = "AUTHORIZED"] /\ new.n = row.n
      /\ new.status = "REQUIRES_CAPTURE" /\ new.captured = row.captured /\ new.hold = "OPEN"
  BY <1>1, <1>3 DEF Rows, IntentStates
<1>5. "REQUIRES_CAPTURE" \notin Early /\ "AUTHORIZED" \in AttemptStates
  BY DEF Early, AttemptStates
<1> HIDE DEF new
<1>a. /\ new.captured <=> new.status = "SUCCEEDED"
      /\ new.captured <=> "AUTHORIZED" = "CHARGED"
      /\ new.hold = "OPEN" <=> "AUTHORIZED" = "AUTHORIZED"
      /\ new.status = "REQUIRES_CAPTURE" <=> "AUTHORIZED" = "AUTHORIZED"
      /\ new.status \notin Early
  BY <1>2, <1>4, <1>5
<1>6. RowInv(new)
  BY <1>1, <1>4, <1>5, <1>a, LatestRow
<1> QED  BY <1>4, <1>6 DEF new

(* A refusal fails the attempt and the intent.                               *)
LEMMA DeclinedRow ==
    ASSUME NEW row, RowInv(row), NEW k \in Numbers, row.status = "PROCESSING",
           row.att[k] \in {"AUTHORIZATION_PENDING", "TIMED_OUT"}
    PROVE  RowInv(Declined(row, k)) /\ Declined(row, k).n = row.n
           /\ Declined(row, k).status = "FAILED"
<1>1. row.n = k /\ row.n > 0 /\ row \in Rows
  BY LiveIsLatest DEF RowInv
<1>2. row.hold # "OPEN" /\ ~row.captured
  BY <1>1 DEF RowInv, LatestIs
<1>3. [row.att EXCEPT ![k] = "AUTHORIZATION_FAILED"] \in [Numbers -> AttemptStates]
  BY <1>1 DEF Rows, AttemptStates
<1> DEFINE new == Declined(row, k)
<1>4. /\ new \in Rows /\ new.att = [row.att EXCEPT ![k] = "AUTHORIZATION_FAILED"]
      /\ new.n = row.n /\ new.status = "FAILED" /\ new.captured = row.captured
      /\ new.hold = row.hold
  BY <1>1, <1>3 DEF Declined, Rows, IntentStates
<1> HIDE DEF new
<1>5. "FAILED" \notin Early /\ "AUTHORIZATION_FAILED" \in AttemptStates
  BY DEF Early, AttemptStates
<1>6. RowInv(new)
  BY <1>1, <1>2, <1>4, <1>5, LatestRow
<1> QED  BY <1>4, <1>6 DEF new

(* A poll that ends in a reversal, with the attempt REVERSED or failed.      *)
LEMMA PolledAwayRow ==
    ASSUME NEW row, RowInv(row), NEW k \in Numbers, row.status = "PROCESSING",
           row.att[k] = "TIMED_OUT", NEW s \in {"REVERSED", "AUTHORIZATION_FAILED"},
           NEW p \in 0..MAX_STATUS_POLLS
    PROVE  LET new == [row EXCEPT !.polls = p, !.att[k] = s, !.status = "REVERSAL_INITIATED"]
           IN  RowInv(new) /\ new.n = row.n /\ new.status = "REVERSAL_INITIATED"
<1>1. row.n = k /\ row.n > 0 /\ row \in Rows
  BY LiveIsLatest DEF RowInv
<1>2. row.hold # "OPEN" /\ ~row.captured
  BY <1>1 DEF RowInv, LatestIs
<1>3. s \in AttemptStates /\ [row.att EXCEPT ![k] = s] \in [Numbers -> AttemptStates]
  BY <1>1 DEF Rows, AttemptStates
<1> DEFINE new == [row EXCEPT !.polls = p, !.att[k] = s, !.status = "REVERSAL_INITIATED"]
<1>4. /\ new \in Rows /\ new.att = [row.att EXCEPT ![k] = s] /\ new.n = row.n
      /\ new.status = "REVERSAL_INITIATED" /\ new.captured = row.captured
      /\ new.hold = row.hold
  BY <1>1, <1>3 DEF Rows, IntentStates
<1>5. "REVERSAL_INITIATED" \notin Early
  BY DEF Early
<1> HIDE DEF new
<1>6. RowInv(new)
  BY <1>1, <1>2, <1>3, <1>4, <1>5, LatestRow
<1> QED  BY <1>4, <1>6 DEF new

(* Capturing or voiding an authorized attempt closes its hold.               *)
LEMMA ClosedRow ==
    ASSUME NEW row, RowInv(row), LatestIs(row, "AUTHORIZED"),
           NEW new \in Rows, new.n = row.n, new.hold \in {"CAPTURED", "VOIDED"},
           NEW s \in {"CHARGED", "VOIDED"}, new.att = [row.att EXCEPT ![row.n] = s],
           s = "CHARGED" => new.captured /\ new.status = "SUCCEEDED",
           s = "VOIDED" => ~new.captured /\ new.status \in {"CANCELLED", "REVERSED"}
    PROVE  RowInv(new)
<1>1. row.n > 0 /\ s \in AttemptStates
  BY DEF LatestIs, AttemptStates
<1>2. new.status \notin Early
  BY DEF Early
<1> QED  BY <1>1, <1>2, LatestRow

-----------------------------------------------------------------------------
(* The steps of a task.                                                      *)

(* A task or a callback takes up an answer: no row changes.                  *)
LEMMA AnswerStep ==
    ASSUME RowsInv, NEW i \in Intents, NEW t \in Tasks, UNCHANGED <<db, draft, open>>,
           NEW rec \in TaskRecs, rec.at = "apply", task' = [task EXCEPT ![i][t] = rec],
           db[i].status \notin Early, task[i][t].at # "idle" \/ db[i].n > 0
    PROVE  RowsInv' /\ Keeps
<1>1. RowsType'
  BY DEF RowsInv, RowsType
<1>2. /\ task'[i][t].at = "apply"
      /\ \A u \in Tasks : u # t => task'[i][u] = task[i][u]
      /\ \A j \in Intents : j # i => task'[j] = task[j]
  BY DEF RowsInv, RowsType
<1>3. Good(i)'
  <2>1. Good(i)
    BY DEF RowsInv
  <2>2. RowInv(db[i])' /\ RowInv(db[i])
    BY <2>1 DEF Good
  <2>3. ASSUME NEW u \in Tasks, task'[i][u].at = "dispatch"
        PROVE  open[i] = u /\ u # t
    <3>1. u # t /\ task[i][u].at = "dispatch"
      BY <1>2, <2>3
    <3>2. db[i].n = 0 => task[i][t].at # "idle"
      BY <2>2 DEF RowInv, Rows
    <3>3. ~(u = "request" /\ db[i].n = 0 /\ task[i]["callback"].at = "idle")
      BY <3>1, <3>2 DEF Tasks
    <3> QED  BY <2>1, <3>1, <3>3 DEF Good, TaskInv
  <2> QED  BY <1>2, <2>1, <2>2, <2>3 DEF Good, TaskInv, Tasks
<1>4. ASSUME NEW j \in Intents, j # i PROVE Good(j)'
  BY <1>2, <1>4, Untouched DEF RowsInv
<1> QED  BY <1>1, <1>3, <1>4 DEF RowsInv, Keeps

(* Marking the attempt AUTHORIZATION_PENDING keeps the rows good.            *)
LEMMA SubmitStep ==
    ASSUME RowsInv, NEW i \in Intents, NEW t \in Tasks, Submit(i, t)
    PROVE  RowsInv' /\ Keeps
<1> DEFINE k == task[i][t].k
           row == [Work(i, t) EXCEPT !.att[k] = "AUTHORIZATION_PENDING"]
<1>1. /\ task[i][t].at = "submit" /\ CanWork(i, t) /\ Put(i, t, row)
      /\ AttemptMove(Work(i, t), k, "submitted", "AUTHORIZATION_PENDING")
      /\ task' = [task EXCEPT ![i][t].at = "wait"]
  BY DEF Submit
<1>2. k \in Numbers /\ Work(i, t).att[k] = "STARTED"
  BY <1>1, AttemptRules DEF RowsInv, RowsType, TaskRecs
<1>3. RowInv(Work(i, t)) /\ Work(i, t).status \notin Early
  BY <1>1, WorkRow
<1>4. "AUTHORIZATION_PENDING" \in AttemptStates \ {"CHARGED", "AUTHORIZED"}
  BY DEF AttemptStates
<1> HIDE DEF k
<1>5. RowInv(row) /\ row.n = Work(i, t).n /\ row.n > 0 /\ row.status = Work(i, t).status
  BY <1>2, <1>3, <1>4, PlainRow
<1>6. \A u \in Tasks : u # t => task[i][u].at # "dispatch"
  BY <1>1, DispatchAlone
<1> HIDE DEF row
<1> QED  BY <1>1, <1>5, <1>6, PutStep

(* The answer of runner.submit changes no row by itself.                     *)
LEMMA SubmitReturnsStep ==
    ASSUME RowsInv, NEW i \in Intents, NEW t \in Tasks, NEW res \in Results, NEW to,
           SubmitReturns(i, t, res, to)
    PROVE  RowsInv' /\ Keeps
<1> DEFINE rec == [task[i][t] EXCEPT !.at = "apply", !.res = res]
<1>1. task[i][t] \in TaskRecs /\ task[i][t].at = "wait"
  BY DEF RowsInv, RowsType, SubmitReturns
<1>2. rec \in TaskRecs /\ rec.at = "apply"
  BY <1>1 DEF TaskRecs
<1>3. task' = [task EXCEPT ![i][t] = rec]
  BY DEF SubmitReturns, RowsInv, RowsType
<1>4. db[i].status \notin Early
  BY <1>1 DEF RowsInv, Good, TaskInv
<1>5. UNCHANGED <<db, draft, open>>
  BY DEF SubmitReturns
<1> HIDE DEF rec
<1> QED  BY <1>1, <1>2, <1>3, <1>4, <1>5, AnswerStep

(* A callback is taken up only for an attempt that is committed.             *)
LEMMA CallbackStep ==
    ASSUME RowsInv, NEW i \in Intents, NEW k \in Numbers, NEW res \in Results,
           ReceiveCallback(i, k, res)
    PROVE  RowsInv' /\ Keeps
<1> DEFINE rec == [at |-> "apply", k |-> k, res |-> res]
<1>1. rec \in TaskRecs /\ rec.at = "apply" /\ "callback" \in Tasks
  BY DEF TaskRecs, Tasks
<1>2. RowInv(db[i]) /\ db[i].att[k] = "AUTHORIZATION_PENDING"
  BY DEF RowsInv, Good, ReceiveCallback
<1>3. db[i].n > 0
  BY <1>2, LiveIsLatest
<1>4. db[i].status \notin Early
  BY <1>2, <1>3 DEF RowInv
<1>5. task' = [task EXCEPT ![i]["callback"] = rec] /\ UNCHANGED <<db, draft, open>>
  BY DEF ReceiveCallback
<1> HIDE DEF rec
<1> QED  BY <1>1, <1>3, <1>4, <1>5, AnswerStep

(* A retryable failure opens a transaction with the failed attempt.          *)
LEMMA RetryStep ==
    ASSUME RowsInv, NEW i \in Intents, NEW t \in Tasks, ApplyRetryable(i, t)
    PROVE  RowsInv' /\ Keeps
<1> DEFINE k == task[i][t].k
           row == [Work(i, t) EXCEPT !.att[k] = "AUTHORIZATION_FAILED"]
<1>1. /\ task[i][t].at = "apply" /\ CanWork(i, t) /\ k < MAX_ATTEMPTS_PER_INTENT
      /\ AttemptMove(Work(i, t), k, "connector_failed", "AUTHORIZATION_FAILED")
      /\ IntentMove(Work(i, t), "attempt_failed_retryable", "PROCESSING")
      /\ draft' = [draft EXCEPT ![i] = row] /\ open' = [open EXCEPT ![i] = t]
      /\ Spawn(i, t, k + 1) /\ db' = db
  BY DEF ApplyRetryable, Applying
<1>2. /\ k \in Numbers /\ Work(i, t).att[k] = "AUTHORIZATION_PENDING"
      /\ Work(i, t).status = "PROCESSING"
  BY <1>1, AttemptRules, RailRulesFrom DEF RowsInv, RowsType, TaskRecs
<1>3. RowInv(Work(i, t)) /\ Work(i, t).status \notin Early /\ t # "none"
  BY <1>1, WorkRow
<1>4. "AUTHORIZATION_FAILED" \in AttemptStates \ {"CHARGED", "AUTHORIZED"}
  BY DEF AttemptStates
<1>5. db[i].status = "PROCESSING"
  BY <1>1, <1>2, WorkRow DEF Work
<1>6. \A u \in Tasks : u # t => task[i][u].at # "dispatch"
  BY <1>1, DispatchAlone
<1>k. k + 1 \in Numbers /\ (k + 1) - 1 = k
  BY <1>1, <1>2, IntentsAssumption DEF Numbers
<1> HIDE DEF k
<1>7. /\ RowInv(row) /\ row.n = k /\ row.n > 0 /\ row.status = "PROCESSING"
      /\ row.att[k] = "AUTHORIZATION_FAILED"
  BY <1>2, <1>3, <1>4, PlainRow
<1> HIDE DEF row
<1>8. [at |-> "dispatch", k |-> k + 1, res |-> "PENDING"] \in TaskRecs
  BY <1>k DEF TaskRecs, Results
<1>9. RowsType'
  BY <1>1, <1>7, <1>8 DEF RowsInv, RowsType, Spawn, RowInv
<1>10. /\ draft'[i] = row /\ open'[i] = t
       /\ task'[i][t].at = "dispatch" /\ task'[i][t].k = k + 1
       /\ \A u \in Tasks : u # t => task'[i][u] = task[i][u]
       /\ \A j \in Intents : j # i => draft'[j] = draft[j] /\ open'[j] = open[j] /\ task'[j] = task[j]
  BY <1>1 DEF RowsInv, RowsType, Spawn
<1>11. Good(i)'
  <2>1. RowInv(db[i]) /\ db[i].status \notin Early
    BY <1>5 DEF RowsInv, Good, Early
  <2> QED  BY <1>1, <1>k, <1>3, <1>5, <1>6, <1>7, <1>10, <2>1 DEF Good, TaskInv
<1>12. ASSUME NEW j \in Intents, j # i PROVE Good(j)'
  BY <1>1, <1>10, <1>12, Untouched DEF RowsInv
<1> QED  BY <1>1, <1>9, <1>11, <1>12 DEF RowsInv, Keeps

(* Every step of a task keeps the rows good.                                 *)
LEMMA TaskRows ==
    ASSUME RowsInv, sent \in [Intents -> 0..MaxSubmissions],
           NEW i \in Intents, NEW t \in Tasks, TaskStep(i, t) \/ RollBack(i, t)
    PROVE  RowsInv' /\ Keeps
<1> DEFINE k == task[i][t].k
           row == Work(i, t)
<1>k. k \in Numbers
  BY DEF RowsInv, RowsType, TaskRecs
<1>w. ASSUME CanWork(i, t), task[i][t].at # "idle"
      PROVE  RowInv(row) /\ row.status \notin Early
  BY <1>w, WorkRow
<1>e. {"REQUIRES_CAPTURE", "SUCCEEDED", "FAILED", "PROCESSING"} \cap Early = {}
  BY DEF Early
<1>1. CASE Defer(i, t)
  <2>1. CanWork(i, t) /\ task[i][t].at # "idle" /\ Finish(i, t, row)
    BY <1>1 DEF Defer
  <2> QED  BY <2>1, <1>w, FinishStep
<1>2. CASE InsertAttempt(i, t)
  BY <1>2, InsertStep
<1>3. CASE Submit(i, t)
  BY <1>3, SubmitStep
<1>4. CASE \E res \in Results, to \in RailStates : SubmitReturns(i, t, res, to)
  BY <1>4, SubmitReturnsStep
<1>5. CASE ApplyAuthorized(i, t)
  <2> DEFINE new == [row EXCEPT !.att[k] = "AUTHORIZED", !.hold = "OPEN",
                                !.status = "REQUIRES_CAPTURE"]
  <2>1. /\ CanWork(i, t) /\ task[i][t].at # "idle" /\ Finish(i, t, new)
        /\ AttemptMove(row, k, "connector_authorized", "AUTHORIZED")
        /\ IntentMove(row, "attempt_authorized", "REQUIRES_CAPTURE")
    BY <1>5 DEF ApplyAuthorized, Applying
  <2>2. RowInv(row) /\ row.status = "PROCESSING" /\ row.att[k] = "AUTHORIZATION_PENDING"
    BY <2>1, <1>w, AttemptRules, RailRulesFrom
  <2> HIDE DEF k, row
  <2>3. RowInv(new) /\ new.n = row.n /\ new.status = "REQUIRES_CAPTURE"
    BY <1>k, <2>2, AuthorizedRow
  <2> HIDE DEF new
  <2> QED  BY <1>e, <2>1, <2>3, FinishStep DEF row
<1>6. CASE ApplyCharged(i, t)
  <2>1. /\ CanWork(i, t) /\ task[i][t].at # "idle" /\ Finish(i, t, Charged(row, k))
        /\ AttemptMove(row, k, "connector_success_direct", "CHARGED")
        /\ IntentMove(row, "attempt_charged", "SUCCEEDED")
    BY <1>6 DEF ApplyCharged, Applying
  <2>2. RowInv(row) /\ row.status = "PROCESSING" /\ row.att[k] = "AUTHORIZATION_PENDING"
    BY <2>1, <1>w, AttemptRules, RailRulesFrom
  <2>3. /\ RowInv(Charged(row, k)) /\ Charged(row, k).n = row.n
        /\ Charged(row, k).status = "SUCCEEDED"
    BY <1>k, <2>2, ChargedRow
  <2> QED  BY <1>e, <2>1, <2>3, FinishStep
<1>7. CASE LedgerPostFails(i, t) \/ ApplyRaises(i, t) \/ RollBack(i, t)
  BY <1>7, RollBackStep DEF LedgerPostFails, ApplyRaises
<1>8. CASE ApplyPending(i, t)
  <2>1. CanWork(i, t) /\ task[i][t].at # "idle" /\ Finish(i, t, row)
    BY <1>8 DEF ApplyPending, Applying
  <2> QED  BY <2>1, <1>w, FinishStep
<1>9. CASE ApplyTimedOut(i, t)
  <2> DEFINE new == [row EXCEPT !.att[k] = "TIMED_OUT"]
  <2>1. /\ CanWork(i, t) /\ task[i][t].at # "idle" /\ Finish(i, t, new)
        /\ AttemptMove(row, k, "connector_timeout", "TIMED_OUT")
    BY <1>9 DEF ApplyTimedOut, Applying
  <2>2. RowInv(row) /\ row.status \notin Early /\ row.att[k] = "AUTHORIZATION_PENDING"
    BY <2>1, <1>w, AttemptRules
  <2>3. "TIMED_OUT" \in AttemptStates \ {"CHARGED", "AUTHORIZED"}
    BY DEF AttemptStates
  <2> HIDE DEF k, row
  <2>4. RowInv(new) /\ new.n = row.n /\ new.status = row.status
    BY <1>k, <2>2, <2>3, PlainRow
  <2> HIDE DEF new
  <2> QED  BY <2>1, <2>2, <2>4, FinishStep DEF row
<1>10. CASE ApplyDeclined(i, t)
  <2>1. /\ CanWork(i, t) /\ task[i][t].at # "idle" /\ Finish(i, t, Declined(row, k))
        /\ AttemptMove(row, k, "connector_rejected", "AUTHORIZATION_FAILED")
        /\ IntentMove(row, "attempt_hard_declined", "FAILED")
    BY <1>10 DEF ApplyDeclined, Applying
  <2>2. RowInv(row) /\ row.status = "PROCESSING" /\ row.att[k] = "AUTHORIZATION_PENDING"
    BY <2>1, <1>w, AttemptRules, RailRulesFrom
  <2>3. /\ RowInv(Declined(row, k)) /\ Declined(row, k).n = row.n
        /\ Declined(row, k).status = "FAILED"
    BY <1>k, <2>2, DeclinedRow
  <2> QED  BY <1>e, <2>1, <2>3, FinishStep
<1>11. CASE ApplyRetryable(i, t)
  BY <1>11, RetryStep
<1> HIDE DEF k, row
<1> QED  BY <1>1, <1>2, <1>3, <1>4, <1>5, <1>6, <1>7, <1>8, <1>9, <1>10, <1>11 DEF TaskStep

-----------------------------------------------------------------------------
(* The steps of the merchant, the callbacks, the sweep and the reversers.    *)

(* A change of the status of a committed intent, outside a reversal's end.   *)
LEMMA MoveStep ==
    ASSUME RowsInv, NEW i \in Intents, NEW to \in IntentStates, task' = task,
           Commit(i, [db[i] EXCEPT !.status = to]),
           to \notin {"SUCCEEDED", "REQUIRES_CAPTURE"}, db[i].status # "SUCCEEDED",
           LatestIs(db[i], "AUTHORIZED") => to \in Reversing,
           to \in Early => db[i].status \in Early
    PROVE  RowsInv' /\ Keeps
<1> DEFINE new == [db[i] EXCEPT !.status = to]
<1>1. RowInv(db[i]) /\ (to \in Early => db[i].n = 0)
  BY DEF RowsInv, Good, RowInv
<1>2. new.n = db[i].n /\ new.status = to
  BY <1>1 DEF RowInv, Rows
<1>3. RowInv(new)
  <2> DEFINE row == db[i]
  <2>1. /\ RowInv(row) /\ to # "SUCCEEDED" /\ row.status # "SUCCEEDED"
        /\ to # "REQUIRES_CAPTURE" /\ (to \in Early => row.n = 0)
        /\ LatestIs(row, "AUTHORIZED") => to \in Reversing \/ (to = "FAILED" /\ row.queued)
    BY <1>1
  <2> HIDE DEF row
  <2>2. RowInv([row EXCEPT !.status = to])
    BY <2>1, StatusRow
  <2> QED  BY <2>2 DEF row
<1> HIDE DEF new
<1>4. Commit(i, new)
  BY DEF new
<1> QED  BY <1>2, <1>3, <1>4, CommitStep

(* Voiding an authorized attempt under a new final status.                   *)
LEMMA VoidedRow ==
    ASSUME NEW row, RowInv(row), ~row.captured, NEW to \in {"CANCELLED", "REVERSED"}
    PROVE  LET new == [Voided(row) EXCEPT !.status = to]
           IN  RowInv(new) /\ new.n = row.n /\ new.status = to
<1> DEFINE new == [Voided(row) EXCEPT !.status = to]
<1>0. row \in Rows /\ to \in IntentStates /\ to \notin Early
  BY DEF RowInv, IntentStates, Early
<1>1. CASE LatestIs(row, "AUTHORIZED")
  <2>1. row.n \in Numbers /\ Voided(row) = [row EXCEPT !.hold = "VOIDED", !.att[row.n] = "VOIDED"]
    BY <1>0, <1>1, IntentsAssumption DEF LatestIs, Voided, Rows, Numbers
  <2>2. [row.att EXCEPT ![row.n] = "VOIDED"] \in [Numbers -> AttemptStates]
    BY <1>0, <2>1 DEF Rows, AttemptStates
  <2>3. /\ new \in Rows /\ new.n = row.n /\ new.hold = "VOIDED" /\ new.status = to
        /\ new.att = [row.att EXCEPT ![row.n] = "VOIDED"] /\ new.captured = row.captured
    BY <1>0, <2>1, <2>2 DEF Rows
  <2> HIDE DEF new
  <2>4. RowInv(new)
    BY <1>1, <2>3, ClosedRow
  <2> QED  BY <2>3, <2>4 DEF new
<1>2. CASE ~LatestIs(row, "AUTHORIZED")
  <2>1. Voided(row) = row
    BY <1>2 DEF LatestIs, Voided
  <2>2. row.status # "SUCCEEDED"
    BY DEF RowInv
  <2>3. RowInv([row EXCEPT !.status = to])
    BY <1>0, <1>2, <2>2, StatusRow
  <2>4. [row EXCEPT !.status = to].n = row.n /\ [row EXCEPT !.status = to].status = to
    BY <1>0 DEF Rows
  <2> QED  BY <2>1, <2>3, <2>4
<1> QED  BY <1>1, <1>2

(* What a merchant may ask for keeps the rows good.                          *)
LEMMA MerchantRows ==
    ASSUME RowsInv, NEW i \in Intents, Merchant(i)
    PROVE  RowsInv' /\ Keeps
<1>r. RowInv(db[i]) /\ (db[i].status \in Early => ~LatestIs(db[i], "AUTHORIZED"))
  <2>1. RowInv(db[i])
    BY DEF RowsInv, Good
  <2> QED  BY <2>1, EarlyRow
<1>e. /\ "SUCCEEDED" \notin Early
      /\ {"CREATED", "REQUIRES_PAYMENT_METHOD", "REQUIRES_CONFIRMATION",
          "REQUIRES_ACTION", "ABSENT"} \subseteq Early
      /\ {"CREATED", "CANCELLED", "FAILED"} \subseteq IntentStates
      /\ {"CANCELLED", "FAILED"} \cap Early = {}
  BY DEF Early, IntentStates
<1>1. CASE CreateIntent(i)
  <2>1. /\ db[i].status \in Early /\ task' = task
        /\ Commit(i, [db[i] EXCEPT !.status = "CREATED"])
    BY <1>1, <1>e DEF CreateIntent
  <2> QED  BY <1>r, <1>e, <2>1, MoveStep
<1>2. CASE SupplyMethod(i)
  <2>1. PICK to \in IntentStates : /\ IntentMove(db[i], "method_supplied", to) /\ task' = task
                                   /\ Commit(i, [db[i] EXCEPT !.status = to])
    BY <1>2 DEF SupplyMethod
  <2>2. db[i].status \in Early /\ to \in {"REQUIRES_PAYMENT_METHOD", "REQUIRES_CONFIRMATION"}
    BY <1>e, <2>1, IntentRules
  <2> QED  BY <1>r, <1>e, <2>1, <2>2, MoveStep
<1>3. CASE Cancel(i)
  <2>1. /\ db[i].status \in Early /\ task' = task
        /\ Commit(i, [db[i] EXCEPT !.status = "CANCELLED"])
    BY <1>3, IntentRules DEF Cancel
  <2> QED  BY <1>r, <1>e, <2>1, MoveStep
<1>4. CASE Void(i)
  <2> DEFINE new == [Voided(db[i]) EXCEPT !.status = "CANCELLED"]
  <2>1. db[i].status = "REQUIRES_CAPTURE" /\ task' = task /\ Commit(i, new)
    BY <1>4, IntentRules DEF Void
  <2>2. RowInv(new) /\ new.n = db[i].n /\ new.status = "CANCELLED"
    BY <1>r, <2>1, VoidedRow DEF RowInv
  <2> HIDE DEF new
  <2> QED  BY <1>e, <2>1, <2>2, CommitStep
<1>5. CASE Capture(i)
  <2> DEFINE row == db[i]
             new == [Charged(row, row.n) EXCEPT !.hold = "CAPTURED"]
  <2>1. LatestIs(row, "AUTHORIZED") /\ task' = task /\ Commit(i, new) /\ row \in Rows
    BY <1>5, <1>r DEF Capture, LatestIs, RowInv
  <2>2. row.n \in Numbers
    BY <2>1, IntentsAssumption DEF LatestIs, Rows, Numbers
  <2>3. [row.att EXCEPT ![row.n] = "CHARGED"] \in [Numbers -> AttemptStates]
    BY <2>1, <2>2 DEF Rows, AttemptStates
  <2> HIDE DEF row
  <2>4. /\ new \in Rows /\ new.n = row.n /\ new.hold = "CAPTURED" /\ new.status = "SUCCEEDED"
        /\ new.att = [row.att EXCEPT ![row.n] = "CHARGED"] /\ new.captured = TRUE
    BY <2>1, <2>2, <2>3 DEF Rows, Charged, IntentStates
  <2> HIDE DEF new
  <2>5. RowInv(row)
    BY <1>r DEF row
  <2>6. RowInv(new)
    BY <2>1, <2>4, <2>5, ClosedRow
  <2> QED  BY <1>e, <2>1, <2>4, <2>6, CommitStep DEF row
<1>6. CASE CapturePostFails(i)
  <2>1. UNCHANGED <<db, draft, open, task>>
    BY <1>6 DEF CapturePostFails
  <2>2. \A j \in Intents : Good(j)'
    BY <2>1, Untouched DEF RowsInv
  <2> QED  BY <2>1, <2>2 DEF RowsInv, RowsType, Keeps
<1>7. CASE \E trigger \in {"preflight_passed", "action_required", "aml_block"} : Confirm(i, trigger)
  <2>1. PICK trigger \in {"preflight_passed", "action_required", "aml_block"} : Confirm(i, trigger)
    BY <1>7
  <2>2. PICK to \in IntentStates :
          /\ IntentMove(db[i], "confirm", "PRE_FLIGHT")
          /\ Resolves(INTENT_TABLE, "PRE_FLIGHT", trigger, to)
          /\ Commit(i, [db[i] EXCEPT !.status = to])
          /\ IF trigger = "preflight_passed" THEN Spawn(i, "request", 1) ELSE task' = task
    BY <2>1 DEF Confirm
  <2>3. db[i].status \in Early
    BY <1>e, <2>2, IntentRules
  <2>4. CASE trigger = "preflight_passed"
    BY <2>2, <2>3, <2>4, PreFlightRules, SpawnStep
  <2>5. CASE trigger # "preflight_passed"
    <3>1. to \in {"REQUIRES_ACTION", "FAILED"} /\ task' = task
      BY <2>2, <2>5, PreFlightRules
    <3> QED  BY <1>r, <1>e, <2>2, <2>3, <3>1, MoveStep
  <2> QED  BY <2>4, <2>5
<1>8. CASE \E trigger \in {"action_completed", "action_failed"} : CompleteAction(i, trigger)
  <2>1. PICK trigger \in {"action_completed", "action_failed"} : CompleteAction(i, trigger)
    BY <1>8
  <2>2. PICK to \in IntentStates :
          /\ IntentMove(db[i], trigger, to)
          /\ Commit(i, [db[i] EXCEPT !.status = to])
          /\ IF trigger = "action_completed" THEN Spawn(i, "request", 1) ELSE task' = task
    BY <2>1 DEF CompleteAction
  <2>3. CASE trigger = "action_completed"
    <3>1. db[i].status \in Early /\ to = "PROCESSING"
      BY <1>e, <2>2, <2>3, IntentRules
    <3> QED  BY <2>2, <2>3, <3>1, SpawnStep
  <2>4. CASE trigger # "action_completed"
    <3>1. db[i].status \in Early /\ to = "FAILED" /\ task' = task
      BY <1>e, <2>2, <2>4, IntentRules
    <3> QED  BY <1>r, <1>e, <2>2, <3>1, MoveStep
  <2> QED  BY <2>3, <2>4
<1> QED  BY <1>1, <1>2, <1>3, <1>4, <1>5, <1>6, <1>7, <1>8 DEF Merchant

(* Callbacks and status polls keep the rows good.                            *)
LEMMA InboundRows ==
    ASSUME RowsInv, NEW i \in Intents, NEW k \in Numbers, Inbound(i, k)
    PROVE  RowsInv' /\ Keeps
<1> DEFINE row == db[i]
<1>r. RowInv(row)
  BY DEF RowsInv, Good
<1>e. {"REVERSAL_INITIATED", "SUCCEEDED", "FAILED", "PROCESSING"} \cap Early = {}
  BY DEF Early
<1>1. CASE \E res \in Results : ReceiveCallback(i, k, res)
  BY <1>1, CallbackStep
<1>2. CASE PollCharges(i, k)
  <2>1. /\ row.att[k] = "TIMED_OUT" /\ row.status = "PROCESSING" /\ task' = task
        /\ Commit(i, Charged(row, k))
    BY <1>2, RailRulesFrom DEF PollCharges, Polled
  <2>2. /\ RowInv(Charged(row, k)) /\ Charged(row, k).n = row.n
        /\ Charged(row, k).status = "SUCCEEDED"
    BY <1>r, <2>1, ChargedRow
  <2> QED  BY <1>e, <2>1, <2>2, CommitStep
<1>3. CASE PollPostFails(i, k)
  <2>1. UNCHANGED <<db, draft, open, task>>
    BY <1>3 DEF PollPostFails
  <2>2. \A j \in Intents : Good(j)'
    BY <2>1, Untouched DEF RowsInv
  <2> QED  BY <2>1, <2>2 DEF RowsInv, RowsType, Keeps
<1>4. CASE PollReversed(i, k)
  <2> DEFINE new == [row EXCEPT !.att[k] = "REVERSED", !.status = "REVERSAL_INITIATED"]
             same == [row EXCEPT !.polls = row.polls, !.att[k] = "REVERSED",
                                 !.status = "REVERSAL_INITIATED"]
  <2>1. /\ row.att[k] = "TIMED_OUT" /\ row.status = "PROCESSING" /\ task' = task
        /\ Commit(i, new)
    BY <1>4, RailRulesFrom DEF PollReversed, Polled
  <2>2. row.polls \in 0..MAX_STATUS_POLLS /\ row \in Rows
    BY <1>r DEF RowInv, Rows
  <2> HIDE DEF row
  <2>3. RowInv(same) /\ same.n = row.n /\ same.status = "REVERSAL_INITIATED"
    BY <1>r, <2>1, <2>2, PolledAwayRow
  <2>4. new = same
    BY <2>2 DEF Rows
  <2> HIDE DEF new, same
  <2> QED  BY <1>e, <2>1, <2>3, <2>4, CommitStep DEF row
<1>5. CASE PollPending(i, k)
  <2> DEFINE new == [row EXCEPT !.polls = row.polls + 1]
  <2>1. row.polls + 1 < MAX_STATUS_POLLS /\ task' = task /\ Commit(i, new) /\ row \in Rows
    BY <1>5, <1>r DEF PollPending, RowInv
  <2>2. row.polls + 1 \in 0..MAX_STATUS_POLLS
    BY <2>1, IntentsAssumption DEF Rows
  <2> HIDE DEF row
  <2>3. /\ new \in Rows /\ new.n = row.n /\ new.status = row.status /\ new.att = row.att
        /\ new.hold = row.hold /\ new.captured = row.captured /\ new.queued = row.queued
    BY <2>1, <2>2 DEF Rows
  <2> HIDE DEF new
  <2>4. RowInv(new)
    BY <1>r, <2>3 DEF RowInv, LatestIs
  <2> QED  BY <2>1, <2>3, <2>4, CommitStep DEF row
<1>6. CASE PollExhausted(i, k)
  <2> DEFINE new == [row EXCEPT !.polls = MAX_STATUS_POLLS, !.att[k] = "AUTHORIZATION_FAILED",
                                !.status = "REVERSAL_INITIATED"]
  <2>1. /\ row.att[k] = "TIMED_OUT" /\ row.status = "PROCESSING" /\ task' = task
        /\ Commit(i, new)
    BY <1>6, RailRulesFrom DEF PollExhausted, Polled
  <2>2. MAX_STATUS_POLLS \in 0..MAX_STATUS_POLLS
    BY IntentsAssumption
  <2> HIDE DEF row
  <2>3. RowInv(new) /\ new.n = row.n /\ new.status = "REVERSAL_INITIATED"
    BY <1>r, <2>1, <2>2, PolledAwayRow
  <2> HIDE DEF new
  <2> QED  BY <1>e, <2>1, <2>3, CommitStep DEF row
<1>7. CASE PollFails(i, k)
  <2>1. /\ row.att[k] = "TIMED_OUT" /\ row.status = "PROCESSING" /\ task' = task
        /\ Commit(i, Declined(row, k))
    BY <1>7, RailRulesFrom DEF PollFails, Polled
  <2>2. /\ RowInv(Declined(row, k)) /\ Declined(row, k).n = row.n
        /\ Declined(row, k).status = "FAILED"
    BY <1>r, <2>1, DeclinedRow
  <2> QED  BY <1>e, <2>1, <2>2, CommitStep
<1> QED  BY <1>1, <1>2, <1>3, <1>4, <1>5, <1>6, <1>7 DEF Inbound

(* A failed reversal leaves the hold, if there is one, to an operator.       *)
LEMMA QueuedRow ==
    ASSUME NEW row, RowInv(row), row.status \in Reversing
    PROVE  LET new == [row EXCEPT !.status = "FAILED", !.queued = TRUE]
           IN  RowInv(new) /\ new.n = row.n /\ new.status = "FAILED"
<1> DEFINE new == [row EXCEPT !.status = "FAILED", !.queued = TRUE]
<1>1. row \in Rows /\ ~row.captured
  BY DEF RowInv, Reversing
<1>2. /\ new \in Rows /\ new.n = row.n /\ new.att = row.att /\ new.hold = row.hold
      /\ new.captured = row.captured /\ new.queued = TRUE /\ new.status = "FAILED"
  BY <1>1 DEF Rows, IntentStates
<1> HIDE DEF new
<1>3. RowInv(new)
  BY <1>1, <1>2 DEF RowInv, LatestIs, Early
<1> QED  BY <1>2, <1>3 DEF new

(* Claiming and applying a reversal keep the rows good.                      *)
LEMMA ReverserRows ==
    ASSUME RowsInv, RevInv, NEW r \in Reversers, ReverserStep(r)
    PROVE  RowsInv' /\ Keeps
<1>u. ASSUME UNCHANGED <<db, draft, open, task>>  PROVE RowsInv' /\ Keeps
  <2>1. \A j \in Intents : Good(j)'
    BY <1>u, Untouched DEF RowsInv
  <2> QED  BY <1>u, <2>1 DEF RowsInv, RowsType, Keeps
<1>1. CASE \E i \in Intents : ClaimReversal(r, i)
  <2>1. PICK i \in Intents : ClaimReversal(r, i)
    BY <1>1
  <2>2. /\ db[i].status \in Reversing /\ task' = task
        /\ Commit(i, [db[i] EXCEPT !.status = "REVERSAL_PENDING"])
    BY <2>1, RailRulesFrom DEF ClaimReversal
  <2>3. /\ "REVERSAL_PENDING" \in Reversing \cap IntentStates /\ "REVERSAL_PENDING" \notin Early
        /\ "SUCCEEDED" \notin Reversing
    BY DEF Reversing, IntentStates, Early
  <2> QED  BY <2>2, <2>3, MoveStep
<1>2. CASE \E res \in Results, to \in RailStates : ReverseReturns(r, res, to)
  BY <1>2, <1>u DEF ReverseReturns
<1>3. CASE ApplyReversal(r)
  <2> DEFINE i == rev[r].i
             row == db[i]
  <2>1. i \in Intents /\ RowInv(row) /\ task' = task
    BY <1>3 DEF ApplyReversal, RevInv, RowsInv, Good
  <2>2. CASE /\ IntentMove(row, "reversal_confirmed", "REVERSED")
             /\ Commit(i, [Unwound(row) EXCEPT !.status = "REVERSED"])
    <3>1. row.status \in Reversing
      BY <2>2, RailRulesFrom
    <3>2. ~row.captured
      BY <2>1, <3>1 DEF RowInv, Reversing
    <3>3. row.n > 0
      BY <1>3 DEF ApplyReversal, RevInv
    <3>4. Unwound(row) = Voided(row)
      BY <2>1, <3>2, <3>3 DEF RowInv, LatestIs, Unwound
    <3> DEFINE new == [Voided(row) EXCEPT !.status = "REVERSED"]
    <3> HIDE DEF row
    <3>5. RowInv(new) /\ new.n = row.n /\ new.status = "REVERSED"
      BY <2>1, <3>2, VoidedRow
    <3>6. Commit(i, new) /\ "REVERSED" \notin Early
      BY <2>2, <3>4 DEF Early
    <3> HIDE DEF new, i
    <3> QED  BY <2>1, <3>5, <3>6, CommitStep DEF row
  <2>3. CASE /\ IntentMove(row, "reversal_failed", "FAILED")
             /\ Commit(i, [row EXCEPT !.status = "FAILED", !.queued = TRUE])
    <3> DEFINE new == [row EXCEPT !.status = "FAILED", !.queued = TRUE]
    <3>1. row.status \in Reversing
      BY <2>3, RailRulesFrom
    <3> HIDE DEF row
    <3>2. RowInv(new) /\ new.n = row.n /\ new.status = "FAILED"
      BY <2>1, <3>1, QueuedRow
    <3>3. Commit(i, new) /\ "FAILED" \notin Early
      BY <2>3 DEF Early
    <3> HIDE DEF new, i
    <3> QED  BY <2>1, <3>2, <3>3, CommitStep DEF row
  <2>4. CASE UNCHANGED <<db, draft, open>>
    BY <2>1, <2>4, <1>u
  <2> QED  BY <1>3, <2>2, <2>3, <2>4 DEF ApplyReversal
<1> QED  BY <1>1, <1>2, <1>3 DEF ReverserStep

(* The sweep changes only the status of unlocked intents.                    *)
LEMMA SweepRows ==
    ASSUME RowsInv, Sweep
    PROVE  RowsInv' /\ Keeps
<1>1. /\ db' = [i \in Intents |-> IF i \in Sweepable
                                  THEN [db[i] EXCEPT !.status = Expired(db[i].status)]
                                  ELSE db[i]]
      /\ UNCHANGED <<draft, open, task>> /\ \A i \in Sweepable : open[i] = "none"
  BY DEF Sweep, Free
<1>2. ASSUME NEW i \in Intents
      PROVE  Good(i)' /\ db'[i] \in Rows /\ db'[i].n = db[i].n
  <2>1. Good(i) /\ RowInv(db[i]) /\ db[i] \in Rows
    BY DEF RowsInv, Good, RowInv
  <2>2. CASE i \notin Sweepable
    <3>1. db'[i] = db[i]
      BY <1>1, <2>2
    <3> QED  BY <1>1, <2>1, <3>1, Untouched
  <2>3. CASE i \in Sweepable
    <3> DEFINE to == Expired(db[i].status)
               new == [db[i] EXCEPT !.status = to]
    <3>1. db'[i] = new /\ to # db[i].status
      BY <1>1, <2>3 DEF Sweepable
    <3>2. /\ to \in {"CANCELLED", "FAILED", "REVERSAL_INITIATED"}
          /\ db[i].status # "SUCCEEDED"
          /\ db[i].status \notin Early => to = "REVERSAL_INITIATED"
      BY <3>1 DEF Expired, Early
    <3> HIDE DEF to
    <3>3. to \in IntentStates /\ to \notin Early /\ to \notin {"SUCCEEDED", "REQUIRES_CAPTURE"}
      BY <3>2 DEF IntentStates, Early
    <3>4. LatestIs(db[i], "AUTHORIZED") => to \in Reversing
      <4>1. LatestIs(db[i], "AUTHORIZED") => db[i].status \notin Early
        BY <2>1, EarlyRow
      <4> QED  BY <3>2, <4>1 DEF Reversing
    <3>5. RowInv(new)
      BY <2>1, <3>2, <3>3, <3>4, StatusRow
    <3>6. new.n = db[i].n /\ new.status = to /\ new \in Rows
      BY <2>1, <3>3 DEF Rows
    <3> HIDE DEF new
    <3>7. open[i] = "none"
      BY <1>1, <2>3
    <3> QED  BY <1>1, <2>1, <3>1, <3>3, <3>5, <3>6, <3>7 DEF Good, TaskInv
  <2> QED  BY <2>2, <2>3
<1>3. RowsType'
  BY <1>1, <1>2 DEF RowsInv, RowsType
<1> QED  BY <1>2, <1>3 DEF RowsInv, Keeps

-----------------------------------------------------------------------------
(* The inductive invariant.                                                  *)

(* What is neither a row nor a task keeps its type.                          *)
RestType ==
    /\ sent \in [Intents -> 0..MaxSubmissions]
    /\ rail \in [Intents -> [0..MaxSubmissions -> RailStates]]
    /\ due \in [Intents -> BOOLEAN] /\ hot \in [Intents -> BOOLEAN]
    /\ missing \in [Intents -> BOOLEAN]
    /\ rev \in [Reversers -> [at : {"idle", "calling", "apply"}, i : Intents \cup {NoIntent},
                              ref : 0..MaxSubmissions, res : Results]]
    /\ abandons \in 0..MaxAbandons

KindsType == manual \subseteq Intents /\ rough \subseteq Intents

(* Inv, and Inv of the next state, by their parts.                           *)
LEMMA InvParts == /\ Inv <=> RowsInv /\ RestType /\ KindsType /\ RevInv
                  /\ Inv' <=> RowsInv' /\ RestType' /\ KindsType' /\ RevInv'
  BY DEF Inv, TypeOK, RowsInv, RowsType, RestType, KindsType, TaskRecs

(* No action of a merchant, a callback or the clock touches the reversers.   *)
LEMMA CalmRest ==
    ASSUME RestType, NEW i \in Intents,
           \/ Merchant(i) \/ Expires(i) \/ Cools(i) \/ Sweep
           \/ \E k \in Numbers : Inbound(i, k)
    PROVE  RestType' /\ rev' = rev
<1>1. CASE Merchant(i)
  BY <1>1 DEF Merchant, RestType, CreateIntent, SupplyMethod, Cancel, Void, Capture,
              CapturePostFails, Confirm, CompleteAction
<1>2. CASE Expires(i) \/ Cools(i) \/ Sweep
  BY <1>2 DEF RestType, Expires, Cools, Sweep
<1>3. CASE \E k \in Numbers : Inbound(i, k)
  BY <1>3 DEF RestType, Inbound, ReceiveCallback, PollCharges, PollPostFails, PollReversed,
              PollPending, PollExhausted, PollFails
<1> QED  BY <1>1, <1>2, <1>3

(* The steps of a task touch no reverser.                                    *)
LEMMA TaskRest ==
    ASSUME RestType, NEW i \in Intents, NEW t \in Tasks, TaskStep(i, t) \/ Abandon(i, t)
    PROVE  RestType' /\ rev' = rev
<1>1. CASE Submit(i, t)
  <2>1. PICK ref : rail' = [rail EXCEPT ![i][ref] = "OPEN"]
    BY <1>1 DEF Submit
  <2>2. rail' \in [Intents -> [0..MaxSubmissions -> RailStates]]
    BY <2>1 DEF RestType, RailStates
  <2> QED  BY <1>1, <2>2 DEF RestType, Submit
<1>2. CASE \E res \in Results, to \in RailStates : SubmitReturns(i, t, res, to)
  <2>1. PICK res \in Results, to \in RailStates : SubmitReturns(i, t, res, to)
    BY <1>2
  <2>2. rail' \in [Intents -> [0..MaxSubmissions -> RailStates]]
    BY <2>1 DEF RestType, SubmitReturns
  <2> QED  BY <2>1, <2>2 DEF RestType, SubmitReturns
<1>3. CASE InsertAttempt(i, t)
  <2>1. sent' \in [Intents -> 0..MaxSubmissions]
    BY <1>3, IntentsAssumption DEF InsertAttempt, RestType
  <2> QED  BY <1>3, <2>1 DEF InsertAttempt, RestType
<1>4. CASE Abandon(i, t)
  <2>1. /\ abandons' = abandons + 1 /\ abandons < MaxAbandons
        /\ UNCHANGED <<sent, rail, due, hot, missing, rev>>
    BY <1>4 DEF Abandon
  <2>2. abandons' \in 0..MaxAbandons
    BY <2>1, IntentsAssumption DEF RestType
  <2> QED  BY <2>1, <2>2 DEF RestType
<1>5. CASE Defer(i, t) \/ ApplyAuthorized(i, t) \/ ApplyCharged(i, t) \/ LedgerPostFails(i, t)
  BY <1>5 DEF Defer, ApplyAuthorized, ApplyCharged, LedgerPostFails, RestType
<1>6. CASE \/ ApplyPending(i, t) \/ ApplyTimedOut(i, t) \/ ApplyDeclined(i, t)
           \/ ApplyRetryable(i, t) \/ ApplyRaises(i, t)
  BY <1>6 DEF ApplyPending, ApplyTimedOut, ApplyDeclined, ApplyRetryable, ApplyRaises, RestType
<1> QED  BY <1>1, <1>2, <1>3, <1>4, <1>5, <1>6 DEF TaskStep

(* A reverser works on an intent that has an attempt.                        *)
LEMMA ReverserRest ==
    ASSUME RestType, RowsInv, RevInv, Keeps, NEW r \in Reversers,
           ReverserStep(r) \/ AbandonReversal(r)
    PROVE  RestType' /\ RevInv'
<1> DEFINE Revs == [at : {"idle", "calling", "apply"}, i : Intents \cup {NoIntent},
                    ref : 0..MaxSubmissions, res : Results]
<1>0. IdleRev \in Revs /\ IdleRev.at = "idle"
  BY IntentsAssumption DEF IdleRev, Results
<1>1. CASE \E i \in Intents : ClaimReversal(r, i)
  <2>1. PICK i \in Intents : ClaimReversal(r, i)
    BY <1>1
  <2> DEFINE new == [at |-> "calling", i |-> i, ref |-> db[i].ref[db[i].n], res |-> "PENDING"]
  <2>2. db[i].n > 0 /\ db[i] \in Rows /\ rev' = [rev EXCEPT ![r] = new]
    BY <2>1 DEF ClaimReversal, RowsInv, RowsType
  <2>3. db[i].ref[db[i].n] \in 0..MaxSubmissions
    BY <2>2, IntentsAssumption DEF Rows, Numbers
  <2>4. new \in Revs /\ new.i = i
    BY <2>3 DEF Results
  <2> HIDE DEF new
  <2>5. RestType'
    BY <2>1, <2>2, <2>4 DEF ClaimReversal, RestType
  <2>6. RevInv'
    BY <2>2, <2>4 DEF RevInv, RestType, Keeps
  <2> QED  BY <2>5, <2>6
<1>2. CASE \E res \in Results, to \in RailStates : ReverseReturns(r, res, to)
  <2>1. PICK res \in Results, to \in RailStates : ReverseReturns(r, res, to)
    BY <1>2
  <2> DEFINE new == [rev[r] EXCEPT !.at = "apply", !.res = res]
  <2>2. rev[r] \in Revs /\ rev[r].at = "calling"
    BY <2>1 DEF RestType, ReverseReturns
  <2>3. new \in Revs /\ new.i = rev[r].i
    BY <2>2
  <2>4. rev' = [rev EXCEPT ![r] = new]
    BY <2>1 DEF ReverseReturns, RestType
  <2>5. rail' \in [Intents -> [0..MaxSubmissions -> RailStates]]
    BY <2>1 DEF ReverseReturns, RestType
  <2> HIDE DEF new
  <2>8. rev' \in [Reversers -> Revs]
    BY <2>3, <2>4 DEF RestType
  <2>9. UNCHANGED <<sent, due, hot, missing, abandons>>
    BY <2>1 DEF ReverseReturns
  <2>6. RestType'
    BY <2>5, <2>8, <2>9 DEF RestType
  <2>7. RevInv'
    BY <2>2, <2>3, <2>4 DEF RevInv, RestType, Keeps
  <2> QED  BY <2>6, <2>7
<1>3. CASE ApplyReversal(r) \/ AbandonReversal(r)
  <2>1. rev' = [rev EXCEPT ![r] = IdleRev]
    BY <1>3 DEF ApplyReversal, AbandonReversal
  <2>2. RevInv'
    BY <1>0, <2>1 DEF RevInv, RestType, Keeps
  <2>3. abandons' \in 0..MaxAbandons
    BY <1>3, IntentsAssumption DEF ApplyReversal, AbandonReversal, RestType
  <2>4. RestType'
    BY <1>0, <1>3, <2>1, <2>3 DEF ApplyReversal, AbandonReversal, RestType
  <2> QED  BY <2>2, <2>4
<1> QED  BY <1>1, <1>2, <1>3 DEF ReverserStep

(* The empty database satisfies Inv.                                         *)
LEMMA InitInv == Init => Inv
<1> SUFFICES ASSUME Init PROVE Inv
  OBVIOUS
<1>1. NewRow \in Rows /\ RowInv(NewRow) /\ NewRow.n = 0
  <2>1. /\ NewRow \in Rows /\ NewRow.n = 0 /\ NewRow.status = "ABSENT" /\ NewRow.hold # "OPEN"
        /\ NewRow.captured = FALSE /\ \A k \in Numbers : NewRow.att[k] = "ABSENT"
    BY EmptyRow DEF NewRow
  <2>2. \A s : ~LatestIs(NewRow, s)
    BY <2>1 DEF LatestIs
  <2>3. \A k \in Numbers : ~(k < 0)
    BY IntentsAssumption DEF Numbers
  <2> QED  BY <2>1, <2>2, <2>3 DEF RowInv
<1>2. IdleTask \in TaskRecs /\ IdleTask.at = "idle" /\ IdleRev.at = "idle"
  BY IntentsAssumption DEF IdleTask, TaskRecs, Numbers, Results, IdleRev
<1>3. RowsType /\ \A i \in Intents : Good(i)
  BY <1>1, <1>2 DEF Init, RowsType, Good, TaskInv
<1>4. RestType
  BY IntentsAssumption DEF Init, RestType, RailStates, IdleRev, Results
<1>5. RevInv
  BY <1>2 DEF Init, RevInv
<1>6. KindsType
  BY DEF Init, KindsType
<1> QED  BY <1>3, <1>4, <1>5, <1>6, InvParts DEF RowsInv

(* Every step keeps Inv.                                                     *)
LEMMA NextInv == Inv /\ [Next]_vars => Inv'
<1> SUFFICES ASSUME RowsInv, RestType, KindsType, RevInv, [Next]_vars PROVE Inv'
  BY InvParts
<1>k. KindsType'
  BY DEF KindsType, Next, vars, kinds
<1>c. ASSUME RowsInv', Keeps, RestType', rev' = rev  PROVE Inv'
  <2>1. RevInv'
    BY <1>c DEF RevInv, Keeps
  <2> QED  BY <1>c, <1>k, <2>1, InvParts
<1>u. ASSUME UNCHANGED <<db, draft, open, task>>  PROVE RowsInv' /\ Keeps
  <2>1. \A j \in Intents : Good(j)'
    BY <1>u, Untouched DEF RowsInv
  <2> QED  BY <1>u, <2>1 DEF RowsInv, RowsType, Keeps
<1>s. sent \in [Intents -> 0..MaxSubmissions]
  BY DEF RestType
<1>1. CASE Sweep
  <2>1. RowsInv' /\ Keeps
    BY <1>1, SweepRows
  <2>2. RestType' /\ rev' = rev
    BY <1>1 DEF RestType, Sweep
  <2> QED  BY <2>1, <2>2, <1>c
<1>2. ASSUME NEW i \in Intents, Merchant(i)  PROVE Inv'
  BY <1>2, <1>c, MerchantRows, CalmRest
<1>3. ASSUME NEW i \in Intents, Expires(i) \/ Cools(i)  PROVE Inv'
  <2>1. UNCHANGED <<db, draft, open, task>>
    BY <1>3 DEF Expires, Cools
  <2> QED  BY <1>3, <2>1, <1>u, <1>c, CalmRest
<1>4. ASSUME NEW i \in Intents, NEW t \in Tasks, TaskStep(i, t) \/ Abandon(i, t)  PROVE Inv'
  <2>1. TaskStep(i, t) \/ RollBack(i, t)
    BY <1>4 DEF Abandon
  <2> QED  BY <1>4, <2>1, <1>s, <1>c, TaskRows, TaskRest
<1>5. ASSUME NEW i \in Intents, NEW k \in Numbers, Inbound(i, k)  PROVE Inv'
  BY <1>5, <1>c, InboundRows, CalmRest
<1>6. ASSUME NEW i \in Intents, NEW ref \in 1..MaxSubmissions, NEW to \in RailStates,
             RailDecides(i, ref, to)
      PROVE  Inv'
  <2>1. UNCHANGED <<db, draft, open, task>> /\ rev' = rev
    BY <1>6 DEF RailDecides
  <2>2. RestType'
    BY <1>6 DEF RestType, RailDecides
  <2> QED  BY <2>1, <2>2, <1>u, <1>c
<1>7. ASSUME NEW r \in Reversers, ReverserStep(r) \/ AbandonReversal(r)  PROVE Inv'
  <2>1. RowsInv' /\ Keeps
    BY <1>7, <1>u, ReverserRows DEF AbandonReversal
  <2>2. RestType' /\ RevInv'
    BY <1>7, <2>1, ReverserRest
  <2> QED  BY <1>k, <2>1, <2>2, InvParts
<1>8. CASE UNCHANGED vars
  <2>1. UNCHANGED <<db, draft, open, task>> /\ rev' = rev
    BY <1>8 DEF vars, moving
  <2>2. RestType'
    BY <1>8 DEF vars, moving, RestType
  <2> QED  BY <2>1, <2>2, <1>u, <1>c
<1> QED  BY <1>1, <1>2, <1>3, <1>4, <1>5, <1>6, <1>7, <1>8 DEF Next, Step

(* Inv holds in every reachable state.                                       *)
LEMMA AlwaysInv == Spec => []Inv
  BY InitInv, NextInv, PTL DEF Spec

(* Every variable keeps its type, for any number of intents, tasks and       *)
(* reversers.                                                                *)
THEOREM TypeCorrect == Spec => []TypeOK
<1>1. Inv => TypeOK
  BY DEF Inv
<1> QED  BY <1>1, AlwaysInv, PTL

(* The books and the lifecycle agree at every commit: a capture is posted    *)
(* exactly for a SUCCEEDED intent with a CHARGED attempt, and a hold is open *)
(* exactly while its attempt is AUTHORIZED.                                  *)
THEOREM BooksAlwaysAgree == Spec => []BooksAgree
<1>1. Inv => BooksAgree
  <2> SUFFICES ASSUME Inv, NEW i \in Intents
               PROVE  LET row == db[i] IN
                      /\ row.captured <=> row.status = "SUCCEEDED"
                      /\ row.captured <=> \E k \in Numbers : row.att[k] = "CHARGED"
                      /\ row.hold = "OPEN" <=> \E k \in Numbers : row.att[k] = "AUTHORIZED"
    BY DEF BooksAgree
  <2>1. RowInv(db[i]) /\ db[i] \in Rows
    BY DEF Inv, Good, RowInv
  <2>2. \A s \in {"CHARGED", "AUTHORIZED"} :
          LatestIs(db[i], s) <=> \E k \in Numbers : db[i].att[k] = s
    <3> TAKE s \in {"CHARGED", "AUTHORIZED"}
    <3>1. LatestIs(db[i], s) => db[i].n \in Numbers /\ db[i].att[db[i].n] = s
      BY <2>1, IntentsAssumption DEF LatestIs, Rows, Numbers
    <3>2. ASSUME NEW k \in Numbers, db[i].att[k] = s  PROVE LatestIs(db[i], s)
      <4>1. k = db[i].n /\ db[i].n > 0
        BY <2>1, <3>2, LiveIsLatest
      <4> QED  BY <3>2, <4>1 DEF LatestIs
    <3> QED  BY <3>1, <3>2
  <2> QED  BY <2>1, <2>2 DEF RowInv
<1> QED  BY <1>1, AlwaysInv, PTL

(* An intent has at most one attempt the rail may still act on, the one that *)
(* a reversal addresses, whatever tasks, callbacks and retries interleave.   *)
THEOREM AtMostOneLiveAttempt == Spec => []OneLiveAttempt
<1>1. Inv => OneLiveAttempt
  BY DEF Inv, Good, RowInv, OneLiveAttempt
<1> QED  BY <1>1, AlwaysInv, PTL

(* A hold outlives its intent only when a failed reversal has queued a       *)
(* compensation.                                                             *)
THEOREM HoldsAreAttended == Spec => []HoldIsAttended
<1>1. Inv => HoldIsAttended
  BY DEF Inv, Good, RowInv, HoldIsAttended
<1> QED  BY <1>1, AlwaysInv, PTL

(* No attempt and no hold is out of sight, for every number of attempts,     *)
(* tasks and reversers.                                                      *)
THEOREM AttemptsStayAttended == Spec => []AttemptsAreAttended
  BY AtMostOneLiveAttempt, HoldsAreAttended, PTL DEF AttemptsAreAttended
-----------------------------------------------------------------------------
Final == Terminal \cup {"SUCCEEDED"}
Frozen == \A i \in Intents : db[i].status \in Final => db'[i].status = db[i].status

(* A task commits a new status only over PROCESSING.                         *)
LEMMA TaskFrozen ==
    ASSUME RowsInv, NEW i \in Intents, NEW t \in Tasks, TaskStep(i, t) \/ RollBack(i, t)
    PROVE  Frozen
<1> DEFINE row == Work(i, t)
<1>f. "PROCESSING" \notin Final
  BY DEF Final, Terminal
<1>w. ASSUME CanWork(i, t), task[i][t].at # "idle"
      PROVE  row \in Rows /\ (row.status = "PROCESSING" \/ open[i] = t => db[i].status = "PROCESSING")
             /\ (open[i] # t => row = db[i])
  <2>1. RowInv(row) /\ (open[i] = t => db[i].status = "PROCESSING")
    BY <1>w, WorkRow
  <2>2. row \in Rows
    BY <2>1 DEF RowInv
  <2>3. open[i] # t => row = db[i]
    BY DEF Work
  <2> QED  BY <2>1, <2>2, <2>3
<1>c. ASSUME NEW new, db' = [db EXCEPT ![i] = new],
             db[i].status \in Final => new.status = db[i].status
      PROVE  Frozen
  BY <1>c DEF Frozen, RowsInv, RowsType
<1>1. CASE Defer(i, t) \/ ApplyPending(i, t)
  <2>1. CanWork(i, t) /\ task[i][t].at # "idle" /\ db' = [db EXCEPT ![i] = row]
    BY <1>1 DEF Defer, ApplyPending, Applying, Finish
  <2>2. db[i].status \in Final => row.status = db[i].status
    BY <1>f, <1>w, <2>1
  <2> HIDE DEF row
  <2> QED  BY <1>c, <2>1, <2>2
<1>2. CASE InsertAttempt(i, t) \/ Submit(i, t)
  <2>1. PICK new : /\ CanWork(i, t) /\ task[i][t].at # "idle" /\ Put(i, t, new)
                   /\ row \in Rows => new.status = row.status
    <3>1. CASE InsertAttempt(i, t)
      <4> DEFINE new == [row EXCEPT !.att[task[i][t].k] = "STARTED",
                                    !.ref[task[i][t].k] = sent[i] + 1,
                                    !.n = task[i][t].k, !.polls = 0]
      <4>1. CanWork(i, t) /\ task[i][t].at # "idle" /\ Put(i, t, new)
        BY <3>1 DEF InsertAttempt
      <4> HIDE DEF row
      <4>2. row \in Rows => new.status = row.status
        BY DEF Rows
      <4> HIDE DEF new
      <4> QED  BY <4>1, <4>2
    <3>2. CASE Submit(i, t)
      BY <3>2 DEF Submit, Rows
    <3> QED  BY <1>2, <3>1, <3>2
  <2>2. CASE open[i] = t
    BY <2>1, <2>2 DEF Put, Frozen
  <2>3. CASE open[i] # t
    <3>1. db' = [db EXCEPT ![i] = new] /\ new.status = db[i].status
      BY <1>w, <2>1, <2>3 DEF Put
    <3> QED  BY <1>c, <3>1
  <2> QED  BY <2>2, <2>3
<1>3. CASE \E res \in Results, to \in RailStates : SubmitReturns(i, t, res, to)
  BY <1>3 DEF SubmitReturns, Frozen
<1>4. CASE \/ ApplyAuthorized(i, t) \/ ApplyCharged(i, t) \/ ApplyTimedOut(i, t)
           \/ ApplyDeclined(i, t)
  <2>1. /\ CanWork(i, t) /\ task[i][t].at # "idle" /\ row.status = "PROCESSING"
        /\ \E new : db' = [db EXCEPT ![i] = new]
    BY <1>4, RailRulesFrom DEF ApplyAuthorized, ApplyCharged, ApplyTimedOut, ApplyDeclined,
                               Applying, Finish
  <2> QED  BY <1>c, <1>f, <1>w, <2>1
<1>5. CASE \/ LedgerPostFails(i, t) \/ ApplyRaises(i, t) \/ RollBack(i, t)
           \/ ApplyRetryable(i, t)
  BY <1>5 DEF LedgerPostFails, ApplyRaises, RollBack, ApplyRetryable, Frozen
<1> HIDE DEF row
<1> QED  BY <1>1, <1>2, <1>3, <1>4, <1>5 DEF TaskStep

(* Merchants, polls and callbacks move no intent out of a final status.      *)
LEMMA CalmFrozen ==
    ASSUME RowsInv, NEW i \in Intents, Merchant(i) \/ \E k \in Numbers : Inbound(i, k)
    PROVE  Frozen
<1>f. Final \cap (Early \cup {"PROCESSING", "REQUIRES_CAPTURE"}) = {}
  BY DEF Final, Terminal, Early
<1>c. ASSUME NEW new, Commit(i, new), db[i].status \notin Final \/ new.status = db[i].status
      PROVE  Frozen
  BY <1>c DEF Frozen, RowsInv, RowsType, Commit
<1>1. CASE CreateIntent(i) \/ SupplyMethod(i) \/ Cancel(i) \/ Void(i) \/ Capture(i)
  <2>1. db[i].status \in Early \cup {"REQUIRES_CAPTURE"} /\ \E new : Commit(i, new)
    BY <1>1, IntentRules DEF CreateIntent, SupplyMethod, Cancel, Void, Capture, Early
  <2> QED  BY <1>c, <1>f, <2>1
<1>2. CASE \/ \E trigger \in {"preflight_passed", "action_required", "aml_block"} : Confirm(i, trigger)
           \/ \E trigger \in {"action_completed", "action_failed"} : CompleteAction(i, trigger)
  <2>1. db[i].status \in Early /\ \E new : Commit(i, new)
    <3>1. ASSUME NEW trigger \in {"preflight_passed", "action_required", "aml_block"},
                 Confirm(i, trigger)
          PROVE  db[i].status \in Early /\ \E new : Commit(i, new)
      <4>1. IntentMove(db[i], "confirm", "PRE_FLIGHT") /\ \E new : Commit(i, new)
        BY <3>1 DEF Confirm
      <4> QED  BY <4>1, IntentRules DEF Early
    <3>2. ASSUME NEW trigger \in {"action_completed", "action_failed"}, CompleteAction(i, trigger)
          PROVE  db[i].status \in Early /\ \E new : Commit(i, new)
      <4>1. PICK to \in IntentStates : /\ IntentMove(db[i], trigger, to)
                                       /\ Commit(i, [db[i] EXCEPT !.status = to])
        BY <3>2 DEF CompleteAction
      <4>2. db[i].status = "REQUIRES_ACTION"
        BY <4>1, IntentRules
      <4> QED  BY <4>1, <4>2 DEF Early
    <3> QED  BY <1>2, <3>1, <3>2
  <2> QED  BY <1>c, <1>f, <2>1
<1>3. CASE CapturePostFails(i)
  BY <1>3 DEF CapturePostFails, Frozen
<1>4. ASSUME NEW k \in Numbers, Inbound(i, k)  PROVE Frozen
  <2>1. CASE (\E res \in Results : ReceiveCallback(i, k, res)) \/ PollPostFails(i, k)
    BY <2>1 DEF ReceiveCallback, PollPostFails, Frozen
  <2>2. CASE PollCharges(i, k) \/ PollReversed(i, k) \/ PollExhausted(i, k) \/ PollFails(i, k)
    <3>1. db[i].status = "PROCESSING" /\ \E new : Commit(i, new)
      BY <2>2, RailRulesFrom DEF PollCharges, PollReversed, PollExhausted, PollFails
    <3> QED  BY <1>c, <1>f, <3>1
  <2>3. CASE PollPending(i, k)
    <3>1. db[i] \in Rows /\ Commit(i, [db[i] EXCEPT !.polls = db[i].polls + 1])
      BY <2>3 DEF PollPending, RowsInv, RowsType
    <3>2. [db[i] EXCEPT !.polls = db[i].polls + 1].status = db[i].status
      BY <3>1 DEF Rows
    <3> QED  BY <1>c, <3>1, <3>2
  <2> QED  BY <1>4, <2>1, <2>2, <2>3 DEF Inbound
<1> QED  BY <1>1, <1>2, <1>3, <1>4 DEF Merchant

(* A final status is final: a task, a poll, the sweep or a reverser that     *)
(* acts on what it read earlier does not overwrite it.                       *)
THEOREM FinalStatusStays == Spec => TerminalIsFinal
<1>1. Inv /\ [Next]_vars => Frozen
  <2> SUFFICES ASSUME RowsInv, RevInv, [Next]_vars PROVE Frozen
    BY InvParts
  <2>1. CASE Sweep
    BY <2>1 DEF Sweep, Sweepable, Expired, Frozen, Final, Terminal
  <2>2. ASSUME NEW i \in Intents, Merchant(i) \/ \E k \in Numbers : Inbound(i, k)  PROVE Frozen
    BY <2>2, CalmFrozen
  <2>3. ASSUME NEW i \in Intents, \/ Expires(i) \/ Cools(i)
                                  \/ \E ref \in 1..MaxSubmissions, to \in RailStates :
                                        RailDecides(i, ref, to)
        PROVE  Frozen
    BY <2>3 DEF Expires, Cools, RailDecides, Frozen
  <2>4. ASSUME NEW i \in Intents, NEW t \in Tasks, TaskStep(i, t) \/ Abandon(i, t)  PROVE Frozen
    BY <2>4, TaskFrozen DEF Abandon
  <2>5. ASSUME NEW r \in Reversers, ReverserStep(r) \/ AbandonReversal(r)  PROVE Frozen
    <3>f. Final \cap Reversing = {}
      BY DEF Final, Terminal, Reversing
    <3>c. ASSUME NEW i, NEW new, Commit(i, new), db[i].status \in Reversing  PROVE Frozen
      BY <3>c, <3>f DEF Frozen, RowsInv, RowsType, Commit
    <3>1. CASE \E i \in Intents : ClaimReversal(r, i)
      BY <3>1, <3>c, RailRulesFrom DEF ClaimReversal
    <3>2. CASE ApplyReversal(r)
      <4>1. \/ UNCHANGED db
            \/ db[rev[r].i].status \in Reversing /\ \E new : Commit(rev[r].i, new)
        BY <3>2, RailRulesFrom DEF ApplyReversal
      <4> QED  BY <3>c, <4>1 DEF Frozen
    <3>3. CASE \/ \E res \in Results, to \in RailStates : ReverseReturns(r, res, to)
               \/ AbandonReversal(r)
      BY <3>3 DEF ReverseReturns, AbandonReversal, Frozen
    <3> QED  BY <2>5, <3>1, <3>2, <3>3 DEF ReverserStep
  <2>6. CASE UNCHANGED vars
    BY <2>6 DEF vars, moving, Frozen
  <2> QED  BY <2>1, <2>2, <2>3, <2>4, <2>5, <2>6 DEF Next, Step
<1>2. Frozen => \A i \in Intents : db[i].status \in Terminal \cup {"SUCCEEDED"} =>
                                      db'[i].status = db[i].status
  BY DEF Frozen, Final
<1> QED  BY <1>1, <1>2, AlwaysInv, PTL DEF Spec, TerminalIsFinal

-----------------------------------------------------------------------------
(* The rail and the books.                                                   *)

(* The rows of an intent as its latest writer sees them.                     *)
Newest(i) == IF open[i] = "none" THEN db[i] ELSE draft[i]

Past == Reversing \cup {"FAILED", "REVERSED"}
Undone == {"REFUSED", "REVERSED", "CANCELLED"}

(* Attempts name submissions that were made, and one that is not under way   *)
(* yet has not reached the rail; an open transaction only adds attempts.     *)
(* `new' are the newest rows, `old' the committed ones, `moved' is what the  *)
(* rail did with the submissions.                                            *)
RefsOK(new, old, held, moved, made) ==
    /\ \A k \in Numbers : k <= new.n => new.ref[k] \in 1..made
    /\ \A s \in 0..MaxSubmissions : s > made => moved[s] = "UNUSED"
    /\ \A k \in Numbers : new.att[k] = "STARTED" => moved[new.ref[k]] = "UNUSED"
    /\ held => /\ old.n <= new.n
               /\ \A k \in Numbers : k <= old.n => new.ref[k] = old.ref[k]
               /\ \A k \in Numbers : old.att[k] # "STARTED"

(* What a task that holds an answer knows of the rail, however long ago it   *)
(* was given; and that the holder of a transaction works on its own attempt. *)
AnswerOK(x, row, status, moved, exact, holds) ==
    /\ x.at \in {"submit", "wait", "apply"} => x.k <= row.n
    /\ x.at = "apply" /\ x.res = "SUCCESS" => moved[row.ref[x.k]] \in {"MOVED", "REVERSED"}
    /\ x.at = "apply" /\ exact /\ x.res \in {"REJECTED", "FAILED", "CIRCUIT_OPEN"} =>
          moved[row.ref[x.k]] = "REFUSED"
    /\ x.at = "dispatch" => status \notin {"FAILED", "REVERSED"}
    /\ holds => /\ x.at # "idle"
                /\ x.at = "submit" => row.att[x.k] = "STARTED"
                /\ x.at \in {"wait", "apply"} => row.att[x.k] = "AUTHORIZATION_PENDING"
                /\ x.at = "apply" => x.res # "REVERSED"

(* Nothing is undone on the rail before the intent is being reversed.        *)
UndoneOK(status, moved) ==
    \A s \in 0..MaxSubmissions : moved[s] \in {"REVERSED", "CANCELLED"} => status \in Past

(* A reverser addresses the latest attempt.                                  *)
ReverserOK(x, row, moved) ==
    /\ row.status \in Past /\ row.n > 0 /\ x.ref = row.ref[row.n]
    /\ x.at = "apply" /\ x.res = "REVERSED" => moved[x.ref] \in Undone

(* BooksFollowRail for one intent.                                           *)
FollowOK(row, moved) ==
    /\ row.captured => moved[row.ref[row.n]] = "MOVED"
    /\ row.hold = "OPEN" => moved[row.ref[row.n]] \in {"MOVED", "REVERSED"}

(* Every submission belongs to an attempt in sight, and all but the latest   *)
(* were refused.                                                             *)
FoundOK(new, held, moved, made) ==
    /\ \A s \in 1..made : \E k \in Numbers : k <= new.n /\ new.ref[k] = s
    /\ \A k \in Numbers : k < new.n => moved[new.ref[k]] = "REFUSED"
    /\ held /\ new.att[new.n] = "AUTHORIZATION_FAILED" => moved[new.ref[new.n]] = "REFUSED"

(* The latest attempt explains a failure.                                    *)
FailureOK(row, moved) ==
    row.n > 0 => /\ row.status = "FAILED" => row.queued \/ moved[row.ref[row.n]] = "REFUSED"
                 /\ row.status = "REVERSED" => moved[row.ref[row.n]] \in Undone

(* The last two hold where FAILED is definite and no task is lost, and until *)
(* a discrepancy is reported.                                                *)
Refs(i)      == RefsOK(Newest(i), db[i], open[i] # "none", rail[i], sent[i])
Answer(i, t) == AnswerOK(task[i][t], Work(i, t), db[i].status, rail[i], i \notin rough, open[i] = t)
Reverser(i, r) == rev[r].at # "idle" /\ rev[r].i = i => ReverserOK(rev[r], db[i], rail[i])
Found(i) ==
    i \notin rough /\ ~missing[i] =>
       FoundOK(Newest(i), open[i] # "none", rail[i], sent[i]) /\ FailureOK(db[i], rail[i])

Money(i) ==
    /\ Refs(i) /\ (\A t \in Tasks : Answer(i, t))
    /\ UndoneOK(db[i].status, rail[i]) /\ (\A r \in Reversers : Reverser(i, r))
    /\ FollowOK(db[i], rail[i]) /\ Found(i)

MoneyInv == \A i \in Intents : Money(i)

(* An intent nothing of which changes, nor any reverser at work on it.       *)
Still(j) ==
    /\ db'[j] = db[j] /\ draft'[j] = draft[j] /\ open'[j] = open[j] /\ task'[j] = task[j]
    /\ rail'[j] = rail[j] /\ sent'[j] = sent[j] /\ missing'[j] = missing[j]
    /\ \A r \in Reversers : rev'[r].at # "idle" /\ rev'[r].i = j => rev'[r] = rev[r]

(* What holds of an intent that no step touches goes on holding.             *)
LEMMA StillMoney ==
    ASSUME NEW j \in Intents, Money(j), Still(j), rough' = rough
    PROVE  Money(j)'
<1>a. Newest(j)' = Newest(j) /\ \A t : Work(j, t)' = Work(j, t)
  BY DEF Still, Newest, Work
<1>1. Refs(j)'
  BY <1>a DEF Still, Refs, Money
<1>2. \A t \in Tasks : Answer(j, t)'
  BY <1>a DEF Still, Answer, Money
<1>3. UndoneOK(db[j].status, rail[j])' /\ FollowOK(db[j], rail[j])'
  BY DEF Still, Money
<1>4. \A r \in Reversers : Reverser(j, r)'
  BY DEF Still, Reverser, Money
<1>5. Found(j)'
  BY <1>a DEF Still, Found, Money
<1> QED  BY <1>1, <1>2, <1>3, <1>4, <1>5 DEF Money

(* The rows an intent's task works on, when it may, are the newest ones.     *)
LEMMA WorkIsNewest ==
    ASSUME NEW i, NEW t \in Tasks, CanWork(i, t)
    PROVE  Work(i, t) = Newest(i)
  BY DEF CanWork, Work, Newest, Tasks

(* What holds of the parts of the state that belong to one intent.           *)
LEMMA IntentTypes ==
    ASSUME Inv, NEW i \in Intents
    PROVE  /\ db[i] \in Rows /\ draft[i] \in Rows /\ Newest(i) \in Rows
           /\ RowInv(db[i]) /\ (open[i] # "none" => RowInv(draft[i]) /\ draft[i].n > 0) /\ RowInv(Newest(i))
           /\ task[i] \in [Tasks -> TaskRecs] /\ sent[i] \in 0..MaxSubmissions
           /\ rail[i] \in [0..MaxSubmissions -> RailStates]
           /\ \A t \in Tasks : Work(i, t) \in Rows
           /\ \A r \in Reversers : rev[r].ref \in 0..MaxSubmissions
  BY DEF Inv, TypeOK, Good, TaskInv, TaskRecs, Newest, Work

(* The submissions that the rows name.                                       *)
LEMMA RowRefs ==
    ASSUME NEW row \in Rows
    PROVE  /\ \A k \in Numbers : row.ref[k] \in 0..MaxSubmissions
           /\ row.n > 0 => row.n \in Numbers /\ row.ref[row.n] \in 0..MaxSubmissions
  BY IntentsAssumption DEF Rows, Numbers

(* A transaction commits rows with the attempts the newest ones had.         *)
Commits(i, row) ==
    /\ db'[i] = row /\ open'[i] = "none"
    /\ row.n = Newest(i).n /\ row.ref = Newest(i).ref
    /\ \A k \in Numbers : row.att[k] = "STARTED" => Newest(i).att[k] = "STARTED"
    /\ db[i].status \in Past => row.status \in Past
    /\ rail'[i] = rail[i] /\ sent'[i] = sent[i] /\ rough' = rough /\ (missing[i] => missing'[i])

(* What its status and its ledger effects owe to the rail.                   *)
RowFollows(i, row) ==
    /\ FollowOK(row, rail[i])
    /\ i \notin rough /\ ~missing[i] => FailureOK(row, rail[i])

(* What becomes of the tasks and of the reversers of that intent.            *)
TasksGoOn(i, row) ==
    \A t \in Tasks :
       /\ \/ task'[i][t].at \in {"idle", "dispatch"}
          \/ task'[i][t] = task[i][t] /\ open[i] # t
       /\ task'[i][t].at = "dispatch" => row.status \notin {"FAILED", "REVERSED"}

ReversersGoOn(i, row) ==
    \A r \in Reversers : rev'[r].at # "idle" /\ rev'[r].i = i =>
       \/ rev'[r] = rev[r]
       \/ rev'[r].at = "calling" /\ rev'[r].ref = row.ref[row.n] /\ row.n > 0 /\ row.status \in Past

(* A commit keeps what is known of the rail.                                 *)
LEMMA CommitMoney ==
    ASSUME Inv, NEW i \in Intents, Money(i), NEW row, Commits(i, row), RowFollows(i, row),
           TasksGoOn(i, row), ReversersGoOn(i, row)
    PROVE  Money(i)'
<1>0. /\ open'[i] = "none" /\ Newest(i)' = row /\ db'[i] = row /\ rail'[i] = rail[i]
      /\ sent'[i] = sent[i] /\ rough' = rough /\ (\A t \in Tasks : Work(i, t)' = row)
      /\ row.n = Newest(i).n /\ row.ref = Newest(i).ref
      /\ \A k \in Numbers : row.att[k] = "STARTED" => Newest(i).att[k] = "STARTED"
      /\ "none" \notin Tasks
  BY DEF Commits, Newest, Work, Tasks
<1>1. Refs(i)'
  <2>1. RefsOK(Newest(i), db[i], open[i] # "none", rail[i], sent[i])
    BY DEF Money, Refs
  <2>2. RefsOK(row, row, FALSE, rail[i], sent[i])
    BY <1>0, <2>1 DEF RefsOK
  <2> QED  BY <1>0, <2>2 DEF Refs
<1>r. \A k \in Numbers : k <= db[i].n => k <= row.n /\ row.ref[k] = db[i].ref[k]
  <2>1. CASE open[i] = "none"
    BY <1>0, <2>1 DEF Newest
  <2>2. CASE open[i] # "none"
    <3>1. row.n = draft[i].n /\ row.ref = draft[i].ref /\ draft[i] \in Rows /\ db[i] \in Rows
      BY <1>0, <2>2, IntentTypes DEF Newest
    <3>2. db[i].n <= draft[i].n /\ \A k \in Numbers : k <= db[i].n => draft[i].ref[k] = db[i].ref[k]
      BY <2>2 DEF Money, Refs, RefsOK, Newest
    <3>3. \A k \in Numbers : k <= db[i].n => k <= draft[i].n
      BY <3>1, <3>2, IntentsAssumption DEF Rows, Numbers
    <3> QED  BY <3>1, <3>2, <3>3
  <2> QED  BY <2>1, <2>2
<1>2. ASSUME NEW t \in Tasks PROVE Answer(i, t)'
  <2>0. Work(i, t)' = row /\ Answer(i, t) /\ ~(open'[i] = t) /\ db'[i].status = row.status
        /\ (task'[i][t].at = "dispatch" => row.status \notin {"FAILED", "REVERSED"})
    BY <1>0 DEF Money, TasksGoOn
  <2>2. CASE task'[i][t].at \in {"idle", "dispatch"}
    <3>1. AnswerOK(task'[i][t], row, row.status, rail[i], i \notin rough, FALSE)
      BY <2>0, <2>2 DEF AnswerOK
    <3> QED  BY <1>0, <2>0, <3>1 DEF Answer
  <2>3. CASE task'[i][t] = task[i][t] /\ open[i] # t
    <3>1. Work(i, t) = db[i] /\ task[i][t].k \in Numbers
      BY <2>3, IntentTypes DEF Work, TaskRecs
    <3>2. AnswerOK(task[i][t], db[i], db[i].status, rail[i], i \notin rough, FALSE)
      BY <2>0, <2>3, <3>1 DEF Answer
    <3>3. AnswerOK(task[i][t], row, row.status, rail[i], i \notin rough, FALSE)
      BY <1>r, <2>0, <2>3, <3>1, <3>2 DEF AnswerOK
    <3> QED  BY <1>0, <2>0, <2>3, <3>3 DEF Answer
  <2> QED  BY <2>2, <2>3 DEF TasksGoOn
<1>3. UndoneOK(db[i].status, rail[i])'
  <2>1. UndoneOK(row.status, rail[i])
    BY DEF UndoneOK, Money, Commits
  <2> QED  BY <1>0, <2>1
<1>4. ASSUME NEW r \in Reversers PROVE Reverser(i, r)'
  <2> SUFFICES ASSUME rev'[r].at # "idle", rev'[r].i = i  PROVE ReverserOK(rev'[r], row, rail[i])
    BY <1>0 DEF Reverser
  <2>1. CASE rev'[r] = rev[r]
    <3>1. ReverserOK(rev[r], db[i], rail[i])
      BY <2>1 DEF Money, Reverser
    <3>2. db[i].status \in Past
      BY <3>1 DEF ReverserOK
    <3>3. open[i] = "none"
      BY <3>2 DEF Inv, Good, TaskInv, Past, Reversing
    <3>4. row.n = db[i].n /\ row.ref = db[i].ref /\ row.status \in Past
      BY <3>2, <3>3 DEF Commits, Newest
    <3> QED  BY <2>1, <3>1, <3>4 DEF ReverserOK
  <2>2. CASE rev'[r].at = "calling" /\ rev'[r].ref = row.ref[row.n] /\ row.n > 0 /\ row.status \in Past
    BY <2>2 DEF ReverserOK
  <2> QED  BY <2>1, <2>2 DEF ReversersGoOn
<1>5. FollowOK(db[i], rail[i])'
  BY <1>0 DEF RowFollows
<1>6. Found(i)'
  <2> SUFFICES ASSUME i \notin rough, ~missing'[i]
               PROVE  FoundOK(row, FALSE, rail[i], sent[i]) /\ FailureOK(row, rail[i])
    BY <1>0 DEF Found
  <2>1. ~missing[i]
    BY DEF Commits
  <2>2. FoundOK(Newest(i), open[i] # "none", rail[i], sent[i])
    BY <2>1 DEF Money, Found
  <2>3. FoundOK(row, FALSE, rail[i], sent[i])
    BY <1>0, <2>2 DEF FoundOK
  <2> QED  BY <2>1, <2>3 DEF RowFollows
<1> QED  BY <1>1, <1>2, <1>3, <1>4, <1>5, <1>6 DEF Money

(* The rail moves a submission on; it undoes one only for an intent that is  *)
(* being reversed.                                                           *)
RailMoves(i) ==
    \A s \in 0..MaxSubmissions :
       \/ rail'[i][s] = rail[i][s]
       \/ rail[i][s] = "OPEN" /\ rail'[i][s] \in {"MOVED", "REFUSED"}
       \/ rail[i][s] = "OPEN" /\ rail'[i][s] = "CANCELLED" /\ db[i].status \in Past
       \/ rail[i][s] = "MOVED" /\ rail'[i][s] = "REVERSED" /\ db[i].status \in Past

(* A task is given an answer that is true of the rail.                       *)
Answered(i, t) ==
    AnswerOK(task'[i][t], Work(i, t), db[i].status, rail'[i], i \notin rough, open[i] = t)

(* So is a reverser.                                                         *)
ReverserHears(i, r) ==
    /\ rev[r].at # "idle" /\ rev[r].i = i /\ rev'[r].ref = rev[r].ref
    /\ rev'[r].res = "REVERSED" => rail'[i][rev[r].ref] \in Undone

RowsStay(i) ==
    /\ db'[i] = db[i] /\ draft'[i] = draft[i] /\ open'[i] = open[i] /\ sent'[i] = sent[i]
    /\ rough' = rough /\ (missing[i] => missing'[i])

(* Steps that write no row of the intent: the rail decides, answers arrive,  *)
(* a discrepancy is reported.                                                *)
LEMMA RailMoney ==
    ASSUME Inv, NEW i \in Intents, Money(i), RowsStay(i), RailMoves(i),
           \A t \in Tasks : task'[i][t] = task[i][t] \/ Answered(i, t),
           \A r \in Reversers : rev'[r].at # "idle" /\ rev'[r].i = i =>
                                   rev'[r] = rev[r] \/ ReverserHears(i, r)
    PROVE  Money(i)'
<1>n. /\ Newest(i)' = Newest(i) /\ (\A t : Work(i, t)' = Work(i, t)) /\ Newest(i) \in Rows
      /\ db'[i] = db[i] /\ db[i] \in Rows /\ open'[i] = open[i] /\ sent'[i] = sent[i]
      /\ rough' = rough /\ (missing[i] => missing'[i])
  BY IntentTypes DEF RowsStay, Newest, Work
<1>k. /\ \A s \in 0..MaxSubmissions : rail[i][s] = "REFUSED" => rail'[i][s] = "REFUSED"
      /\ \A s \in 0..MaxSubmissions : rail[i][s] \in Undone => rail'[i][s] \in Undone
      /\ \A s \in 0..MaxSubmissions :
            rail[i][s] \in {"MOVED", "REVERSED"} => rail'[i][s] \in {"MOVED", "REVERSED"}
      /\ \A s \in 0..MaxSubmissions : rail[i][s] = "UNUSED" => rail'[i][s] = "UNUSED"
  BY DEF RailMoves, Undone
<1>1. Refs(i)'
  <2>1. RefsOK(Newest(i), db[i], open[i] # "none", rail[i], sent[i])
    BY DEF Money, Refs
  <2>2. RefsOK(Newest(i), db[i], open[i] # "none", rail'[i], sent[i])
    BY <1>k, <1>n, <2>1, RowRefs DEF RefsOK
  <2> QED  BY <1>n, <2>2 DEF Refs
<1>2. ASSUME NEW t \in Tasks PROVE Answer(i, t)'
  <2>1. CASE Answered(i, t)
    BY <1>n, <2>1 DEF Answered, Answer
  <2>2. CASE task'[i][t] = task[i][t]
    <3>1. AnswerOK(task[i][t], Work(i, t), db[i].status, rail[i], i \notin rough, open[i] = t)
      BY DEF Money, Answer
    <3>2. Work(i, t).ref[task[i][t].k] \in 0..MaxSubmissions
      BY IntentTypes, RowRefs DEF TaskRecs
    <3>3. AnswerOK(task[i][t], Work(i, t), db[i].status, rail'[i], i \notin rough, open[i] = t)
      BY <1>k, <3>1, <3>2 DEF AnswerOK
    <3> QED  BY <1>n, <2>2, <3>3 DEF Answer
  <2> QED  BY <2>1, <2>2
<1>3. UndoneOK(db[i].status, rail[i])'
  <2>1. UndoneOK(db[i].status, rail'[i])
    BY DEF Money, UndoneOK, RailMoves
  <2> QED  BY <1>n, <2>1
<1>4. ASSUME NEW r \in Reversers PROVE Reverser(i, r)'
  <2> SUFFICES ASSUME rev'[r].at # "idle", rev'[r].i = i  PROVE ReverserOK(rev'[r], db[i], rail'[i])
    BY <1>n DEF Reverser
  <2>0. rev[r].ref \in 0..MaxSubmissions
    BY IntentTypes
  <2>1. CASE rev'[r] = rev[r]
    <3>1. ReverserOK(rev[r], db[i], rail[i])
      BY <2>1 DEF Money, Reverser
    <3> QED  BY <1>k, <2>0, <2>1, <3>1 DEF ReverserOK
  <2>2. CASE ReverserHears(i, r)
    <3>1. ReverserOK(rev[r], db[i], rail[i])
      BY <2>2 DEF Money, Reverser, ReverserHears
    <3> QED  BY <2>2, <3>1 DEF ReverserOK, ReverserHears
  <2> QED  BY <2>1, <2>2
<1>5. FollowOK(db[i], rail[i])'
  <2>1. /\ db[i].captured => db[i].n > 0 /\ db[i].status \notin Past
        /\ db[i].hold = "OPEN" => db[i].n > 0
    BY IntentTypes DEF RowInv, LatestIs, Past, Reversing
  <2>2. FollowOK(db[i], rail[i])
    BY DEF Money
  <2>3. db[i].captured => rail'[i][db[i].ref[db[i].n]] = "MOVED"
    BY <1>n, <2>1, <2>2, RowRefs DEF FollowOK, RailMoves
  <2>4. db[i].hold = "OPEN" => rail'[i][db[i].ref[db[i].n]] \in {"MOVED", "REVERSED"}
    BY <1>n, <1>k, <2>1, <2>2, RowRefs DEF FollowOK
  <2>5. FollowOK(db[i], rail'[i])
    BY <2>3, <2>4 DEF FollowOK
  <2> QED  BY <1>n, <2>5
<1>6. Found(i)'
  <2> SUFFICES ASSUME i \notin rough, ~missing[i]
               PROVE  FoundOK(Newest(i), open[i] # "none", rail'[i], sent[i]) /\ FailureOK(db[i], rail'[i])
    BY <1>n DEF Found
  <2>0. FoundOK(Newest(i), open[i] # "none", rail[i], sent[i]) /\ FailureOK(db[i], rail[i])
    BY DEF Money, Found
  <2>1. open[i] # "none" => Newest(i).n > 0
    BY IntentTypes DEF Newest
  <2>2. FoundOK(Newest(i), open[i] # "none", rail'[i], sent[i])
    BY <1>k, <1>n, <2>0, <2>1, RowRefs DEF FoundOK
  <2>3. FailureOK(db[i], rail'[i])
    BY <1>k, <1>n, <2>0, RowRefs DEF FailureOK
  <2> QED  BY <2>2, <2>3
<1> QED  BY <1>1, <1>2, <1>3, <1>4, <1>5, <1>6 DEF Money

(* An exception rolls the task's transaction back: the attempts of the       *)
(* transaction are lost, which a lost task or a reported discrepancy excuses. *)
LEMMA RollBackMoney ==
    ASSUME Inv, NEW i \in Intents, NEW t \in Tasks, Money(i), RollBack(i, t),
           open[i] = t => i \in rough \/ missing'[i],
           rail' = rail, sent' = sent, rough' = rough, rev' = rev, missing[i] => missing'[i]
    PROVE  Money(i)'
<1>0. /\ db' = db /\ task'[i] = [task[i] EXCEPT ![t] = IdleTask] /\ IdleTask.at = "idle"
      /\ open'[i] = (IF open[i] = t THEN "none" ELSE open[i]) /\ (open[i] # t => draft'[i] = draft[i])
      /\ task[i] \in [Tasks -> TaskRecs] /\ db[i] \in Rows /\ draft[i] \in Rows
  BY DEF RollBack, IdleTask, Inv, TypeOK, TaskRecs
<1>w. \A u \in Tasks : u # t => Work(i, u)' = Work(i, u)
  BY <1>0 DEF Work, Tasks
<1>n. open[i] # t => Newest(i)' = Newest(i) /\ open'[i] = open[i]
  BY <1>0 DEF Newest
<1>1. Refs(i)'
  <2>1. CASE open[i] # t
    BY <1>0, <1>n, <2>1 DEF Money, Refs
  <2>2. CASE open[i] = t
    <3>1. open[i] # "none" /\ open'[i] = "none" /\ Newest(i)' = db[i] /\ Newest(i) = draft[i]
      BY <1>0, <2>2 DEF Tasks, Newest
    <3>2. RefsOK(draft[i], db[i], TRUE, rail[i], sent[i])
      BY <3>1 DEF Money, Refs
    <3>3. \A k \in Numbers : k <= db[i].n => k <= draft[i].n /\ draft[i].ref[k] = db[i].ref[k]
      BY <1>0, <3>2, IntentsAssumption DEF RefsOK, Rows, Numbers
    <3>4. RefsOK(db[i], db[i], FALSE, rail[i], sent[i])
      BY <3>2, <3>3 DEF RefsOK
    <3> QED  BY <1>0, <3>1, <3>4 DEF Refs
  <2> QED  BY <2>1, <2>2
<1>2. ASSUME NEW u \in Tasks PROVE Answer(i, u)'
  <2>1. CASE u = t
    <3>1. task'[i][u].at = "idle" /\ ~(open'[i] = u)
      BY <1>0, <2>1 DEF Tasks
    <3>2. AnswerOK(task'[i][u], Work(i, u)', db'[i].status, rail'[i], i \notin rough', FALSE)
      BY <3>1 DEF AnswerOK
    <3> QED  BY <3>1, <3>2 DEF Answer
  <2>2. CASE u # t
    <3>1. task'[i][u] = task[i][u] /\ (open'[i] = u <=> open[i] = u)
      BY <1>0, <2>2 DEF Tasks
    <3> QED  BY <1>0, <1>w, <2>2, <3>1 DEF Answer, Money
  <2> QED  BY <2>1, <2>2
<1>3. /\ UndoneOK(db[i].status, rail[i])' /\ FollowOK(db[i], rail[i])'
      /\ \A r \in Reversers : Reverser(i, r)'
  BY <1>0 DEF Reverser, Money
<1>4. Found(i)'
  <2>1. CASE open[i] = t
    BY <2>1 DEF Found
  <2>2. CASE open[i] # t
    BY <1>0, <1>n, <2>2 DEF Found, Money
  <2> QED  BY <2>1, <2>2
<1> QED  BY <1>1, <1>2, <1>3, <1>4 DEF Money

(* What Put writes are the newest rows from then on.                         *)
LEMMA PutIsNewest ==
    ASSUME Inv, NEW i \in Intents, NEW t \in Tasks, CanWork(i, t), NEW new, Put(i, t, new)
    PROVE  /\ Newest(i)' = new /\ open' = open /\ Work(i, t)' = new
           /\ open[i] = t => db' = db
           /\ open[i] # t => open[i] = "none" /\ db'[i] = new
           /\ \A u \in Tasks : u # t /\ open[i] = t => Work(i, u)' = Work(i, u) /\ Work(i, u) = db[i]
           /\ \A u \in Tasks : u # t /\ open[i] # t => Work(i, u)' = new /\ Work(i, u) = db[i]
  BY DEF Put, CanWork, Newest, Work, Tasks, Inv, TypeOK

(* A new attempt takes a submission nobody has used.                         *)
LEMMA InsertMoney ==
    ASSUME Inv, NEW i \in Intents, NEW t \in Tasks, Money(i), InsertAttempt(i, t), rough' = rough
    PROVE  Money(i)'
<1> DEFINE k == task[i][t].k
           row == Newest(i)
           new == [row EXCEPT !.att[k] = "STARTED", !.ref[k] = sent[i] + 1, !.n = k, !.polls = 0]
<1>0. /\ task[i][t].at = "dispatch" /\ CanWork(i, t) /\ sent[i] < MaxSubmissions
      /\ sent'[i] = sent[i] + 1 /\ Put(i, t, new) /\ rail' = rail /\ rev' = rev /\ missing' = missing
      /\ task' = [task EXCEPT ![i][t].at = "submit"] /\ row \in Rows /\ sent[i] \in 0..MaxSubmissions
      /\ task[i] \in [Tasks -> TaskRecs] /\ k \in Numbers /\ db[i] \in Rows
  <2>1. CanWork(i, t)
    BY DEF InsertAttempt
  <2>2. Work(i, t) = row
    BY <2>1, WorkIsNewest
  <2>3. /\ row \in Rows /\ sent[i] \in 0..MaxSubmissions /\ db[i] \in Rows
        /\ task[i] \in [Tasks -> TaskRecs] /\ k \in Numbers
    BY IntentTypes DEF TaskRecs
  <2> HIDE DEF row
  <2>4. sent'[i] = sent[i] + 1
    BY DEF InsertAttempt, Inv, TypeOK
  <2>5. Put(i, t, new)
    BY <2>2 DEF InsertAttempt
  <2> QED  BY <2>1, <2>3, <2>4, <2>5 DEF InsertAttempt
<1>a. /\ row.n = k - 1 /\ k \in Nat /\ (open[i] # t => t = "request" /\ k = 1 /\ db[i].n = 0)
      /\ open[i] = t => row = draft[i] /\ row.att[row.n] = "AUTHORIZATION_FAILED" /\ row.n > 0
      /\ open[i] # t => row = db[i] /\ open[i] = "none" /\ task[i]["callback"].at = "idle"
  BY <1>0, IntentsAssumption DEF Inv, Good, TaskInv, CanWork, Newest, Tasks, Numbers
<1>b. /\ new.n = k /\ new.status = row.status /\ new.captured = row.captured /\ new.hold = row.hold
      /\ new.att[k] = "STARTED" /\ new.ref[k] = sent[i] + 1 /\ new.queued = row.queued
      /\ \A l \in Numbers : l # k => new.att[l] = row.att[l] /\ new.ref[l] = row.ref[l]
  BY <1>0 DEF Rows
<1>c. RowInv(row) /\ RowInv(db[i])
  BY IntentTypes
<1> HIDE DEF new, row, k
<1>p. /\ Newest(i)' = new /\ open' = open /\ Work(i, t)' = new
      /\ open[i] = t => db' = db
      /\ open[i] # t => open[i] = "none" /\ db'[i] = new
      /\ \A u \in Tasks : u # t /\ open[i] = t => Work(i, u)' = Work(i, u) /\ Work(i, u) = db[i]
  BY <1>0, PutIsNewest
<1>q. RefsOK(row, db[i], open[i] # "none", rail[i], sent[i])
  BY DEF Money, Refs, row
<1>1. Refs(i)'
  <2>1. \A l \in Numbers : l <= new.n => new.ref[l] \in 1..sent'[i]
    BY <1>0, <1>a, <1>b, <1>q DEF RefsOK, Numbers
  <2>2. \A s \in 0..MaxSubmissions : s > sent'[i] => rail[i][s] = "UNUSED"
    BY <1>0, <1>q DEF RefsOK
  <2>3. \A l \in Numbers : new.att[l] = "STARTED" => rail[i][new.ref[l]] = "UNUSED"
    <3>1. sent[i] + 1 \in 0..MaxSubmissions /\ sent[i] + 1 > sent[i]
      BY <1>0, IntentsAssumption
    <3>2. rail[i][new.ref[k]] = "UNUSED"
      BY <1>b, <1>q, <3>1 DEF RefsOK
    <3>3. \A l \in Numbers : row.att[l] = "STARTED" => rail[i][row.ref[l]] = "UNUSED"
      BY <1>q DEF RefsOK
    <3> QED  BY <1>b, <3>2, <3>3
  <2>4. open[i] = t => /\ db[i].n <= new.n
                       /\ \A l \in Numbers : l <= db[i].n => new.ref[l] = db[i].ref[l]
                       /\ \A l \in Numbers : db[i].att[l] # "STARTED"
    BY <1>0, <1>a, <1>b, <1>q DEF RefsOK, Numbers, Tasks, Rows
  <2>5. RefsOK(new, db'[i], open[i] # "none", rail[i], sent'[i])
    BY <1>p, <2>1, <2>2, <2>3, <2>4 DEF RefsOK, Tasks
  <2> QED  BY <1>0, <1>p, <2>5 DEF Refs
<1>s. db'[i].status = db[i].status /\ db'[i].captured = db[i].captured /\ db'[i].hold = db[i].hold
  BY <1>a, <1>b, <1>p
<1>2. ASSUME NEW u \in Tasks PROVE Answer(i, u)'
  <2>1. CASE u = t
    <3>1. task'[i][t].at = "submit" /\ task'[i][t].k = k
      BY <1>0 DEF k, Inv, TypeOK
    <3>2. AnswerOK(task'[i][t], new, db'[i].status, rail[i], i \notin rough, open[i] = t)
      <4>1. k <= new.n
        BY <1>a, <1>b
      <4> QED  BY <1>b, <3>1, <4>1 DEF AnswerOK
    <3> QED  BY <1>0, <1>p, <2>1, <3>2 DEF Answer
  <2>2. CASE u # t /\ open[i] = t
    <3>1. task'[i][u] = task[i][u]
      BY <1>0, <2>2
    <3> QED  BY <1>0, <1>p, <1>s, <2>2, <3>1 DEF Answer, Money
  <2>3. CASE u # t /\ open[i] # t
    <3>1. task'[i][u] = task[i][u] /\ task[i][u].at = "idle" /\ ~(open[i] = u)
      BY <1>0, <1>a, <2>3 DEF Tasks
    <3>2. AnswerOK(task'[i][u], Work(i, u)', db'[i].status, rail'[i], i \notin rough', FALSE)
      BY <3>1 DEF AnswerOK
    <3> QED  BY <1>p, <3>1, <3>2 DEF Answer
  <2> QED  BY <2>1, <2>2, <2>3
<1>3. UndoneOK(db[i].status, rail[i])'
  BY <1>0, <1>s DEF Money
<1>4. ASSUME NEW r \in Reversers PROVE Reverser(i, r)'
  <2>1. CASE open[i] = t
    BY <1>0, <1>p, <2>1 DEF Reverser, Money
  <2>2. CASE open[i] # t
    <3>1. ~(rev[r].at # "idle" /\ rev[r].i = i)
      BY <1>a, <2>2 DEF Inv, RevInv
    <3> QED  BY <1>0, <3>1 DEF Reverser
  <2> QED  BY <2>1, <2>2
<1>5. FollowOK(db[i], rail[i])'
  <2>1. CASE open[i] = t
    BY <1>0, <1>p, <2>1 DEF Money
  <2>2. CASE open[i] # t
    <3>1. ~db[i].captured /\ db[i].hold # "OPEN"
      BY <1>a, <1>c, <2>2 DEF RowInv, LatestIs
    <3>2. FollowOK(db'[i], rail'[i])
      BY <1>s, <3>1 DEF FollowOK
    <3> QED  BY <3>2
  <2> QED  BY <2>1, <2>2
<1>6. Found(i)'
  <2> SUFFICES ASSUME i \notin rough, ~missing[i]
               PROVE  FoundOK(new, open[i] # "none", rail[i], sent'[i]) /\ FailureOK(db'[i], rail[i])
    BY <1>0, <1>p DEF Found
  <2>0. FoundOK(row, open[i] # "none", rail[i], sent[i]) /\ FailureOK(db[i], rail[i])
    BY DEF Money, Found, row
  <2>1. \A s \in 1..sent'[i] : \E l \in Numbers : l <= new.n /\ new.ref[l] = s
    <3> SUFFICES ASSUME NEW s \in 1..sent'[i]  PROVE \E l \in Numbers : l <= new.n /\ new.ref[l] = s
      OBVIOUS
    <3>1. CASE s = sent[i] + 1
      BY <1>0, <1>a, <1>b, <3>1
    <3>2. CASE s # sent[i] + 1
      <4>1. s \in 1..sent[i]
        BY <1>0, <3>2
      <4>2. PICK l \in Numbers : l <= row.n /\ row.ref[l] = s
        BY <2>0, <4>1 DEF FoundOK
      <4> QED  BY <1>a, <1>b, <4>2 DEF Numbers
    <3> QED  BY <3>1, <3>2
  <2>2. \A l \in Numbers : l < new.n => rail[i][new.ref[l]] = "REFUSED"
    <3>1. \A l \in Numbers : l < k => l < row.n \/ (l = row.n /\ row.n > 0)
      BY <1>a DEF Numbers
    <3>2. row.n > 0 => open[i] = t
      BY <1>a
    <3>3. row.n > 0 => rail[i][row.ref[row.n]] = "REFUSED"
      BY <1>a, <2>0, <3>2 DEF FoundOK, Tasks
    <3>4. \A l \in Numbers : l < k => rail[i][row.ref[l]] = "REFUSED" /\ l # k
      BY <1>a, <2>0, <3>1, <3>3 DEF FoundOK, Numbers
    <3> QED  BY <1>b, <3>4
  <2>3. FoundOK(new, open[i] # "none", rail[i], sent'[i])
    BY <1>b, <2>1, <2>2 DEF FoundOK
  <2>4. FailureOK(db'[i], rail[i])
    <3>1. CASE open[i] = t
      BY <1>p, <2>0, <3>1
    <3>2. CASE open[i] # t
      <4>1. db[i].status \notin {"FAILED", "REVERSED"}
        BY <1>0 DEF Money, Answer, AnswerOK
      <4> QED  BY <1>s, <4>1 DEF FailureOK
    <3> QED  BY <3>1, <3>2
  <2> QED  BY <2>3, <2>4
<1> QED  BY <1>1, <1>2, <1>3, <1>4, <1>5, <1>6 DEF Money

(* The submission of a new attempt is opened on the rail.                    *)
LEMMA SubmitMoney ==
    ASSUME Inv, NEW i \in Intents, NEW t \in Tasks, Money(i), Submit(i, t), rough' = rough
    PROVE  Money(i)'
<1> DEFINE k == task[i][t].k
           row == Newest(i)
           ref == row.ref[k]
           new == [row EXCEPT !.att[k] = "AUTHORIZATION_PENDING"]
<1>0. /\ task[i][t].at = "submit" /\ CanWork(i, t) /\ row.att[k] = "STARTED" /\ row \in Rows
      /\ sent' = sent /\ Put(i, t, new) /\ rev' = rev /\ missing' = missing
      /\ rail'[i] = [rail[i] EXCEPT ![ref] = "OPEN"] /\ rail[i] \in [0..MaxSubmissions -> RailStates]
      /\ task' = [task EXCEPT ![i][t].at = "wait"]
      /\ task[i] \in [Tasks -> TaskRecs] /\ k \in Numbers /\ db[i] \in Rows
  <2>1. CanWork(i, t)
    BY DEF Submit
  <2>2. Work(i, t) = row
    BY <2>1, WorkIsNewest
  <2>3. /\ row \in Rows /\ db[i] \in Rows /\ rail[i] \in [0..MaxSubmissions -> RailStates]
        /\ task[i] \in [Tasks -> TaskRecs] /\ k \in Numbers
    BY IntentTypes DEF TaskRecs
  <2> HIDE DEF row
  <2>4. row.att[k] = "STARTED"
    BY <2>2, AttemptRules DEF Submit
  <2>5. Put(i, t, new)
    BY <2>2 DEF Submit
  <2>6. rail'[i] = [rail[i] EXCEPT ![ref] = "OPEN"]
    BY <2>2 DEF Submit, Inv, TypeOK
  <2> QED  BY <2>1, <2>3, <2>4, <2>5, <2>6 DEF Submit
<1>c. RowInv(row)
  BY IntentTypes
<1>a. k = row.n /\ row.n > 0 /\ ref \in 0..MaxSubmissions
  <2>1. row.att[k] \notin {"AUTHORIZATION_FAILED", "ABSENT"}
    BY <1>0
  <2>2. k = row.n /\ row.n > 0
    BY <1>0, <1>c, <2>1, LiveIsLatest
  <2> QED  BY <1>0, <2>2, RowRefs
<1>b. /\ new.n = row.n /\ new.ref = row.ref /\ new.status = row.status /\ new.captured = row.captured
      /\ new.hold = row.hold /\ new.queued = row.queued /\ new.att[k] = "AUTHORIZATION_PENDING"
      /\ \A l \in Numbers : l # k => new.att[l] = row.att[l]
  BY <1>0 DEF Rows
<1>d. \A l \in Numbers : new.att[l] # "STARTED"
  BY <1>0, <1>a, <1>b, <1>c DEF RowInv, Numbers, Rows
<1> HIDE DEF new, row, k, ref
<1>p. /\ Newest(i)' = new /\ open' = open /\ Work(i, t)' = new
      /\ open[i] = t => db' = db
      /\ open[i] # t => open[i] = "none" /\ db'[i] = new /\ row = db[i]
      /\ \A u \in Tasks : u # t /\ open[i] = t => Work(i, u)' = Work(i, u) /\ Work(i, u) = db[i]
      /\ \A u \in Tasks : u # t /\ open[i] # t => Work(i, u)' = new /\ Work(i, u) = db[i]
  BY <1>0, PutIsNewest DEF row, Newest
<1>q. RefsOK(row, db[i], open[i] # "none", rail[i], sent[i])
  BY DEF Money, Refs, row
<1>u. rail[i][ref] = "UNUSED" /\ \A s \in 0..MaxSubmissions : s # ref => rail'[i][s] = rail[i][s]
  BY <1>0, <1>q DEF RefsOK, ref
<1>v. \A s \in 0..MaxSubmissions : rail[i][s] # "UNUSED" => rail'[i][s] = rail[i][s]
  BY <1>u
<1>1. Refs(i)'
  <2>1. \A l \in Numbers : l <= new.n => new.ref[l] \in 1..sent[i]
    BY <1>b, <1>q DEF RefsOK
  <2>2. \A s \in 0..MaxSubmissions : s > sent[i] => rail'[i][s] = "UNUSED"
    <3>1. ref \in 1..sent[i]
      BY <1>0, <1>a, <1>q DEF RefsOK, ref, Numbers
    <3>2. sent[i] \in Nat
      BY IntentTypes
    <3> QED  BY <1>q, <1>u, <3>1, <3>2 DEF RefsOK
  <2>3. open[i] = t => /\ db[i].n <= new.n
                       /\ \A l \in Numbers : l <= db[i].n => new.ref[l] = db[i].ref[l]
                       /\ \A l \in Numbers : db[i].att[l] # "STARTED"
    BY <1>b, <1>q DEF RefsOK, Tasks
  <2>4. RefsOK(new, db'[i], open[i] # "none", rail'[i], sent[i])
    BY <1>d, <1>p, <2>1, <2>2, <2>3 DEF RefsOK, Tasks
  <2> QED  BY <1>0, <1>p, <2>4 DEF Refs
<1>s. /\ db'[i].status = db[i].status /\ db'[i].captured = db[i].captured /\ db'[i].hold = db[i].hold
      /\ db'[i].n = db[i].n /\ db'[i].ref = db[i].ref /\ db'[i].queued = db[i].queued
  BY <1>b, <1>p
<1>2. ASSUME NEW u \in Tasks PROVE Answer(i, u)'
  <2>0. AnswerOK(task[i][u], Work(i, u), db[i].status, rail[i], i \notin rough, open[i] = u)
    BY DEF Money, Answer
  <2>1. CASE u = t
    <3>1. task'[i][t].at = "wait" /\ task'[i][t].k = k /\ k <= row.n
      BY <1>0, <1>a, <1>b DEF k, Inv, TypeOK, Numbers
    <3>2. AnswerOK(task'[i][t], new, db'[i].status, rail'[i], i \notin rough, open[i] = t)
      BY <1>b, <3>1 DEF AnswerOK
    <3> QED  BY <1>0, <1>p, <2>1, <3>2 DEF Answer
  <2>2. CASE u # t
    <3>1. task'[i][u] = task[i][u] /\ task[i][u].k \in Numbers /\ Work(i, u) = db[i] /\ ~(open[i] = u)
      BY <1>0, <1>p, <2>2 DEF TaskRecs, CanWork, Tasks
    <3>2. Work(i, u)'.n = db[i].n /\ Work(i, u)'.ref = db[i].ref
      BY <1>b, <1>p, <2>2
    <3>3. db[i].ref[task[i][u].k] \in 0..MaxSubmissions
      BY <1>0, <3>1, RowRefs
    <3>4. AnswerOK(task[i][u], Work(i, u)', db[i].status, rail'[i], i \notin rough, FALSE)
      BY <1>v, <2>0, <3>1, <3>2, <3>3 DEF AnswerOK
    <3> QED  BY <1>p, <1>s, <3>1, <3>4 DEF Answer
  <2> QED  BY <2>1, <2>2
<1>3. UndoneOK(db[i].status, rail[i])'
  <2>1. UndoneOK(db[i].status, rail'[i])
    BY <1>0, <1>u DEF Money, UndoneOK
  <2> QED  BY <1>s, <2>1
<1>4. ASSUME NEW r \in Reversers PROVE Reverser(i, r)'
  <2> SUFFICES ASSUME rev[r].at # "idle", rev[r].i = i  PROVE ReverserOK(rev[r], db'[i], rail'[i])
    BY <1>0 DEF Reverser
  <2>1. ReverserOK(rev[r], db[i], rail[i]) /\ rev[r].ref \in 0..MaxSubmissions
    BY IntentTypes DEF Money, Reverser
  <2> QED  BY <1>s, <1>v, <2>1 DEF ReverserOK, Undone
<1>5. FollowOK(db[i], rail[i])'
  <2>1. FollowOK(db[i], rail[i]) /\ RowInv(db[i])
    BY IntentTypes DEF Money
  <2>2. (db[i].captured \/ db[i].hold = "OPEN") => db[i].ref[db[i].n] \in 0..MaxSubmissions
    BY <1>0, <2>1, RowRefs DEF RowInv, LatestIs
  <2>3. FollowOK(db'[i], rail'[i])
    BY <1>s, <1>v, <2>1, <2>2 DEF FollowOK
  <2> QED  BY <2>3
<1>6. Found(i)'
  <2> SUFFICES ASSUME i \notin rough, ~missing[i]
               PROVE  FoundOK(new, open[i] # "none", rail'[i], sent[i]) /\ FailureOK(db'[i], rail'[i])
    BY <1>0, <1>p DEF Found
  <2>0. FoundOK(row, open[i] # "none", rail[i], sent[i]) /\ FailureOK(db[i], rail[i])
    BY DEF Money, Found, row
  <2>1. \A l \in Numbers : l < row.n => rail'[i][row.ref[l]] = "REFUSED"
    BY <1>0, <1>v, <2>0, RowRefs DEF FoundOK
  <2>2. FoundOK(new, open[i] # "none", rail'[i], sent[i])
    BY <1>a, <1>b, <2>0, <2>1 DEF FoundOK
  <2>3. FailureOK(db[i], rail'[i])
    BY <1>0, <1>v, <2>0, RowRefs DEF FailureOK, Undone
  <2>4. FailureOK(db'[i], rail'[i])
    BY <1>s, <2>3 DEF FailureOK
  <2> QED  BY <2>2, <2>4
<1> QED  BY <1>1, <1>2, <1>3, <1>4, <1>5, <1>6 DEF Money

(* A refused attempt is recorded as failed in the transaction that retries.  *)
LEMMA RetryMoney ==
    ASSUME Inv, NEW i \in Intents, NEW t \in Tasks, Money(i), ApplyRetryable(i, t), rough' = rough
    PROVE  Money(i)'
<1> DEFINE k == task[i][t].k
           row == Newest(i)
           new == [row EXCEPT !.att[k] = "AUTHORIZATION_FAILED"]
<1>0. /\ task[i][t].at = "apply" /\ task[i][t].res \in Retryable /\ CanWork(i, t) /\ row \in Rows
      /\ row.att[k] = "AUTHORIZATION_PENDING" /\ row.status = "PROCESSING"
      /\ Work(i, t) = row /\ draft'[i] = new /\ open'[i] = t
      /\ task'[i][t].at = "dispatch" /\ (\A u \in Tasks : u # t => task'[i][u] = task[i][u])
      /\ db' = db /\ rail' = rail /\ sent' = sent /\ rev' = rev /\ missing' = missing
      /\ task[i] \in [Tasks -> TaskRecs] /\ k \in Numbers /\ db[i] \in Rows
  <2>1. CanWork(i, t)
    BY DEF ApplyRetryable, Applying
  <2>2. Work(i, t) = row
    BY <2>1, WorkIsNewest
  <2>3. row \in Rows /\ db[i] \in Rows /\ task[i] \in [Tasks -> TaskRecs] /\ k \in Numbers
    BY IntentTypes DEF TaskRecs
  <2> HIDE DEF row
  <2>4. row.att[k] = "AUTHORIZATION_PENDING" /\ row.status = "PROCESSING"
    BY <2>2, AttemptRules, RailRulesFrom DEF ApplyRetryable
  <2>5. draft'[i] = new /\ open'[i] = t
    BY <2>2 DEF ApplyRetryable, Inv, TypeOK
  <2>6. task'[i][t].at = "dispatch" /\ (\A u \in Tasks : u # t => task'[i][u] = task[i][u])
    BY <2>3 DEF ApplyRetryable, Spawn, Inv, TypeOK
  <2> QED  BY <2>1, <2>2, <2>3, <2>4, <2>5, <2>6 DEF ApplyRetryable, Applying
<1>c. RowInv(row)
  BY IntentTypes
<1>a. k = row.n /\ row.n > 0
  <2>1. row.att[k] \notin {"AUTHORIZATION_FAILED", "ABSENT"}
    BY <1>0
  <2> QED  BY <1>0, <1>c, <2>1, LiveIsLatest
<1>b. /\ new.n = row.n /\ new.ref = row.ref
      /\ \A l \in Numbers : new.att[l] = "STARTED" => row.att[l] = "STARTED"
  BY <1>0 DEF Rows
<1>d. \A l \in Numbers : row.att[l] # "STARTED"
  <2>1. /\ k \in Nat /\ row.n \in Nat /\ row.att[row.n] = "AUTHORIZATION_PENDING"
        /\ \A l \in Numbers : /\ l < row.n => row.att[l] = "AUTHORIZATION_FAILED"
                              /\ l > row.n => row.att[l] = "ABSENT"
    BY <1>0, <1>a, <1>c DEF RowInv, Numbers, Rows
  <2> TAKE l \in Numbers
  <2>2. l < row.n \/ l = row.n \/ l > row.n
    BY <2>1, IntentsAssumption DEF Numbers
  <2> HIDE DEF row
  <2> QED  BY <2>1, <2>2
<1>e. open[i] # t => row = db[i] /\ open[i] = "none"
  BY <1>0 DEF Newest, CanWork
<1> HIDE DEF new, row, k
<1>p. /\ Newest(i)' = new /\ t # "none" /\ \A u \in Tasks : u # t => Work(i, u)' = db[i] /\ Work(i, u) = db[i]
  BY <1>0 DEF Newest, Work, Tasks, CanWork
<1>q. RefsOK(row, db[i], open[i] # "none", rail[i], sent[i])
  BY DEF Money, Refs, row
<1>1. Refs(i)'
  <2>1. /\ db[i].n <= row.n
        /\ \A l \in Numbers : l <= db[i].n => row.ref[l] = db[i].ref[l]
        /\ \A l \in Numbers : db[i].att[l] # "STARTED"
    <3>1. CASE open[i] = t
      BY <1>q, <3>1 DEF RefsOK, Tasks
    <3>2. CASE open[i] # t
      BY <1>0, <1>d, <1>e, <3>2, IntentsAssumption DEF Rows
    <3> QED  BY <3>1, <3>2
  <2>2. RefsOK(new, db[i], TRUE, rail[i], sent[i])
    BY <1>b, <1>q, <2>1 DEF RefsOK
  <2> QED  BY <1>0, <1>p, <2>2 DEF Refs
<1>2. ASSUME NEW u \in Tasks PROVE Answer(i, u)'
  <2>1. CASE u = t
    <3>1. db[i].status = "PROCESSING"
      <4>1. CASE open[i] = t
        BY <4>1 DEF Inv, Good, TaskInv, Tasks
      <4>2. CASE open[i] # t
        BY <1>0, <1>e, <4>2
      <4> QED  BY <4>1, <4>2
    <3>2. AnswerOK(task'[i][t], Work(i, t)', db[i].status, rail[i], i \notin rough, TRUE)
      BY <1>0, <3>1 DEF AnswerOK
    <3> QED  BY <1>0, <2>1, <3>2 DEF Answer
  <2>2. CASE u # t
    <3>1. AnswerOK(task[i][u], db[i], db[i].status, rail[i], i \notin rough, open[i] = u)
      BY <1>p, <2>2 DEF Money, Answer
    <3>2. AnswerOK(task[i][u], db[i], db[i].status, rail[i], i \notin rough, FALSE)
      BY <3>1 DEF AnswerOK
    <3> QED  BY <1>0, <1>p, <2>2, <3>2 DEF Answer
  <2> QED  BY <2>1, <2>2
<1>3. /\ UndoneOK(db[i].status, rail[i])' /\ FollowOK(db[i], rail[i])'
      /\ \A r \in Reversers : Reverser(i, r)'
  BY <1>0 DEF Reverser, Money
<1>4. Found(i)'
  <2> SUFFICES ASSUME i \notin rough, ~missing[i]
               PROVE  FoundOK(new, TRUE, rail[i], sent[i]) /\ FailureOK(db[i], rail[i])
    BY <1>0, <1>p DEF Found
  <2>0. FoundOK(row, open[i] # "none", rail[i], sent[i]) /\ FailureOK(db[i], rail[i])
    BY DEF Money, Found, row
  <2>1. AnswerOK(task[i][t], row, db[i].status, rail[i], TRUE, open[i] = t)
    BY <1>0 DEF Money, Answer
  <2>2. rail[i][row.ref[k]] = "REFUSED"
    BY <1>0, <2>1 DEF AnswerOK, Retryable, k
  <2>3. FoundOK(new, TRUE, rail[i], sent[i])
    BY <1>a, <1>b, <2>0, <2>2 DEF FoundOK
  <2> QED  BY <2>0, <2>3
<1> QED  BY <1>1, <1>2, <1>3, <1>4 DEF Money
-----------------------------------------------------------------------------
(* A step that commits `row' for one intent.                                 *)
Writes(i, row) ==
    /\ db' = [db EXCEPT ![i] = row] /\ open'[i] = "none"
    /\ \A j \in Intents : j # i => draft'[j] = draft[j] /\ open'[j] = open[j] /\ task'[j] = task[j]
    /\ rail' = rail /\ sent' = sent /\ rough' = rough /\ missing' = missing
    /\ \A r \in Reversers : rev'[r].at # "idle" /\ rev'[r].i # i => rev'[r] = rev[r]

(* The attempts of `row' are those of the newest rows.                       *)
SameAttempts(i, row) ==
    /\ row.n = Newest(i).n /\ row.ref = Newest(i).ref
    /\ \A k \in Numbers : row.att[k] = "STARTED" => Newest(i).att[k] = "STARTED"
    /\ db[i].status \in Past => row.status \in Past

(* Such a step keeps MoneyInv.                                               *)
LEMMA WriteMoney ==
    ASSUME Inv, MoneyInv, NEW i \in Intents, NEW row, Writes(i, row), SameAttempts(i, row),
           RowFollows(i, row), TasksGoOn(i, row), ReversersGoOn(i, row)
    PROVE  MoneyInv'
<1>1. Commits(i, row)
  BY DEF Writes, SameAttempts, Commits, Inv, TypeOK
<1>2. Money(i)'
  BY <1>1, CommitMoney DEF MoneyInv
<1>3. ASSUME NEW j \in Intents, j # i PROVE Money(j)'
  <2>1. Still(j)
    BY <1>3 DEF Still, Writes, Inv, TypeOK
  <2> QED  BY <2>1, StillMoney DEF MoneyInv, Writes
<1> QED  BY <1>2, <1>3 DEF MoneyInv

(* Without an open transaction, only the first dispatch of an intent without *)
(* attempts can be under way.                                                *)
LEMMA FreeTasks ==
    ASSUME Inv, NEW i \in Intents, Free(i), task'[i] = task[i], NEW row,
           row.status \in {"FAILED", "REVERSED"} => db[i].n > 0 \/ db[i].status \in Early
    PROVE  TasksGoOn(i, row)
<1>1. ASSUME NEW t \in Tasks, task[i][t].at = "dispatch"  PROVE row.status \notin {"FAILED", "REVERSED"}
  <2>1. db[i].n = 0 /\ db[i].status \notin Early
    BY <1>1 DEF Inv, Good, TaskInv, Free, Tasks
  <2> QED  BY <2>1
<1>2. \A t \in Tasks : open[i] # t
  BY DEF Free, Tasks
<1> QED  BY <1>1, <1>2 DEF TasksGoOn

(* A transaction of a merchant, a poll or the clock.                         *)
LEMMA CalmMoney ==
    ASSUME Inv, MoneyInv, NEW i \in Intents, NEW row, Commit(i, row), task' = task, rev' = rev,
           rail' = rail, sent' = sent, missing' = missing, rough' = rough,
           row.n = db[i].n, row.ref = db[i].ref,
           \A k \in Numbers : row.att[k] = "STARTED" => db[i].att[k] = "STARTED",
           db[i].status \in Past => row.status \in Past,
           row.status \in {"FAILED", "REVERSED"} => db[i].n > 0 \/ db[i].status \in Early,
           RowFollows(i, row)
    PROVE  MoneyInv'
<1>1. Writes(i, row)
  BY DEF Commit, Free, Writes
<1>2. SameAttempts(i, row)
  BY DEF SameAttempts, Commit, Free, Newest
<1>3. TasksGoOn(i, row)
  BY FreeTasks DEF Commit
<1>4. ReversersGoOn(i, row)
  BY DEF ReversersGoOn
<1> QED  BY <1>1, <1>2, <1>3, <1>4, WriteMoney

(* A change of status alone.                                                 *)
LEMMA StatusFollows ==
    ASSUME Inv, MoneyInv, NEW i \in Intents, NEW to,
           to \in {"FAILED", "REVERSED"} => db[i].n = 0
    PROVE  LET row == [db[i] EXCEPT !.status = to]
           IN  /\ RowFollows(i, row) /\ row.status = to
               /\ row.n = db[i].n /\ row.ref = db[i].ref /\ row.att = db[i].att
<1> DEFINE row == [db[i] EXCEPT !.status = to]
<1>1. /\ row.status = to /\ row.n = db[i].n /\ row.ref = db[i].ref /\ row.att = db[i].att
      /\ row.captured = db[i].captured /\ row.hold = db[i].hold
  BY IntentTypes DEF Rows
<1> HIDE DEF row
<1>2. FollowOK(row, rail[i])
  BY <1>1 DEF MoneyInv, Money, FollowOK
<1>3. FailureOK(row, rail[i])
  BY <1>1 DEF FailureOK
<1> QED  BY <1>1, <1>2, <1>3 DEF RowFollows, row

(* Pre-flight, passed or not.                                                *)
LEMMA EarlyMoney ==
    ASSUME Inv, MoneyInv, NEW i \in Intents, NEW to, Commit(i, [db[i] EXCEPT !.status = to]),
           db[i].status \in Early,
           task' = task \/ (Spawn(i, "request", 1) /\ to = "PROCESSING"),
           rev' = rev, rail' = rail, sent' = sent, missing' = missing, rough' = rough
    PROVE  MoneyInv'
<1> DEFINE row == [db[i] EXCEPT !.status = to]
<1>e. db[i].n = 0 /\ db[i].status \notin Past /\ \A t \in Tasks : task[i][t].at = "idle"
  BY DEF Inv, Good, RowInv, TaskInv, Early, Past, Reversing
<1>1. /\ RowFollows(i, row) /\ row.status = to
      /\ row.n = db[i].n /\ row.ref = db[i].ref /\ row.att = db[i].att
  BY <1>e, StatusFollows
<1>2. Commit(i, row)
  OBVIOUS
<1> HIDE DEF row
<1>3. CASE task' = task
  <2>1. db[i].status \in Past => row.status \in Past
    BY <1>e
  <2> QED  BY <1>1, <1>2, <1>3, <2>1, CalmMoney
<1>4. CASE Spawn(i, "request", 1) /\ to = "PROCESSING"
  <2>1. Writes(i, row)
    BY <1>2, <1>4 DEF Commit, Free, Writes, Spawn, Inv, TypeOK
  <2>2. SameAttempts(i, row)
    BY <1>1, <1>2, <1>e DEF SameAttempts, Commit, Free, Newest
  <2>3. TasksGoOn(i, row)
    <3>1. /\ task'[i]["request"].at = "dispatch"
          /\ \A t \in Tasks : t # "request" => task'[i][t] = task[i][t]
      BY <1>4 DEF Spawn, Inv, TypeOK, Tasks
    <3> QED  BY <1>1, <1>4, <1>e, <3>1 DEF TasksGoOn, Tasks
  <2>4. ReversersGoOn(i, row)
    BY DEF ReversersGoOn
  <2> QED  BY <1>1, <2>1, <2>2, <2>3, <2>4, WriteMoney
<1> QED  BY <1>3, <1>4

(* A step that writes no rows, for one intent.                               *)
LEMMA QuietMoney ==
    ASSUME Inv, MoneyInv, NEW i \in Intents, RowsStay(i), RailMoves(i),
           \A t \in Tasks : task'[i][t] = task[i][t] \/ Answered(i, t),
           \A r \in Reversers : rev'[r].at # "idle" =>
               \/ rev'[r] = rev[r]
               \/ rev'[r].i = i /\ ReverserHears(i, r),
           \A j \in Intents : j # i =>
               /\ db'[j] = db[j] /\ draft'[j] = draft[j] /\ open'[j] = open[j] /\ task'[j] = task[j]
               /\ rail'[j] = rail[j] /\ sent'[j] = sent[j] /\ missing'[j] = missing[j]
    PROVE  MoneyInv'
<1>1. Money(i)'
  BY RailMoney DEF MoneyInv
<1>2. ASSUME NEW j \in Intents, j # i PROVE Money(j)'
  <2>1. Still(j)
    BY <1>2 DEF Still
  <2> QED  BY <2>1, StillMoney DEF MoneyInv, RowsStay
<1> QED  BY <1>1, <1>2 DEF MoneyInv

(* What an answer of the rail says of the submission.                        *)
LEMMA ReportsSay ==
    ASSUME NEW s \in RailStates
    PROVE  /\ "SUCCESS" \in Reports(s) => s \in {"MOVED", "REVERSED"}
           /\ \A res \in {"REJECTED", "FAILED"} : res \in Reports(s) => s = "REFUSED"
           /\ \A res \in {"CIRCUIT_OPEN", "TIMED_OUT"} : res \notin Reports(s)
<1>1. /\ Reports("UNUSED") = {} /\ Reports("OPEN") = {"PENDING"}
      /\ Reports("MOVED") = {"PENDING", "SUCCESS"}
      /\ Reports("REFUSED") = {"PENDING", "FAILED", "REJECTED"}
      /\ Reports("REVERSED") = {"PENDING", "SUCCESS", "REVERSED"}
      /\ Reports("CANCELLED") = {"PENDING", "REVERSED"}
  BY DEF Reports
<1> QED  BY <1>1 DEF RailStates

(* Nothing moved is undone while the intent is not being reversed.           *)
LEMMA StillMoved ==
    ASSUME Inv, MoneyInv, NEW i \in Intents, NEW s \in 0..MaxSubmissions,
           rail[i][s] \in {"MOVED", "REVERSED"}, db[i].status \notin Past
    PROVE  rail[i][s] = "MOVED"
  BY DEF MoneyInv, Money, UndoneOK

(* The rows of a PROCESSING intent post nothing.                             *)
LEMMA ProcessingRow ==
    ASSUME NEW row, RowInv(row), row.status = "PROCESSING"
    PROVE  ~row.captured /\ row.hold # "OPEN"
  BY DEF RowInv, Reversing

(* The capture or the hold follows the rail.                                 *)
LEMMA ChargedFollows ==
    ASSUME NEW i, NEW k \in Numbers, NEW row, RowInv(row), k = row.n, NEW new,
           new.n = row.n, new.ref = row.ref, rail[i][row.ref[k]] = "MOVED",
           new.status \notin {"FAILED", "REVERSED"}
    PROVE  RowFollows(i, new)
  BY DEF RowFollows, FollowOK, FailureOK

(* The steps of a merchant.                                                  *)
LEMMA MerchantMoney ==
    ASSUME Inv, MoneyInv, NEW i \in Intents, Merchant(i), rough' = rough
    PROVE  MoneyInv'
<1>0. RowInv(db[i]) /\ db[i] \in Rows
  BY IntentTypes
<1>1. CASE CreateIntent(i) \/ SupplyMethod(i) \/ Cancel(i)
  <2>1. PICK to : /\ Commit(i, [db[i] EXCEPT !.status = to]) /\ task' = task
                  /\ rev' = rev /\ rail' = rail /\ sent' = sent /\ missing' = missing
                  /\ db[i].status \in Early
    <3>1. CASE CreateIntent(i)
      BY <3>1 DEF CreateIntent, Early
    <3>2. CASE SupplyMethod(i)
      BY <3>2, IntentRules DEF SupplyMethod, Early
    <3>3. CASE Cancel(i)
      BY <3>3, IntentRules DEF Cancel
    <3> QED  BY <1>1, <3>1, <3>2, <3>3
  <2> QED  BY <2>1, EarlyMoney
<1>2. ASSUME NEW trigger \in {"preflight_passed", "action_required", "aml_block"}, Confirm(i, trigger)
      PROVE  MoneyInv'
  <2>1. PICK to : /\ IntentMove(db[i], "confirm", "PRE_FLIGHT")
                  /\ Resolves(INTENT_TABLE, "PRE_FLIGHT", trigger, to)
                  /\ Commit(i, [db[i] EXCEPT !.status = to])
                  /\ IF trigger = "preflight_passed" THEN Spawn(i, "request", 1) ELSE task' = task
                  /\ rev' = rev /\ rail' = rail /\ sent' = sent /\ missing' = missing
    BY <1>2 DEF Confirm
  <2>2. db[i].status \in Early
    BY <2>1, IntentRules DEF Early
  <2>3. trigger = "preflight_passed" => to = "PROCESSING"
    BY <2>1, PreFlightRules
  <2> QED  BY <2>1, <2>2, <2>3, EarlyMoney
<1>3. ASSUME NEW trigger \in {"action_completed", "action_failed"}, CompleteAction(i, trigger)
      PROVE  MoneyInv'
  <2>1. PICK to : /\ IntentMove(db[i], trigger, to)
                  /\ Commit(i, [db[i] EXCEPT !.status = to])
                  /\ IF trigger = "action_completed" THEN Spawn(i, "request", 1) ELSE task' = task
                  /\ rev' = rev /\ rail' = rail /\ sent' = sent /\ missing' = missing
    BY <1>3 DEF CompleteAction
  <2>2. db[i].status \in Early /\ (trigger = "action_completed" => to = "PROCESSING")
    BY <2>1, IntentRules DEF Early
  <2> QED  BY <2>1, <2>2, EarlyMoney
<1>4. CASE Void(i)
  <2> DEFINE row == [Voided(db[i]) EXCEPT !.status = "CANCELLED"]
  <2>1. /\ db[i].status = "REQUIRES_CAPTURE" /\ Commit(i, row) /\ task' = task
        /\ rev' = rev /\ rail' = rail /\ sent' = sent /\ missing' = missing
    BY <1>4, IntentRules DEF Void
  <2>2. LatestIs(db[i], "AUTHORIZED") /\ ~db[i].captured /\ db[i].n \in Numbers
    BY <1>0, <2>1, RowRefs DEF RowInv, LatestIs
  <2>3. Voided(db[i]) = [db[i] EXCEPT !.hold = "VOIDED", !.att[db[i].n] = "VOIDED"]
    BY <2>2 DEF Voided, LatestIs
  <2>4. /\ row.n = db[i].n /\ row.ref = db[i].ref /\ ~row.captured /\ row.hold = "VOIDED"
        /\ row.status = "CANCELLED"
        /\ \A k \in Numbers : row.att[k] = "STARTED" => db[i].att[k] = "STARTED"
    BY <1>0, <2>2, <2>3 DEF Rows
  <2> HIDE DEF row
  <2>5. RowFollows(i, row)
    BY <2>4 DEF RowFollows, FollowOK, FailureOK
  <2>6. db[i].status \notin Past
    BY <2>1 DEF Past, Reversing
  <2> QED  BY <2>1, <2>4, <2>5, <2>6, CalmMoney
<1>5. CASE Capture(i)
  <2> DEFINE row == [Charged(db[i], db[i].n) EXCEPT !.hold = "CAPTURED"]
  <2>1. /\ db[i].status = "REQUIRES_CAPTURE" /\ db[i].n > 0 /\ db[i].hold = "OPEN"
        /\ Commit(i, row) /\ task' = task
        /\ rev' = rev /\ rail' = rail /\ sent' = sent /\ missing' = missing
    BY <1>5, IntentRules DEF Capture
  <2>2. db[i].n \in Numbers /\ db[i].ref[db[i].n] \in 0..MaxSubmissions /\ db[i].status \notin Past
    BY <1>0, <2>1, RowRefs DEF Past, Reversing
  <2>3. rail[i][db[i].ref[db[i].n]] = "MOVED"
    BY <2>1, <2>2, StillMoved DEF MoneyInv, Money, FollowOK
  <2>4. /\ row.n = db[i].n /\ row.ref = db[i].ref /\ row.status = "SUCCEEDED"
        /\ \A k \in Numbers : row.att[k] = "STARTED" => db[i].att[k] = "STARTED"
    BY <1>0, <2>2 DEF Rows, Charged
  <2> HIDE DEF row
  <2>5. RowFollows(i, row)
    BY <1>0, <2>2, <2>3, <2>4, ChargedFollows
  <2> QED  BY <2>1, <2>2, <2>4, <2>5, CalmMoney
<1>6. CASE CapturePostFails(i)
  <2>1. /\ missing'[i] /\ \A j \in Intents : j # i => missing'[j] = missing[j]
        /\ UNCHANGED <<db, draft, open, task, rail, sent, rev>>
    BY <1>6 DEF CapturePostFails, Inv, TypeOK
  <2> QED  BY <2>1, QuietMoney DEF RowsStay, RailMoves
<1> QED  BY <1>1, <1>2, <1>3, <1>4, <1>5, <1>6 DEF Merchant

(* Callbacks and status polls.                                               *)
LEMMA InboundMoney ==
    ASSUME Inv, MoneyInv, NEW i \in Intents, NEW k \in Numbers, Inbound(i, k), rough' = rough
    PROVE  MoneyInv'
<1>0. /\ RowInv(db[i]) /\ db[i] \in Rows /\ rail[i] \in [0..MaxSubmissions -> RailStates]
      /\ db[i].ref[k] \in 0..MaxSubmissions /\ rail[i][db[i].ref[k]] \in RailStates
  BY IntentTypes, RowRefs
<1>1. ASSUME NEW res \in Results, ReceiveCallback(i, k, res)  PROVE MoneyInv'
  <2> DEFINE x == [at |-> "apply", k |-> k, res |-> res]
  <2>1. /\ task[i]["callback"].at = "idle" /\ db[i].att[k] = "AUTHORIZATION_PENDING"
        /\ res \in Reports(rail[i][db[i].ref[k]])
        /\ task' = [task EXCEPT ![i]["callback"] = x]
        /\ UNCHANGED <<db, draft, open, rail, sent, rev, missing>>
    BY <1>1 DEF ReceiveCallback
  <2>2. /\ task'[i]["callback"] = x /\ task'[i]["request"] = task[i]["request"]
        /\ \A j \in Intents : j # i => task'[j] = task[j]
        /\ x.at = "apply" /\ x.k = k /\ x.res = res
    BY <2>1 DEF Inv, TypeOK, Tasks
  <2> HIDE DEF x
  <2>3. open[i] # "callback" /\ Work(i, "callback") = db[i]
    BY <2>1 DEF MoneyInv, Money, Answer, AnswerOK, Tasks, Work
  <2>4. k <= db[i].n
    BY <1>0, <2>1, LiveIsLatest DEF Rows
  <2>5. AnswerOK(x, db[i], db[i].status, rail[i], i \notin rough, FALSE)
    BY <1>0, <2>1, <2>2, <2>4, ReportsSay DEF AnswerOK
  <2>6. Answered(i, "callback")
    BY <2>1, <2>2, <2>3, <2>5 DEF Answered
  <2> QED  BY <2>1, <2>2, <2>6, QuietMoney DEF RowsStay, RailMoves, Tasks
<1>2. CASE PollPostFails(i, k)
  <2>1. /\ missing'[i] /\ \A j \in Intents : j # i => missing'[j] = missing[j]
        /\ UNCHANGED <<db, draft, open, task, rail, sent, rev>>
    BY <1>2 DEF PollPostFails, Inv, TypeOK
  <2> QED  BY <2>1, QuietMoney DEF RowsStay, RailMoves
<1>t. ASSUME db[i].att[k] = "TIMED_OUT"
      PROVE  k = db[i].n /\ db[i].n > 0 /\ db[i].hold # "OPEN" /\ (db[i].captured => db[i].status # "PROCESSING")
  <2>1. k = db[i].n /\ db[i].n > 0
    BY <1>0, <1>t, LiveIsLatest
  <2> QED  BY <1>0, <1>t, <2>1 DEF RowInv, LatestIs
<1>p. "PROCESSING" \notin Past
  BY DEF Past, Reversing
<1>3. CASE PollCharges(i, k)
  <2>1. /\ Polled(i, k, "SUCCESS") /\ db[i].status = "PROCESSING" /\ Commit(i, Charged(db[i], k))
        /\ task' = task /\ rev' = rev /\ rail' = rail /\ sent' = sent /\ missing' = missing
    BY <1>3, RailRulesFrom DEF PollCharges
  <2>2. rail[i][db[i].ref[k]] \in {"MOVED", "REVERSED"} /\ db[i].att[k] = "TIMED_OUT"
    BY <1>0, <2>1, ReportsSay, IntentsAssumption DEF Polled
  <2>3. rail[i][db[i].ref[k]] = "MOVED"
    BY <1>0, <1>p, <2>1, <2>2, StillMoved
  <2> DEFINE row == Charged(db[i], k)
  <2>4. /\ row.n = db[i].n /\ row.ref = db[i].ref /\ row.status = "SUCCEEDED"
        /\ \A l \in Numbers : row.att[l] = "STARTED" => db[i].att[l] = "STARTED"
    BY <1>0 DEF Rows, Charged
  <2>5. Commit(i, row)
    BY <2>1
  <2> HIDE DEF row
  <2>6. RowFollows(i, row)
    BY <1>0, <1>t, <2>2, <2>3, <2>4, ChargedFollows
  <2> QED  BY <1>p, <2>1, <2>4, <2>5, <2>6, CalmMoney
<1>c. ASSUME NEW row, Commit(i, row), row.n = db[i].n, row.ref = db[i].ref,
             row.hold = db[i].hold, row.captured = db[i].captured, db[i].att[k] = "TIMED_OUT",
             \A l \in Numbers : row.att[l] = "STARTED" => db[i].att[l] = "STARTED",
             \/ row.status = db[i].status
             \/ row.status \in {"REVERSAL_INITIATED", "FAILED"} /\ db[i].status = "PROCESSING",
             i \notin rough /\ row.status = "FAILED" /\ db[i].status = "PROCESSING" =>
                rail[i][db[i].ref[k]] = "REFUSED",
             db[i].queued => row.queued,
             task' = task, rev' = rev, rail' = rail, sent' = sent, missing' = missing
      PROVE  MoneyInv'
  <2>0. /\ FollowOK(db[i], rail[i])
        /\ i \notin rough /\ ~missing[i] => FailureOK(db[i], rail[i])
    BY DEF MoneyInv, Money, Found
  <2>1. FollowOK(row, rail[i])
    BY <1>c, <2>0 DEF FollowOK
  <2>2. i \notin rough /\ ~missing[i] => FailureOK(row, rail[i])
    <3>1. CASE row.status = db[i].status
      BY <1>c, <2>0, <3>1 DEF FailureOK
    <3>2. CASE row.status \in {"REVERSAL_INITIATED", "FAILED"} /\ db[i].status = "PROCESSING"
      BY <1>c, <1>t, <3>2 DEF FailureOK
    <3> QED  BY <1>c, <3>1, <3>2
  <2>3. RowFollows(i, row)
    BY <2>1, <2>2 DEF RowFollows
  <2>4. db[i].status \in Past => row.status \in Past
    BY <1>c, <1>p
  <2>5. db[i].n > 0
    BY <1>c, <1>t
  <2> QED  BY <1>c, <2>3, <2>4, <2>5, CalmMoney
<1>4. CASE PollReversed(i, k)
  <2> DEFINE row == [db[i] EXCEPT !.att[k] = "REVERSED", !.status = "REVERSAL_INITIATED"]
  <2>1. /\ db[i].att[k] = "TIMED_OUT" /\ db[i].status = "PROCESSING" /\ Commit(i, row)
        /\ task' = task /\ rev' = rev /\ rail' = rail /\ sent' = sent /\ missing' = missing
    BY <1>4, RailRulesFrom DEF PollReversed, Polled
  <2>2. /\ row.n = db[i].n /\ row.ref = db[i].ref /\ row.status = "REVERSAL_INITIATED"
        /\ row.hold = db[i].hold /\ row.captured = db[i].captured /\ row.queued = db[i].queued
        /\ \A l \in Numbers : row.att[l] = "STARTED" => db[i].att[l] = "STARTED"
    BY <1>0 DEF Rows
  <2> HIDE DEF row
  <2> QED  BY <1>c, <2>1, <2>2
<1>5. CASE PollPending(i, k)
  <2> DEFINE row == [db[i] EXCEPT !.polls = db[i].polls + 1]
  <2>1. /\ db[i].att[k] = "TIMED_OUT" /\ Commit(i, row)
        /\ task' = task /\ rev' = rev /\ rail' = rail /\ sent' = sent /\ missing' = missing
    BY <1>5 DEF PollPending, Polled
  <2>2. /\ row.n = db[i].n /\ row.ref = db[i].ref /\ row.status = db[i].status
        /\ row.hold = db[i].hold /\ row.captured = db[i].captured /\ row.queued = db[i].queued
        /\ row.att = db[i].att
    BY <1>0 DEF Rows
  <2>3. FollowOK(db[i], rail[i]) /\ (db[i].status = "FAILED" => db[i].status # "PROCESSING")
    BY DEF MoneyInv, Money
  <2> HIDE DEF row
  <2> QED  BY <1>c, <2>1, <2>2, <2>3
<1>6. CASE PollExhausted(i, k)
  <2> DEFINE row == [db[i] EXCEPT !.polls = MAX_STATUS_POLLS, !.att[k] = "AUTHORIZATION_FAILED",
                                  !.status = "REVERSAL_INITIATED"]
  <2>1. /\ db[i].att[k] = "TIMED_OUT" /\ db[i].status = "PROCESSING" /\ Commit(i, row)
        /\ task' = task /\ rev' = rev /\ rail' = rail /\ sent' = sent /\ missing' = missing
    BY <1>6, RailRulesFrom DEF PollExhausted, Polled
  <2>2. /\ row.n = db[i].n /\ row.ref = db[i].ref /\ row.status = "REVERSAL_INITIATED"
        /\ row.hold = db[i].hold /\ row.captured = db[i].captured /\ row.queued = db[i].queued
        /\ \A l \in Numbers : row.att[l] = "STARTED" => db[i].att[l] = "STARTED"
    BY <1>0 DEF Rows
  <2> HIDE DEF row
  <2> QED  BY <1>c, <2>1, <2>2
<1>7. CASE PollFails(i, k)
  <2>1. PICK res \in Results \ {"SUCCESS", "REVERSED", "PENDING"} :
             /\ Polled(i, k, res) /\ db[i].status = "PROCESSING" /\ Commit(i, Declined(db[i], k))
             /\ task' = task /\ rev' = rev /\ rail' = rail /\ sent' = sent /\ missing' = missing
    BY <1>7, RailRulesFrom DEF PollFails
  <2>2. db[i].att[k] = "TIMED_OUT" /\ (i \notin rough => rail[i][db[i].ref[k]] = "REFUSED")
    BY <1>0, <2>1, ReportsSay DEF Polled, Results
  <2> DEFINE row == Declined(db[i], k)
  <2>3. /\ row.n = db[i].n /\ row.ref = db[i].ref /\ row.status = "FAILED"
        /\ row.hold = db[i].hold /\ row.captured = db[i].captured /\ row.queued = db[i].queued
        /\ \A l \in Numbers : row.att[l] = "STARTED" => db[i].att[l] = "STARTED"
    BY <1>0 DEF Rows, Declined
  <2>4. Commit(i, row)
    BY <2>1
  <2> HIDE DEF row
  <2> QED  BY <1>c, <2>1, <2>2, <2>3, <2>4
<1> QED  BY <1>1, <1>2, <1>3, <1>4, <1>5, <1>6, <1>7 DEF Inbound

(* A task's transaction commits and the task ends.                           *)
LEMMA FinishMoney ==
    ASSUME Inv, MoneyInv, NEW i \in Intents, NEW t \in Tasks, NEW row, CanWork(i, t),
           task[i][t].at # "idle", Finish(i, t, row), rev' = rev, rail' = rail, sent' = sent,
           missing' = missing, rough' = rough, SameAttempts(i, row), RowFollows(i, row)
    PROVE  MoneyInv'
<1>1. Writes(i, row)
  BY DEF Finish, Writes, Inv, TypeOK
<1>2. TasksGoOn(i, row)
  <2>1. task'[i][t].at = "idle" /\ \A u \in Tasks : u # t => task'[i][u] = task[i][u] /\ open[i] # u
    BY DEF Finish, IdleTask, Inv, TypeOK, CanWork, Tasks
  <2>2. \A u \in Tasks : u # t => task[i][u].at # "dispatch"
    BY DEF Inv, Good, TaskInv, CanWork, Tasks
  <2> QED  BY <2>1, <2>2 DEF TasksGoOn
<1>3. ReversersGoOn(i, row)
  BY DEF ReversersGoOn
<1> QED  BY <1>1, <1>2, <1>3, WriteMoney

(* The newest rows are those of a PROCESSING intent, or are committed.       *)
LEMMA NewestMoney ==
    ASSUME Inv, MoneyInv, NEW i \in Intents
    PROVE  /\ RowFollows(i, Newest(i)) /\ SameAttempts(i, Newest(i))
           /\ Newest(i).status = "PROCESSING" => db[i].status = "PROCESSING"
<1>1. CASE open[i] = "none"
  <2>1. Newest(i) = db[i]
    BY <1>1 DEF Newest
  <2> QED  BY <2>1 DEF MoneyInv, Money, Found, RowFollows, SameAttempts
<1>2. CASE open[i] # "none"
  <2>1. /\ Newest(i) = draft[i] /\ draft[i].status = "PROCESSING" /\ db[i].status = "PROCESSING"
        /\ RowInv(draft[i])
    BY <1>2 DEF Newest, Inv, Good, TaskInv
  <2>2. ~draft[i].captured /\ draft[i].hold # "OPEN"
    BY <2>1, ProcessingRow
  <2>3. FollowOK(draft[i], rail[i]) /\ FailureOK(draft[i], rail[i])
    BY <2>1, <2>2 DEF FollowOK, FailureOK
  <2> QED  BY <2>1, <2>3 DEF RowFollows, SameAttempts, Past, Reversing
<1> QED  BY <1>1, <1>2

(* No other intent is touched by a task.                                     *)
LEMMA TaskOthers ==
    ASSUME Inv, MoneyInv, NEW i \in Intents, NEW t \in Tasks, TaskStep(i, t) \/ Abandon(i, t),
           rough' = rough, NEW j \in Intents, j # i
    PROVE  Money(j)'
<1>1. /\ db'[j] = db[j] /\ draft'[j] = draft[j] /\ open'[j] = open[j] /\ task'[j] = task[j]
  <2>1. CASE InsertAttempt(i, t)
    BY <2>1 DEF InsertAttempt, Put, Inv, TypeOK
  <2>s. CASE Submit(i, t)
    BY <2>s DEF Submit, Put, Inv, TypeOK
  <2>2. CASE \/ Defer(i, t) \/ ApplyAuthorized(i, t) \/ ApplyCharged(i, t) \/ ApplyPending(i, t)
             \/ ApplyTimedOut(i, t) \/ ApplyDeclined(i, t)
    <3>1. \E row : Finish(i, t, row)
      BY <2>2 DEF Defer, ApplyAuthorized, ApplyCharged, ApplyPending, ApplyTimedOut, ApplyDeclined
    <3> QED  BY <3>1 DEF Finish, Inv, TypeOK
  <2>3. CASE LedgerPostFails(i, t) \/ ApplyRaises(i, t) \/ Abandon(i, t)
    BY <2>3 DEF LedgerPostFails, ApplyRaises, Abandon, RollBack, Inv, TypeOK
  <2>4. CASE (\E res \in Results, to \in RailStates : SubmitReturns(i, t, res, to)) \/ ApplyRetryable(i, t)
    BY <2>4 DEF SubmitReturns, ApplyRetryable, Spawn, Inv, TypeOK
  <2> QED  BY <2>1, <2>s, <2>2, <2>3, <2>4 DEF TaskStep
<1>2. /\ rail'[j] = rail[j] /\ sent'[j] = sent[j] /\ missing'[j] = missing[j] /\ rev' = rev
  <2>1. CASE \/ Defer(i, t) \/ ApplyAuthorized(i, t) \/ ApplyCharged(i, t) \/ ApplyPending(i, t)
             \/ ApplyTimedOut(i, t) \/ ApplyDeclined(i, t) \/ ApplyRaises(i, t) \/ Abandon(i, t)
             \/ ApplyRetryable(i, t)
    BY <2>1 DEF Defer, ApplyAuthorized, ApplyCharged, ApplyPending, ApplyTimedOut, ApplyDeclined,
                ApplyRaises, Abandon, ApplyRetryable
  <2>2. CASE LedgerPostFails(i, t) \/ InsertAttempt(i, t)
    BY <2>2 DEF LedgerPostFails, InsertAttempt, Inv, TypeOK
  <2>3. CASE Submit(i, t) \/ \E res \in Results, to \in RailStates : SubmitReturns(i, t, res, to)
    BY <2>3 DEF Submit, SubmitReturns, Inv, TypeOK
  <2> QED  BY <2>1, <2>2, <2>3 DEF TaskStep
<1>3. Still(j)
  BY <1>1, <1>2 DEF Still
<1> QED  BY <1>3, StillMoney DEF MoneyInv

(* The steps of a task.                                                      *)
LEMMA TaskMoney ==
    ASSUME Inv, MoneyInv, NEW i \in Intents, NEW t \in Tasks, TaskStep(i, t) \/ Abandon(i, t),
           rough' = rough
    PROVE  MoneyInv'
<1> DEFINE k == task[i][t].k
           row == Newest(i)
<1>0. /\ RowInv(row) /\ row \in Rows /\ k \in Numbers /\ db[i] \in Rows
      /\ rail[i] \in [0..MaxSubmissions -> RailStates] /\ row.ref[k] \in 0..MaxSubmissions
      /\ RowFollows(i, row) /\ SameAttempts(i, row)
      /\ (row.status = "PROCESSING" => db[i].status = "PROCESSING")
      /\ Money(i) /\ Answer(i, t) /\ task[i] \in [Tasks -> TaskRecs] /\ "PROCESSING" \notin Past
  BY IntentTypes, RowRefs, NewestMoney DEF TaskRecs, MoneyInv, Money, Past, Reversing
<1>w. CanWork(i, t) => Work(i, t) = row
  BY WorkIsNewest
<1> HIDE DEF row
<1>s. ASSUME Money(i)'  PROVE MoneyInv'
  BY <1>s, TaskOthers DEF MoneyInv
<1>f. ASSUME NEW new, CanWork(i, t), task[i][t].at = "apply", Finish(i, t, new),
             rev' = rev, rail' = rail, sent' = sent, missing' = missing,
             row.status = "PROCESSING", row.att[k] = "AUTHORIZATION_PENDING",
             new.n = row.n, new.ref = row.ref,
             \A l \in Numbers : new.att[l] = "STARTED" => row.att[l] = "STARTED",
             RowFollows(i, new)
      PROVE  MoneyInv'
  <2>1. SameAttempts(i, new)
    BY <1>0, <1>f DEF SameAttempts, row
  <2> QED  BY <1>f, <2>1, FinishMoney
<1>l. ASSUME row.att[k] = "AUTHORIZATION_PENDING"  PROVE k = row.n /\ row.n > 0
  BY <1>0, <1>l, LiveIsLatest
<1>1. CASE Defer(i, t) \/ ApplyPending(i, t)
  <2>1. /\ CanWork(i, t) /\ task[i][t].at # "idle" /\ Finish(i, t, row)
        /\ rev' = rev /\ rail' = rail /\ sent' = sent /\ missing' = missing
    BY <1>1, <1>w DEF Defer, ApplyPending, Applying
  <2> QED  BY <1>0, <2>1, FinishMoney
<1>2. CASE InsertAttempt(i, t)
  BY <1>0, <1>2, <1>s, InsertMoney
<1>3. CASE Submit(i, t)
  BY <1>0, <1>3, <1>s, SubmitMoney
<1>4. CASE ApplyRetryable(i, t)
  BY <1>0, <1>4, <1>s, RetryMoney
<1>5. CASE ApplyAuthorized(i, t) \/ ApplyCharged(i, t)
  <2> DEFINE a == [row EXCEPT !.att[k] = "AUTHORIZED", !.hold = "OPEN", !.status = "REQUIRES_CAPTURE"]
             c == Charged(row, k)
  <2>1. /\ CanWork(i, t) /\ task[i][t].at = "apply" /\ task[i][t].res = "SUCCESS"
        /\ row.att[k] = "AUTHORIZATION_PENDING" /\ row.status = "PROCESSING"
        /\ rev' = rev /\ rail' = rail /\ sent' = sent /\ missing' = missing
    BY <1>5, <1>w, AttemptRules, RailRulesFrom DEF ApplyAuthorized, ApplyCharged, Applying
  <2>2. Finish(i, t, a) \/ Finish(i, t, c)
    BY <1>5, <1>w, <2>1 DEF ApplyAuthorized, ApplyCharged
  <2>3. /\ a.n = row.n /\ a.ref = row.ref /\ a.status = "REQUIRES_CAPTURE"
        /\ \A l \in Numbers : a.att[l] = "STARTED" => row.att[l] = "STARTED"
        /\ c.n = row.n /\ c.ref = row.ref /\ c.status = "SUCCEEDED"
        /\ \A l \in Numbers : c.att[l] = "STARTED" => row.att[l] = "STARTED"
    BY <1>0 DEF Rows, Charged
  <2> HIDE DEF a, c
  <2>4. rail[i][row.ref[k]] \in {"MOVED", "REVERSED"}
    BY <1>0, <1>w, <2>1 DEF Answer, AnswerOK
  <2>5. rail[i][row.ref[k]] = "MOVED"
    BY <1>0, <2>1, <2>4, StillMoved
  <2>6. RowFollows(i, a) /\ RowFollows(i, c)
    <3>1. k = row.n
      BY <1>l, <2>1
    <3>2. RowFollows(i, a)
      BY <1>0, <2>3, <2>5, <3>1, ChargedFollows
    <3>3. RowFollows(i, c)
      BY <1>0, <2>3, <2>5, <3>1, ChargedFollows
    <3> QED  BY <3>2, <3>3
  <2> QED  BY <1>f, <2>1, <2>2, <2>3, <2>6
<1>6. CASE ApplyTimedOut(i, t) \/ ApplyDeclined(i, t)
  <2> DEFINE a == [row EXCEPT !.att[k] = "TIMED_OUT"]
             c == Declined(row, k)
  <2>1. /\ CanWork(i, t) /\ task[i][t].at = "apply"
        /\ row.att[k] = "AUTHORIZATION_PENDING" /\ row.status = "PROCESSING"
        /\ rev' = rev /\ rail' = rail /\ sent' = sent /\ missing' = missing
    BY <1>6, <1>w, AttemptRules, RailRulesFrom DEF ApplyTimedOut, ApplyDeclined, Applying
  <2>2. \/ Finish(i, t, a)
        \/ Finish(i, t, c) /\ task[i][t].res \in {"REJECTED", "FAILED", "CIRCUIT_OPEN"}
    BY <1>6, <1>w, <2>1 DEF ApplyTimedOut, ApplyDeclined, Applying, Retryable
  <2>3. /\ a.n = row.n /\ a.ref = row.ref /\ a.status = "PROCESSING"
        /\ a.captured = row.captured /\ a.hold = row.hold
        /\ \A l \in Numbers : a.att[l] = "STARTED" => row.att[l] = "STARTED"
        /\ c.n = row.n /\ c.ref = row.ref /\ c.status = "FAILED"
        /\ c.captured = row.captured /\ c.hold = row.hold
        /\ \A l \in Numbers : c.att[l] = "STARTED" => row.att[l] = "STARTED"
    BY <1>0, <2>1 DEF Rows, Declined
  <2> HIDE DEF a, c
  <2>4. FollowOK(a, rail[i]) /\ FollowOK(c, rail[i])
    BY <1>0, <2>1, <2>3, ProcessingRow DEF FollowOK
  <2>5. RowFollows(i, a)
    BY <2>3, <2>4 DEF RowFollows, FailureOK
  <2>6. task[i][t].res \in {"REJECTED", "FAILED", "CIRCUIT_OPEN"} => RowFollows(i, c)
    <3>1. task[i][t].res \in {"REJECTED", "FAILED", "CIRCUIT_OPEN"} /\ i \notin rough =>
             rail[i][row.ref[k]] = "REFUSED"
      BY <1>0, <1>w, <2>1 DEF Answer, AnswerOK
    <3> QED  BY <1>l, <2>1, <2>3, <2>4, <3>1 DEF RowFollows, FailureOK
  <2> QED  BY <1>f, <2>1, <2>2, <2>3, <2>5, <2>6
<1>7. CASE LedgerPostFails(i, t)
  <2>1. missing'[i] /\ RollBack(i, t) /\ rail' = rail /\ sent' = sent /\ rev' = rev
    BY <1>7 DEF LedgerPostFails, Inv, TypeOK
  <2> QED  BY <1>0, <1>s, <2>1, RollBackMoney
<1>8. CASE ApplyRaises(i, t)
  <2>1. /\ RollBack(i, t) /\ rail' = rail /\ sent' = sent /\ rev' = rev /\ missing' = missing
        /\ task[i][t].at = "apply" /\ CanWork(i, t)
        /\ \/ row.att[k] # "AUTHORIZATION_PENDING" \/ task[i][t].res = "REVERSED"
           \/ row.status # "PROCESSING"
    BY <1>8, <1>w DEF ApplyRaises
  <2>2. open[i] # t
    <3> SUFFICES ASSUME open[i] = t  PROVE FALSE
      OBVIOUS
    <3>1. row.att[k] = "AUTHORIZATION_PENDING" /\ task[i][t].res # "REVERSED"
      BY <1>0, <1>w, <2>1 DEF Answer, AnswerOK
    <3>2. row.status = "PROCESSING"
      BY DEF row, Newest, Inv, Good, TaskInv, Tasks
    <3> QED  BY <2>1, <3>1, <3>2
  <2> QED  BY <1>0, <1>s, <2>1, <2>2, RollBackMoney
<1>9. CASE Abandon(i, t)
  <2>1. /\ RollBack(i, t) /\ rail' = rail /\ sent' = sent /\ rev' = rev /\ missing' = missing
        /\ i \in rough
    BY <1>9 DEF Abandon
  <2> QED  BY <1>0, <1>s, <2>1, RollBackMoney
<1>10. ASSUME NEW res \in Results, NEW to \in RailStates, SubmitReturns(i, t, res, to)
       PROVE  MoneyInv'
  <2> DEFINE ref == Work(i, t).ref[k]
  <2>1. /\ task[i][t].at = "wait" /\ <<res, rail[i][ref], to>> \in SubmitAnswers(i)
        /\ rail'[i] = [rail[i] EXCEPT ![ref] = to] /\ rev' = rev
        /\ task'[i][t].at = "apply" /\ task'[i][t].res = res /\ task'[i][t].k = k
        /\ \A u \in Tasks : u # t => task'[i][u] = task[i][u]
    <3>1. /\ task' = [task EXCEPT ![i][t].at = "apply", ![i][t].res = res]
          /\ rail' = [rail EXCEPT ![i][ref] = to] /\ task[i][t].at = "wait" /\ rev' = rev
          /\ <<res, rail[i][ref], to>> \in SubmitAnswers(i)
      BY <1>10 DEF SubmitReturns
    <3>2. rail'[i] = [rail[i] EXCEPT ![ref] = to]
      BY <3>1 DEF Inv, TypeOK
    <3>3. task'[i] = [task[i] EXCEPT ![t] = [@ EXCEPT !.at = "apply", !.res = res]]
      BY <3>1 DEF Inv, TypeOK
    <3>4. /\ task'[i][t].at = "apply" /\ task'[i][t].res = res /\ task'[i][t].k = k
          /\ \A u \in Tasks : u # t => task'[i][u] = task[i][u]
      BY <1>0, <3>3 DEF TaskRecs
    <3> QED  BY <3>1, <3>2, <3>4
  <2>2. ref \in 0..MaxSubmissions /\ rail'[i][ref] = to
    BY <1>0, <2>1, IntentTypes, RowRefs
  <2>3. /\ \/ rail[i][ref] = to
           \/ rail[i][ref] = "OPEN" /\ to \in {"MOVED", "REFUSED"}
        /\ res = "SUCCESS" => to = "MOVED"
        /\ i \notin rough /\ res \in {"REJECTED", "FAILED", "CIRCUIT_OPEN"} => to = "REFUSED"
        /\ res # "REVERSED"
    <3> DEFINE old == rail[i][ref]
               p == <<res, old, to>>
    <3>0. p \in SubmitAnswers(i)
      BY <2>1
    <3> HIDE DEF p
    <3>1. \/ p \in {<<"SUCCESS", "OPEN", "MOVED">>, <<"SUCCESS", "MOVED", "MOVED">>,
                    <<"CIRCUIT_OPEN", "OPEN", "REFUSED">>}
          \/ \E x \in {"FAILED", "REJECTED"}, s \in {"OPEN", "REFUSED"} : p = <<x, s, "REFUSED">>
          \/ \E x \in {"PENDING", "TIMED_OUT"}, s \in RailStates \ {"UNUSED"} : p = <<x, s, s>>
          \/ \E s \in IF i \in rough THEN {"OPEN", "MOVED"} ELSE {} : p = <<"FAILED", s, s>>
      BY <3>0 DEF SubmitAnswers, PlainAnswers
    <3> HIDE DEF old
    <3> USE DEF p
    <3>2. \/ res = "SUCCESS" /\ old \in {"OPEN", "MOVED"} /\ to = "MOVED"
          \/ res \in {"FAILED", "REJECTED", "CIRCUIT_OPEN"} /\ old \in {"OPEN", "REFUSED"} /\ to = "REFUSED"
          \/ res \in {"PENDING", "TIMED_OUT"} /\ old = to
          \/ i \in rough /\ res = "FAILED" /\ old = to
      BY <3>1
    <3> QED  BY <3>2 DEF old
  <2>4. AnswerOK(task[i][t], Work(i, t), db[i].status, rail[i], i \notin rough, open[i] = t)
    BY <1>0 DEF Answer
  <2>5. AnswerOK(task'[i][t], Work(i, t), db[i].status, rail'[i], i \notin rough, open[i] = t)
    BY <2>1, <2>2, <2>3, <2>4 DEF AnswerOK
  <2>6. RailMoves(i)
    BY <1>0, <2>1, <2>2, <2>3 DEF RailMoves
  <2>7. RowsStay(i)
    BY <1>10 DEF SubmitReturns, RowsStay
  <2>8. \A u \in Tasks : task'[i][u] = task[i][u] \/ Answered(i, u)
    BY <2>1, <2>5 DEF Answered
  <2>9. Money(i)'
    BY <1>0, <2>1, <2>6, <2>7, <2>8, RailMoney
  <2> QED  BY <1>s, <2>9
<1> QED  BY <1>1, <1>2, <1>3, <1>4, <1>5, <1>6, <1>7, <1>8, <1>9, <1>10 DEF TaskStep

(* The steps of a reverser.                                                  *)
LEMMA ReverserMoney ==
    ASSUME Inv, MoneyInv, NEW r \in Reversers, ReverserStep(r) \/ AbandonReversal(r), rough' = rough
    PROVE  MoneyInv'
<1>0. /\ IdleRev.at = "idle"
      /\ rev \in [Reversers -> [at : {"idle", "calling", "apply"}, i : Intents \cup {NoIntent},
                                ref : 0..MaxSubmissions, res : Results]]
  BY DEF IdleRev, Inv, TypeOK
<1>1. ASSUME NEW i \in Intents, ClaimReversal(r, i)  PROVE MoneyInv'
  <2> DEFINE row == [db[i] EXCEPT !.status = "REVERSAL_PENDING"]
             x == [at |-> "calling", i |-> i, ref |-> db[i].ref[db[i].n], res |-> "PENDING"]
  <2>1. /\ db[i].n > 0 /\ Commit(i, row) /\ rev' = [rev EXCEPT ![r] = x]
        /\ task' = task /\ rail' = rail /\ sent' = sent /\ missing' = missing
    BY <1>1 DEF ClaimReversal
  <2>2. /\ RowFollows(i, row) /\ row.status = "REVERSAL_PENDING"
        /\ row.n = db[i].n /\ row.ref = db[i].ref /\ row.att = db[i].att
    BY StatusFollows
  <2>3. x.at = "calling" /\ x.i = i /\ x.ref = db[i].ref[db[i].n] /\ row.status \in Past
    BY <2>2 DEF Past, Reversing
  <2>4. rev'[r] = x /\ \A s \in Reversers : s # r => rev'[s] = rev[s]
    BY <1>0, <2>1
  <2> HIDE DEF row, x
  <2>5. Writes(i, row)
    BY <2>1, <2>3, <2>4 DEF Commit, Free, Writes
  <2>6. SameAttempts(i, row)
    BY <2>1, <2>2, <2>3 DEF SameAttempts, Commit, Free, Newest
  <2>7. TasksGoOn(i, row)
    BY <2>1, <2>2, FreeTasks DEF Commit
  <2>8. ReversersGoOn(i, row)
    BY <2>1, <2>2, <2>3, <2>4 DEF ReversersGoOn
  <2> QED  BY <2>2, <2>5, <2>6, <2>7, <2>8, WriteMoney
<1>i. ASSUME rev[r].at # "idle"
      PROVE  LET i == rev[r].i
             IN  /\ i \in Intents /\ db[i] \in Rows /\ RowInv(db[i]) /\ db[i].status \in Past
                 /\ db[i].n > 0 /\ rev[r].ref = db[i].ref[db[i].n] /\ rev[r].ref \in 0..MaxSubmissions
                 /\ rev[r].at = "apply" /\ rev[r].res = "REVERSED" => rail[i][rev[r].ref] \in Undone
  <2>1. rev[r].i \in Intents
    BY <1>i DEF Inv, RevInv
  <2>2. ReverserOK(rev[r], db[rev[r].i], rail[rev[r].i])
    BY <1>i, <2>1 DEF MoneyInv, Money, Reverser
  <2>3. db[rev[r].i] \in Rows /\ RowInv(db[rev[r].i]) /\ rev[r].ref \in 0..MaxSubmissions
    BY <2>1, IntentTypes
  <2> QED  BY <2>1, <2>2, <2>3 DEF ReverserOK
<1>2. ASSUME NEW res \in Results, NEW to \in RailStates, ReverseReturns(r, res, to)
      PROVE  MoneyInv'
  <2> DEFINE i == rev[r].i
             ref == rev[r].ref
  <2>1. /\ rev[r].at = "calling" /\ <<res, rail[i][ref], to>> \in ReverseAnswers
        /\ rail' = [rail EXCEPT ![i][ref] = to]
        /\ rev' = [rev EXCEPT ![r].at = "apply", ![r].res = res]
        /\ UNCHANGED <<db, draft, open, task, sent, missing>>
    BY <1>2 DEF ReverseReturns
  <2>2. i \in Intents /\ db[i].status \in Past /\ ref \in 0..MaxSubmissions
    BY <1>i, <2>1
  <2>3. /\ rail'[i] = [rail[i] EXCEPT ![ref] = to] /\ rail'[i][ref] = to
        /\ rail[i] \in [0..MaxSubmissions -> RailStates]
        /\ \A j \in Intents : j # i => rail'[j] = rail[j]
    BY <2>1, <2>2 DEF Inv, TypeOK
  <2>4. /\ rev'[r].i = i /\ rev'[r].ref = ref /\ rev'[r].res = res
        /\ \A s \in Reversers : s # r => rev'[s] = rev[s]
    BY <1>0, <2>1
  <2>5. /\ \/ rail[i][ref] = to
           \/ rail[i][ref] = "OPEN" /\ to = "CANCELLED"
           \/ rail[i][ref] = "MOVED" /\ to = "REVERSED"
        /\ res = "REVERSED" => to \in Undone
    <3> DEFINE old == rail[i][ref]
               p == <<res, old, to>>
    <3>0. p \in ReverseAnswers
      BY <2>1
    <3> HIDE DEF p
    <3>1. \/ \E x \in {"REVERSED", "TIMED_OUT"} : p = <<x, "MOVED", "REVERSED">>
          \/ \E x \in {"REVERSED", "TIMED_OUT"} : p = <<x, "OPEN", "CANCELLED">>
          \/ \E s \in {"REFUSED", "REVERSED", "CANCELLED"} : p = <<"REVERSED", s, s>>
          \/ \E x \in {"REJECTED", "FAILED", "CIRCUIT_OPEN", "TIMED_OUT", "PENDING"}, s \in RailStates :
                p = <<x, s, s>>
      BY <3>0 DEF ReverseAnswers
    <3> HIDE DEF old
    <3> USE DEF p
    <3>2. \/ old = "MOVED" /\ to = "REVERSED"
          \/ old = "OPEN" /\ to = "CANCELLED"
          \/ old = to /\ to \in Undone
          \/ old = to /\ res # "REVERSED"
      BY <3>1 DEF Undone
    <3> QED  BY <3>2 DEF old, Undone
  <2> HIDE DEF i, ref
  <2>6. RailMoves(i)
    BY <2>2, <2>3, <2>5 DEF RailMoves
  <2>7. RowsStay(i)
    BY <2>1 DEF RowsStay
  <2>8. ReverserHears(i, r)
    BY <2>1, <2>3, <2>4, <2>5 DEF ReverserHears, i, ref
  <2>9. /\ \A s \in Reversers : rev'[s] = rev[s] \/ (rev'[s].i = i /\ ReverserHears(i, s))
        /\ \A t \in Tasks : task'[i][t] = task[i][t]
        /\ \A j \in Intents : j # i => /\ rail'[j] = rail[j]
                                      /\ db'[j] = db[j] /\ draft'[j] = draft[j] /\ open'[j] = open[j]
                                      /\ task'[j] = task[j] /\ sent'[j] = sent[j] /\ missing'[j] = missing[j]
    BY <2>1, <2>3, <2>4, <2>8
  <2> QED  BY <2>2, <2>6, <2>7, <2>9, QuietMoney
<1>n. ASSUME rev' = [rev EXCEPT ![r] = IdleRev]
      PROVE  \A s \in Reversers : rev'[s].at # "idle" => rev'[s] = rev[s]
  BY <1>0, <1>n
<1>3. CASE AbandonReversal(r)
  <2>1. rev[r].at # "idle" /\ rev' = [rev EXCEPT ![r] = IdleRev]
        /\ UNCHANGED <<db, draft, open, task, rail, sent, missing>>
    BY <1>3 DEF AbandonReversal
  <2>2. PICK i \in Intents : TRUE
    BY <1>i, <2>1
  <2> QED  BY <1>n, <2>1, <2>2, QuietMoney DEF RowsStay, RailMoves
<1>4. CASE ApplyReversal(r)
  <2> DEFINE i == rev[r].i
  <2>0. /\ rev[r].at = "apply" /\ rev' = [rev EXCEPT ![r] = IdleRev]
        /\ task' = task /\ rail' = rail /\ sent' = sent /\ missing' = missing
    BY <1>4 DEF ApplyReversal
  <2>i. /\ i \in Intents /\ db[i] \in Rows /\ RowInv(db[i]) /\ db[i].status \in Past
        /\ db[i].n > 0 /\ rev[r].ref = db[i].ref[db[i].n]
        /\ rev[r].res = "REVERSED" => rail[i][rev[r].ref] \in Undone
    BY <1>i, <2>0
  <2>c. ASSUME NEW row, Commit(i, row), row.n = db[i].n, row.ref = db[i].ref,
               \A k \in Numbers : row.att[k] = "STARTED" => db[i].att[k] = "STARTED",
               row.status \in Past, RowFollows(i, row)
        PROVE  MoneyInv'
    <3> HIDE DEF i
    <3>1. Writes(i, row)
      BY <1>n, <2>0, <2>c DEF Commit, Free, Writes
    <3>2. SameAttempts(i, row)
      BY <2>c DEF SameAttempts, Commit, Free, Newest
    <3>3. TasksGoOn(i, row)
      BY <2>0, <2>i, <2>c, FreeTasks DEF Commit
    <3>4. ReversersGoOn(i, row)
      BY <1>n, <2>0 DEF ReversersGoOn
    <3> QED  BY <2>i, <2>c, <3>1, <3>2, <3>3, <3>4, WriteMoney
  <2>1. CASE /\ rev[r].res = "REVERSED" /\ IntentMove(db[i], "reversal_confirmed", "REVERSED")
             /\ Commit(i, [Unwound(db[i]) EXCEPT !.status = "REVERSED"])
    <3> DEFINE row == [Unwound(db[i]) EXCEPT !.status = "REVERSED"]
    <3>1. db[i].status \in Reversing /\ Commit(i, row)
      BY <2>1, RailRulesFrom
    <3> HIDE DEF i
    <3>2. ~db[i].captured /\ db[i].att[db[i].n] # "CHARGED" /\ db[i].n \in Numbers
          /\ (db[i].hold = "OPEN" => db[i].att[db[i].n] = "AUTHORIZED")
      BY <2>i, <3>1, RowRefs DEF RowInv, LatestIs, Reversing
    <3>3. Unwound(db[i]) = Voided(db[i])
      BY <3>2 DEF Unwound
    <3>4. /\ row.n = db[i].n /\ row.ref = db[i].ref /\ row.status = "REVERSED"
          /\ ~row.captured /\ row.hold # "OPEN"
          /\ \A k \in Numbers : row.att[k] = "STARTED" => db[i].att[k] = "STARTED"
      <4>1. CASE db[i].att[db[i].n] = "AUTHORIZED"
        <5>1. Voided(db[i]) = [db[i] EXCEPT !.hold = "VOIDED", !.att[db[i].n] = "VOIDED"]
          BY <2>i, <4>1 DEF Voided
        <5> QED  BY <2>i, <3>2, <3>3, <5>1 DEF Rows
      <4>2. CASE db[i].att[db[i].n] # "AUTHORIZED"
        <5>1. Voided(db[i]) = db[i]
          BY <4>2 DEF Voided
        <5> QED  BY <2>i, <3>2, <3>3, <4>2, <5>1 DEF Rows
      <4> QED  BY <4>1, <4>2
    <3> HIDE DEF row
    <3>5. RowFollows(i, row) /\ row.status \in Past
      BY <2>i, <2>1, <3>4 DEF RowFollows, FollowOK, FailureOK, Past
    <3> QED  BY <2>c, <3>1, <3>4, <3>5
  <2>2. CASE Commit(i, [db[i] EXCEPT !.status = "FAILED", !.queued = TRUE])
    <3> DEFINE row == [db[i] EXCEPT !.status = "FAILED", !.queued = TRUE]
    <3>1. Commit(i, row)
      BY <2>2
    <3> HIDE DEF i
    <3>2. /\ row.n = db[i].n /\ row.ref = db[i].ref /\ row.status = "FAILED" /\ row.queued
          /\ row.captured = db[i].captured /\ row.hold = db[i].hold /\ row.att = db[i].att
      BY <2>i DEF Rows
    <3> HIDE DEF row
    <3>3. FollowOK(row, rail[i])
      BY <2>i, <3>2 DEF MoneyInv, Money, FollowOK
    <3>4. RowFollows(i, row) /\ row.status \in Past
      BY <3>2, <3>3 DEF RowFollows, FailureOK, Past
    <3> QED  BY <2>c, <3>1, <3>2, <3>4
  <2>3. CASE UNCHANGED <<db, draft, open>>
    <3> HIDE DEF i
    <3> QED  BY <1>n, <2>0, <2>i, <2>3, QuietMoney DEF RowsStay, RailMoves
  <2> QED  BY <1>4, <2>1, <2>2, <2>3 DEF ApplyReversal
<1> QED  BY <1>1, <1>2, <1>3, <1>4 DEF ReverserStep

(* The sweep takes expired intents on, all in one transaction.               *)
LEMMA SweepMoney ==
    ASSUME Inv, MoneyInv, Sweep, rough' = rough
    PROVE  MoneyInv'
<1> SUFFICES ASSUME NEW i \in Intents PROVE Money(i)'
  BY DEF MoneyInv
<1>0. UNCHANGED <<draft, open, task, rail, sent, rev, missing>>
  BY DEF Sweep
<1>1. CASE i \notin Sweepable
  <2>1. db'[i] = db[i]
    BY <1>1 DEF Sweep
  <2>2. Still(i)
    BY <1>0, <2>1 DEF Still
  <2> QED  BY <2>2, StillMoney DEF MoneyInv
<1>2. CASE i \in Sweepable
  <2> DEFINE to == Expired(db[i].status)
             row == [db[i] EXCEPT !.status = to]
  <2>1. db'[i] = row /\ Free(i) /\ to # db[i].status
    BY <1>2 DEF Sweep, Sweepable
  <2>2. /\ db[i].status \notin Past
        /\ to \in {"FAILED", "REVERSED"} => db[i].status \in Early
    BY <2>1 DEF Expired, Early, Past, Reversing
  <2>3. to \in {"FAILED", "REVERSED"} => db[i].n = 0
    BY <2>2, IntentTypes DEF RowInv
  <2> HIDE DEF to
  <2>4. /\ RowFollows(i, row) /\ row.status = to
        /\ row.n = db[i].n /\ row.ref = db[i].ref /\ row.att = db[i].att
    BY <2>3, StatusFollows
  <2> HIDE DEF row
  <2>5. Commits(i, row)
    BY <1>0, <2>1, <2>2, <2>4 DEF Commits, Free, Newest
  <2>6. TasksGoOn(i, row)
    BY <1>0, <2>1, <2>2, <2>4, FreeTasks
  <2>7. ReversersGoOn(i, row)
    BY <1>0 DEF ReversersGoOn
  <2> QED  BY <2>4, <2>5, <2>6, <2>7, CommitMoney DEF MoneyInv
<1> QED  BY <1>1, <1>2

(* Every step keeps MoneyInv.                                                *)
LEMMA NextMoney == Inv /\ MoneyInv /\ [Next]_vars => MoneyInv'
<1> SUFFICES ASSUME Inv, MoneyInv, [Next]_vars PROVE MoneyInv'
  OBVIOUS
<1>0. rough' = rough
  BY DEF Next, vars, kinds
<1>1. CASE Sweep
  BY <1>0, <1>1, SweepMoney
<1>2. ASSUME NEW i \in Intents, Merchant(i)  PROVE MoneyInv'
  BY <1>0, <1>2, MerchantMoney
<1>3. ASSUME NEW i \in Intents, Expires(i) \/ Cools(i)  PROVE MoneyInv'
  <2>1. UNCHANGED <<db, draft, open, task, rail, sent, rev, missing>>
    BY <1>3 DEF Expires, Cools
  <2> QED  BY <1>0, <1>3, <2>1, QuietMoney DEF RowsStay, RailMoves
<1>4. ASSUME NEW i \in Intents, NEW t \in Tasks, TaskStep(i, t) \/ Abandon(i, t)  PROVE MoneyInv'
  BY <1>0, <1>4, TaskMoney
<1>5. ASSUME NEW i \in Intents, NEW k \in Numbers, Inbound(i, k)  PROVE MoneyInv'
  BY <1>0, <1>5, InboundMoney
<1>6. ASSUME NEW i \in Intents, NEW ref \in 1..MaxSubmissions, NEW to \in RailStates,
             RailDecides(i, ref, to)
      PROVE  MoneyInv'
  <2>1. /\ rail[i][ref] = "OPEN" /\ to \in {"MOVED", "REFUSED"} /\ rail' = [rail EXCEPT ![i][ref] = to]
        /\ UNCHANGED <<db, draft, open, task, sent, rev, missing>>
    BY <1>6 DEF RailDecides
  <2>2. RailMoves(i) /\ \A j \in Intents : j # i => rail'[j] = rail[j]
    BY <2>1 DEF RailMoves, Inv, TypeOK
  <2> QED  BY <1>0, <2>1, <2>2, QuietMoney DEF RowsStay
<1>7. ASSUME NEW r \in Reversers, ReverserStep(r) \/ AbandonReversal(r)  PROVE MoneyInv'
  BY <1>0, <1>7, ReverserMoney
<1>8. CASE UNCHANGED vars
  <2>1. \A j \in Intents : Still(j)
    BY <1>8 DEF vars, moving, Still
  <2> QED  BY <1>0, <2>1, StillMoney DEF MoneyInv
<1> QED  BY <1>1, <1>2, <1>3, <1>4, <1>5, <1>6, <1>7, <1>8 DEF Next, Step

(* Nothing has been submitted yet.                                           *)
LEMMA InitMoney == Init => MoneyInv
<1> SUFFICES ASSUME Init, NEW i \in Intents PROVE Money(i)
  BY DEF MoneyInv
<1>1. /\ db[i] = NewRow /\ open[i] = "none" /\ Newest(i) = NewRow /\ sent[i] = 0
      /\ \A t \in Tasks : task[i][t] = IdleTask /\ ~(open[i] = t) /\ Work(i, t) = NewRow
      /\ \A s \in 0..MaxSubmissions : rail[i][s] = "UNUSED"
      /\ \A r \in Reversers : rev[r] = IdleRev
  BY DEF Init, Newest, Work, Tasks
<1>2. /\ NewRow.n = 0 /\ ~NewRow.captured /\ NewRow.hold = "NONE"
      /\ \A k \in Numbers : NewRow.att[k] = "ABSENT" /\ k \in Nat /\ k > 0
      /\ IdleTask.at = "idle" /\ IdleRev.at = "idle"
  BY IntentsAssumption DEF NewRow, IdleTask, IdleRev, Numbers
<1>3. Refs(i)
  <2>1. RefsOK(NewRow, NewRow, FALSE, rail[i], 0)
    BY <1>1, <1>2, IntentsAssumption DEF RefsOK
  <2> QED  BY <1>1, <2>1 DEF Refs
<1>4. ASSUME NEW t \in Tasks PROVE Answer(i, t)
  <2>1. AnswerOK(IdleTask, NewRow, db[i].status, rail[i], i \notin rough, FALSE)
    BY <1>2 DEF AnswerOK
  <2> QED  BY <1>1, <2>1 DEF Answer
<1>5. UndoneOK(db[i].status, rail[i]) /\ FollowOK(db[i], rail[i])
  BY <1>1, <1>2 DEF UndoneOK, FollowOK
<1>6. \A r \in Reversers : Reverser(i, r)
  BY <1>1, <1>2 DEF Reverser
<1>7. Found(i)
  <2>1. FoundOK(NewRow, FALSE, rail[i], 0) /\ FailureOK(NewRow, rail[i])
    BY <1>1, <1>2 DEF FoundOK, FailureOK
  <2> QED  BY <1>1, <2>1 DEF Found
<1> QED  BY <1>3, <1>4, <1>5, <1>6, <1>7 DEF Money

(* The books show no money the rail did not move, and money the rail moved   *)
(* for an intent that failed or was reversed is queued for compensation or   *)
(* reported: whatever was swept, retried, polled, called back or reversed in *)
(* between, and whenever the rail's answers arrive.                          *)
THEOREM MoneyStaysTraced == Spec => []MoneyIsTraced
<1>1. Inv /\ MoneyInv => MoneyIsTraced
  <2> SUFFICES ASSUME Inv, MoneyInv PROVE MoneyIsTraced
    OBVIOUS
  <2>1. BooksFollowRail
    BY DEF BooksFollowRail, MoneyInv, Money, FollowOK
  <2>2. ASSUME NEW i \in Intents \ rough, NEW ref \in 1..MaxSubmissions, rail[i][ref] = "MOVED",
               db[i].status \in {"FAILED", "REVERSED"}
        PROVE  db[i].queued \/ missing[i]
    <3> SUFFICES ASSUME ~missing[i] PROVE db[i].queued
      OBVIOUS
    <3>1. open[i] = "none"
      BY <2>2 DEF Inv, Good, TaskInv
    <3>2. /\ RefsOK(db[i], db[i], FALSE, rail[i], sent[i])
          /\ FoundOK(db[i], FALSE, rail[i], sent[i]) /\ FailureOK(db[i], rail[i])
          /\ db[i] \in Rows /\ sent[i] \in 0..MaxSubmissions
      BY <3>1, IntentTypes DEF MoneyInv, Money, Refs, Found, Newest
    <3>3. ref \in 1..sent[i]
      BY <2>2, <3>2, IntentsAssumption DEF RefsOK
    <3>4. PICK k \in Numbers : k <= db[i].n /\ db[i].ref[k] = ref
      BY <3>2, <3>3 DEF FoundOK
    <3>5. k = db[i].n /\ db[i].n > 0
      <4>1. ~(k < db[i].n)
        BY <2>2, <3>2, <3>4 DEF FoundOK
      <4>2. db[i].n \in Nat /\ k \in Nat /\ k > 0
        BY <3>2, IntentsAssumption DEF Rows, Numbers
      <4> QED  BY <3>4, <4>1, <4>2
    <3> QED  BY <2>2, <3>2, <3>4, <3>5 DEF FailureOK, Undone
  <2>3. RailMoneyAccountedFor
    BY <2>2 DEF RailMoneyAccountedFor
  <2> QED  BY <2>1, <2>3 DEF MoneyIsTraced
<1> QED  BY <1>1, AlwaysInv, InitMoney, NextMoney, PTL DEF Spec
=============================================================================
