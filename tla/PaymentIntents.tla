--------------------------- MODULE PaymentIntents ---------------------------
(***************************************************************************)
(* The payment lifecycle of bdpay.kernel.orchestrator up to capture, void  *)
(* or reversal, over Postgres.                                             *)
(*                                                                         *)
(* Every transaction is one step: its writes are compare-and-set on the    *)
(* status (update_intent / update_attempt with expected_status), and a     *)
(* mismatch rolls all of it back.  What is not atomic is what lies between *)
(* transactions.  A dispatching task keeps the snapshots it read before    *)
(* `await runner.submit' and applies the answer to them afterwards.  When  *)
(* an attempt fails, the next one is dispatched inside the transaction     *)
(* that records the failure, so that a rail call is awaited while rows are *)
(* locked and the new attempt is not committed (`open' and `draft').       *)
(* Meanwhile the TTL sweep, callbacks, polls, the merchant and several     *)
(* reversal dispatchers act on the committed rows.                         *)
(*                                                                         *)
(* The rail is external: per submission it has or has not moved money, and *)
(* the answers it gives may be late, repeated or lost.                     *)
(***************************************************************************)
EXTENDS Naturals, FiniteSets, PaymentTables

CONSTANTS
    Intents,
    Reversers,                 \* processes that run reversal-dispatch
    MAX_ATTEMPTS_PER_INTENT,
    MAX_STATUS_POLLS,
    MaxSubmissions,            \* bound: rail submissions per intent
    MaxAbandons,               \* bound: tasks lost to a crash or cancellation
    PollResults,               \* what query_status may wrongly return to a poll
    NoIntent

ASSUME IntentsAssumption ==
    /\ MAX_ATTEMPTS_PER_INTENT \in Nat \ {0}
    /\ MAX_STATUS_POLLS \in Nat \ {0}
    /\ MaxSubmissions \in Nat
    /\ MaxAbandons \in Nat
    /\ "SUCCESS" \notin PollResults
    /\ NoIntent \notin Intents

VARIABLES
    db,        \* committed rows of an intent: its status, attempts and ledger effects
    draft,     \* the same rows as the open transaction of the intent sees them
    open,      \* the task that holds a transaction open on the intent, or "none"
    task,      \* per intent: the request task and the callback task
    rail,      \* per intent and submission: what the rail has done
    sent,      \* per intent: submissions used
    due,       \* expires_at <= now
    hot,       \* REVERSAL_PENDING_RETRY_AFTER has not passed since the last claim
    rev,       \* per reverser: its execute_reversal frame
    missing,   \* payment_intent.ledger_post_failed was recorded
    abandons,
    manual,    \* the intents with capture_method "manual"
    rough      \* the intents whose tasks may be lost, whose polls may err and whose
               \* FAILED answers may hide a payment (a transport error)

moving == <<db, draft, open, task, rail, sent, due, hot, rev, missing, abandons>>
kinds == <<manual, rough>>
vars == <<moving, kinds>>

Numbers == 1..MAX_ATTEMPTS_PER_INTENT
Tasks   == {"request", "callback"}

IntentStates ==
    {"ABSENT", "CREATED", "REQUIRES_PAYMENT_METHOD", "REQUIRES_CONFIRMATION",
     "REQUIRES_ACTION", "PROCESSING", "REQUIRES_CAPTURE", "SUCCEEDED", "FAILED",
     "CANCELLED", "REVERSAL_INITIATED", "REVERSAL_PENDING", "REVERSED"}
Terminal == {"FAILED", "CANCELLED", "REVERSED"}
AttemptStates ==
    {"ABSENT", "STARTED", "AUTHORIZATION_PENDING", "AUTHORIZATION_FAILED",
     "TIMED_OUT", "AUTHORIZED", "CHARGED", "VOIDED", "REVERSED"}
Results ==
    {"SUCCESS", "PENDING", "REJECTED", "FAILED", "CIRCUIT_OPEN", "TIMED_OUT", "REVERSED"}
RailStates == {"UNUSED", "OPEN", "MOVED", "REFUSED", "REVERSED", "CANCELLED"}

Rows ==
    [status   : IntentStates,
     att      : [Numbers -> AttemptStates],
     ref      : [Numbers -> 0..MaxSubmissions],   \* connector_ref of the attempt
     n        : 0..MAX_ATTEMPTS_PER_INTENT,       \* attempts that exist
     polls    : 0..MAX_STATUS_POLLS,              \* poll_count of the latest attempt
     hold     : {"NONE", "OPEN", "CAPTURED", "VOIDED"},
     captured : BOOLEAN,                          \* payment_captured posted
     queued   : BOOLEAN]                          \* compensation_item.queued

TypeOK ==
    /\ db \in [Intents -> Rows] /\ draft \in [Intents -> Rows]
    /\ open \in [Intents -> Tasks \cup {"none"}]
    /\ task \in [Intents -> [Tasks ->
                  [at : {"idle", "dispatch", "submit", "wait", "apply"},
                   k : Numbers, res : Results]]]
    /\ sent \in [Intents -> 0..MaxSubmissions]
    /\ rail \in [Intents -> [0..MaxSubmissions -> RailStates]]
    /\ due \in [Intents -> BOOLEAN] /\ hot \in [Intents -> BOOLEAN]
    /\ missing \in [Intents -> BOOLEAN]
    /\ rev \in [Reversers -> [at : {"idle", "calling", "apply"},
                              i : Intents \cup {NoIntent},
                              ref : 0..MaxSubmissions, res : Results]]
    /\ abandons \in 0..MaxAbandons
    /\ manual \subseteq Intents /\ rough \subseteq Intents

NewRow == [status |-> "ABSENT", att |-> [k \in Numbers |-> "ABSENT"],
           ref |-> [k \in Numbers |-> 0], n |-> 0, polls |-> 0,
           hold |-> "NONE", captured |-> FALSE, queued |-> FALSE]
IdleTask == [at |-> "idle", k |-> 1, res |-> "PENDING"]
IdleRev  == [at |-> "idle", i |-> NoIntent, ref |-> 0, res |-> "PENDING"]

Init ==
    /\ db = [i \in Intents |-> NewRow] /\ draft = db
    /\ open = [i \in Intents |-> "none"]
    /\ task = [i \in Intents |-> [t \in Tasks |-> IdleTask]]
    /\ sent = [i \in Intents |-> 0] /\ abandons = 0
    /\ rail = [i \in Intents |-> [s \in 0..MaxSubmissions |-> "UNUSED"]]
    /\ due = [i \in Intents |-> FALSE] /\ hot = due /\ missing = due
    /\ rev = [r \in Reversers |-> IdleRev]
    /\ manual \in SUBSET Intents /\ rough \in SUBSET Intents
-----------------------------------------------------------------------------
IntentMove(row, trigger, to) == Resolves(INTENT_TABLE, row.status, trigger, to)
AttemptMove(row, k, trigger, to) == Resolves(ATTEMPT_TABLE, row.att[k], trigger, to)

(* Row locks: while a task holds a transaction open on an intent, other     *)
(* writers of its rows wait.                                                *)
Free(i) == open[i] = "none"

(* A transaction that reads and writes committed rows and commits at once.  *)
Commit(i, row) ==
    /\ Free(i)
    /\ db' = [db EXCEPT ![i] = row]
    /\ UNCHANGED <<draft, open>>

CreateIntent(i) ==
    /\ db[i].status = "ABSENT"
    /\ Commit(i, [db[i] EXCEPT !.status = "CREATED"])
    /\ UNCHANGED <<task, rail, sent, due, hot, rev, missing, abandons>>

SupplyMethod(i) ==
    \E to \in IntentStates :
        /\ IntentMove(db[i], "method_supplied", to)
        /\ Commit(i, [db[i] EXCEPT !.status = to])
        /\ UNCHANGED <<task, rail, sent, due, hot, rev, missing, abandons>>

Spawn(i, t, k) ==
    task' = [task EXCEPT ![i][t] = [at |-> "dispatch", k |-> k, res |-> "PENDING"]]

(* confirm: one transaction takes the intent through PRE_FLIGHT; a passed    *)
(* pre-flight is dispatched after the commit.                                *)
Confirm(i, trigger) ==
    \E to \in IntentStates :
        /\ IntentMove(db[i], "confirm", "PRE_FLIGHT")
        /\ Resolves(INTENT_TABLE, "PRE_FLIGHT", trigger, to)
        /\ Commit(i, [db[i] EXCEPT !.status = to])
        /\ IF trigger = "preflight_passed" THEN Spawn(i, "request", 1) ELSE task' = task
        /\ UNCHANGED <<rail, sent, due, hot, rev, missing, abandons>>

CompleteAction(i, trigger) ==
    \E to \in IntentStates :
        /\ trigger \in {"action_completed", "action_failed"}
        /\ IntentMove(db[i], trigger, to)
        /\ Commit(i, [db[i] EXCEPT !.status = to])
        /\ IF trigger = "action_completed" THEN Spawn(i, "request", 1) ELSE task' = task
        /\ UNCHANGED <<rail, sent, due, hot, rev, missing, abandons>>

(* cancel, with _void for an authorized intent.                              *)
Cancel(i) ==
    /\ IntentMove(db[i], "cancel_requested", "CANCELLED")
    /\ Commit(i, [db[i] EXCEPT !.status = "CANCELLED"])
    /\ UNCHANGED <<task, rail, sent, due, hot, rev, missing, abandons>>

VoidedButHeld(row) ==
    IF row.n > 0 /\ row.att[row.n] = "AUTHORIZED"
    THEN [row EXCEPT !.att[row.n] = "VOIDED"] ELSE row

Voided(row) ==
    IF row.n > 0 /\ row.att[row.n] = "AUTHORIZED"
    THEN [row EXCEPT !.hold = "VOIDED", !.att[row.n] = "VOIDED"]
    ELSE row

Void(i) ==
    /\ IntentMove(db[i], "void_requested", "CANCELLED")
    /\ Voided(db[i]) # db[i] => db[i].hold = "OPEN"
    /\ Commit(i, [Voided(db[i]) EXCEPT !.status = "CANCELLED"])
    /\ UNCHANGED <<task, rail, sent, due, hot, rev, missing, abandons>>
-----------------------------------------------------------------------------
(* _dispatch and _apply_connector_result, by the request task and, for a    *)
(* retry that a callback set off, by the callback task.                     *)

Work(i, t)    == IF open[i] = t THEN draft[i] ELSE db[i]
CanWork(i, t) == open[i] \in {"none", t}

(* The task's transaction commits `row' and the task ends.                  *)
Finish(i, t, row) ==
    /\ db' = [db EXCEPT ![i] = row]
    /\ open' = [open EXCEPT ![i] = "none"]
    /\ draft' = [draft EXCEPT ![i] = NewRow]
    /\ task' = [task EXCEPT ![i][t] = IdleTask]

(* An exception ends the task: what its transaction wrote is rolled back.   *)
RollBack(i, t) ==
    /\ open' = [open EXCEPT ![i] = IF @ = t THEN "none" ELSE @]
    /\ draft' = [draft EXCEPT ![i] = IF open[i] = t THEN NewRow ELSE @]
    /\ task' = [task EXCEPT ![i][t] = IdleTask]
    /\ db' = db

Put(i, t, row) ==
    /\ IF open[i] = t THEN draft' = [draft EXCEPT ![i] = row] /\ db' = db
                      ELSE db' = [db EXCEPT ![i] = row] /\ draft' = draft
    /\ open' = open

(* select_connector returns STORE_AND_FORWARD: the intent stays PROCESSING   *)
(* without an attempt.                                                       *)
Defer(i, t) ==
    /\ task[i][t].at = "dispatch" /\ CanWork(i, t)
    /\ Finish(i, t, Work(i, t))
    /\ UNCHANGED <<rail, sent, due, hot, rev, missing, abandons>>

(* insert_attempt writes no status of the intent and checks none.            *)
InsertAttempt(i, t) ==
    LET k == task[i][t].k IN
    /\ task[i][t].at = "dispatch" /\ CanWork(i, t)
    /\ sent[i] < MaxSubmissions
    /\ sent' = [sent EXCEPT ![i] = @ + 1]
    /\ Put(i, t, [Work(i, t) EXCEPT !.att[k] = "STARTED", !.ref[k] = sent[i] + 1,
                                    !.n = k, !.polls = 0])
    /\ task' = [task EXCEPT ![i][t].at = "submit"]
    /\ UNCHANGED <<rail, due, hot, rev, missing, abandons>>

(* The attempt becomes AUTHORIZATION_PENDING and runner.submit is called: the *)
(* submission is open until the rail, or the breaker, decides it.            *)
Submit(i, t) ==
    LET k == task[i][t].k
        row == Work(i, t) IN
    /\ task[i][t].at = "submit" /\ CanWork(i, t)
    /\ AttemptMove(row, k, "submitted", "AUTHORIZATION_PENDING")
    /\ Put(i, t, [row EXCEPT !.att[k] = "AUTHORIZATION_PENDING"])
    /\ rail' = [rail EXCEPT ![i][row.ref[k]] = "OPEN"]
    /\ task' = [task EXCEPT ![i][t].at = "wait"]
    /\ UNCHANGED <<sent, due, hot, rev, missing, abandons>>

(* <<answer of runner.submit, rail before, rail after>>.  A hard timeout and *)
(* a pending answer say nothing of the rail; neither does FAILED when it     *)
(* stands for a transport error.                                             *)
PlainAnswers ==
    { <<"SUCCESS", "OPEN", "MOVED">>, <<"SUCCESS", "MOVED", "MOVED">>,
      <<"CIRCUIT_OPEN", "OPEN", "REFUSED">> }
    \cup { <<x, s, "REFUSED">> : x \in {"FAILED", "REJECTED"}, s \in {"OPEN", "REFUSED"} }
    \cup { <<x, s, s>> : x \in {"PENDING", "TIMED_OUT"}, s \in RailStates \ {"UNUSED"} }

SubmitAnswers(i) ==
    PlainAnswers \cup { <<"FAILED", s, s>> : s \in IF i \in rough THEN {"OPEN", "MOVED"} ELSE {} }

SubmitReturns(i, t, res, to) ==
    LET ref == Work(i, t).ref[task[i][t].k] IN
    /\ task[i][t].at = "wait"
    /\ <<res, rail[i][ref], to>> \in SubmitAnswers(i)
    /\ rail' = [rail EXCEPT ![i][ref] = to]
    /\ task' = [task EXCEPT ![i][t].at = "apply", ![i][t].res = res]
    /\ UNCHANGED <<db, draft, open, sent, due, hot, rev, missing, abandons>>

(* What a callback or a status query can truthfully say of a submission,     *)
(* now or as a late copy of an earlier message.                              *)
Reports(s) ==
    CASE s = "UNUSED"    -> {}
      [] s = "OPEN"      -> {"PENDING"}
      [] s = "MOVED"     -> {"PENDING", "SUCCESS"}
      [] s = "REFUSED"   -> {"PENDING", "FAILED", "REJECTED"}
      [] s = "REVERSED"  -> {"PENDING", "SUCCESS", "REVERSED"}
      [] s = "CANCELLED" -> {"PENDING", "REVERSED"}

(* apply_inbound_connector_result for an attempt still AUTHORIZATION_PENDING. *)
(* An attempt that is not committed is unknown: the callback is SKIPPED.     *)
ReceiveCallback(i, k, res) ==
    /\ task[i]["callback"].at = "idle"
    /\ db[i].att[k] = "AUTHORIZATION_PENDING"
    /\ res \in Reports(rail[i][db[i].ref[k]])
    /\ task' = [task EXCEPT ![i]["callback"] = [at |-> "apply", k |-> k, res |-> res]]
    /\ UNCHANGED <<db, draft, open, rail, sent, due, hot, rev, missing, abandons>>

Applying(i, t, res) == task[i][t].at = "apply" /\ task[i][t].res = res /\ CanWork(i, t)

ApplyAuthorized(i, t) ==
    LET row == Work(i, t)
        k == task[i][t].k IN
    /\ Applying(i, t, "SUCCESS") /\ i \in manual
    /\ AttemptMove(row, k, "connector_authorized", "AUTHORIZED")
    /\ IntentMove(row, "attempt_authorized", "REQUIRES_CAPTURE")
    /\ Finish(i, t, [row EXCEPT !.att[k] = "AUTHORIZED", !.hold = "OPEN",
                                !.status = "REQUIRES_CAPTURE"])
    /\ due' = [due EXCEPT ![i] = FALSE]      \* expires_at := auth_expires_at
    /\ UNCHANGED <<rail, sent, hot, rev, missing, abandons>>

Charged(row, k) ==
    [row EXCEPT !.att[k] = "CHARGED", !.captured = TRUE, !.status = "SUCCEEDED"]

ApplyChargedBlindly(i, t) ==
    LET k == task[i][t].k IN
    /\ Applying(i, t, "SUCCESS") /\ i \notin manual
    /\ AttemptMove(Work(i, t), k, "connector_success_direct", "CHARGED")
    /\ Finish(i, t, Charged(Work(i, t), k))
    /\ UNCHANGED <<rail, sent, due, hot, rev, missing, abandons>>

ApplyCharged(i, t) ==
    LET row == Work(i, t)
        k == task[i][t].k IN
    /\ Applying(i, t, "SUCCESS") /\ i \notin manual
    /\ AttemptMove(row, k, "connector_success_direct", "CHARGED")
    /\ IntentMove(row, "attempt_charged", "SUCCEEDED")
    /\ Finish(i, t, Charged(row, k))
    /\ UNCHANGED <<rail, sent, due, hot, rev, missing, abandons>>

(* The capture or the hold cannot be posted: the discrepancy is recorded     *)
(* outside the transaction, which rolls back.                                *)
LedgerPostFails(i, t) ==
    /\ Applying(i, t, "SUCCESS")
    /\ Work(i, t).att[task[i][t].k] = "AUTHORIZATION_PENDING"
    /\ RollBack(i, t)
    /\ missing' = [missing EXCEPT ![i] = TRUE]
    /\ UNCHANGED <<rail, sent, due, hot, rev, abandons>>

ApplyPending(i, t) ==
    /\ Applying(i, t, "PENDING")
    /\ Work(i, t).att[task[i][t].k] = "AUTHORIZATION_PENDING"
    /\ Finish(i, t, Work(i, t))
    /\ UNCHANGED <<rail, sent, due, hot, rev, missing, abandons>>

ApplyTimedOut(i, t) ==
    LET row == Work(i, t)
        k == task[i][t].k IN
    /\ Applying(i, t, "TIMED_OUT")
    /\ AttemptMove(row, k, "connector_timeout", "TIMED_OUT")
    /\ IntentMove(row, "attempt_timed_out", "PROCESSING")
    /\ Finish(i, t, [row EXCEPT !.att[k] = "TIMED_OUT"])
    /\ UNCHANGED <<rail, sent, due, hot, rev, missing, abandons>>

Declined(row, k) ==
    [row EXCEPT !.att[k] = "AUTHORIZATION_FAILED", !.status = "FAILED"]
Retryable == {"FAILED", "CIRCUIT_OPEN"}

ApplyDeclined(i, t) ==
    LET row == Work(i, t)
        k == task[i][t].k IN
    /\ \/ Applying(i, t, "REJECTED")
       \/ k = MAX_ATTEMPTS_PER_INTENT /\ \E res \in Retryable : Applying(i, t, res)
    /\ AttemptMove(row, k, "connector_rejected", "AUTHORIZATION_FAILED")
    /\ IntentMove(row, "attempt_hard_declined", "FAILED")
    /\ Finish(i, t, Declined(row, k))
    /\ UNCHANGED <<rail, sent, due, hot, rev, missing, abandons>>

ApplyRetryableUnrecorded(i, t) ==
    LET k == task[i][t].k IN
    /\ \E res \in Retryable : Applying(i, t, res)
    /\ k < MAX_ATTEMPTS_PER_INTENT
    /\ AttemptMove(Work(i, t), k, "connector_failed", "AUTHORIZATION_FAILED")
    /\ IntentMove(Work(i, t), "attempt_failed_retryable", "PROCESSING")
    /\ draft' = [draft EXCEPT ![i] = Work(i, t)]
    /\ open' = [open EXCEPT ![i] = t]
    /\ Spawn(i, t, k + 1)
    /\ UNCHANGED <<db, rail, sent, due, hot, rev, missing, abandons>>

(* The retry: the transaction that fails attempt k stays open and dispatches *)
(* attempt k + 1, under a new connector_ref.                                 *)
ApplyRetryable(i, t) ==
    LET row == Work(i, t)
        k == task[i][t].k IN
    /\ \E res \in Retryable : Applying(i, t, res)
    /\ k < MAX_ATTEMPTS_PER_INTENT
    /\ AttemptMove(row, k, "connector_failed", "AUTHORIZATION_FAILED")
    /\ IntentMove(row, "attempt_failed_retryable", "PROCESSING")
    /\ draft' = [draft EXCEPT ![i] = [row EXCEPT !.att[k] = "AUTHORIZATION_FAILED"]]
    /\ open' = [open EXCEPT ![i] = t]
    /\ Spawn(i, t, k + 1)
    /\ UNCHANGED <<db, rail, sent, due, hot, rev, missing, abandons>>

(* A compare-and-set misses, or the status is one _apply_connector_result    *)
(* does not know (a REVERSED callback): ConflictError.                       *)
ApplyRaises(i, t) ==
    LET row == Work(i, t)
        k == task[i][t].k IN
    /\ task[i][t].at = "apply" /\ CanWork(i, t)
    /\ \/ row.att[k] # "AUTHORIZATION_PENDING"
       \/ task[i][t].res = "REVERSED"
       \/ task[i][t].res # "PENDING" /\ row.status # "PROCESSING"
    /\ RollBack(i, t)
    /\ UNCHANGED <<rail, sent, due, hot, rev, missing, abandons>>
-----------------------------------------------------------------------------
(* _apply_status_poll_result, for a callback that finds the attempt          *)
(* TIMED_OUT and for poll_timed_out_attempt.  It reads both rows afresh.     *)

Polled(i, k, res) ==
    /\ db[i].att[k] = "TIMED_OUT"
    /\ res \in Reports(rail[i][db[i].ref[k]]) \cup IF i \in rough THEN PollResults ELSE {}

PollCharges(i, k) ==
    /\ Polled(i, k, "SUCCESS")
    /\ AttemptMove(db[i], k, "poll_success", "CHARGED")
    /\ IntentMove(db[i], "attempt_charged", "SUCCEEDED")
    /\ Commit(i, Charged(db[i], k))
    /\ UNCHANGED <<task, rail, sent, due, hot, rev, missing, abandons>>

PollPostFails(i, k) ==
    /\ Polled(i, k, "SUCCESS") /\ Free(i)
    /\ missing' = [missing EXCEPT ![i] = TRUE]
    /\ UNCHANGED <<db, draft, open, task, rail, sent, due, hot, rev, abandons>>

PollReversed(i, k) ==
    /\ Polled(i, k, "REVERSED")
    /\ IntentMove(db[i], "reversal_triggered", "REVERSAL_INITIATED")
    /\ Commit(i, [db[i] EXCEPT !.att[k] = "REVERSED", !.status = "REVERSAL_INITIATED"])
    /\ UNCHANGED <<task, rail, sent, due, hot, rev, missing, abandons>>

PollPending(i, k) ==
    /\ Polled(i, k, "PENDING")
    /\ db[i].polls + 1 < MAX_STATUS_POLLS
    /\ Commit(i, [db[i] EXCEPT !.polls = @ + 1])
    /\ UNCHANGED <<task, rail, sent, due, hot, rev, missing, abandons>>

PollExhausted(i, k) ==
    /\ Polled(i, k, "PENDING")
    /\ db[i].polls + 1 >= MAX_STATUS_POLLS
    /\ IntentMove(db[i], "reversal_triggered", "REVERSAL_INITIATED")
    /\ Commit(i, [db[i] EXCEPT !.polls = MAX_STATUS_POLLS, !.att[k] = "AUTHORIZATION_FAILED",
                               !.status = "REVERSAL_INITIATED"])
    /\ UNCHANGED <<task, rail, sent, due, hot, rev, missing, abandons>>

(* Every other answer is taken as a refusal, a TIMED_OUT query included.     *)
PollFails(i, k) ==
    /\ \E res \in Results \ {"SUCCESS", "REVERSED", "PENDING"} : Polled(i, k, res)
    /\ IntentMove(db[i], "attempt_hard_declined", "FAILED")
    /\ Commit(i, Declined(db[i], k))
    /\ UNCHANGED <<task, rail, sent, due, hot, rev, missing, abandons>>
-----------------------------------------------------------------------------
(* capture, of the whole authorization; a smaller amount only changes what   *)
(* may be refunded (see Refunds).                                            *)
Capture(i) ==
    LET row == db[i] IN
    /\ IntentMove(row, "capture_requested", "SUCCEEDED")
    /\ row.n > 0 /\ row.att[row.n] = "AUTHORIZED" /\ row.hold = "OPEN"
    /\ Commit(i, [Charged(row, row.n) EXCEPT !.hold = "CAPTURED"])
    /\ UNCHANGED <<task, rail, sent, due, hot, rev, missing, abandons>>

CapturePostFails(i) ==
    /\ db[i].status = "REQUIRES_CAPTURE" /\ Free(i)
    /\ missing' = [missing EXCEPT ![i] = TRUE]
    /\ UNCHANGED <<db, draft, open, task, rail, sent, due, hot, rev, abandons>>

Expires(i) ==
    /\ ~due[i] /\ db[i].status # "ABSENT"
    /\ due' = [due EXCEPT ![i] = TRUE]
    /\ UNCHANGED <<db, draft, open, task, rail, sent, hot, rev, missing, abandons>>

Expired(s) ==
    CASE s \in {"CREATED", "REQUIRES_PAYMENT_METHOD", "REQUIRES_CONFIRMATION"} -> "CANCELLED"
      [] s = "REQUIRES_ACTION" -> "FAILED"
      [] s \in {"PROCESSING", "REQUIRES_CAPTURE"} -> "REVERSAL_INITIATED"
      [] OTHER -> s

(* sweep_expired_intents: all the expired intents in one transaction.        *)
Sweepable == {i \in Intents : due[i] /\ Expired(db[i].status) # db[i].status}
Sweep ==
    /\ Sweepable # {}
    /\ \A i \in Sweepable : Free(i)
    /\ db' = [i \in Intents |-> IF i \in Sweepable
                                THEN [db[i] EXCEPT !.status = Expired(@)] ELSE db[i]]
    /\ UNCHANGED <<draft, open, task, rail, sent, due, hot, rev, missing, abandons>>
-----------------------------------------------------------------------------
(* execute_reversal: claim, rail call, apply.                                *)

ClaimReversalOnce(r, i) ==
    LET row == db[i] IN
    /\ rev[r].at = "idle" /\ row.status = "REVERSAL_INITIATED" /\ row.n > 0
    /\ Commit(i, [row EXCEPT !.status = "REVERSAL_PENDING"])
    /\ hot' = [hot EXCEPT ![i] = TRUE]
    /\ rev' = [rev EXCEPT ![r] = [at |-> "calling", i |-> i, ref |-> row.ref[row.n],
                                  res |-> "PENDING"]]
    /\ UNCHANGED <<task, rail, sent, due, missing, abandons>>

ClaimReversal(r, i) ==
    LET row == db[i] IN
    /\ rev[r].at = "idle"
    /\ IntentMove(row, "reversal_dispatch_claimed", "REVERSAL_PENDING")
    /\ row.status = "REVERSAL_PENDING" => ~hot[i]
    /\ row.n > 0                      \* otherwise "no attempt to reverse" undoes the claim
    /\ Commit(i, [row EXCEPT !.status = "REVERSAL_PENDING"])
    /\ hot' = [hot EXCEPT ![i] = TRUE]
    /\ rev' = [rev EXCEPT ![r] = [at |-> "calling", i |-> i, ref |-> row.ref[row.n],
                                  res |-> "PENDING"]]
    /\ UNCHANGED <<task, rail, sent, due, missing, abandons>>

(* REVERSAL_PENDING_RETRY_AFTER passes.                                      *)
Cools(i) ==
    /\ hot[i] /\ hot' = [hot EXCEPT ![i] = FALSE]
    /\ UNCHANGED <<db, draft, open, task, rail, sent, due, rev, missing, abandons>>

(* <<answer of runner.reverse, rail before, rail after>>.                    *)
ReverseAnswers ==
    { <<x, "MOVED", "REVERSED">> : x \in {"REVERSED", "TIMED_OUT"} }
    \cup { <<x, "OPEN", "CANCELLED">> : x \in {"REVERSED", "TIMED_OUT"} }
    \cup { <<"REVERSED", s, s>> : s \in {"REFUSED", "REVERSED", "CANCELLED"} }
    \cup { <<x, s, s>> : x \in {"REJECTED", "FAILED", "CIRCUIT_OPEN", "TIMED_OUT", "PENDING"},
                         s \in RailStates }

ReverseReturns(r, res, to) ==
    LET i == rev[r].i IN
    /\ rev[r].at = "calling"
    /\ <<res, rail[i][rev[r].ref], to>> \in ReverseAnswers
    /\ rail' = [rail EXCEPT ![i][rev[r].ref] = to]
    /\ rev' = [rev EXCEPT ![r].at = "apply", ![r].res = res]
    /\ UNCHANGED <<db, draft, open, task, sent, due, hot, missing, abandons>>

(* A CHARGED attempt would also be reversed in the books here.               *)
Unwound(row) ==
    IF row.att[row.n] = "CHARGED"
    THEN [row EXCEPT !.att[row.n] = "REVERSED", !.captured = FALSE]
    ELSE Voided(row)

ApplyReversalUnchecked(r) ==
    LET i == rev[r].i IN
    /\ rev[r].at = "apply"
    /\ Commit(i, IF rev[r].res = "REVERSED"
                 THEN [Unwound(db[i]) EXCEPT !.status = "REVERSED"]
                 ELSE [db[i] EXCEPT !.status = "FAILED", !.queued = TRUE])
    /\ rev' = [rev EXCEPT ![r] = IdleRev]
    /\ UNCHANGED <<task, rail, sent, due, hot, missing, abandons>>

ApplyReversal(r) ==
    LET i == rev[r].i
        row == db[i] IN
    /\ rev[r].at = "apply"
    /\ \/ /\ rev[r].res = "REVERSED" /\ IntentMove(row, "reversal_confirmed", "REVERSED")
          /\ Commit(i, [Unwound(row) EXCEPT !.status = "REVERSED"])
       \/ /\ rev[r].res # "REVERSED" /\ IntentMove(row, "reversal_failed", "FAILED")
          /\ Commit(i, [row EXCEPT !.status = "FAILED", !.queued = TRUE])
       \/ /\ row.status \notin {"REVERSAL_INITIATED", "REVERSAL_PENDING"}
          /\ UNCHANGED <<db, draft, open>>
    /\ rev' = [rev EXCEPT ![r] = IdleRev]
    /\ UNCHANGED <<task, rail, sent, due, hot, missing, abandons>>
-----------------------------------------------------------------------------
(* The rail settles an open submission.                                      *)
RailDecides(i, ref, to) ==
    /\ rail[i][ref] = "OPEN" /\ to \in {"MOVED", "REFUSED"}
    /\ rail' = [rail EXCEPT ![i][ref] = to]
    /\ UNCHANGED <<db, draft, open, task, sent, due, hot, rev, missing, abandons>>

(* A crash or a cancelled request loses a task and its open transaction.     *)
Abandon(i, t) ==
    /\ i \in rough /\ abandons < MaxAbandons /\ task[i][t].at # "idle"
    /\ RollBack(i, t)
    /\ abandons' = abandons + 1
    /\ UNCHANGED <<rail, sent, due, hot, rev, missing>>

AbandonReversal(r) ==
    /\ rev[r].i \in rough /\ abandons < MaxAbandons /\ rev[r].at # "idle"
    /\ rev' = [rev EXCEPT ![r] = IdleRev]
    /\ abandons' = abandons + 1
    /\ UNCHANGED <<db, draft, open, task, rail, sent, due, hot, missing>>

Merchant(i) ==
    \/ CreateIntent(i) \/ SupplyMethod(i) \/ Cancel(i) \/ Void(i)
    \/ Capture(i) \/ CapturePostFails(i)
    \/ \E trigger \in {"preflight_passed", "action_required", "aml_block"} : Confirm(i, trigger)
    \/ \E trigger \in {"action_completed", "action_failed"} : CompleteAction(i, trigger)

TaskStep(i, t) ==
    \/ Defer(i, t) \/ InsertAttempt(i, t) \/ Submit(i, t)
    \/ \E res \in Results, to \in RailStates : SubmitReturns(i, t, res, to)
    \/ ApplyAuthorized(i, t) \/ ApplyCharged(i, t) \/ LedgerPostFails(i, t)
    \/ ApplyPending(i, t) \/ ApplyTimedOut(i, t) \/ ApplyDeclined(i, t)
    \/ ApplyRetryable(i, t) \/ ApplyRaises(i, t)

Inbound(i, k) ==
    \/ \E res \in Results : ReceiveCallback(i, k, res)
    \/ PollCharges(i, k) \/ PollPostFails(i, k) \/ PollReversed(i, k)
    \/ PollPending(i, k) \/ PollExhausted(i, k) \/ PollFails(i, k)

ReverserStep(r) ==
    \/ \E i \in Intents : ClaimReversal(r, i)
    \/ \E res \in Results, to \in RailStates : ReverseReturns(r, res, to)
    \/ ApplyReversal(r)

Step ==
    \/ Sweep
    \/ \E i \in Intents :
         \/ Merchant(i) \/ Expires(i) \/ Cools(i)
         \/ \E t \in Tasks : TaskStep(i, t) \/ Abandon(i, t)
         \/ \E k \in Numbers : Inbound(i, k)
         \/ \E ref \in 1..MaxSubmissions, to \in RailStates : RailDecides(i, ref, to)
    \/ \E r \in Reversers : ReverserStep(r) \/ AbandonReversal(r)

Next == Step /\ UNCHANGED kinds

Spec == Init /\ [][Next]_vars

(* The schedulers tick for ever, every rail call ends (the runner's hard     *)
(* timeout) and the clock advances.  Merchants and callbacks owe nothing.    *)
Scheduled ==
    /\ WF_moving(Sweep)
    /\ \A i \in Intents : WF_moving(Expires(i)) /\ WF_moving(Cools(i))
    /\ \A i \in Intents, t \in Tasks : WF_moving(TaskStep(i, t))
    /\ \A r \in Reversers : WF_moving(ReverserStep(r))

FairSpec == Spec /\ Scheduled
-----------------------------------------------------------------------------
Reversing == {"REVERSAL_INITIATED", "REVERSAL_PENDING"}

(* The books and the lifecycle tell one story at every commit, whatever was  *)
(* swept, called back or retried in between: a capture is posted exactly for *)
(* a SUCCEEDED intent with a CHARGED attempt, and a hold is open exactly     *)
(* while its attempt is AUTHORIZED.                                          *)
BooksAgree ==
    \A i \in Intents :
        LET row == db[i] IN
        /\ row.captured <=> row.status = "SUCCEEDED"
        /\ row.captured <=> \E k \in Numbers : row.att[k] = "CHARGED"
        /\ row.hold = "OPEN" <=> \E k \in Numbers : row.att[k] = "AUTHORIZED"

(* A hold outlives its intent only when a reversal failed, and then an       *)
(* operator has been asked to compensate (compensation_item.queued).         *)
HoldIsAttended ==
    \A i \in Intents :
        db[i].hold = "OPEN" =>
            \/ db[i].status \in Reversing \cup {"REQUIRES_CAPTURE"}
            \/ db[i].status = "FAILED" /\ db[i].queued

(* An intent has at most one attempt the rail may still act on, and it is    *)
(* the one that _latest_attempt finds: a reversal, which addresses only that *)
(* one, cannot miss another.                                                 *)
OneLiveAttempt ==
    \A i \in Intents, k \in Numbers :
        /\ k < db[i].n => db[i].att[k] = "AUTHORIZATION_FAILED"
        /\ k > db[i].n => db[i].att[k] = "ABSENT"

(* Nothing the rail may still act on is out of sight: neither an attempt a   *)
(* reversal would miss, nor a hold nobody is going to close.                 *)
AttemptsAreAttended == OneLiveAttempt /\ HoldIsAttended

(* A final status is final: a task that wakes up with the answer of a call   *)
(* it made while the intent was PROCESSING does not overwrite it.            *)
TerminalIsFinal ==
    [][\A i \in Intents : db[i].status \in Terminal \cup {"SUCCEEDED"} =>
                              db'[i].status = db[i].status]_vars

(* The books never show money that the rail did not move: a posted capture   *)
(* or an open hold belongs to a submission that succeeded.                   *)
BooksFollowRail ==
    \A i \in Intents :
        LET row == db[i] IN
        /\ row.captured => rail[i][row.ref[row.n]] = "MOVED"
        /\ row.hold = "OPEN" => rail[i][row.ref[row.n]] \in {"MOVED", "REVERSED"}

Quiet(i) == /\ \A t \in Tasks : task[i][t].at = "idle"
            /\ \A r \in Reversers : rev[r].i # i

(* Money the rail moved is not forgotten: when an intent has failed or been  *)
(* reversed and nothing is in flight for it, money still on the rail has     *)
(* been reported as a discrepancy or queued for compensation -- unless       *)
(* FAILED answers hide payments or tasks get lost on the way.                *)
RailMoneyAccountedFor ==
    \A i \in Intents \ rough, ref \in 1..MaxSubmissions :
        rail[i][ref] = "MOVED" /\ db[i].status \in {"FAILED", "REVERSED"} /\ Quiet(i)
            => db[i].queued \/ missing[i]

(* The books show no money the rail did not move, and no money it moved for  *)
(* an intent that failed is forgotten.                                       *)
MoneyIsTraced == BooksFollowRail /\ RailMoneyAccountedFor

(* The customer is charged at most once for an intent.                       *)
ChargedOnce ==
    \A i \in Intents :
        Cardinality({ref \in 1..MaxSubmissions : rail[i][ref] = "MOVED"}) <= 1

(* An intent does not stay PROCESSING: an answer, a callback or the TTL      *)
(* sweep takes it on.                                                        *)
ProcessingEnds ==
    \A i \in Intents : db[i].status = "PROCESSING" ~> db[i].status # "PROCESSING"

(* A reversal that has an attempt to reverse ends, even if the process that  *)
(* claimed it died after the claim.                                          *)
ReversalsEnd ==
    \A i \in Intents :
        db[i].status \in Reversing /\ db[i].n > 0 ~> db[i].status \notin Reversing

(* dispatch_pending_reversals: "drive every REVERSAL_INITIATED intent ...    *)
(* through execute_reversal".                                                *)
EveryReversalIsDriven ==
    \A i \in Intents : db[i].status = "REVERSAL_INITIATED" ~> db[i].status \in Terminal
=============================================================================
