------------------------------ MODULE Refunds ------------------------------
(***************************************************************************)
(* Refunds of one captured payment intent (create_refund, process_refund,  *)
(* _apply_refund_result and the refund callbacks of                        *)
(* bdpay.kernel.orchestrator) over Postgres.                               *)
(*                                                                         *)
(* The intent's row lock serialises creations and settlements.  A          *)
(* settlement reads the refund before it takes that lock, so it works on a *)
(* snapshot (`snap') that another settlement may have overtaken; the       *)
(* compare-and-set on the refund's status is what stops it.                *)
(***************************************************************************)
EXTENDS Naturals, FiniteSets, PaymentTables

CONSTANTS
    RefundIds,
    Agents,              \* request, callback and operator tasks that settle refunds
    RefundKeys, NoKey,   \* idempotency keys
    Captured,            \* amount_minor of the SUCCEEDED intent
    MAX_REFUND_RETRIES,
    NoRefund

ASSUME CapturedAssumption == Captured \in Nat \ {0}

VARIABLES
    intent,    \* status of the intent
    refund,    \* refund rows
    posted,    \* refund_settled journal entries, per refund
    rail,      \* what the rail has done for each refund
    agent      \* what each agent is doing

refunds == <<intent, refund, posted, rail, agent>>

IntentStatus == {"SUCCEEDED", "REFUND_INITIATED", "PARTIALLY_REFUNDED", "REFUNDED"}
RefundStatus == {"ABSENT", "REFUND_INITIATED", "REFUND_PENDING_CONNECTOR",
                 "REFUND_SUCCEEDED", "REFUND_FAILED"}
Outstanding  == {"REFUND_INITIATED", "REFUND_PENDING_CONNECTOR"}
Results      == {"SUCCESS", "REJECTED", "FAILED"}   \* FAILED, TIMED_OUT and PENDING alike

RefundRows == [status : RefundStatus, amount : 0..Captured,
               retries : 0..MAX_REFUND_RETRIES, key : RefundKeys \cup {NoKey}]
NoRow == [status |-> "ABSENT", amount |-> 0, retries |-> 0, key |-> NoKey]
Idle  == [at |-> "idle", id |-> NoRefund, res |-> "FAILED", snap |-> NoRow]

TypeOK ==
    /\ intent \in IntentStatus
    /\ refund \in [RefundIds -> RefundRows]
    /\ posted \in [RefundIds -> Nat]
    /\ rail \in [RefundIds -> {"NONE", "OPEN", "MOVED", "REFUSED"}]
    /\ agent \in [Agents -> [at : {"idle", "calling", "answered", "read"},
                             id : RefundIds \cup {NoRefund},
                             res : Results, snap : RefundRows]]

FInit ==
    /\ intent = "SUCCEEDED"
    /\ refund = [f \in RefundIds |-> NoRow]
    /\ rail = [f \in RefundIds |-> "NONE"]
    /\ posted = [f \in RefundIds |-> 0]
    /\ agent = [a \in Agents |-> Idle]

IntentMove(trigger, to) == Resolves(INTENT_TABLE, intent, trigger, to)

(* The amounts of some refunds, unit by unit, and their sum.                 *)
Units(S) == UNION {{f} \X (1 .. refund[f].amount) : f \in S}
Sum(S) == Cardinality(Units(S))
RefundedTotal == Sum({f \in RefundIds : refund[f].status = "REFUND_SUCCEEDED"})

(* _reserved_refund_total: everything that has not failed.                   *)
ReservedTotal ==
    Sum({f \in RefundIds : refund[f].status \notin {"ABSENT", "REFUND_FAILED"}})

InsertRefund(f, amount, key) ==
    /\ refund[f].status = "ABSENT"
    /\ key # NoKey => \A g \in RefundIds : refund[g].key # key
    /\ refund' = [refund EXCEPT ![f] = [status |-> "REFUND_INITIATED", amount |-> amount,
                                        retries |-> 0, key |-> key]]
    /\ intent' = "REFUND_INITIATED"
    /\ UNCHANGED <<posted, rail, agent>>

(* create_refund under the intent's row lock.  A key that was used returns   *)
(* the refund it created, or refuses: no step.                               *)
CreateRefund(f, amount, key) ==
    /\ intent \in {"SUCCEEDED", "PARTIALLY_REFUNDED"}
    /\ amount <= Captured - ReservedTotal
    /\ IntentMove("refund_initiated", "REFUND_INITIATED")
    /\ InsertRefund(f, amount, key)

(* process_refund: REFUND_INITIATED is advanced (autocommit) before the rail *)
(* call; a refund in any other status is sent to the rail as it is.          *)
Dispatch(a, f) ==
    /\ agent[a].at = "idle" /\ refund[f].status # "ABSENT"
    /\ refund' = IF refund[f].status = "REFUND_INITIATED"
                 THEN [refund EXCEPT ![f].status = "REFUND_PENDING_CONNECTOR"]
                 ELSE refund
    /\ rail' = [rail EXCEPT ![f] = IF @ = "NONE" THEN "OPEN" ELSE @]
    /\ agent' = [agent EXCEPT ![a] = [Idle EXCEPT !.at = "calling", !.id = f]]
    /\ UNCHANGED <<intent, posted>>

(* The rail is idempotent on the refund's connector_ref.                     *)
RailDecides(f, to) ==
    /\ rail[f] = "OPEN" /\ to \in {"MOVED", "REFUSED"}
    /\ rail' = [rail EXCEPT ![f] = to]
    /\ UNCHANGED <<intent, refund, posted, agent>>

Reports(f) == {"FAILED"} \cup IF rail[f] = "MOVED" THEN {"SUCCESS"}
                              ELSE IF rail[f] = "REFUSED" THEN {"REJECTED"} ELSE {}

RailAnswers(a, res) ==
    /\ agent[a].at = "calling" /\ res \in Reports(agent[a].id)
    /\ agent' = [agent EXCEPT ![a].at = "answered", ![a].res = res]
    /\ UNCHANGED <<intent, refund, posted, rail>>

(* A callback for a refund that is not pending is SKIPPED.                    *)
ReceiveCallback(a, f, res) ==
    /\ agent[a].at = "idle" /\ res \in Reports(f)
    /\ refund[f].status = "REFUND_PENDING_CONNECTOR"
    /\ agent' = [agent EXCEPT ![a] = [at |-> "answered", id |-> f, res |-> res, snap |-> NoRow]]
    /\ UNCHANGED <<intent, refund, posted, rail>>

(* _apply_refund_result: get_refund comes before lock_intent ...             *)
ReadRefund(a) ==
    /\ agent[a].at = "answered"
    /\ agent' = [agent EXCEPT ![a].at = "read", ![a].snap = refund[agent[a].id]]
    /\ UNCHANGED <<intent, refund, posted, rail>>

(* ... and everything below under that lock.  _advance_refund resolves the   *)
(* snapshot's status and compares it with the row's.                         *)
Advances(f, snap, trigger, to) ==
    refund[f].status = snap.status /\ Resolves(REFUND_TABLE, snap.status, trigger, to)

SettleSuccess(a) ==
    LET f == agent[a].id
        snap == agent[a].snap
        done == RefundedTotal + snap.amount IN
    /\ agent[a].at = "read" /\ agent[a].res = "SUCCESS"
    /\ done <= Captured
    /\ Advances(f, snap, "connector_success", "REFUND_SUCCEEDED")
    /\ refund' = [refund EXCEPT ![f].status = "REFUND_SUCCEEDED"]
    /\ posted' = [posted EXCEPT ![f] = @ + 1]
    /\ \E to \in IntentStatus :
          /\ IntentMove(IF done >= Captured THEN "refund_full_succeeded"
                                            ELSE "refund_partial_succeeded", to)
          /\ intent' = to
    /\ agent' = [agent EXCEPT ![a] = Idle]
    /\ UNCHANGED rail

RefundFailsForgetfully(a, f, retries) ==
    /\ refund' = [refund EXCEPT ![f].status = "REFUND_FAILED", ![f].retries = retries]
    /\ intent' = "SUCCEEDED"
    /\ agent' = [agent EXCEPT ![a] = Idle]
    /\ UNCHANGED <<posted, rail>>

(* _return_intent_after_refund_failure: the guard is prior_partial.          *)
RefundFails(a, f, retries) ==
    /\ refund' = [refund EXCEPT ![f].status = "REFUND_FAILED", ![f].retries = retries]
    /\ intent' = IF RefundedTotal > 0 THEN "PARTIALLY_REFUNDED" ELSE "SUCCEEDED"
    /\ IntentMove("refund_failed", intent')
    /\ agent' = [agent EXCEPT ![a] = Idle]
    /\ UNCHANGED <<posted, rail>>

SettleRejected(a) ==
    /\ agent[a].at = "read" /\ agent[a].res = "REJECTED"
    /\ Advances(agent[a].id, agent[a].snap, "connector_rejected", "REFUND_FAILED")
    /\ RefundFails(a, agent[a].id, agent[a].snap.retries)

(* retry_count is the snapshot's plus one: two overtaking failures count one. *)
SettleRetry(a) ==
    LET f == agent[a].id
        tries == agent[a].snap.retries + 1 IN
    /\ agent[a].at = "read" /\ agent[a].res = "FAILED"
    /\ Advances(f, agent[a].snap, "connector_failed", refund[f].status)
    /\ tries < MAX_REFUND_RETRIES
    /\ refund' = [refund EXCEPT ![f].retries = tries]
    /\ agent' = [agent EXCEPT ![a] = Idle]
    /\ UNCHANGED <<intent, posted, rail>>

SettleExhausted(a) ==
    /\ agent[a].at = "read" /\ agent[a].res = "FAILED"
    /\ Advances(agent[a].id, agent[a].snap, "retries_exhausted", "REFUND_FAILED")
    /\ agent[a].snap.retries + 1 >= MAX_REFUND_RETRIES
    /\ RefundFails(a, agent[a].id, agent[a].snap.retries + 1)

(* The compare-and-set misses, the posting fails or the task dies: the       *)
(* transaction rolls back.                                                   *)
GiveUp(a) ==
    /\ agent[a].at # "idle"
    /\ agent' = [agent EXCEPT ![a] = Idle]
    /\ UNCHANGED <<intent, refund, posted, rail>>

FNext ==
    \/ \E f \in RefundIds, amount \in 1..Captured, key \in RefundKeys \cup {NoKey} :
         CreateRefund(f, amount, key)
    \/ \E f \in RefundIds, to \in {"MOVED", "REFUSED"} : RailDecides(f, to)
    \/ \E a \in Agents :
         \/ \E f \in RefundIds : Dispatch(a, f)
         \/ \E f \in RefundIds, res \in Results : ReceiveCallback(a, f, res)
         \/ \E res \in Results : RailAnswers(a, res)
         \/ ReadRefund(a) \/ SettleSuccess(a) \/ SettleRejected(a)
         \/ SettleRetry(a) \/ SettleExhausted(a) \/ GiveUp(a)

FSpec == FInit /\ [][FNext]_refunds
-----------------------------------------------------------------------------
(* A succeeded refund has exactly one refund_settled entry, however many     *)
(* callbacks and process_refund calls settled it; any other refund has none. *)
SettledOnce ==
    \A f \in RefundIds : posted[f] = IF refund[f].status = "REFUND_SUCCEEDED" THEN 1 ELSE 0

(* The merchant's books never return more than was captured, and never less  *)
(* or more than the succeeded refunds.                                       *)
RefundsWithinCaptured == RefundedTotal <= Captured /\ SettledOnce

(* The status of the intent is the truth about its refunds.                  *)
StatusTellsRefunds ==
    /\ (intent = "REFUND_INITIATED") <=> (\E f \in RefundIds : refund[f].status \in Outstanding)
    /\ intent = "REFUNDED" <=> RefundedTotal = Captured
    /\ intent = "PARTIALLY_REFUNDED" => RefundedTotal > 0
    /\ intent = "SUCCEEDED" => RefundedTotal = 0

(* The books return no more than was captured, and the status of the intent  *)
(* tells what they returned.                                                 *)
RefundsAddUp == RefundsWithinCaptured /\ StatusTellsRefunds

(* A refund that has succeeded or failed is not touched by a settlement that *)
(* read it earlier, by a late callback or by a second process_refund.        *)
SettledRefundIsFinal ==
    [][\A f \in RefundIds : refund[f].status \in {"REFUND_SUCCEEDED", "REFUND_FAILED"} =>
                                refund'[f] = refund[f]]_refunds
=============================================================================
