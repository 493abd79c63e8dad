--------------------------- MODULE PaymentTables ---------------------------
(***************************************************************************)
(* The refusal-first transition tables of bdpay.kernel.payment_states and  *)
(* the lookup of bdpay.kernel.fsm.  A rule is <<from, trigger, to>>.  The  *)
(* guards of the tables only choose between two rules of one trigger, so a *)
(* guarded rule is the rule its guard selects.                             *)
(***************************************************************************)

PreDispatchRules ==
    { <<"CREATED", "method_supplied", "REQUIRES_PAYMENT_METHOD">>,
      <<"REQUIRES_PAYMENT_METHOD", "method_supplied", "REQUIRES_CONFIRMATION">>,
      <<"CREATED", "confirm", "PRE_FLIGHT">>,
      <<"REQUIRES_CONFIRMATION", "confirm", "PRE_FLIGHT">>,
      <<"PRE_FLIGHT", "preflight_passed", "PROCESSING">>,
      <<"PRE_FLIGHT", "action_required", "REQUIRES_ACTION">>,
      <<"REQUIRES_ACTION", "action_completed", "PROCESSING">>,
      <<"REQUIRES_ACTION", "action_failed", "FAILED">>,
      <<"REQUIRES_ACTION", "ttl_expired", "FAILED">> }
    \cup { <<"PRE_FLIGHT", t, "FAILED">> :
             t \in {"sanctions_hit", "aml_block", "limit_exceeded"} }
    \cup { <<s, t, "CANCELLED">> :
             s \in {"CREATED", "REQUIRES_PAYMENT_METHOD", "REQUIRES_CONFIRMATION"},
             t \in {"ttl_expired", "cancel_requested"} }

RailRules ==
    { <<"PROCESSING", "attempt_authorized", "REQUIRES_CAPTURE">>,
      <<"PROCESSING", "attempt_charged", "SUCCEEDED">>,
      <<"PROCESSING", "attempt_failed_retryable", "PROCESSING">>,
      <<"PROCESSING", "attempt_timed_out", "PROCESSING">>,
      <<"PROCESSING", "attempt_hard_declined", "FAILED">>,
      <<"PROCESSING", "reversal_triggered", "REVERSAL_INITIATED">>,
      <<"PROCESSING", "ttl_expired", "REVERSAL_INITIATED">>,
      <<"REQUIRES_CAPTURE", "capture_requested", "SUCCEEDED">>,
      <<"REQUIRES_CAPTURE", "void_requested", "CANCELLED">>,
      <<"REQUIRES_CAPTURE", "ttl_expired", "REVERSAL_INITIATED">> }

ReversalRules ==
    UNION { { <<s, "reversal_dispatch_claimed", "REVERSAL_PENDING">>,
              <<s, "reversal_confirmed", "REVERSED">>,
              <<s, "reversal_failed", "FAILED">> } :
            s \in {"REVERSAL_INITIATED", "REVERSAL_PENDING"} }

RefundingRules ==
    { <<"SUCCEEDED", "refund_initiated", "REFUND_INITIATED">>,
      <<"PARTIALLY_REFUNDED", "refund_initiated", "REFUND_INITIATED">>,
      <<"REFUND_INITIATED", "refund_partial_succeeded", "PARTIALLY_REFUNDED">>,
      <<"REFUND_INITIATED", "refund_full_succeeded", "REFUNDED">>,
      <<"PARTIALLY_REFUNDED", "refund_full_succeeded", "REFUNDED">>,
      <<"REFUND_INITIATED", "refund_failed", "SUCCEEDED">>,
      <<"REFUND_INITIATED", "refund_failed", "PARTIALLY_REFUNDED">> }

INTENT_TABLE == PreDispatchRules \cup RailRules \cup ReversalRules \cup RefundingRules

ATTEMPT_TABLE ==
    { <<"STARTED", "submitted", "AUTHORIZATION_PENDING">>,
      <<"AUTHORIZATION_PENDING", "connector_authorized", "AUTHORIZED">>,
      <<"AUTHORIZATION_PENDING", "connector_success_direct", "CHARGED">>,
      <<"AUTHORIZATION_PENDING", "connector_failed", "AUTHORIZATION_FAILED">>,
      <<"AUTHORIZATION_PENDING", "connector_rejected", "AUTHORIZATION_FAILED">>,
      <<"AUTHORIZATION_PENDING", "connector_timeout", "TIMED_OUT">>,
      <<"TIMED_OUT", "poll_success", "CHARGED">>,
      <<"TIMED_OUT", "poll_pending", "TIMED_OUT">>,
      <<"TIMED_OUT", "poll_failed", "AUTHORIZATION_FAILED">>,
      <<"TIMED_OUT", "poll_exhausted", "AUTHORIZATION_FAILED">>,
      <<"TIMED_OUT", "poll_reversed", "REVERSED">>,
      <<"AUTHORIZED", "capture_submitted", "CAPTURE_INITIATED">>,
      <<"AUTHORIZED", "void_submitted", "VOIDED">>,
      <<"CAPTURE_INITIATED", "capture_confirmed", "CHARGED">>,
      <<"CHARGED", "reversal_submitted", "REVERSED">> }

REFUND_TABLE ==
    { <<"REFUND_INITIATED", "connector_dispatched", "REFUND_PENDING_CONNECTOR">>,
      <<"REFUND_PENDING_CONNECTOR", "connector_success", "REFUND_SUCCEEDED">>,
      <<"REFUND_PENDING_CONNECTOR", "connector_failed", "REFUND_PENDING_CONNECTOR">>,
      <<"REFUND_PENDING_CONNECTOR", "connector_timeout", "REFUND_PENDING_CONNECTOR">>,
      <<"REFUND_PENDING_CONNECTOR", "connector_rejected", "REFUND_FAILED">>,
      <<"REFUND_PENDING_CONNECTOR", "retries_exhausted", "REFUND_FAILED">> }

(* TransitionTable.resolve: a pair that is not declared raises, so a move   *)
(* is possible only from a status in which the table has its trigger.       *)
Resolves(table, from, trigger, to) == <<from, trigger, to>> \in table
=============================================================================
