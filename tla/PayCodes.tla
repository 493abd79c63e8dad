------------------------------ MODULE PayCodes ------------------------------
(***************************************************************************)
(* Two ways to be handed a payment: a payment link (bdpay.gateway.links)   *)
(* and a Bangla QR code (bdpay.qr.service).  Neither has a payment         *)
(* lifecycle of its own: both create or return kernel payment intents and  *)
(* follow them by the events payment_intent.*, which the outbox delivers   *)
(* at least once.  A request handler never awaits, so it is one step of    *)
(* the process, but each store call commits by itself: a fault (a crash,   *)
(* or an error of the database) keeps the calls before it.                 *)
(***************************************************************************)
EXTENDS Naturals, FiniteSets

CONSTANTS
    Payers,     \* canonical payer inputs of a link checkout: one idempotency key each
    Scans,      \* scan resolutions
    MaxFaults   \* bound

VARIABLES
    link,     \* payment_links row: [state, single]
    lapsed,   \* expires_at has passed
    claims,   \* payment_link_claims: <<payer, bound to the intent?>> -> status
    paying,   \* payment intent of each payer's idempotency key
    event,    \* its outcome event: none, pending, handled, dropped
    undone,   \* payers whose claim was released although their intent existed
    merchant, code, dynamic, expired, order, notice, scan, made,
    faults

links == <<link, lapsed, claims, paying, event, undone>>
qr == <<merchant, code, dynamic, expired, order, notice, scan, made>>
codes == <<links, qr, faults>>

(* A fault at this point of a handler.                                       *)
Fault == faults < MaxFaults /\ faults' = faults + 1
NoFault == UNCHANGED faults

NoLink == [state |-> "none", single |-> TRUE]
NoScan == [type |-> "none", valid |-> FALSE, fresh |-> TRUE, intent |-> FALSE]

PInit ==
    /\ link = NoLink /\ lapsed = FALSE
    /\ claims = [row \in Payers \X BOOLEAN |-> "none"]
    /\ paying = [p \in Payers |-> "none"] /\ event = [p \in Payers |-> "none"] /\ undone = {}
    /\ merchant = "ACTIVE" /\ code = "none" /\ dynamic = "none" /\ expired = FALSE
    /\ order = "OPEN" /\ notice = "none"
    /\ scan = [s \in Scans |-> NoScan] /\ made = [s \in Scans |-> 0]
    /\ faults = 0

-----------------------------------------------------------------------------
(* Payment links.                                                            *)

CreateLink ==
    /\ link.state = "none"
    /\ \E single \in BOOLEAN : link' = [state |-> "ACTIVE", single |-> single]
    /\ UNCHANGED <<lapsed, claims, paying, event, undone, qr, faults>>

OpenClaim == {row \in DOMAIN claims : claims[row] = "open"}

(* INSERT under the primary key (link, id) and uidx_plink_one_open_claim; the *)
(* holder of the open claim may claim again.                                  *)
ClaimAnyway(p) == claims[<<p, FALSE>>] # "released"
Claim(p) ==
    \/ OpenClaim = {} /\ claims[<<p, FALSE>>] = "none"
    \/ <<p, FALSE>> \in OpenClaim

ReleaseClaim(rows, row) == IF rows[row] = "open" THEN [rows EXCEPT ![row] = "released"] ELSE rows

(* bind_claim_intent renames the row; the primary key refuses it when the     *)
(* intent already has a row of this link.                                     *)
Bindable(p) == claims[<<p, TRUE>>] = "none"
BindClaimIntent(p) == [claims EXCEPT ![<<p, FALSE>>] = "none", ![<<p, TRUE>>] = "open"]

Payable == link.state = "ACTIVE" /\ ~lapsed

(* create_intent replays the intent of a known idempotency key.               *)
CreateIntent(p) == paying' = [paying EXCEPT ![p] = IF @ = "none" THEN "OPEN" ELSE @]

CheckoutCrashes(p) ==       \* after the claim, before the intent
    /\ Payable /\ link.single /\ Claim(p) /\ Fault
    /\ claims' = [claims EXCEPT ![<<p, FALSE>>] = "open"]
    /\ UNCHANGED <<link, lapsed, paying, event, undone, qr>>

CheckoutRefused(p) ==       \* create_intent raises: the claim is taken back
    /\ Payable /\ link.single /\ Claim(p) /\ Fault
    /\ claims' = [claims EXCEPT ![<<p, FALSE>>] = "released"]
    /\ undone' = IF paying[p] = "none" THEN undone ELSE undone \cup {p}
    /\ UNCHANGED <<link, lapsed, paying, event, qr>>

CheckoutUnbound(p) ==       \* the intent is made, the bind fails or is not reached
    /\ Payable /\ link.single /\ Claim(p) /\ CreateIntent(p)
    /\ \/ ~Bindable(p) /\ NoFault
       \/ Bindable(p) /\ Fault
    /\ claims' = [claims EXCEPT ![<<p, FALSE>>] = "open"]
    /\ UNCHANGED <<link, lapsed, event, undone, qr>>

CreateCheckoutIntent(p) ==
    /\ Payable /\ CreateIntent(p) /\ NoFault
    /\ IF link.single THEN Claim(p) /\ Bindable(p) /\ claims' = BindClaimIntent(p)
                      ELSE UNCHANGED claims
    /\ UNCHANGED <<link, lapsed, event, undone, qr>>

(* The kernel settles an intent and enqueues its event in one transaction.    *)
IntentEnds(p) ==
    /\ paying[p] = "OPEN"
    /\ \E outcome \in {"SUCCEEDED", "FAILED"} : paying' = [paying EXCEPT ![p] = outcome]
    /\ event' = [event EXCEPT ![p] = "pending"]
    /\ UNCHANGED <<link, lapsed, claims, undone, qr, faults>>

Expire(l) == [l EXCEPT !.state = "EXPIRED"]
MarkPaid(l) == IF l.state = "ACTIVE" /\ l.single THEN [l EXCEPT !.state = "PAID"] ELSE l

(* The keys of the payload of payment_intent.succeeded that matter here.      *)
SucceededPayload == {"payment_intent_id", "merchant_id", "amount_minor", "method"}

ReleaseClaimForIntent(p) ==
    /\ claims' = ReleaseClaim(claims, <<p, TRUE>>)
    /\ link' = IF /\ <<p, TRUE>> \in OpenClaim
                  /\ link.state = "ACTIVE" /\ lapsed
               THEN Expire(link) ELSE link

(* PaymentLinkEventConsumer.consume, the first delivery of an event.          *)
Consume(p) ==
    /\ event[p] = "pending" /\ NoFault
    /\ event' = [event EXCEPT ![p] = "handled"]
    /\ \/ /\ paying[p] = "SUCCEEDED" /\ UNCHANGED claims
          /\ link' = IF "metadata" \in SucceededPayload THEN MarkPaid(link) ELSE link
       \/ paying[p] = "FAILED" /\ ReleaseClaimForIntent(p)
    /\ UNCHANGED <<lapsed, paying, undone, qr>>

(* The consumer remembers the event before it acts on it: after an error of   *)
(* the database the outbox delivers it again and the consumer drops it.       *)
ConsumeFails(p) ==
    /\ event[p] = "pending" /\ Fault
    /\ event' = [event EXCEPT ![p] = "dropped"]
    /\ UNCHANGED <<link, lapsed, claims, paying, undone, qr>>

CancelLink ==
    /\ link.state = "ACTIVE" /\ OpenClaim = {}
    /\ link' = [link EXCEPT !.state = "CANCELLED"]
    /\ UNCHANGED <<lapsed, claims, paying, event, undone, qr, faults>>

SweepExpiry ==
    /\ link.state = "ACTIVE" /\ lapsed /\ OpenClaim = {}
    /\ link' = Expire(link)
    /\ UNCHANGED <<lapsed, claims, paying, event, undone, qr, faults>>

LinkLapses ==
    /\ link.state # "none" /\ ~lapsed /\ lapsed' = TRUE
    /\ UNCHANGED <<link, claims, paying, event, undone, qr, faults>>

LinkNext ==
    \/ CreateLink \/ CancelLink \/ SweepExpiry \/ LinkLapses
    \/ \E p \in Payers :
         \/ CheckoutCrashes(p) \/ CheckoutRefused(p) \/ CheckoutUnbound(p)
         \/ CreateCheckoutIntent(p) \/ IntentEnds(p) \/ Consume(p) \/ ConsumeFails(p)

LinkSpec == PInit /\ [][LinkNext]_codes

-----------------------------------------------------------------------------
(* Bangla QR: one merchant, its static code, one payment intent (order) with  *)
(* a dynamic code, and the scans of both.                                     *)

MerchantQrTransitions ==
    {<<"DRAFT", "activate", "ACTIVE">>, <<"ACTIVE", "suspend", "SUSPENDED">>,
     <<"SUSPENDED", "reactivate", "ACTIVE">>, <<"ACTIVE", "revoke", "REVOKED">>,
     <<"SUSPENDED", "revoke", "REVOKED">>}

DynamicPayloadTransitions ==
    {<<from, rule[1], rule[2]>> : from \in {"ISSUED", "SCANNED"},
        rule \in {<<"paid", "PAID">>, <<"ttl_expired", "EXPIRED">>, <<"cancelled", "CANCELLED">>}}
      \cup {<<"ISSUED", "scanned", "SCANNED">>}

Advances(table, from, trigger) == \E rule \in table : rule[1] = from /\ rule[2] = trigger
To(table, from, trigger) ==
    (CHOOSE rule \in table : rule[1] = from /\ rule[2] = trigger)[3]
AdvanceDynamic(trigger) ==
    dynamic' = IF Advances(DynamicPayloadTransitions, dynamic, trigger)
               THEN To(DynamicPayloadTransitions, dynamic, trigger) ELSE dynamic
Live == {"ISSUED", "SCANNED"}

IssueStatic ==
    /\ merchant = "ACTIVE" /\ code = "none"
    /\ code' = To(MerchantQrTransitions, "DRAFT", "activate")
    /\ UNCHANGED <<links, merchant, dynamic, expired, order, notice, scan, made, faults>>

IssueDynamic ==
    /\ order = "OPEN" /\ dynamic = "none" /\ merchant = "ACTIVE"
    /\ dynamic' = "ISSUED"
    /\ UNCHANGED <<links, merchant, code, expired, order, notice, scan, made, faults>>

Lifecycle(trigger) ==
    /\ Advances(MerchantQrTransitions, code, trigger)
    /\ code' = To(MerchantQrTransitions, code, trigger)
    /\ UNCHANGED <<links, dynamic, expired, order, notice, scan, made, faults>>

SuspendCode == Lifecycle("suspend") /\ UNCHANGED merchant
Reactivate == merchant = "ACTIVE" /\ Lifecycle("reactivate") /\ UNCHANGED merchant
Revoke == Lifecycle("revoke") /\ UNCHANGED merchant

(* KYB suspends, reinstates or terminates the merchant; the QR service can    *)
(* follow by on_merchant_suspended and on_merchant_terminated.                *)
MerchantMoves ==
    /\ merchant' \in {"ACTIVE", "SUSPENDED", "TERMINATED"} \ {merchant} /\ merchant # "TERMINATED"
    /\ UNCHANGED <<links, code, dynamic, expired, order, notice, scan, made, faults>>
OnMerchantSuspended ==
    merchant = "SUSPENDED" /\ Lifecycle("suspend") /\ UNCHANGED merchant
OnMerchantTerminated ==
    merchant = "TERMINATED" /\ Lifecycle("revoke") /\ UNCHANGED merchant

CheckMerchantQrLive == code = "ACTIVE" /\ merchant = "ACTIVE"

(* _check_on_us: refuses, and expires a live dynamic payload past its TTL.    *)
OnUs(type) == IF type = "STATIC" THEN CheckMerchantQrLive ELSE dynamic \in Live /\ ~expired
TtlExpired(type) == type = "DYNAMIC" /\ dynamic \in Live /\ expired
Scanned(type) == IF type = "STATIC" THEN code # "none" ELSE dynamic # "none"

RecordScan(s, type, valid) ==
    scan' = [scan EXCEPT ![s] = [NoScan EXCEPT !.type = type, !.valid = valid]]

ResolveRefused(s, type) ==
    /\ scan[s] = NoScan /\ Scanned(type) /\ ~OnUs(type)
    /\ IF TtlExpired(type) THEN AdvanceDynamic("ttl_expired") ELSE UNCHANGED dynamic
    /\ RecordScan(s, type, FALSE)
    /\ UNCHANGED <<links, merchant, code, expired, order, notice, made, faults>>

Resolve(s, type) ==
    /\ scan[s] = NoScan /\ Scanned(type) /\ OnUs(type)
    /\ IF type = "DYNAMIC" THEN AdvanceDynamic("scanned") ELSE UNCHANGED dynamic
    /\ RecordScan(s, type, TRUE)
    /\ UNCHANGED <<links, merchant, code, expired, order, notice, made, faults>>

MayPay(s) == scan[s].valid /\ scan[s].fresh /\ ~scan[s].intent
SetResolutionIntent(s) == scan' = [scan EXCEPT ![s].intent = TRUE]

PayDynamic(s) ==
    /\ MayPay(s) /\ scan[s].type = "DYNAMIC"
    /\ \/ OnUs("DYNAMIC") /\ SetResolutionIntent(s) /\ UNCHANGED dynamic
       \/ TtlExpired("DYNAMIC") /\ AdvanceDynamic("ttl_expired") /\ UNCHANGED scan
    /\ UNCHANGED <<links, merchant, code, expired, order, notice, made, faults>>

(* The kernel's create_intent under the key qr-pay:<resolution>.              *)
CreateForScan(s) == made' = [made EXCEPT ![s] = 1]

PayStatic(s) ==
    /\ MayPay(s) /\ scan[s].type = "STATIC" /\ CheckMerchantQrLive
    /\ CreateForScan(s)
    /\ \/ NoFault /\ SetResolutionIntent(s)
       \/ Fault /\ UNCHANGED scan
    /\ UNCHANGED <<links, merchant, code, dynamic, expired, order, notice>>

OrderEnds ==
    /\ order = "OPEN" /\ order' \in {"SUCCEEDED", "FAILED"} /\ notice' = "pending"
    /\ UNCHANGED <<links, merchant, code, dynamic, expired, scan, made, faults>>

(* The order expired: payment_intent.expired has no subscriber here.          *)
OrderExpires ==
    /\ order = "OPEN" /\ order' = "EXPIRED"
    /\ UNCHANGED <<links, merchant, code, dynamic, expired, notice, scan, made, faults>>

Trigger == [SUCCEEDED |-> "paid", FAILED |-> "cancelled"]

(* on_intent_event; the bridge remembers the event first, like the links do.  *)
OnIntentEvent ==
    /\ notice = "pending"
    /\ \/ notice' = "handled" /\ NoFault /\ AdvanceDynamic(Trigger[order])
       \/ notice' = "dropped" /\ Fault /\ UNCHANGED dynamic
    /\ UNCHANGED <<links, merchant, code, expired, order, scan, made>>

SweepExpired ==
    /\ dynamic \in Live /\ expired /\ AdvanceDynamic("ttl_expired")
    /\ UNCHANGED <<links, merchant, code, expired, order, notice, scan, made, faults>>

TtlPasses ==
    /\ dynamic # "none" /\ ~expired /\ expired' = TRUE
    /\ UNCHANGED <<links, merchant, code, dynamic, order, notice, scan, made, faults>>
ResolutionLapses(s) ==
    /\ scan[s].valid /\ scan[s].fresh /\ scan' = [scan EXCEPT ![s].fresh = FALSE]
    /\ UNCHANGED <<links, merchant, code, dynamic, expired, order, notice, made, faults>>

QrNext ==
    \/ IssueStatic \/ IssueDynamic \/ SuspendCode \/ Reactivate \/ Revoke \/ MerchantMoves
    \/ OnMerchantSuspended \/ OnMerchantTerminated \/ OrderEnds \/ OrderExpires
    \/ OnIntentEvent \/ SweepExpired \/ TtlPasses
    \/ \E s \in Scans :
         \/ \E type \in {"STATIC", "DYNAMIC"} : Resolve(s, type) \/ ResolveRefused(s, type)
         \/ PayDynamic(s) \/ PayStatic(s) \/ ResolutionLapses(s)

QrSpec == PInit /\ [][QrNext]_codes

-----------------------------------------------------------------------------
(* A single-use link never has two intents that have charged or still can,    *)
(* whatever order checkouts, failures, replays and events come in: the open   *)
(* claim outlives every fault (create_checkout_intent, links.py:882), except  *)
(* where the compensation takes back the claim of an intent that an earlier,  *)
(* interrupted checkout had made; a link is retired only when no claim is     *)
(* open.  A scan resolution leads to one intent however often a fault makes   *)
(* the customer pay again, and a dynamic code is PAID or CANCELLED only as    *)
(* its intent went (qr/service.py:582, 673).                                  *)
CodesChargeOnce ==
    /\ link.single =>
         \/ Cardinality({p \in Payers : paying[p] \in {"OPEN", "SUCCEEDED"}}) <= 1
         \/ undone # {}
    /\ link.state \in {"EXPIRED", "CANCELLED"} => OpenClaim = {}
    /\ \A s \in Scans : made[s] <= 1 /\ (scan[s].type = "STATIC" /\ scan[s].intent => made[s] = 1)
    /\ dynamic = "PAID" => order = "SUCCEEDED"
    /\ dynamic = "CANCELLED" => order = "FAILED"
=============================================================================
