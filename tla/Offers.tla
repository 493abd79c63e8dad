------------------------------- MODULE Offers -------------------------------
(***************************************************************************)
(* One merchant offer and its redemptions: bdpay.kernel.offers.  The       *)
(* merchant moves the offer along OFFER_TABLE; the payment seam takes a    *)
(* slot of every capped counter and makes an intent for the net amount;    *)
(* payment events and the reservation sweep settle the redemption, give    *)
(* slots back and post or reverse the commission.  A seam call and an      *)
(* event each run in the transaction of their caller.                      *)
(***************************************************************************)
EXTENDS Naturals, FiniteSets

CONSTANTS
    Intents,     \* payment intents that ask for the offer
    Customers,
    Caps,        \* values the merchant gives cap_total
    DayCap,      \* cap_per_day
    OwnCap,      \* cap_per_customer
    Recredit,    \* cap_recredit_on_refund
    Days,        \* 1..n, calendar days in Dhaka
    Net          \* parts of a net amount that refunds come in

VARIABLES
    offer,     \* offers: [state, cap]
    trading,   \* the merchant is ACTIVE
    lapsed,    \* valid_until has passed
    today,
    redeem,    \* offer_redemptions, by intent
    used,      \* offer_counters.used, by <<scope, scope_key>>
    intentOf,  \* what the orchestrator says of the intent
    bus,       \* events published, <<intent, type>>
    consumed,  \* offer_event_consumption
    booked     \* commission entries, by intent: how many net of reversals

offers == <<offer, trading, lapsed, today, redeem, used, intentOf, bus, consumed, booked>>

Scopes == {<<"total", 0>>} \cup {<<"day", d>> : d \in Days} \cup {<<"customer", c>> : c \in Customers}

NoRedemption == [state |-> "none", customer |-> CHOOSE c \in Customers : TRUE, day |-> 0,
                 refunded |-> 0, freed |-> 0]

(* OFFER_TABLE and REDEMPTION_TABLE.                                          *)
OfferTable ==
    {<<"DRAFT", "activate", "ACTIVE">>, <<"DRAFT", "archive", "ARCHIVED">>,
     <<"ACTIVE", "pause", "PAUSED">>, <<"PAUSED", "resume", "ACTIVE">>,
     <<"ACTIVE", "cap_total_reached", "EXHAUSTED">>, <<"EXHAUSTED", "cap_raised", "ACTIVE">>}
    \cup {<<s, "ttl_expired", "EXPIRED">> : s \in {"ACTIVE", "PAUSED"}}
    \cup {<<s, "archive", "ARCHIVED">> : s \in {"ACTIVE", "PAUSED", "EXHAUSTED"}}
    \cup {<<s, "merchant_suspended", "PAUSED">> : s \in {"DRAFT", "ACTIVE", "PAUSED", "EXHAUSTED"}}

RedemptionTable ==
    {<<"RESERVED", "intent_succeeded", "APPLIED">>, <<"RESERVED", "intent_failed", "RELEASED">>,
     <<"RESERVED", "reservation_ttl_expired", "RELEASED">>,
     <<"APPLIED", "intent_reversed_or_refunded_full", "REVERSED">>,
     <<"APPLIED", "settlement_confirmed", "SETTLED">>}

RulesFor(table, from, trigger) == {rule \in table : rule[1] = from /\ rule[2] = trigger}
ToState(table, from, trigger) == (CHOOSE rule \in RulesFor(table, from, trigger) : TRUE)[3]

FInit ==
    /\ offer = [state |-> "DRAFT", cap |-> CHOOSE c \in Caps : \A d \in Caps : c <= d]
    /\ trading = TRUE /\ lapsed = FALSE /\ today = 1
    /\ redeem = [i \in Intents |-> NoRedemption] /\ used = [s \in Scopes |-> 0]
    /\ intentOf = [i \in Intents |-> "none"] /\ bus = {} /\ consumed = {}
    /\ booked = [i \in Intents |-> 0]

(* ---- the merchant and the sweep of offers --------------------------------------- *)

(* _advance of the service.                                                  *)
AdvanceOffer(trigger) ==
    /\ RulesFor(OfferTable, offer.state, trigger) # {}
    /\ offer' = [offer EXCEPT !.state = ToState(OfferTable, @, trigger)]

OfferOnly == UNCHANGED <<trading, lapsed, today, redeem, used, intentOf, bus, consumed, booked>>

ActivateOffer == trading /\ ~lapsed /\ AdvanceOffer("activate") /\ OfferOnly
PauseOffer == AdvanceOffer("pause") /\ OfferOnly
ResumeOffer == ~lapsed /\ AdvanceOffer("resume") /\ OfferOnly

ListRedemptions(states) == {i \in Intents : redeem[i].state \in states}

ArchiveOffer ==
    /\ offer.state # "DRAFT" => ListRedemptions({"RESERVED"}) = {}
    /\ AdvanceOffer("archive") /\ OfferOnly

HandleMerchantSuspended ==
    /\ trading /\ trading' = FALSE
    /\ IF RulesFor(OfferTable, offer.state, "merchant_suspended") # {}
       THEN AdvanceOffer("merchant_suspended") ELSE UNCHANGED offer
    /\ UNCHANGED <<lapsed, today, redeem, used, intentOf, bus, consumed, booked>>

(* OfferRecord.__post_init__, as far as the caps go: each is at least one    *)
(* and the day's is within the total.  Every copy of the record runs it.     *)
ValidOffer(cap) == cap >= 1 /\ DayCap >= 1 /\ OwnCap >= 1 /\ DayCap <= cap

(* edit_offer of cap_total: the counter's cap moves along, and its CHECK     *)
(* refuses one below what is used; an EXHAUSTED offer is only raised.        *)
EditOffer(cap) ==
    /\ offer.state \notin {"EXPIRED", "ARCHIVED"} /\ cap # offer.cap
    /\ offer.state = "EXHAUSTED" => cap > offer.cap
    /\ ValidOffer(cap)
    /\ used[<<"total", 0>>] <= cap
    /\ offer' = [state |-> IF offer.state = "EXHAUSTED" THEN "ACTIVE" ELSE offer.state, cap |-> cap]
    /\ OfferOnly

SweepExpiredOffers == lapsed /\ AdvanceOffer("ttl_expired") /\ OfferOnly

(* ---- the payment seam --------------------------------------------------------------- *)

CapOf(s) == CASE s[1] = "total" -> offer.cap [] s[1] = "day" -> DayCap [] OTHER -> OwnCap
ApplicableScopes(c) == {<<"customer", c>>, <<"day", today>>, <<"total", 0>>}
TryReserveCounter(s) == used[s] < CapOf(s)

(* evaluate_eligibility: every reason to refuse customer c.  The validity    *)
(* has begun, window, method and spend are taken as met, and an exhausted    *)
(* counter gives the name of its scope.                                      *)
EvaluateEligibility(c) ==
    {r \in {"OFFER_NOT_ACTIVE"} : offer.state # "ACTIVE"}
    \cup {r \in {"MERCHANT_NOT_ACTIVE"} : ~trading}
    \cup {r \in {"AFTER_VALIDITY"} : lapsed}
    \cup {s[1] : s \in {t \in ApplicableScopes(c) : used[t] >= CapOf(t)}}

Eligible(c) == EvaluateEligibility(c) = {}

(* _maybe_exhaust after the slots are taken.                                 *)
MaybeExhaust ==
    offer' = IF used'[<<"total", 0>>] >= offer.cap
             THEN [offer EXCEPT !.state = ToState(OfferTable, @, "cap_total_reached")] ELSE offer

(* create_intent_with_offer: every applicable counter gives a slot, or the   *)
(* transaction fails and none does; a replay of the key changes nothing.     *)
CreateIntentWithOffer(i, c) ==
    /\ intentOf[i] = "none" /\ (\A j \in Intents : j < i => intentOf[j] # "none")
    /\ Eligible(c)
    /\ \A s \in ApplicableScopes(c) : TryReserveCounter(s)
    /\ used' = [s \in Scopes |-> used[s] + (IF s \in ApplicableScopes(c) THEN 1 ELSE 0)]
    /\ intentOf' = [intentOf EXCEPT ![i] = "open"]
    /\ redeem' = [redeem EXCEPT ![i] = [NoRedemption EXCEPT !.state = "RESERVED", !.customer = c,
                                                            !.day = today]]
    /\ MaybeExhaust
    /\ UNCHANGED <<trading, lapsed, today, bus, consumed, booked>>

(* guard_reservation_held lets only a held reservation go to the rail.       *)
GuardReservationHeld(i) ==
    /\ intentOf[i] = "open" /\ redeem[i].state = "RESERVED"
    /\ intentOf' = [intentOf EXCEPT ![i] = "processing"]
    /\ UNCHANGED <<offer, trading, lapsed, today, redeem, used, bus, consumed, booked>>

(* ---- consumed events and the reservation sweep ---------------------------------------- *)

RecreditScopesAnyDay(r) == {<<"total", 0>>, <<"customer", r.customer>>, <<"day", r.day>>}

(* _recredit_scopes: the day's counter only on the day of the reservation.   *)
RecreditScopes(r) ==
    {<<"total", 0>>, <<"customer", r.customer>>} \cup
    (IF r.day = today THEN {<<"day", r.day>>} ELSE {})

(* recredit_counter: never below zero.                                       *)
RecreditCounters(scopes) ==
    used' = [s \in Scopes |-> IF s \in scopes /\ used[s] > 0 THEN used[s] - 1 ELSE used[s]]

AdvanceRedemption(i, trigger, freed, refunded) ==
    redeem' = [redeem EXCEPT ![i] = [@ EXCEPT !.state = ToState(RedemptionTable, @, trigger),
                                              !.freed = freed, !.refunded = refunded]]

(* _release.                                                                 *)
Release(i, trigger) ==
    /\ AdvanceRedemption(i, trigger, today, redeem[i].refunded)
    /\ RecreditCounters(RecreditScopes(redeem[i])) /\ UNCHANGED booked

(* _reverse.                                                                 *)
Reverse(i, refunded) ==
    /\ booked' = [booked EXCEPT ![i] = @ - 1]
    /\ AdvanceRedemption(i, "intent_reversed_or_refunded_full", IF Recredit THEN today ELSE 0, refunded)
    /\ IF Recredit THEN RecreditCounters(RecreditScopes(redeem[i])) ELSE UNCHANGED used

Ignored == UNCHANGED <<redeem, used, booked>>

OnIntentSucceeded(i) ==
    IF RulesFor(RedemptionTable, redeem[i].state, "intent_succeeded") = {} THEN Ignored
    ELSE /\ booked' = [booked EXCEPT ![i] = @ + 1]
         /\ AdvanceRedemption(i, "intent_succeeded", 0, redeem[i].refunded) /\ UNCHANGED used

OnIntentDead(i) ==
    IF RulesFor(RedemptionTable, redeem[i].state, "intent_failed") = {} THEN Ignored
    ELSE Release(i, "intent_failed")

OnIntentReversed(i) ==
    IF RulesFor(RedemptionTable, redeem[i].state, "intent_reversed_or_refunded_full") = {} THEN Ignored
    ELSE Reverse(i, redeem[i].refunded)

(* _on_refund_succeeded: parts add up, the whole reverses.                   *)
OnRefundSucceeded(i) ==
    LET sum == redeem[i].refunded + 1
    IN  IF sum < Net \/ RulesFor(RedemptionTable, redeem[i].state, "intent_reversed_or_refunded_full") = {}
        THEN redeem' = [redeem EXCEPT ![i].refunded = sum] /\ UNCHANGED <<used, booked>>
        ELSE Reverse(i, sum)

OnSettlementConfirmed(i) ==
    IF RulesFor(RedemptionTable, redeem[i].state, "settlement_confirmed") = {} THEN Ignored
    ELSE AdvanceRedemption(i, "settlement_confirmed", 0, redeem[i].refunded) /\ UNCHANGED <<used, booked>>

(* handle: each event id once, in any order, however often it is delivered.  *)
Handle(e) ==
    /\ e \in bus
    /\ IF e \in consumed THEN Ignored /\ UNCHANGED consumed
       ELSE /\ consumed' = consumed \cup {e}
            /\ CASE e[2] = "succeeded" -> OnIntentSucceeded(e[1])
                 [] e[2] = "failed" -> OnIntentDead(e[1])
                 [] e[2] = "reversed" -> OnIntentReversed(e[1])
                 [] e[2] = "settled" -> OnSettlementConfirmed(e[1])
                 [] OTHER -> OnRefundSucceeded(e[1])
    /\ UNCHANGED <<offer, trading, lapsed, today, intentOf, bus>>

(* sweep_expired_reservations of one redemption past its expiry: the intent  *)
(* must not have succeeded.                                                  *)
SweepExpiredReservations(i) ==
    /\ redeem[i].state = "RESERVED" /\ redeem[i].day < today
    /\ intentOf[i] # "succeeded"
    /\ Release(i, "reservation_ttl_expired")
    /\ UNCHANGED <<offer, trading, lapsed, today, intentOf, bus, consumed>>

(* ---- the orchestrator and the clock ------------------------------------------------------ *)

IntentMoves(i, to) ==
    /\ \/ intentOf[i] = "open" /\ to = "failed"
       \/ intentOf[i] = "processing" /\ to \in {"succeeded", "failed", "reversed"}
    /\ intentOf' = [intentOf EXCEPT ![i] = to] /\ bus' = bus \cup {<<i, to>>}
    /\ UNCHANGED <<offer, trading, lapsed, today, redeem, used, consumed, booked>>

AfterSuccess(i, what) ==
    /\ intentOf[i] = "succeeded" /\ <<i, what>> \notin bus
    /\ what = "refund2" => <<i, "refund1">> \in bus
    /\ bus' = bus \cup {<<i, what>>}
    /\ UNCHANGED <<offer, trading, lapsed, today, redeem, used, intentOf, consumed, booked>>

DayPasses ==
    /\ today + 1 \in Days /\ today' = today + 1
    /\ UNCHANGED <<offer, trading, lapsed, redeem, used, intentOf, bus, consumed, booked>>

ValidityEnds ==
    /\ ~lapsed /\ lapsed' = TRUE
    /\ UNCHANGED <<offer, trading, today, redeem, used, intentOf, bus, consumed, booked>>

FNext ==
    \/ ActivateOffer \/ PauseOffer \/ ResumeOffer \/ ArchiveOffer \/ HandleMerchantSuspended
    \/ SweepExpiredOffers \/ DayPasses \/ ValidityEnds
    \/ \E cap \in Caps : EditOffer(cap)
    \/ \E i \in Intents :
          \/ \E c \in Customers : CreateIntentWithOffer(i, c)
          \/ GuardReservationHeld(i) \/ SweepExpiredReservations(i)
          \/ \E to \in {"succeeded", "failed", "reversed"} : IntentMoves(i, to)
          \/ \E what \in {"refund1", "refund2", "settled"} : AfterSuccess(i, what)
    \/ \E e \in bus : Handle(e)

FSpec == FInit /\ [][FNext]_offers
-----------------------------------------------------------------------------
Holding(i) == redeem[i].state \notin {"none"} /\ redeem[i].freed = 0
Of(i, s) == \/ s[1] = "total"
            \/ s[1] = "customer" /\ redeem[i].customer = s[2]
            \/ s[1] = "day" /\ redeem[i].day = s[2]

(* Whatever order events, sweeps, edits and days come in, every counter of   *)
(* the offer is exactly the redemptions that hold a slot of it (a day's slot *)
(* comes back only on its day) and never above its cap; the commission is    *)
(* booked for the redemptions that are applied or settled and no other.      *)
SlotsAreConserved ==
    /\ \A s \in Scopes :
          /\ used[s] = Cardinality({i \in Intents :
                redeem[i].state # "none" /\ Of(i, s)
                /\ (Holding(i) \/ (s[1] = "day" /\ redeem[i].freed # redeem[i].day))})
          /\ used[s] <= CapOf(s)
    /\ \A i \in Intents : booked[i] = IF redeem[i].state \in {"APPLIED", "SETTLED"} THEN 1 ELSE 0
=============================================================================
