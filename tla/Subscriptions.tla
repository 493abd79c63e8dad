---------------------------- MODULE Subscriptions ----------------------------
(***************************************************************************)
(* One subscription and its cycles: bdpay.kernel.subscriptions.service     *)
(* over PostgresSubscriptionStore.  The scheduler tick makes the cycles    *)
(* that fell due, invoices them with a payment intent and retries unpaid   *)
(* ones (dunning); the orchestrator's events settle them; the merchant     *)
(* pauses, resumes and cancels.  Every store call commits by itself, so a  *)
(* crash keeps a prefix of a tick; the intent of an attempt has a fixed    *)
(* idempotency key, so making it again returns the same one.               *)
(***************************************************************************)
EXTENDS Naturals, FiniteSets

CONSTANTS
    Cycles,      \* 1..n
    Schedule,    \* len(DunningConfig.schedule_days)
    MaxCrashes   \* bound

VARIABLES
    sub,      \* subscriptions.status
    overdue,  \* past_due_grace_expires_at has passed
    fallen,   \* cycles whose due date has passed
    cycle,    \* subscription_cycles: [status, recorded, attempts, dun]
    intent,   \* payment intents by <<cycle, attempt>>
    news,     \* outcome events the outbox still has to publish
    seen,     \* _seen_events of the process
    crashes

subs == <<sub, overdue, fallen, cycle, intent, news, seen, crashes>>

Intents == Cycles \X (0..Schedule)
NoCycle == [status |-> "none", recorded |-> {}, attempts |-> 0, dun |-> "never"]

(* SUBSCRIPTION_TABLE and SUBSCRIPTION_CYCLE_TABLE: <<from, trigger, to>>.    *)
SubscriptionTable ==
    {<<"ACTIVE", "cycle_failed_final", "PAST_DUE">>, <<"ACTIVE", "pause", "PAUSED">>,
     <<"ACTIVE", "cancel", "CANCELLED">>, <<"PAST_DUE", "cycle_paid", "ACTIVE">>,
     <<"PAST_DUE", "grace_expired", "CANCELLED">>, <<"PAUSED", "resume", "ACTIVE">>,
     <<"PAUSED", "cancel", "CANCELLED">>}

CycleTable ==
    {<<"SCHEDULED", "cycle_due", "COLLECTING">>, <<"SCHEDULED", "paused_or_cancelled", "SKIPPED">>,
     <<"COLLECTING", "intent_succeeded", "PAID">>, <<"COLLECTING", "intent_failed", "DUNNING">>,
     <<"DUNNING", "dunning_attempt", "DUNNING">>, <<"DUNNING", "attempt_succeeded", "PAID">>,
     <<"DUNNING", "schedule_exhausted", "FAILED">>,
     <<"COLLECTING", "subscription_cancelled", "CANCELLED">>,
     <<"DUNNING", "subscription_cancelled", "CANCELLED">>}

Terminal == {"PAID", "FAILED", "SKIPPED", "CANCELLED"}
Resolve(table, from, trigger) == CHOOSE rule \in table : rule[1] = from /\ rule[2] = trigger
Allowed(table, from, trigger) == \E rule \in table : rule[1] = from /\ rule[2] = trigger

SInit ==
    /\ sub = "ACTIVE" /\ overdue = FALSE /\ fallen = 0
    /\ cycle = [n \in Cycles |-> NoCycle] /\ intent = [i \in Intents |-> "none"]
    /\ news = {} /\ seen = {} /\ crashes = 0

(* _transition_subscription: refused where the table has no rule.            *)
SaveSubscription(trigger) ==
    Allowed(SubscriptionTable, sub, trigger) /\ sub' = Resolve(SubscriptionTable, sub, trigger)[3]

Moved(c, trigger) == [c EXCEPT !.status = Resolve(CycleTable, c.status, trigger)[3]]

(* _create_intent: idempotent on the attempt's key.                          *)
CreateIntents(made) ==
    intent' = [i \in Intents |-> IF i \in made /\ intent[i] = "none" THEN "open" ELSE intent[i]]

(* ---- the scheduler tick ----------------------------------------------------- *)

Existing == {n \in Cycles : cycle[n].status # "none"}

InsertCycle(n) ==
    [NoCycle EXCEPT !.status = IF sub = "ACTIVE" THEN "SCHEDULED" ELSE "SKIPPED"]

(* generate_due_cycles: all that fell due, of a paused subscription one.     *)
GenerateDueCycles ==
    LET next == Cardinality(Existing) + 1
        new == IF sub = "ACTIVE" THEN next..fallen ELSE {next}
    IN  /\ sub \notin {"CANCELLED", "PAST_DUE"} /\ next <= fallen
        /\ cycle' = [n \in Cycles |-> IF n \in new THEN InsertCycle(n) ELSE cycle[n]]
        /\ UNCHANGED <<sub, overdue, fallen, intent, news, seen, crashes>>

ListDueCycles == {n \in Cycles : cycle[n].status = "SCHEDULED"}

Invoiced(n) ==
    IF sub # "ACTIVE" THEN Moved(cycle[n], "paused_or_cancelled")
    ELSE [Moved(cycle[n], "cycle_due") EXCEPT !.recorded = {0}]

(* invoice_due_cycles, of which a crash keeps the cycles in done and perhaps *)
(* the intent of one more.                                                   *)
InvoiceCycles(done, made) ==
    /\ CreateIntents(IF sub = "ACTIVE" THEN {<<n, 0>> : n \in done \cup made} ELSE {})
    /\ cycle' = [n \in Cycles |-> IF n \in done THEN Invoiced(n) ELSE cycle[n]]

InvoiceDueCycles ==
    /\ ListDueCycles # {} /\ InvoiceCycles(ListDueCycles, {})
    /\ UNCHANGED <<sub, overdue, fallen, news, seen, crashes>>

ListDueDunning == {n \in Cycles : cycle[n].status = "DUNNING" /\ cycle[n].dun = "due"}

SaveCycleDunned(c) ==
    [Moved(c, "dunning_attempt") EXCEPT
        !.recorded = @ \cup {c.attempts + 1}, !.attempts = @ + 1,
        !.dun = IF c.attempts + 1 >= Schedule THEN "never" ELSE "later"]

(* run_dunning asks neither the subscription's status nor the earlier        *)
(* attempt's; a cycle with a due date has attempts left.                     *)
DunCycles(done, made) ==
    /\ CreateIntents({<<n, cycle[n].attempts + 1>> : n \in done \cup made})
    /\ cycle' = [n \in Cycles |-> IF n \in done THEN SaveCycleDunned(cycle[n]) ELSE cycle[n]]

RunDunning ==
    /\ ListDueDunning # {} /\ DunCycles(ListDueDunning, {})
    /\ UNCHANGED <<sub, overdue, fallen, news, seen, crashes>>

TickCrashes ==
    /\ crashes < MaxCrashes /\ crashes' = crashes + 1 /\ seen' = {}
    /\ \/ \E done \in SUBSET ListDueCycles : \E made \in SUBSET (ListDueCycles \ done) :
             Cardinality(made) <= 1 /\ InvoiceCycles(done, made)
       \/ \E done \in SUBSET ListDueDunning : \E made \in SUBSET (ListDueDunning \ done) :
             Cardinality(made) <= 1 /\ DunCycles(done, made)
    /\ UNCHANGED <<sub, overdue, fallen, news>>

(* sweep_past_due.                                                           *)
SweepPastDue ==
    /\ sub = "PAST_DUE" /\ overdue /\ SaveSubscription("grace_expired")
    /\ UNCHANGED <<overdue, fallen, cycle, intent, news, seen, crashes>>

(* ---- the merchant -------------------------------------------------------------- *)

Pause == SaveSubscription("pause") /\ UNCHANGED <<overdue, fallen, cycle, intent, news, seen, crashes>>
Resume == SaveSubscription("resume") /\ UNCHANGED <<overdue, fallen, cycle, intent, news, seen, crashes>>

OpenCycles == {n \in Cycles : cycle[n].status \in {"COLLECTING", "DUNNING"}}
Latest(n) == <<n, cycle[n].attempts>>

(* The orchestrator cancels an intent that has not ended, and raises for     *)
(* any other: the loop stops there, what it did before stays.                *)
CancelReaches ==
    {n \in OpenCycles : \A k \in OpenCycles : k <= n => intent[Latest(k)] = "open"}

(* cancel: every open cycle and its latest intent first, then the            *)
(* subscription, whose table refuses a past-due one only after that.         *)
Cancel ==
    /\ sub # "CANCELLED"
    /\ intent' = [i \in Intents |-> IF i \in {Latest(n) : n \in CancelReaches} THEN "cancelled"
                                                                             ELSE intent[i]]
    /\ news' = news \cup {Latest(n) : n \in CancelReaches}
    /\ cycle' = [n \in Cycles |-> IF n \in CancelReaches
                                  THEN Moved(cycle[n], "subscription_cancelled") ELSE cycle[n]]
    /\ IF CancelReaches = OpenCycles /\ Allowed(SubscriptionTable, sub, "cancel")
       THEN SaveSubscription("cancel") ELSE UNCHANGED sub
    /\ UNCHANGED <<overdue, fallen, seen, crashes>>

(* ---- consumed payment events ---------------------------------------------------- *)

MarkCyclePaid(n) ==
    /\ cycle' = [cycle EXCEPT ![n] = [Moved(@, IF @.status = "COLLECTING" THEN "intent_succeeded"
                                               ELSE "attempt_succeeded") EXCEPT !.dun = "never"]]
    /\ IF sub = "PAST_DUE" THEN SaveSubscription("cycle_paid") ELSE UNCHANGED sub
    /\ UNCHANGED overdue

FailCycle(n) ==
    /\ cycle' = [cycle EXCEPT ![n] = [Moved(@, "schedule_exhausted") EXCEPT !.dun = "never"]]
    /\ IF sub = "ACTIVE" THEN SaveSubscription("cycle_failed_final") /\ overdue' = FALSE
       ELSE UNCHANGED <<sub, overdue>>

ExhaustedEarly(c) == c.attempts + 1 >= Schedule
Exhausted(c) == c.attempts >= Schedule

(* consume_payment_event: an event once per process, for the cycle that      *)
(* recorded its intent, while that cycle is not terminal.                    *)
Applies(i) ==
    LET c == cycle[i[1]]
    IN  IF i \in seen \/ i[2] \notin c.recorded \/ c.status \in Terminal
        THEN UNCHANGED <<sub, overdue, cycle>>
        ELSE IF intent[i] = "succeeded" THEN MarkCyclePaid(i[1])
        ELSE IF c.status = "COLLECTING"
             THEN /\ cycle' = [cycle EXCEPT ![i[1]] = [Moved(@, "intent_failed") EXCEPT !.dun = "later"]]
                  /\ UNCHANGED <<sub, overdue>>
             ELSE IF Exhausted(c) THEN FailCycle(i[1]) ELSE UNCHANGED <<sub, overdue, cycle>>

(* The outbox hands the event over, and again when it could not mark it.     *)
ConsumePaymentEvent(i, again) ==
    /\ i \in news /\ Applies(i) /\ seen' = seen \cup {i}
    /\ news' = IF again THEN news ELSE news \ {i}
    /\ UNCHANGED <<fallen, intent, crashes>>

(* ---- the orchestrator and the clock --------------------------------------------- *)

IntentEnds(i, outcome) ==
    /\ intent[i] = "open"
    /\ intent' = [intent EXCEPT ![i] = outcome] /\ news' = news \cup {i}
    /\ UNCHANGED <<sub, overdue, fallen, cycle, seen, crashes>>

DueDatePasses ==
    /\ fallen + 1 \in Cycles /\ fallen' = fallen + 1
    /\ UNCHANGED <<sub, overdue, cycle, intent, news, seen, crashes>>

DunningDatePasses(n) ==
    /\ cycle[n].dun = "later" /\ cycle' = [cycle EXCEPT ![n].dun = "due"]
    /\ UNCHANGED <<sub, overdue, fallen, intent, news, seen, crashes>>

GracePasses ==
    /\ sub = "PAST_DUE" /\ ~overdue /\ overdue' = TRUE
    /\ UNCHANGED <<sub, fallen, cycle, intent, news, seen, crashes>>

SNext ==
    \/ GenerateDueCycles \/ InvoiceDueCycles \/ RunDunning \/ TickCrashes \/ SweepPastDue
    \/ Pause \/ Resume \/ Cancel
    \/ \E i \in Intents, again \in BOOLEAN : ConsumePaymentEvent(i, again)
    \/ \E i \in Intents, outcome \in {"succeeded", "failed"} : IntentEnds(i, outcome)
    \/ DueDatePasses \/ GracePasses
    \/ \E n \in Cycles : DunningDatePasses(n)

SSpec == SInit /\ [][SNext]_subs
-----------------------------------------------------------------------------
(* Over crashes and redelivered events: a cycle says PAID only when one of   *)
(* its intents succeeded, and FAILED only when the whole dunning schedule    *)
(* was used up; no intent exists beyond the ones the cycle records and the   *)
(* one the next tick would record; a past-due subscription has a failed      *)
(* cycle.                                                                    *)
CyclesAreAccounted ==
    /\ \A n \in Cycles :
          /\ cycle[n].status = "PAID" => \E a \in cycle[n].recorded : intent[<<n, a>>] = "succeeded"
          /\ cycle[n].status = "FAILED" =>
                cycle[n].attempts = Schedule /\ cycle[n].recorded = 0..Schedule
          /\ \A a \in 0..Schedule :
                intent[<<n, a>>] # "none" => \/ a \in cycle[n].recorded
                                            \/ a = Cardinality(cycle[n].recorded)
    /\ sub = "PAST_DUE" => \E n \in Cycles : cycle[n].status = "FAILED"
=============================================================================
