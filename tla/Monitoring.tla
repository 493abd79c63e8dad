----------------------------- MODULE Monitoring -----------------------------
(***************************************************************************)
(* Transaction monitoring: the signed rule pack activated at boot          *)
(* (bdpay.compliance.packs, signing, app), the pre-flight that needs one,  *)
(* and the streaming monitor (bdpay.compliance.monitor) fed by the outbox  *)
(* with one charged-attempt event per payment of one customer.  Histories  *)
(* and seen event ids live in the process; packs, keys, alerts and outbox  *)
(* rows are in the database, each write its own transaction.               *)
(***************************************************************************)
EXTENDS Naturals, FiniteSets, FiniteSetsExt

CONSTANTS
    Payments,
    Large,             \* payments at or above the structuring aggregate
    Packs,             \* pack artifacts; pack p is signed with key version p
    Window, MinCount,  \* structuring: window length, transaction count
    Aggregate,         \* structuring: aggregate amount (a payment is 1, a large one this)
    DayCount,          \* velocity: transactions within a day
    Dormancy, Spike,   \* baseline: quiet time, transactions after it
    Horizon,           \* bound: ticks of the clock
    MaxTries,          \* outbox delivery attempts before POISON
    MaxTroubles        \* bound: crashes and evaluation errors

VARIABLES
    now,
    at,                \* charged_at, 0 while not charged
    outbox,            \* the event's outbox row and its tries
    pack,              \* rule_packs.status
    key,               \* signing_key_registry.status by version
    boot,              \* the process: "down", loading a pack, or "up"
    mind,              \* monitor memory: seen ids, history, last seen, dormancy break
    alerts,            \* aml_alerts: <<rule, window start>>
    judged,            \* ghost: events evaluated
    overlooked,        \* ghost: a ring was evaluated and no alert came of it
    troubles

monitoring == <<now, at, outbox, pack, key, boot, mind, alerts, judged, overlooked, troubles>>

STRUCTURING == "rule_structuring_detection_3day"
VELOCITY == "rule_velocity_24h_spike"
MULE == "rule_mule_account_pattern"
BASELINE == "rule_account_baseline_deviation"
MONITOR_FAILURE == "rule_monitor_evaluation_failure"

(* The first pack carries the three rules, later ones only structuring.      *)
RulesOf(p) == IF p = 1 THEN {STRUCTURING, VELOCITY, MULE} ELSE {STRUCTURING}
Amount(i) == IF i \in Large THEN Aggregate ELSE 1

NoMind == [seen |-> {}, count |-> [i \in Payments |-> 0], last |-> 0, break |-> 0]
Down == [step |-> "down", pack |-> 0]

MInit ==
    /\ now = 1 /\ at = [i \in Payments |-> 0]
    /\ outbox = [i \in Payments |-> [status |-> "none", tries |-> 0]]
    /\ pack = [p \in Packs |-> "none"] /\ key = [v \in Packs |-> "none"]
    /\ boot = Down /\ mind = NoMind /\ alerts = {} /\ judged = {} /\ overlooked = FALSE
    /\ troubles = 0
-----------------------------------------------------------------------------
ActivePacks == {p \in Packs : pack[p] = "ACTIVE"}
ActiveKeys == {v \in Packs : key[v] = "active"}

(* _load_configured_rule_pack: an unregistered signer is registered, and a   *)
(* registered key must be the configured one.                                *)
KeyAccepted(v) == ActiveKeys = {v} \/ (ActiveKeys = {} /\ key[v] = "none")
RegisterPublicKey(v) == key' = [key EXCEPT ![v] = "active"]

(* verify_and_load up to its first write: the signature is checked against   *)
(* the signer's active key.                                                  *)
Verifies(p, v) == p = v

Boot(p, v) ==
    /\ boot.step = "down"
    /\ IF ~KeyAccepted(v) THEN UNCHANGED <<boot, key>>
       ELSE /\ RegisterPublicKey(v)
            /\ boot' = IF p \in ActivePacks THEN [step |-> "loaded", pack |-> p]
                       ELSE IF Verifies(p, v) THEN [step |-> "verified", pack |-> p] ELSE boot
    /\ UNCHANGED <<now, at, outbox, pack, mind, alerts, judged, overlooked, troubles>>

(* No artifact is configured: nothing is loaded.                             *)
BootBare ==
    /\ boot.step = "down" /\ boot' = [step |-> "loaded", pack |-> 0]
    /\ UNCHANGED <<now, at, outbox, pack, key, mind, alerts, judged, overlooked, troubles>>

Supersede ==
    /\ boot.step = "verified" /\ boot' = [boot EXCEPT !.step = "superseded"]
    /\ pack' = [p \in Packs |-> IF p \in ActivePacks THEN "SUPERSEDED" ELSE pack[p]]
    /\ UNCHANGED <<now, at, outbox, key, mind, alerts, judged, overlooked, troubles>>

(* A pack id that is already on record refuses the insert, and the boot.     *)
InsertPack ==
    /\ boot.step = "superseded"
    /\ IF pack[boot.pack] = "none"
       THEN /\ pack' = [pack EXCEPT ![boot.pack] = "ACTIVE"]
            /\ boot' = [boot EXCEPT !.step = "loaded"]
       ELSE UNCHANGED pack /\ boot' = Down
    /\ UNCHANGED <<now, at, outbox, key, mind, alerts, judged, overlooked, troubles>>

RevokeKey(v) ==
    /\ key[v] = "active" /\ key' = [key EXCEPT ![v] = "revoked"]
    /\ UNCHANGED <<now, at, outbox, pack, boot, mind, alerts, judged, overlooked, troubles>>
-----------------------------------------------------------------------------
RehydrateNothing == [i \in Payments |-> 0]

(* list_charged_since the start of the structuring window.                   *)
Rehydrated ==
    [i \in Payments |-> IF at[i] # 0 /\ at[i] + Window >= now THEN 1 ELSE 0]
Held(count) == {i \in Payments : count[i] > 0}

(* TransactionMonitor.__init__: the history of the window, no event id seen. *)
StartMonitor ==
    /\ boot.step = "loaded" /\ boot' = [boot EXCEPT !.step = "up"]
    /\ LET times == {at[i] : i \in Held(Rehydrated)}
           woken == {t \in times : \E s \in times : /\ t > s + Dormancy
                                                    /\ \A u \in times : u <= s \/ u >= t}
       IN mind' = [seen |-> {}, count |-> Rehydrated,
                   last |-> IF times = {} THEN 0 ELSE Max(times),
                   break |-> IF woken = {} THEN 0 ELSE Max(woken)]
    /\ UNCHANGED <<now, at, outbox, pack, key, alerts, judged, overlooked, troubles>>

Crash ==
    /\ boot.step # "down" /\ troubles < MaxTroubles /\ troubles' = troubles + 1
    /\ boot' = Down /\ mind' = NoMind
    /\ UNCHANGED <<now, at, outbox, pack, key, alerts, judged, overlooked>>

Tick ==
    /\ now < Horizon /\ now' = now + 1
    /\ UNCHANGED <<at, outbox, pack, key, boot, mind, alerts, judged, overlooked, troubles>>

(* Payments of one size are numbered in the order they are charged.          *)
NextCharged(i) ==
    /\ at[i] = 0
    /\ \A j \in Payments : (j < i /\ Amount(j) = Amount(i)) => at[j] # 0

(* preflight: no payment without an ACTIVE pack; the charge and its event    *)
(* are one transaction.                                                      *)
Charge(i) ==
    /\ boot.step = "up" /\ NextCharged(i) /\ ActivePacks # {}
    /\ at' = [at EXCEPT ![i] = now]
    /\ outbox' = [outbox EXCEPT ![i].status = "PENDING"]
    /\ UNCHANGED <<now, pack, key, boot, mind, alerts, judged, overlooked, troubles>>
-----------------------------------------------------------------------------
(* _observation_from: a charge's envelope names the customer and a positive  *)
(* amount and carries no direction, which makes it OUTBOUND.                 *)
ObservationFrom(i) == [occurred_at |-> at[i], amount |-> Amount(i), direction |-> "OUTBOUND"]

(* The evaluators, on the history h and the observation of payment i: the    *)
(* rule fires with a window start, or not (0).  An observation that the      *)
(* history holds twice counts twice.                                         *)
WindowOf(h, i, len) == {j \in Held(h) : at[j] <= at[i] /\ at[j] + len >= at[i]}
CountIn(h, w) == MapThenSumSet(LAMBDA j : h[j], w)
TotalIn(h, w) == MapThenSumSet(LAMBDA j : h[j] * ObservationFrom(j).amount, w)
Start(w) == Min({at[j] : j \in w})

EvaluateStructuring(h, i) ==
    LET w == WindowOf(h, i, Window) IN
    IF w \cap Large # {} THEN 0
    ELSE IF CountIn(h, w) >= MinCount /\ TotalIn(h, w) >= Aggregate THEN Start(w) ELSE 0

EvaluateVelocity(h, i) ==
    LET w == WindowOf(h, i, 1) IN IF CountIn(h, w) >= DayCount THEN Start(w) ELSE 0

(* The mule rule passes unless senders fan in.  No observation is INBOUND,    *)
(* so its further conditions on what goes out again are never reached.       *)
EvaluateMule(h, i) ==
    LET w == {j \in WindowOf(h, i, 1) : ObservationFrom(j).direction = "INBOUND"} IN
    IF w = {} THEN 0 ELSE Start(w)

EvaluateBaseline(h, i, break) ==
    LET w == {j \in Held(h) : break <= at[j] /\ at[j] <= at[i]} IN
    IF break = 0 \/ at[i] > break + 1 THEN 0
    ELSE IF CountIn(h, w) >= Spike THEN break ELSE 0

Outcome(rule, m, i) ==
    CASE rule = STRUCTURING -> EvaluateStructuring(m.count, i)
      [] rule = VELOCITY    -> EvaluateVelocity(m.count, i)
      [] rule = MULE        -> EvaluateMule(m.count, i)
      [] rule = BASELINE    -> EvaluateBaseline(m.count, i, m.break)

(* The history before the rules are evaluated.                               *)
Observe(i) ==
    [seen  |-> mind.seen \cup {i},
     count |-> [mind.count EXCEPT ![i] = @ + 1],
     last  |-> at[i],
     break |-> IF mind.last # 0 /\ at[i] > mind.last + Dormancy THEN at[i] ELSE mind.break]

(* Ghost: the payments of the window as they really were, all of them        *)
(* evaluated before this one, which is evaluated the moment it happens.      *)
RingDue(i) ==
    LET w == {j \in Payments : at[j] # 0 /\ at[j] <= at[i] /\ at[j] + Window >= at[i]} IN
    /\ now = at[i] /\ w \ {i} \subseteq judged /\ w \cap Large = {}
    /\ Cardinality(w) >= MinCount /\ Cardinality(w) >= Aggregate

(* intake_event under pack p; a rule in broken raises and is recorded as a   *)
(* monitor failure instead.  raise_alert returns the alert of the same rule  *)
(* and window when there is one.                                             *)
Evaluate(i, p, broken) ==
    LET m == Observe(i)
        loaded == (RulesOf(p) \cup {BASELINE}) \ broken
        fired == {r \in loaded : Outcome(r, m, i) # 0}
    IN  /\ mind' = m
        /\ alerts' = alerts \cup {<<r, Outcome(r, m, i)>> : r \in fired}
                            \cup (IF broken = {} THEN {} ELSE {<<MONITOR_FAILURE, at[i]>>})
        /\ judged' = judged \cup {i}
        /\ overlooked' = (overlooked \/ (RingDue(i) /\ STRUCTURING \notin fired \cup broken))

RowPublished(i) == outbox' = [outbox EXCEPT ![i].status = "PUBLISHED"]
RowFailed(i) ==
    outbox' = [outbox EXCEPT ![i].tries = @ + 1,
                  ![i].status = IF outbox[i].tries + 1 = MaxTries THEN "POISON" ELSE @]

(* One delivery through _TransactionMonitorAdapter.intake_event: the event   *)
(* id is remembered before an ACTIVE pack is asked for, and a missing pack   *)
(* is raised to the worker.                                                  *)
Deliver(i) ==
    /\ boot.step = "up" /\ outbox[i].status = "PENDING"
    /\ \/ /\ i \in mind.seen
          /\ RowPublished(i) /\ UNCHANGED <<mind, alerts, judged, overlooked, boot, troubles>>
       \/ /\ i \notin mind.seen /\ ActivePacks = {}
          /\ mind' = [mind EXCEPT !.seen = @ \cup {i}] /\ RowFailed(i)
          /\ UNCHANGED <<alerts, judged, overlooked, boot, troubles>>
       \/ /\ i \notin mind.seen
          /\ \E p \in ActivePacks : Evaluate(i, p, {})
          /\ RowPublished(i) /\ UNCHANGED <<boot, troubles>>
       \/ /\ i \notin mind.seen /\ troubles < MaxTroubles
          /\ \E p \in ActivePacks : \E r \in RulesOf(p) : Evaluate(i, p, {r})
          /\ troubles' = troubles + 1 /\ RowPublished(i) /\ UNCHANGED boot
    /\ UNCHANGED <<now, at, pack, key>>

(* The process dies after the evaluation and before the row is marked.       *)
DeliverAndDie(i) ==
    /\ boot.step = "up" /\ outbox[i].status = "PENDING" /\ i \notin mind.seen
    /\ troubles < MaxTroubles /\ troubles' = troubles + 1
    /\ \E p \in ActivePacks :
        LET m == Observe(i)
            fired == {r \in RulesOf(p) \cup {BASELINE} : Outcome(r, m, i) # 0}
        IN alerts' = alerts \cup {<<r, Outcome(r, m, i)>> : r \in fired}
    /\ boot' = Down /\ mind' = NoMind
    /\ UNCHANGED <<now, at, outbox, pack, key, judged, overlooked>>

MNext ==
    \/ \E p \in Packs, v \in Packs : Boot(p, v)
    \/ BootBare \/ Supersede \/ InsertPack \/ StartMonitor \/ Crash \/ Tick
    \/ \E v \in Packs : RevokeKey(v)
    \/ \E i \in Payments : Charge(i) \/ Deliver(i) \/ DeliverAndDie(i)

MSpec == MInit /\ [][MNext]_monitoring
-----------------------------------------------------------------------------
(* A restart makes the monitor forget no ring.  When a payment completes a   *)
(* structuring window whose other payments have been evaluated, and is       *)
(* itself evaluated at once, the structuring alert is raised, whatever       *)
(* crashes, boots, packs and evaluation errors came in between: __init__     *)
(* rehydrates what the rule's window can still reach.                        *)
RingIsCaught == ~overlooked
=============================================================================
