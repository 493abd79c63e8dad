------------------------------ MODULE Admission ------------------------------
(***************************************************************************)
(* What a payment passes before it reaches a rail: the limits of the       *)
(* pre-flight pipeline (bdpay/kernel/preflight.py over the committed rows  *)
(* kernel/limits/pg_limit_data.py reads) and the choice of a connector     *)
(* (bdpay/kernel/routing.py, routing_models.py).                           *)
(*                                                                         *)
(* The first half follows the payments of one customer with a simplified   *)
(* identity record over NPSB.  confirm takes the customer's advisory lock, *)
(* checks, and commits; a payment in flight reserves its amount by its     *)
(* creation time, one that succeeded counts by its success time.  Time is  *)
(* a counter; a month is MonthLen units, the velocity window DayLen units. *)
(*                                                                         *)
(* The second half follows the routing engine with smart routing on.       *)
(* Rates, healths and ranks are in tenths (Unit) where the code has basis  *)
(* points.                                                                 *)
(***************************************************************************)
EXTENDS Naturals, Sequences, FiniteSets, FiniteSetsExt

CONSTANTS Intents,                    \* intents, each a number: its amount
          NoIntent,
          TxnCap, MonthCap,           \* the caps of the customer's tier
          DayCap, DayCount,           \* the caps of the method
          MonthLen, DayLen,           \* lengths in units of time
          Horizon,                    \* last instant considered
          MaxTurns,                   \* changes of the customer's standing
          Attempts,
          Connectors,                 \* candidates of the method, numbered in order
          Dear,                       \* those with the higher fee
          Deferrable,                 \* the method may wait for a rail window
          MaxSamples,                 \* results kept of one connector
          Probes                      \* answers of a health probe: <<health, latency>>

VARIABLES now, intent, lock, verdict, standing, turns

VARIABLES dispatchable, \* connectors the health view lets through
          result,       \* per connector: successes and calls in the window
          sample,       \* per connector: latest health sample
          policy,       \* routing_policies of the method
          routed,       \* what each attempt was sent to
          decision      \* routing_decisions, one per attempt at most

limits == <<now, intent, lock, verdict, standing, turns>>

routing == <<dispatchable, result, sample, policy, routed, decision>>

admission == <<limits, routing>>

-----------------------------------------------------------------------------
(* The rows the limit data port reads.                                     *)

InFlightStatus == {"REQUIRES_ACTION", "PROCESSING", "REQUIRES_CAPTURE"}

Month(t) == t \div MonthLen

\* Succeeded in the month, or in flight and created in it.
MonthRows ==
    {i \in Intents :
       \/ intent[i].state = "SUCCEEDED" /\ Month(intent[i].done) = Month(now)
       \/ intent[i].state \in InFlightStatus /\ Month(intent[i].made) = Month(now)}

MonthTotal == SumSet(MonthRows)

Recent(t) == t + DayLen > now

DayRows ==
    {i \in Intents : \/ intent[i].state = "SUCCEEDED" /\ Recent(intent[i].done)
                     \/ intent[i].state \in InFlightStatus /\ Recent(intent[i].made)}

SucceededCount24h == Cardinality(DayRows)

SucceededAmount24h == SumSet(DayRows)

-----------------------------------------------------------------------------
(* The checks, in their order; at the cap passes.                          *)

MerchantGates == standing # "merchant_blocked"

SubjectControls == standing # "frozen"

TierLimits(i) == i <= TxnCap /\ MonthTotal + i <= MonthCap

MethodCaps(i) == /\ SucceededAmount24h + i <= DayCap
                 /\ SucceededCount24h + 1 <= DayCount

LimitsPass(i) == MerchantGates /\ SubjectControls /\ TierLimits(i) /\ MethodCaps(i)

\* The screen may hit, fail, or pass; the AML verdict may hold; a method may
\* want a customer action first.
Preflight(i) ==
    IF ~LimitsPass(i) \/ standing = "listed" THEN {"refuse"}
    ELSE {"refuse", "action", "dispatch"}

\* Without the advisory lock.
LockFreeAlways == TRUE

LockFree == lock = NoIntent

LInit ==
    /\ now = 0
    /\ intent = [i \in Intents |-> [state |-> "ABSENT", made |-> 0, done |-> 0]]
    /\ lock = NoIntent /\ verdict = [i \in Intents |-> "none"]
    /\ standing = "clear" /\ turns = 0

Create(i) ==
    /\ intent[i].state = "ABSENT"
    /\ intent' = [intent EXCEPT ![i] = [state |-> "CREATED", made |-> now, done |-> 0]]
    /\ UNCHANGED <<now, lock, verdict, standing, turns>>

\* The lock is held to the end of the transaction; the checks read what
\* others committed, not the PRE_FLIGHT row of this one.
ConfirmChecks(i) ==
    /\ intent[i].state = "CREATED" /\ verdict[i] = "none"
    /\ LockFree
    /\ lock' = i
    /\ \E v \in Preflight(i) : verdict' = [verdict EXCEPT ![i] = v]
    /\ UNCHANGED <<now, intent, standing, turns>>

ConfirmCommits(i) ==
    /\ intent[i].state = "CREATED" /\ verdict[i] # "none"
    /\ intent' = [intent EXCEPT ![i].state =
                    CASE verdict[i] = "refuse" -> "FAILED"
                      [] verdict[i] = "action" -> "REQUIRES_ACTION"
                      [] verdict[i] = "dispatch" -> "PROCESSING"]
    /\ lock' = NoIntent
    /\ UNCHANGED <<now, verdict, standing, turns>>

\* The limits are not checked again.
CompleteAction(i) ==
    /\ intent[i].state = "REQUIRES_ACTION"
    /\ \E to \in {"PROCESSING", "FAILED"} : intent' = [intent EXCEPT ![i].state = to]
    /\ UNCHANGED <<now, lock, verdict, standing, turns>>

Succeed(i) == intent' = [intent EXCEPT ![i].state = "SUCCEEDED", ![i].done = now]

RailAnswers(i) ==
    /\ intent[i].state = "PROCESSING"
    /\ \/ Succeed(i)
       \/ \E to \in {"REQUIRES_CAPTURE", "FAILED"} :
             intent' = [intent EXCEPT ![i].state = to]
    /\ UNCHANGED <<now, lock, verdict, standing, turns>>

CaptureOrLapse(i) ==
    /\ intent[i].state = "REQUIRES_CAPTURE"
    /\ Succeed(i) \/ intent' = [intent EXCEPT ![i].state = "FAILED"]
    /\ UNCHANGED <<now, lock, verdict, standing, turns>>

\* An operator or a screening result changes what the gates answer.
StandingTurns ==
    /\ turns < MaxTurns /\ turns' = turns + 1
    /\ standing' \in {"clear", "frozen", "merchant_blocked", "listed"} \ {standing}
    /\ UNCHANGED <<now, intent, lock, verdict>>

\* A confirm transaction does not span instants the model tells apart.
Tick ==
    /\ now < Horizon /\ lock = NoIntent
    /\ now' = now + 1
    /\ UNCHANGED <<intent, lock, verdict, standing, turns>>

LimitNext ==
    /\ \/ \E i \in Intents : \/ Create(i) \/ ConfirmChecks(i) \/ ConfirmCommits(i)
                             \/ CompleteAction(i) \/ RailAnswers(i)
                             \/ CaptureOrLapse(i)
       \/ StandingTurns \/ Tick
    /\ UNCHANGED routing

Paid(I) == {i \in I : intent[i].state = "SUCCEEDED"}

\* Payments of the month that were also created in it.
PaidWithin(m) == {i \in Paid(Intents) : Month(intent[i].made) = m /\ Month(intent[i].done) = m}

(* However confirms, answers, captures and customer actions interleave,    *)
(* what a customer both starts and completes within a month, or within any *)
(* velocity window, stays within the caps of the tier and of NPSB: the     *)
(* check and the reservation are one transaction under the customer's      *)
(* lock (confirm, _lock_customer_limit_reservation).                       *)
CapsHold ==
    /\ \A m \in 0 .. Month(Horizon) : SumSet(PaidWithin(m)) <= MonthCap
    /\ \A t \in 0 .. Horizon :
          LET Window == {i \in Paid(Intents) : /\ intent[i].made + DayLen > t
                                               /\ intent[i].done <= t}
          IN SumSet(Window) <= DayCap /\ Cardinality(Window) <= DayCount

-----------------------------------------------------------------------------
(* Routing.                                                                *)

Unit == 10

\* Weight vectors a policy may have; they sum to Unit.
Weights == {[success |-> 6, health |-> 2, fee |-> 2, latency |-> 0],
            [success |-> 0, health |-> 2, fee |-> 4, latency |-> 4]}

NoRoute == 0

\* Not connectors: the payment waits for a rail window, or is declined.
StoreAndForward == 100

Declined == 101

NoSample == [health |-> 0, latency |-> 0]

HealthBps(health) ==
    CASE health = "down" -> 0 [] health = "degraded" -> Unit \div 2 [] health = "up" -> Unit

RInit ==
    /\ dispatchable = Connectors
    /\ result = [c \in Connectors |-> [good |-> 0, calls |-> 0]]
    /\ sample = [c \in Connectors |-> NoSample]
    /\ policy = <<>>
    /\ routed = [a \in Attempts |-> NoRoute]
    /\ decision = [a \in Attempts |-> {}]

\* Results and samples exist or there is no signal.
HasSignal(c) == result[c].calls > 0 /\ sample[c].latency > 0

SignalOf(c) == [success |-> (result[c].good * Unit) \div result[c].calls,
                health |-> sample[c].health, fee |-> (IF c \in Dear THEN 2 ELSE 1),
                latency |-> sample[c].latency]

\* The rank of a value among the distinct ones, lowest 0 and highest Unit.
RankLowIsGood(value, C) ==
    LET Distinct == {value[c] : c \in C} IN
    [c \in C |-> IF Cardinality(Distinct) = 1 THEN 0
                 ELSE (Cardinality({v \in Distinct : v < value[c]}) * Unit)
                         \div (Cardinality(Distinct) - 1)]

Scores(w, sig, C) ==
    LET fee     == RankLowIsGood([c \in C |-> sig[c].fee], C)
        latency == RankLowIsGood([c \in C |-> sig[c].latency], C)
    IN [c \in C |-> (w.success * sig[c].success + w.health * sig[c].health
                     + w.fee * (Unit - fee[c]) + w.latency * (Unit - latency[c]))
                       \div Unit]

\* Highest score first, connector id next.
Best(score, C) ==
    CHOOSE c \in C : \A other \in C :
       score[c] > score[other] \/ (score[c] = score[other] /\ c <= other)

First(C) == CHOOSE c \in C : \A other \in C : c <= other

ActivePolicies == {p \in 1 .. Len(policy) : policy[p].status = "ACTIVE"}

\* The unique index on the active row of a method refuses a second one, so
\* superseding and inserting are one step.
ActivatePolicy(w) ==
    /\ Len(policy) < Cardinality(Weights)
    /\ policy' = Append([p \in 1 .. Len(policy) |-> [policy[p] EXCEPT !.status = "SUPERSEDED"]],
                        [weights |-> w, status |-> "ACTIVE"])
    /\ UNCHANGED <<dispatchable, result, sample, routed, decision>>

RecordConnectorResult(c, good) ==
    /\ result[c].calls < MaxSamples
    /\ result' = [result EXCEPT ![c] = [good |-> @.good + (IF good THEN 1 ELSE 0),
                                        calls |-> @.calls + 1]]
    /\ UNCHANGED <<dispatchable, sample, policy, routed, decision>>

RecordHealthSample(c, health, latency) ==
    /\ sample' = [sample EXCEPT ![c] = [health |-> HealthBps(health),
                                        latency |-> latency]]
    /\ UNCHANGED <<dispatchable, result, policy, routed, decision>>

HealthViewTurns(c) ==
    /\ dispatchable' = (dispatchable \ {c}) \cup ({c} \ dispatchable)
    /\ UNCHANGED <<result, sample, policy, routed, decision>>

RecordDecision(a, p, passing, sig, to, fallback) ==
    decision' = [decision EXCEPT ![a] =
        {[policy |-> p, weights |-> policy[p].weights, passing |-> passing,
          signals |-> sig, selected |-> to, fallback |-> fallback]}]

FallbackToFirst(a, p, passing) ==
    /\ RecordDecision(a, p, passing, <<>>, First(passing), TRUE)
    /\ routed' = [routed EXCEPT ![a] = First(passing)]

SelectBest(a, p, passing) ==
    LET sig == [c \in passing |-> SignalOf(c)]
        to  == Best(Scores(policy[p].weights, sig, passing), passing)
    IN /\ RecordDecision(a, p, passing, sig, to, FALSE)
       /\ routed' = [routed EXCEPT ![a] = to]

NoPassingConnector(a) ==
    /\ routed' = [routed EXCEPT ![a] =
                    IF Deferrable THEN StoreAndForward ELSE Declined]
    /\ UNCHANGED decision

SelectConnector(a) ==
    LET passing == dispatchable IN
    /\ routed[a] = NoRoute
    /\ IF passing = {} THEN NoPassingConnector(a)
       ELSE IF Cardinality(passing) < 2 \/ ActivePolicies = {}
       THEN /\ routed' = [routed EXCEPT ![a] = First(passing)]
            /\ UNCHANGED decision
       ELSE \E p \in ActivePolicies :
               IF \E c \in passing : ~HasSignal(c)
               THEN FallbackToFirst(a, p, passing)
               ELSE SelectBest(a, p, passing)
    /\ UNCHANGED <<dispatchable, result, sample, policy>>

RouteNext ==
    /\ \/ \E a \in Attempts : SelectConnector(a)
       \/ \E w \in Weights : ActivatePolicy(w)
       \/ \E c \in Connectors :
             \/ HealthViewTurns(c)
             \/ \E good \in BOOLEAN : RecordConnectorResult(c, good)
             \/ \E probe \in Probes : RecordHealthSample(c, probe[1], probe[2])
    /\ UNCHANGED limits

AInit == LInit /\ RInit

LimitSpec == AInit /\ [][LimitNext]_admission

RouteSpec == AInit /\ [][RouteNext]_admission

\* c is no worse than d in any signal the weights look at and better in one.
Dominates(w, c, d) ==
    LET AsGood == /\ w.success > 0 => c.success >= d.success
                  /\ w.health > 0 => c.health >= d.health
                  /\ w.fee > 0 => c.fee <= d.fee
                  /\ w.latency > 0 => c.latency <= d.latency
        Better == \/ w.success > 0 /\ c.success > d.success
                  \/ w.health > 0 /\ c.health > d.health
                  \/ w.fee > 0 /\ c.fee < d.fee
                  \/ w.latency > 0 /\ c.latency < d.latency
    IN AsGood /\ Better

(* A recorded routing decision explains the dispatch: it names the         *)
(* connector the attempt was sent to, one that was dispatchable, under the *)
(* policy's weights, and by its own snapshot no other passing connector    *)
(* dominates the choice in the signals the policy weighs                   *)
(* (_score_candidates, _rank_low_is_good).  At most one policy is active.  *)
RouteIsExplained ==
    /\ Cardinality(ActivePolicies) <= 1
    /\ \A a \in Attempts : \A d \in decision[a] :
          /\ d.selected \in d.passing /\ routed[a] = d.selected
          /\ d.weights = policy[d.policy].weights
          /\ ~d.fallback => \A c \in d.passing :
                ~Dominates(d.weights, d.signals[c], d.signals[d.selected])
=============================================================================
