--------------------------- MODULE ConnectorRunner ---------------------------
(***************************************************************************)
(* One connector of one gateway process: its circuit breaker               *)
(* (bdpay.connectors.breaker) and the runner that sends one connector_ref  *)
(* to the rail (.runner) over the idempotency and result stores            *)
(* (.idempotency, .stores).  The stretch between two awaits is one step,   *)
(* the kernel has one submission of a ref under way at a time, and the     *)
(* process may restart, which the stores survive and its calls do not.     *)
(***************************************************************************)
EXTENDS Naturals

CONSTANTS
    Tasks,          \* concurrent calls of the runner
    Informational,  \* breaker configuration: never blocks
    Threshold, Quota,      \* breaker: failure_threshold, probe_quota
    Retries, PollAttempts, \* retry_budget: submit_retries, poll_attempts
    MaxCalls, MaxRestarts  \* bounds

ASSUME RunnerAssumption == Quota \in Nat \ {0} /\ MaxCalls \in Nat /\ MaxRestarts \in Nat

VARIABLES
    reachable, \* the registry row is enabled, in a mode the runner may use
    brk,       \* breaker row: [state, fails, succ, probes]
    begun,     \* a dispatch intent is stored for the ref
    recorded,  \* the stored replay-safe outcome of the ref, or "none"
    last,      \* status of the last SUBMIT row in connector_results, or "none"
    rail,      \* what the rail did with the ref: absent, taken, declined, reversed
    task,      \* [op, at, polls, tries, reached] per call
    doubt,     \* why the next submit would be a second one: answered, timed_out, crash, or none
    blind,     \* causes of the second submits that went out
    calls, restarts

rvars == <<reachable, brk, begun, recorded, last, rail, task, doubt, blind, calls, restarts>>

NewCall(op, at) ==
    [op |-> op, at |-> at, polls |-> 0, tries |-> 0, reached |-> FALSE]
NoTask == NewCall("none", "idle")

CInit ==
    /\ reachable = TRUE
    /\ brk = [state |-> "CLOSED", fails |-> 0, succ |-> 0, probes |-> 0]
    /\ begun = FALSE /\ recorded = "none" /\ last = "none" /\ rail = "absent"
    /\ task = [t \in Tasks |-> NoTask]
    /\ doubt = "none" /\ blind = {} /\ calls = 0 /\ restarts = 0
-----------------------------------------------------------------------------
(* The breaker.  "cooled" says whether the cooldown has passed; "when",     *)
(* whether the failure window has, or that the row is unread.               *)
ToOpen(b) == [state |-> "OPEN", fails |-> b.fails, succ |-> 0, probes |-> 0]

ToHalfOpen(b) == [state |-> "HALF_OPEN", fails |-> b.fails, succ |-> 0, probes |-> 0]

ToClosed == [state |-> "CLOSED", fails |-> 0, succ |-> 0, probes |-> 0]

MaybeCooldown(b, cooled) == IF b.state = "OPEN" /\ cooled THEN ToHalfOpen(b) ELSE b

AdmitsAnyProbe(b, kind) ==
    \/ Informational \/ b.state = "CLOSED"
    \/ b.state = "HALF_OPEN" /\ (kind = "HEALTH" \/ b.probes < Quota)

(* admit: no new money on a suspect rail.                                   *)
Admits(b, kind) ==
    \/ Informational \/ b.state = "CLOSED"
    \/ b.state = "HALF_OPEN" /\ kind = "HEALTH"
    \/ b.state = "HALF_OPEN" /\ kind = "QUERY_STATUS" /\ b.probes < Quota

AfterAdmit(b, kind) ==
    IF b.state = "HALF_OPEN" /\ kind = "QUERY_STATUS" /\ ~Informational /\ b.probes < Quota
    THEN [b EXCEPT !.probes = @ + 1] ELSE b

Failure(status) == status \in {"failed", "not_received", "transport", "timed_out"}

ObserveHalfOpen(b, failure) ==
    IF failure THEN ToOpen(b)
    ELSE IF b.succ + 1 >= Quota THEN ToClosed ELSE [b EXCEPT !.succ = @ + 1]

ObserveClosed(b, failure, when) ==
    LET fails == IF b.fails = 0 \/ when = "lapsed" THEN 1 ELSE b.fails + 1
    IN  IF ~failure THEN [b EXCEPT !.fails = 0]
        ELSE IF fails >= Threshold THEN ToOpen([b EXCEPT !.fails = fails])
        ELSE [b EXCEPT !.fails = fails]

(* observe: a completion that finds the circuit OPEN carries no signal, and *)
(* one whose row cannot be read is dropped.                                 *)
Observe(b, status, when) ==
    CASE b.state = "OPEN" \/ when = "unread" -> b
      [] b.state = "HALF_OPEN" /\ when # "unread" -> ObserveHalfOpen(b, Failure(status))
      [] b.state = "CLOSED" /\ when # "unread" -> ObserveClosed(b, Failure(status), when)

(* reset: an operator may only end an OPEN phase.                           *)
Reset ==
    /\ brk.state = "OPEN"
    /\ brk' = ToHalfOpen(brk)
    /\ UNCHANGED <<reachable, begun, recorded, last, rail, task, doubt, blind, calls, restarts>>
-----------------------------------------------------------------------------
Submitting == {"submit", "resubmit", "settle"}

(* A call that has returned leaves nothing behind.                           *)
MovedTo(c, at) == IF at = "idle" THEN NoTask ELSE [c EXCEPT !.at = at]

Forwarded(c) == [c EXCEPT !.reached = FALSE]
Polled(c) == [c EXCEPT !.polls = @ + 1]
Tried(c) == [c EXCEPT !.tries = @ + 1]

Step(t, at) == task' = [task EXCEPT ![t] = MovedTo(@, at)]

Stores == <<begun, recorded, last, rail, doubt, blind>>

(* The stores: the first intent and the first outcome of a ref win, the      *)
(* breaker's row is overwritten as a whole.                                  *)
Begin == begun' = TRUE

RecordedAfter(status) ==
    IF status \in {"success", "pending", "rejected", "reversed"} /\ recorded = "none"
    THEN status ELSE recorded

Record(status) == last' = status

SaveBreaker(b) == brk' = b

Counters == <<calls, restarts>>

(* A caller enters the runner.  submit refuses after a timeout, and the two *)
(* ways out of a timeout refuse without one.                                *)
Enter(t, op, at) ==
    /\ task[t].at = "idle" /\ calls < MaxCalls
    /\ op \in Submitting =>
          \A u \in Tasks : task[u].op \in Submitting => task[u].at = "idle"
    /\ task' = [task EXCEPT ![t] = NewCall(op, at)]
    /\ calls' = calls + 1
    /\ UNCHANGED <<reachable, brk, Stores, restarts>>

Submit(t) == last # "timed_out" /\ Enter(t, "submit", "dispatch")

ResubmitAfterTimeout(t) == last = "timed_out" /\ Enter(t, "resubmit", "sleep")

SettleAfterTimeout(t) == last = "timed_out" /\ Enter(t, "settle", "sleep")

QueryStatus(t) == Enter(t, "query", "call")

HealthCheck(t) == Enter(t, "health", "call")

(* dispatch: a recorded outcome is replayed, an unreachable connector or a  *)
(* denying breaker answers FAILED without the rail, and otherwise the       *)
(* intent is stored before the adapter is called.                           *)
Dispatch(t, cooled, storeUp) ==
    /\ task[t].at = "dispatch"
    /\ UNCHANGED <<reachable, recorded, last, rail, doubt, Counters>>
    /\ LET b == IF Informational THEN brk ELSE MaybeCooldown(brk, cooled)
       IN  \/ /\ recorded # "none"
              /\ Step(t, "idle") /\ UNCHANGED <<brk, begun, blind>>
           \/ /\ recorded = "none" /\ (~reachable \/ ~storeUp)
              /\ Step(t, "idle") /\ UNCHANGED <<brk, begun, blind>>
           \/ /\ recorded = "none" /\ reachable /\ storeUp /\ ~Admits(b, "SUBMIT")
              /\ SaveBreaker(b) /\ Step(t, "idle") /\ UNCHANGED <<begun, blind>>
           \/ /\ recorded = "none" /\ reachable /\ storeUp /\ Admits(b, "SUBMIT")
              /\ SaveBreaker(b) /\ Begin
              /\ blind' = IF doubt = "none" THEN blind ELSE blind \cup {doubt}
              /\ task' = [task EXCEPT ![t] = MovedTo(Forwarded(@), "rail")]

(* The rail acts on a submit at most once per ref.                          *)
RailTakes(t, does) ==
    /\ task[t].at = "rail" /\ ~task[t].reached
    /\ task' = [task EXCEPT ![t].reached = TRUE]
    /\ rail' = IF rail = "absent" THEN does ELSE rail
    /\ UNCHANGED <<reachable, brk, begun, recorded, last, doubt, blind, Counters>>

RailAnswers(t) ==
    {"timed_out", "transport", "failed"} \cup
    (IF ~task[t].reached THEN {}
     ELSE IF rail = "declined" THEN {"rejected"} ELSE {"success", "pending"})

ReplaySafe == {"success", "pending", "rejected", "reversed"}

Retried(t, status) == status = "transport" /\ task[t].op = "submit" /\ task[t].tries < Retries

(* The end of dispatch: the row, the replay-safe outcome, the breaker; a    *)
(* transport error is retried within submit's budget.                       *)
SubmitEnds(t, status, when) ==
    /\ task[t].at = "rail" /\ status \in RailAnswers(t)
    /\ Record(status) /\ recorded' = RecordedAfter(status)
    /\ SaveBreaker(Observe(brk, status, when))
    /\ doubt' = IF status \in ReplaySafe THEN "answered"
                ELSE IF status = "timed_out" THEN "timed_out" ELSE "none"
    /\ IF Retried(t, status)
       THEN task' = [task EXCEPT ![t] = MovedTo(Tried(@), "dispatch")]
       ELSE Step(t, "idle")
    /\ UNCHANGED <<reachable, begun, rail, blind, Counters>>

(* The calls that are not submits: query_status, reverse and health_check.  *)
Kind(t) ==
    CASE task[t].op = "health" -> "HEALTH"
      [] task[t].at = "reverse" -> "REVERSE"
      [] OTHER -> "QUERY_STATUS"

Asked(t) == [call |-> "asking", reverse |-> "reversing", sleep |-> "polling"][task[t].at]

(* What the caller does with the answer to one of those calls.  poll_status *)
(* and settle_after_timeout stop at their own definitive answers.           *)
Definitive(t, status) ==
    \/ status \in {"success", "rejected", "reversed", "not_received"}
    \/ task[t].op = "resubmit" /\ status = "failed"

PollContinues(t, status) == ~Definitive(t, status) /\ task[t].polls + 1 < PollAttempts

AfterPoll(t, status) ==
    IF PollContinues(t, status) THEN "sleep"
    ELSE IF task[t].op = "settle" /\ ~Definitive(t, status) THEN "reverse"
    ELSE IF task[t].op = "resubmit" /\ status = "not_received" THEN "dispatch"
    ELSE "idle"

Continue(t, status) ==
    IF task[t].at \in {"sleep", "polling"}
    THEN task' = [task EXCEPT ![t] = MovedTo(Polled(@), AfterPoll(t, status))]
    ELSE Step(t, "idle")

Call(t, cooled, storeUp) ==
    /\ task[t].at \in {"call", "reverse", "sleep"}
    /\ UNCHANGED <<reachable, Stores, Counters>>
    /\ LET b == IF Informational THEN brk ELSE MaybeCooldown(brk, cooled)
       IN  \/ (~reachable \/ ~storeUp) /\ Continue(t, "failed") /\ UNCHANGED brk
           \/ reachable /\ storeUp /\ ~Admits(b, Kind(t)) /\ SaveBreaker(b) /\ Continue(t, "failed")
           \/ reachable /\ storeUp /\ Admits(b, Kind(t))
              /\ SaveBreaker(AfterAdmit(b, Kind(t))) /\ Step(t, Asked(t))

QueryAnswers ==
    {"timed_out", "transport", "failed"} \cup
    (CASE rail = "absent" -> {"not_received"} [] rail = "declined" -> {"rejected"}
       [] rail = "reversed" -> {"reversed"} [] OTHER -> {"success", "pending"})

(* _call after the adapter: the row, the breaker, and the caller's next     *)
(* step; nothing is put into the idempotency store.                         *)
CallEnds(t, status, when) ==
    /\ task[t].at \in {"asking", "polling"}
    /\ status \in IF Kind(t) = "HEALTH" THEN {"success", "failed"} ELSE QueryAnswers
    /\ SaveBreaker(Observe(brk, status, when))
    /\ doubt' = IF status = "not_received" THEN "none" ELSE doubt
    /\ Continue(t, status)
    /\ UNCHANGED <<reachable, begun, recorded, last, rail, blind, Counters>>

ReverseEnds(t, status, when) ==
    /\ task[t].at = "reversing" /\ status \in {"reversed", "rejected", "timed_out", "transport"}
    /\ rail' = IF status = "reversed" /\ rail = "taken" THEN "reversed" ELSE rail
    /\ SaveBreaker(Observe(brk, status, when))
    /\ Step(t, "idle")
    /\ UNCHANGED <<reachable, begun, recorded, last, doubt, blind, Counters>>

(* Operators and the credential sweep change the registry row.              *)
ModeChange ==
    /\ reachable' = ~reachable
    /\ UNCHANGED <<brk, Stores, task, Counters>>

AtRail == {t \in Tasks : task[t].at = "rail"}

(* The process dies, possibly after the row of a submit and before the      *)
(* idempotency store or the breaker heard of it.                            *)
Restart ==
    /\ restarts < MaxRestarts
    /\ restarts' = restarts + 1
    /\ last' \in {last} \cup UNION {RailAnswers(t) : t \in AtRail}
    /\ doubt' = IF AtRail # {} THEN "crash" ELSE doubt
    /\ task' = [t \in Tasks |-> NoTask]
    /\ reachable' = TRUE
    /\ UNCHANGED <<brk, begun, recorded, rail, blind, calls>>

CNext ==
    \/ Reset \/ ModeChange \/ Restart
    \/ \E t \in Tasks :
          \/ Submit(t) \/ ResubmitAfterTimeout(t) \/ SettleAfterTimeout(t)
          \/ QueryStatus(t) \/ HealthCheck(t)
          \/ \E does \in {"taken", "declined"} : RailTakes(t, does)
          \/ \E x, y \in BOOLEAN : Dispatch(t, x, y) \/ Call(t, x, y)
          \/ \E s \in ReplaySafe \cup {"failed", "not_received", "transport", "timed_out"} :
                \E when \in {"within", "lapsed", "unread"} :
                   SubmitEnds(t, s, when) \/ CallEnds(t, s, when) \/ ReverseEnds(t, s, when)

CSpec == CInit /\ [][CNext]_rvars
-----------------------------------------------------------------------------
(* A ref goes to the rail again only when it is safe: after a timeout the   *)
(* rail has said not_received first, and after a replay-safe answer never;  *)
(* a process that died mid-dispatch is the one exception.                   *)
AskBeforeResubmit == blind \subseteq {"crash"}

(* While a circuit that blocks (one not Informational) is not closed no new *)
(* money reaches the rail; the probes stay within their quota, and only a   *)
(* full quota of successes observed in HALF_OPEN closes it.                 *)
CircuitHolds ==
    /\ brk.state # "CLOSED" /\ brk'.state = "CLOSED" =>
          brk.state = "HALF_OPEN" /\ brk.succ = Quota - 1
    /\ ~Informational => \A t \in Tasks :
          task[t].at # task'[t].at /\ task'[t].at \in {"rail", "reversing"} => brk'.state = "CLOSED"
    /\ brk'.probes <= Quota

(* runner.py and breaker.py: short of a crash, a ref is submitted again only *)
(* after the rail was asked, and an open circuit lets nothing new through.   *)
DispatchIsCareful == []AskBeforeResubmit /\ [][CircuitHolds]_rvars
=============================================================================
