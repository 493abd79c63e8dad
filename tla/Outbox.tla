------------------------------- MODULE Outbox -------------------------------
(***************************************************************************)
(* The transactional outbox of bdpay.platform.outbox, its drain worker and *)
(* the in-process event bus it publishes to (bdpay.platform.eventbus).     *)
(*                                                                         *)
(* A producing service inserts an event row in the transaction of its      *)
(* business write.  Workers claim due rows under a lease, hand each        *)
(* envelope to every subscribed consumer and only then mark the row.  A    *)
(* publish that fails gives the row back, until MAX_ATTEMPTS makes it      *)
(* POISON.  A worker may crash anywhere; the lease then runs out and the   *)
(* row is claimed again.                                                   *)
(*                                                                         *)
(* Time appears only as the passing of a lease's expiry instant.  Workers  *)
(* are processes.  A process owns an event bus, whose IdempotentConsumer   *)
(* sets (`seen') are lost when it crashes.  The id a process claims rows   *)
(* under need not be its own: the composition root gives every process the *)
(* same one (app.py, worker_id="outbox-worker@app").                       *)
(***************************************************************************)
EXTENDS Naturals, FiniteSets

CONSTANTS
    Events,        \* content-addressed event ids
    Workers,       \* processes that run an OutboxWorker
    WorkerId,      \* the worker_id each of them was given
    Consumers,     \* subscriptions that match every event
    NoWorker,      \* claimed_by IS NULL
    NoEvent,
    MAX_ATTEMPTS,  \* platform/outbox.py MAX_ATTEMPTS
    BatchSize,     \* OutboxWorker batch_size
    MaxCrashes     \* bound: worker crashes in a behaviour

ASSUME OutboxAssumption ==
    /\ MAX_ATTEMPTS \in Nat \ {0}
    /\ BatchSize \in Nat \ {0}
    /\ MaxCrashes \in Nat
    /\ DOMAIN WorkerId = Workers
    /\ NoWorker \notin {WorkerId[w] : w \in Workers}
    /\ NoEvent \notin Events

VARIABLES
    status,        \* row status, or "ABSENT" before the producing commit
    claimedBy,     \* claimed_by
    leaseOver,     \* lease_expires_at < now
    attempts,      \* attempt_count
    batch,         \* per worker: claimed events it has still to settle
    current,       \* per worker: the event whose publish has begun
    stage,         \* per worker: "idle", "publishing", "published", "failed"
    todo,          \* per worker: consumers publish() has still to call
    error,         \* per worker: first_error is set in this publish()
    seen,          \* per worker and consumer: IdempotentConsumer._seen
    runs,          \* per event and consumer: completed handler runs
    crashes

rows    == <<status, claimedBy, leaseOver, attempts>>
process == <<batch, current, stage, todo, error, seen>>
vars    == <<rows, process, runs, crashes>>

RowStatus == {"ABSENT", "PENDING", "CLAIMED", "PUBLISHED", "POISON"}
Settled   == {"PUBLISHED", "POISON"}

(* The CASE of release_failed.                                              *)
CapReached(n) == n >= MAX_ATTEMPTS

TypeOK ==
    /\ status \in [Events -> RowStatus]
    /\ claimedBy \in [Events -> {WorkerId[w] : w \in Workers} \cup {NoWorker}]
    /\ leaseOver \in [Events -> BOOLEAN]
    /\ attempts \in [Events -> 0..MAX_ATTEMPTS]
    /\ batch \in [Workers -> SUBSET Events]
    /\ current \in [Workers -> Events \cup {NoEvent}]
    /\ stage \in [Workers -> {"idle", "publishing", "published", "failed"}]
    /\ todo \in [Workers -> SUBSET Consumers]
    /\ error \in [Workers -> BOOLEAN]
    /\ seen \in [Workers -> [Consumers -> SUBSET Events]]
    /\ runs \in [Events -> [Consumers -> Nat]]
    /\ crashes \in 0..MaxCrashes

Init ==
    /\ status = [e \in Events |-> "ABSENT"]
    /\ claimedBy = [e \in Events |-> NoWorker]
    /\ leaseOver = [e \in Events |-> FALSE]
    /\ attempts = [e \in Events |-> 0]
    /\ batch = [w \in Workers |-> {}]
    /\ current = [w \in Workers |-> NoEvent]
    /\ stage = [w \in Workers |-> "idle"]
    /\ todo = [w \in Workers |-> {}]
    /\ error = [w \in Workers |-> FALSE]
    /\ seen = [w \in Workers |-> [c \in Consumers |-> {}]]
    /\ runs = [e \in Events |-> [c \in Consumers |-> 0]]
    /\ crashes = 0
-----------------------------------------------------------------------------
(* enqueue: INSERT ... ON CONFLICT DO NOTHING.  A second insert of the same *)
(* event id is a no-op, so it is the stuttering step.                       *)
Enqueue(e) ==
    /\ status[e] = "ABSENT"
    /\ status' = [status EXCEPT ![e] = "PENDING"]
    /\ UNCHANGED <<claimedBy, leaseOver, attempts, process, runs, crashes>>

DueWithoutLease(e) == status[e] = "PENDING"

Due(e) == \/ status[e] = "PENDING"
          \/ status[e] = "CLAIMED" /\ leaseOver[e]

(* claim_batch, called by drain_once of an idle worker.  ORDER BY           *)
(* produced_at is left out: any due rows up to the batch size may be taken. *)
ClaimBatch(w, B) ==
    /\ stage[w] = "idle" /\ batch[w] = {}
    /\ B # {} /\ Cardinality(B) <= BatchSize
    /\ \A e \in B : Due(e)
    /\ status' = [e \in Events |-> IF e \in B THEN "CLAIMED" ELSE status[e]]
    /\ claimedBy' = [e \in Events |-> IF e \in B THEN WorkerId[w] ELSE claimedBy[e]]
    /\ leaseOver' = [e \in Events |-> IF e \in B THEN FALSE ELSE leaseOver[e]]
    /\ batch' = [batch EXCEPT ![w] = B]
    /\ UNCHANGED <<attempts, current, stage, todo, error, seen, runs, crashes>>

(* The worker takes the next record of its batch and enters publish().      *)
BeginPublish(w, e) ==
    /\ stage[w] = "idle" /\ e \in batch[w]
    /\ batch' = [batch EXCEPT ![w] = @ \ {e}]
    /\ current' = [current EXCEPT ![w] = e]
    /\ stage' = [stage EXCEPT ![w] = "publishing"]
    /\ todo' = [todo EXCEPT ![w] = Consumers]
    /\ error' = [error EXCEPT ![w] = FALSE]
    /\ UNCHANGED <<rows, seen, runs, crashes>>

(* One turn of the loop in publish(): IdempotentConsumer.handle skips an    *)
(* event it has seen, otherwise runs the handler and remembers the event.   *)
Handle(w, c) ==
    /\ stage[w] = "publishing" /\ c \in todo[w]
    /\ todo' = [todo EXCEPT ![w] = @ \ {c}]
    /\ IF current[w] \in seen[w][c]
       THEN UNCHANGED <<seen, runs>>
       ELSE /\ seen' = [seen EXCEPT ![w][c] = @ \cup {current[w]}]
            /\ runs' = [runs EXCEPT ![current[w]][c] = @ + 1]
    /\ UNCHANGED <<rows, batch, current, stage, error, crashes>>

(* The handler raises: the event is not remembered and first_error is set.  *)
HandlerRaises(w, c) ==
    /\ stage[w] = "publishing" /\ c \in todo[w]
    /\ current[w] \notin seen[w][c]
    /\ todo' = [todo EXCEPT ![w] = @ \ {c}]
    /\ error' = [error EXCEPT ![w] = TRUE]
    /\ UNCHANGED <<rows, batch, current, stage, seen, runs, crashes>>

EndPublishIgnoringErrors(w) ==
    /\ stage[w] = "publishing" /\ todo[w] = {}
    /\ stage' = [stage EXCEPT ![w] = "published"]
    /\ UNCHANGED <<rows, batch, current, todo, error, seen, runs, crashes>>

EndPublish(w) ==
    /\ stage[w] = "publishing" /\ todo[w] = {}
    /\ stage' = [stage EXCEPT ![w] = IF error[w] THEN "failed" ELSE "published"]
    /\ UNCHANGED <<rows, batch, current, todo, error, seen, runs, crashes>>

OwnsByIdAlone(w, e) == claimedBy[e] = WorkerId[w]

(* The WHERE clause of both settling updates.                               *)
Owns(w, e) == status[e] = "CLAIMED" /\ claimedBy[e] = WorkerId[w]

(* A settling update that matches no row raises OutboxError: the exception  *)
(* leaves drain_once, run() logs it, and the rest of the batch is dropped   *)
(* (its rows stay CLAIMED until their lease runs out).                      *)
MarkPublished(w) ==
    LET e == current[w] IN
    /\ stage[w] = "published"
    /\ \/ /\ Owns(w, e)
          /\ status' = [status EXCEPT ![e] = "PUBLISHED"]
          /\ batch' = batch
       \/ /\ ~Owns(w, e)
          /\ status' = status
          /\ batch' = [batch EXCEPT ![w] = {}]
    /\ stage' = [stage EXCEPT ![w] = "idle"]
    /\ current' = [current EXCEPT ![w] = NoEvent]
    /\ UNCHANGED <<claimedBy, leaseOver, attempts, todo, error, seen, runs, crashes>>

ReleaseFailed(w) ==
    LET e == current[w] IN
    /\ stage[w] = "failed"
    /\ \/ /\ Owns(w, e)
          /\ attempts' = [attempts EXCEPT ![e] = @ + 1]
          /\ status' = [status EXCEPT ![e] =
                          IF CapReached(attempts[e] + 1) THEN "POISON" ELSE "PENDING"]
          /\ claimedBy' = [claimedBy EXCEPT ![e] = NoWorker]
          /\ leaseOver' = [leaseOver EXCEPT ![e] = FALSE]
          /\ batch' = batch
       \/ /\ ~Owns(w, e)
          /\ batch' = [batch EXCEPT ![w] = {}]
          /\ UNCHANGED rows
    /\ stage' = [stage EXCEPT ![w] = "idle"]
    /\ current' = [current EXCEPT ![w] = NoEvent]
    /\ UNCHANGED <<todo, error, seen, runs, crashes>>

(* The clock passes lease_expires_at.                                       *)
LeaseExpires(e) ==
    /\ status[e] = "CLAIMED" /\ ~leaseOver[e]
    /\ leaseOver' = [leaseOver EXCEPT ![e] = TRUE]
    /\ UNCHANGED <<status, claimedBy, attempts, process, runs, crashes>>

(* The process dies and restarts: its batch, its publish() frame and the    *)
(* _seen sets of its bus are gone.                                          *)
Crash(w) ==
    /\ crashes < MaxCrashes
    /\ crashes' = crashes + 1
    /\ batch' = [batch EXCEPT ![w] = {}]
    /\ current' = [current EXCEPT ![w] = NoEvent]
    /\ stage' = [stage EXCEPT ![w] = "idle"]
    /\ todo' = [todo EXCEPT ![w] = {}]
    /\ error' = [error EXCEPT ![w] = FALSE]
    /\ seen' = [seen EXCEPT ![w] = [c \in Consumers |-> {}]]
    /\ UNCHANGED <<rows, runs>>

WorkerStep(w) ==
    \/ \E B \in SUBSET Events : ClaimBatch(w, B)
    \/ \E e \in Events : BeginPublish(w, e)
    \/ \E c \in Consumers : Handle(w, c) \/ HandlerRaises(w, c)
    \/ EndPublish(w)
    \/ MarkPublished(w)
    \/ ReleaseFailed(w)

Next ==
    \/ \E e \in Events : Enqueue(e) \/ LeaseExpires(e)
    \/ \E w \in Workers : WorkerStep(w) \/ Crash(w)

Spec == Init /\ [][Next]_vars

(* run() loops for ever and the clock advances; nothing forces a crash, an  *)
(* enqueue or a failing handler.                                            *)
SchedulesWorkers ==
    /\ \A w \in Workers : WF_vars(WorkerStep(w))
    /\ \A e \in Events : WF_vars(LeaseExpires(e))

FairSpec == Spec /\ SchedulesWorkers

(* At least once: a row is PUBLISHED only when every subscription has run    *)
(* its handler to the end for that event, in some process, whatever crashed, *)
(* raised or lost its lease on the way (publish before mark_published).      *)
PublishedWasHandled ==
    \A e \in Events : status[e] = "PUBLISHED" => \A c \in Consumers : runs[e][c] > 0

(* An event is given up exactly when its publish has failed MAX_ATTEMPTS     *)
(* times: the cap is reached by no other row, and no POISON row falls short. *)
PoisonExactlyAtCap ==
    \A e \in Events : (status[e] = "POISON") <=> (attempts[e] = MAX_ATTEMPTS)

(* Both sides of a delivery are honest at once: what is marked published was *)
(* handled, and what is given up was tried to the cap and no further.        *)
DeliveryIsHonest == PublishedWasHandled /\ PoisonExactlyAtCap

(* A slow worker, whose lease ran out while it was publishing, never undoes  *)
(* what the worker that took the row over has settled.                       *)
SettledIsFinal ==
    [][\A e \in Events : status[e] \in Settled => status'[e] = status[e]]_vars

(* Every committed event is eventually published to all consumers or parked  *)
(* as POISON; a crash, a lost lease or a dropped batch only delays it.       *)
EventuallySettled ==
    \A e \in Events : status[e] = "PENDING" ~> status[e] \in Settled

=============================================================================
