----------------------------- MODULE MCProgress -----------------------------
(***************************************************************************)
(* Liveness of the parts that run on their own: the outbox workers, the    *)
(* tasks, sweep and reversal dispatcher of payment intents, and the        *)
(* settlement-confirm-resume task.  `part' says which of them a behaviour  *)
(* is about.                                                               *)
(***************************************************************************)
EXTENDS PaymentIntents

CONSTANTS Events, Workers, WorkerId, Consumers, app, NoWorker, NoEvent, MAX_ATTEMPTS, BatchSize,
          MaxCrashes,
          Instructions, Cycles, MAX_RETRIES, DispatchTwoEyes, RetryTwoEyes

VARIABLES part, status, claimedBy, leaseOver, attempts, batch, current, stage, todo, error,
          seen, runs, crashes,
          sbatch, sinst, cycle, staged, unstaged, closed, told, work, scrashes, cancelCut, byRail

O == INSTANCE Outbox
S == INSTANCE Settlement WITH crashes <- scrashes

outboxVars == <<status, claimedBy, leaseOver, attempts, batch, current, stage, todo, error,
                seen, runs, crashes>>
settleVars == <<sbatch, sinst, cycle, staged, unstaged, closed, told, work, scrashes, cancelCut,
                byRail>>
all == <<part, outboxVars, settleVars, vars>>

MCWorkerId == [w \in Workers |-> app]

InitProgress == part \in {"outbox", "intents", "settlement"} /\ O!Init /\ S!SInit
                /\ Init /\ manual = Intents /\ rough = Intents

InOutbox(A) == part = "outbox" /\ A /\ UNCHANGED <<part, settleVars, vars>>
InIntents(A) == part = "intents" /\ A /\ UNCHANGED <<part, outboxVars, settleVars, kinds>>
InSettlement(A) == part = "settlement" /\ A /\ UNCHANGED <<part, outboxVars, vars>>

(* A fair step is one of its component; the next-state relation keeps the    *)
(* other two out of it.                                                      *)
ProgressSpec ==
    /\ InitProgress
    /\ [][InOutbox(O!Next) \/ InIntents(Next) \/ InSettlement(S!SNext)]_all
    /\ \A w \in Workers : WF_outboxVars(part = "outbox" /\ O!WorkerStep(w))
    /\ \A e \in Events : WF_outboxVars(part = "outbox" /\ O!LeaseExpires(e))
    /\ WF_moving(part = "intents" /\ Sweep)
    /\ \A i \in Intents : WF_moving(part = "intents" /\ Expires(i))
    /\ \A i \in Intents : WF_moving(part = "intents" /\ Cools(i))
    /\ \A i \in Intents, t \in Tasks :
          WF_moving(part = "intents" /\ task[i][t].at # "idle" /\ TaskStep(i, t))
    /\ \A r \in Reversers : WF_moving(part = "intents" /\ ReverserStep(r))
    /\ WF_settleVars(part = "settlement" /\ S!Steps)
    /\ \A b \in Cycles : WF_settleVars(part = "settlement" /\ S!ResumeConfirmations(b))

(* Outbox.tla: every committed event is eventually published or parked.      *)
EventuallySettled == O!EventuallySettled

(* PaymentIntents.tla and Settlement.tla: nothing in flight stays in flight. *)
(* A PROCESSING intent is taken on, a reversal ends and a batch with durable *)
(* evidence is confirmed, whoever died on the way.                           *)
NothingStaysInFlight == ProcessingEnds /\ ReversalsEnd /\ S!ConfirmationCompletes
=============================================================================
