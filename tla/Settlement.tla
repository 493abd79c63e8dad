----------------------------- MODULE Settlement -----------------------------
(***************************************************************************)
(* The merchant payout settlement of bdpay.ledger.settlement: instructions *)
(* gathered into one batch per cycle, dispatched behind the TCSA gate,     *)
(* confirmed, failed, retried or cancelled.                                *)
(*                                                                         *)
(* The engine's code is synchronous, so its operations do not interleave.  *)
(* But the settlement tables, the journal and the event tables commit one  *)
(* write at a time, and the process may die between any two writes: `work' *)
(* is the operation in progress, each of its steps one durable write, and  *)
(* Crash forgets it.  Every instruction pays out one unit of money.        *)
(***************************************************************************)
EXTENDS Integers, FiniteSets, FiniteSetsExt

CONSTANTS
    Instructions,      \* ordinals, in the order of created_at
    Cycles,            \* ordinals: a cycle date and session, and its batch
    MAX_RETRIES,
    DispatchTwoEyes,   \* a batch larger than this needs two eyes to go out,
    RetryTwoEyes,      \* ... and than this to be retried
    MaxCrashes         \* bound

ASSUME SettlementAssumption ==
    /\ Instructions \subseteq Nat /\ Cycles \subseteq Nat \ {0} /\ 1 \in Cycles
    /\ MAX_RETRIES \in Nat /\ DispatchTwoEyes \in Nat /\ RetryTwoEyes \in Nat

VARIABLES
    sbatch,            \* Cycles -> settlement_batches row
    sinst,             \* Instructions -> settlement_instructions row
    cycle,             \* the current cycle
    staged, unstaged,  \* settlement_batch_open entries and their reversals
    closed,            \* Cycles -> instructions in the settlement_batch_close entry
    told,              \* audit and outbox events of settled instructions and confirmed batches
    work,              \* the operation in progress
    crashes, cancelCut, byRail   \* history: crashes; cancels cut short; settled one by one

svars == <<sbatch, sinst, cycle, staged, unstaged, closed, told, work, crashes, cancelCut, byRail>>
journal == <<staged, unstaged, closed>>
past == <<crashes, cancelCut, byRail>>

SETTLEMENT_BATCH_STATES == {"OPEN", "PENDING_DISPATCH", "HELD", "DISPATCHED", "CONFIRMED", "FAILED",
                 "CANCELLED"}
INSTRUCTION_STATES == {"QUEUED", "SUBMITTED", "SETTLED", "RETURNED", "CANCELLED", "FAILED"}

NoBatch == 0
NoWork == [op |-> "idle", b |-> NoBatch, i |-> 0, todo |-> {}]
At(op) == work.op = op
Do(op, b, todo) == work' = [op |-> op, b |-> b, i |-> 0, todo |-> todo]
DoOne(op, b, i, todo) == work' = [op |-> op, b |-> b, i |-> i, todo |-> todo]
Done == work' = NoWork

In(b, S) == {i \in Instructions : sinst[i].batch = b /\ sinst[i].status \in S}
Large(b, threshold) == sbatch[b].count > threshold
SetStatus(b, s) == sbatch' = [sbatch EXCEPT ![b].status = s]
SetTwoEyes(b, v) == sbatch' = [sbatch EXCEPT ![b].twoEyes = v]
SetInst(i, s) == sinst' = [sinst EXCEPT ![i].status = s]

SInit ==
    /\ sbatch = [b \in Cycles |-> [status |-> "ABSENT", count |-> 0, twoEyes |-> FALSE,
                                   retries |-> 0, ref |-> FALSE]]
    /\ sinst = [i \in Instructions |-> [status |-> "ABSENT", batch |-> NoBatch, due |-> FALSE,
                                        frozen |-> FALSE]]
    /\ cycle = 1
    /\ staged = {} /\ unstaged = {} /\ closed = [b \in Cycles |-> {}]
    /\ told = {} /\ work = NoWork
    /\ crashes = 0 /\ cancelCut = {} /\ byRail = {}

STypeOK ==
    /\ sbatch \in [Cycles -> [status : SETTLEMENT_BATCH_STATES \cup {"ABSENT"}, count : Nat,
                              twoEyes : BOOLEAN, retries : Nat, ref : BOOLEAN]]
    /\ sinst \in [Instructions -> [status : INSTRUCTION_STATES \cup {"ABSENT"},
                                   batch : Cycles \cup {NoBatch}, due : BOOLEAN,
                                   frozen : BOOLEAN]]
    /\ cycle \in Cycles
    /\ staged \in SUBSET (Cycles \X Instructions) /\ unstaged \in SUBSET staged
    /\ closed \in [Cycles -> SUBSET Instructions]
-----------------------------------------------------------------------------
(* register_succeeded_payment, with or without a delivery hold: `due' stands *)
(* for everything but the freeze that _releasable asks of a row.             *)
RegisterSucceededPayment(i) ==
    /\ At("idle") /\ sinst[i].status = "ABSENT"
    /\ \A j \in Instructions : j < i => sinst[j].status # "ABSENT"
    /\ \E due \in BOOLEAN :
          sinst' = [sinst EXCEPT ![i].status = "QUEUED", ![i].due = due]
    /\ UNCHANGED <<sbatch, cycle, journal, told, work, past>>

(* set_aml_hold reaches every QUEUED row of the payment, in a batch or not.  *)
SetAmlHold(i) ==
    /\ At("idle") /\ sinst[i].status = "QUEUED"
    /\ sinst' = [sinst EXCEPT ![i].frozen = ~@]
    /\ UNCHANGED <<sbatch, cycle, journal, told, work, past>>

(* confirm_delivery, or the passing of the statutory deadline.               *)
ConfirmDelivery(i) ==
    /\ At("idle") /\ sinst[i].status = "QUEUED" /\ ~sinst[i].due
    /\ sinst' = [sinst EXCEPT ![i].due = TRUE]
    /\ UNCHANGED <<sbatch, cycle, journal, told, work, past>>

NextCycle ==
    /\ At("idle") /\ cycle + 1 \in Cycles /\ cycle' = cycle + 1
    /\ UNCHANGED <<sbatch, sinst, journal, told, work, past>>

_releasable(i) == sinst[i].status = "QUEUED" /\ sinst[i].batch = NoBatch
                      /\ ~sinst[i].frozen /\ sinst[i].due
Due == {i \in Instructions : _releasable(i)}
-----------------------------------------------------------------------------
(* assign_due_instructions, the next row of its loop.  The batch id is made  *)
(* from the cycle, so once the cycle's batch has left OPEN the insert of     *)
(* _get_or_create_open_batch fails; and a row whose opening entry exists     *)
(* already fails on the entry's idempotency key.  Either error ends the call.*)
AssignDueInstruction ==
    /\ At("idle") /\ Due # {} /\ sbatch[cycle].status \in {"ABSENT", "OPEN"}
    /\ SetStatus(cycle, "OPEN")
    /\ DoOne("stage", cycle, Min(Due), {})
    /\ UNCHANGED <<sinst, cycle, journal, told, past>>

StageFloat ==
    /\ At("stage")
    /\ IF <<work.b, work.i>> \in staged THEN Done /\ UNCHANGED staged
       ELSE /\ staged' = staged \cup {<<work.b, work.i>>}
            /\ DoOne("count", work.b, work.i, {})
    /\ UNCHANGED <<sbatch, sinst, cycle, unstaged, closed, told, past>>

CountInstruction ==
    /\ At("count") /\ sbatch' = [sbatch EXCEPT ![work.b].count = @ + 1]
    /\ DoOne("link", work.b, work.i, {})
    /\ UNCHANGED <<sinst, cycle, journal, told, past>>

LinkInstruction ==
    /\ At("link") /\ sinst' = [sinst EXCEPT ![work.i].batch = work.b]
    /\ IF Large(work.b, DispatchTwoEyes) THEN Do("eyes", work.b, {}) ELSE Done
    /\ UNCHANGED <<sbatch, cycle, journal, told, past>>

RequireTwoEyes ==
    /\ At("eyes") /\ SetTwoEyes(work.b, TRUE) /\ Done
    /\ UNCHANGED <<sinst, cycle, journal, told, past>>

Cutoff(b) ==
    /\ At("idle") /\ sbatch[b].status = "OPEN"
    /\ SetStatus(b, IF sbatch[b].count >= 1 THEN "PENDING_DISPATCH" ELSE "CANCELLED")
    /\ UNCHANGED <<sinst, cycle, journal, told, work, past>>

GrantApproval(b) ==
    /\ At("idle") /\ sbatch[b].status = "PENDING_DISPATCH" /\ sbatch[b].twoEyes
    /\ SetTwoEyes(b, FALSE)
    /\ UNCHANGED <<sinst, cycle, journal, told, work, past>>
-----------------------------------------------------------------------------
(* try_dispatch: the gate may hold the batch; otherwise the batch goes out   *)
(* and its QUEUED rows are marked one after the other.                       *)
TryDispatch(b) ==
    /\ At("idle") /\ sbatch[b].status = "PENDING_DISPATCH" /\ ~sbatch[b].twoEyes
    /\ \/ SetStatus(b, "HELD") /\ UNCHANGED work
       \/ SetStatus(b, "DISPATCHED") /\ Do("submit", b, In(b, {"QUEUED"}))
    /\ UNCHANGED <<sinst, cycle, journal, told, past>>

ReleaseHeld(b) ==
    /\ At("idle") /\ sbatch[b].status = "HELD" /\ SetStatus(b, "PENDING_DISPATCH")
    /\ UNCHANGED <<sinst, cycle, journal, told, work, past>>

SubmitInstruction ==
    /\ At("submit")
    /\ IF work.todo = {} THEN Done /\ UNCHANGED sinst
       ELSE LET i == Min(work.todo) IN
            /\ sinst' = [sinst EXCEPT ![i].status = "SUBMITTED"]
            /\ Do("submit", work.b, work.todo \ {i})
    /\ UNCHANGED <<sbatch, cycle, journal, told, past>>
-----------------------------------------------------------------------------
(* persist_confirmation_evidence: the sponsor's reference, never replaced.   *)
PersistConfirmationEvidence(b) == sbatch' = [sbatch EXCEPT ![b].ref = TRUE]

(* confirm of a DISPATCHED batch: the evidence first, then the closing entry.*)
Confirm(b) ==
    /\ At("idle") /\ sbatch[b].status = "DISPATCHED"
    /\ PersistConfirmationEvidence(b)
    /\ Do("close", b, In(b, {"SUBMITTED"}))
    /\ UNCHANGED <<sinst, cycle, journal, told, past>>

(* confirm of a CONFIRMED batch takes up what an earlier call left.          *)
ConfirmAgain(b) ==
    /\ At("idle") /\ sbatch[b].status = "CONFIRMED"
    /\ Do("settle", b, In(b, {"SUBMITTED"}))
    /\ UNCHANGED <<sbatch, sinst, cycle, journal, told, past>>

(* write_audit_event and emit_event: one row under an id derived from the    *)
(* event, so that a replay finds the row it would write.                     *)
WriteAuditEvent(subject, id) == told' = told \cup {<<"audit", subject, id>>}
EmitEvent(subject, id) == told' = told \cup {<<"outbox", subject, id>>}
Told(subject, id) == {<<"audit", subject, id>>, <<"outbox", subject, id>>} \subseteq told

(* resume_confirmations, for one batch of its two loops.                     *)
ResumeConfirmations(b) ==
    \/ sbatch[b].ref /\ Confirm(b)
    \/ (In(b, {"SUBMITTED"}) # {} \/ ~Told("batch", b)) /\ ConfirmAgain(b)

PostBatchClose ==
    /\ At("close")
    /\ closed' = [closed EXCEPT ![work.b] = IF @ = {} THEN work.todo ELSE @]
    /\ Do("commit", work.b, work.todo)
    /\ UNCHANGED <<sbatch, sinst, cycle, staged, unstaged, told, past>>

CommitConfirmed ==
    /\ At("commit") /\ SetStatus(work.b, "CONFIRMED") /\ Do("settle", work.b, work.todo)
    /\ UNCHANGED <<sinst, cycle, journal, told, past>>

SettleInstruction ==
    /\ At("settle")
    /\ IF work.todo = {} THEN Do("reconcile", work.b, In(work.b, {"SETTLED"})) /\ UNCHANGED sinst
       ELSE LET i == Min(work.todo) IN
            SetInst(i, "SETTLED") /\ DoOne("tell", work.b, i, work.todo \ {i})
    /\ UNCHANGED <<sbatch, cycle, journal, told, past>>

TellSettled ==
    /\ At("tell") /\ WriteAuditEvent("inst", work.i)
    /\ DoOne("emit", work.b, work.i, work.todo)
    /\ UNCHANGED <<sbatch, sinst, cycle, journal, past>>

EmitSettled ==
    /\ At("emit") /\ EmitEvent("inst", work.i)
    /\ IF work.b = NoBatch THEN Done ELSE Do("settle", work.b, work.todo)
    /\ UNCHANGED <<sbatch, sinst, cycle, journal, past>>

(* _reconcile_settled_instruction_events, then _reconcile_batch_confirmed_events: *)
(* the missing audit event of a row, then its missing outbox event.          *)
ReconcileEvents ==
    /\ At("reconcile")
    /\ LET subject == IF work.todo = {} THEN "batch" ELSE "inst"
           id == IF work.todo = {} THEN work.b ELSE Min(work.todo)
       IN  IF <<"audit", subject, id>> \notin told
           THEN WriteAuditEvent(subject, id) /\ UNCHANGED work
           ELSE /\ EmitEvent(subject, id)
                /\ IF work.todo = {} THEN Done ELSE Do("reconcile", work.b, work.todo \ {id})
    /\ UNCHANGED <<sbatch, sinst, cycle, journal, past>>
-----------------------------------------------------------------------------
FailOverEvidence(b) ==
    /\ At("idle") /\ sbatch[b].status = "DISPATCHED"
    /\ SetStatus(b, "FAILED") /\ Do("fail", b, In(b, {"SUBMITTED"}))
    /\ UNCHANGED <<sinst, cycle, journal, told, past>>

(* reject and timeout_check, through _fail_batch.                            *)
FailBatch(b) ==
    /\ At("idle") /\ sbatch[b].status = "DISPATCHED" /\ ~sbatch[b].ref
    /\ SetStatus(b, "FAILED") /\ Do("fail", b, In(b, {"SUBMITTED"}))
    /\ UNCHANGED <<sinst, cycle, journal, told, past>>

(* The loops over a batch's rows in _fail_batch, manual_retry and cancel.    *)
MarkInstruction(op, to) ==
    /\ At(op)
    /\ work.todo # {}
    /\ SetInst(Min(work.todo), to) /\ Do(op, work.b, work.todo \ {Min(work.todo)})
    /\ UNCHANGED <<sbatch, cycle, journal, told, past>>

MarksEnd(op) ==
    /\ At(op) /\ work.todo = {} /\ Done
    /\ UNCHANGED <<sbatch, sinst, cycle, journal, told, past>>

(* manual_retry with retries left writes the two-eyes flag of a large batch  *)
(* before it looks at the batch's status.                                    *)
ManualRetry(b) ==
    /\ At("idle") /\ sbatch[b].status # "ABSENT" /\ sbatch[b].retries < MAX_RETRIES
    /\ Large(b, RetryTwoEyes) \/ sbatch[b].status = "FAILED"
    /\ SetTwoEyes(b, sbatch[b].twoEyes \/ Large(b, RetryTwoEyes))
    /\ IF sbatch[b].status = "FAILED" THEN Do("retry", b, {}) ELSE UNCHANGED work
    /\ UNCHANGED <<sinst, cycle, journal, told, past>>

RetryCommits ==
    /\ At("retry")
    /\ sbatch' = [sbatch EXCEPT ![work.b].status = "PENDING_DISPATCH", ![work.b].retries = @ + 1]
    /\ Do("requeue", work.b, In(work.b, {"FAILED"}))
    /\ UNCHANGED <<sinst, cycle, journal, told, past>>

(* manual_retry with none left, and cancel, first reverse the opening        *)
(* entries; what is reversed is looked up in the journal.                    *)
MaxRetriesExceeded(b) ==
    /\ At("idle") /\ sbatch[b].status = "FAILED" /\ sbatch[b].retries >= MAX_RETRIES
    /\ Do("giveup", b, {})
    /\ UNCHANGED <<sbatch, sinst, cycle, journal, told, past>>

Cancel(b) ==
    /\ At("idle") /\ sbatch[b].status \in {"PENDING_DISPATCH", "HELD"}
    /\ Do("cancel", b, In(b, {"QUEUED"}))
    /\ UNCHANGED <<sbatch, sinst, cycle, journal, told, past>>

OpenEntries(b) == {e \in staged \ unstaged : e[1] = b}

PostBatchOpenReversal ==
    /\ work.op \in {"giveup", "cancel"}
    /\ \E e \in OpenEntries(work.b) : unstaged' = unstaged \cup {e}
    /\ UNCHANGED <<sbatch, sinst, cycle, staged, closed, told, work, past>>

ReversalsPosted ==
    /\ work.op \in {"giveup", "cancel"} /\ OpenEntries(work.b) = {}
    /\ Do(IF At("cancel") THEN "void" ELSE "bury", work.b, work.todo)
    /\ UNCHANGED <<sbatch, sinst, cycle, journal, told, past>>

CommitCancelled ==
    /\ work.op \in {"void", "bury"} /\ work.todo = {}
    /\ SetStatus(work.b, "CANCELLED") /\ Done
    /\ UNCHANGED <<sinst, cycle, journal, told, past>>
-----------------------------------------------------------------------------
OnRailConfirmed(i) ==
    /\ At("idle") /\ sinst[i].status = "SUBMITTED" /\ SetInst(i, "SETTLED")
    /\ byRail' = byRail \cup {i} /\ DoOne("tell", NoBatch, i, {})
    /\ UNCHANGED <<sbatch, cycle, journal, told, crashes, cancelCut>>

(* on_rail_returned and on_rail_rejected.                                    *)
OnRailRefused(i) ==
    /\ At("idle") /\ sinst[i].status = "SUBMITTED"
    /\ \E s \in {"RETURNED", "FAILED"} : SetInst(i, s)
    /\ UNCHANGED <<sbatch, cycle, journal, told, work, past>>

(* The process dies.  A cancel cut short after a reversal is the window the  *)
(* comment in cancel leaves open.                                            *)
Crash ==
    /\ work # NoWork /\ crashes < MaxCrashes
    /\ crashes' = crashes + 1 /\ Done
    /\ cancelCut' = IF work.op \in {"cancel", "void"} THEN cancelCut \cup {work.b} ELSE cancelCut
    /\ UNCHANGED <<sbatch, sinst, cycle, journal, told, byRail>>

Steps ==
    \/ StageFloat \/ CountInstruction \/ LinkInstruction \/ RequireTwoEyes
    \/ SubmitInstruction
    \/ PostBatchClose \/ CommitConfirmed \/ SettleInstruction \/ TellSettled \/ EmitSettled
    \/ ReconcileEvents
    \/ MarkInstruction("fail", "FAILED") \/ MarksEnd("fail")
    \/ RetryCommits \/ MarkInstruction("requeue", "QUEUED") \/ MarksEnd("requeue")
    \/ PostBatchOpenReversal \/ ReversalsPosted
    \/ MarkInstruction("void", "CANCELLED") \/ CommitCancelled

Calls ==
    \/ NextCycle \/ AssignDueInstruction
    \/ \E i \in Instructions :
          \/ RegisterSucceededPayment(i) \/ SetAmlHold(i) \/ ConfirmDelivery(i)
          \/ OnRailConfirmed(i) \/ OnRailRefused(i)
    \/ \E b \in Cycles :
          \/ Cutoff(b) \/ GrantApproval(b) \/ TryDispatch(b) \/ ReleaseHeld(b)
          \/ Confirm(b) \/ ResumeConfirmations(b) \/ FailBatch(b)
          \/ ManualRetry(b) \/ MaxRetriesExceeded(b) \/ Cancel(b)

SNext == Calls \/ Steps \/ Crash

SSpec == SInit /\ [][SNext]_svars
-----------------------------------------------------------------------------
(* Durable confirmation evidence binds: a batch whose sponsor reference was  *)
(* persisted is never failed, retried or cancelled, whatever crashed.        *)
EvidenceBinds ==
    \A b \in Cycles : sbatch[b].ref => sbatch[b].status \in {"DISPATCHED", "CONFIRMED"}

(* An instruction settled by confirm was debited from its merchant in the    *)
(* batch's one closing entry, on every path through the crash windows.       *)
SettledIsDischarged ==
    \A i \in Instructions :
       sinst[i].status = "SETTLED" /\ i \notin byRail => i \in closed[sinst[i].batch]

(* The trust account is never overdrawn for a batch: what the closing entry  *)
(* pays out was staged, and was not given back by a reversal -- except where *)
(* a cancel died half-way, the gap that the comment in cancel documents.     *)
TcsaNeverOverdrawn ==
    \A b \in Cycles : b \notin cancelCut =>
       \A i \in closed[b] : <<b, i>> \in staged \ unstaged

(* The docstring of _batch_confirmed_events_exist: a batch-level event       *)
(* guarantees the events of its settled instructions, so resume may skip     *)
(* batches that have one.                                                    *)
BatchEventLast ==
    \A b \in Cycles : Told("batch", b) => \A i \in In(b, {"SETTLED"}) : Told("inst", i)

(* The four together: EvidenceBinds, SettledIsDischarged, TcsaNeverOverdrawn *)
(* and BatchEventLast hold at every durable write of the settlement engine.  *)
SettlementHolds ==
    EvidenceBinds /\ SettledIsDischarged /\ TcsaNeverOverdrawn /\ BatchEventLast

(* A batch whose evidence is durable is confirmed, settled and announced in  *)
(* the end: resume_confirmations needs nobody's help.                        *)
ConfirmationCompletes ==
    \A b \in Cycles :
       sbatch[b].ref ~> /\ sbatch[b].status = "CONFIRMED" /\ In(b, {"SUBMITTED"}) = {}
                        /\ Told("batch", b)
=============================================================================
