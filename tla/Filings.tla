------------------------------ MODULE Filings ------------------------------
(***************************************************************************)
(* Filing with the regulator: one suspicious transaction report            *)
(* (StrWorkflow), the cash transactions of one account on one day          *)
(* (CtrBatch), and the queue of GoamlReporterConnector that submits both   *)
(* to the goAML portal.  The scheduler runs the tasks one after the other; *)
(* a task waits only for the portal.  A crash while it waits leaves the    *)
(* filing SUBMITTING, to be claimed again when its lease ends, and the     *)
(* report as it was.                                                       *)
(***************************************************************************)
EXTENDS Naturals, FiniteSets

CONSTANTS
    Cash,       \* ids of the account's cash movements, one unit each
    Threshold,  \* units from which the day must be reported
    MaxTries,   \* MAX_STR_RETRY
    MaxRows,    \* bound: attempts in the chain of a report
    MaxFaults   \* bound

VARIABLES
    report,  \* str_reports: [status, ref, tries]
    filing,  \* latest goaml_filings row by report: [n, state, sub]
    lodged,  \* submissions the portal has taken, by report
    bucket,  \* CtrBatch._buckets: events counted in this process
    ctr,     \* ctr_aggregations: [total, filed]
    faults

filings == <<report, filing, lodged, bucket, ctr, faults>>

Refs == {"STR", "CTR"}
NoFiling == [n |-> 0, state |-> "none", sub |-> FALSE]
NoReference == [kind |-> "none", n |-> 0]

Fault == faults < MaxFaults /\ faults' = faults + 1

---------------------------------------------------------------------------
(* the goAML queue *)

(* The submission reference once the portal has given one, else filing_id.    *)
Reference(row) == [kind |-> IF row.sub THEN "sub" ELSE "filing", n |-> row.n]

(* _file returns the chain's reference while its latest row is not rejected,  *)
(* and otherwise puts a further row in the queue.                             *)
Enqueued(row) ==
    IF row.state \in {"none", "REJECTED_BY_PORTAL"}
    THEN [n |-> row.n + 1, state |-> "QUEUED", sub |-> FALSE] ELSE row
Fresh(row) == row.state \in {"none", "REJECTED_BY_PORTAL"} /\ row.n < MaxRows

(* claim_due takes QUEUED rows that are due and SUBMITTING ones whose lease   *)
(* has ended; time is left open, so any of them may be taken.                 *)
Claimable(row) == row.state \in {"QUEUED", "SUBMITTING"}

Accepted(row) == [row EXCEPT !.state = "ACK_PENDING", !.sub = TRUE]
Requeued(row) == [row EXCEPT !.state = "QUEUED"]

(* One pass of process_due over the rows rs, of which `due' are claimed and   *)
(* `taken' answered with a receipt.                                           *)
ProcessDue(rs, due, taken) ==
    /\ due \subseteq {r \in Refs : Claimable(rs[r])} /\ taken \subseteq due
    /\ filing' = [r \in Refs |-> IF r \in taken THEN Accepted(rs[r])
                                 ELSE IF r \in due THEN Requeued(rs[r]) ELSE rs[r]]

Lodge(taken) == lodged' = [r \in Refs |-> IF r \in taken THEN lodged[r] + 1 ELSE lodged[r]]

(* The process dies waiting for the portal about r, which may have taken it,  *)
(* or between the writes of SUBMITTED and ACK_PENDING.                        *)
DiesSubmitting(rs, r) ==
    /\ Claimable(rs[r]) /\ Fault
    /\ \/ /\ filing' = [rs EXCEPT ![r].state = "SUBMITTING"]
          /\ \E t \in {{}, {r}} : Lodge(t)
       \/ /\ filing' = [rs EXCEPT ![r].state = "SUBMITTED", ![r].sub = TRUE]
          /\ Lodge({r})
    /\ bucket' = {}

GoamlSubmit ==
    /\ \E due, taken \in SUBSET Refs :
          due # {} /\ ProcessDue(filing, due, taken) /\ Lodge(taken)
    /\ UNCHANGED <<report, bucket, ctr, faults>>

(* The portal takes the filing and its reply is lost.                         *)
ReplyLost ==
    /\ Fault
    /\ \E r \in Refs : ProcessDue(filing, {r}, {}) /\ Lodge({r})
    /\ UNCHANGED <<report, bucket, ctr>>

SubmitDies ==
    /\ \E r \in Refs : DiesSubmitting(filing, r)
    /\ UNCHANGED <<report, ctr>>

PollAcks(r, answer) ==
    /\ filing[r].state = "ACK_PENDING"
    /\ filing' = [filing EXCEPT ![r].state = answer]
    /\ UNCHANGED <<report, lodged, bucket, ctr, faults>>

---------------------------------------------------------------------------
(* the suspicious transaction report *)

Reported(status) == report' = [report EXCEPT !.status = status]

(* create_from_alert: suspicion alone makes a report, whatever the amount.    *)
CreateFromAlert == [status |-> "PENDING_CAMLCO_REVIEW", ref |-> NoReference, tries |-> 0]

CamlcoApprove ==
    /\ report.status = "PENDING_CAMLCO_REVIEW"
    /\ Reported("FILING_PENDING")
    /\ UNCHANGED <<filing, lodged, bucket, ctr, faults>>

(* queue_filing is a second write, and raises when the narrative's object is  *)
(* missing or altered.                                                        *)
ApproveStops ==
    /\ report.status = "PENDING_CAMLCO_REVIEW" /\ Fault
    /\ Reported("CAMLCO_APPROVED")
    /\ UNCHANGED <<filing, lodged, bucket, ctr>>

Withdraw ==
    /\ report.status = "PENDING_CAMLCO_REVIEW"
    /\ Reported("WITHDRAWN")
    /\ UNCHANGED <<filing, lodged, bucket, ctr, faults>>

(* What file does for r: nothing but name the chain, or a row and a pass of   *)
(* process_due over the whole queue.                                          *)
File(r) ==
    IF Fresh(filing[r])
    THEN \E due, taken \in SUBSET Refs :
            /\ r \in due
            /\ ProcessDue([filing EXCEPT ![r] = Enqueued(@)], due, taken) /\ Lodge(taken)
    ELSE filing[r].n > 0 /\ UNCHANGED <<filing, lodged>>

AttemptFiling ==
    /\ File("STR")
    /\ report' = [report EXCEPT !.status = "FILING_SUBMITTED", !.ref = Reference(filing'["STR"])]
    /\ UNCHANGED <<bucket, ctr, faults>>

AttemptFails ==
    /\ Fault
    /\ report' = [report EXCEPT !.status = "FILING_FAILED", !.tries = @ + 1]
    /\ \/ UNCHANGED filing
       \/ Fresh(filing["STR"]) /\ filing' = [filing EXCEPT !["STR"] = Enqueued(@)]
    /\ UNCHANGED <<lodged, bucket, ctr>>

AttemptDies ==
    /\ Fresh(filing["STR"])
    /\ DiesSubmitting([filing EXCEPT !["STR"] = Enqueued(@)], "STR")
    /\ Reported("FILING_PENDING") /\ UNCHANGED ctr

Attempt == AttemptFiling \/ AttemptFails \/ AttemptDies

StrFiling == report.status \in {"CAMLCO_APPROVED", "FILING_PENDING"} /\ Attempt
StrRetry == report.status = "FILING_FAILED" /\ report.tries < MaxTries /\ Attempt

ConfirmFiling(ref) ==
    /\ report.status = "FILING_SUBMITTED" /\ ref = report.ref
    /\ Reported("FILING_CONFIRMED")

StrAckConfirm ==
    /\ filing["STR"].state = "ACKED"
    /\ ConfirmFiling(Reference(filing["STR"]))
    /\ UNCHANGED <<filing, lodged, bucket, ctr, faults>>

---------------------------------------------------------------------------
(* the cash transaction report *)

Crossed == ctr.total >= Threshold

IntakeCashEvent(e) ==
    /\ e \notin bucket
    /\ bucket' = bucket \cup {e}
    /\ UNCHANGED <<report, filing, lodged, ctr, faults>>

RunDailyAggregation ==
    /\ bucket # {}
    /\ ctr' = [ctr EXCEPT !.total = Cardinality(bucket)]
    /\ UNCHANGED <<report, filing, lodged, bucket, faults>>

Submitted(row) == row.state \in {"SUBMITTED", "ACK_PENDING", "ACKED"}
SubmittedOrQueued(row) == row.state # "none"

MarkFiledQueued(row) == ctr' = [ctr EXCEPT !.filed = SubmittedOrQueued(row)]
MarkFiled(row) == ctr' = [ctr EXCEPT !.filed = Submitted(row)]

FilePending ==
    /\ Crossed /\ ~ctr.filed
    /\ File("CTR") /\ MarkFiled(filing'["CTR"])
    /\ UNCHANGED <<report, bucket, faults>>

FilePendingDies ==
    /\ Crossed /\ ~ctr.filed /\ Fresh(filing["CTR"])
    /\ DiesSubmitting([filing EXCEPT !["CTR"] = Enqueued(@)], "CTR")
    /\ UNCHANGED <<report, ctr>>

(* The buckets live in memory only.                                           *)
Restart ==
    /\ Fault /\ bucket' = {}
    /\ UNCHANGED <<report, filing, lodged, ctr>>

---------------------------------------------------------------------------
LInit ==
    /\ report = CreateFromAlert
    /\ filing = [r \in Refs |-> NoFiling] /\ lodged = [r \in Refs |-> 0]
    /\ bucket = {} /\ ctr = [total |-> 0, filed |-> FALSE] /\ faults = 0

LNext ==
    \/ CamlcoApprove \/ ApproveStops \/ Withdraw \/ StrFiling \/ StrRetry \/ StrAckConfirm
    \/ GoamlSubmit \/ ReplyLost \/ SubmitDies
    \/ \E r \in Refs, a \in {"ACKED", "REJECTED_BY_PORTAL"} : PollAcks(r, a)
    \/ \E e \in Cash : IntakeCashEvent(e)
    \/ RunDailyAggregation \/ FilePending \/ FilePendingDies \/ Restart

LSpec == LInit /\ [][LNext]_filings

---------------------------------------------------------------------------
(* A report that says it is with the regulator has a filing that is or will   *)
(* be submitted; a confirmed one, and a cash report marked filed, were taken  *)
(* by the portal; and the portal has a filing twice only when an attempt was  *)
(* rejected, a reply was lost or the process died waiting for one.            *)
FilingsAreKept ==
    /\ report.status \in {"FILING_SUBMITTED", "FILING_CONFIRMED"} =>
          filing["STR"].n > 0 /\ report.ref.n <= filing["STR"].n
    /\ report.status = "FILING_CONFIRMED" =>
          /\ filing["STR"].state = "ACKED" /\ lodged["STR"] > 0
          /\ report.ref = Reference(filing["STR"])
    /\ ctr.filed => lodged["CTR"] > 0
    /\ \A r \in Refs : lodged[r] <= filing[r].n + faults
=============================================================================
