--------------------------- MODULE Reconciliation ---------------------------
(***************************************************************************)
(* The reconciliation engine (bdpay.ledger.reconciliation): settlement     *)
(* file lines become records, the match cascade classifies them, and what  *)
(* does not match is an exception that a sweep or an operator resolves.    *)
(* Every store write commits on its own, so an operation is a sequence of  *)
(* steps that the death of the process can cut.                            *)
(***************************************************************************)
EXTENDS Naturals, FiniteSets

CONSTANTS
    Lines,             \* lines of the rails' files, by content
    Malformed,         \* lines with a missing or invalid amount, direction or date
    LargeDelta,        \* lines whose amount is off by more than the AML threshold
    MaxDeaths          \* bound: deaths of the process

VARIABLES
    rec,               \* reconciliation_records.match_status per line
    exc,               \* the line's exception
    posted,            \* resolution entries in the ledger, by action
    settled,           \* what the settlement store holds that fits the line
    late,              \* lines older than two business days
    rwork,             \* the operation under way
    deaths

rvars == <<rec, exc, posted, settled, late, rwork, deaths>>

LedgerActions == {"WRITE_OFF", "SUSPENSE_TRANSFER"}
Actions == LedgerActions \cup {"NO_LEDGER_ACTION"}
Outcomes == {"MATCHED", "DEAD_LETTER", "TIMING_GAP"}  \* record_outcome is not validated first
RECORD_STATES == {"INGESTED", "MATCHED", "TIMING_GAP", "UNMATCHED", "AMOUNT_MISMATCH",
                  "DEAD_LETTER"}
RECORD_TERMINAL == {"MATCHED", "DEAD_LETTER"}
LIVE == {"OPEN", "IN_REVIEW", "ESCALATED"}

NoException == [status |-> "none", tier |-> "none", action |-> "none"]
Idle == [op |-> "idle"]
Quiet == rwork = Idle

RInit ==
    /\ rec = [l \in Lines |-> "none"] /\ exc = [l \in Lines |-> NoException]
    /\ posted = [l \in Lines |-> {}] /\ settled = [l \in Lines |-> "nothing"]
    /\ late = {} /\ rwork = Idle /\ deaths = 0

RTypeOK ==
    /\ rec \in [Lines -> RECORD_STATES \cup {"none"}]
    /\ \A l \in Lines : exc[l].status \in LIVE \cup {"none", "RESOLVED", "CLOSED"}
    /\ posted \in [Lines -> SUBSET LedgerActions]
    /\ late \in SUBSET Lines /\ deaths \in 0 .. MaxDeaths
-----------------------------------------------------------------------------
(* The settlement side catches up with a line, and time passes.              *)
InstructionSettles(l, fit) ==
    /\ settled[l] = "nothing" /\ settled' = [settled EXCEPT ![l] = fit]
    /\ UNCHANGED <<rec, exc, posted, late, rwork, deaths>>

TimePasses(l) ==
    /\ l \notin late /\ late' = late \cup {l}
    /\ UNCHANGED <<rec, exc, posted, settled, rwork, deaths>>

(* _match_cascade: transaction id, then amount and date, then age.           *)
Verdict(l) ==
    CASE settled[l] = "fits" -> "MATCHED"
      [] settled[l] \in {"differs", "several fit"} -> "AMOUNT_MISMATCH"
      [] l \in late -> "UNMATCHED"
      [] OTHER -> "TIMING_GAP"

TierOf(status) ==
    CASE status = "DEAD_LETTER" -> "DEAD_LETTER"
      [] status = "TIMING_GAP" -> "AUTO_TIMING_GAP"
      [] OTHER -> "FINANCE_QUEUE"

(* normalize_raw_line never drops a line: one it cannot parse is marked.     *)
NormalizeRawLine(l) == [line |-> l, parse_failed |-> l \in Malformed]

(* _ingest_line: a record that exists is skipped; the verdict is taken       *)
(* before the record is inserted.                                            *)
IngestLine(l) ==
    /\ Quiet /\ rec[l] = "none"
    /\ IF NormalizeRawLine(l).parse_failed
       THEN /\ rec' = [rec EXCEPT ![l] = "DEAD_LETTER"]
            /\ rwork' = [op |-> "raise", line |-> l, delta |-> FALSE]
       ELSE /\ rec' = [rec EXCEPT ![l] = "INGESTED"]
            /\ rwork' = [op |-> "classify", line |-> l, to |-> Verdict(l),
                        delta |-> settled[l] = "differs"]
    /\ UNCHANGED <<exc, posted, settled, late, deaths>>

ClassifyLine ==
    /\ rwork.op = "classify"
    /\ rec' = [rec EXCEPT ![rwork.line] = rwork.to]
    /\ rwork' = IF rwork.to = "MATCHED" THEN Idle
               ELSE [op |-> "raise", line |-> rwork.line, delta |-> rwork.delta]
    /\ UNCHANGED <<exc, posted, settled, late, deaths>>

RaiseException ==
    /\ rwork.op = "raise"
    /\ exc' = [exc EXCEPT ![rwork.line] =
                 [status |-> "OPEN", tier |-> TierOf(rec[rwork.line]), action |-> "none"]]
    /\ rwork' = IF rwork.delta /\ rwork.line \in LargeDelta
               THEN [op |-> "escalate", line |-> rwork.line] ELSE Idle
    /\ UNCHANGED <<rec, posted, settled, late, deaths>>

Escalate ==
    /\ rwork.op = "escalate"
    /\ exc' = [exc EXCEPT ![rwork.line].status = "ESCALATED"] /\ rwork' = Idle
    /\ UNCHANGED <<rec, posted, settled, late, deaths>>

Assign(l) ==
    /\ Quiet /\ exc[l].status = "OPEN"
    /\ exc' = [exc EXCEPT ![l].status = "IN_REVIEW"]
    /\ UNCHANGED <<rec, posted, settled, late, rwork, deaths>>
-----------------------------------------------------------------------------
(* retry_timing_gaps, one record: the record is updated first; an exception  *)
(* that is not OPEN then refuses to close and ends the sweep.                *)
RetryTimingGap(l) ==
    /\ Quiet /\ rec[l] = "TIMING_GAP"
    /\ \/ /\ Verdict(l) = "MATCHED"
          /\ rec' = [rec EXCEPT ![l] = "MATCHED"]
          /\ rwork' = IF exc[l].status = "OPEN" THEN [op |-> "close", line |-> l] ELSE Idle
       \/ /\ Verdict(l) # "MATCHED" /\ l \in late
          /\ rec' = [rec EXCEPT ![l] = "UNMATCHED"]
          /\ rwork' = IF exc[l].status \in LIVE THEN [op |-> "upgrade", line |-> l] ELSE Idle
    /\ UNCHANGED <<exc, posted, settled, late, deaths>>

CloseException ==
    /\ rwork.op = "close"
    /\ exc' = [exc EXCEPT ![rwork.line].status = "CLOSED"] /\ rwork' = Idle
    /\ UNCHANGED <<rec, posted, settled, late, deaths>>

UpgradeTier ==
    /\ rwork.op = "upgrade"
    /\ exc' = [exc EXCEPT ![rwork.line].tier = "FINANCE_QUEUE"] /\ rwork' = Idle
    /\ UNCHANGED <<rec, posted, settled, late, deaths>>

ResolveUnposted(l, action, outcome) ==
    /\ Quiet /\ exc[l].status \in {"IN_REVIEW", "ESCALATED"}
    /\ rwork' = [op |-> "settle record", line |-> l, action |-> action, to |-> outcome]
    /\ UNCHANGED <<rec, exc, posted, settled, late, deaths>>

(* _post_resolution_entry: one entry per exception and ledger action.        *)
PostResolutionEntry(l, action) ==
    /\ action \notin posted[l]
    /\ posted' = [posted EXCEPT ![l] = @ \cup {action}]

(* resolve: the ledger entry first, keyed by exception and action, so the    *)
(* same action a second time is a duplicate and refused.                     *)
Resolve(l, action, outcome) ==
    /\ Quiet /\ exc[l].status \in {"IN_REVIEW", "ESCALATED"}
    /\ IF action \in LedgerActions THEN PostResolutionEntry(l, action) ELSE UNCHANGED posted
    /\ rwork' = [op |-> "settle record", line |-> l, action |-> action, to |-> outcome]
    /\ UNCHANGED <<rec, exc, settled, late, deaths>>

(* The record follows, unless the outcome is denied: then resolve raises.    *)
SettleRecord ==
    /\ rwork.op = "settle record"
    /\ LET open == rec[rwork.line] \in {"UNMATCHED", "AMOUNT_MISMATCH"}
           denied == open /\ rwork.to \notin RECORD_TERMINAL
       IN /\ rec' = IF open /\ ~denied THEN [rec EXCEPT ![rwork.line] = rwork.to] ELSE rec
          /\ rwork' = IF denied THEN Idle
                     ELSE [op |-> "resolved", line |-> rwork.line, action |-> rwork.action]
    /\ UNCHANGED <<exc, posted, settled, late, deaths>>

Resolved ==
    /\ rwork.op = "resolved"
    /\ exc' = [exc EXCEPT ![rwork.line].status = "RESOLVED",
                          ![rwork.line].action = rwork.action]
    /\ rwork' = Idle
    /\ UNCHANGED <<rec, posted, settled, late, deaths>>

Die ==
    /\ ~Quiet /\ deaths < MaxDeaths
    /\ rwork' = Idle /\ deaths' = deaths + 1
    /\ UNCHANGED <<rec, exc, posted, settled, late>>

RSteps == \/ ClassifyLine \/ RaiseException \/ Escalate \/ CloseException \/ UpgradeTier
          \/ SettleRecord \/ Resolved \/ Die

RNext ==
    \/ RSteps
    \/ \E l \in Lines :
          \/ TimePasses(l) \/ IngestLine(l) \/ Assign(l) \/ RetryTimingGap(l)
          \/ \E fit \in {"fits", "differs", "several fit"} : InstructionSettles(l, fit)
          \/ \E a \in Actions, o \in Outcomes : Resolve(l, a, o)

RSpec == RInit /\ [][RNext]_rvars
-----------------------------------------------------------------------------
(* What the queue says was done was done: an exception resolved by a ledger  *)
(* action has that entry on the books, one the sweep closed has a matched    *)
(* record, and no resolution leaves its record unmatched or mismatched,      *)
(* except where the exception was resolved while its line was a timing gap.  *)
ResolutionIsBacked ==
    \A l \in Lines :
       /\ exc[l].status = "RESOLVED" /\ exc[l].action \in LedgerActions
             => exc[l].action \in posted[l]
       /\ exc[l].status = "CLOSED" => rec[l] = "MATCHED"
       /\ exc[l].status = "RESOLVED" /\ exc[l].tier = "FINANCE_QUEUE"
             => rec[l] \in RECORD_TERMINAL

(* A line whose timing window expired is somebody's work: its exception is   *)
(* still live when retry_timing_gaps makes the record UNMATCHED.             *)
ExpiredGapIsQueued ==
    \A l \in Lines : Quiet /\ deaths = 0 /\ rec[l] = "UNMATCHED" => exc[l].status \in LIVE
=============================================================================
