---------------------------- MODULE Disbursement ----------------------------
(***************************************************************************)
(* A bulk payout batch of bdpay.kernel.disbursement: intake, maker-checker *)
(* release, funding into the hold reserve, dispatch to the BEFTN file and  *)
(* to the MFS rails, recovery of an interrupted dispatch, and returns.     *)
(*                                                                         *)
(* Several dispatchers may run (two requests, or a retry while the first   *)
(* one awaits a rail).  Each update of an item is one step: the chain lock *)
(* of the ledger post serialises the transactions of mark_item_*, so the   *)
(* completion check that follows sees every earlier settlement.  Between   *)
(* the awaits of a dispatcher anything may happen: the watchlist changes,  *)
(* another dispatcher recovers the batch, the bank returns entries.        *)
(*                                                                         *)
(* The second half is the approval gateway that release asks.              *)
(***************************************************************************)
EXTENDS Integers, FiniteSets, FiniteSetsExt

CONSTANTS
    Items,             \* ordinals of the rows of the batch
    Beftn,             \* the items on rail BEFTN_CREDIT; the others are MFS
    Amount,            \* Items -> positive minor units
    Dispatchers,
    MaxListings,       \* bound: changes of the watchlist
    NoOne

ASSUME DisbursementAssumption ==
    /\ Items \subseteq Nat /\ IsFiniteSet(Items) /\ Beftn \subseteq Items
    /\ Amount \in [Items -> Nat] /\ NoOne \notin Dispatchers

VARIABLES
    batch,             \* disbursement_batches.status
    item,              \* Items -> disbursement_items.status
    books,             \* merchant settlement, hold reserve and sponsor accounts
    request,           \* the ApprovalRequest of the release
    maker, checker,    \* where submit_batch and approve_batch stand
    listed, listings,  \* recipients on the watchlist; changes so far
    blocked,           \* items failed by a screen
    file, claim,       \* the connector's batch record and upload claim
    bank,              \* items in files that reached the bank
    calls,             \* MFS submissions per item
    disp               \* the dispatchers

dvars == <<batch, item, books, request, maker, checker, listed, listings, blocked, file, claim,
          bank, calls, disp>>
office == <<request, maker, checker>>
rails == <<file, claim, bank, calls>>

BATCH_STATES == {"DRAFT", "VALIDATED", "VALIDATION_FAILED", "PENDING_APPROVAL", "APPROVED",
                 "DISPATCHING", "COMPLETED", "PARTIALLY_RETURNED", "CANCELLED"}
BATCH_TERMINAL_STATES == {"VALIDATION_FAILED", "COMPLETED", "PARTIALLY_RETURNED", "CANCELLED"}
ITEM_TERMINAL_STATES == {"PAID", "RETURNED", "FAILED"}
ITEM_STATES == {"ABSENT", "QUEUED", "DISPATCHING", "DISPATCHED"} \cup ITEM_TERMINAL_STATES

Accepted == {i \in Items : item[i] # "ABSENT"}
WithStatus(S) == {i \in Items : item[i] \in S}
Unsettled == {"QUEUED", "DISPATCHING", "DISPATCHED"}

(* The sum of the amounts of the items of S, counted unit by unit.           *)
AmountOf(S) == Cardinality(UNION {{i} \X (1 .. Amount[i]) : i \in S})
Total == AmountOf(Accepted)

NoFile == [entries |-> {}, uploaded |-> FALSE, outcome |-> "NONE"]
Free == [at |-> "idle", mode |-> "none", seen |-> {}, hits |-> {}, queue |-> {}]

DInit ==
    /\ batch = "DRAFT"
    /\ item = [i \in Items |-> "ABSENT"]
    /\ \E funds \in {0, AmountOf(Items)} :
          books = [settlement |-> funds, reserve |-> 0, paid |-> 0, funds |-> funds]
    /\ request = "NONE" /\ maker = "idle" /\ checker = "idle"
    /\ listed = {} /\ listings = 0 /\ blocked = {}
    /\ file = NoFile /\ claim = NoOne /\ bank = {}
    /\ calls = [i \in Items |-> 0]
    /\ disp = [d \in Dispatchers |-> Free]

DTypeOK ==
    /\ batch \in BATCH_STATES
    /\ item \in [Items -> ITEM_STATES]
    /\ books \in [settlement : Int, reserve : Int, paid : Int, funds : Int]
    /\ request \in {"NONE", "PENDING", "APPROVED", "CLOSED"}
    /\ maker \in {"idle", "requested"} /\ checker \in {"idle", "decided"}
    /\ listed \in SUBSET Items /\ blocked \in SUBSET Items /\ bank \in SUBSET Items
    /\ claim \in Dispatchers \cup {NoOne}
    /\ calls \in [Items -> Nat]
-----------------------------------------------------------------------------
(* create_batch: rows that fail validation are reported and not stored.      *)
CreateBatch(accepted) ==
    /\ batch = "DRAFT"
    /\ item' = [i \in Items |-> IF i \in accepted THEN "QUEUED" ELSE "ABSENT"]
    /\ batch' = IF accepted = {} THEN "VALIDATION_FAILED" ELSE "VALIDATED"
    /\ UNCHANGED <<books, office, listed, listings, blocked, rails, disp>>

(* submit_batch reads the batch and opens the approval request (one live     *)
(* request per batch) ...                                                    *)
OpenRequest ==
    /\ maker = "idle" /\ batch = "VALIDATED" /\ request # "PENDING"
    /\ request' = "PENDING" /\ maker' = "requested"
    /\ UNCHANGED <<batch, item, books, checker, listed, listings, blocked, rails, disp>>

(* ... and then writes the status without comparing it.                      *)
SubmitBatch ==
    /\ maker = "requested"
    /\ batch' = "PENDING_APPROVAL" /\ maker' = "idle"
    /\ UNCHANGED <<item, books, request, checker, listed, listings, blocked, rails, disp>>

(* approve_batch screens every recipient and records the decision ...        *)
DecideApproval ==
    /\ checker = "idle" /\ maker = "idle" /\ request = "PENDING"
    /\ Accepted \cap listed = {}
    /\ request' = "APPROVED" /\ checker' = "decided"
    /\ UNCHANGED <<batch, item, books, maker, listed, listings, blocked, rails, disp>>

(* ... and funds the batch in a transaction of its own, if it can.           *)
ApproveBatch ==
    /\ checker = "decided"
    /\ checker' = "idle"
    /\ IF batch = "PENDING_APPROVAL" /\ books.settlement >= Total
       THEN /\ batch' = "APPROVED"
            /\ books' = [books EXCEPT !.settlement = @ - Total, !.reserve = @ + Total]
       ELSE UNCHANGED <<batch, books>>
    /\ UNCHANGED <<item, request, maker, listed, listings, blocked, rails, disp>>

(* cancel_batch, and then the withdrawal of the request.                     *)
CancelBatch ==
    /\ batch \in {"VALIDATED", "PENDING_APPROVAL"}
    /\ batch' = "CANCELLED"
    /\ request' = IF batch = "PENDING_APPROVAL" /\ request = "PENDING" THEN "CLOSED" ELSE request
    /\ UNCHANGED <<item, books, maker, checker, listed, listings, blocked, rails, disp>>

(* The request is rejected or expires, and apply_approval_terminal.          *)
ApplyApprovalTerminal ==
    /\ batch = "PENDING_APPROVAL" /\ request = "PENDING"
    /\ batch' = "CANCELLED" /\ request' = "CLOSED"
    /\ UNCHANGED <<item, books, maker, checker, listed, listings, blocked, rails, disp>>

(* The watchlist gains or loses a recipient.                                 *)
Relist(i) ==
    /\ listings < MaxListings
    /\ listed' = IF i \in listed THEN listed \ {i} ELSE listed \cup {i}
    /\ listings' = listings + 1
    /\ UNCHANGED <<batch, item, books, office, blocked, rails, disp>>
-----------------------------------------------------------------------------
CompletedOnSnapshot(items) ==
    IF \E i \in Items : item[i] \in Unsettled THEN batch
    ELSE IF \A i \in Items : items[i] \in {"ABSENT", "PAID"} THEN "COMPLETED"
    ELSE "PARTIALLY_RETURNED"

(* _complete_batch_if_ready, on the items as they will be.                   *)
Completed(items) ==
    IF \E i \in Items : items[i] \in Unsettled THEN batch
    ELSE IF \A i \in Items : items[i] \in {"ABSENT", "PAID"} THEN "COMPLETED"
    ELSE "PARTIALLY_RETURNED"

Released(i) == [books EXCEPT !.reserve = @ - Amount[i], !.settlement = @ + Amount[i]]
PaidOut(i) == [books EXCEPT !.reserve = @ - Amount[i], !.paid = @ + Amount[i]]

Settles(i, to) ==
    /\ item' = [item EXCEPT ![i] = to]
    /\ books' = IF to = "PAID" THEN PaidOut(i) ELSE Released(i)
    /\ batch' = Completed(item')

MarkItemPaid(i) == item[i] \in {"DISPATCHING", "DISPATCHED"} /\ Settles(i, "PAID")

MarkItemReturned(i) == item[i] \in {"DISPATCHING", "DISPATCHED"} /\ Settles(i, "RETURNED")
MarkItemFailed(i) == item[i] \in Unsettled /\ Settles(i, "FAILED")

(* ingest_confirmation_csv: what a row about item i is, by the trace numbers *)
(* of the recorded file, the exact amount and the return window.             *)
IngestConfirmationCsv(i) ==
    IF i \in file.entries THEN {"matched", "mismatch", "late"} ELSE {"unmatched"}

(* _process_matched_row: only a matched row is applied, and only to an item  *)
(* that can still be returned; every other row is reported to operations.    *)
ProcessMatchedRow(i, row) ==
    IF row = "matched" /\ item[i] \in {"DISPATCHING", "DISPATCHED"}
    THEN MarkItemReturned(i)
    ELSE UNCHANGED <<batch, item, books>>

(* BeftnReturnConsumer: a row of a return file, about an entry of a file at  *)
(* the bank; it may come again.                                              *)
ReturnEntry(i) ==
    /\ i \in bank
    /\ \E row \in IngestConfirmationCsv(i) : ProcessMatchedRow(i, row)
    /\ UNCHANGED <<office, listed, listings, blocked, rails, disp>>
-----------------------------------------------------------------------------
Goes(d, state) == disp' = [disp EXCEPT ![d] = state]
Stops(d) == Goes(d, Free)

(* dispatch_batch reads the batch and its items and screens the recipients.  *)
StartDispatch(d) ==
    /\ disp[d].at = "idle" /\ batch = "APPROVED"
    /\ Goes(d, [Free EXCEPT !.at = "screened", !.mode = "first", !.hits = Accepted \cap listed])
    /\ UNCHANGED <<batch, item, books, office, listed, listings, blocked, rails>>

(* The compare-and-set on the batch; the loser returns, recovers or raises.  *)
TakeBatch(d) ==
    /\ disp[d].at = "screened"
    /\ \/ /\ batch = "APPROVED" /\ batch' = "DISPATCHING"
          /\ Goes(d, [disp[d] EXCEPT !.at = "hits"])
       \/ /\ batch = "DISPATCHING" /\ Goes(d, [Free EXCEPT !.at = "recover"])
          /\ UNCHANGED batch
       \/ batch \notin {"APPROVED", "DISPATCHING"} /\ Stops(d) /\ UNCHANGED batch
    /\ UNCHANGED <<item, books, office, listed, listings, blocked, rails>>

(* The hits of the screen, one transaction each; one that is settled raises. *)
FailHit(d) ==
    /\ disp[d].at = "hits" /\ disp[d].hits # {}
    /\ LET i == Min(disp[d].hits) IN
       \/ /\ MarkItemFailed(i)
          /\ blocked' = blocked \cup {i}
          /\ Goes(d, [disp[d] EXCEPT !.hits = @ \ {i}])
       \/ item[i] \notin Unsettled /\ Stops(d) /\ UNCHANGED <<batch, item, books, blocked>>
    /\ UNCHANGED <<office, listed, listings, rails>>

(* submit_batch of the connector.  Without a record the file is rendered     *)
(* from the entries and recorded, or refused; a recorded file that was not   *)
(* uploaded is uploaded as it was recorded.  Who does not get the claim      *)
(* takes the recorded outcome.                                               *)
SubmitFile(d, entries, queue) ==
    LET goesOn == [Free EXCEPT !.at = "items", !.queue = queue] IN
    \/ /\ file = NoFile
       /\ file' = [entries |-> entries, uploaded |-> FALSE, outcome |-> "SUBMITTED"]
       /\ claim = NoOne /\ claim' = d
       /\ Goes(d, [goesOn EXCEPT !.at = "upload"])
    \/ /\ file = NoFile
       /\ \E outcome \in {"NONE", "REFUSED"} : file' = [NoFile EXCEPT !.outcome = outcome]
       /\ Stops(d) /\ UNCHANGED claim
    \/ /\ file.outcome = "SUBMITTED" /\ ~file.uploaded /\ claim = NoOne
       /\ claim' = d /\ Goes(d, [goesOn EXCEPT !.at = "upload"])
       /\ UNCHANGED file
    \/ /\ file.outcome = "SUBMITTED" /\ (file.uploaded \/ claim # NoOne)
       /\ Goes(d, goesOn) /\ UNCHANGED <<file, claim>>
    \/ /\ file.outcome \in {"REFUSED", "REJECTED"} /\ Stops(d) /\ UNCHANGED <<file, claim>>

(* With the hits failed, the items are read again: a first dispatch takes    *)
(* the QUEUED ones, a recovery without the file the ones it screened.        *)
HandOver(d) ==
    /\ disp[d].at = "hits" /\ disp[d].hits = {}
    /\ LET mine == IF disp[d].mode = "lost" THEN disp[d].seen \cap WithStatus(Unsettled)
                                            ELSE WithStatus({"QUEUED"})
           queue == mine \cap WithStatus({"QUEUED"})
       IN  IF disp[d].mode \in {"first", "lost"} /\ mine \cap Beftn # {}
           THEN SubmitFile(d, mine \cap Beftn, queue)
           ELSE Goes(d, [Free EXCEPT !.at = "items", !.queue = queue]) /\ UNCHANGED <<file, claim>>
    /\ UNCHANGED <<batch, item, books, office, listed, listings, blocked, bank, calls>>

(* The upload ends; a transport error may come after the bank got the file.  *)
Uploaded(d, arrives, ok) ==
    /\ disp[d].at = "upload"
    /\ ok => arrives
    /\ bank' = IF arrives THEN bank \cup file.entries ELSE bank
    /\ file' = [file EXCEPT !.uploaded = @ \/ ok]
    /\ claim' = IF claim = d THEN NoOne ELSE claim
    /\ IF ok THEN Goes(d, [disp[d] EXCEPT !.at = "items"]) ELSE Stops(d)
    /\ UNCHANGED <<batch, item, books, office, listed, listings, blocked, calls>>

(* The next item of the loop in _dispatch_queued_items, if it is still       *)
(* QUEUED: a BEFTN item is DISPATCHED with its file, an MFS item is claimed  *)
(* and submitted.                                                            *)
DispatchItem(d) ==
    /\ disp[d].at = "items" /\ disp[d].queue # {}
    /\ LET i == Min(disp[d].queue) IN
       IF item[i] # "QUEUED"
       THEN Goes(d, [disp[d] EXCEPT !.queue = @ \ {i}]) /\ UNCHANGED <<item, calls>>
       ELSE /\ item' = [item EXCEPT ![i] = IF i \in Beftn THEN "DISPATCHED" ELSE "DISPATCHING"]
            /\ calls' = IF i \in Beftn THEN calls ELSE [calls EXCEPT ![i] = @ + 1]
            /\ Goes(d, IF i \in Beftn THEN [disp[d] EXCEPT !.queue = @ \ {i}]
                                      ELSE [disp[d] EXCEPT !.at = "await"])
    /\ UNCHANGED <<batch, books, office, listed, listings, blocked, file, claim, bank>>

(* The answer of the runner: settles the item, or leaves it DISPATCHED.  An  *)
(* item that was settled meanwhile makes it raise.                           *)
MfsAnswers(d, result) ==
    /\ disp[d].at = "await"
    /\ LET i == Min(disp[d].queue)
           goesOn == Goes(d, [disp[d] EXCEPT !.at = "items", !.queue = @ \ {i}])
       IN  \/ result = "success" /\ MarkItemPaid(i) /\ goesOn
           \/ result = "rejected" /\ MarkItemReturned(i) /\ goesOn
           \/ result = "failed" /\ MarkItemFailed(i) /\ goesOn
           \/ /\ result = "pending" /\ goesOn
              /\ item' = IF item[i] = "DISPATCHING" THEN [item EXCEPT ![i] = "DISPATCHED"] ELSE item
              /\ UNCHANGED <<batch, books>>
           \/ /\ result # "pending" /\ item[i] \in ITEM_TERMINAL_STATES
              /\ Stops(d) /\ UNCHANGED <<batch, item, books>>
    /\ UNCHANGED <<office, listed, listings, blocked, rails>>

EndDispatch(d) ==
    /\ disp[d].at = "items" /\ disp[d].queue = {}
    /\ Stops(d)
    /\ UNCHANGED <<batch, item, books, office, listed, listings, blocked, rails>>

(* dispatch_batch on a DISPATCHING batch.                                    *)
StartRecovery(d) ==
    /\ disp[d].at = "idle" /\ batch = "DISPATCHING"
    /\ Goes(d, [Free EXCEPT !.at = "recover"])
    /\ UNCHANGED <<batch, item, books, office, listed, listings, blocked, rails>>

(* _recover_dispatching_batch reads the items and asks the connector where   *)
(* the file is; REFUSED and REJECTED raise, an upload under way returns.     *)
QueryFile(d) ==
    LET asks(mode, seen) == Goes(d, [Free EXCEPT !.at = "queried", !.mode = mode, !.seen = seen])
        arrived == file.outcome = "SUBMITTED" /\ file.entries \subseteq bank IN
    /\ disp[d].at = "recover"
    /\ IF Accepted \cap Beftn = {}
       THEN asks("plain", WithStatus({"QUEUED"})) /\ UNCHANGED file
       ELSE \/ /\ claim # NoOne \/ file.outcome \in {"REFUSED", "REJECTED"}
               /\ Stops(d) /\ UNCHANGED file
            \/ /\ claim = NoOne /\ (file = NoFile \/ (~file.uploaded /\ ~arrived))
               /\ file.outcome \notin {"REFUSED", "REJECTED"}
               /\ asks("lost", WithStatus(Unsettled)) /\ UNCHANGED file
            \/ /\ claim = NoOne /\ file.outcome = "SUBMITTED" /\ (file.uploaded \/ arrived)
               /\ \/ /\ file' = [file EXCEPT !.uploaded = TRUE]
                     /\ asks("sent", WithStatus({"QUEUED"}) \ Beftn)
                  \/ /\ file' = [file EXCEPT !.uploaded = TRUE, !.outcome = "REJECTED"]
                     /\ Stops(d)
    /\ UNCHANGED <<batch, item, books, office, listed, listings, blocked, claim, bank, calls>>

(* _screen_for_dispatch on the items read before the query.                  *)
ScreenAgain(d) ==
    /\ disp[d].at = "queried"
    /\ Goes(d, [disp[d] EXCEPT !.at = "hits", !.hits = disp[d].seen \cap listed])
    /\ UNCHANGED <<batch, item, books, office, listed, listings, blocked, rails>>

(* The task or its process dies: an upload claim stays behind until its      *)
(* lease is over, a refusal was only remembered in memory.                   *)
DispatcherDies(d) ==
    /\ disp[d].at # "idle"
    /\ Stops(d)
    /\ file' \in IF file.outcome = "REFUSED" THEN {file, NoFile} ELSE {file}
    /\ UNCHANGED <<batch, item, books, office, listed, listings, blocked, claim, bank, calls>>

LeaseExpires ==
    /\ claim # NoOne /\ disp[claim].at # "upload"
    /\ claim' = NoOne
    /\ UNCHANGED <<batch, item, books, office, listed, listings, blocked, file, bank, calls, disp>>

(* _enforce_sanctions_freshness, where it is switched on, refuses a submit   *)
(* or a dispatch on a stale watchlist before anything is written.            *)
EnforceSanctionsFreshness ==
    /\ \/ maker = "idle" /\ batch = "VALIDATED"
       \/ batch \in {"APPROVED", "DISPATCHING"} /\ \E d \in Dispatchers : disp[d].at = "idle"
    /\ UNCHANGED dvars

DispatcherStep(d) ==
    \/ StartDispatch(d) \/ TakeBatch(d) \/ FailHit(d) \/ HandOver(d)
    \/ \E arrives, ok \in BOOLEAN : Uploaded(d, arrives, ok)
    \/ DispatchItem(d) \/ EndDispatch(d)
    \/ \E result \in {"success", "pending", "rejected", "failed"} : MfsAnswers(d, result)
    \/ StartRecovery(d) \/ QueryFile(d) \/ ScreenAgain(d) \/ DispatcherDies(d)

DNext ==
    \/ \E accepted \in SUBSET Items : CreateBatch(accepted)
    \/ OpenRequest \/ SubmitBatch \/ DecideApproval \/ ApproveBatch
    \/ CancelBatch \/ ApplyApprovalTerminal
    \/ \E i \in Items : Relist(i) \/ ReturnEntry(i)
    \/ \E d \in Dispatchers : DispatcherStep(d)
    \/ LeaseExpires \/ EnforceSanctionsFreshness

DSpec == DInit /\ [][DNext]_dvars
-----------------------------------------------------------------------------
Funded == batch \in {"APPROVED", "DISPATCHING", "COMPLETED", "PARTIALLY_RETURNED"}

(* The hold reserve is at every commit what the funded batch still owes: an  *)
(* item is paid out or released exactly once, whichever of its dispatchers,  *)
(* screens and returns settles it, and nothing else touches the merchant's   *)
(* balance.                                                                  *)
ReserveIsOwed ==
    /\ books.reserve = IF Funded THEN AmountOf(WithStatus(Unsettled)) ELSE 0
    /\ books.paid = AmountOf(WithStatus({"PAID"}))
    /\ books.settlement + books.reserve + books.paid = books.funds

(* A funded batch is closed exactly when its last item is settled, although  *)
(* items are settled by different processes that each look at the others.    *)
ClosedWhenSettled ==
    Funded => (batch \in BATCH_TERMINAL_STATES <=> WithStatus(Unsettled) = {})

(* An MFS payout is handed to its rail at most once: retries, races and      *)
(* recoveries skip an item that somebody claimed.                            *)
MfsHandedOnce == \A i \in Items : calls[i] <= 1

(* The money of a bulk payout adds up: ReserveIsOwed, ClosedWhenSettled and  *)
(* MfsHandedOnce together, under any number of dispatchers, crashes, screens *)
(* and returns.                                                              *)
PayoutsAddUp == ReserveIsOwed /\ ClosedWhenSettled /\ MfsHandedOnce

(* _recover_dispatching_batch: "the rebuilt file carries only screened-clean *)
(* BEFTN items".                                                             *)
BlockedStayOut == blocked \cap bank = {}
-----------------------------------------------------------------------------
(***************************************************************************)
(* The two-eyes approval gateway (bdpay.platform.approval).  Every         *)
(* decision reads the row, checks it, and saves the whole row by its id:   *)
(* the save has no condition on the state that was read.  A worker process *)
(* runs one operation at a time; several workers interleave between the    *)
(* read and the save.                                                      *)
(***************************************************************************)
CONSTANTS
    Requests,          \* approval requests for one (action_type, subject_id)
    Operators,
    Workers,           \* server processes
    Nobody

ASSUME ApprovalsAssumption == Nobody \notin Operators \cup Requests

VARIABLES
    areq,              \* approval_requests
    overdue,           \* requests past expires_at
    plan               \* per worker: what it read, and will save

avars == <<areq, overdue, plan>>

ALive == {"PENDING_SECOND_APPROVER", "APPROVED_EXECUTION_FAILED"}
ATerminal == {"REJECTED", "EXPIRED", "WITHDRAWN"}
AStates == ALive \cup ATerminal \cup {"APPROVED"}
Absent == [state |-> "absent", initiator |-> Nobody, approver |-> Nobody, executed |-> FALSE]
NoPlan == [req |-> Nobody, row |-> Absent]
LiveRequests == {r \in Requests : areq[r].state \in ALive}

AInit ==
    /\ areq = [r \in Requests |-> Absent] /\ overdue = {}
    /\ plan = [w \in Workers |-> NoPlan]

ARows == [state : AStates \cup {"absent"}, initiator : Operators \cup {Nobody},
          approver : Operators \cup {Nobody}, executed : BOOLEAN]

ATypeOK ==
    /\ areq \in [Requests -> ARows]
    /\ overdue \in SUBSET Requests
    /\ plan \in [Workers -> [req : Requests \cup {Nobody}, row : ARows]]

(* request: the partial unique index refuses a second live row.              *)
RequestApproval(r, o) ==
    /\ areq[r] = Absent /\ LiveRequests = {}
    /\ areq' = [areq EXCEPT ![r] = [Absent EXCEPT !.state = "PENDING_SECOND_APPROVER",
                                                  !.initiator = o]]
    /\ UNCHANGED <<overdue, plan>>

TtlPasses(r) ==
    /\ areq[r] # Absent /\ r \notin overdue /\ overdue' = overdue \cup {r}
    /\ UNCHANGED <<areq, plan>>

Plan(w, r, row) == plan' = [plan EXCEPT ![w] = [req |-> r, row |-> row]]

PendingUnchecked(r) == areq[r].state # "absent"

(* _get_pending: a decided row is refused; an overdue one is to be expired.  *)
Pending(r) == areq[r].state = "PENDING_SECOND_APPROVER"

(* approve, reject, withdraw and the sweep's pending_expired: the read.      *)
ReadForDecision(w, r) ==
    /\ plan[w] = NoPlan /\ Pending(r)
    /\ \/ r \in overdue /\ Plan(w, r, [areq[r] EXCEPT !.state = "EXPIRED"])
       \/ /\ r \notin overdue
          /\ \E o \in Operators :
                \/ /\ o # areq[r].initiator
                   /\ \E s \in {"APPROVED", "REJECTED"} :
                         Plan(w, r, [areq[r] EXCEPT !.state = s, !.approver = o])
                \/ /\ o = areq[r].initiator
                   /\ Plan(w, r, [areq[r] EXCEPT !.state = "WITHDRAWN"])
    /\ UNCHANGED <<areq, overdue>>

(* mark_execution_failed and mark_executed: the read.                        *)
ReadForExecution(w, r) ==
    /\ plan[w] = NoPlan
    /\ \/ /\ areq[r].state = "APPROVED"
          /\ Plan(w, r, [areq[r] EXCEPT !.state = "APPROVED_EXECUTION_FAILED"])
       \/ /\ areq[r].state \in {"APPROVED", "APPROVED_EXECUTION_FAILED"}
          /\ Plan(w, r, [areq[r] EXCEPT !.state = "APPROVED", !.executed = TRUE])
    /\ UNCHANGED <<areq, overdue>>

(* save: refused only where it would make a second live row.                 *)
Save(w) ==
    /\ plan[w] # NoPlan
    /\ areq' = IF plan[w].row.state \in ALive /\ LiveRequests \ {plan[w].req} # {}
               THEN areq ELSE [areq EXCEPT ![plan[w].req] = plan[w].row]
    /\ plan' = [plan EXCEPT ![w] = NoPlan]
    /\ UNCHANGED overdue

ANext ==
    \/ \E r \in Requests : TtlPasses(r) \/ \E o \in Operators : RequestApproval(r, o)
    \/ \E w \in Workers :
          Save(w) \/ \E r \in Requests : ReadForDecision(w, r) \/ ReadForExecution(w, r)

ASpec == AInit /\ [][ANext]_avars
-----------------------------------------------------------------------------
(* Two pairs of eyes and one live request: whatever was approved, rejected   *)
(* or executed was decided by someone other than its initiator, and at most  *)
(* one request per action and subject is live, also when an execution fails  *)
(* after a second request was made.                                          *)
TwoEyes ==
    /\ Cardinality(LiveRequests) <= 1
    /\ \A r \in Requests :
          /\ areq[r].state \in {"APPROVED", "APPROVED_EXECUTION_FAILED", "REJECTED"}
                => areq[r].approver \notin {Nobody, areq[r].initiator}
          /\ areq[r].executed => areq[r].state \in {"APPROVED", "APPROVED_EXECUTION_FAILED"}

(* Decisions are single-shot: a rejected, expired or withdrawn request never *)
(* changes again, and an approved one keeps its approver.                    *)
DecisionIsFinal ==
    [][\A r \in Requests :
          /\ areq[r].state \in ATerminal => areq'[r] = areq[r]
          /\ areq[r].state \in {"APPROVED", "APPROVED_EXECUTION_FAILED"}
                => areq'[r].approver = areq[r].approver]_avars

(* What the second approver decided stands: both of the above, of one server *)
(* process.                                                                  *)
DecisionsStand == []TwoEyes /\ DecisionIsFinal
=============================================================================
