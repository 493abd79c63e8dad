-------------------------------- MODULE Kyb --------------------------------
(***************************************************************************)
(* A merchant's onboarding: MerchantOnboardingService over                 *)
(* PostgresKybStore.  The KYB record moves along MERCHANT_KYB_TABLE and    *)
(* _advance copies its status to the merchants row, which payments and     *)
(* payouts read.  submit_application and sign_agreement open a             *)
(* transaction; their callers give the other methods no connection, so     *)
(* the record and the merchant are written in two, and a crash can keep    *)
(* the first alone.  The application of a prohibited category is undone    *)
(* with its transaction by the error that reports it.                      *)
(***************************************************************************)
EXTENDS Naturals, FiniteSets

CONSTANTS
    Owners,      \* UBO nodes the applicant may name
    Officers,    \* operators
    Requests,    \* ids of approval requests
    MaxCrashes,  \* bound
    NoRequest

ASSUME RequestsAssumption == NoRequest \notin Requests

VARIABLES
    record,    \* kyb_records: [status, edd, approval, cleared, dated], edd when the
               \* category asks for enhanced due diligence
    merchant,  \* merchants: [status, blocked]
    paper,     \* review_status of the required document
    owner,     \* kyb_ubo_nodes: [identity, sanctions]
    asked,     \* approval requests: [kind, state, initiator, approver]
    issued,    \* ledger accounts opened and keys issued
    downs

kyb == <<record, merchant, paper, owner, asked, issued, downs>>

NoOwner == [identity |-> "none", sanctions |-> "none"]
NoAsked == [kind |-> "none", state |-> "none", initiator |-> "none", approver |-> "none"]
Present == {n \in Owners : owner[n].identity # "none"}

(* MERCHANT_KYB_TABLE, without the operator_reject row no method takes.       *)
MerchantKybTable ==
    {<<"APPLICATION_SUBMITTED", "application_accepted", "DOCUMENTS_PENDING">>,
     <<"APPLICATION_SUBMITTED", "auto_expire", "REJECTED">>,
     <<"DOCUMENTS_PENDING", "documents_complete", "KYB_IN_PROGRESS">>,
     <<"DOCUMENTS_PENDING", "documents_incomplete", "DOCUMENTS_PENDING">>,
     <<"DOCUMENTS_PENDING", "auto_expire", "REJECTED">>,
     <<"KYB_IN_PROGRESS", "ubo_nid_mismatch", "DOCUMENTS_PENDING">>,
     <<"KYB_IN_PROGRESS", "porichoy_unavailable", "PENDING_HUMAN_REVIEW">>,
     <<"KYB_IN_PROGRESS", "high_risk_mcc", "ENHANCED_DUE_DILIGENCE">>,
     <<"KYB_IN_PROGRESS", "checks_pass", "SANCTIONS_REVIEW">>,
     <<"ENHANCED_DUE_DILIGENCE", "edd_complete", "SANCTIONS_REVIEW">>,
     <<"ENHANCED_DUE_DILIGENCE", "edd_rejected", "REJECTED">>,
     <<"SANCTIONS_REVIEW", "sanctions_hit", "REJECTED">>,
     <<"SANCTIONS_REVIEW", "sanctions_clear", "RISK_ASSESSED">>,
     <<"RISK_ASSESSED", "two_eyes_approved", "AGREEMENT_PENDING">>,
     <<"RISK_ASSESSED", "two_eyes_rejected", "REJECTED">>,
     <<"AGREEMENT_PENDING", "agreement_signed", "ACTIVE">>,
     <<"AGREEMENT_PENDING", "auto_expire", "REJECTED">>,
     <<"PENDING_HUMAN_REVIEW", "operator_manual_verify", "KYB_IN_PROGRESS">>,
     <<"ACTIVE", "aml_triggered", "SUSPENDED">>, <<"ACTIVE", "license_revoked", "TERMINATED">>,
     <<"ACTIVE", "kyb_refresh_due", "KYB_REFRESH_PENDING">>,
     <<"KYB_REFRESH_PENDING", "refresh_complete", "ACTIVE">>,
     <<"KYB_REFRESH_PENDING", "refresh_failed", "SUSPENDED">>,
     <<"SUSPENDED", "camlco_cleared", "ACTIVE">>, <<"SUSPENDED", "camlco_terminated", "TERMINATED">>}

Rule(trigger) == {r \in MerchantKybTable : r[1] = record.status /\ r[2] = trigger}
Target(trigger) == (CHOOSE r \in Rule(trigger) : TRUE)[3]

BInit ==
    /\ record = [status |-> "none", edd |-> FALSE, approval |-> NoRequest, cleared |-> FALSE,
                 dated |-> FALSE]
    /\ merchant = [status |-> "none", blocked |-> FALSE]
    /\ paper = "none" /\ owner = [n \in Owners |-> NoOwner] /\ asked = [q \in Requests |-> NoAsked]
    /\ issued = 0 /\ downs = 0

(* update_merchant of _advance.                                              *)
UpdateMerchant(to) ==
    merchant' = [status |-> to,
                 blocked |-> (merchant.blocked \/ to \in {"SUSPENDED", "TERMINATED"}) /\ to # "ACTIVE"]

(* _advance of a record with further fields: torn, only the record is kept.  *)
Advance(trigger, rec, torn) ==
    /\ Rule(trigger) # {}
    /\ record' = [rec EXCEPT !.status = Target(trigger)]
    /\ IF torn THEN downs < MaxCrashes /\ downs' = downs + 1 /\ UNCHANGED merchant
       ELSE UpdateMerchant(Target(trigger)) /\ UNCHANGED downs

Move(trigger, torn) == Advance(trigger, record, torn) /\ UNCHANGED <<paper, owner, asked, issued>>

(* ---- application, documents, owners ----------------------------------------- *)

SubmitApplication(edd) ==
    /\ record.status = "none"
    /\ record' = [record EXCEPT !.status = "DOCUMENTS_PENDING", !.edd = edd]
    /\ merchant' = [merchant EXCEPT !.status = "DOCUMENTS_PENDING"]
    /\ UNCHANGED <<paper, owner, asked, issued, downs>>

UploadDocument ==
    /\ record.status # "none" /\ paper = "none" /\ paper' = "PENDING"
    /\ UNCHANGED <<record, merchant, owner, asked, issued, downs>>

(* review_document: nothing makes a document OCR_COMPLETE, so the table only *)
(* lets a pending one be accepted.                                           *)
ReviewDocument ==
    /\ paper = "PENDING" /\ paper' = "ACCEPTED"
    /\ UNCHANGED <<record, merchant, owner, asked, issued, downs>>

CheckDocumentsComplete(torn) ==
    Move(IF paper = "none" THEN "documents_incomplete" ELSE "documents_complete", torn)

AddUboNode(n) ==
    /\ record.status # "none" /\ n \notin Present
    /\ owner' = [owner EXCEPT ![n] = [identity |-> "PENDING", sanctions |-> "NOT_SCREENED"]]
    /\ UNCHANGED <<record, merchant, paper, asked, issued, downs>>

(* record_porichoy_result: moves the record only from KYB_IN_PROGRESS.       *)
RecordPorichoyResult(n, outcome, torn) ==
    /\ n \in Present /\ owner' = [owner EXCEPT ![n].identity = outcome]
    /\ IF record.status = "KYB_IN_PROGRESS" /\ outcome # "VERIFIED"
       THEN Advance(IF outcome = "MISMATCH" THEN "ubo_nid_mismatch" ELSE "porichoy_unavailable", record, torn)
       ELSE ~torn /\ UNCHANGED <<record, merchant, downs>>
    /\ UNCHANGED <<paper, asked, issued>>

ManualVerifyUbo(n, torn) ==
    /\ n \in Present /\ owner' = [owner EXCEPT ![n].identity = "MANUALLY_VERIFIED"]
    /\ IF record.status = "PENDING_HUMAN_REVIEW" THEN Advance("operator_manual_verify", record, torn)
       ELSE ~torn /\ UNCHANGED <<record, merchant, downs>>
    /\ UNCHANGED <<paper, asked, issued>>

(* ---- review ------------------------------------------------------------------ *)

SubmissionFailures == paper = "none" \/ \A n \in Present : owner[n].identity \notin {"VERIFIED", "MANUALLY_VERIFIED"}

(* Requests are numbered in the order they are made.                         *)
Request(q, kind, who) ==
    /\ asked[q].state = "none" /\ \A r \in Requests : r < q => asked[r].state # "none"
    /\ asked' = [asked EXCEPT ![q] = [kind |-> kind, state |-> "PENDING", initiator |-> who,
                                      approver |-> "none"]]

(* submit_for_review: an EDD approval is asked for after the record moved,   *)
(* so a crash in between leaves the record without one.                      *)
SubmitForReview(q, who, torn) ==
    /\ ~SubmissionFailures
    /\ IF ~record.edd THEN Advance("checks_pass", record, torn) /\ UNCHANGED asked
       ELSE IF torn THEN Advance("high_risk_mcc", record, TRUE) /\ UNCHANGED asked
       ELSE Advance("high_risk_mcc", [record EXCEPT !.approval = q], FALSE) /\ Request(q, "edd", who)
    /\ UNCHANGED <<paper, owner, issued>>

CompleteEdd(torn) ==
    /\ record.approval # NoRequest /\ asked[record.approval].state \in {"APPROVED", "REJECTED"}
    /\ Move(IF asked[record.approval].state = "APPROVED" THEN "edd_complete" ELSE "edd_rejected", torn)

AnyHitEntityOnly(entity, hits) == entity
AnyHit(entity, hits) == entity \/ hits # {}

(* run_sanctions_review: the entity and every owner named so far.            *)
RunSanctionsReview(entity, hits, torn) ==
    /\ record.status = "SANCTIONS_REVIEW" /\ hits \subseteq Present
    /\ owner' = [n \in Owners |-> IF n \notin Present THEN owner[n]
                 ELSE [owner[n] EXCEPT !.sanctions = IF n \in hits THEN "HIT_UNREVIEWED" ELSE "CLEAR"]]
    /\ IF AnyHit(entity, hits) THEN Advance("sanctions_hit", record, torn)
       ELSE Advance("sanctions_clear", [record EXCEPT !.cleared = TRUE], torn)
    /\ UNCHANGED <<paper, asked, issued>>

(* ---- activation ------------------------------------------------------------------ *)

RequestActivation(q, who) ==
    /\ record.status = "RISK_ASSESSED" /\ Request(q, "activation", who)
    /\ record' = [record EXCEPT !.approval = q]
    /\ UNCHANGED <<merchant, paper, owner, issued, downs>>

(* ApprovalPort.decide: a pending request, by another person.                *)
Decide(q, who, approve) ==
    /\ asked[q].state = "PENDING" /\ asked[q].initiator # who
    /\ asked' = [asked EXCEPT ![q].state = IF approve THEN "APPROVED" ELSE "REJECTED", ![q].approver = who]

DecideEdd(q, who, approve) ==
    /\ asked[q].kind = "edd" /\ Decide(q, who, approve)
    /\ UNCHANGED <<record, merchant, paper, owner, issued, downs>>

(* decide_activation: the request is decided before the record moves, and    *)
(* stays decided when the table refuses the move.                            *)
DecideActivation(who, approve, torn) ==
    LET trigger == IF approve THEN "two_eyes_approved" ELSE "two_eyes_rejected"
    IN  /\ record.approval # NoRequest /\ Decide(record.approval, who, approve)
        /\ IF Rule(trigger) = {} THEN ~torn /\ UNCHANGED <<record, merchant, downs>>
           ELSE Advance(trigger, [record EXCEPT !.dated = approve /\ ~torn], torn)
        /\ UNCHANGED <<paper, owner, issued>>

(* sign_agreement: one transaction with the accounts and the key.            *)
SignAgreement ==
    /\ record.status = "AGREEMENT_PENDING" /\ Present # {}
    /\ Advance("agreement_signed", record, FALSE)
    /\ issued' = issued + 1 /\ UNCHANGED <<paper, owner, asked>>

(* ---- after activation --------------------------------------------------------------- *)

Suspend(torn) == Move("aml_triggered", torn)
Unsuspend(torn) == Move("camlco_cleared", torn)
Terminate(torn) == Move(IF record.status = "ACTIVE" THEN "license_revoked" ELSE "camlco_terminated", torn)
MarkRefreshDue(torn) == Move("kyb_refresh_due", torn)
CompleteRefresh(torn) == Move("refresh_complete", torn)

(* sweep_expired: an agreement without a date never runs out.                *)
SweepExpired(torn) ==
    \/ record.status = "DOCUMENTS_PENDING" /\ Move("auto_expire", torn)
    \/ record.status = "AGREEMENT_PENDING" /\ record.dated /\ Move("auto_expire", torn)
    \/ record.status = "KYB_REFRESH_PENDING" /\ Move("refresh_failed", torn)

BNext ==
    \/ \E edd \in BOOLEAN : SubmitApplication(edd)
    \/ UploadDocument \/ ReviewDocument \/ SignAgreement
    \/ \E n \in Owners : AddUboNode(n)
    \/ \E q \in Requests, who \in Officers : RequestActivation(q, who)
    \/ \E q \in Requests, who \in Officers, approve \in BOOLEAN : DecideEdd(q, who, approve)
    \/ \E torn \in BOOLEAN :
          \/ CheckDocumentsComplete(torn) \/ CompleteEdd(torn) \/ SweepExpired(torn)
          \/ Suspend(torn) \/ Unsuspend(torn) \/ Terminate(torn)
          \/ MarkRefreshDue(torn) \/ CompleteRefresh(torn)
          \/ \E n \in Owners : \/ ManualVerifyUbo(n, torn)
                               \/ \E outcome \in {"VERIFIED", "MISMATCH", "UNAVAILABLE"} :
                                     RecordPorichoyResult(n, outcome, torn)
          \/ \E q \in Requests, who \in Officers : SubmitForReview(q, who, torn)
          \/ \E entity \in BOOLEAN, hits \in SUBSET Owners : RunSanctionsReview(entity, hits, torn)
          \/ \E who \in Officers, approve \in BOOLEAN : DecideActivation(who, approve, torn)

BSpec == BInit /\ [][BNext]_kyb
-----------------------------------------------------------------------------
(* Over crashes and late identity callbacks: a merchant that payments see as *)
(* ACTIVE went through the whole procedure: sanctions cleared without a hit  *)
(* on any owner screened, activation approved by another person than asked   *)
(* for it, accounts and key issued exactly once, payouts open; and one that  *)
(* never signed has neither accounts nor key.                                *)
ActiveIsEarned ==
    /\ merchant.status = "ACTIVE" =>
          /\ record.cleared /\ issued = 1 /\ ~merchant.blocked
          /\ \A n \in Owners : owner[n].sanctions # "HIT_UNREVIEWED"
          /\ asked[record.approval].kind = "activation"
          /\ asked[record.approval].state = "APPROVED"
          /\ asked[record.approval].initiator # asked[record.approval].approver
    /\ issued > 0 => record.status \in {"ACTIVE", "SUSPENDED", "KYB_REFRESH_PENDING", "TERMINATED"}
=============================================================================
