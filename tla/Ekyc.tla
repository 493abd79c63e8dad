-------------------------------- MODULE Ekyc --------------------------------
(***************************************************************************)
(* A customer's identity records: KycService over PostgresKycStore.  A     *)
(* session reads the NID, compares a selfie with the identity provider and *)
(* is given a tier, or waits for a human review; refreshes and upgrades    *)
(* make a successor that archives its predecessor.  Two methods await a    *)
(* provider with a copy of the row in hand and write that copy back, so    *)
(* what others wrote meanwhile is lost.  Every store call commits by       *)
(* itself; a crash keeps a prefix of a method's writes.                    *)
(***************************************************************************)
EXTENDS Naturals, Sequences, FiniteSets

CONSTANTS
    Records,      \* ids of the customer's kyc_records, used in order
    MaxAttempts,  \* MAX_BIOMETRIC_ATTEMPTS
    QueueCap,     \* the review queue's cap for provider outages
    Wanted,       \* tiers a first session asks for
    MaxTroubles,  \* bound on crashes and on documents the OCR provider holds
    NoPredecessor

ASSUME AttemptsAssumption == MaxAttempts \in Nat

VARIABLES
    kyc,       \* kyc_records: [state, prev, wants, tier, nid]
    tried,     \* kyc_biometric_attempts: outcomes by attempt number
    open,      \* reasons of the open kyc_manual_reviews, oldest first
    ocr, bio,  \* the copy of the row a call waiting for its provider holds
    grounds,   \* "flagged" by the last screening, "approved" by a review since, or "none"
    minor,     \* the NID read was a minor's
    troubles

ekyc == <<kyc, tried, open, ocr, bio, grounds, minor, troubles>>

NoCopy == [state |-> "none", prev |-> NoPredecessor, wants |-> "none", tier |-> "none", nid |-> "none"]
Tiers == {"SIMPLIFIED", "REGULAR"}

(* KYC_TABLE; the tiers' and the guards' variants of a row are one.          *)
KycTable ==
    {<<"REFRESH_PENDING", "refresh_session_started", "SUBMITTED">>,
     <<"SUBMITTED", "nid_ocr_received_adult", "NID_OCR_RECEIVED">>,
     <<"SUBMITTED", "nid_ocr_received_minor", "PENDING_HUMAN_REVIEW">>,
     <<"SUBMITTED", "ocr_unavailable", "PENDING_HUMAN_REVIEW">>,
     <<"SUBMITTED", "session_timeout", "REJECTED">>, <<"NID_OCR_RECEIVED", "session_timeout", "REJECTED">>,
     <<"NID_OCR_RECEIVED", "biometric_submitted", "BIOMETRIC_PENDING">>,
     <<"BIOMETRIC_RETRY_PENDING", "biometric_submitted", "BIOMETRIC_PENDING">>,
     <<"BIOMETRIC_RETRY_PENDING", "biometric_timeout", "REJECTED">>,
     <<"BIOMETRIC_PENDING", "porichoy_matched", "BIOMETRIC_PASSED">>,
     <<"BIOMETRIC_PENDING", "porichoy_not_matched_retry", "BIOMETRIC_RETRY_PENDING">>,
     <<"BIOMETRIC_PENDING", "porichoy_not_matched_exhausted", "REJECTED">>,
     <<"BIOMETRIC_PENDING", "porichoy_unavailable", "PENDING_HUMAN_REVIEW">>,
     <<"BIOMETRIC_PASSED", "tier_assigned", "ACTIVE">>,
     <<"BIOMETRIC_PASSED", "sanctions_hit", "PENDING_HUMAN_REVIEW">>,
     <<"PENDING_HUMAN_REVIEW", "manual_review_approve", "ACTIVE">>,
     <<"PENDING_HUMAN_REVIEW", "manual_review_reject", "REJECTED">>,
     <<"ACTIVE", "tier_upgrade_requested", "ACTIVE">>, <<"ACTIVE", "refresh_triggered", "ACTIVE">>,
     <<"ACTIVE", "refresh_overdue", "REFRESH_OVERDUE">>,
     <<"ACTIVE", "sanctions_retrospective_hit", "PENDING_HUMAN_REVIEW">>,
     <<"REFRESH_OVERDUE", "refresh_hard_expired", "EXPIRED_HARD">>,
     <<"ACTIVE", "new_kyc_cycle_completed", "ARCHIVED">>,
     <<"REFRESH_OVERDUE", "new_kyc_cycle_completed", "ARCHIVED">>,
     <<"EXPIRED_HARD", "new_kyc_cycle_completed", "ARCHIVED">>}

KycRule(state, trigger) == {t \in KycTable : t[1] = state /\ t[2] = trigger}

(* _advance: the copy in hand decides and is what is stored, but for its     *)
(* state.                                                                    *)
Advanced(copy, trigger) ==
    [copy EXCEPT !.state = (CHOOSE t \in KycRule(copy.state, trigger) : TRUE)[3]]

EInit ==
    /\ kyc = [r \in Records |-> NoCopy] /\ tried = [r \in Records |-> <<>>]
    /\ open = [r \in Records |-> <<>>] /\ ocr = [r \in Records |-> NoCopy]
    /\ bio = [r \in Records |-> NoCopy] /\ grounds = [r \in Records |-> "none"]
    /\ minor = [r \in Records |-> FALSE] /\ troubles = 0

Trouble == troubles < MaxTroubles /\ troubles' = troubles + 1

(* _open_review after a transition: torn, the transition stays alone.        *)
OpenReview(r, reason, torn) ==
    IF torn THEN Trouble /\ UNCHANGED open
    ELSE open' = [open EXCEPT ![r] = Append(@, reason)] /\ UNCHANGED troubles

(* ---- a session -------------------------------------------------------------- *)

FindOpenSession ==
    {r \in Records : kyc[r].state \in {"REFRESH_PENDING", "SUBMITTED", "NID_OCR_RECEIVED", "BIOMETRIC_PENDING",
                                       "BIOMETRIC_RETRY_PENDING", "BIOMETRIC_PASSED", "PENDING_HUMAN_REVIEW"}}

InsertRecord(r, state, wants, prev) ==
    /\ kyc[r].state = "none" /\ \A s \in Records : s < r => kyc[s].state # "none"
    /\ kyc' = [kyc EXCEPT ![r] = [NoCopy EXCEPT !.state = state, !.prev = prev, !.wants = wants]]
    /\ UNCHANGED <<tried, open, ocr, bio, grounds, minor, troubles>>

StartSession(r, wants) == FindOpenSession = {} /\ InsertRecord(r, "SUBMITTED", wants, NoPredecessor)

(* submit_nid_ocr with a readable document.                                  *)
SubmitNidOcr(r, young, torn) ==
    LET read == [kyc[r] EXCEPT !.nid = IF young THEN "minor" ELSE "adult"]
    IN  /\ kyc[r].state = "SUBMITTED"
        /\ kyc' = [kyc EXCEPT ![r] = Advanced(read, IF young THEN "nid_ocr_received_minor" ELSE "nid_ocr_received_adult")]
        /\ minor' = [minor EXCEPT ![r] = young]
        /\ IF young THEN OpenReview(r, "MINOR_ACCOUNT_POLICY", torn) ELSE ~torn /\ UNCHANGED <<open, troubles>>

SubmitNid(r, young, torn) ==
    SubmitNidOcr(r, young, torn) /\ UNCHANGED <<tried, ocr, bio, grounds>>

(* submit_nid_ocr_document up to its await.                                  *)
SubmitNidOcrDocument(r) ==
    /\ kyc[r].state = "SUBMITTED" /\ ocr[r] = NoCopy /\ ocr' = [ocr EXCEPT ![r] = kyc[r]]
    /\ Trouble /\ UNCHANGED <<kyc, tried, open, bio, grounds, minor>>

(* Its answer: the text goes through submit_nid_ocr, which reads the row     *)
(* again, or is refused; a failure of the provider advances the copy.        *)
OcrAnswers(r, young, torn) ==
    /\ ocr[r] # NoCopy /\ ocr' = [ocr EXCEPT ![r] = NoCopy]
    /\ \/ SubmitNidOcr(r, young, torn)
       \/ ~torn /\ ~young /\ UNCHANGED <<kyc, minor, open, troubles>>
    /\ UNCHANGED <<tried, bio, grounds>>

OcrFails(r, torn) ==
    /\ ocr[r] # NoCopy /\ ocr' = [ocr EXCEPT ![r] = NoCopy]
    /\ kyc' = [kyc EXCEPT ![r] = Advanced(ocr[r], "ocr_unavailable")]
    /\ OpenReview(r, "OCR_UNAVAILABLE", torn)
    /\ UNCHANGED <<tried, bio, grounds, minor>>

Waiting(reason) ==
    {w \in Records \X (1..3) : w[2] \in DOMAIN open[w[1]] /\ open[w[1]][w[2]] = reason}

(* submit_biometric up to its await; available is the breaker's answer.      *)
SubmitBiometric(r, available) ==
    /\ kyc[r].state \in {"NID_OCR_RECEIVED", "BIOMETRIC_RETRY_PENDING"}
    /\ available \/ Cardinality(Waiting("PORICHOY_UNAVAILABLE")) < QueueCap
    /\ Len(tried[r]) < MaxAttempts
    /\ kyc' = [kyc EXCEPT ![r] = Advanced(kyc[r], "biometric_submitted")]
    /\ bio' = [bio EXCEPT ![r] = kyc'[r]]
    /\ UNCHANGED <<tried, open, ocr, grounds, minor, troubles>>

RecordAttempt(r, outcome) == tried' = [tried EXCEPT ![r] = Append(@, outcome)]

LastAttempt(r) == Len(tried[r]) + 1 >= MaxAttempts

PorichoyAnswers(r, matched) ==
    /\ bio[r] # NoCopy /\ bio' = [bio EXCEPT ![r] = NoCopy] /\ RecordAttempt(r, matched)
    /\ kyc' = [kyc EXCEPT ![r] = Advanced(bio[r], IF matched THEN "porichoy_matched"
                                                  ELSE IF LastAttempt(r) THEN "porichoy_not_matched_exhausted"
                                                  ELSE "porichoy_not_matched_retry")]
    /\ UNCHANGED <<open, ocr, grounds, minor, troubles>>

NoAnswerPasses == "porichoy_matched"
NoAnswer == "porichoy_unavailable"

PorichoyFails(r, torn) ==
    /\ bio[r] # NoCopy /\ bio' = [bio EXCEPT ![r] = NoCopy] /\ RecordAttempt(r, FALSE)
    /\ kyc' = [kyc EXCEPT ![r] = Advanced(bio[r], NoAnswer)]
    /\ OpenReview(r, "PORICHOY_UNAVAILABLE", torn)
    /\ UNCHANGED <<ocr, grounds, minor>>

(* ---- tiers ---------------------------------------------------------------------- *)

(* _archive_predecessor.                                                     *)
Archivable(p) == p # NoPredecessor /\ kyc[p].state \in {"ACTIVE", "REFRESH_OVERDUE", "EXPIRED_HARD"}

(* _activate: the tier, the predecessor, then the state, which the unique    *)
(* index on ACTIVE rows refuses while another record is ACTIVE; torn, the    *)
(* first two alone.                                                          *)
Activate(r, tier, trigger, torn) ==
    LET p == kyc[r].prev
        dated == [kyc EXCEPT ![r].tier = tier]
        turned == IF Archivable(p) THEN [dated EXCEPT ![p] = Advanced(@, "new_kyc_cycle_completed")] ELSE dated
        taken == \E s \in Records \ {r} : turned[s].state = "ACTIVE"
    IN  /\ kyc' = IF torn \/ taken THEN turned ELSE [turned EXCEPT ![r] = Advanced(@, trigger)]
        /\ IF torn THEN Trouble ELSE UNCHANGED troubles

(* assign_tier.                                                              *)
AssignTier(r, hit, torn) ==
    /\ kyc[r].state = "BIOMETRIC_PASSED"
    /\ grounds' = [grounds EXCEPT ![r] = IF hit THEN "flagged" ELSE IF @ = "flagged" THEN "none" ELSE @]
    /\ IF hit THEN /\ kyc' = [kyc EXCEPT ![r] = Advanced(@, "sanctions_hit")]
                   /\ OpenReview(r, "SANCTIONS_ADJACENT", torn)
       ELSE Activate(r, kyc[r].wants, "tier_assigned", torn) /\ UNCHANGED open
    /\ UNCHANGED <<tried, ocr, bio, minor>>

DecisionAllowed(r, decision) == ~(decision = "REGULAR" /\ kyc[r].nid = "minor")

(* resolve_manual_review: the review is closed first.                        *)
ResolveManualReview(r, decision, torn) ==
    /\ kyc[r].state = "PENDING_HUMAN_REVIEW" /\ open[r] # <<>> /\ DecisionAllowed(r, decision)
    /\ open' = [open EXCEPT ![r] = Tail(@)]
    /\ grounds' = [grounds EXCEPT ![r] = IF decision = "REJECT" THEN "none" ELSE "approved"]
    /\ IF decision # "REJECT" THEN Activate(r, decision, "manual_review_approve", torn)
       ELSE IF torn THEN Trouble /\ UNCHANGED kyc
       ELSE kyc' = [kyc EXCEPT ![r] = Advanced(@, "manual_review_reject")] /\ UNCHANGED troubles
    /\ UNCHANGED <<tried, ocr, bio, minor>>

(* ---- upgrade, refresh, screening again, timeouts ----------------------------------- *)

RequestTierUpgrade(r, s) ==
    /\ KycRule(kyc[r].state, "tier_upgrade_requested") # {} /\ FindOpenSession = {}
    /\ InsertRecord(s, "SUBMITTED", "REGULAR", r)

(* trigger_refresh does not look for an open session.                        *)
TriggerRefresh(r, s) ==
    /\ KycRule(kyc[r].state, "refresh_triggered") # {}
    /\ InsertRecord(s, "REFRESH_PENDING", kyc[r].tier, r)

StartRefreshSession(r) ==
    /\ KycRule(kyc[r].state, "refresh_session_started") # {}
    /\ kyc' = [kyc EXCEPT ![r] = Advanced(@, "refresh_session_started")]
    /\ UNCHANGED <<tried, open, ocr, bio, grounds, minor, troubles>>

RecordRetrospectiveHit(r, torn) ==
    /\ kyc[r].state = "ACTIVE"
    /\ kyc' = [kyc EXCEPT ![r] = Advanced(@, "sanctions_retrospective_hit")]
    /\ grounds' = [grounds EXCEPT ![r] = "flagged"] /\ OpenReview(r, "SANCTIONS_ADJACENT", torn)
    /\ UNCHANGED <<tried, ocr, bio, minor>>

Timeout(state) ==
    CASE state \in {"SUBMITTED", "NID_OCR_RECEIVED"} -> "session_timeout"
      [] state = "BIOMETRIC_RETRY_PENDING" -> "biometric_timeout"
      [] state = "ACTIVE" -> "refresh_overdue"
      [] state = "REFRESH_OVERDUE" -> "refresh_hard_expired"
      [] OTHER -> "none"

(* sweep, over the records whose time is up.                                 *)
Sweep(due) ==
    /\ due # {} /\ \A r \in due : Timeout(kyc[r].state) # "none"
    /\ kyc' = [r \in Records |-> IF r \in due THEN Advanced(kyc[r], Timeout(kyc[r].state)) ELSE kyc[r]]
    /\ UNCHANGED <<tried, open, ocr, bio, grounds, minor, troubles>>

(* The process dies: the calls waiting for a provider go with it.            *)
Die ==
    /\ Trouble /\ ocr' = [r \in Records |-> NoCopy] /\ bio' = [r \in Records |-> NoCopy]
    /\ UNCHANGED <<kyc, tried, open, grounds, minor>>

ENext ==
    \/ Die \/ \E due \in SUBSET Records : Sweep(due)
    \/ \E r \in Records :
          \/ SubmitNidOcrDocument(r) \/ StartRefreshSession(r)
          \/ \E wants \in Wanted : StartSession(r, wants)
          \/ \E yes \in BOOLEAN : SubmitBiometric(r, yes) \/ PorichoyAnswers(r, yes)
          \/ \E s \in Records : RequestTierUpgrade(r, s) \/ TriggerRefresh(r, s)
          \/ \E torn \in BOOLEAN :
                \/ OcrFails(r, torn) \/ PorichoyFails(r, torn) \/ RecordRetrospectiveHit(r, torn)
                \/ \E yes \in BOOLEAN : SubmitNid(r, yes, torn) \/ OcrAnswers(r, yes, torn) \/ AssignTier(r, yes, torn)
                \/ \E decision \in Tiers \cup {"REJECT"} : ResolveManualReview(r, decision, torn)

ESpec == EInit /\ [][ENext]_ekyc
-----------------------------------------------------------------------------
(* Whatever calls overlap or die, a record is ACTIVE only on evidence: the   *)
(* identity provider matched it or a review approved it, and the last        *)
(* screening was clear or a review has decided since; the provider was never *)
(* asked more often than allowed; and at most one record is ACTIVE.          *)
ActiveIsVerified ==
    /\ \A r \in Records : kyc[r].state = "ACTIVE" =>
          \/ grounds[r] = "approved"
          \/ grounds[r] = "none" /\ \E i \in DOMAIN tried[r] : tried[r][i]
    /\ \A r \in Records : Len(tried[r]) <= MaxAttempts
    /\ \A r, s \in Records : kyc[r].state = "ACTIVE" /\ kyc[s].state = "ACTIVE" => r = s
=============================================================================
