----------------------------- MODULE Screening -----------------------------
(***************************************************************************)
(* One subject under sanctions screening and transaction monitoring:       *)
(* SanctionsFeedConnector polls the UN list into SanctionsScreener, whose  *)
(* hits freeze the subject through PostgresSubjectControl and, confirmed,  *)
(* raise an AmlAlert and an STR; the monitor raises an alert of its own.   *)
(* The Postgres stores commit one call at a time and these callers pass    *)
(* no connection, so an error or a crash keeps a prefix of a method's      *)
(* writes.  A domestic list that does not name the subject is always       *)
(* loaded, so the empty-watchlist refusal never applies.                   *)
(***************************************************************************)
EXTENDS Naturals, FiniteSets, Sequences

CONSTANTS
    Artifact,   \* artifact -> [size, entry]: entries in it, content hash naming the subject
    Strong,     \* content hashes that score as a HIT, not a POTENTIAL_MATCH
    MaxHits,    \* bound
    MaxAlerts,  \* bound
    MaxFaults,  \* bound
    NoEntry

VARIABLES
    memory,   \* SanctionsFeedConnector: [seen, active]
    version,  \* sanctions_list_versions.status by artifact
    whole,    \* artifacts whose sanctions_list_entries are all in
    hit,      \* sanctions_hits
    excused,  \* content hashes whitelisted for the subject
    granted,  \* hits with an APPROVED sanctions_clear_or_unfreeze request
    frozen,   \* subject_controls: FREEZE_SUBJECT not released
    alert,    \* aml_alerts: 0 the monitor's, h that of hit h
    report,   \* hits with a pre-seeded str_reports row
    faults

screening == <<memory, version, whole, hit, excused, granted, frozen, alert, report, faults>>
lists == <<memory, version, whole>>
cases == <<hit, excused, granted, frozen, alert, report>>

Artifacts == DOMAIN Artifact
Hits == 1..MaxHits
NoHit == [status |-> "none", entry |-> NoEntry, known |-> FALSE, paid |-> FALSE]
NoAlert == [status |-> "none", froze |-> FALSE, request |-> "none"]

---------------------------------------------------------------------------
(* the feed and the lists *)

Fault == faults < MaxFaults /\ faults' = faults + 1
ActiveVersions == {a \in Artifacts : version[a] = "ACTIVE"}

(* Artifacts are numbered by their version_stamp; a fresh process knows no    *)
(* active artifact and lets any non-empty one pass.                           *)
Validates(a) ==
    /\ Artifact[a].size > 0
    /\ memory.active # 0 => /\ Artifact[a].size >= Artifact[memory.active].size \div 2
                            /\ a >= memory.active

(* What the first k of ingest_list's writes leave: the previous version       *)
(* SUPERSEDED, the new one ACTIVE, its entries.                               *)
IngestList(a, k) ==
    IF version[a] # "none" THEN UNCHANGED <<version, whole>>
    ELSE /\ version' = [b \in Artifacts |->
                IF b \in ActiveVersions /\ k >= 1 THEN "SUPERSEDED"
                ELSE IF b = a /\ k >= 2 THEN "ACTIVE" ELSE version[b]]
         /\ whole' = IF k = 3 THEN whole \cup {a} ELSE whole

MarkIngested(a) == memory' = [seen |-> memory.seen \cup {a}, active |-> a]
LoadSanctionsFeed == memory' = [seen |-> {}, active |-> 0]

Poll(a) ==
    /\ a \notin memory.seen /\ Validates(a)
    /\ IngestList(a, 3) /\ MarkIngested(a)
    /\ UNCHANGED <<cases, faults>>

(* ingest_list raises after k writes: the row stays HANDED_OFF and its hash   *)
(* stays among the seen ones.                                                 *)
PollFails(a) ==
    /\ a \notin memory.seen /\ Validates(a) /\ Fault
    /\ \E k \in 0..2 : IngestList(a, k)
    /\ memory' = [memory EXCEPT !.seen = @ \cup {a}]
    /\ UNCHANGED cases

PollCrashes(a) ==
    /\ a \notin memory.seen /\ Validates(a) /\ Fault
    /\ \E k \in 0..3 : IngestList(a, k)
    /\ LoadSanctionsFeed
    /\ UNCHANGED cases

---------------------------------------------------------------------------
(* screening *)

FreezeSubject == frozen' = TRUE
UnfreezeSubject == frozen' = FALSE

ActiveEntries == {Artifact[a].entry : a \in ActiveVersions \cap whole} \ {NoEntry}
Matched(known) == (ActiveEntries \cap Strong) \ (IF known THEN excused ELSE {})

InsertHit(h, c, known, paid) ==
    hit' = [hit EXCEPT ![h] = [status |-> "DETECTED_FROZEN", entry |-> c,
                               known |-> known, paid |-> paid]]

(* screen_subject on a HIT.  A screen made by name alone knows no subject and *)
(* freezes none.  CLEAR and POTENTIAL_MATCH write the screening row only.     *)
ScreenSubject(known, paid) ==
    \E h \in Hits, c \in Matched(known) :
        /\ hit[h].status = "none" /\ \A g \in 1..(h - 1) : hit[g].status # "none"
        /\ InsertHit(h, c, known, paid)
        /\ IF known THEN FreezeSubject ELSE UNCHANGED frozen
        /\ UNCHANGED <<lists, excused, granted, alert, report>>

Screen == ScreenSubject(TRUE, FALSE) /\ UNCHANGED faults
ScreenPayment == ScreenSubject(TRUE, TRUE) /\ UNCHANGED faults
ScreenEntity == ScreenSubject(FALSE, FALSE) /\ UNCHANGED faults

(* The daily sweep finds the subject under an open hit and screens it anew.   *)
RescreenOpenHits ==
    /\ \E h \in Hits : hit[h].known /\ hit[h].status \in {"DETECTED_FROZEN", "UNDER_REVIEW"}
    /\ ScreenSubject(TRUE, FALSE) /\ UNCHANGED faults

(* The freeze is the first write; the hit may not follow it.                  *)
ScreenFails ==
    /\ Matched(TRUE) # {} /\ Fault /\ FreezeSubject
    /\ UNCHANGED <<lists, hit, excused, granted, alert, report>>

StartReview(h) ==
    /\ hit[h].status = "DETECTED_FROZEN"
    /\ hit' = [hit EXCEPT ![h].status = "UNDER_REVIEW"]
    /\ UNCHANGED <<lists, excused, granted, frozen, alert, report, faults>>

(* ApprovalService grants the request to clear the hit.                       *)
GrantClear(h) ==
    /\ hit[h].status = "UNDER_REVIEW" /\ h \notin granted
    /\ granted' = granted \cup {h}
    /\ UNCHANGED <<lists, hit, excused, frozen, alert, report, faults>>

MoreAlerts == Cardinality({a \in DOMAIN alert : alert[a].status # "none"}) < MaxAlerts

(* The states confirm's writes pass through: the alert, triaged and opened    *)
(* as a case when a payment was screened, the report, the hit itself.         *)
ConfirmReaches(h) ==
    LET stop == IF hit[h].paid THEN "IN_CASE" ELSE "RAISED" IN
    << [alert |-> "RAISED", report |-> FALSE, status |-> "UNDER_REVIEW"] >>
    \o (IF hit[h].paid THEN << [alert |-> "TRIAGING", report |-> FALSE, status |-> "UNDER_REVIEW"],
                               [alert |-> "IN_CASE", report |-> FALSE, status |-> "UNDER_REVIEW"] >>
                       ELSE << >>)
    \o << [alert |-> stop, report |-> TRUE, status |-> "UNDER_REVIEW"],
          [alert |-> stop, report |-> TRUE, status |-> "CONFIRMED"] >>

ConfirmTo(h, to) ==
    /\ hit[h].status = "UNDER_REVIEW" /\ hit[h].known
    /\ hit[h].paid => alert[h].status \in {"none", "RAISED"}
    /\ alert[h].status = "none" => MoreAlerts
    /\ alert' = IF hit[h].paid \/ alert[h].status = "none"
                  THEN [alert EXCEPT ![h].status = to.alert] ELSE alert
    /\ report' = IF to.report THEN report \cup {h} ELSE report
    /\ hit' = [hit EXCEPT ![h].status = to.status]
    /\ UNCHANGED <<lists, excused, granted, frozen>>

(* A second try finds the alert of the first (raise_alert is idempotent), but *)
(* triage refuses it once it is no longer RAISED.                             *)
Confirm(h) ==
    LET r == ConfirmReaches(h) IN ConfirmTo(h, r[Len(r)]) /\ UNCHANGED faults
ConfirmFails(h) ==
    /\ Fault
    /\ LET r == ConfirmReaches(h) IN \E k \in 1..(Len(r) - 1) : ConfirmTo(h, r[k])

Clearable(h) == hit[h].status = "UNDER_REVIEW" /\ h \in granted

Clear(h, whitelist) ==
    /\ Clearable(h)
    /\ IF hit[h].known THEN UnfreezeSubject ELSE UNCHANGED frozen
    /\ hit' = [hit EXCEPT ![h].status = "CLEARED_FALSE_POSITIVE"]
    /\ excused' = IF whitelist /\ hit[h].known THEN excused \cup {hit[h].entry} ELSE excused
    /\ UNCHANGED <<lists, granted, alert, report, faults>>

ClearFails(h) ==
    /\ Clearable(h) /\ hit[h].known /\ Fault /\ UnfreezeSubject
    /\ UNCHANGED <<lists, hit, excused, granted, alert, report>>

---------------------------------------------------------------------------
(* alerts *)

(* TransactionMonitor raises its alert once per rule, subject and window.     *)
RaiseAlert ==
    /\ alert[0].status = "none" /\ MoreAlerts
    /\ alert' = [alert EXCEPT ![0].status = "RAISED"]
    /\ UNCHANGED <<lists, hit, excused, granted, frozen, report, faults>>

Triage(a) ==
    /\ alert[a].status = "RAISED"
    /\ alert' = [alert EXCEPT ![a].status = "TRIAGING"]
    /\ UNCHANGED <<lists, hit, excused, granted, frozen, report, faults>>

(* The alert of a hit carries a payment only when a payment was screened.     *)
Contributes(a) == a # 0 => hit[a].paid

OpenCase(a, freeze) ==
    /\ alert[a].status = "TRIAGING" /\ Contributes(a)
    /\ IF freeze THEN FreezeSubject ELSE UNCHANGED frozen
    /\ alert' = [alert EXCEPT ![a].status = "IN_CASE", ![a].froze = @ \/ freeze]
    /\ UNCHANGED <<lists, hit, excused, granted, report, faults>>

OpenCaseFails(a) ==
    /\ alert[a].status = "TRIAGING" /\ Contributes(a) /\ Fault /\ FreezeSubject
    /\ UNCHANGED <<lists, hit, excused, granted, alert, report>>

MarkStrFiled(a) ==
    /\ alert[a].status = "IN_CASE"
    /\ alert' = [alert EXCEPT ![a].status = "STR_FILED"]
    /\ UNCHANGED <<lists, hit, excused, granted, frozen, report, faults>>

FinalizeCloseAlways(a) ==
    /\ UnfreezeSubject
    /\ alert' = [alert EXCEPT ![a].status = "CLOSED", ![a].froze = FALSE]

FinalizeClose(a) ==
    /\ IF alert[a].froze THEN UnfreezeSubject ELSE UNCHANGED frozen
    /\ alert' = [alert EXCEPT ![a].status = "CLOSED", ![a].froze = FALSE]

(* From TRIAGING close ends the alert, from IN_CASE it asks for an approval.  *)
Close(a) ==
    /\ \/ alert[a].status = "TRIAGING" /\ FinalizeClose(a)
       \/ /\ alert[a].status = "IN_CASE" /\ alert[a].request = "none"
          /\ alert' = [alert EXCEPT ![a].request = "REQUESTED"] /\ UNCHANGED frozen
    /\ UNCHANGED <<lists, hit, excused, granted, report, faults>>

GrantClose(a) ==
    /\ alert[a].request = "REQUESTED"
    /\ alert' = [alert EXCEPT ![a].request = "APPROVED"]
    /\ UNCHANGED <<lists, hit, excused, granted, frozen, report, faults>>

MayComplete(a) == alert[a].status = "IN_CASE" /\ alert[a].request = "APPROVED"

CompleteInCaseClose(a) ==
    /\ MayComplete(a) /\ FinalizeClose(a)
    /\ UNCHANGED <<lists, hit, excused, granted, report, faults>>

CloseFails(a) ==
    /\ MayComplete(a) /\ alert[a].froze /\ Fault /\ UnfreezeSubject
    /\ UNCHANGED <<lists, hit, excused, granted, alert, report>>

---------------------------------------------------------------------------
SInit ==
    /\ memory = [seen |-> {}, active |-> 0]
    /\ version = [a \in Artifacts |-> IF a = 1 THEN "ACTIVE" ELSE "none"] /\ whole = {1}
    /\ hit = [h \in Hits |-> NoHit] /\ excused = {} /\ granted = {}
    /\ frozen = FALSE /\ alert = [a \in {0} \cup Hits |-> NoAlert] /\ report = {}
    /\ faults = 0

SNext ==
    \/ \E a \in Artifacts : Poll(a) \/ PollFails(a) \/ PollCrashes(a)
    \/ Screen \/ ScreenPayment \/ ScreenEntity \/ RescreenOpenHits \/ ScreenFails
    \/ \E h \in Hits : \/ StartReview(h) \/ GrantClear(h) \/ Confirm(h) \/ ConfirmFails(h)
                       \/ ClearFails(h) \/ \E w \in BOOLEAN : Clear(h, w)
    \/ RaiseAlert
    \/ \E a \in {0} \cup Hits :
          \/ Triage(a) \/ (\E f \in BOOLEAN : OpenCase(a, f)) \/ OpenCaseFails(a)
          \/ MarkStrFiled(a) \/ Close(a) \/ GrantClose(a) \/ CompleteInCaseClose(a)
          \/ CloseFails(a)

SSpec == SInit /\ [][SNext]_screening

---------------------------------------------------------------------------
(* Across errors, crashes and rescreens: at most one version of the list is   *)
(* ACTIVE; a CONFIRMED hit has its alert and its report; a hit is cleared     *)
(* only with its own approval; and a subject once hit is not unfrozen until   *)
(* an approval, to clear a hit or to close a case, has been granted.          *)
HitsAreHandled ==
    /\ Cardinality(ActiveVersions) <= 1
    /\ \A h \in Hits :
          /\ hit[h].status = "CONFIRMED" => alert[h].status # "none" /\ h \in report
          /\ hit[h].status = "CLEARED_FALSE_POSITIVE" => h \in granted
          /\ hit[h].known => \/ frozen \/ granted # {}
                             \/ \E a \in DOMAIN alert : alert[a].request = "APPROVED"
=============================================================================
