---------------------------- MODULE Participants ----------------------------
(***************************************************************************)
(* A participant of the switch is onboarded: ParticipantOnboardingService  *)
(* over PostgresParticipantStore, in PSO mode.  Documents are registered   *)
(* and verified by another operator, an MOU is recorded, conformance runs  *)
(* are executed in both directions, and a second operator approves the     *)
(* activation.  The routes pass no connection, so every store call commits *)
(* by itself and a crash (torn) keeps the first write of a method.  A run  *)
(* is executed across an await; of several executions of one run the first *)
(* to come back seals it and the others are refused.                       *)
(***************************************************************************)
EXTENDS Naturals, FiniteSets

CONSTANTS
    Papers,      \* documents: the id is made of the class and the content
    Class,       \* the class of each
    License,     \* the class that carries the licence
    Persons,     \* operators
    Versions,    \* MOU template versions
    Runs,        \* conformance runs, numbered in the order of creation
    RetryLimit,  \* conformance_retry_limit
    Petitions,   \* approval requests
    MaxTears     \* bound on crashes

ASSUME RunsAreNumbered == IsFiniteSet(Runs) /\ Runs = 1 .. Cardinality(Runs)

VARIABLES
    member,    \* participants: [status, licensed, activated]
    docs,      \* participant_documents: [status, by, checker]
    mous,      \* template versions with a participant_mous row
    trial,     \* conformance_runs: [dir, status, started]
    grant,     \* approval requests: [state, by, approver]
    cap,       \* a positive net debit cap is in force
    accounts,  \* the position account exists
    tears

party == <<member, docs, mous, trial, grant, cap, accounts, tears>>

Classes == {Class[x] : x \in Papers}
Directions == {"OUTBOUND", "INBOUND"}
NoDoc == [status |-> "none", by |-> "none", checker |-> "none"]
NoTrial == [dir |-> "none", status |-> "none", started |-> FALSE]
NoGrant == [state |-> "none", by |-> "none", approver |-> "none"]

(* PARTICIPANT_V2_TABLE without the legacy states and the rows no method     *)
(* takes; REJECTED is reached by hand from every state that is not final.    *)
ParticipantV2Table ==
    {<<"APPLICATION_SUBMITTED", "application_accepted", "DOCUMENT_VERIFICATION_PENDING">>,
     <<"DOCUMENT_VERIFICATION_PENDING", "document_verified", "DOCUMENT_VERIFICATION_PENDING">>,
     <<"DOCUMENT_VERIFICATION_PENDING", "document_rejected", "DOCUMENT_VERIFICATION_PENDING">>,
     <<"DOCUMENT_VERIFICATION_PENDING", "mou_recorded", "MOU_SIGNED">>,
     <<"DOCUMENT_VERIFICATION_PENDING", "license_invalid", "REJECTED">>,
     <<"MOU_SIGNED", "conformance_started", "CONFORMANCE_TESTING">>,
     <<"CONFORMANCE_TESTING", "conformance_passed", "CONFORMANCE_PASSED">>,
     <<"CONFORMANCE_TESTING", "conformance_failed", "MOU_SIGNED">>,
     <<"CONFORMANCE_TESTING", "conformance_exhausted", "REJECTED">>,
     <<"CONFORMANCE_PASSED", "activation_requested", "NDC_ASSIGNMENT_PENDING">>,
     <<"NDC_ASSIGNMENT_PENDING", "ndc_assigned", "ACTIVE">>,
     <<"ACTIVE", "suspended", "SUSPENDED">>, <<"SUSPENDED", "reinstated", "ACTIVE">>,
     <<"ACTIVE", "terminated", "TERMINATED">>}
    \cup {<<s, "rejected", "REJECTED">> :
             s \in {"APPLICATION_SUBMITTED", "DOCUMENT_VERIFICATION_PENDING", "MOU_SIGNED", "CONFORMANCE_TESTING",
                    "CONFORMANCE_PASSED", "NDC_ASSIGNMENT_PENDING", "ACTIVE", "SUSPENDED"}}

PartyRule(trigger) == {t \in ParticipantV2Table : t[1] = member.status /\ t[2] = trigger}

PInit ==
    /\ member = [status |-> "none", licensed |-> FALSE, activated |-> FALSE]
    /\ docs = [x \in Papers |-> NoDoc] /\ mous = {}
    /\ trial = [r \in Runs |-> NoTrial] /\ grant = [a \in Petitions |-> NoGrant]
    /\ cap = FALSE /\ accounts = FALSE /\ tears = 0

Tear(torn) == IF torn THEN tears < MaxTears /\ tears' = tears + 1 ELSE UNCHANGED tears

(* _advance.                                                                 *)
AdvanceParty(trigger) ==
    PartyRule(trigger) # {} /\ member' = [member EXCEPT !.status = (CHOOSE t \in PartyRule(trigger) : TRUE)[3]]

SubmitParty ==
    /\ member.status = "none" /\ member' = [member EXCEPT !.status = "APPLICATION_SUBMITTED"]
    /\ UNCHANGED <<docs, mous, trial, grant, cap, accounts, tears>>

Step(trigger) == AdvanceParty(trigger) /\ UNCHANGED <<docs, mous, trial, grant, cap, accounts, tears>>
AcceptApplication == Step("application_accepted")
SuspendParty == Step("suspended")
Reinstate == Step("reinstated")
TerminateParty == Step("terminated")
RejectParty == Step("rejected")

(* ---- documents ------------------------------------------------------------------ *)

Live(c) == {x \in Papers : Class[x] = c /\ docs[x].status \in {"PENDING", "VERIFIED"}}

Retired(status) == [NoDoc EXCEPT !.status = status]

(* register_document: what was live is superseded, then the row is inserted, *)
(* which its primary key refuses when the content was registered before.     *)
RegisterDocument(x, who, torn) ==
    /\ member.status = "DOCUMENT_VERIFICATION_PENDING" /\ x \notin Live(Class[x])
    /\ docs' = [y \in Papers |->
                  IF y \in Live(Class[x]) THEN Retired("SUPERSEDED")
                  ELSE IF y = x /\ docs[y] = NoDoc /\ ~torn THEN [status |-> "PENDING", by |-> who, checker |-> "none"]
                  ELSE docs[y]]
    /\ Tear(torn) /\ UNCHANGED <<member, mous, trial, grant, cap, accounts>>

(* _write_license_verification: the licence on the participant's row.        *)
WriteLicenseVerification(x, torn) ==
    member' = [member EXCEPT !.licensed = @ \/ (Class[x] = License /\ ~torn)]

(* verify_document: an expired licence rejects the participant; a valid one  *)
(* is copied to the row after the document is marked.                        *)
VerifyDocument(x, who, expired, torn) ==
    /\ docs[x].status = "PENDING" /\ docs[x].by # who
    /\ IF Class[x] = License /\ expired
       THEN AdvanceParty("license_invalid") /\ ~torn /\ UNCHANGED docs
       ELSE /\ PartyRule("document_verified") # {} /\ ~expired /\ (torn => Class[x] = License)
            /\ docs' = [docs EXCEPT ![x].status = "VERIFIED", ![x].checker = who]
            /\ WriteLicenseVerification(x, torn)
    /\ Tear(torn) /\ UNCHANGED <<mous, trial, grant, cap, accounts>>

RejectDocument(x) ==
    /\ docs[x].status = "PENDING" /\ PartyRule("document_rejected") # {}
    /\ docs' = [docs EXCEPT ![x] = Retired("REJECTED")]
    /\ UNCHANGED <<member, mous, trial, grant, cap, accounts, tears>>

VerifiedIfPending == {c \in Classes : Live(c) # {}}
VerifiedDocumentClasses == {Class[x] : x \in {y \in Papers : docs[y].status = "VERIFIED"}}

(* record_mou: the row, then the participant; a version has one row.         *)
RecordMou(v, torn) ==
    /\ PartyRule("mou_recorded") # {} /\ VerifiedDocumentClasses = Classes
    /\ v \notin mous /\ mous' = mous \cup {v}
    /\ IF torn THEN UNCHANGED member ELSE AdvanceParty("mou_recorded")
    /\ Tear(torn) /\ UNCHANGED <<docs, trial, grant, cap, accounts>>

(* ---- conformance ------------------------------------------------------------------ *)

QueueConformanceRun(r, d, torn) ==
    /\ member.status \in {"MOU_SIGNED", "CONFORMANCE_TESTING"}
    /\ trial[r].status = "none" /\ \A s \in Runs : s < r => trial[s].status # "none"
    /\ trial' = [trial EXCEPT ![r] = [NoTrial EXCEPT !.dir = d, !.status = "QUEUED"]]
    /\ IF member.status = "MOU_SIGNED" /\ ~torn THEN AdvanceParty("conformance_started") ELSE UNCHANGED member
    /\ Tear(torn) /\ UNCHANGED <<docs, mous, grant, cap, accounts>>

(* conformance_fsm_advance: refused unless the row is still at from.         *)
AdvanceConformanceRun(r, from, to) ==
    trial[r].status = from /\ trial' = [trial EXCEPT ![r].status = to, ![r].started = @ \/ to = "RUNNING"]

(* pickup_conformance_run: an inbound report is hashed again.                *)
PickupConformanceRun(r, intact) ==
    /\ trial[r].dir = "OUTBOUND" => intact
    /\ AdvanceConformanceRun(r, "QUEUED", IF intact THEN "RUNNING" ELSE "ERRORED")
    /\ UNCHANGED <<member, docs, mous, grant, cap, accounts, tears>>

(* execute_conformance_run, from the end of its await, with _seal_run.       *)
ExecuteConformanceRun(r, verdict) ==
    /\ AdvanceConformanceRun(r, "RUNNING", verdict)
    /\ UNCHANGED <<member, docs, mous, grant, cap, accounts, tears>>

Sealed(d) == {r \in Runs : trial[r].dir = d /\ trial[r].started /\ trial[r].status \in {"PASSED", "FAILED", "ERRORED"}}
LatestStatus(d) == IF Sealed(d) = {} THEN "none"
                   ELSE trial[CHOOSE r \in Sealed(d) : \A s \in Sealed(d) : s <= r].status
Failures == {r \in Runs : trial[r].started /\ trial[r].status \in {"FAILED", "ERRORED"}}

(* evaluate_conformance.                                                     *)
EvaluateConformance ==
    /\ member.status = "CONFORMANCE_TESTING"
    /\ IF \A d \in Directions : LatestStatus(d) = "PASSED" THEN AdvanceParty("conformance_passed")
       ELSE /\ \E d \in Directions : LatestStatus(d) \in {"FAILED", "ERRORED"}
            /\ AdvanceParty(IF Cardinality(Failures) < RetryLimit THEN "conformance_failed" ELSE "conformance_exhausted")
    /\ UNCHANGED <<docs, mous, trial, grant, cap, accounts, tears>>

(* ---- activation -------------------------------------------------------------------- *)

(* request_activation: the request, then the participant.                    *)
RequestParty(a, who, torn) ==
    /\ member.status = "CONFORMANCE_PASSED" /\ cap /\ grant[a] = NoGrant
    /\ grant' = [grant EXCEPT ![a] = [state |-> "PENDING", by |-> who, approver |-> "none"]]
    /\ IF torn THEN UNCHANGED member ELSE AdvanceParty("activation_requested")
    /\ Tear(torn) /\ UNCHANGED <<docs, mous, trial, cap, accounts>>

DecideParty(a, who, yes) ==
    /\ grant[a].state = "PENDING" /\ grant[a].by # who
    /\ grant' = [grant EXCEPT ![a].state = IF yes THEN "APPROVED" ELSE "REJECTED", ![a].approver = who]
    /\ UNCHANGED <<member, docs, mous, trial, cap, accounts, tears>>

(* complete_activation: the participant, then its account, which may exist.  *)
CompleteActivation(a, torn) ==
    /\ grant[a].state = "APPROVED" /\ cap /\ PartyRule("ndc_assigned") # {}
    /\ member' = [member EXCEPT !.status = "ACTIVE", !.activated = TRUE]
    /\ accounts' = (accounts \/ ~torn) /\ Tear(torn) /\ UNCHANGED <<docs, mous, trial, grant, cap>>

SetCap ==
    /\ cap' = ~cap /\ member.status \in {"CONFORMANCE_PASSED", "NDC_ASSIGNMENT_PENDING"}
    /\ UNCHANGED <<member, docs, mous, trial, grant, accounts, tears>>

PNext ==
    \/ SubmitParty \/ AcceptApplication \/ SuspendParty \/ Reinstate \/ TerminateParty \/ RejectParty
    \/ EvaluateConformance \/ SetCap
    \/ \E x \in Papers : RejectDocument(x)
    \/ \E r \in Runs : \/ \E intact \in BOOLEAN : PickupConformanceRun(r, intact)
                       \/ \E verdict \in {"PASSED", "FAILED", "ERRORED"} : ExecuteConformanceRun(r, verdict)
    \/ \E a \in Petitions, who \in Persons, yes \in BOOLEAN : DecideParty(a, who, yes)
    \/ \E torn \in BOOLEAN :
          \/ \E v \in Versions : RecordMou(v, torn)
          \/ \E r \in Runs, d \in Directions : QueueConformanceRun(r, d, torn)
          \/ \E a \in Petitions : CompleteActivation(a, torn) \/ \E who \in Persons : RequestParty(a, who, torn)
          \/ \E x \in Papers, who \in Persons :
                \/ RegisterDocument(x, who, torn)
                \/ \E expired \in BOOLEAN : VerifyDocument(x, who, expired, torn)

PSpec == PInit /\ [][PNext]_party
-----------------------------------------------------------------------------
(* Whatever crashes and overlapping executions do, a participant that got    *)
(* past a stage has what the stage asks for, and keeps it: every document    *)
(* class verified by another operator than uploaded it, with one live        *)
(* document each; after the tests a passed run in each direction; and once   *)
(* activated a request another operator approved.                            *)
StagesAreEarned ==
    LET past == member.status \notin {"none", "APPLICATION_SUBMITTED", "DOCUMENT_VERIFICATION_PENDING", "REJECTED"}
        tested == member.status \in {"CONFORMANCE_PASSED", "NDC_ASSIGNMENT_PENDING", "ACTIVE", "SUSPENDED", "TERMINATED"}
    IN  /\ past => \A c \in Classes : \E x \in Papers :
                      Class[x] = c /\ docs[x].status = "VERIFIED" /\ docs[x].by # docs[x].checker
        /\ \A c \in Classes : \A x, y \in Live(c) : x = y
        /\ tested => \A d \in Directions : \E r \in Runs : trial[r].dir = d /\ trial[r].status = "PASSED"
        /\ member.activated => \E a \in Petitions : grant[a].state = "APPROVED" /\ grant[a].by # grant[a].approver
=============================================================================
