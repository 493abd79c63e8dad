-------------------------- MODULE ComplianceProofs --------------------------
(***************************************************************************)
(* Who may take part, and what the regulator is told.                      *)
(* ActiveStaysVerified: a customer's record is ACTIVE on evidence, and     *)
(* alone.  FilingsStayKept: what a report says of its filing is what the   *)
(* portal has.  ActiveStaysEarned: a merchant that payments see as ACTIVE  *)
(* went through the whole procedure.                                       *)
(***************************************************************************)
EXTENDS Filings, Ekyc, Kyb, TLAPS

(* A step that names no prover is tried with each of these in turn.         *)
USE ZenonT(2), SMT, Zenon, SMTT(30)

(***************************************************************************)
(* Customers.                                                              *)
(***************************************************************************)

KycStates == {"none", "REFRESH_PENDING", "SUBMITTED", "NID_OCR_RECEIVED", "BIOMETRIC_PENDING",
              "BIOMETRIC_RETRY_PENDING", "BIOMETRIC_PASSED", "PENDING_HUMAN_REVIEW", "ACTIVE", "REJECTED",
              "REFRESH_OVERDUE", "EXPIRED_HARD", "ARCHIVED"}

(* Where a record can be while its biometric call is out: still waiting, or  *)
(* moved on because the answer of an older document overwrote its row.       *)
Overtaken == {"BIOMETRIC_PENDING", "PENDING_HUMAN_REVIEW", "ACTIVE", "REJECTED", "REFRESH_OVERDUE",
              "EXPIRED_HARD", "ARCHIVED"}

TierNames == Tiers \cup Wanted \cup {"none"}
Copies == [state : KycStates, prev : Records \cup {NoPredecessor}, wants : TierNames, tier : TierNames,
           nid : {"none", "adult", "minor"}]
Matched(attempts) == \E i \in DOMAIN attempts : attempts[i]

(* What the row of a record, the copies its two calls hold, its attempts and *)
(* the grounds for its tier say of one another.                              *)
RecordOK(row, o, b, attempts, why) ==
    /\ o # NoCopy => o.state = "SUBMITTED"
    /\ b # NoCopy => b.state = "BIOMETRIC_PENDING" /\ Len(attempts) < MaxAttempts /\ row.state \in Overtaken
    /\ row.state = "BIOMETRIC_PASSED" => Matched(attempts)
    /\ row.state = "ACTIVE" => why = "approved" \/ (why = "none" /\ Matched(attempts))
    /\ Len(attempts) <= MaxAttempts

KycTypes ==
    /\ kyc \in [Records -> Copies] /\ ocr \in [Records -> Copies] /\ bio \in [Records -> Copies]
    /\ tried \in [Records -> Seq(BOOLEAN)] /\ grounds \in [Records -> {"none", "flagged", "approved"}]

Consistent(r) == RecordOK(kyc[r], ocr[r], bio[r], tried[r], grounds[r])
OneActive == \A r, s \in Records : kyc[r].state = "ACTIVE" /\ kyc[s].state = "ACTIVE" => r = s

KycInv == KycTypes /\ (\A r \in Records : Consistent(r)) /\ OneActive

LEMMA NoCopyTyped == NoCopy \in Copies
  BY DEF NoCopy, Copies, KycStates, TierNames

(* In KYC_TABLE a trigger leads to one state.                                *)
LeadsTo(to) ==
    CASE to = "SUBMITTED" -> {"refresh_session_started"}
      [] to = "NID_OCR_RECEIVED" -> {"nid_ocr_received_adult"}
      [] to = "PENDING_HUMAN_REVIEW" -> {"nid_ocr_received_minor", "ocr_unavailable", "porichoy_unavailable",
                                         "sanctions_hit", "sanctions_retrospective_hit"}
      [] to = "REJECTED" -> {"session_timeout", "biometric_timeout", "porichoy_not_matched_exhausted",
                             "manual_review_reject"}
      [] to = "BIOMETRIC_PENDING" -> {"biometric_submitted"}
      [] to = "BIOMETRIC_PASSED" -> {"porichoy_matched"}
      [] to = "BIOMETRIC_RETRY_PENDING" -> {"porichoy_not_matched_retry"}
      [] to = "ACTIVE" -> {"tier_assigned", "manual_review_approve", "tier_upgrade_requested",
                           "refresh_triggered"}
      [] to = "REFRESH_OVERDUE" -> {"refresh_overdue"}
      [] to = "EXPIRED_HARD" -> {"refresh_hard_expired"}
      [] to = "ARCHIVED" -> {"new_kyc_cycle_completed"}
      [] OTHER -> {}

LEMMA KycLeads ==
    \A t \in KycTable : t[3] \in KycStates /\ t[2] \in LeadsTo(t[3])
  BY DEF KycTable, KycStates, LeadsTo

LEMMA LeadsOnce ==
    ASSUME NEW a \in KycStates, NEW b \in KycStates, NEW trigger, trigger \in LeadsTo(a), trigger \in LeadsTo(b)
    PROVE  a = b
  BY DEF KycStates, LeadsTo

LEMMA KycRows ==
    \A t \in KycTable : t[3] \in KycStates /\ \A u \in KycTable : t[1] = u[1] /\ t[2] = u[2] => t[3] = u[3]
  BY KycLeads, LeadsOnce, Zenon

(* _advance changes a copy's state and nothing else.                         *)
LEMMA CopyAdvances ==
    ASSUME NEW copy \in Copies, NEW trigger, NEW to, <<copy.state, trigger, to>> \in KycTable
    PROVE  /\ Advanced(copy, trigger) \in Copies /\ Advanced(copy, trigger).state = to
           /\ Advanced(copy, trigger).prev = copy.prev /\ Advanced(copy, trigger).wants = copy.wants
           /\ Advanced(copy, trigger).tier = copy.tier /\ Advanced(copy, trigger).nid = copy.nid
  <1> DEFINE row == <<copy.state, trigger, to>>
             t == CHOOSE u \in KycRule(copy.state, trigger) : TRUE
  <1>1. row \in KycRule(copy.state, trigger)
    BY DEF KycRule
  <1>2. t \in KycRule(copy.state, trigger)
    BY <1>1, Zenon
  <1>3. t \in KycTable /\ t[1] = copy.state /\ t[2] = trigger
    BY <1>2, Zenon DEF KycRule
  <1>4. row[1] = copy.state /\ row[2] = trigger /\ row[3] = to
    OBVIOUS
  <1> HIDE DEF row
  <1>5. t[3] = to /\ to \in KycStates
    BY <1>1, <1>3, <1>4, KycRows, Zenon DEF KycRule
  <1>6. Advanced(copy, trigger) = [copy EXCEPT !.state = to]
    BY <1>5, Zenon DEF Advanced
  <1> QED
    BY <1>5, <1>6 DEF Copies

LEMMA KycInitially == EInit => KycInv
  <1> SUFFICES ASSUME EInit PROVE KycInv
    OBVIOUS
  <1>1. KycTypes
    BY NoCopyTyped DEF EInit, KycTypes
  <1>2. ASSUME NEW r \in Records PROVE Consistent(r) /\ kyc[r].state = "none"
    BY AttemptsAssumption DEF EInit, Consistent, RecordOK, NoCopy
  <1> QED
    BY <1>1, <1>2 DEF KycInv, OneActive

(* A step keeps the invariant when every record stays consistent and no      *)
(* record becomes ACTIVE beside another.                                     *)
LEMMA KycMoves ==
    ASSUME KycInv, KycTypes', \A s \in Records : Consistent(s)',
           \A s \in Records : kyc'[s].state = "ACTIVE" =>
              \/ kyc[s].state = "ACTIVE"
              \/ \A q \in Records \ {s} : kyc'[q].state # "ACTIVE"
    PROVE  KycInv'
  <1>1. OneActive'
    BY Zenon DEF KycInv, OneActive
  <1> QED
    BY <1>1, Zenon DEF KycInv

(* A step of one record that does not make it ACTIVE.                        *)
OthersKeep(s) ==
    kyc'[s] = kyc[s] /\ ocr'[s] = ocr[s] /\ bio'[s] = bio[s] /\ tried'[s] = tried[s] /\ grounds'[s] = grounds[s]

LEMMA RecordMoves ==
    ASSUME KycInv, KycTypes', NEW r \in Records, \A s \in Records \ {r} : OthersKeep(s), Consistent(r)',
           kyc'[r].state = "ACTIVE" => kyc[r].state = "ACTIVE"
    PROVE  KycInv'
  <1>1. \A s \in Records : Consistent(s)'
    BY Zenon DEF KycInv, Consistent, OthersKeep
  <1>2. \A s \in Records : kyc'[s].state = "ACTIVE" => kyc[s].state = "ACTIVE"
    BY Zenon DEF OthersKeep
  <1> QED
    BY <1>1, <1>2, KycMoves, Zenon

(* A step that changes a record's row, and may take the answer about its     *)
(* document.                                                                 *)
OcrTaken(r) == UNCHANGED ocr \/ ocr' = [ocr EXCEPT ![r] = NoCopy]

LEMMA RecordRowMoves ==
    ASSUME KycInv, NEW r \in Records, NEW row \in Copies, kyc' = [kyc EXCEPT ![r] = row],
           OcrTaken(r), UNCHANGED <<bio, tried, grounds>>,
           RecordOK(row, ocr[r], bio[r], tried[r], grounds[r]), row.state = "ACTIVE" => kyc[r].state = "ACTIVE"
    PROVE  KycInv'
  <1>0. KycTypes
    BY Zenon DEF KycInv
  <1>1. kyc' \in [Records -> Copies] /\ kyc'[r] = row /\ \A s \in Records \ {r} : kyc'[s] = kyc[s]
    BY <1>0 DEF KycTypes
  <1>2. /\ ocr' \in [Records -> Copies] /\ (ocr'[r] = ocr[r] \/ ocr'[r] = NoCopy)
        /\ \A s \in Records \ {r} : ocr'[s] = ocr[s]
    BY <1>0, NoCopyTyped DEF KycTypes, OcrTaken
  <1>3. KycTypes'
    BY <1>0, <1>1, <1>2, Zenon DEF KycTypes
  <1>4. \A s \in Records \ {r} : OthersKeep(s)
    BY <1>1, <1>2, Zenon DEF OthersKeep
  <1>5. Consistent(r)'
    BY <1>1, <1>2, Zenon DEF Consistent, RecordOK
  <1> QED
    BY <1>1, <1>3, <1>4, <1>5, RecordMoves, Zenon

LEMMA KycStutters ==
    ASSUME KycInv, UNCHANGED <<kyc, ocr, bio, tried, grounds>>
    PROVE  KycInv'
  BY Zenon DEF KycInv, KycTypes, Consistent, OneActive

(* ---- a session -------------------------------------------------------- *)

LEMMA RecordIsInserted ==
    ASSUME KycInv, NEW r \in Records, NEW state \in {"SUBMITTED", "REFRESH_PENDING"}, NEW wants \in TierNames,
           NEW prev \in Records \cup {NoPredecessor}, InsertRecord(r, state, wants, prev)
    PROVE  KycInv'
  <1> DEFINE row == [NoCopy EXCEPT !.state = state, !.prev = prev, !.wants = wants]
  <1>1. row \in Copies /\ row.state = state
    BY DEF NoCopy, Copies, KycStates, TierNames
  <1>2. kyc[r].state = "none" /\ kyc' = [kyc EXCEPT ![r] = row] /\ UNCHANGED <<ocr, bio, tried, grounds>>
    BY Zenon DEF InsertRecord
  <1> OcrTaken(r)
    BY <1>2, Zenon DEF OcrTaken
  <1> HIDE DEF row
  <1>3. RecordOK(kyc[r], ocr[r], bio[r], tried[r], grounds[r])
    BY Zenon DEF KycInv, Consistent
  <1>4. RecordOK(row, ocr[r], bio[r], tried[r], grounds[r]) /\ row.state # "ACTIVE"
    BY <1>1, <1>2, <1>3 DEF RecordOK, Overtaken
  <1> QED
    BY <1>1, <1>2, <1>4, RecordRowMoves, Zenon

(* A row that a trigger takes to a state nobody has to account for.          *)
LEMMA RowAdvances ==
    ASSUME KycInv, NEW r \in Records, NEW copy \in Copies, NEW trigger, NEW to,
           <<copy.state, trigger, to>> \in KycTable, to \notin {"ACTIVE", "BIOMETRIC_PASSED"},
           bio[r] # NoCopy => to \in Overtaken,
           kyc' = [kyc EXCEPT ![r] = Advanced(copy, trigger)], OcrTaken(r), UNCHANGED <<bio, tried, grounds>>
    PROVE  KycInv'
  <1> DEFINE row == Advanced(copy, trigger)
  <1>1. row \in Copies /\ row.state = to
    BY CopyAdvances, Zenon
  <1> HIDE DEF row
  <1>2. kyc' = [kyc EXCEPT ![r] = row]
    BY Zenon DEF row
  <1>3. RecordOK(kyc[r], ocr[r], bio[r], tried[r], grounds[r])
    BY Zenon DEF KycInv, Consistent
  <1>4. RecordOK(row, ocr[r], bio[r], tried[r], grounds[r]) /\ row.state # "ACTIVE"
    BY <1>1, <1>3 DEF RecordOK
  <1> QED
    BY <1>1, <1>2, <1>4, RecordRowMoves, Zenon

LEMMA NidIsRead ==
    ASSUME KycInv, NEW r \in Records, NEW young \in BOOLEAN, NEW torn \in BOOLEAN,
           SubmitNidOcr(r, young, torn), OcrTaken(r), UNCHANGED <<bio, tried, grounds>>
    PROVE  KycInv'
  <1> DEFINE read == [kyc[r] EXCEPT !.nid = IF young THEN "minor" ELSE "adult"]
             trigger == IF young THEN "nid_ocr_received_minor" ELSE "nid_ocr_received_adult"
             to == IF young THEN "PENDING_HUMAN_REVIEW" ELSE "NID_OCR_RECEIVED"
  <1>1. kyc[r].state = "SUBMITTED" /\ kyc' = [kyc EXCEPT ![r] = Advanced(read, trigger)]
    BY Zenon DEF SubmitNidOcr
  <1>2. kyc[r] \in Copies
    BY DEF KycInv, KycTypes
  <1>3. read \in Copies /\ read.state = "SUBMITTED"
    BY <1>1, <1>2 DEF Copies
  <1>4. bio[r] = NoCopy
    BY <1>1 DEF KycInv, Consistent, RecordOK, Overtaken
  <1>5. <<"SUBMITTED", trigger, to>> \in KycTable /\ to \notin {"ACTIVE", "BIOMETRIC_PASSED"}
    BY DEF KycTable
  <1> HIDE DEF read, trigger, to
  <1>6. <<read.state, trigger, to>> \in KycTable
    BY <1>3, <1>5, Zenon
  <1> QED
    BY <1>1, <1>3, <1>4, <1>5, <1>6, RowAdvances, Zenon

LEMMA NidIsSubmitted ==
    ASSUME KycInv, NEW r \in Records, NEW young \in BOOLEAN, NEW torn \in BOOLEAN,
           SubmitNid(r, young, torn) \/ OcrAnswers(r, young, torn)
    PROVE  KycInv'
  <1>1. UNCHANGED <<bio, tried, grounds>> /\ OcrTaken(r)
    BY Zenon DEF SubmitNid, OcrAnswers, OcrTaken
  <1>2. CASE SubmitNidOcr(r, young, torn)
    BY <1>1, <1>2, NidIsRead, Zenon
  <1>3. CASE UNCHANGED kyc
    <2>1. kyc' = [kyc EXCEPT ![r] = kyc[r]] /\ kyc[r] \in Copies
      BY <1>3 DEF KycInv, KycTypes
    <2>2. RecordOK(kyc[r], ocr[r], bio[r], tried[r], grounds[r])
      BY Zenon DEF KycInv, Consistent
    <2> QED
      BY <1>1, <2>1, <2>2, RecordRowMoves, Zenon
  <1> QED
    BY <1>2, <1>3, Zenon DEF SubmitNid, OcrAnswers

(* The provider keeps a copy of a row that is SUBMITTED, and its failure     *)
(* writes that copy back, whatever the row has become.                       *)
LEMMA DocumentIsSent ==
    ASSUME KycInv, NEW r \in Records, SubmitNidOcrDocument(r)
    PROVE  KycInv'
  <1>1. kyc[r].state = "SUBMITTED" /\ ocr' = [ocr EXCEPT ![r] = kyc[r]] /\ UNCHANGED <<kyc, bio, tried, grounds>>
    BY Zenon DEF SubmitNidOcrDocument
  <1>2. KycTypes' /\ ocr'[r] = kyc[r] /\ \A s \in Records \ {r} : ocr'[s] = ocr[s]
    BY <1>1 DEF KycInv, KycTypes
  <1>3. \A s \in Records \ {r} : OthersKeep(s)
    BY <1>1, <1>2, Zenon DEF OthersKeep
  <1>4. Consistent(r)'
    BY <1>1, <1>2, Zenon DEF KycInv, Consistent, RecordOK
  <1> QED
    BY <1>1, <1>2, <1>3, <1>4, RecordMoves, Zenon

LEMMA DocumentFails ==
    ASSUME KycInv, NEW r \in Records, NEW torn \in BOOLEAN, OcrFails(r, torn)
    PROVE  KycInv'
  <1>1. /\ ocr[r] # NoCopy /\ OcrTaken(r) /\ UNCHANGED <<bio, tried, grounds>>
        /\ kyc' = [kyc EXCEPT ![r] = Advanced(ocr[r], "ocr_unavailable")]
    BY Zenon DEF OcrFails, OcrTaken
  <1>2. ocr[r] \in Copies /\ ocr[r].state = "SUBMITTED"
    BY <1>1 DEF KycInv, KycTypes, Consistent, RecordOK
  <1>3. <<"SUBMITTED", "ocr_unavailable", "PENDING_HUMAN_REVIEW">> \in KycTable
    BY DEF KycTable
  <1>4. <<ocr[r].state, "ocr_unavailable", "PENDING_HUMAN_REVIEW">> \in KycTable
    BY <1>2, <1>3, Zenon
  <1>5. "PENDING_HUMAN_REVIEW" \in Overtaken /\ "PENDING_HUMAN_REVIEW" \notin {"ACTIVE", "BIOMETRIC_PASSED"}
    BY DEF Overtaken
  <1> QED
    BY <1>1, <1>2, <1>4, <1>5, RowAdvances, Zenon

(* ---- the identity provider --------------------------------------------- *)

LEMMA BioMoves ==
    ASSUME KycInv, NEW r \in Records, NEW row \in Copies, NEW copy \in Copies, NEW attempts \in Seq(BOOLEAN),
           kyc' = [kyc EXCEPT ![r] = row], bio' = [bio EXCEPT ![r] = copy], tried' = [tried EXCEPT ![r] = attempts],
           UNCHANGED <<ocr, grounds>>, RecordOK(row, ocr[r], copy, attempts, grounds[r]), row.state # "ACTIVE"
    PROVE  KycInv'
  <1>1. /\ kyc' \in [Records -> Copies] /\ bio' \in [Records -> Copies] /\ tried' \in [Records -> Seq(BOOLEAN)]
        /\ kyc'[r] = row /\ bio'[r] = copy /\ tried'[r] = attempts
        /\ \A s \in Records \ {r} : kyc'[s] = kyc[s] /\ bio'[s] = bio[s] /\ tried'[s] = tried[s]
    BY DEF KycInv, KycTypes
  <1>2. KycTypes'
    BY <1>1, Zenon DEF KycInv, KycTypes
  <1>3. \A s \in Records \ {r} : OthersKeep(s)
    BY <1>1, Zenon DEF OthersKeep
  <1>4. Consistent(r)'
    BY <1>1, Zenon DEF Consistent
  <1> QED
    BY <1>1, <1>2, <1>3, <1>4, RecordMoves, Zenon

LEMMA SelfieIsSent ==
    ASSUME KycInv, NEW r \in Records, NEW available \in BOOLEAN, SubmitBiometric(r, available)
    PROVE  KycInv'
  <1> DEFINE row == Advanced(kyc[r], "biometric_submitted")
  <1>1. /\ kyc[r].state \in {"NID_OCR_RECEIVED", "BIOMETRIC_RETRY_PENDING"} /\ Len(tried[r]) < MaxAttempts
        /\ kyc' = [kyc EXCEPT ![r] = row] /\ bio' = [bio EXCEPT ![r] = kyc'[r]]
        /\ UNCHANGED <<ocr, tried, grounds>>
    BY Zenon DEF SubmitBiometric
  <1>2. kyc[r] \in Copies /\ tried[r] \in Seq(BOOLEAN)
    BY DEF KycInv, KycTypes
  <1>3. <<kyc[r].state, "biometric_submitted", "BIOMETRIC_PENDING">> \in KycTable
    BY <1>1 DEF KycTable
  <1>4. row \in Copies /\ row.state = "BIOMETRIC_PENDING"
    <2>1. kyc[r] \in Copies
      BY <1>2
    <2> QED
      BY <1>3, <2>1, CopyAdvances
  <1> HIDE DEF row
  <1>5. bio' = [bio EXCEPT ![r] = row] /\ tried' = [tried EXCEPT ![r] = tried[r]]
    BY <1>1 DEF KycInv, KycTypes
  <1>6. RecordOK(kyc[r], ocr[r], bio[r], tried[r], grounds[r])
    BY Zenon DEF KycInv, Consistent
  <1>7. RecordOK(row, ocr[r], row, tried[r], grounds[r]) /\ row.state # "ACTIVE"
    BY <1>1, <1>4, <1>6 DEF RecordOK, Overtaken
  <1>8. kyc' = [kyc EXCEPT ![r] = row] /\ UNCHANGED <<ocr, grounds>>
    BY <1>1, Zenon
  <1> QED
    BY <1>2, <1>4, <1>5, <1>7, <1>8, BioMoves, Zenon

(* An answer, or none: the attempt is recorded and the copy advances.        *)
LEMMA BioIsAnswered ==
    ASSUME KycInv, NEW r \in Records, NEW outcome \in BOOLEAN, NEW trigger, NEW to,
           <<"BIOMETRIC_PENDING", trigger, to>> \in KycTable, to # "ACTIVE",
           to = "BIOMETRIC_PASSED" => outcome,
           bio[r] # NoCopy, bio' = [bio EXCEPT ![r] = NoCopy], RecordAttempt(r, outcome),
           kyc' = [kyc EXCEPT ![r] = Advanced(bio[r], trigger)], UNCHANGED <<ocr, grounds>>
    PROVE  KycInv'
  <1> DEFINE row == Advanced(bio[r], trigger)
             attempts == Append(tried[r], outcome)
  <1>1. RecordOK(kyc[r], ocr[r], bio[r], tried[r], grounds[r])
    BY Zenon DEF KycInv, Consistent
  <1>2. bio[r] \in Copies /\ tried[r] \in Seq(BOOLEAN)
    BY DEF KycInv, KycTypes
  <1>3. bio[r].state = "BIOMETRIC_PENDING" /\ Len(tried[r]) < MaxAttempts
    BY <1>1, Zenon DEF RecordOK
  <1>4. row \in Copies /\ row.state = to
    BY <1>2, <1>3, CopyAdvances, Zenon
  <1>5. attempts \in Seq(BOOLEAN) /\ Len(attempts) <= MaxAttempts /\ (outcome => Matched(attempts))
    <2>1. attempts \in Seq(BOOLEAN) /\ Len(attempts) = Len(tried[r]) + 1
      BY <1>2
    <2>2. Len(attempts) \in DOMAIN attempts /\ attempts[Len(attempts)] = outcome
      BY <1>2, <2>1
    <2> HIDE DEF attempts
    <2>3. outcome => Matched(attempts)
      BY <2>2, Zenon DEF Matched
    <2>4. Len(tried[r]) \in Nat
      BY <1>2
    <2> QED
      BY <1>3, <2>1, <2>3, <2>4, AttemptsAssumption
  <1>6. tried' = [tried EXCEPT ![r] = attempts] /\ kyc' = [kyc EXCEPT ![r] = row]
    BY DEF RecordAttempt
  <1> HIDE DEF row, attempts
  <1>7. RecordOK(row, ocr[r], NoCopy, attempts, grounds[r]) /\ row.state # "ACTIVE"
    BY <1>1, <1>4, <1>5, Zenon DEF RecordOK
  <1> QED
    BY <1>4, <1>5, <1>6, <1>7, NoCopyTyped, BioMoves, Zenon

LEMMA SelfieIsAnswered ==
    ASSUME KycInv, NEW r \in Records, NEW matched \in BOOLEAN, PorichoyAnswers(r, matched)
    PROVE  KycInv'
  <1> DEFINE trigger == IF matched THEN "porichoy_matched"
                        ELSE IF LastAttempt(r) THEN "porichoy_not_matched_exhausted"
                        ELSE "porichoy_not_matched_retry"
             to == IF matched THEN "BIOMETRIC_PASSED"
                   ELSE IF LastAttempt(r) THEN "REJECTED" ELSE "BIOMETRIC_RETRY_PENDING"
  <1>1. /\ bio[r] # NoCopy /\ bio' = [bio EXCEPT ![r] = NoCopy] /\ RecordAttempt(r, matched)
        /\ kyc' = [kyc EXCEPT ![r] = Advanced(bio[r], trigger)] /\ UNCHANGED <<ocr, grounds>>
    BY Zenon DEF PorichoyAnswers
  <1>2. /\ <<"BIOMETRIC_PENDING", trigger, to>> \in KycTable /\ to # "ACTIVE"
        /\ to = "BIOMETRIC_PASSED" => matched
    BY DEF KycTable
  <1> HIDE DEF trigger, to
  <1> QED
    BY <1>1, <1>2, BioIsAnswered, Zenon

LEMMA SelfieFails ==
    ASSUME KycInv, NEW r \in Records, NEW torn \in BOOLEAN, PorichoyFails(r, torn)
    PROVE  KycInv'
  <1>1. /\ bio[r] # NoCopy /\ bio' = [bio EXCEPT ![r] = NoCopy] /\ RecordAttempt(r, FALSE)
        /\ kyc' = [kyc EXCEPT ![r] = Advanced(bio[r], "porichoy_unavailable")] /\ UNCHANGED <<ocr, grounds>>
    BY Zenon DEF PorichoyFails, NoAnswer
  <1>2. <<"BIOMETRIC_PENDING", "porichoy_unavailable", "PENDING_HUMAN_REVIEW">> \in KycTable
    BY DEF KycTable
  <1>3. "PENDING_HUMAN_REVIEW" # "ACTIVE" /\ "PENDING_HUMAN_REVIEW" # "BIOMETRIC_PASSED"
    OBVIOUS
  <1> QED
    BY <1>1, <1>2, <1>3, BioIsAnswered, Zenon

(* ---- tiers -------------------------------------------------------------- *)

(* _activate on a record whose state the trigger takes to ACTIVE: the record *)
(* becomes ACTIVE only when no other is, and has its grounds.                *)
LEMMA RecordIsActivated ==
    ASSUME KycInv, NEW r \in Records, NEW tier \in TierNames, NEW trigger, NEW torn \in BOOLEAN,
           <<kyc[r].state, trigger, "ACTIVE">> \in KycTable, kyc[r].state \in {"BIOMETRIC_PASSED", "PENDING_HUMAN_REVIEW"},
           Activate(r, tier, trigger, torn), NEW why \in {"none", "approved"},
           kyc[r].state = "PENDING_HUMAN_REVIEW" => why = "approved",
           grounds' = [grounds EXCEPT ![r] = why], UNCHANGED <<ocr, bio, tried>>
    PROVE  KycInv'
  <1> DEFINE p == kyc[r].prev
             dated == [kyc EXCEPT ![r].tier = tier]
             turned == IF Archivable(p) THEN [dated EXCEPT ![p] = Advanced(@, "new_kyc_cycle_completed")] ELSE dated
             taken == \E s \in Records \ {r} : turned[s].state = "ACTIVE"
             final == IF torn \/ taken THEN turned ELSE [turned EXCEPT ![r] = Advanced(@, trigger)]
  <1>1. kyc \in [Records -> Copies] /\ p \in Records \cup {NoPredecessor}
    BY DEF KycInv, KycTypes, Copies
  <1>2. /\ dated \in [Records -> Copies] /\ dated[r].state = kyc[r].state
        /\ \A s \in Records \ {r} : dated[s] = kyc[s]
    <2>1. kyc[r] \in Copies
      BY <1>1
    <2>2. [kyc[r] EXCEPT !.tier = tier] \in Copies /\ [kyc[r] EXCEPT !.tier = tier].state = kyc[r].state
      BY <2>1 DEF Copies
    <2>3. dated = [kyc EXCEPT ![r] = [kyc[r] EXCEPT !.tier = tier]]
      BY <1>1
    <2> HIDE DEF dated
    <2> QED
      BY <1>1, <2>2, <2>3
  <1>3. /\ turned \in [Records -> Copies] /\ turned[r].state = kyc[r].state
        /\ \A s \in Records \ {r} : turned[s] = kyc[s] \/ turned[s].state = "ARCHIVED"
    <2>1. CASE ~Archivable(p)
      BY <1>2, <2>1
    <2>2. CASE Archivable(p)
      <3>1. p \in Records /\ p # r /\ kyc[p].state \in {"ACTIVE", "REFRESH_OVERDUE", "EXPIRED_HARD"}
        BY <1>1, <2>2 DEF Archivable
      <3>2. dated[p] = kyc[p] /\ kyc[p] \in Copies
        BY <1>1, <1>2, <3>1
      <3>3. <<kyc[p].state, "new_kyc_cycle_completed", "ARCHIVED">> \in KycTable
        BY <3>1 DEF KycTable
      <3>4. Advanced(kyc[p], "new_kyc_cycle_completed") \in Copies /\ Advanced(kyc[p], "new_kyc_cycle_completed").state = "ARCHIVED"
        BY <3>2, <3>3, CopyAdvances
      <3>5. turned = [dated EXCEPT ![p] = Advanced(kyc[p], "new_kyc_cycle_completed")]
        BY <2>2, <3>2
      <3> HIDE DEF dated, turned, p
      <3> QED
        BY <1>2, <3>1, <3>4, <3>5
    <2> QED
      BY <2>1, <2>2
  <1>4. kyc' = final
    BY Zenon DEF Activate
  <1> HIDE DEF dated, turned
  <1>5. /\ kyc' \in [Records -> Copies]
        /\ \A s \in Records \ {r} : kyc'[s] = turned[s]
        /\ \/ kyc'[r].state = kyc[r].state
           \/ kyc'[r].state = "ACTIVE" /\ ~taken
    <2>1. CASE torn \/ taken
      BY <1>3, <1>4, <2>1
    <2>2. CASE ~(torn \/ taken)
      <3>1. turned[r] \in Copies /\ <<turned[r].state, trigger, "ACTIVE">> \in KycTable
        BY <1>3
      <3>2. Advanced(turned[r], trigger) \in Copies /\ Advanced(turned[r], trigger).state = "ACTIVE"
        BY <3>1, CopyAdvances
      <3>3. kyc' = [turned EXCEPT ![r] = Advanced(turned[r], trigger)] /\ ~taken
        BY <1>4, <2>2
      <3> HIDE DEF taken
      <3> QED
        BY <1>3, <3>2, <3>3
    <2> QED
      BY <2>1, <2>2
  <1>6. /\ grounds' \in [Records -> {"none", "flagged", "approved"}] /\ grounds'[r] = why
        /\ \A s \in Records \ {r} : grounds'[s] = grounds[s]
    BY DEF KycInv, KycTypes
  <1>7. KycTypes'
    BY <1>5, <1>6, Zenon DEF KycInv, KycTypes
  <1>8. ASSUME NEW s \in Records PROVE Consistent(s)'
    <2>1. RecordOK(kyc[s], ocr[s], bio[s], tried[s], grounds[s])
      BY Zenon DEF KycInv, Consistent
    <2>2. CASE s = r
      <3>1. kyc'[r].state = "ACTIVE" => why = "approved" \/ (why = "none" /\ Matched(tried[r]))
        BY <2>1, <2>2 DEF RecordOK
      <3>2. /\ kyc[r].state \in Overtaken => kyc'[r].state \in Overtaken
            /\ kyc'[r].state = "BIOMETRIC_PASSED" => kyc[r].state = "BIOMETRIC_PASSED"
        BY <1>5 DEF Overtaken
      <3> QED
        BY <1>6, <2>1, <2>2, <3>1, <3>2 DEF Consistent, RecordOK
    <2>3. CASE s # r
      <3>1. grounds'[s] = grounds[s] /\ (kyc'[s] = kyc[s] \/ kyc'[s].state = "ARCHIVED")
        BY <1>3, <1>5, <1>6, <2>3
      <3> QED
        BY <2>1, <3>1 DEF Consistent, RecordOK, Overtaken
    <2> QED
      BY <2>2, <2>3
  <1>9. ASSUME NEW s \in Records, kyc'[s].state = "ACTIVE", kyc[s].state # "ACTIVE"
        PROVE  \A q \in Records \ {s} : kyc'[q].state # "ACTIVE"
    <2>1. s = r
      BY <1>3, <1>5, <1>9
    <2>2. ~taken
      BY <1>5, <1>9, <2>1
    <2> QED
      BY <1>5, <2>1, <2>2
  <1> QED
    BY <1>7, <1>8, <1>9, KycMoves, Zenon

(* A row and its grounds change, and the row is not ACTIVE.                  *)
LEMMA GroundsMove ==
    ASSUME KycInv, NEW r \in Records, NEW row \in Copies, NEW why \in {"none", "flagged", "approved"},
           kyc' = [kyc EXCEPT ![r] = row], grounds' = [grounds EXCEPT ![r] = why], UNCHANGED <<ocr, bio, tried>>,
           row.state \in {"PENDING_HUMAN_REVIEW", "REJECTED"}
    PROVE  KycInv'
  <1>1. /\ kyc' \in [Records -> Copies] /\ grounds' \in [Records -> {"none", "flagged", "approved"}]
        /\ kyc'[r] = row /\ grounds'[r] = why
        /\ \A s \in Records \ {r} : kyc'[s] = kyc[s] /\ grounds'[s] = grounds[s]
    BY DEF KycInv, KycTypes
  <1>2. KycTypes'
    BY <1>1, Zenon DEF KycInv, KycTypes
  <1>3. \A s \in Records \ {r} : OthersKeep(s)
    BY <1>1, Zenon DEF OthersKeep
  <1>4. RecordOK(kyc[r], ocr[r], bio[r], tried[r], grounds[r])
    BY Zenon DEF KycInv, Consistent
  <1>5. Consistent(r)' /\ kyc'[r].state # "ACTIVE"
    BY <1>1, <1>4 DEF Consistent, RecordOK, Overtaken
  <1> QED
    BY <1>2, <1>3, <1>5, RecordMoves, Zenon

(* The same, by a trigger.                                                   *)
LEMMA GroundsAdvance ==
    ASSUME KycInv, NEW r \in Records, NEW trigger, NEW to \in {"PENDING_HUMAN_REVIEW", "REJECTED"},
           <<kyc[r].state, trigger, to>> \in KycTable, NEW why \in {"none", "flagged", "approved"},
           kyc' = [kyc EXCEPT ![r] = Advanced(@, trigger)], grounds' = [grounds EXCEPT ![r] = why],
           UNCHANGED <<ocr, bio, tried>>
    PROVE  KycInv'
  <1> DEFINE row == Advanced(kyc[r], trigger)
  <1>1. kyc[r] \in Copies
    BY DEF KycInv, KycTypes
  <1>2. row \in Copies /\ row.state = to
    BY <1>1, CopyAdvances
  <1>3. kyc' = [kyc EXCEPT ![r] = row]
    OBVIOUS
  <1> HIDE DEF row
  <1> QED
    BY <1>2, <1>3, GroundsMove, Zenon

LEMMA TierIsAssigned ==
    ASSUME KycInv, NEW r \in Records, NEW hit \in BOOLEAN, NEW torn \in BOOLEAN, AssignTier(r, hit, torn)
    PROVE  KycInv'
  <1>1. kyc[r].state = "BIOMETRIC_PASSED" /\ UNCHANGED <<ocr, bio, tried>>
    BY Zenon DEF AssignTier
  <1>2. CASE hit
    <2>1. /\ kyc' = [kyc EXCEPT ![r] = Advanced(@, "sanctions_hit")] /\ grounds' = [grounds EXCEPT ![r] = "flagged"]
      BY <1>2 DEF AssignTier
    <2>2. <<kyc[r].state, "sanctions_hit", "PENDING_HUMAN_REVIEW">> \in KycTable
      BY <1>1 DEF KycTable
    <2> QED
      BY <1>1, <2>1, <2>2, GroundsAdvance
  <1>3. CASE ~hit
    <2> DEFINE why == IF grounds[r] = "flagged" THEN "none" ELSE grounds[r]
    <2>1. Activate(r, kyc[r].wants, "tier_assigned", torn)
      BY <1>3, Zenon DEF AssignTier
    <2>2. grounds' = [grounds EXCEPT ![r] = why] /\ why \in {"none", "approved"}
      BY <1>3 DEF AssignTier, KycInv, KycTypes
    <2>3. <<kyc[r].state, "tier_assigned", "ACTIVE">> \in KycTable /\ kyc[r].state # "PENDING_HUMAN_REVIEW"
      BY <1>1 DEF KycTable
    <2>4. kyc[r].wants \in TierNames
      BY DEF KycInv, KycTypes, Copies
    <2> HIDE DEF why
    <2> QED
      BY <1>1, <2>1, <2>2, <2>3, <2>4, RecordIsActivated
  <1> QED
    BY <1>2, <1>3

LEMMA ReviewIsResolved ==
    ASSUME KycInv, NEW r \in Records, NEW decision \in Tiers \cup {"REJECT"}, NEW torn \in BOOLEAN,
           ResolveManualReview(r, decision, torn)
    PROVE  KycInv'
  <1>1. kyc[r].state = "PENDING_HUMAN_REVIEW" /\ UNCHANGED <<ocr, bio, tried>>
    BY Zenon DEF ResolveManualReview
  <1>2. CASE decision # "REJECT"
    <2>1. Activate(r, decision, "manual_review_approve", torn)
      BY <1>2, Zenon DEF ResolveManualReview
    <2>2. grounds' = [grounds EXCEPT ![r] = "approved"]
      BY <1>2 DEF ResolveManualReview
    <2>3. <<kyc[r].state, "manual_review_approve", "ACTIVE">> \in KycTable /\ decision \in TierNames
      BY <1>1, <1>2 DEF KycTable, TierNames
    <2> QED
      BY <1>1, <2>1, <2>2, <2>3, RecordIsActivated
  <1>3. CASE decision = "REJECT"
    <2>1. grounds' = [grounds EXCEPT ![r] = "none"]
      BY <1>3 DEF ResolveManualReview
    <2>2. CASE UNCHANGED kyc
      <3>1. kyc' = [kyc EXCEPT ![r] = kyc[r]] /\ kyc[r] \in Copies
        BY <2>2 DEF KycInv, KycTypes
      <3> QED
        BY <1>1, <2>1, <3>1, GroundsMove
    <2>3. CASE kyc' = [kyc EXCEPT ![r] = Advanced(@, "manual_review_reject")]
      <3>1. <<kyc[r].state, "manual_review_reject", "REJECTED">> \in KycTable
        BY <1>1 DEF KycTable
      <3> QED
        BY <1>1, <2>1, <2>3, <3>1, GroundsAdvance
    <2> QED
      BY <1>3, <2>2, <2>3, Zenon DEF ResolveManualReview
  <1> QED
    BY <1>2, <1>3

LEMMA HitIsRecorded ==
    ASSUME KycInv, NEW r \in Records, NEW torn \in BOOLEAN, RecordRetrospectiveHit(r, torn)
    PROVE  KycInv'
  <1>1. /\ kyc[r].state = "ACTIVE" /\ kyc' = [kyc EXCEPT ![r] = Advanced(@, "sanctions_retrospective_hit")]
        /\ grounds' = [grounds EXCEPT ![r] = "flagged"] /\ UNCHANGED <<ocr, bio, tried>>
    BY Zenon DEF RecordRetrospectiveHit
  <1>2. <<kyc[r].state, "sanctions_retrospective_hit", "PENDING_HUMAN_REVIEW">> \in KycTable
    BY <1>1 DEF KycTable
  <1> QED
    BY <1>1, <1>2, GroundsAdvance

(* ---- refresh and timeouts ----------------------------------------------- *)

LEMMA RefreshStarts ==
    ASSUME KycInv, NEW r \in Records, StartRefreshSession(r)
    PROVE  KycInv'
  <1>1. /\ KycRule(kyc[r].state, "refresh_session_started") # {} /\ UNCHANGED <<ocr, bio, tried, grounds>>
        /\ kyc' = [kyc EXCEPT ![r] = Advanced(kyc[r], "refresh_session_started")]
    BY DEF StartRefreshSession
  <1>2. kyc[r].state = "REFRESH_PENDING" /\ kyc[r] \in Copies
    BY <1>1 DEF KycRule, KycTable, KycInv, KycTypes
  <1>3. <<kyc[r].state, "refresh_session_started", "SUBMITTED">> \in KycTable
    BY <1>2 DEF KycTable
  <1>4. bio[r] = NoCopy /\ OcrTaken(r)
    BY <1>1, <1>2 DEF KycInv, Consistent, RecordOK, Overtaken, OcrTaken
  <1>5. "SUBMITTED" \notin {"ACTIVE", "BIOMETRIC_PASSED"}
    OBVIOUS
  <1> QED
    BY <1>1, <1>2, <1>3, <1>4, <1>5, RowAdvances, Zenon

(* What a timeout makes of a record.                                         *)
LEMMA RecordTimesOut ==
    ASSUME NEW copy \in Copies, Timeout(copy.state) # "none"
    PROVE  /\ Advanced(copy, Timeout(copy.state)) \in Copies
           /\ Advanced(copy, Timeout(copy.state)).state \in {"REJECTED", "REFRESH_OVERDUE", "EXPIRED_HARD"}
  <1> DEFINE trigger == Timeout(copy.state)
  <1>1. PICK to \in {"REJECTED", "REFRESH_OVERDUE", "EXPIRED_HARD"} : <<copy.state, trigger, to>> \in KycTable
    <2>1. CASE copy.state \in {"SUBMITTED", "NID_OCR_RECEIVED"}
      BY <2>1 DEF Timeout, KycTable
    <2>2. CASE copy.state = "BIOMETRIC_RETRY_PENDING"
      BY <2>2 DEF Timeout, KycTable
    <2>3. CASE copy.state = "ACTIVE"
      BY <2>3 DEF Timeout, KycTable
    <2>4. CASE copy.state = "REFRESH_OVERDUE"
      BY <2>4 DEF Timeout, KycTable
    <2> QED
      BY <2>1, <2>2, <2>3, <2>4 DEF Timeout
  <1> HIDE DEF trigger
  <1>2. Advanced(copy, trigger) \in Copies /\ Advanced(copy, trigger).state = to
    BY <1>1, CopyAdvances
  <1> QED
    BY <1>1, <1>2 DEF trigger

LEMMA RecordsAreSwept ==
    ASSUME KycInv, NEW due \in SUBSET Records, Sweep(due)
    PROVE  KycInv'
  <1> DEFINE new(r) == IF r \in due THEN Advanced(kyc[r], Timeout(kyc[r].state)) ELSE kyc[r]
  <1>1. UNCHANGED <<ocr, bio, tried, grounds>> /\ kyc' = [r \in Records |-> new(r)]
    BY Zenon DEF Sweep
  <1>2. ASSUME NEW r \in Records
        PROVE  /\ new(r) \in Copies
               /\ new(r) = kyc[r] \/ new(r).state \in {"REJECTED", "REFRESH_OVERDUE", "EXPIRED_HARD"}
    <2>1. kyc[r] \in Copies /\ (r \in due => Timeout(kyc[r].state) # "none")
      BY DEF KycInv, KycTypes, Sweep
    <2> QED
      BY <2>1, RecordTimesOut
  <1> HIDE DEF new
  <1>3. kyc' \in [Records -> Copies] /\ \A r \in Records : kyc'[r] = new(r)
    BY <1>1, <1>2
  <1>4. KycTypes'
    BY <1>1, <1>3, Zenon DEF KycInv, KycTypes
  <1>5. ASSUME NEW r \in Records PROVE Consistent(r)' /\ (kyc'[r].state = "ACTIVE" => kyc[r].state = "ACTIVE")
    <2>1. RecordOK(kyc[r], ocr[r], bio[r], tried[r], grounds[r])
      BY Zenon DEF KycInv, Consistent
    <2> QED
      BY <1>1, <1>2, <1>3, <2>1 DEF Consistent, RecordOK, Overtaken
  <1> QED
    BY <1>4, <1>5, KycMoves, Zenon

LEMMA KycDies ==
    ASSUME KycInv, Die
    PROVE  KycInv'
  <1>1. /\ UNCHANGED <<kyc, tried, grounds>> /\ ocr' = [r \in Records |-> NoCopy]
        /\ bio' = [r \in Records |-> NoCopy]
    BY Zenon DEF Die
  <1>2. KycTypes'
    BY <1>1, NoCopyTyped DEF KycInv, KycTypes
  <1>3. \A r \in Records : Consistent(r)'
    BY <1>1 DEF KycInv, Consistent, RecordOK
  <1> QED
    BY <1>1, <1>2, <1>3, KycMoves, Zenon

LEMMA KycStep ==
    ASSUME KycInv, [ENext]_ekyc
    PROVE  KycInv'
  <1>1. CASE Die
    BY <1>1, KycDies, Zenon
  <1>2. ASSUME NEW due \in SUBSET Records, Sweep(due) PROVE KycInv'
    BY <1>2, RecordsAreSwept, Zenon
  <1>3. ASSUME NEW r \in Records, SubmitNidOcrDocument(r) \/ StartRefreshSession(r) PROVE KycInv'
    BY <1>3, DocumentIsSent, RefreshStarts, Zenon
  <1>4. ASSUME NEW r \in Records, NEW wants \in Wanted, StartSession(r, wants) PROVE KycInv'
    <2>1. InsertRecord(r, "SUBMITTED", wants, NoPredecessor)
      BY <1>4, Zenon DEF StartSession
    <2> QED
      BY <2>1, RecordIsInserted DEF TierNames
  <1>5. ASSUME NEW r \in Records, NEW yes \in BOOLEAN, SubmitBiometric(r, yes) \/ PorichoyAnswers(r, yes)
        PROVE  KycInv'
    BY <1>5, SelfieIsSent, SelfieIsAnswered, Zenon
  <1>6. ASSUME NEW r \in Records, NEW s \in Records, RequestTierUpgrade(r, s) \/ TriggerRefresh(r, s)
        PROVE  KycInv'
    <2>1. CASE RequestTierUpgrade(r, s)
      <3>1. InsertRecord(s, "SUBMITTED", "REGULAR", r) /\ "REGULAR" \in TierNames
        BY <2>1, Zenon DEF RequestTierUpgrade, TierNames, Tiers
      <3> QED
        BY <3>1, RecordIsInserted
    <2>2. CASE TriggerRefresh(r, s)
      <3>1. InsertRecord(s, "REFRESH_PENDING", kyc[r].tier, r)
        BY <2>2, Zenon DEF TriggerRefresh
      <3>2. kyc[r].tier \in TierNames
        BY DEF KycInv, KycTypes, Copies
      <3> QED
        BY <3>1, <3>2, RecordIsInserted
    <2> QED
      BY <1>6, <2>1, <2>2, Zenon
  <1>7. ASSUME NEW r \in Records, NEW torn \in BOOLEAN,
               OcrFails(r, torn) \/ PorichoyFails(r, torn) \/ RecordRetrospectiveHit(r, torn)
        PROVE  KycInv'
    BY <1>7, DocumentFails, SelfieFails, HitIsRecorded, Zenon
  <1>8. ASSUME NEW r \in Records, NEW torn \in BOOLEAN, NEW yes \in BOOLEAN,
               SubmitNid(r, yes, torn) \/ OcrAnswers(r, yes, torn) \/ AssignTier(r, yes, torn)
        PROVE  KycInv'
    BY <1>8, NidIsSubmitted, TierIsAssigned, Zenon
  <1>9. ASSUME NEW r \in Records, NEW torn \in BOOLEAN, NEW decision \in Tiers \cup {"REJECT"},
               ResolveManualReview(r, decision, torn)
        PROVE  KycInv'
    BY <1>9, ReviewIsResolved, Zenon
  <1>10. CASE UNCHANGED ekyc
    <2>1. UNCHANGED <<kyc, ocr, bio, tried, grounds>>
      BY <1>10, Zenon DEF ekyc
    <2> QED
      BY <2>1, KycStutters, Zenon
  <1> QED
    BY <1>1, <1>2, <1>3, <1>4, <1>5, <1>6, <1>7, <1>8, <1>9, <1>10, Zenon DEF ENext

(* A customer's record is ACTIVE on a match or an approved review, after the *)
(* last screening was clear or decided, and alone: whatever calls of         *)
(* CustomerEkycService overlap, write back an old copy of the row or die,    *)
(* for every set of records, any number of attempts, crashes and documents,  *)
(* and any cap of the review queue.                                          *)
THEOREM ActiveStaysVerified == ESpec => []ActiveIsVerified
  <1>1. EInit => KycInv
    BY KycInitially
  <1>2. KycInv /\ [ENext]_ekyc => KycInv'
    BY KycStep
  <1>3. KycInv => ActiveIsVerified
    BY Zenon DEF KycInv, Consistent, RecordOK, OneActive, ActiveIsVerified, Matched
  <1> QED
    BY <1>1, <1>2, <1>3, PTL DEF ESpec

(***************************************************************************)
(* Filings.                                                                *)
(***************************************************************************)

FilingStates == {"none", "QUEUED", "SUBMITTING", "SUBMITTED", "ACK_PENDING", "ACKED",
                 "REJECTED_BY_PORTAL"}
FilingRows == [n : Nat, state : FilingStates, sub : BOOLEAN]
Reports == [status : {"PENDING_CAMLCO_REVIEW", "CAMLCO_APPROVED", "WITHDRAWN", "FILING_PENDING",
                      "FILING_SUBMITTED", "FILING_FAILED", "FILING_CONFIRMED"},
            ref : [kind : {"none", "sub", "filing"}, n : Nat], tries : Nat]

(* What a row says of what the portal has taken, `count' submissions after   *)
(* `f' faults: there is room for the attempt a queued row still has to make. *)
LodgedOK(row, count, f) ==
    /\ row.state = "none" <=> row.n = 0
    /\ Submitted(row) => count > 0
    /\ count <= row.n + f
    /\ Claimable(row) => count < row.n + f

(* What a report says of the latest row of its chain.                        *)
ReportOK(rep, row) ==
    /\ rep.status \in {"FILING_SUBMITTED", "FILING_CONFIRMED"} => row.n > 0 /\ rep.ref.n <= row.n
    /\ rep.status = "FILING_CONFIRMED" => row.state = "ACKED" /\ rep.ref = Reference(row)

FilingsInv ==
    /\ report \in Reports /\ filing \in [Refs -> FilingRows] /\ lodged \in [Refs -> Nat]
    /\ faults \in Nat /\ ctr.filed \in BOOLEAN /\ ctr = [total |-> ctr.total, filed |-> ctr.filed]
    /\ \A r \in Refs : LodgedOK(filing[r], lodged[r], faults)
    /\ ReportOK(report, filing["STR"])
    /\ ctr.filed => lodged["CTR"] > 0

(* What a step makes of a row and of its count: a row is submitted, put back *)
(* or rejected, or a new one takes its place; a final one stands.            *)
RowMoves(row, new, count, next, f, g) ==
    /\ new \in FilingRows /\ next \in Nat /\ next >= count /\ LodgedOK(new, next, g)
    /\ new.n >= row.n /\ (row.state = "ACKED" => new = row)

LEMMA FilingsInitially == LInit => FilingsInv
  BY DEF LInit, FilingsInv, CreateFromAlert, NoReference, NoFiling, Reports, FilingRows, FilingStates,
         Refs, LodgedOK, ReportOK, Submitted, Claimable

(* A row that is put into the queue.                                         *)
LEMMA EnqueuedRow ==
    ASSUME NEW row \in FilingRows, NEW count \in Nat, NEW f \in Nat, LodgedOK(row, count, f)
    PROVE  /\ Enqueued(row) \in FilingRows /\ LodgedOK(Enqueued(row), count, f)
           /\ Enqueued(row).n >= row.n /\ (row.state = "ACKED" => Enqueued(row) = row)
           /\ Enqueued(row).n > 0
  <1>1. CASE row.state \in {"none", "REJECTED_BY_PORTAL"}
    BY <1>1 DEF Enqueued, FilingRows, FilingStates, LodgedOK, Submitted, Claimable
  <1>2. CASE row.state \notin {"none", "REJECTED_BY_PORTAL"}
    BY <1>2 DEF Enqueued, FilingRows, FilingStates, LodgedOK, Submitted, Claimable
  <1> QED
    BY <1>1, <1>2

(* A row that is claimed, and taken by the portal or not; g - f faults.      *)
LEMMA ClaimedRow ==
    ASSUME NEW row \in FilingRows, NEW count \in Nat, NEW f \in Nat, LodgedOK(row, count, f),
           Claimable(row)
    PROVE  /\ RowMoves(row, Accepted(row), count, count + 1, f, f)
           /\ RowMoves(row, Requeued(row), count, count, f, f)
           /\ RowMoves(row, Requeued(row), count, count + 1, f, f + 1)
           /\ RowMoves(row, [row EXCEPT !.state = "SUBMITTING"], count, count, f, f + 1)
           /\ RowMoves(row, [row EXCEPT !.state = "SUBMITTING"], count, count + 1, f, f + 1)
           /\ RowMoves(row, [row EXCEPT !.state = "SUBMITTED", !.sub = TRUE], count, count + 1, f, f + 1)
  <1> DEFINE sent == [row EXCEPT !.state = "SUBMITTING"]
             took == [row EXCEPT !.state = "SUBMITTED", !.sub = TRUE]
  <1>1. /\ row.n \in Nat /\ row.n # 0 /\ count < row.n + f
        /\ row.state \in {"QUEUED", "SUBMITTING"}
    BY DEF FilingRows, LodgedOK, Claimable
  <1>2. /\ Accepted(row) \in FilingRows /\ Accepted(row).n = row.n
        /\ Accepted(row).state = "ACK_PENDING"
    BY DEF FilingRows, FilingStates, Accepted
  <1>3. Requeued(row) \in FilingRows /\ Requeued(row).n = row.n /\ Requeued(row).state = "QUEUED"
    BY DEF FilingRows, FilingStates, Requeued
  <1>4. sent \in FilingRows /\ sent.n = row.n /\ sent.state = "SUBMITTING"
    BY DEF FilingRows, FilingStates
  <1>5. took \in FilingRows /\ took.n = row.n /\ took.state = "SUBMITTED"
    BY DEF FilingRows, FilingStates
  <1> HIDE DEF sent, took
  <1>6. RowMoves(row, Accepted(row), count, count + 1, f, f)
    BY <1>1, <1>2 DEF RowMoves, LodgedOK, Submitted, Claimable
  <1>7. /\ RowMoves(row, Requeued(row), count, count, f, f)
        /\ RowMoves(row, Requeued(row), count, count + 1, f, f + 1)
    BY <1>1, <1>3 DEF RowMoves, LodgedOK, Submitted, Claimable
  <1>8. /\ RowMoves(row, sent, count, count, f, f + 1)
        /\ RowMoves(row, sent, count, count + 1, f, f + 1)
    BY <1>1, <1>4 DEF RowMoves, LodgedOK, Submitted, Claimable
  <1>9. RowMoves(row, took, count, count + 1, f, f + 1)
    BY <1>1, <1>5 DEF RowMoves, LodgedOK, Submitted, Claimable
  <1> QED
    BY <1>6, <1>7, <1>8, <1>9 DEF sent, took

(* A row that stays, after any number of faults.                             *)
LEMMA StandingRow ==
    ASSUME NEW row \in FilingRows, NEW count \in Nat, NEW f \in Nat, NEW g \in Nat, g >= f,
           LodgedOK(row, count, f)
    PROVE  RowMoves(row, row, count, count, f, g)
  BY DEF RowMoves, FilingRows, LodgedOK, Submitted, Claimable

(* What the rows may do in one step.                                         *)
RowsMove ==
    /\ filing' \in [Refs -> FilingRows] /\ lodged' \in [Refs -> Nat] /\ faults' \in Nat
    /\ \A r \in Refs : RowMoves(filing[r], filing'[r], lodged[r], lodged'[r], faults, faults')

(* Rows that move this way keep what their report says of them.              *)
LEMMA ReportStands ==
    ASSUME FilingsInv, RowsMove
    PROVE  /\ ReportOK(report, filing'["STR"])
           /\ ctr.filed => lodged'["CTR"] > 0
  <1>1. "STR" \in Refs /\ "CTR" \in Refs
    BY DEF Refs
  <1>2. ReportOK(report, filing'["STR"])
    BY <1>1 DEF RowsMove, RowMoves, ReportOK, FilingsInv, FilingRows, Reports
  <1>3. ctr.filed => lodged'["CTR"] > 0
    BY <1>1 DEF RowsMove, RowMoves, FilingsInv
  <1> QED
    BY <1>2, <1>3

(* The invariant after a step, from what the rows, the report and the cash   *)
(* day have become.                                                          *)
LEMMA FilingsHold ==
    ASSUME FilingsInv, RowsMove, report' \in Reports, ReportOK(report', filing'["STR"]),
           ctr'.filed \in BOOLEAN, ctr' = [total |-> ctr'.total, filed |-> ctr'.filed],
           ctr'.filed => lodged'["CTR"] > 0
    PROVE  FilingsInv'
  <1>1. \A r \in Refs : LodgedOK(filing'[r], lodged'[r], faults')
    BY DEF RowsMove, RowMoves
  <1> QED
    BY <1>1 DEF FilingsInv, RowsMove

(* Nothing is put into the queue or taken out of it.                         *)
LEMMA RowsStand ==
    ASSUME FilingsInv, UNCHANGED <<filing, lodged>>, faults' \in Nat, faults' >= faults
    PROVE  RowsMove
  <1>1. \A r \in Refs : RowMoves(filing[r], filing[r], lodged[r], lodged[r], faults, faults')
    BY StandingRow DEF FilingsInv
  <1> QED
    BY <1>1 DEF RowsMove, FilingsInv

(* The queue a pass of process_due starts from: as it is, or with a new row. *)
Offered(rs) ==
    /\ rs \in [Refs -> FilingRows]
    /\ \A r \in Refs : /\ LodgedOK(rs[r], lodged[r], faults) /\ rs[r].n >= filing[r].n
                       /\ filing[r].state = "ACKED" => rs[r] = filing[r]

LEMMA QueueOffered ==
    ASSUME FilingsInv
    PROVE  /\ Offered(filing)
           /\ \A r \in Refs : /\ Offered([filing EXCEPT ![r] = Enqueued(@)])
                              /\ [filing EXCEPT ![r] = Enqueued(@)][r].n > 0
  <1>1. \A r \in Refs : filing[r] \in FilingRows /\ LodgedOK(filing[r], lodged[r], faults)
                        /\ lodged[r] \in Nat /\ faults \in Nat /\ filing[r].n \in Nat
    BY DEF FilingsInv, FilingRows
  <1>2. Offered(filing)
    BY <1>1 DEF Offered, FilingsInv
  <1>3. ASSUME NEW r \in Refs
        PROVE  /\ Offered([filing EXCEPT ![r] = Enqueued(@)])
               /\ [filing EXCEPT ![r] = Enqueued(@)][r].n > 0
    <2> DEFINE new == Enqueued(filing[r])
    <2>1. /\ new \in FilingRows /\ LodgedOK(new, lodged[r], faults) /\ new.n >= filing[r].n
          /\ filing[r].state = "ACKED" => new = filing[r]
          /\ new.n > 0
      BY <1>1, EnqueuedRow
    <2> HIDE DEF new
    <2>2. filing \in [Refs -> FilingRows]
      BY DEF FilingsInv
    <2>3. Offered([filing EXCEPT ![r] = new]) /\ [filing EXCEPT ![r] = new][r].n > 0
      BY <1>1, <2>1, <2>2 DEF Offered
    <2> QED
      BY <2>3 DEF new
  <1> QED
    BY <1>2, <1>3

(* Rows that move from such a queue move from the stored one.                *)
LEMMA QueueMoves ==
    ASSUME FilingsInv, NEW rs, Offered(rs), faults' \in Nat,
           filing' = [r \in Refs |-> filing'[r]], lodged' = [r \in Refs |-> lodged'[r]],
           \A r \in Refs : RowMoves(rs[r], filing'[r], lodged[r], lodged'[r], faults, faults')
    PROVE  RowsMove /\ \A r \in Refs : filing'[r].n >= rs[r].n
  <1>1. ASSUME NEW r \in Refs
        PROVE  /\ RowMoves(filing[r], filing'[r], lodged[r], lodged'[r], faults, faults')
               /\ filing'[r] \in FilingRows /\ lodged'[r] \in Nat /\ filing'[r].n >= rs[r].n
    <2>1. filing[r].n \in Nat /\ rs[r].n \in Nat
      BY DEF FilingsInv, Offered, FilingRows
    <2>2. filing'[r] \in FilingRows /\ lodged'[r] \in Nat /\ filing'[r].n >= rs[r].n
      BY DEF RowMoves
    <2>3. filing'[r].n \in Nat
      BY <2>2 DEF FilingRows
    <2> QED
      BY <2>1, <2>2, <2>3 DEF RowMoves, Offered
  <1>2. filing' \in [Refs -> FilingRows] /\ lodged' \in [Refs -> Nat]
    BY <1>1, Zenon
  <1> QED
    BY <1>1, <1>2 DEF RowsMove

(* A pass of process_due over such a queue.                                  *)
LEMMA QueueRuns ==
    ASSUME FilingsInv, NEW rs, Offered(rs), NEW due, NEW taken, ProcessDue(rs, due, taken),
           Lodge(taken), UNCHANGED faults
    PROVE  RowsMove /\ \A r \in Refs : filing'[r].n >= rs[r].n
  <1>1. ASSUME NEW r \in Refs
        PROVE  /\ RowMoves(rs[r], filing'[r], lodged[r], lodged'[r], faults, faults)
               /\ filing'[r] \in FilingRows /\ lodged'[r] \in Nat
    <2>1. rs[r] \in FilingRows /\ lodged[r] \in Nat /\ faults \in Nat /\ LodgedOK(rs[r], lodged[r], faults)
      BY DEF Offered, FilingsInv
    <2>2. CASE r \in taken
      <3>1. Claimable(rs[r]) /\ filing'[r] = Accepted(rs[r]) /\ lodged'[r] = lodged[r] + 1
        BY <2>2 DEF ProcessDue, Lodge
      <3>2. RowMoves(rs[r], Accepted(rs[r]), lodged[r], lodged[r] + 1, faults, faults)
        BY <2>1, <3>1, ClaimedRow, Zenon
      <3> QED
        BY <3>1, <3>2 DEF RowMoves
    <2>3. CASE r \in due \ taken
      <3>1. Claimable(rs[r]) /\ filing'[r] = Requeued(rs[r]) /\ lodged'[r] = lodged[r]
        BY <2>3 DEF ProcessDue, Lodge
      <3>2. RowMoves(rs[r], Requeued(rs[r]), lodged[r], lodged[r], faults, faults)
        BY <2>1, <3>1, ClaimedRow, Zenon
      <3> QED
        BY <3>1, <3>2 DEF RowMoves
    <2>4. CASE r \notin due
      <3>1. filing'[r] = rs[r] /\ lodged'[r] = lodged[r]
        BY <2>4 DEF ProcessDue, Lodge
      <3> QED
        BY <2>1, <3>1, StandingRow DEF RowMoves
    <2> QED
      BY <2>2, <2>3, <2>4 DEF ProcessDue
  <1> QED
    BY <1>1, QueueMoves DEF ProcessDue, Lodge, FilingsInv

(* The process dies with r at the portal.                                    *)
LEMMA QueueDies ==
    ASSUME FilingsInv, NEW rs, Offered(rs), NEW q \in Refs, DiesSubmitting(rs, q)
    PROVE  RowsMove
  <1>1. Claimable(rs[q]) /\ faults' = faults + 1 /\ faults \in Nat /\ faults' \in Nat
    BY DEF DiesSubmitting, Fault, FilingsInv
  <1>2. \A r \in Refs : /\ rs[r] \in FilingRows /\ lodged[r] \in Nat
                        /\ LodgedOK(rs[r], lodged[r], faults)
    BY DEF Offered, FilingsInv
  <1>3. rs \in [Refs -> FilingRows] /\ lodged \in [Refs -> Nat]
    BY DEF Offered, FilingsInv
  <1>4. \A r \in Refs : RowMoves(rs[r], rs[r], lodged[r], lodged[r], faults, faults')
    BY <1>1, <1>2, StandingRow
  <1>5. /\ RowMoves(rs[q], [rs[q] EXCEPT !.state = "SUBMITTING"], lodged[q], lodged[q], faults, faults + 1)
        /\ RowMoves(rs[q], [rs[q] EXCEPT !.state = "SUBMITTING"], lodged[q], lodged[q] + 1, faults, faults + 1)
        /\ RowMoves(rs[q], [rs[q] EXCEPT !.state = "SUBMITTED", !.sub = TRUE], lodged[q], lodged[q] + 1,
                    faults, faults + 1)
    BY <1>1, <1>2, ClaimedRow, Zenon
  <1>6. PICK new, next :
          /\ \/ new = [rs[q] EXCEPT !.state = "SUBMITTING"] /\ next \in {lodged[q], lodged[q] + 1}
             \/ new = [rs[q] EXCEPT !.state = "SUBMITTED", !.sub = TRUE] /\ next = lodged[q] + 1
          /\ filing' = [rs EXCEPT ![q] = new] /\ lodged' = [lodged EXCEPT ![q] = next]
    <2>1. CASE /\ filing' = [rs EXCEPT ![q].state = "SUBMITTING"]
               /\ \E t \in {{}, {q}} : Lodge(t)
      <3>1. lodged' = [lodged EXCEPT ![q] = lodged[q]] \/ lodged' = [lodged EXCEPT ![q] = lodged[q] + 1]
        BY <1>3, <2>1 DEF Lodge
      <3> QED
        BY <1>3, <2>1, <3>1
    <2>2. CASE /\ filing' = [rs EXCEPT ![q].state = "SUBMITTED", ![q].sub = TRUE]
               /\ Lodge({q})
      <3>1. lodged' = [lodged EXCEPT ![q] = lodged[q] + 1]
        BY <1>3, <2>2 DEF Lodge
      <3>2. filing' = [rs EXCEPT ![q] = [rs[q] EXCEPT !.state = "SUBMITTED", !.sub = TRUE]]
        BY <1>3, <2>2
      <3> QED
        BY <3>1, <3>2
    <2> QED
      BY <2>1, <2>2 DEF DiesSubmitting
  <1>7. RowMoves(rs[q], new, lodged[q], next, faults, faults')
    BY <1>1, <1>5, <1>6
  <1>8. \A r \in Refs : RowMoves(rs[r], filing'[r], lodged[r], lodged'[r], faults, faults')
    BY <1>3, <1>4, <1>6, <1>7
  <1> QED
    BY <1>1, <1>3, <1>6, <1>8, QueueMoves

(* file for r: what the queue has done, and that the chain is named.         *)
LEMMA FileMoves ==
    ASSUME FilingsInv, NEW r \in Refs, File(r), UNCHANGED faults
    PROVE  RowsMove /\ filing'[r].n > 0
  <1>0. faults \in Nat /\ faults' = faults /\ filing[r].n \in Nat
    BY DEF FilingsInv, FilingRows
  <1>1. CASE Fresh(filing[r])
    <2> DEFINE rs == [filing EXCEPT ![r] = Enqueued(@)]
    <2>1. PICK due, taken \in SUBSET Refs : ProcessDue(rs, due, taken) /\ Lodge(taken)
      BY <1>1, Zenon DEF File
    <2>2. Offered(rs) /\ rs[r].n > 0
      BY QueueOffered
    <2> HIDE DEF rs
    <2>3. RowsMove /\ filing'[r].n >= rs[r].n
      BY <2>1, <2>2, QueueRuns
    <2>4. rs[r].n \in Nat /\ filing'[r].n \in Nat
      BY <2>2, <2>3 DEF Offered, RowsMove, FilingRows
    <2> QED
      BY <2>2, <2>3, <2>4
  <1>2. CASE ~Fresh(filing[r])
    <2>1. filing[r].n > 0 /\ UNCHANGED <<filing, lodged>>
      BY <1>2 DEF File
    <2> QED
      BY <1>0, <2>1, RowsStand
  <1> QED
    BY <1>1, <1>2

LEMMA FilingsStep == FilingsInv /\ [LNext]_filings => FilingsInv'
  <1> SUFFICES ASSUME FilingsInv, [LNext]_filings PROVE FilingsInv'
    OBVIOUS
  <1>0. /\ report \in Reports /\ ReportOK(report, filing["STR"]) /\ faults \in Nat
        /\ "STR" \in Refs /\ "CTR" \in Refs
        /\ ctr.filed \in BOOLEAN /\ ctr = [total |-> ctr.total, filed |-> ctr.filed]
    BY DEF FilingsInv, Refs
  <1>1. ASSUME RowsMove, UNCHANGED <<report, ctr>> PROVE FilingsInv'
    BY <1>0, <1>1, ReportStands, FilingsHold
  <1>2. CASE UNCHANGED filings
    BY <1>0, <1>1, <1>2, RowsStand DEF filings
  <1>3. CASE CamlcoApprove \/ ApproveStops \/ Withdraw
    <2>1. /\ UNCHANGED <<filing, lodged, ctr>> /\ faults' \in Nat /\ faults' >= faults
          /\ \E st \in {"FILING_PENDING", "CAMLCO_APPROVED", "WITHDRAWN"} :
                report' = [report EXCEPT !.status = st]
      BY <1>0, <1>3 DEF CamlcoApprove, ApproveStops, Withdraw, Reported, Fault
    <2>2. report' \in Reports /\ ReportOK(report', filing'["STR"])
      BY <1>0, <2>1 DEF Reports, ReportOK
    <2>3. RowsMove
      BY <2>1, RowsStand
    <2> QED
      BY <1>0, <2>1, <2>2, <2>3, ReportStands, FilingsHold
  <1>4. CASE AttemptFiling
    <2>1. RowsMove /\ filing'["STR"].n > 0
      BY <1>0, <1>4, FileMoves DEF AttemptFiling
    <2>2. filing'["STR"] \in FilingRows
      BY <1>0, <2>1 DEF RowsMove
    <2>3. /\ UNCHANGED <<ctr, faults>>
          /\ report' = [report EXCEPT !.status = "FILING_SUBMITTED", !.ref = Reference(filing'["STR"])]
      BY <1>4 DEF AttemptFiling
    <2>4. report' \in Reports /\ ReportOK(report', filing'["STR"])
      <3>1. PICK ref \in [kind : {"none", "sub", "filing"}, n : Nat] :
               ref = Reference(filing'["STR"]) /\ ref.n = filing'["STR"].n
        <4>1. PICK n \in Nat : n = filing'["STR"].n
          BY <2>2 DEF FilingRows
        <4>2. PICK k \in {"sub", "filing"} : k = IF filing'["STR"].sub THEN "sub" ELSE "filing"
          OBVIOUS
        <4>3. Reference(filing'["STR"]) = [kind |-> k, n |-> n]
          BY <4>1, <4>2 DEF Reference
        <4> QED
          BY <4>1, <4>3
      <3>2. report' = [status |-> "FILING_SUBMITTED", ref |-> ref, tries |-> report.tries]
        BY <1>0, <2>3, <3>1 DEF Reports
      <3>3. report.tries \in Nat
        BY <1>0 DEF Reports
      <3> QED
        BY <2>1, <3>1, <3>2, <3>3 DEF Reports, ReportOK
    <2> QED
      BY <1>0, <2>1, <2>3, <2>4, ReportStands, FilingsHold
  <1>5. CASE AttemptFails
    <2>1. /\ faults' = faults + 1 /\ faults' \in Nat /\ faults' >= faults /\ UNCHANGED <<lodged, ctr>>
          /\ report' = [report EXCEPT !.status = "FILING_FAILED", !.tries = @ + 1]
      BY <1>0, <1>5 DEF AttemptFails, Fault
    <2>2. report' \in Reports /\ ReportOK(report', filing'["STR"])
      <3>1. /\ report' = [status |-> "FILING_FAILED", ref |-> report.ref, tries |-> report.tries + 1]
            /\ report.tries \in Nat /\ report.ref \in [kind : {"none", "sub", "filing"}, n : Nat]
        BY <1>0, <2>1 DEF Reports
      <3>2. report.tries + 1 \in Nat
        BY <3>1
      <3> QED
        BY <3>1, <3>2 DEF Reports, ReportOK
    <2>3. CASE UNCHANGED filing
      BY <1>0, <2>1, <2>2, <2>3, RowsStand, ReportStands, FilingsHold
    <2>4. CASE filing' = [filing EXCEPT !["STR"] = Enqueued(@)]
      <3>1. Offered(filing')
        BY <1>0, <2>4, QueueOffered
      <3>2. \A r \in Refs : RowMoves(filing'[r], filing'[r], lodged[r], lodged'[r], faults, faults')
        BY <1>0, <2>1, <3>1, StandingRow DEF Offered, FilingsInv
      <3>3. RowsMove
        BY <2>1, <3>1, <3>2, QueueMoves DEF Offered, FilingsInv
      <3> QED
        BY <1>0, <2>1, <2>2, <3>3, ReportStands, FilingsHold
    <2> QED
      BY <1>5, <2>3, <2>4 DEF AttemptFails
  <1>6. CASE AttemptDies
    <2>1. RowsMove
      BY <1>0, <1>6, QueueDies, QueueOffered DEF AttemptDies
    <2>2. UNCHANGED ctr /\ report' = [report EXCEPT !.status = "FILING_PENDING"]
      BY <1>6 DEF AttemptDies, Reported
    <2>3. report' \in Reports /\ ReportOK(report', filing'["STR"])
      BY <1>0, <2>2 DEF Reports, ReportOK
    <2> QED
      BY <1>0, <2>1, <2>2, <2>3, ReportStands, FilingsHold
  <1>7. CASE StrFiling \/ StrRetry
    BY <1>4, <1>5, <1>6, <1>7 DEF StrFiling, StrRetry, Attempt
  <1>8. CASE StrAckConfirm
    <2>1. /\ UNCHANGED <<filing, lodged, ctr, faults>> /\ filing["STR"].state = "ACKED"
          /\ report.status = "FILING_SUBMITTED" /\ report.ref = Reference(filing["STR"])
          /\ report' = [report EXCEPT !.status = "FILING_CONFIRMED"]
      BY <1>8 DEF StrAckConfirm, ConfirmFiling, Reported
    <2>2. report' \in Reports /\ ReportOK(report', filing'["STR"])
      BY <1>0, <2>1 DEF Reports, ReportOK
    <2> QED
      BY <1>0, <2>1, <2>2, RowsStand, ReportStands, FilingsHold
  <1>9. CASE GoamlSubmit
    BY <1>0, <1>1, <1>9, QueueRuns, QueueOffered DEF GoamlSubmit
  <1>10. CASE ReplyLost
    <2>1. PICK q \in Refs : ProcessDue(filing, {q}, {}) /\ Lodge({q})
      BY <1>10 DEF ReplyLost
    <2>2. faults' = faults + 1 /\ faults' \in Nat /\ faults' >= faults /\ UNCHANGED <<report, ctr>>
      BY <1>0, <1>10 DEF ReplyLost, Fault
    <2>3. ASSUME NEW r \in Refs
          PROVE  RowMoves(filing[r], filing'[r], lodged[r], lodged'[r], faults, faults')
      <3>1. /\ filing[r] \in FilingRows /\ lodged[r] \in Nat /\ faults \in Nat
            /\ LodgedOK(filing[r], lodged[r], faults)
        BY DEF FilingsInv
      <3>2. CASE r = q
        <4>1. Claimable(filing[r]) /\ filing'[r] = Requeued(filing[r]) /\ lodged'[r] = lodged[r] + 1
          BY <2>1, <3>2 DEF ProcessDue, Lodge
        <4>2. RowMoves(filing[r], Requeued(filing[r]), lodged[r], lodged[r] + 1, faults, faults + 1)
          BY <3>1, <4>1, ClaimedRow, Zenon
        <4> QED
          BY <2>2, <4>1, <4>2
      <3>3. CASE r # q
        <4>1. filing'[r] = filing[r] /\ lodged'[r] = lodged[r]
          BY <2>1, <3>3 DEF ProcessDue, Lodge
        <4> QED
          BY <2>2, <3>1, <4>1, StandingRow
      <3> QED
        BY <3>2, <3>3
    <2>4. Offered(filing) /\ filing' = [r \in Refs |-> filing'[r]] /\ lodged' = [r \in Refs |-> lodged'[r]]
      BY <2>1, QueueOffered DEF ProcessDue, Lodge
    <2>5. RowsMove
      BY <2>2, <2>3, <2>4, QueueMoves
    <2> QED
      BY <1>1, <2>2, <2>5
  <1>11. CASE SubmitDies
    BY <1>1, <1>11, QueueDies, QueueOffered DEF SubmitDies
  <1>12. ASSUME NEW r \in Refs, NEW a \in {"ACKED", "REJECTED_BY_PORTAL"}, PollAcks(r, a)
         PROVE  FilingsInv'
    <2>1. /\ filing[r].state = "ACK_PENDING" /\ filing' = [filing EXCEPT ![r].state = a]
          /\ UNCHANGED <<report, lodged, ctr, faults>>
      BY <1>12 DEF PollAcks
    <2>2. filing \in [Refs -> FilingRows] /\ lodged \in [Refs -> Nat]
          /\ \A q \in Refs : LodgedOK(filing[q], lodged[q], faults)
      BY DEF FilingsInv
    <2>3. RowMoves(filing[r], [filing[r] EXCEPT !.state = a], lodged[r], lodged[r], faults, faults)
      BY <1>0, <2>1, <2>2 DEF RowMoves, FilingRows, FilingStates, LodgedOK, Submitted, Claimable
    <2>4. \A q \in Refs : RowMoves(filing[q], filing[q], lodged[q], lodged[q], faults, faults)
      BY <1>0, <2>2, StandingRow
    <2>5. RowsMove
      BY <1>0, <2>1, <2>2, <2>3, <2>4 DEF RowsMove, RowMoves
    <2> QED
      BY <1>1, <2>1, <2>5
  <1>13. ASSUME NEW e \in Cash, IntakeCashEvent(e) PROVE FilingsInv'
    BY <1>0, <1>1, <1>13, RowsStand DEF IntakeCashEvent
  <1>14. CASE RunDailyAggregation
    <2>1. /\ ctr'.filed = ctr.filed /\ ctr' = [total |-> ctr'.total, filed |-> ctr'.filed]
          /\ UNCHANGED <<report, filing, lodged, faults>>
      BY <1>0, <1>14 DEF RunDailyAggregation
    <2> QED
      BY <1>0, <2>1, RowsStand, ReportStands, FilingsHold
  <1>15. CASE FilePending
    <2>1. RowsMove
      BY <1>0, <1>15, FileMoves DEF FilePending
    <2>2. /\ ctr'.filed = Submitted(filing'["CTR"]) /\ UNCHANGED report
          /\ ctr' = [total |-> ctr'.total, filed |-> ctr'.filed] /\ ctr'.filed \in BOOLEAN
      BY <1>0, <1>15 DEF FilePending, MarkFiled, Submitted
    <2>3. Submitted(filing'["CTR"]) => lodged'["CTR"] > 0
      BY <1>0, <2>1 DEF RowsMove, RowMoves, LodgedOK
    <2> QED
      BY <1>0, <2>1, <2>2, <2>3, ReportStands, FilingsHold
  <1>16. CASE FilePendingDies
    BY <1>0, <1>1, <1>16, QueueDies, QueueOffered DEF FilePendingDies
  <1>17. CASE Restart
    <2>1. UNCHANGED <<report, filing, lodged, ctr>> /\ faults' \in Nat /\ faults' >= faults
      BY <1>0, <1>17 DEF Restart, Fault
    <2> QED
      BY <1>1, <2>1, RowsStand
  <1> QED
    BY <1>2, <1>3, <1>7, <1>8, <1>9, <1>10, <1>11, <1>12, <1>13, <1>14, <1>15, <1>16, <1>17 DEF LNext

(* What FilingsAreKept says, for any number of cash movements, any threshold *)
(* and any number of tries, attempts and faults: str_workflow, ctr and the   *)
(* goAML queue keep what they say of a report.                               *)
THEOREM FilingsStayKept == LSpec => []FilingsAreKept
  <1>1. FilingsInv => FilingsAreKept
    BY DEF FilingsInv, FilingsAreKept, ReportOK, LodgedOK, Refs, Submitted
  <1> QED
    BY <1>1, FilingsInitially, FilingsStep, PTL DEF LSpec

(***************************************************************************)
(* Merchants.                                                              *)
(***************************************************************************)

Opened == {"ACTIVE", "SUSPENDED", "KYB_REFRESH_PENDING", "TERMINATED"}
Agreed == Opened \cup {"AGREEMENT_PENDING"}
Assessed == Agreed \cup {"RISK_ASSESSED"}
KybStates == Assessed \cup {"none", "DOCUMENTS_PENDING", "KYB_IN_PROGRESS", "PENDING_HUMAN_REVIEW",
                            "ENHANCED_DUE_DILIGENCE", "SANCTIONS_REVIEW", "REJECTED"}

KybRows == [status : KybStates, edd : BOOLEAN, approval : Requests \cup {NoRequest}, cleared : BOOLEAN,
            dated : BOOLEAN]
OwnerRows == [identity : {"none", "PENDING", "VERIFIED", "MISMATCH", "UNAVAILABLE", "MANUALLY_VERIFIED"},
              sanctions : {"none", "NOT_SCREENED", "CLEAR", "HIT_UNREVIEWED"}]
AskedRows == [kind : {"none", "edd", "activation"}, state : {"none", "PENDING", "APPROVED", "REJECTED"},
              initiator : Officers \cup {"none"}, approver : Officers \cup {"none"}]

KybTypes ==
    /\ record \in KybRows /\ merchant \in [status : KybStates, blocked : BOOLEAN]
    /\ owner \in [Owners -> OwnerRows] /\ asked \in [Requests -> AskedRows]

(* What a row of the approvals says of an activation, and of a finished      *)
(* enhanced due diligence.                                                   *)
Activation(q) == asked[q].kind = "activation"
FreelyGranted(q) == Activation(q) /\ asked[q].state = "APPROVED" /\ asked[q].initiator # asked[q].approver
EddOver(q) == asked[q].kind = "edd" /\ asked[q].state \in {"APPROVED", "REJECTED"}

(* An owner that is not named has no screening; past the sanctions review    *)
(* nobody named then was hit.                                                *)
ScreeningOK ==
    /\ \A n \in Owners : owner[n].identity = "none" => owner[n].sanctions = "none"
    /\ record.status \in Assessed =>
          record.cleared /\ \A n \in Owners : owner[n].sanctions # "HIT_UNREVIEWED"

(* The request the record names, stage by stage: decide_activation takes     *)
(* whatever request that is, so what keeps an EDD approval from activating   *)
(* a merchant is that it is decided before the record is RISK_ASSESSED.      *)
ApprovalOK ==
    \/ record.status = "REJECTED"
    \/ record.approval = NoRequest /\ record.status \notin Agreed
    \/ /\ record.approval \in Requests
       /\ \/ record.status = "ENHANCED_DUE_DILIGENCE" /\ asked[record.approval].kind = "edd"
          \/ record.status \in {"SANCTIONS_REVIEW", "RISK_ASSESSED"} /\ EddOver(record.approval)
          \/ record.status = "RISK_ASSESSED" /\ Activation(record.approval)
          \/ record.status \in Agreed /\ FreelyGranted(record.approval)

BooksOK == issued = IF record.status \in Opened THEN 1 ELSE 0

CopyOK == merchant.status = "ACTIVE" => record.status \in Opened /\ ~merchant.blocked

KybInv == KybTypes /\ ScreeningOK /\ ApprovalOK /\ BooksOK /\ CopyOK

Early == {"DOCUMENTS_PENDING", "KYB_IN_PROGRESS", "PENDING_HUMAN_REVIEW"}

(* The rows of MERCHANT_KYB_TABLE, by where they lead.                       *)
LEMMA TableRows ==
    ASSUME NEW s, NEW t, NEW u, <<s, t, u>> \in MerchantKybTable, s \in KybStates
    PROVE  /\ u \in KybStates
           /\ t # "agreement_signed" => (u \in Opened <=> s \in Opened)
           /\ t = "agreement_signed" => s = "AGREEMENT_PENDING" /\ u = "ACTIVE"
           /\ u = "AGREEMENT_PENDING" => t = "two_eyes_approved" /\ s = "RISK_ASSESSED"
           /\ u = "RISK_ASSESSED" => t = "sanctions_clear"
           /\ u = "SANCTIONS_REVIEW" => \/ t = "checks_pass" /\ s = "KYB_IN_PROGRESS"
                                        \/ t = "edd_complete" /\ s = "ENHANCED_DUE_DILIGENCE"
           /\ u = "ENHANCED_DUE_DILIGENCE" => t = "high_risk_mcc" /\ s = "KYB_IN_PROGRESS"
           /\ s = "RISK_ASSESSED" => t \in {"two_eyes_approved", "two_eyes_rejected"}
           /\ s = "AGREEMENT_PENDING" => t \in {"agreement_signed", "auto_expire"}
           /\ s = "SANCTIONS_REVIEW" => t \in {"sanctions_hit", "sanctions_clear"}
           /\ t \in {"two_eyes_rejected", "sanctions_hit", "edd_rejected", "auto_expire"} => u = "REJECTED"
           /\ t \in {"sanctions_clear", "sanctions_hit"} => s = "SANCTIONS_REVIEW"
           /\ u # "none" /\ (u \in Early => s \in Early)
           /\ t = "high_risk_mcc" => u = "ENHANCED_DUE_DILIGENCE"
           /\ t = "edd_complete" => u = "SANCTIONS_REVIEW"
           /\ t = "two_eyes_approved" => u = "AGREEMENT_PENDING"
           /\ t = "sanctions_clear" => u = "RISK_ASSESSED"
  BY DEF MerchantKybTable, KybStates, Assessed, Agreed, Opened, Early

LEMMA RuleIsARow ==
    ASSUME NEW t, Rule(t) # {}
    PROVE  <<record.status, t, Target(t)>> \in MerchantKybTable
  <1>1. PICK r \in Rule(t) : r = CHOOSE q \in Rule(t) : TRUE
    OBVIOUS
  <1>2. r \in MerchantKybTable /\ r[1] = record.status /\ r[2] = t /\ r[3] = Target(t)
    BY <1>1 DEF Rule, Target
  <1>3. \A q \in MerchantKybTable : q = <<q[1], q[2], q[3]>>
    BY DEF MerchantKybTable
  <1> QED
    BY <1>2, <1>3

(* What _advance writes, whether or not a crash keeps the merchants row back. *)
LEMMA RecordAdvanced ==
    ASSUME KybTypes, CopyOK, NEW t, NEW rec \in KybRows, NEW torn \in BOOLEAN,
           rec.status = record.status, Advance(t, rec, torn)
    PROVE  /\ <<record.status, t, record'.status>> \in MerchantKybTable
           /\ record' \in KybRows /\ record'.approval = rec.approval /\ record'.cleared = rec.cleared
           /\ merchant' \in [status : KybStates, blocked : BOOLEAN]
           /\ CopyOK'
  <1>1. <<record.status, t, Target(t)>> \in MerchantKybTable
    BY RuleIsARow DEF Advance
  <1>2. record.status \in KybStates
    BY DEF KybTypes, KybRows
  <1>3. /\ Target(t) \in KybStates
        /\ Target(t) = "ACTIVE" => Target(t) \in Opened
        /\ record.status \in Opened => Target(t) \in Opened
    BY <1>1, <1>2, TableRows DEF Opened
  <1>4. /\ record' \in KybRows /\ record'.approval = rec.approval /\ record'.cleared = rec.cleared
        /\ record'.status = Target(t)
    BY <1>3 DEF Advance, KybRows
  <1>5. CASE torn
    <2>1. merchant' = merchant
      BY <1>5 DEF Advance
    <2>2. CopyOK'
      BY <2>1, <1>3, <1>4 DEF CopyOK
    <2> QED
      BY <2>1, <2>2, <1>1, <1>4 DEF KybTypes
  <1>6. CASE ~torn
    <2>1. /\ merchant' = [status |-> Target(t),
                          blocked |-> (merchant.blocked \/ Target(t) \in {"SUSPENDED", "TERMINATED"})
                                         /\ Target(t) # "ACTIVE"]
      BY <1>6 DEF Advance, UpdateMerchant
    <2>2. CopyOK'
      BY <2>1, <1>3, <1>4 DEF CopyOK
    <2>3. merchant' \in [status : KybStates, blocked : BOOLEAN]
      BY <2>1, <1>3
    <2> QED
      BY <2>2, <2>3, <1>1, <1>4
  <1> QED
    BY <1>5, <1>6
(* A move other than the two that screen and open keeps all but the approval. *)
LEMMA Stepped ==
    ASSUME KybInv, NEW t, NEW rec \in KybRows, NEW torn \in BOOLEAN,
           rec.status = record.status, rec.cleared = record.cleared, Advance(t, rec, torn),
           t \notin {"agreement_signed", "sanctions_clear"}, issued' = issued,
           asked' \in [Requests -> AskedRows], owner' \in [Owners -> OwnerRows],
           \A n \in Owners : owner'[n].identity = "none" => owner'[n].sanctions = "none",
           record.status \in Assessed => \A n \in Owners : owner'[n].sanctions = owner[n].sanctions
    PROVE  KybTypes' /\ ScreeningOK' /\ BooksOK' /\ CopyOK'
  <1>0. KybTypes /\ CopyOK /\ ScreeningOK /\ BooksOK
    BY DEF KybInv
  <1>1. /\ <<record.status, t, record'.status>> \in MerchantKybTable
        /\ record' \in KybRows /\ record'.approval = rec.approval /\ record'.cleared = rec.cleared
        /\ merchant' \in [status : KybStates, blocked : BOOLEAN]
        /\ CopyOK'
    BY <1>0, RecordAdvanced
  <1>2. record.status \in KybStates
    BY <1>0 DEF KybTypes, KybRows
  <1>3. /\ record'.status \in Opened <=> record.status \in Opened
        /\ record'.status \in Assessed => record.status \in Assessed
    BY <1>1, <1>2, TableRows DEF Assessed, Agreed
  <1>4. KybTypes'
    BY <1>1 DEF KybTypes
  <1>5. ScreeningOK'
    BY <1>0, <1>1, <1>3 DEF ScreeningOK
  <1>6. BooksOK'
    BY <1>0, <1>3 DEF BooksOK
  <1> QED
    BY <1>1, <1>4, <1>5, <1>6

(* A move that keeps the request keeps what it says, but for the moves that  *)
(* need it decided.                                                          *)
LEMMA StageKept ==
    ASSUME KybInv, NEW t, NEW rec \in KybRows, NEW torn \in BOOLEAN,
           rec.status = record.status, rec.approval = record.approval, Advance(t, rec, torn),
           t \notin {"agreement_signed", "sanctions_clear", "edd_complete", "two_eyes_approved"},
           asked' = asked
    PROVE  ApprovalOK'
  <1>0. KybTypes /\ CopyOK /\ ApprovalOK
    BY DEF KybInv
  <1>1. /\ <<record.status, t, record'.status>> \in MerchantKybTable
        /\ record'.approval = record.approval /\ record' \in KybRows
    BY <1>0, RecordAdvanced
  <1>2. record.status \in KybStates /\ record'.status \in KybStates
    BY <1>0, <1>1 DEF KybTypes, KybRows
  <1>3. /\ record'.status \in Opened <=> record.status \in Opened
        /\ record'.status \notin {"AGREEMENT_PENDING", "RISK_ASSESSED", "none"}
        /\ record'.status \in Early => record.status \in Early
        /\ record'.status \in {"SANCTIONS_REVIEW", "ENHANCED_DUE_DILIGENCE"}
              => record.status = "KYB_IN_PROGRESS"
    BY <1>1, <1>2, TableRows
  <1>4. CASE record'.status \in Opened
    <2>1. record.approval \in Requests /\ FreelyGranted(record.approval)
      BY <1>0, <1>3, <1>4 DEF ApprovalOK, Opened, Agreed
    <2>2. PICK q \in Requests : q = record.approval
      BY <2>1
    <2>3. FreelyGranted(q)'
      BY <2>1, <2>2 DEF FreelyGranted, Activation
    <2> QED
      BY <1>1, <1>4, <2>2, <2>3 DEF ApprovalOK, Agreed
  <1>5. CASE record'.status \in Early \cup {"SANCTIONS_REVIEW", "ENHANCED_DUE_DILIGENCE"}
    <2>1. record.status \in Early
      BY <1>3, <1>5 DEF Early
    <2>2. record.approval = NoRequest
      BY <1>0, <2>1 DEF ApprovalOK, Early, Agreed, Opened
    <2> QED
      BY <1>1, <1>5, <2>2 DEF ApprovalOK, Early, Agreed, Opened
  <1>6. CASE record'.status = "REJECTED"
    BY <1>6 DEF ApprovalOK
  <1> QED
    BY <1>2, <1>3, <1>4, <1>5, <1>6 DEF KybStates, Assessed, Agreed, Early

(* The moves that write the record and the merchant alone.                   *)
LEMMA Moved ==
    ASSUME KybInv, NEW t, NEW torn \in BOOLEAN, Move(t, torn),
           t \notin {"agreement_signed", "sanctions_clear", "edd_complete", "two_eyes_approved"}
    PROVE  KybInv'
  <1>0. KybTypes /\ ScreeningOK
    BY DEF KybInv
  <1>1. /\ Advance(t, record, torn) /\ issued' = issued /\ asked' = asked /\ owner' = owner
        /\ record \in KybRows /\ asked' \in [Requests -> AskedRows] /\ owner' \in [Owners -> OwnerRows]
    BY <1>0 DEF Move, KybTypes
  <1>2. \A n \in Owners : owner'[n].identity = "none" => owner'[n].sanctions = "none"
    BY <1>0, <1>1 DEF ScreeningOK
  <1>3. KybTypes' /\ ScreeningOK' /\ BooksOK' /\ CopyOK'
    BY <1>1, <1>2, Stepped
  <1>4. ApprovalOK'
    BY <1>1, StageKept
  <1> QED
    BY <1>3, <1>4 DEF KybInv

(* What the approvals port writes.                                           *)
LEMMA Decided ==
    ASSUME KybTypes, NEW q \in Requests, NEW who \in Officers, NEW approve \in BOOLEAN,
           Decide(q, who, approve)
    PROVE  /\ asked' \in [Requests -> AskedRows] /\ \A r \in Requests \ {q} : asked'[r] = asked[r]
           /\ asked[q].state = "PENDING" /\ asked'[q].kind = asked[q].kind
           /\ asked'[q].state = IF approve THEN "APPROVED" ELSE "REJECTED"
           /\ asked'[q].initiator # asked'[q].approver
  <1>1. asked[q] \in AskedRows
    BY DEF KybTypes
  <1> DEFINE row == [asked[q] EXCEPT !.state = IF approve THEN "APPROVED" ELSE "REJECTED", !.approver = who]
  <1>2. /\ row \in AskedRows /\ row.kind = asked[q].kind /\ row.initiator = asked[q].initiator
        /\ row.approver = who /\ row.state = IF approve THEN "APPROVED" ELSE "REJECTED"
    BY <1>1 DEF AskedRows
  <1>3. asked' = [asked EXCEPT ![q] = row]
    BY DEF Decide, KybTypes
  <1>4. asked[q].state = "PENDING" /\ asked[q].initiator # who
    BY DEF Decide
  <1> HIDE DEF row
  <1> QED
    BY <1>2, <1>3, <1>4 DEF KybTypes

LEMMA Requested ==
    ASSUME KybTypes, NEW q \in Requests, NEW who \in Officers, NEW kind \in {"edd", "activation"},
           Request(q, kind, who)
    PROVE  asked' \in [Requests -> AskedRows] /\ asked'[q].kind = kind
  <1> DEFINE row == [kind |-> kind, state |-> "PENDING", initiator |-> who, approver |-> "none"]
  <1>1. row \in AskedRows /\ row.kind = kind
    BY DEF AskedRows
  <1>2. asked' = [asked EXCEPT ![q] = row]
    BY DEF Request
  <1> HIDE DEF row
  <1> QED
    BY <1>1, <1>2 DEF KybTypes

(* A decision does not disturb the stage: past EDD the record's request is   *)
(* decided, or is the activation's.                                          *)
LEMMA DecisionKept ==
    ASSUME KybInv, NEW q \in Requests, NEW who \in Officers, NEW approve \in BOOLEAN,
           Decide(q, who, approve), record' = record
    PROVE  ApprovalOK'
  <1>0. KybTypes /\ ApprovalOK
    BY DEF KybInv
  <1>1. /\ asked' \in [Requests -> AskedRows] /\ \A r \in Requests \ {q} : asked'[r] = asked[r]
        /\ asked[q].state = "PENDING" /\ asked'[q].kind = asked[q].kind
    BY <1>0, Decided
  <1>2. CASE record.status = "REJECTED" \/ (record.approval = NoRequest /\ record.status \notin Agreed)
    BY <1>2 DEF ApprovalOK
  <1>3. CASE record.approval \in Requests
    <2>1. PICK r \in Requests : r = record.approval
      BY <1>3
    <2>2. asked'[r].kind = asked[r].kind
      BY <1>1
    <2>3. asked[r].state # "PENDING" => asked'[r] = asked[r]
      BY <1>1
    <2>4. (EddOver(r) => EddOver(r)') /\ (FreelyGranted(r) => FreelyGranted(r)') /\ (Activation(r) => Activation(r)')
      BY <2>2, <2>3 DEF EddOver, FreelyGranted, Activation
    <2> QED
      BY <1>0, <1>3, <2>1, <2>2, <2>4 DEF ApprovalOK
  <1> QED
    BY <1>0, <1>2, <1>3 DEF ApprovalOK

(* What is left when the record, the merchant and the owners stay.           *)
LEMMA Stayed ==
    ASSUME KybInv, record' = record, merchant' = merchant, issued' = issued,
           owner' \in [Owners -> OwnerRows], asked' \in [Requests -> AskedRows],
           \A n \in Owners : owner'[n].identity = "none" => owner'[n].sanctions = "none",
           \A n \in Owners : owner'[n].sanctions \in {owner[n].sanctions, "NOT_SCREENED"}
    PROVE  KybTypes' /\ ScreeningOK' /\ BooksOK' /\ CopyOK'
  <1>0. KybTypes /\ ScreeningOK /\ BooksOK /\ CopyOK
    BY DEF KybInv
  <1>1. KybTypes' /\ BooksOK' /\ CopyOK'
    BY <1>0 DEF KybTypes, BooksOK, CopyOK
  <1>2. ScreeningOK'
    BY <1>0 DEF ScreeningOK
  <1> QED
    BY <1>1, <1>2

(* The identity callbacks write one owner's identity.                        *)
LEMMA Identified ==
    ASSUME KybInv, NEW n \in Owners, n \in Present,
           NEW v \in {"VERIFIED", "MISMATCH", "UNAVAILABLE", "MANUALLY_VERIFIED"},
           owner' = [owner EXCEPT ![n].identity = v]
    PROVE  /\ owner' \in [Owners -> OwnerRows]
           /\ \A m \in Owners : owner'[m].identity = "none" => owner'[m].sanctions = "none"
           /\ \A m \in Owners : owner'[m].sanctions = owner[m].sanctions
  <1>0. KybTypes /\ ScreeningOK
    BY DEF KybInv
  <1>1. owner[n] \in OwnerRows /\ owner \in [Owners -> OwnerRows]
    BY <1>0 DEF KybTypes
  <1> DEFINE row == [owner[n] EXCEPT !.identity = v]
  <1>2. row \in OwnerRows /\ row.identity = v /\ row.sanctions = owner[n].sanctions
    BY <1>1 DEF OwnerRows
  <1>3. owner' = [owner EXCEPT ![n] = row]
    BY <1>1
  <1>4. v # "none"
    OBVIOUS
  <1> HIDE DEF row
  <1> QED
    BY <1>0, <1>1, <1>2, <1>3, <1>4 DEF ScreeningOK

LEMMA KybInitial == BInit => KybInv
  <1> SUFFICES ASSUME BInit PROVE KybInv
    OBVIOUS
  <1>1. record.status = "none" /\ record.approval = NoRequest /\ record \in KybRows
    BY DEF BInit, KybRows, KybStates
  <1>2. NoOwner \in OwnerRows /\ NoOwner.sanctions = "none" /\ NoAsked \in AskedRows
    BY DEF NoOwner, NoAsked, OwnerRows, AskedRows
  <1>3. merchant.status = "none" /\ merchant \in [status : KybStates, blocked : BOOLEAN]
    BY DEF BInit, KybStates
  <1>4. KybTypes
    BY <1>1, <1>2, <1>3 DEF BInit, KybTypes
  <1>5. ScreeningOK
    BY <1>1, <1>2 DEF BInit, ScreeningOK, Assessed, Agreed, Opened
  <1>6. ApprovalOK /\ BooksOK /\ CopyOK
    BY <1>1, <1>3 DEF BInit, ApprovalOK, BooksOK, CopyOK, Agreed, Opened
  <1> QED
    BY <1>4, <1>5, <1>6 DEF KybInv

LEMMA KybStep == KybInv /\ [BNext]_kyb => KybInv'
  <1> SUFFICES ASSUME KybInv, [BNext]_kyb PROVE KybInv'
    OBVIOUS
  <1>0. KybTypes /\ ScreeningOK /\ ApprovalOK /\ BooksOK /\ CopyOK
    BY DEF KybInv
  <1>t. record \in KybRows /\ owner \in [Owners -> OwnerRows] /\ asked \in [Requests -> AskedRows]
    BY <1>0 DEF KybTypes
  <1>s. \A n \in Owners : owner[n].identity = "none" => owner[n].sanctions = "none"
    BY <1>0 DEF ScreeningOK
  <1>1. ASSUME NEW edd \in BOOLEAN, SubmitApplication(edd) PROVE KybInv'
    <2>1. /\ record' \in KybRows /\ record'.status = "DOCUMENTS_PENDING" /\ record'.approval = record.approval
      BY <1>t, <1>1 DEF SubmitApplication, KybRows, KybStates
    <2>2. merchant' \in [status : KybStates, blocked : BOOLEAN] /\ merchant'.status = "DOCUMENTS_PENDING"
      BY <1>0, <1>1 DEF SubmitApplication, KybTypes, KybStates
    <2>3. record.status = "none" /\ UNCHANGED <<owner, asked, issued>>
      BY <1>1 DEF SubmitApplication
    <2>4. KybTypes' /\ ScreeningOK'
      BY <1>t, <1>s, <2>1, <2>2, <2>3 DEF KybTypes, ScreeningOK, Assessed, Agreed, Opened
    <2>5. ApprovalOK' /\ BooksOK' /\ CopyOK'
      BY <1>0, <2>1, <2>2, <2>3 DEF ApprovalOK, BooksOK, CopyOK, Agreed, Opened
    <2> QED
      BY <2>4, <2>5 DEF KybInv
  <1>2. CASE UploadDocument \/ ReviewDocument
    <2>1. UNCHANGED <<record, merchant, owner, asked, issued>>
      BY <1>2 DEF UploadDocument, ReviewDocument
    <2>2. KybTypes' /\ ScreeningOK' /\ BooksOK' /\ CopyOK'
      BY <2>1, <1>t, <1>s, Stayed
    <2>3. ApprovalOK'
      BY <1>0, <2>1 DEF ApprovalOK, EddOver, FreelyGranted, Activation
    <2> QED
      BY <2>2, <2>3 DEF KybInv
  <1>3. CASE SignAgreement
    <2>1. /\ record.status = "AGREEMENT_PENDING" /\ Advance("agreement_signed", record, FALSE)
          /\ issued' = issued + 1 /\ UNCHANGED <<owner, asked>>
      BY <1>3 DEF SignAgreement
    <2>2. /\ <<record.status, "agreement_signed", record'.status>> \in MerchantKybTable
          /\ record' \in KybRows /\ record'.approval = record.approval /\ record'.cleared = record.cleared
          /\ merchant' \in [status : KybStates, blocked : BOOLEAN]
          /\ CopyOK'
      BY <1>0, <1>t, <2>1, RecordAdvanced
    <2>3. record'.status = "ACTIVE"
      BY <1>t, <2>2, TableRows DEF KybRows
    <2>4. KybTypes' /\ ScreeningOK'
      BY <1>0, <1>t, <2>1, <2>2 DEF KybTypes, ScreeningOK, Assessed, Agreed
    <2>5. BooksOK'
      BY <1>0, <2>1, <2>3 DEF BooksOK, Opened
    <2>6. ApprovalOK'
      <3>1. record.approval \in Requests /\ FreelyGranted(record.approval)
        BY <1>0, <2>1 DEF ApprovalOK, Agreed
      <3>2. PICK q \in Requests : q = record.approval
        BY <3>1
      <3>3. FreelyGranted(q)'
        BY <2>1, <3>1, <3>2 DEF FreelyGranted, Activation
      <3> QED
        BY <2>2, <2>3, <3>2, <3>3 DEF ApprovalOK, Agreed, Opened
    <2> QED
      BY <2>2, <2>4, <2>5, <2>6 DEF KybInv
  <1>4. ASSUME NEW n \in Owners, AddUboNode(n) PROVE KybInv'
    <2>1. UNCHANGED <<record, merchant, asked, issued>>
      BY <1>4 DEF AddUboNode
    <2>2. owner' = [owner EXCEPT ![n] = [identity |-> "PENDING", sanctions |-> "NOT_SCREENED"]]
      BY <1>4 DEF AddUboNode
    <2>3. /\ owner' \in [Owners -> OwnerRows]
          /\ \A m \in Owners : owner'[m].identity = "none" => owner'[m].sanctions = "none"
          /\ \A m \in Owners : owner'[m].sanctions \in {owner[m].sanctions, "NOT_SCREENED"}
      BY <1>t, <1>s, <2>2 DEF OwnerRows
    <2>4. KybTypes' /\ ScreeningOK' /\ BooksOK' /\ CopyOK'
      BY <2>1, <2>3, <1>t, Stayed
    <2>5. ApprovalOK'
      BY <1>0, <2>1 DEF ApprovalOK, EddOver, FreelyGranted, Activation
    <2> QED
      BY <2>4, <2>5 DEF KybInv
  <1>5. ASSUME NEW q \in Requests, NEW who \in Officers, RequestActivation(q, who) PROVE KybInv'
    <2>1. /\ record.status = "RISK_ASSESSED" /\ Request(q, "activation", who)
          /\ UNCHANGED <<merchant, owner, issued>>
      BY <1>5 DEF RequestActivation
    <2>2. asked' \in [Requests -> AskedRows] /\ asked'[q].kind = "activation"
      BY <1>0, <2>1, Requested
    <2>3. /\ record' \in KybRows /\ record'.approval = q /\ record'.status = record.status
          /\ record'.cleared = record.cleared
      BY <1>t, <1>5 DEF RequestActivation, KybRows
    <2>4. KybTypes' /\ ScreeningOK'
      BY <1>0, <1>t, <2>1, <2>2, <2>3 DEF KybTypes, ScreeningOK
    <2>5. BooksOK' /\ CopyOK'
      BY <1>0, <2>1, <2>3 DEF BooksOK, CopyOK
    <2>6. ApprovalOK'
      BY <2>1, <2>2, <2>3 DEF ApprovalOK, Activation
    <2> QED
      BY <2>4, <2>5, <2>6 DEF KybInv
  <1>6. ASSUME NEW q \in Requests, NEW who \in Officers, NEW approve \in BOOLEAN, DecideEdd(q, who, approve)
        PROVE  KybInv'
    <2>1. Decide(q, who, approve) /\ UNCHANGED <<record, merchant, owner, issued>>
      BY <1>6 DEF DecideEdd
    <2>2. asked' \in [Requests -> AskedRows]
      BY <1>0, <2>1, Decided
    <2>3. KybTypes' /\ ScreeningOK' /\ BooksOK' /\ CopyOK'
      BY <2>1, <2>2, <1>t, <1>s, Stayed
    <2>4. ApprovalOK'
      BY <2>1, DecisionKept
    <2> QED
      BY <2>3, <2>4 DEF KybInv
  <1>7. ASSUME NEW torn \in BOOLEAN, CheckDocumentsComplete(torn) PROVE KybInv'
    BY <1>7, Moved DEF CheckDocumentsComplete
  <1>8. ASSUME NEW torn \in BOOLEAN,
               \/ Suspend(torn) \/ Unsuspend(torn) \/ Terminate(torn) \/ MarkRefreshDue(torn)
               \/ CompleteRefresh(torn) \/ SweepExpired(torn)
        PROVE  KybInv'
    BY <1>8, Moved DEF Suspend, Unsuspend, Terminate, MarkRefreshDue, CompleteRefresh, SweepExpired
  <1>9. ASSUME NEW torn \in BOOLEAN, CompleteEdd(torn) PROVE KybInv'
    <2>1. CASE asked[record.approval].state = "APPROVED"
      <3>1. Move("edd_complete", torn) /\ record.approval # NoRequest
        BY <1>9, <2>1 DEF CompleteEdd
      <3>2. Advance("edd_complete", record, torn) /\ UNCHANGED <<owner, asked, issued>>
        BY <3>1 DEF Move
      <3>3. /\ <<record.status, "edd_complete", record'.status>> \in MerchantKybTable
            /\ record' \in KybRows /\ record'.approval = record.approval
        BY <1>0, <1>t, <3>2, RecordAdvanced
      <3>4. record.status = "ENHANCED_DUE_DILIGENCE" /\ record'.status = "SANCTIONS_REVIEW"
        BY <1>t, <3>3, TableRows DEF KybRows
      <3>5. record.approval \in Requests /\ asked[record.approval].kind = "edd"
        BY <1>0, <3>1, <3>4 DEF ApprovalOK, Agreed, Opened
      <3>6. PICK q \in Requests : q = record.approval
        BY <3>5
      <3>7. EddOver(q)'
        BY <2>1, <3>2, <3>5, <3>6 DEF EddOver
      <3>8. ApprovalOK'
        BY <3>3, <3>4, <3>6, <3>7 DEF ApprovalOK
      <3>9. KybTypes' /\ ScreeningOK' /\ BooksOK' /\ CopyOK'
        BY <1>t, <1>s, <3>2, Stepped
      <3> QED
        BY <3>8, <3>9 DEF KybInv
    <2>2. CASE asked[record.approval].state # "APPROVED"
      BY <1>9, <2>2, Moved DEF CompleteEdd
    <2> QED
      BY <2>1, <2>2
  <1>10. ASSUME NEW torn \in BOOLEAN, NEW n \in Owners,
                NEW v \in {"VERIFIED", "MISMATCH", "UNAVAILABLE", "MANUALLY_VERIFIED"}, n \in Present,
                owner' = [owner EXCEPT ![n].identity = v], UNCHANGED <<asked, issued>>,
                \/ UNCHANGED <<record, merchant, downs>>
                \/ \E t \in {"ubo_nid_mismatch", "porichoy_unavailable", "operator_manual_verify"} :
                      Advance(t, record, torn)
         PROVE  KybInv'
    <2>1. /\ owner' \in [Owners -> OwnerRows]
          /\ \A m \in Owners : owner'[m].identity = "none" => owner'[m].sanctions = "none"
          /\ \A m \in Owners : owner'[m].sanctions = owner[m].sanctions
      BY <1>10, Identified
    <2>2. asked' = asked /\ issued' = issued /\ asked' \in [Requests -> AskedRows]
      BY <1>10, <1>t
    <2>3. CASE UNCHANGED <<record, merchant, downs>>
      <3>1. KybTypes' /\ ScreeningOK' /\ BooksOK' /\ CopyOK'
        BY <2>1, <2>2, <2>3, Stayed
      <3>2. ApprovalOK'
        BY <1>0, <2>2, <2>3 DEF ApprovalOK, EddOver, FreelyGranted, Activation
      <3> QED
        BY <3>1, <3>2 DEF KybInv
    <2>4. ASSUME NEW t \in {"ubo_nid_mismatch", "porichoy_unavailable", "operator_manual_verify"},
                 Advance(t, record, torn)
          PROVE  KybInv'
      <3>1. t \notin {"agreement_signed", "sanctions_clear", "edd_complete", "two_eyes_approved"}
        BY <2>4
      <3>2. KybTypes' /\ ScreeningOK' /\ BooksOK' /\ CopyOK'
        BY <1>t, <2>1, <2>2, <2>4, <3>1, Stepped
      <3>3. ApprovalOK'
        BY <1>t, <2>2, <2>4, <3>1, StageKept
      <3> QED
        BY <3>2, <3>3 DEF KybInv
    <2> QED
      BY <1>10, <2>3, <2>4
  <1>11. ASSUME NEW torn \in BOOLEAN, NEW n \in Owners, ManualVerifyUbo(n, torn) PROVE KybInv'
    <2>1. /\ n \in Present /\ owner' = [owner EXCEPT ![n].identity = "MANUALLY_VERIFIED"]
          /\ UNCHANGED <<asked, issued>>
          /\ UNCHANGED <<record, merchant, downs>> \/ Advance("operator_manual_verify", record, torn)
      BY <1>11 DEF ManualVerifyUbo
    <2> QED
      BY <1>10, <2>1
  <1>12. ASSUME NEW torn \in BOOLEAN, NEW n \in Owners, NEW v \in {"VERIFIED", "MISMATCH", "UNAVAILABLE"},
                RecordPorichoyResult(n, v, torn)
         PROVE  KybInv'
    <2>1. /\ n \in Present /\ owner' = [owner EXCEPT ![n].identity = v] /\ UNCHANGED <<asked, issued>>
          /\ \/ UNCHANGED <<record, merchant, downs>>
             \/ Advance("ubo_nid_mismatch", record, torn) \/ Advance("porichoy_unavailable", record, torn)
      BY <1>12 DEF RecordPorichoyResult
    <2> QED
      BY <1>10, <2>1
  <1>13. ASSUME NEW torn \in BOOLEAN, NEW q \in Requests, NEW who \in Officers, SubmitForReview(q, who, torn)
         PROVE  KybInv'
    <2>1. UNCHANGED <<owner, issued>>
      BY <1>13 DEF SubmitForReview
    <2>2. ASSUME NEW t \in {"checks_pass", "high_risk_mcc"}, Advance(t, record, torn), asked' = asked
          PROVE  KybInv'
      <3>1. t \notin {"agreement_signed", "sanctions_clear", "edd_complete", "two_eyes_approved"}
        BY <2>2
      <3>2. KybTypes' /\ ScreeningOK' /\ BooksOK' /\ CopyOK'
        BY <1>t, <1>s, <2>1, <2>2, <3>1, Stepped
      <3>3. ApprovalOK'
        BY <1>t, <2>2, <3>1, StageKept
      <3> QED
        BY <3>2, <3>3 DEF KybInv
    <2>3. ASSUME Advance("high_risk_mcc", [record EXCEPT !.approval = q], FALSE), Request(q, "edd", who)
          PROVE  KybInv'
      <3> DEFINE row == [record EXCEPT !.approval = q]
      <3>r. /\ row \in KybRows
            /\ row.approval = q /\ row.status = record.status /\ row.cleared = record.cleared
        BY <1>t DEF KybRows
      <3>1. PICK rec : /\ rec \in KybRows /\ rec = row
                      /\ rec.approval = q /\ rec.status = record.status /\ rec.cleared = record.cleared
        BY <3>r
      <3>2. Advance("high_risk_mcc", rec, FALSE)
        BY <2>3, <3>1
      <3>3. asked' \in [Requests -> AskedRows] /\ asked'[q].kind = "edd"
        BY <1>0, <2>3, Requested
      <3>4. /\ <<record.status, "high_risk_mcc", record'.status>> \in MerchantKybTable
            /\ record'.approval = rec.approval
        BY <1>0, <3>1, <3>2, RecordAdvanced
      <3>5. record'.status = "ENHANCED_DUE_DILIGENCE"
        BY <1>t, <3>4, TableRows DEF KybRows
      <3>6. KybTypes' /\ ScreeningOK' /\ BooksOK' /\ CopyOK'
        BY <1>t, <1>s, <2>1, <3>1, <3>2, <3>3, Stepped
      <3>7. ApprovalOK'
        BY <3>1, <3>3, <3>4, <3>5 DEF ApprovalOK
      <3> QED
        BY <3>6, <3>7 DEF KybInv
    <2>4. \/ Advance("checks_pass", record, torn) /\ asked' = asked
          \/ Advance("high_risk_mcc", record, torn) /\ asked' = asked
          \/ Advance("high_risk_mcc", [record EXCEPT !.approval = q], FALSE) /\ Request(q, "edd", who)
      BY <1>13 DEF SubmitForReview
    <2> QED
      BY <2>2, <2>3, <2>4
  <1>14. ASSUME NEW torn \in BOOLEAN, NEW entity \in BOOLEAN, NEW hits \in SUBSET Owners,
                RunSanctionsReview(entity, hits, torn)
         PROVE  KybInv'
    <2>1. /\ record.status = "SANCTIONS_REVIEW" /\ UNCHANGED <<asked, issued>>
          /\ owner' = [n \in Owners |-> IF n \notin Present THEN owner[n]
                       ELSE [owner[n] EXCEPT !.sanctions = IF n \in hits THEN "HIT_UNREVIEWED" ELSE "CLEAR"]]
      BY <1>14 DEF RunSanctionsReview
    <2>2. ASSUME NEW n \in Owners
          PROVE  /\ owner'[n] \in OwnerRows /\ owner'[n].identity = owner[n].identity
                 /\ owner'[n].identity = "none" => owner'[n].sanctions = "none"
                 /\ n \notin hits => owner'[n].sanctions # "HIT_UNREVIEWED"
      <3>1. owner[n] \in OwnerRows
        BY <1>t
      <3>2. CASE n \in Present
        <4>1. owner'[n] = [owner[n] EXCEPT !.sanctions = IF n \in hits THEN "HIT_UNREVIEWED" ELSE "CLEAR"]
          BY <2>1, <3>2
        <4> QED
          BY <3>1, <3>2, <4>1 DEF OwnerRows, Present
      <3>3. CASE n \notin Present
        <4>1. owner'[n] = owner[n] /\ owner[n].identity = "none"
          BY <2>1, <3>3 DEF Present
        <4> QED
          BY <1>s, <3>1, <4>1
      <3> QED
        BY <3>2, <3>3
    <2>3. owner' \in [Owners -> OwnerRows]
      BY <2>1, <2>2
    <2>4. record.status \notin Assessed
      BY <2>1 DEF Assessed, Agreed, Opened
    <2>5. CASE AnyHit(entity, hits)
      <3>1. Advance("sanctions_hit", record, torn)
        BY <1>14, <2>5 DEF RunSanctionsReview
      <3>2. KybTypes' /\ ScreeningOK' /\ BooksOK' /\ CopyOK'
        BY <1>t, <2>1, <2>2, <2>3, <2>4, <3>1, Stepped
      <3>3. ApprovalOK'
        BY <1>t, <2>1, <3>1, StageKept
      <3> QED
        BY <3>2, <3>3 DEF KybInv
    <2>6. CASE ~AnyHit(entity, hits)
      <3>1. Advance("sanctions_clear", [record EXCEPT !.cleared = TRUE], torn) /\ hits = {}
        BY <1>14, <2>6 DEF RunSanctionsReview, AnyHit
      <3> DEFINE row == [record EXCEPT !.cleared = TRUE]
      <3>r. /\ row \in KybRows
            /\ row.cleared = TRUE /\ row.status = record.status /\ row.approval = record.approval
        BY <1>t DEF KybRows
      <3>2. PICK rec : /\ rec \in KybRows /\ rec = row
                      /\ rec.cleared = TRUE /\ rec.status = record.status /\ rec.approval = record.approval
        BY <3>r
      <3>3. /\ <<record.status, "sanctions_clear", record'.status>> \in MerchantKybTable
            /\ record' \in KybRows /\ record'.approval = rec.approval /\ record'.cleared = rec.cleared
            /\ merchant' \in [status : KybStates, blocked : BOOLEAN]
            /\ CopyOK'
        BY <1>0, <3>1, <3>2, RecordAdvanced
      <3>4. record'.status = "RISK_ASSESSED"
        BY <1>t, <3>3, TableRows DEF KybRows
      <3>5. KybTypes'
        BY <1>t, <2>1, <2>3, <3>3 DEF KybTypes
      <3>6. ScreeningOK'
        BY <2>2, <3>1, <3>2, <3>3 DEF ScreeningOK
      <3>7. BooksOK'
        BY <1>0, <2>1, <3>4 DEF BooksOK, Opened
      <3>8. ApprovalOK'
        <4>1. \/ record.approval = NoRequest
              \/ record.approval \in Requests /\ EddOver(record.approval)
          BY <1>0, <2>1 DEF ApprovalOK, Agreed, Opened
        <4>2. CASE record.approval = NoRequest
          BY <3>2, <3>3, <3>4, <4>2 DEF ApprovalOK, Agreed, Opened
        <4>3. CASE record.approval \in Requests /\ EddOver(record.approval)
          <5>1. PICK q \in Requests : q = record.approval
            BY <4>3
          <5>2. EddOver(q)'
            BY <2>1, <4>3, <5>1 DEF EddOver
          <5> QED
            BY <3>2, <3>3, <3>4, <5>1, <5>2 DEF ApprovalOK
        <4> QED
          BY <4>1, <4>2, <4>3
      <3> QED
        BY <3>3, <3>5, <3>6, <3>7, <3>8 DEF KybInv
    <2> QED
      BY <2>5, <2>6
  <1>15. ASSUME NEW torn \in BOOLEAN, NEW who \in Officers, NEW approve \in BOOLEAN,
                DecideActivation(who, approve, torn)
         PROVE  KybInv'
    <2>1. PICK q \in Requests : q = record.approval /\ Decide(q, who, approve)
      BY <1>t, <1>15 DEF DecideActivation, KybRows
    <2>2. /\ asked' \in [Requests -> AskedRows] /\ asked[q].state = "PENDING"
          /\ asked'[q].kind = asked[q].kind /\ asked'[q].initiator # asked'[q].approver
          /\ asked'[q].state = IF approve THEN "APPROVED" ELSE "REJECTED"
      BY <1>0, <2>1, Decided
    <2>3. UNCHANGED <<owner, issued>>
      BY <1>15 DEF DecideActivation
    <2>4. CASE UNCHANGED <<record, merchant, downs>>
      <3>1. KybTypes' /\ ScreeningOK' /\ BooksOK' /\ CopyOK'
        BY <1>t, <1>s, <2>2, <2>3, <2>4, Stayed
      <3>2. ApprovalOK'
        BY <2>1, <2>4, DecisionKept
      <3> QED
        BY <3>1, <3>2 DEF KybInv
    <2>5. ASSUME NEW t, t = IF approve THEN "two_eyes_approved" ELSE "two_eyes_rejected",
                 Advance(t, [record EXCEPT !.dated = approve /\ ~torn], torn)
          PROVE  KybInv'
      <3> DEFINE row == [record EXCEPT !.dated = approve /\ ~torn]
      <3>r. /\ row \in KybRows
            /\ row.cleared = record.cleared /\ row.status = record.status /\ row.approval = record.approval
        BY <1>t DEF KybRows
      <3>1. PICK rec : /\ rec \in KybRows /\ rec = row
                      /\ rec.cleared = record.cleared /\ rec.status = record.status
                      /\ rec.approval = record.approval
        BY <3>r
      <3>2. Advance(t, rec, torn) /\ t \notin {"agreement_signed", "sanctions_clear"}
        BY <2>5, <3>1
      <3>3. /\ <<record.status, t, record'.status>> \in MerchantKybTable
            /\ record'.approval = q
        BY <1>0, <2>1, <3>1, <3>2, RecordAdvanced
      <3>4. KybTypes' /\ ScreeningOK' /\ BooksOK' /\ CopyOK'
        BY <1>t, <1>s, <2>2, <2>3, <3>1, <3>2, Stepped
      <3>5. CASE approve
        <4>1. record.status = "RISK_ASSESSED" /\ record'.status = "AGREEMENT_PENDING"
          BY <1>t, <2>5, <3>3, <3>5, TableRows DEF KybRows
        <4>2. Activation(q)
          BY <1>0, <2>1, <2>2, <4>1, RequestsAssumption DEF ApprovalOK, EddOver, Agreed, Opened
        <4>3. FreelyGranted(q)'
          BY <2>2, <3>5, <4>2 DEF FreelyGranted, Activation
        <4> QED
          BY <3>3, <3>4, <4>1, <4>3 DEF KybInv, ApprovalOK, Agreed
      <3>6. CASE ~approve
        <4>1. record'.status = "REJECTED"
          BY <1>t, <2>5, <3>3, <3>6, TableRows DEF KybRows
        <4> QED
          BY <3>4, <4>1 DEF KybInv, ApprovalOK
      <3> QED
        BY <3>5, <3>6
    <2> QED
      BY <1>15, <2>4, <2>5 DEF DecideActivation
  <1>16. CASE UNCHANGED kyb
    BY <1>0, <1>16 DEF kyb, KybInv, KybTypes, ScreeningOK, ApprovalOK, BooksOK, CopyOK, EddOver, FreelyGranted,
                       Activation
  <1> QED
    BY <1>1, <1>2, <1>3, <1>4, <1>5, <1>6, <1>7, <1>8, <1>9, <1>11, <1>12, <1>13, <1>14, <1>15, <1>16
       DEF BNext

(* A merchant that payments see as ACTIVE went through the whole procedure,  *)
(* for any owners, officers and requests: the sanctions review cleared every *)
(* owner named then, another officer approved the activation, and accounts   *)
(* and key were issued once (service.py, _advance and its callers).          *)
THEOREM ActiveStaysEarned == BSpec => []ActiveIsEarned
  <1>1. KybInv => ActiveIsEarned
    <2> SUFFICES ASSUME KybInv PROVE ActiveIsEarned
      OBVIOUS
    <2>1. ScreeningOK /\ ApprovalOK /\ BooksOK /\ CopyOK
      BY DEF KybInv
    <2>2. issued > 0 => record.status \in Opened
      BY <2>1 DEF BooksOK
    <2>3. ASSUME merchant.status = "ACTIVE"
          PROVE  /\ record.cleared /\ issued = 1 /\ ~merchant.blocked
                 /\ \A n \in Owners : owner[n].sanctions # "HIT_UNREVIEWED"
                 /\ FreelyGranted(record.approval)
      <3>1. record.status \in Opened /\ ~merchant.blocked
        BY <2>1, <2>3 DEF CopyOK
      <3>2. issued = 1
        BY <2>1, <3>1 DEF BooksOK
      <3>3. record.cleared /\ \A n \in Owners : owner[n].sanctions # "HIT_UNREVIEWED"
        BY <2>1, <3>1 DEF ScreeningOK, Assessed, Agreed
      <3>4. FreelyGranted(record.approval)
        BY <2>1, <3>1 DEF ApprovalOK, Agreed, Opened
      <3> QED
        BY <3>1, <3>2, <3>3, <3>4
    <2> QED
      BY <2>2, <2>3 DEF ActiveIsEarned, FreelyGranted, Activation, Opened
  <1> QED
    BY <1>1, KybInitial, KybStep, PTL DEF BSpec
=============================================================================
