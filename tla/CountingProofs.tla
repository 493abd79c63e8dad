--------------------------- MODULE CountingProofs ---------------------------
(***************************************************************************)
(* The components whose argument counts: answers against reservations,     *)
(* conformance runs by their number, claims by the day they were recorded. *)
(* KeysAnswerOnce: a key acts once per reservation that did not expire.    *)
(* StagesStayEarned: a participant past a stage of its onboarding has what *)
(* the stage asks for.  DossiersStaySound: what a finished dossier says of *)
(* its facts and of itself.                                                *)
(***************************************************************************)
EXTENDS RequestEdge, Participants, Dossiers, FiniteSetTheorems, TLAPS

(* A step that names no prover is tried with each of these in turn.         *)
USE ZenonT(2), SMT, Zenon, SMTT(30)

Places == {"sent", "admitted", "conflicted", "running", "finishing", "answered", "dead"}

CallAnswers == {"none", "small", "large", "failed", "limited", "processing", "mismatch", "too_large",
            "replay", "fresh"}

Fresh == {c \in Calls : Answered(c, "fresh")}

AtWork(c) == request[c].at \in {"running", "finishing"}

Stored == reservation # NoReservation /\ reservation.state = "COMPLETED"

EdgeType ==
    /\ reservation \in Reservations \cup {NoReservation} /\ overdue \in BOOLEAN /\ body \in [Calls -> Bodies]
    /\ request \in [Calls -> [at : Places, res : CallAnswers, by : Calls \cup {NoRequest}]]
    /\ hits \in Nat /\ expiries \in Nat /\ admitted \in SUBSET Calls

WithinLimit == Cardinality(admitted) <= hits /\ Cardinality(admitted) <= RateLimit

WorksAlone(c) ==
    AtWork(c) =>
       /\ reservation # NoReservation /\ reservation.state = "IN_FLIGHT" /\ reservation.by = c /\ reservation.hash = body[c] /\ ~overdue
       /\ request[c].res \in {"none", "small", "large", "failed"}

StoredIsFresh == Stored => Answered(reservation.by, "fresh") /\ reservation.hash = body[reservation.by]

PaidFor == Cardinality(Fresh) <= expiries + IF Stored /\ ~overdue THEN 1 ELSE 0

ReplaysFresh(c) ==
    Answered(c, "replay") =>
       request[c].by \in Calls /\ body[request[c].by] = body[c] /\ Answered(request[c].by, "fresh")

(* A row in flight belongs to the one request at work on it; an answer is    *)
(* paid for by the row that stores it, or by the expiry that ended that row. *)
EdgeInv ==
    /\ EdgeType /\ WithinLimit /\ StoredIsFresh /\ PaidFor
    /\ \A c \in Calls : WorksAlone(c) /\ ReplaysFresh(c)

LEMMA EdgeInitially == EInit => EdgeInv
  <1> SUFFICES ASSUME EInit PROVE EdgeInv
    OBVIOUS
  <1>1. Cardinality({}) = 0
    BY FS_EmptySet
  <1>2. Fresh = {}
    BY DEF EInit, Fresh, Answered
  <1>3. ~Stored
    BY DEF EInit, Stored
  <1>4. EdgeType
    BY DEF EInit, EdgeType, Places, CallAnswers
  <1>5. WithinLimit /\ PaidFor
    BY <1>1, <1>2, <1>3, EdgeAssumption DEF EInit, WithinLimit, PaidFor
  <1>6. \A c \in Calls : WorksAlone(c) /\ ReplaysFresh(c)
    BY DEF EInit, WorksAlone, ReplaysFresh, AtWork, Answered
  <1> QED
    BY <1>3, <1>4, <1>5, <1>6 DEF EdgeInv, StoredIsFresh

(* One request moves; whether it is thereby answered afresh decides Fresh.   *)
LEMMA MoveOne ==
    ASSUME EdgeInv, NEW c \in Calls, NEW at \in Places, NEW res \in CallAnswers,
           NEW by \in Calls \cup {NoRequest}, Move(c, at, res, by), request[c].at # "answered"
    PROVE  /\ request' \in [Calls -> [at : Places, res : CallAnswers, by : Calls \cup {NoRequest}]]
           /\ request'[c] = [at |-> at, res |-> res, by |-> by]
           /\ \A d \in Calls \ {c} : request'[d] = request[d]
           /\ IF at = "answered" /\ res = "fresh"
              THEN Cardinality(Fresh') = Cardinality(Fresh) + 1 ELSE Fresh' = Fresh
           /\ Cardinality(Fresh) \in Nat
  <1>1. /\ request'[c] = [at |-> at, res |-> res, by |-> by]
        /\ \A d \in Calls \ {c} : request'[d] = request[d]
    BY DEF Move, EdgeInv, EdgeType
  <1>2. c \notin Fresh /\ IsFiniteSet(Fresh)
    BY FS_Subset, EdgeAssumption DEF Fresh, Answered
  <1>3. CASE at = "answered" /\ res = "fresh"
    <2>1. Fresh' = Fresh \cup {c}
      BY <1>1, <1>3 DEF Fresh, Answered
    <2>2. Cardinality(Fresh \cup {c}) = Cardinality(Fresh) + 1
      BY <1>2, FS_AddElement
    <2> QED
      BY <1>1, <1>2, <1>3, <2>1, <2>2, FS_CardinalityType DEF Move, EdgeInv, EdgeType
  <1>4. CASE ~(at = "answered" /\ res = "fresh")
    <2>1. Fresh' = Fresh
      BY <1>1, <1>2, <1>4 DEF Fresh, Answered
    <2> QED
      BY <1>1, <1>2, <1>4, <2>1, FS_CardinalityType DEF Move, EdgeInv, EdgeType
  <1> QED
    BY <1>3, <1>4

(* A request that is not at work moves on, and the row and its age stay.     *)
LEMMA MovesOn ==
    ASSUME EdgeInv, NEW c \in Calls, ~AtWork(c), request[c].at # "answered",
           NEW at \in {"admitted", "conflicted", "answered"}, NEW res \in CallAnswers \ {"fresh"},
           NEW by \in Calls \cup {NoRequest}, Move(c, at, res, by),
           UNCHANGED <<reservation, overdue, body, expiries>>, hits' \in Nat, admitted' \in SUBSET Calls,
           WithinLimit',
           at = "answered" /\ res = "replay" => by \in Calls /\ body[by] = body[c] /\ Answered(by, "fresh")
    PROVE  EdgeInv'
  <1>0. at \in Places /\ res \in CallAnswers
    BY DEF Places
  <1>1. /\ request' \in [Calls -> [at : Places, res : CallAnswers, by : Calls \cup {NoRequest}]]
        /\ request'[c] = [at |-> at, res |-> res, by |-> by]
        /\ \A d \in Calls \ {c} : request'[d] = request[d]
        /\ Fresh' = Fresh
    BY <1>0, MoveOne
  <1>2. EdgeType'
    BY <1>1 DEF EdgeInv, EdgeType
  <1>3. \A d : Answered(d, "fresh") /\ d \in Calls => Answered(d, "fresh")' /\ d # c
    BY <1>1 DEF Answered
  <1>4. StoredIsFresh' /\ PaidFor'
    BY <1>1, <1>3 DEF EdgeInv, EdgeType, StoredIsFresh, PaidFor, Stored, Reservations
  <1>5. ASSUME NEW d \in Calls PROVE WorksAlone(d)' /\ ReplaysFresh(d)'
    <2>1. CASE d = c
      BY <1>1, <1>3, <2>1 DEF WorksAlone, ReplaysFresh, AtWork, Answered
    <2>2. CASE d # c
      BY <1>1, <1>3, <2>2 DEF EdgeInv, WorksAlone, ReplaysFresh, AtWork, Answered
    <2> QED
      BY <2>1, <2>2
  <1> QED
    BY <1>2, <1>4, <1>5 DEF EdgeInv

LEMMA EdgeStep == EdgeInv /\ [ENext]_edge => EdgeInv'
  <1> SUFFICES ASSUME EdgeInv, [ENext]_edge PROVE EdgeInv'
    OBVIOUS
  <1>0. /\ EdgeType /\ WithinLimit /\ StoredIsFresh /\ PaidFor /\ RateLimit \in Nat
        /\ IsFiniteSet(admitted) /\ Cardinality(admitted) \in Nat
    BY FS_Subset, FS_CardinalityType, EdgeAssumption DEF EdgeInv, EdgeType
  <1>1. ASSUME NEW c \in Calls, CheckLimit(c) PROVE EdgeInv'
    <2>1. Cardinality(admitted \cup {c}) \in {Cardinality(admitted), Cardinality(admitted) + 1}
      BY <1>0, FS_AddElement
    <2>2. WithinLimit' /\ hits' \in Nat /\ admitted' \in SUBSET Calls
      <3>1. /\ hits' = hits + 1 /\ hits \in Nat /\ admitted \in SUBSET Calls
            /\ \/ hits' <= RateLimit /\ admitted' = admitted \cup {c}
               \/ admitted' = admitted
        BY <1>0, <1>1 DEF CheckLimit, EdgeType
      <3>2. CASE admitted' = admitted
        BY <1>0, <3>1, <3>2 DEF WithinLimit
      <3>3. CASE hits' <= RateLimit /\ admitted' = admitted \cup {c}
        <4>1. Cardinality(admitted') \in {Cardinality(admitted), Cardinality(admitted) + 1}
          BY <2>1, <3>3
        <4> QED
          BY <1>0, <3>1, <3>3, <4>1 DEF WithinLimit
      <3> QED
        BY <3>1, <3>2, <3>3
    <2>3. /\ Move(c, "admitted", "none", NoRequest) \/ Move(c, "answered", "limited", NoRequest)
          /\ request[c].at = "sent" /\ UNCHANGED <<reservation, overdue, body, expiries>>
      BY <1>1 DEF CheckLimit
    <2> QED
      BY <2>2, <2>3, MovesOn DEF AtWork, CallAnswers
  <1>2. ASSUME NEW c \in Calls, LimiterDown(c) PROVE EdgeInv'
    BY <1>0, <1>2, MovesOn DEF LimiterDown, AtWork, CallAnswers, WithinLimit, EdgeType
  <1>3. CASE NextWindow
    <2>1. WithinLimit'
      BY <1>0, <1>3, FS_EmptySet DEF NextWindow, WithinLimit
    <2> QED
      BY <1>3, <2>1 DEF NextWindow, EdgeInv, EdgeType, StoredIsFresh, PaidFor, Stored, Fresh,
                        WorksAlone, ReplaysFresh, AtWork, Answered
  <1>4. ASSUME NEW c \in Calls, ReserveInsert(c), ~(reservation = NoReservation \/ overdue) PROVE EdgeInv'
    BY <1>0, <1>4, MovesOn DEF ReserveInsert, AtWork, CallAnswers, WithinLimit, EdgeType
  <1>5. ASSUME NEW c \in Calls, ReserveInsert(c), reservation = NoReservation \/ overdue PROVE EdgeInv'
    <2>1. /\ reservation' = [state |-> "IN_FLIGHT", hash |-> body[c], res |-> "none", by |-> c]
          /\ overdue' = FALSE /\ Move(c, "running", "none", c) /\ request[c].at = "admitted"
          /\ UNCHANGED <<body, hits, admitted, expiries>>
      BY <1>5 DEF ReserveInsert
    <2>2. "running" \in Places /\ "none" \in CallAnswers
      BY DEF Places, CallAnswers
    <2>3. /\ request' \in [Calls -> [at : Places, res : CallAnswers, by : Calls \cup {NoRequest}]]
          /\ request'[c] = [at |-> "running", res |-> "none", by |-> c]
          /\ \A d \in Calls \ {c} : request'[d] = request[d]
          /\ Fresh' = Fresh /\ Cardinality(Fresh) \in Nat
      BY <2>1, <2>2, MoveOne
    <2>4. reservation' \in Reservations /\ reservation' # NoReservation /\ reservation'.state = "IN_FLIGHT" /\ reservation'.by = c /\ reservation'.hash = body[c]
      BY <1>0, <2>1, EdgeAssumption DEF Reservations, EdgeType
    <2>5. ~Stored' /\ StoredIsFresh'
      BY <2>4 DEF Stored, StoredIsFresh
    <2>6. PaidFor'
      BY <1>0, <1>5, <2>1, <2>3, <2>5 DEF PaidFor, Stored, EdgeType
    <2>7. \A d \in Calls : ~AtWork(d)
      BY <1>5 DEF EdgeInv, WorksAlone
    <2>8. ASSUME NEW d \in Calls PROVE WorksAlone(d)' /\ ReplaysFresh(d)'
      <3>1. CASE d = c
        BY <2>1, <2>3, <2>4, <3>1 DEF WorksAlone, ReplaysFresh, AtWork, Answered
      <3>2. CASE d # c
        BY <2>1, <2>3, <2>7, <3>2 DEF EdgeInv, WorksAlone, ReplaysFresh, AtWork, Answered
      <3> QED
        BY <3>1, <3>2
    <2>9. EdgeType' /\ WithinLimit'
      BY <1>0, <2>1, <2>3, <2>4 DEF EdgeType, WithinLimit
    <2> QED
      BY <2>5, <2>6, <2>8, <2>9 DEF EdgeInv
  <1>6. ASSUME NEW c \in Calls, ReserveRead(c) PROVE EdgeInv'
    <2>1. /\ request[c].at = "conflicted" /\ ~AtWork(c)
          /\ UNCHANGED <<reservation, overdue, body, hits, admitted, expiries>>
      BY <1>6 DEF ReserveRead, AtWork
    <2>2. hits' \in Nat /\ admitted' \in SUBSET Calls /\ WithinLimit'
      BY <1>0, <2>1 DEF EdgeType, WithinLimit
    <2>3. CASE reservation = NoReservation \/ reservation.state = "IN_FLIGHT"
      <3>1. Move(c, "answered", "processing", NoRequest)
        BY <1>6, <2>3 DEF ReserveRead
      <3> QED
        BY <2>1, <2>2, <3>1, MovesOn DEF CallAnswers
    <2>4. CASE reservation # NoReservation /\ reservation.state # "IN_FLIGHT" /\ reservation.hash # body[c]
      <3>1. Move(c, "answered", "mismatch", NoRequest)
        BY <1>6, <2>4 DEF ReserveRead
      <3> QED
        BY <2>1, <2>2, <3>1, MovesOn DEF CallAnswers
    <2>5. CASE reservation # NoReservation /\ reservation.state # "IN_FLIGHT" /\ reservation.hash = body[c]
      <3>1. reservation.by \in Calls /\ body[reservation.by] = body[c] /\ Answered(reservation.by, "fresh")
        BY <1>0, <2>5 DEF EdgeType, Reservations, StoredIsFresh, Stored
      <3>2. Move(c, "answered", "too_large", NoRequest) \/ Move(c, "answered", "replay", reservation.by)
        BY <1>6, <2>5 DEF ReserveRead
      <3> QED
        BY <2>1, <2>2, <3>1, <3>2, MovesOn DEF CallAnswers
    <2> QED
      BY <2>3, <2>4, <2>5
  <1>7. ASSUME NEW c \in Calls, NEW at \in {"finishing", "dead"},
               NEW res \in {"none", "small", "large", "failed"}, NEW by \in Calls \cup {NoRequest},
               AtWork(c), Move(c, at, res, by),
               UNCHANGED <<reservation, overdue, body, hits, admitted, expiries>>
        PROVE  EdgeInv'
    <2>1. at \in Places /\ res \in CallAnswers /\ request[c].at # "answered"
      BY <1>7 DEF Places, CallAnswers, AtWork
    <2>2. /\ request' \in [Calls -> [at : Places, res : CallAnswers, by : Calls \cup {NoRequest}]]
          /\ request'[c] = [at |-> at, res |-> res, by |-> by]
          /\ \A d \in Calls \ {c} : request'[d] = request[d]
          /\ Fresh' = Fresh
      BY <1>7, <2>1, MoveOne
    <2>3. EdgeType' /\ WithinLimit'
      BY <1>0, <1>7, <2>2 DEF EdgeType, WithinLimit
    <2>4. \A d \in Calls : Answered(d, "fresh") => Answered(d, "fresh")'
      BY <2>1, <2>2 DEF Answered
    <2>5. StoredIsFresh' /\ PaidFor'
      BY <1>0, <1>7, <2>2, <2>4 DEF StoredIsFresh, PaidFor, Stored, EdgeType, Reservations
    <2>6. ASSUME NEW d \in Calls PROVE WorksAlone(d)' /\ ReplaysFresh(d)'
      <3>1. CASE d = c
        BY <1>7, <2>2, <3>1 DEF EdgeInv, WorksAlone, ReplaysFresh, AtWork, Answered
      <3>2. CASE d # c
        BY <1>7, <2>2, <2>4, <3>2 DEF EdgeInv, WorksAlone, ReplaysFresh, AtWork, Answered
      <3> QED
        BY <3>1, <3>2
    <2> QED
      BY <2>3, <2>5, <2>6 DEF EdgeInv
  <1>8. ASSUME NEW c \in Calls, NEW res \in {"small", "large", "failed"}, HandlerEnds(c, res)
        PROVE  EdgeInv'
    BY <1>7, <1>8 DEF HandlerEnds, AtWork
  <1>9. ASSUME NEW c \in Calls, CallDies(c) PROVE EdgeInv'
    BY <1>7, <1>9 DEF CallDies, AtWork
  <1>10. ASSUME NEW c \in Calls, Complete(c) PROVE EdgeInv'
    <2>1. /\ AtWork(c) /\ request[c].at # "answered" /\ reservation # NoReservation /\ reservation.state = "IN_FLIGHT"
          /\ reservation.by = c /\ reservation.hash = body[c] /\ ~overdue /\ request[c].res \in {"none", "small", "large"}
      BY <1>10 DEF Complete, AtWork, EdgeInv, WorksAlone
    <2>2. /\ reservation' = [reservation EXCEPT !.state = "COMPLETED", !.res = request[c].res, !.by = c]
          /\ Move(c, "answered", "fresh", c)
          /\ UNCHANGED <<overdue, body, hits, admitted, expiries>>
      BY <1>10, <2>1 DEF Complete
    <2>3. "answered" \in Places /\ "fresh" \in CallAnswers
      BY DEF Places, CallAnswers
    <2>4. /\ request' \in [Calls -> [at : Places, res : CallAnswers, by : Calls \cup {NoRequest}]]
          /\ request'[c] = [at |-> "answered", res |-> "fresh", by |-> c]
          /\ \A d \in Calls \ {c} : request'[d] = request[d]
          /\ Cardinality(Fresh') = Cardinality(Fresh) + 1 /\ Cardinality(Fresh) \in Nat
      BY <2>1, <2>2, <2>3, MoveOne
    <2>5. reservation \in Reservations
      BY <1>0, <2>1 DEF EdgeType
    <2>6. /\ reservation' \in Reservations /\ reservation'.state = "COMPLETED" /\ reservation'.by = c /\ reservation'.hash = body[c]
          /\ reservation' # NoReservation
      BY <2>1, <2>2, <2>5, EdgeAssumption DEF Reservations
    <2>7. Answered(c, "fresh")' /\ \A d \in Calls : Answered(d, "fresh") => Answered(d, "fresh")'
      BY <2>4 DEF Answered
    <2>8. StoredIsFresh' /\ Stored' /\ ~Stored
      BY <2>1, <2>2, <2>6, <2>7 DEF StoredIsFresh, Stored
    <2>9. PaidFor'
      BY <1>0, <2>1, <2>2, <2>4, <2>8 DEF PaidFor, EdgeType
    <2>10. ASSUME NEW d \in Calls PROVE WorksAlone(d)' /\ ReplaysFresh(d)'
      <3>1. CASE d = c
        BY <2>4, <3>1 DEF WorksAlone, ReplaysFresh, AtWork, Answered
      <3>2. CASE d # c
        <4>1. ~AtWork(d)
          BY <2>1, <3>2 DEF EdgeInv, WorksAlone
        <4> QED
          BY <2>2, <2>4, <2>7, <3>2, <4>1 DEF EdgeInv, WorksAlone, ReplaysFresh, AtWork, Answered
      <3> QED
        BY <3>1, <3>2
    <2>11. EdgeType' /\ WithinLimit'
      BY <1>0, <2>2, <2>4, <2>6 DEF EdgeType, WithinLimit
    <2> QED
      BY <2>8, <2>9, <2>10, <2>11 DEF EdgeInv
  <1>11. ASSUME NEW c \in Calls, Release(c) PROVE EdgeInv'
    <2>1. AtWork(c) /\ request[c].at # "answered" /\ reservation # NoReservation /\ reservation.state = "IN_FLIGHT" /\ reservation.by = c
      BY <1>11 DEF Release, AtWork, EdgeInv, WorksAlone
    <2>2. /\ reservation' = NoReservation /\ overdue' = FALSE /\ Move(c, "answered", "failed", NoRequest)
          /\ UNCHANGED <<body, hits, admitted, expiries>>
      BY <1>11, <2>1 DEF Release
    <2>3. "answered" \in Places /\ "failed" \in CallAnswers
      BY DEF Places, CallAnswers
    <2>4. /\ request' \in [Calls -> [at : Places, res : CallAnswers, by : Calls \cup {NoRequest}]]
          /\ request'[c] = [at |-> "answered", res |-> "failed", by |-> NoRequest]
          /\ \A d \in Calls \ {c} : request'[d] = request[d]
          /\ Fresh' = Fresh /\ Cardinality(Fresh) \in Nat
      BY <2>1, <2>2, <2>3, MoveOne
    <2>5. ~Stored /\ ~Stored' /\ StoredIsFresh'
      BY <2>1, <2>2 DEF Stored, StoredIsFresh
    <2>6. PaidFor'
      BY <1>0, <2>2, <2>4, <2>5 DEF PaidFor, EdgeType
    <2>7. \A d \in Calls : Answered(d, "fresh") => Answered(d, "fresh")'
      BY <2>1, <2>4 DEF Answered
    <2>8. ASSUME NEW d \in Calls PROVE WorksAlone(d)' /\ ReplaysFresh(d)'
      <3>1. CASE d = c
        BY <2>4, <3>1 DEF WorksAlone, ReplaysFresh, AtWork, Answered
      <3>2. CASE d # c
        <4>1. ~AtWork(d)
          BY <2>1, <3>2 DEF EdgeInv, WorksAlone
        <4> QED
          BY <2>2, <2>4, <2>7, <3>2, <4>1 DEF EdgeInv, WorksAlone, ReplaysFresh, AtWork, Answered
      <3> QED
        BY <3>1, <3>2
    <2>9. EdgeType' /\ WithinLimit'
      BY <1>0, <2>2, <2>4 DEF EdgeType, WithinLimit
    <2> QED
      BY <2>5, <2>6, <2>8, <2>9 DEF EdgeInv
  <1>12. CASE TtlPasses
    <2>1. Cardinality(Fresh) \in Nat
      BY FS_Subset, FS_CardinalityType, EdgeAssumption DEF Fresh
    <2>2. Fresh' = Fresh /\ StoredIsFresh'
      BY <1>0, <1>12 DEF TtlPasses, Fresh, Answered, StoredIsFresh, Stored
    <2>3. PaidFor'
      BY <1>0, <1>12, <2>1, <2>2 DEF TtlPasses, PaidFor, Stored, EdgeType
    <2>4. EdgeType' /\ WithinLimit'
      BY <1>0, <1>12 DEF TtlPasses, EdgeType, WithinLimit
    <2>5. \A d \in Calls : WorksAlone(d)' /\ ReplaysFresh(d)'
      BY <1>12 DEF TtlPasses, EdgeInv, WorksAlone, ReplaysFresh, AtWork, Answered
    <2> QED
      BY <2>2, <2>3, <2>4, <2>5 DEF EdgeInv
  <1>13. CASE UNCHANGED edge
    BY <1>13 DEF edge, EdgeInv, EdgeType, WithinLimit, StoredIsFresh, PaidFor, Stored, Fresh,
                 WorksAlone, ReplaysFresh, AtWork, Answered
  <1> QED
    BY <1>1, <1>2, <1>3, <1>4, <1>5, <1>6, <1>8, <1>9, <1>10, <1>11, <1>12, <1>13 DEF ENext

LEMMA EdgeImplies == EdgeInv => OneAnswerPerKey
  <1> SUFFICES ASSUME EdgeInv PROVE OneAnswerPerKey
    OBVIOUS
  <1>1. Cardinality(Fresh) \in Nat
    BY FS_Subset, FS_CardinalityType, EdgeAssumption DEF Fresh
  <1>2. Cardinality(Fresh) <= 1 + expiries
    BY <1>1 DEF EdgeInv, EdgeType, PaidFor
  <1> QED
    BY <1>2 DEF EdgeInv, ReplaysFresh, WithinLimit, OneAnswerPerKey, Fresh

(* For any number of requests with one key, any bodies, any limit and any    *)
(* number of windows, expiries and deaths: the key acts once per reservation *)
(* that did not expire, a replay repeats an executed answer to the same      *)
(* body, and no window of a working counter admits more than its limit.      *)
THEOREM KeysAnswerOnce == ESpec => []OneAnswerPerKey
  BY EdgeInitially, EdgeStep, EdgeImplies, PTL DEF ESpec

(***************************************************************************)
(* Participants.                                                           *)
(***************************************************************************)

PartyStates == {"none", "APPLICATION_SUBMITTED", "DOCUMENT_VERIFICATION_PENDING", "MOU_SIGNED",
                "CONFORMANCE_TESTING", "CONFORMANCE_PASSED", "NDC_ASSIGNMENT_PENDING", "ACTIVE",
                "SUSPENDED", "TERMINATED", "REJECTED"}
Verifying == {"none", "APPLICATION_SUBMITTED", "DOCUMENT_VERIFICATION_PENDING", "REJECTED"}
Tested == {"CONFORMANCE_PASSED", "NDC_ASSIGNMENT_PENDING", "ACTIVE", "SUSPENDED", "TERMINATED"}

IsLive(doc) == doc.status \in {"PENDING", "VERIFIED"}
IsVerified(doc) == doc.status = "VERIFIED"

(* The rows have their columns, and what the documents and the requests say  *)
(* holds at every stage.                                                     *)
Signers == Persons \cup {"none"}
Docs == [status : {"none", "PENDING", "VERIFIED", "SUPERSEDED", "REJECTED"}, by : Signers, checker : Signers]
RunStates == {"none", "QUEUED", "RUNNING", "PASSED", "FAILED", "ERRORED"}
Trials == [dir : Directions \cup {"none"}, status : RunStates, started : BOOLEAN]
Grants == [state : {"none", "PENDING", "APPROVED", "REJECTED"}, by : Signers, approver : Signers]
Doc(d) == d \in Docs
Trial(t) == t \in Trials
Ask(g) == g \in Grants

PartyType ==
    /\ member = [status |-> member.status, licensed |-> member.licensed, activated |-> member.activated]
    /\ member.status \in PartyStates
    /\ docs = [x \in Papers |-> docs[x]] /\ \A x \in Papers : Doc(docs[x])
    /\ trial = [r \in Runs |-> trial[r]] /\ \A r \in Runs : Trial(trial[r])
    /\ grant = [a \in Petitions |-> grant[a]] /\ \A a \in Petitions : Ask(grant[a])

DocsChecked == \A x \in Papers : IsVerified(docs[x]) => docs[x].by # docs[x].checker
OneLive == \A x, y \in Papers : Class[x] = Class[y] /\ IsLive(docs[x]) /\ IsLive(docs[y]) => x = y
GrantsChecked == \A a \in Petitions : grant[a].state = "APPROVED" => grant[a].by # grant[a].approver

AllVerified == \A c \in Classes : \E x \in Papers : Class[x] = c /\ IsVerified(docs[x])
AllPassed == \A d \in Directions : \E r \in Runs : trial[r].dir = d /\ trial[r].status = "PASSED"
Granted == \E a \in Petitions : grant[a].state = "APPROVED"

PartyInv ==
    /\ PartyType /\ DocsChecked /\ OneLive /\ GrantsChecked
    /\ member.status \notin Verifying => AllVerified
    /\ member.status \in Tested => AllPassed
    /\ member.activated => Granted

(* What a trigger makes of the participant's state.                          *)
LEMMA PartyRows ==
    \A t \in ParticipantV2Table :
       /\ t[3] \in PartyStates
       /\ t[1] \in Verifying /\ t[3] \notin Verifying => t[2] = "mou_recorded"
       /\ t[1] \notin Tested /\ t[3] \in Tested => t[2] = "conformance_passed"
       /\ t[2] \in {"document_verified", "document_rejected"} => t[1] = "DOCUMENT_VERIFICATION_PENDING"
  BY DEF ParticipantV2Table, PartyStates, Verifying, Tested

LEMMA PartyAdvances ==
    ASSUME NEW trigger, PartyType, AdvanceParty(trigger)
    PROVE  /\ member' = [status |-> member'.status, licensed |-> member.licensed, activated |-> member.activated]
           /\ member'.status \in PartyStates
           /\ member.status \in Verifying /\ member'.status \notin Verifying => trigger = "mou_recorded"
           /\ member.status \notin Tested /\ member'.status \in Tested => trigger = "conformance_passed"
  <1> DEFINE t == CHOOSE u \in PartyRule(trigger) : TRUE
  <1>1. t \in PartyRule(trigger)
    BY Zenon DEF AdvanceParty
  <1>2. t \in ParticipantV2Table /\ t[1] = member.status /\ t[2] = trigger
    BY <1>1, Zenon DEF PartyRule
  <1>3. member' = [member EXCEPT !.status = t[3]]
    BY Zenon DEF AdvanceParty
  <1>4. member' = [status |-> t[3], licensed |-> member.licensed, activated |-> member.activated]
    BY <1>3 DEF PartyType
  <1> HIDE DEF t
  <1> QED
    BY <1>2, <1>4, PartyRows

LEMMA PartyInitially == PInit => PartyInv
  <1> SUFFICES ASSUME PInit PROVE PartyInv
    OBVIOUS
  <1>1. PartyType
    <2>1. docs = [x \in Papers |-> docs[x]] /\ \A x \in Papers : Doc(docs[x])
      BY DEF PInit, NoDoc, Doc, Docs, Signers
    <2>2. trial = [r \in Runs |-> trial[r]] /\ \A r \in Runs : Trial(trial[r])
      BY DEF PInit, NoTrial, Trial, Trials, RunStates
    <2>3. grant = [a \in Petitions |-> grant[a]] /\ \A a \in Petitions : Ask(grant[a])
      BY DEF PInit, NoGrant, Ask, Grants, Signers
    <2> QED
      BY <2>1, <2>2, <2>3 DEF PInit, PartyType, PartyStates
  <1> QED
    BY <1>1 DEF PInit, PartyInv, DocsChecked, OneLive, GrantsChecked, IsLive, IsVerified, NoDoc, NoGrant,
                Verifying, Tested

(* What a step has to keep, and what it has to have where it takes the       *)
(* participant to a further stage.                                           *)
LEMMA PartyMoves ==
    ASSUME PartyInv, PartyType', DocsChecked', OneLive', GrantsChecked',
           member'.status \notin Verifying =>
              /\ member.status \notin Verifying \/ AllVerified
              /\ \A x \in Papers : IsVerified(docs[x]) => IsVerified(docs'[x]),
           member'.status \in Tested => member.status \in Tested \/ AllPassed,
           \A r \in Runs : trial[r].status = "PASSED" => trial'[r] = trial[r],
           member'.activated => member.activated \/ Granted,
           \A a \in Petitions : grant[a].state = "APPROVED" => grant'[a] = grant[a]
    PROVE  PartyInv'
  <1>1. ASSUME member'.status \notin Verifying PROVE AllVerified'
    <2>1. AllVerified
      BY <1>1, Zenon DEF PartyInv
    <2> QED
      BY <1>1, <2>1, Zenon DEF AllVerified
  <1>2. ASSUME member'.status \in Tested PROVE AllPassed'
    <2>1. AllPassed
      BY <1>2, Zenon DEF PartyInv
    <2>2. ASSUME NEW d \in Directions PROVE \E r \in Runs : trial'[r].dir = d /\ trial'[r].status = "PASSED"
      <3>1. PICK r \in Runs : trial[r].dir = d /\ trial[r].status = "PASSED"
        BY <2>1, Zenon DEF AllPassed
      <3>2. trial'[r] = trial[r]
        BY <3>1, Zenon
      <3> QED
        BY <3>1, <3>2
    <2> QED
      BY <2>2, Zenon DEF AllPassed
  <1>3. ASSUME member'.activated PROVE Granted'
    BY <1>3, Zenon DEF PartyInv, Granted
  <1> QED
    BY <1>1, <1>2, <1>3, Zenon DEF PartyInv

LEMMA PartyStutters ==
    ASSUME PartyInv, UNCHANGED <<member, docs, trial, grant>>
    PROVE  PartyInv'
  <1>1. PartyType'
    BY Zenon DEF PartyInv, PartyType, Doc, Trial, Ask
  <1>2. DocsChecked' /\ OneLive' /\ GrantsChecked'
    BY Zenon DEF PartyInv, DocsChecked, OneLive, GrantsChecked
  <1> QED
    BY <1>1, <1>2, PartyMoves, Zenon DEF PartyInv

(* A step of the participant's state alone.                                  *)
LEMMA PartySteps ==
    ASSUME NEW trigger, PartyInv, AdvanceParty(trigger), UNCHANGED <<docs, trial, grant>>,
           trigger = "mou_recorded" => AllVerified, trigger = "conformance_passed" => AllPassed
    PROVE  PartyInv'
  <1>1. /\ member' = [status |-> member'.status, licensed |-> member.licensed, activated |-> member.activated]
        /\ member'.status \in PartyStates
        /\ member.status \in Verifying /\ member'.status \notin Verifying => trigger = "mou_recorded"
        /\ member.status \notin Tested /\ member'.status \in Tested => trigger = "conformance_passed"
    BY PartyAdvances, Zenon DEF PartyInv
  <1>2. member'.licensed = member.licensed /\ member'.activated = member.activated
    BY <1>1
  <1>3. PartyType'
    BY <1>1, <1>2, Zenon DEF PartyInv, PartyType, Doc, Trial, Ask
  <1>4. DocsChecked' /\ OneLive' /\ GrantsChecked'
    BY Zenon DEF PartyInv, DocsChecked, OneLive, GrantsChecked
  <1> QED
    BY <1>1, <1>2, <1>3, <1>4, PartyMoves, Zenon DEF PartyInv

(* ---- documents -------------------------------------------------------- *)

(* What a step may make of the documents while they are verified.            *)
LEMMA DocsMove ==
    ASSUME PartyInv, UNCHANGED <<trial, grant>>,
           member' = [status |-> member'.status, licensed |-> member'.licensed, activated |-> member'.activated],
           member'.status = member.status, member'.activated = member.activated,
           docs' = [x \in Papers |-> docs'[x]], \A x \in Papers : Doc(docs'[x]), DocsChecked', OneLive',
           member.status \notin Verifying => \A x \in Papers : IsVerified(docs[x]) => IsVerified(docs'[x])
    PROVE  PartyInv'
  <1>1. PartyType'
    BY Zenon DEF PartyInv, PartyType, Trial, Ask
  <1>2. GrantsChecked'
    BY Zenon DEF PartyInv, GrantsChecked
  <1> QED
    BY <1>1, <1>2, PartyMoves, Zenon DEF PartyInv

LEMMA DocumentIsRegistered ==
    ASSUME PartyInv, NEW x \in Papers, NEW who \in Persons, NEW torn \in BOOLEAN, RegisterDocument(x, who, torn)
    PROVE  PartyInv'
  <1> DEFINE new == [status |-> "PENDING", by |-> who, checker |-> "none"]
  <1>1. \A y \in Papers : y \in Live(Class[x]) <=> Class[y] = Class[x] /\ IsLive(docs[y])
    BY Zenon DEF Live, IsLive
  <1>2. ASSUME NEW y \in Papers
        PROVE  \/ Class[y] = Class[x] /\ IsLive(docs[y]) /\ docs'[y] = Retired("SUPERSEDED")
               \/ ~(Class[y] = Class[x] /\ IsLive(docs[y])) /\ (docs'[y] = docs[y] \/ (y = x /\ docs'[y] = new))
    BY <1>1 DEF RegisterDocument
  <1>3. Retired("SUPERSEDED") = [status |-> "SUPERSEDED", by |-> "none", checker |-> "none"]
    BY DEF Retired, NoDoc
  <1>4. docs' = [y \in Papers |-> docs'[y]]
    BY DEF RegisterDocument
  <1>5. \A y \in Papers : Doc(docs'[y])
    BY <1>2, <1>3 DEF PartyInv, PartyType, Doc, Docs, Signers
  <1>6. DocsChecked'
    BY <1>2, <1>3 DEF PartyInv, DocsChecked, IsVerified
  <1>7. OneLive'
    BY <1>2, <1>3 DEF PartyInv, OneLive, IsLive
  <1>8. UNCHANGED <<member, trial, grant>> /\ member.status \in Verifying
    BY DEF RegisterDocument, Verifying
  <1> QED
    BY <1>4, <1>5, <1>6, <1>7, <1>8, DocsMove, Zenon DEF PartyInv, PartyType

(* A document that was pending gets another row of its class: nothing live   *)
(* is added.                                                                 *)
LEMMA DocumentMoves ==
    ASSUME PartyInv, NEW x \in Papers, docs[x].status = "PENDING", NEW row, Doc(row),
           docs' = [docs EXCEPT ![x] = row], IsVerified(row) => row.by # row.checker
    PROVE  /\ docs' = [y \in Papers |-> docs'[y]] /\ \A y \in Papers : Doc(docs'[y])
           /\ DocsChecked' /\ OneLive'
           /\ \A y \in Papers : IsVerified(docs[y]) => IsVerified(docs'[y])
  <1>1. docs = [y \in Papers |-> docs[y]] /\ \A y \in Papers : Doc(docs[y])
    BY Zenon DEF PartyInv, PartyType
  <1>2. docs' = [y \in Papers |-> docs'[y]] /\ \A y \in Papers : docs'[y] = IF y = x THEN row ELSE docs[y]
    BY <1>1
  <1>3. IsLive(docs[x]) /\ ~IsVerified(docs[x])
    BY DEF IsLive, IsVerified
  <1>4. \A y \in Papers : Doc(docs'[y])
    BY <1>1, <1>2
  <1>5. DocsChecked'
    BY <1>2 DEF PartyInv, DocsChecked
  <1>6. OneLive'
    BY <1>2, <1>3 DEF PartyInv, OneLive
  <1>7. \A y \in Papers : IsVerified(docs[y]) => IsVerified(docs'[y])
    BY <1>2, <1>3
  <1> QED
    BY <1>2, <1>4, <1>5, <1>6, <1>7

LEMMA DocumentIsVerified ==
    ASSUME PartyInv, NEW x \in Papers, NEW who \in Persons, NEW expired \in BOOLEAN, NEW torn \in BOOLEAN,
           VerifyDocument(x, who, expired, torn)
    PROVE  PartyInv'
  <1>1. CASE Class[x] = License /\ expired
    <2>1. AdvanceParty("license_invalid") /\ UNCHANGED <<docs, trial, grant>>
      BY <1>1, Zenon DEF VerifyDocument
    <2> QED
      BY <2>1, PartySteps
  <1>2. CASE ~(Class[x] = License /\ expired)
    <2> DEFINE row == [docs[x] EXCEPT !.status = "VERIFIED", !.checker = who]
    <2>1. /\ docs' = [docs EXCEPT ![x].status = "VERIFIED", ![x].checker = who]
          /\ WriteLicenseVerification(x, torn) /\ docs[x].status = "PENDING" /\ docs[x].by # who
          /\ UNCHANGED <<trial, grant>>
      BY <1>2, Zenon DEF VerifyDocument
    <2>2. docs = [y \in Papers |-> docs[y]] /\ docs[x] \in Docs
      BY Zenon DEF PartyInv, PartyType, Doc
    <2>3. docs' = [docs EXCEPT ![x] = row]
      BY <2>1, <2>2
    <2>4. Doc(row) /\ row.by # row.checker
      BY <2>1, <2>2 DEF Doc, Docs, Signers
    <2> HIDE DEF row
    <2>5. /\ docs' = [y \in Papers |-> docs'[y]] /\ \A y \in Papers : Doc(docs'[y])
          /\ DocsChecked' /\ OneLive'
          /\ \A y \in Papers : IsVerified(docs[y]) => IsVerified(docs'[y])
      BY <2>1, <2>3, <2>4, DocumentMoves, Zenon
    <2>6. /\ member' = [status |-> member'.status, licensed |-> member'.licensed, activated |-> member'.activated]
          /\ member'.status = member.status /\ member'.activated = member.activated
      BY <2>1 DEF WriteLicenseVerification, PartyInv, PartyType
    <2> QED
      BY <2>1, <2>5, <2>6, DocsMove, Zenon
  <1> QED
    BY <1>1, <1>2, Zenon

LEMMA DocumentIsRejected ==
    ASSUME PartyInv, NEW x \in Papers, RejectDocument(x)
    PROVE  PartyInv'
  <1>1. /\ docs' = [docs EXCEPT ![x] = Retired("REJECTED")] /\ docs[x].status = "PENDING"
        /\ UNCHANGED <<member, trial, grant>>
    BY Zenon DEF RejectDocument
  <1>2. Doc(Retired("REJECTED")) /\ ~IsVerified(Retired("REJECTED"))
    BY DEF Retired, NoDoc, Doc, Docs, Signers, IsVerified
  <1>3. /\ docs' = [y \in Papers |-> docs'[y]] /\ \A y \in Papers : Doc(docs'[y])
        /\ DocsChecked' /\ OneLive'
        /\ \A y \in Papers : IsVerified(docs[y]) => IsVerified(docs'[y])
    BY <1>1, <1>2, DocumentMoves, Zenon
  <1> QED
    BY <1>1, <1>3, DocsMove, Zenon DEF PartyInv, PartyType

LEMMA MouIsRecorded ==
    ASSUME PartyInv, NEW v, NEW torn \in BOOLEAN, RecordMou(v, torn)
    PROVE  PartyInv'
  <1>1. UNCHANGED <<docs, trial, grant>> /\ VerifiedDocumentClasses = Classes
    BY Zenon DEF RecordMou
  <1>2. AllVerified
    BY <1>1 DEF AllVerified, VerifiedDocumentClasses, IsVerified
  <1>3. CASE torn
    <2>1. UNCHANGED <<member, docs, trial, grant>>
      BY <1>1, <1>3, Zenon DEF RecordMou
    <2> QED
      BY <2>1, PartyStutters
  <1>4. CASE ~torn
    <2>1. AdvanceParty("mou_recorded")
      BY <1>4, Zenon DEF RecordMou
    <2> QED
      BY <1>1, <1>2, <2>1, PartySteps
  <1> QED
    BY <1>3, <1>4, Zenon

(* ---- conformance runs ------------------------------------------------- *)

(* A run that has not passed gets another row; the participant's state moves *)
(* to no stage that asks for more.                                           *)
LEMMA TrialMoves ==
    ASSUME PartyInv, NEW r \in Runs, trial[r].status # "PASSED", NEW row, Trial(row),
           trial' = [trial EXCEPT ![r] = row], UNCHANGED <<docs, grant>>,
           UNCHANGED member \/ AdvanceParty("conformance_started")
    PROVE  PartyInv'
  <1>1. trial = [q \in Runs |-> trial[q]] /\ \A q \in Runs : Trial(trial[q])
    BY Zenon DEF PartyInv, PartyType
  <1>2. trial' = [q \in Runs |-> trial'[q]] /\ \A q \in Runs : trial'[q] = IF q = r THEN row ELSE trial[q]
    BY <1>1
  <1>3. \A q \in Runs : Trial(trial'[q])
    BY <1>1, <1>2
  <1>4. \A q \in Runs : trial[q].status = "PASSED" => trial'[q] = trial[q]
    BY <1>2
  <1>5. /\ member' = [status |-> member'.status, licensed |-> member.licensed, activated |-> member.activated]
        /\ member'.status \in PartyStates
        /\ member.status \in Verifying => member'.status \in Verifying
        /\ member.status \notin Tested => member'.status \notin Tested
    <2>1. CASE UNCHANGED member
      BY <2>1, Zenon DEF PartyInv, PartyType
    <2>2. CASE AdvanceParty("conformance_started")
      BY <2>2, PartyAdvances DEF PartyInv
    <2> QED
      BY <2>1, <2>2
  <1>6. member'.licensed = member.licensed /\ member'.activated = member.activated
    BY <1>5
  <1>7. PartyType'
    BY <1>2, <1>3, <1>5, <1>6, Zenon DEF PartyInv, PartyType, Doc, Ask
  <1>8. DocsChecked' /\ OneLive' /\ GrantsChecked'
    BY Zenon DEF PartyInv, DocsChecked, OneLive, GrantsChecked
  <1> QED
    BY <1>4, <1>5, <1>6, <1>7, <1>8, PartyMoves, Zenon DEF PartyInv

LEMMA RunIsQueued ==
    ASSUME PartyInv, NEW r \in Runs, NEW d \in Directions, NEW torn \in BOOLEAN, QueueConformanceRun(r, d, torn)
    PROVE  PartyInv'
  <1> DEFINE row == [NoTrial EXCEPT !.dir = d, !.status = "QUEUED"]
  <1>1. /\ trial' = [trial EXCEPT ![r] = row] /\ trial[r].status = "none" /\ UNCHANGED <<docs, grant>>
        /\ UNCHANGED member \/ AdvanceParty("conformance_started")
    BY Zenon DEF QueueConformanceRun
  <1>2. Trial(row)
    BY DEF NoTrial, Trial, Trials, RunStates
  <1>3. trial[r].status # "PASSED"
    BY <1>1
  <1> HIDE DEF row
  <1> QED
    BY <1>1, <1>2, <1>3, TrialMoves, Zenon

LEMMA RunAdvances ==
    ASSUME PartyInv, NEW r \in Runs, NEW from, NEW to \in RunStates, from # "PASSED",
           AdvanceConformanceRun(r, from, to), UNCHANGED <<member, docs, grant>>
    PROVE  PartyInv'
  <1> DEFINE row == [trial[r] EXCEPT !.status = to, !.started = @ \/ to = "RUNNING"]
  <1>1. trial = [q \in Runs |-> trial[q]] /\ trial[r] \in Trials
    BY Zenon DEF PartyInv, PartyType, Trial
  <1>2. trial' = [trial EXCEPT ![r] = row]
    BY <1>1 DEF AdvanceConformanceRun
  <1>3. Trial(row) /\ trial[r].status # "PASSED"
    BY <1>1 DEF Trial, Trials, AdvanceConformanceRun
  <1> HIDE DEF row
  <1> QED
    BY <1>2, <1>3, TrialMoves, Zenon

(* Of the runs sealed in a direction there is a latest one, since the runs   *)
(* are numbered, and evaluate_conformance reads its status.                  *)
LEMMA LatestRun ==
    ASSUME NEW S \in SUBSET Runs, S # {}
    PROVE  \E r \in S : \A s \in S : s <= r
  <1> DEFINE n == Cardinality(Runs)
             R == OpToRel(<, Nat)
             U == {u \in Nat : \A s \in S : s <= u}
  <1>1. n \in Nat
    BY RunsAreNumbered, FS_CardinalityType, Zenon
  <1>2. S \subseteq 1 .. n
    BY RunsAreNumbered, Zenon
  <1> HIDE DEF n
  <1>3. n \in U
    BY <1>1, <1>2
  <1>4. PICK u \in U : \A v \in U : ~(<<v, u>> \in R)
    <2>1. IsWellFoundedOn(R, Nat)
      BY NatLessThanWellFounded, Zenon
    <2>2. U \subseteq Nat /\ U # {}
      BY <1>3
    <2> HIDE DEF U, R
    <2> QED
      BY <2>1, <2>2, WFMin, Zenon
  <1>5. \A v \in U : ~(v < u)
    BY <1>4 DEF OpToRel
  <1>6. ASSUME u \notin S PROVE FALSE
    <2>1. \A s \in S : s \in Nat /\ s >= 1 /\ s <= u /\ s # u
      BY <1>1, <1>2, <1>6
    <2>2. u \in Nat /\ u >= 1
      BY <2>1
    <2>3. u - 1 \in U
      BY <2>1, <2>2
    <2> QED
      BY <1>5, <2>2, <2>3
  <1> QED
    BY <1>6

LEMMA ConformanceIsEvaluated ==
    ASSUME PartyInv, EvaluateConformance
    PROVE  PartyInv'
  <1>1. UNCHANGED <<docs, trial, grant>>
    BY Zenon DEF EvaluateConformance
  <1>2. CASE \A d \in Directions : LatestStatus(d) = "PASSED"
    <2>1. AdvanceParty("conformance_passed")
      BY <1>2, Zenon DEF EvaluateConformance
    <2>2. ASSUME NEW d \in Directions PROVE \E r \in Runs : trial[r].dir = d /\ trial[r].status = "PASSED"
      <3> DEFINE r == CHOOSE q \in Sealed(d) : \A s \in Sealed(d) : s <= q
      <3>1. LatestStatus(d) = "PASSED"
        BY <1>2, Zenon
      <3>2. Sealed(d) # {} /\ trial[r].status = "PASSED"
        BY <3>1 DEF LatestStatus
      <3>3. Sealed(d) \in SUBSET Runs
        BY Zenon DEF Sealed
      <3>4. \E q \in Sealed(d) : \A s \in Sealed(d) : s <= q
        BY <3>2, <3>3, LatestRun, Zenon
      <3>5. r \in Sealed(d)
        BY <3>4, Zenon
      <3>6. r \in Runs /\ trial[r].dir = d
        BY <3>5, Zenon DEF Sealed
      <3> HIDE DEF r
      <3> QED
        BY <3>2, <3>6, Zenon
    <2>3. AllPassed
      BY <2>2, Zenon DEF AllPassed
    <2> QED
      BY <1>1, <2>1, <2>3, PartySteps
  <1>3. CASE ~(\A d \in Directions : LatestStatus(d) = "PASSED")
    <2>1. AdvanceParty("conformance_failed") \/ AdvanceParty("conformance_exhausted")
      BY <1>3, Zenon DEF EvaluateConformance
    <2> QED
      BY <1>1, <2>1, PartySteps
  <1> QED
    BY <1>2, <1>3, Zenon

(* ---- activation ------------------------------------------------------- *)

(* A request that was not approved gets another row.                         *)
LEMMA GrantMoves ==
    ASSUME PartyInv, NEW a \in Petitions, grant[a].state # "APPROVED", NEW row, Ask(row),
           row.state = "APPROVED" => row.by # row.approver,
           grant' = [grant EXCEPT ![a] = row], UNCHANGED <<docs, trial>>,
           UNCHANGED member \/ AdvanceParty("activation_requested")
    PROVE  PartyInv'
  <1>1. grant = [b \in Petitions |-> grant[b]] /\ \A b \in Petitions : Ask(grant[b])
    BY Zenon DEF PartyInv, PartyType
  <1>2. grant' = [b \in Petitions |-> grant'[b]] /\ \A b \in Petitions : grant'[b] = IF b = a THEN row ELSE grant[b]
    BY <1>1
  <1>3. \A b \in Petitions : Ask(grant'[b])
    BY <1>1, <1>2
  <1>4. \A b \in Petitions : grant[b].state = "APPROVED" => grant'[b] = grant[b]
    BY <1>2
  <1>5. /\ member' = [status |-> member'.status, licensed |-> member.licensed, activated |-> member.activated]
        /\ member'.status \in PartyStates
        /\ member.status \in Verifying => member'.status \in Verifying
        /\ member.status \notin Tested => member'.status \notin Tested
    <2>1. CASE UNCHANGED member
      BY <2>1, Zenon DEF PartyInv, PartyType
    <2>2. CASE AdvanceParty("activation_requested")
      BY <2>2, PartyAdvances DEF PartyInv
    <2> QED
      BY <2>1, <2>2
  <1>6. member'.licensed = member.licensed /\ member'.activated = member.activated
    BY <1>5
  <1>7. PartyType'
    BY <1>2, <1>3, <1>5, <1>6, Zenon DEF PartyInv, PartyType, Doc, Trial
  <1>8. DocsChecked' /\ OneLive'
    BY Zenon DEF PartyInv, DocsChecked, OneLive
  <1>9. GrantsChecked'
    BY <1>2 DEF PartyInv, GrantsChecked
  <1> QED
    BY <1>4, <1>5, <1>6, <1>7, <1>8, <1>9, PartyMoves, Zenon DEF PartyInv

LEMMA ActivationIsRequested ==
    ASSUME PartyInv, NEW a \in Petitions, NEW who \in Persons, NEW torn \in BOOLEAN, RequestParty(a, who, torn)
    PROVE  PartyInv'
  <1> DEFINE row == [state |-> "PENDING", by |-> who, approver |-> "none"]
  <1>1. /\ grant' = [grant EXCEPT ![a] = row] /\ grant[a] = NoGrant /\ UNCHANGED <<docs, trial>>
        /\ UNCHANGED member \/ AdvanceParty("activation_requested")
    BY Zenon DEF RequestParty
  <1>2. Ask(row) /\ row.state # "APPROVED" /\ grant[a].state # "APPROVED"
    BY <1>1 DEF Ask, Grants, Signers, NoGrant
  <1> HIDE DEF row
  <1> QED
    BY <1>1, <1>2, GrantMoves, Zenon

LEMMA ActivationIsDecided ==
    ASSUME PartyInv, NEW a \in Petitions, NEW who \in Persons, NEW yes \in BOOLEAN, DecideParty(a, who, yes)
    PROVE  PartyInv'
  <1> DEFINE row == [grant[a] EXCEPT !.state = IF yes THEN "APPROVED" ELSE "REJECTED", !.approver = who]
  <1>1. grant = [b \in Petitions |-> grant[b]] /\ grant[a] \in Grants
    BY Zenon DEF PartyInv, PartyType, Ask
  <1>2. grant[a].state = "PENDING" /\ grant[a].by # who /\ UNCHANGED <<member, docs, trial>>
    BY Zenon DEF DecideParty
  <1>3. grant' = [grant EXCEPT ![a] = row]
    BY <1>1 DEF DecideParty
  <1>4. Ask(row) /\ row.by # row.approver /\ grant[a].state # "APPROVED"
    BY <1>1, <1>2 DEF Ask, Grants, Signers
  <1> HIDE DEF row
  <1> QED
    BY <1>2, <1>3, <1>4, GrantMoves, Zenon

LEMMA ActivationIsCompleted ==
    ASSUME PartyInv, NEW a \in Petitions, NEW torn \in BOOLEAN, CompleteActivation(a, torn)
    PROVE  PartyInv'
  <1>1. /\ grant[a].state = "APPROVED" /\ PartyRule("ndc_assigned") # {}
        /\ member' = [member EXCEPT !.status = "ACTIVE", !.activated = TRUE] /\ UNCHANGED <<docs, trial, grant>>
    BY Zenon DEF CompleteActivation
  <1>2. member.status = "NDC_ASSIGNMENT_PENDING"
    BY <1>1 DEF PartyRule, ParticipantV2Table
  <1>3. Granted
    BY <1>1, Zenon DEF Granted
  <1>4. /\ member' = [status |-> member'.status, licensed |-> member'.licensed, activated |-> member'.activated]
        /\ member'.status = "ACTIVE"
    BY <1>1 DEF PartyInv, PartyType
  <1>5. PartyType'
    <2>1. member'.status \in PartyStates
      BY <1>4 DEF PartyStates
    <2> QED
      BY <1>1, <1>4, <2>1, Zenon DEF PartyInv, PartyType, Doc, Trial, Ask
  <1>6. DocsChecked' /\ OneLive' /\ GrantsChecked'
    BY <1>1, Zenon DEF PartyInv, DocsChecked, OneLive, GrantsChecked
  <1>7. member.status \notin Verifying /\ member.status \in Tested
    BY <1>2 DEF Verifying, Tested
  <1> QED
    BY <1>1, <1>3, <1>5, <1>6, <1>7, PartyMoves, Zenon

LEMMA PartyStep ==
    ASSUME PartyInv, [PNext]_party
    PROVE  PartyInv'
  <1>1. CASE SubmitParty
    <2>1. /\ member.status = "none" /\ member' = [member EXCEPT !.status = "APPLICATION_SUBMITTED"]
          /\ UNCHANGED <<docs, trial, grant>>
      BY <1>1, Zenon DEF SubmitParty
    <2>2. /\ member' = [status |-> "APPLICATION_SUBMITTED", licensed |-> member.licensed,
                        activated |-> member.activated]
      BY <2>1 DEF PartyInv, PartyType
    <2>3. /\ member' = [status |-> member'.status, licensed |-> member'.licensed, activated |-> member'.activated]
          /\ member'.status \in Verifying \cap PartyStates /\ member'.status \notin Tested
          /\ member'.activated = member.activated
      BY <2>2 DEF Verifying, PartyStates, Tested
    <2>4. PartyType'
      BY <2>1, <2>3, Zenon DEF PartyInv, PartyType, Doc, Trial, Ask
    <2>5. DocsChecked' /\ OneLive' /\ GrantsChecked'
      BY <2>1, Zenon DEF PartyInv, DocsChecked, OneLive, GrantsChecked
    <2> QED
      BY <2>1, <2>3, <2>4, <2>5, PartyMoves
  <1>2. CASE AcceptApplication \/ SuspendParty \/ Reinstate \/ TerminateParty \/ RejectParty
    <2>1. PICK trigger \in {"application_accepted", "suspended", "reinstated", "terminated", "rejected"} :
             Step(trigger)
      BY <1>2, Zenon DEF AcceptApplication, SuspendParty, Reinstate, TerminateParty, RejectParty
    <2>2. AdvanceParty(trigger) /\ UNCHANGED <<docs, trial, grant>>
      BY <2>1, Zenon DEF Step
    <2> QED
      BY <2>2, PartySteps
  <1>3. CASE EvaluateConformance
    BY <1>3, ConformanceIsEvaluated, Zenon
  <1>4. CASE SetCap \/ UNCHANGED party
    <2>1. UNCHANGED <<member, docs, trial, grant>>
      BY <1>4, Zenon DEF SetCap, party
    <2> QED
      BY <2>1, PartyStutters, Zenon
  <1>5. ASSUME NEW x \in Papers, RejectDocument(x) PROVE PartyInv'
    BY <1>5, DocumentIsRejected, Zenon
  <1>6. ASSUME NEW r \in Runs, NEW intact \in BOOLEAN, PickupConformanceRun(r, intact) PROVE PartyInv'
    <2>1. PICK to \in {"RUNNING", "ERRORED"} : AdvanceConformanceRun(r, "QUEUED", to)
      BY <1>6, Zenon DEF PickupConformanceRun
    <2>2. to \in RunStates /\ UNCHANGED <<member, docs, grant>>
      BY <1>6 DEF PickupConformanceRun, RunStates
    <2> QED
      BY <2>1, <2>2, RunAdvances
  <1>7. ASSUME NEW r \in Runs, NEW verdict \in {"PASSED", "FAILED", "ERRORED"},
               ExecuteConformanceRun(r, verdict)
        PROVE  PartyInv'
    <2>1. /\ AdvanceConformanceRun(r, "RUNNING", verdict) /\ verdict \in RunStates
          /\ UNCHANGED <<member, docs, grant>>
      BY <1>7 DEF ExecuteConformanceRun, RunStates
    <2> QED
      BY <2>1, RunAdvances
  <1>8. ASSUME NEW a \in Petitions, NEW who \in Persons, NEW yes \in BOOLEAN, DecideParty(a, who, yes)
        PROVE  PartyInv'
    BY <1>8, ActivationIsDecided, Zenon
  <1>9. ASSUME NEW torn \in BOOLEAN, NEW v \in Versions, RecordMou(v, torn) PROVE PartyInv'
    BY <1>9, MouIsRecorded, Zenon
  <1>10. ASSUME NEW torn \in BOOLEAN, NEW r \in Runs, NEW d \in Directions, QueueConformanceRun(r, d, torn)
         PROVE  PartyInv'
    BY <1>10, RunIsQueued, Zenon
  <1>11. ASSUME NEW torn \in BOOLEAN, NEW a \in Petitions,
                CompleteActivation(a, torn) \/ \E who \in Persons : RequestParty(a, who, torn)
         PROVE  PartyInv'
    BY <1>11, ActivationIsCompleted, ActivationIsRequested, Zenon
  <1>12. ASSUME NEW torn \in BOOLEAN, NEW x \in Papers, NEW who \in Persons,
                \/ RegisterDocument(x, who, torn)
                \/ \E expired \in BOOLEAN : VerifyDocument(x, who, expired, torn)
         PROVE  PartyInv'
    BY <1>12, DocumentIsRegistered, DocumentIsVerified, Zenon
  <1> QED
    BY <1>1, <1>2, <1>3, <1>4, <1>5, <1>6, <1>7, <1>8, <1>9, <1>10, <1>11, <1>12, Zenon DEF PNext

LEMMA PartyIsEarned == PartyInv => StagesAreEarned
  <1> SUFFICES ASSUME PartyInv PROVE StagesAreEarned
    OBVIOUS
  <1>1. ASSUME member.status \notin Verifying, NEW c \in Classes
        PROVE  \E x \in Papers : Class[x] = c /\ docs[x].status = "VERIFIED" /\ docs[x].by # docs[x].checker
    BY <1>1, Zenon DEF PartyInv, AllVerified, DocsChecked, IsVerified
  <1>2. ASSUME NEW c \in Classes PROVE \A x, y \in Live(c) : x = y
    BY Zenon DEF PartyInv, OneLive, Live, IsLive
  <1>3. member.status \in Tested => AllPassed
    BY Zenon DEF PartyInv
  <1>4. ASSUME member.activated
        PROVE  \E a \in Petitions : grant[a].state = "APPROVED" /\ grant[a].by # grant[a].approver
    BY <1>4, Zenon DEF PartyInv, Granted, GrantsChecked
  <1> QED
    BY <1>1, <1>2, <1>3, <1>4, Zenon DEF StagesAreEarned, Verifying, Tested, AllPassed

(* A participant past a stage has what the stage asks for, whatever methods  *)
(* of ParticipantOnboardingService overlap or are cut between two writes:    *)
(* for every set of documents, operators, runs and requests, any retry limit *)
(* and any number of crashes.                                                *)
THEOREM StagesStayEarned == PSpec => []StagesAreEarned
  <1>1. PInit => PartyInv
    BY PartyInitially
  <1>2. PartyInv /\ [PNext]_party => PartyInv'
    BY PartyStep
  <1> QED
    BY <1>1, <1>2, PartyIsEarned, PTL DEF PSpec

(***************************************************************************)
(* Dossiers.                                                               *)
(***************************************************************************)

Names == Operators \cup {"-"}
FactRows == [status : {"NONE", "UNVERIFIED", "VERIFIED", "RETRACTED"}, blocking : BOOLEAN, born : Nat,
             created_by : Names, verified_by : Names]
Sections == {"certification", "chain", "replay", "trial-balance", "migrations", "retention", "policy",
            "facts", "case-evidence", "checklist", "claims"}
Archives == [members : SUBSET Sections, manifest : SUBSET Sections, facts : SUBSET Facts]
ExportRows == [state : {"NONE", "QUEUED", "ASSEMBLING", "COMPLETED", "FAILED"},
               type : DOSSIER_TYPES \cup {"-"}, as_of : Nat, old : BOOLEAN, manifest : SUBSET Sections]
Clerks == [at : {"idle", "claim", "build", "put", "complete", "fail", "completed", "failed"},
           held : Exports \cup {0}, archive : Archives]

(* From the claim of a row to the save that closes it.                       *)
Working == {"build", "put", "complete", "fail"}

DossierTypes ==
    /\ fact \in [Facts -> FactRows] /\ export \in [Exports -> ExportRows]
    /\ object \in [Exports -> Archives] /\ told \in [Exports -> SUBSET {"completed", "failed"}]
    /\ clerk \in [Workers -> Clerks]

RegisterOK ==
    \A f \in Facts : /\ fact[f].status # "NONE" => fact[f].born <= Cardinality(Recorded)
                     /\ fact[f].status = "VERIFIED" => fact[f].verified_by # fact[f].created_by

(* The archive is what its row asks for, whatever was recorded since.        *)
Backs(zip, type, as_of) ==
    /\ zip.members = BuildMembers(type) /\ zip.manifest = zip.members
    /\ "facts" \in zip.members =>
          \A f \in Facts : fact[f].status # "NONE" /\ fact[f].blocking /\ fact[f].born <= as_of =>
                              f \in zip.facts /\ fact[f].status = "VERIFIED"
Supports(e, zip) == Backs(zip, export[e].type, export[e].as_of)

ClerkOK(c) ==
    /\ c.at # "idle" => c.held \in Exports
    /\ c.at \in Working => export[c.held].state \in {"ASSEMBLING", "FAILED"}
    /\ c.at \in {"put", "complete"} => Supports(c.held, c.archive)
    /\ c.at = "complete" => object[c.held] = c.archive
    /\ c.at = "completed" => export[c.held].state = "COMPLETED"
    /\ c.at = "failed" => export[c.held].state = "FAILED"

(* A claimed row has one worker: a claim takes a QUEUED row, and no row gets *)
(* to be QUEUED again.                                                       *)
Alone == \A w, x \in Workers : clerk[w].at \in Working /\ clerk[x].at \in Working
                                 /\ clerk[w].held = clerk[x].held => w = x

ExportOK(e) ==
    /\ export[e].as_of <= Cardinality(Recorded)
    /\ "completed" \in told[e] => export[e].state = "COMPLETED"
    /\ "failed" \in told[e] => export[e].state = "FAILED"
    /\ export[e].state = "COMPLETED" =>
          object[e].manifest = export[e].manifest /\ Supports(e, object[e])

DossierInv ==
    /\ DossierTypes /\ RegisterOK /\ Alone
    /\ \A w \in Workers : ClerkOK(clerk[w])
    /\ \A e \in Exports : ExportOK(e)

LEMMA RecordedIsFinite == IsFiniteSet(Recorded) /\ Cardinality(Recorded) \in Nat
  <1>1. Recorded \subseteq Facts
    BY Zenon DEF Recorded
  <1>2. IsFiniteSet(Recorded)
    BY <1>1, FactsAssumption, FS_Subset, Zenon
  <1> QED
    BY <1>2, FS_CardinalityType, Zenon

LEMMA MembersAreClasses == \A t : BuildMembers(t) \in SUBSET Sections
  BY DEF BuildMembers, CertificationMembers, TrialBalanceMembers, MigrationMembers, PolicyMembers,
         FactMembers, CaseMembers, SponsorMembers, Sections

LEMMA RestIsTyped == NoArchive \in Archives /\ Idle \in Clerks /\ NoFact \in FactRows /\ NoExport \in ExportRows
  BY DEF NoArchive, Archives, Idle, Clerks, NoFact, FactRows, NoExport, ExportRows, Names

LEMMA DossiersInitially == DInit => DossierInv
  <1> SUFFICES ASSUME DInit PROVE DossierInv
    OBVIOUS
  <1>1. DossierTypes
    BY RestIsTyped DEF DInit, DossierTypes
  <1>2. Recorded = {}
    BY DEF DInit, Recorded, NoFact
  <1>3. Cardinality(Recorded) = 0
    BY <1>2, FS_EmptySet, Zenon
  <1>4. RegisterOK
    BY DEF DInit, RegisterOK, NoFact
  <1>5. Alone /\ \A w \in Workers : ClerkOK(clerk[w])
    BY DEF DInit, Alone, ClerkOK, Idle, Working
  <1>6. \A e \in Exports : ExportOK(e)
    BY <1>3 DEF DInit, ExportOK, NoExport
  <1> QED
    BY <1>1, <1>4, <1>5, <1>6 DEF DossierInv

(* What a step of the register may do to a fact: a new one is younger than   *)
(* every snapshot, and only an undecided one is decided.                     *)
FactMoves(f) ==
    \/ fact'[f] = fact[f]
    \/ fact[f].status = "NONE" /\ fact'[f].born > Cardinality(Recorded)
    \/ /\ fact[f].status = "UNVERIFIED" /\ fact'[f].status # "NONE"
       /\ fact'[f].blocking = fact[f].blocking /\ fact'[f].born = fact[f].born

LEMMA BackingStays ==
    ASSUME \A f \in Facts : FactMoves(f), DossierTypes,
           NEW zip, NEW type, NEW as_of \in Nat, as_of <= Cardinality(Recorded), Backs(zip, type, as_of),
           DossierTypes'
    PROVE  Backs(zip, type, as_of)'
  <1>1. SUFFICES ASSUME "facts" \in zip.members, NEW f \in Facts,
                        fact'[f].status # "NONE", fact'[f].blocking, fact'[f].born <= as_of
                 PROVE  f \in zip.facts /\ fact'[f].status = "VERIFIED"
    BY Zenon DEF Backs
  <1>2. FactMoves(f)
    OBVIOUS
  <1>3. fact'[f].born \in Nat /\ Cardinality(Recorded) \in Nat
    BY RecordedIsFinite DEF DossierTypes, FactRows
  <1>4. CASE fact'[f] = fact[f]
    BY <1>1, <1>4, Zenon DEF Backs
  <1>5. CASE fact[f].status = "UNVERIFIED" /\ fact'[f].blocking = fact[f].blocking /\ fact'[f].born = fact[f].born
    BY <1>1, <1>5, Zenon DEF Backs
  <1>6. ~(fact'[f].born > Cardinality(Recorded))
    BY <1>1, <1>3
  <1> QED
    BY <1>2, <1>4, <1>5, <1>6, Zenon DEF FactMoves

LEMMA RegisterMoves ==
    ASSUME DossierInv, \A f \in Facts : FactMoves(f), fact' \in [Facts -> FactRows], RegisterOK',
           Cardinality(Recorded)' >= Cardinality(Recorded), Cardinality(Recorded)' \in Nat,
           UNCHANGED <<export, object, told, clerk>>
    PROVE  DossierInv'
  <1>1. DossierTypes'
    BY DEF DossierInv, DossierTypes
  <1>2. Alone'
    BY Zenon DEF DossierInv, Alone
  <1>3. ASSUME NEW e \in Exports, NEW zip, Supports(e, zip) PROVE Supports(e, zip)'
    <2>1. export[e].as_of \in Nat /\ export[e].as_of <= Cardinality(Recorded)
      BY DEF DossierInv, DossierTypes, ExportRows, ExportOK
    <2>2. Backs(zip, export[e].type, export[e].as_of)'
      <3> DEFINE t == export[e].type  a == export[e].as_of
      <3>1. Backs(zip, t, a) /\ a \in Nat /\ a <= Cardinality(Recorded)
        BY <1>3, <2>1, Zenon DEF Supports
      <3>2. DossierTypes
        BY Zenon DEF DossierInv
      <3>3. t' = t /\ a' = a
        BY Zenon
      <3> HIDE DEF t, a
      <3>4. Backs(zip, t, a)'
        BY <1>1, <3>1, <3>2, <3>3, BackingStays
      <3> QED
        BY <3>4 DEF t, a
    <2> QED
      BY <2>2 DEF Supports
  <1>4. ASSUME NEW w \in Workers PROVE ClerkOK(clerk[w])'
    <2>1. ClerkOK(clerk[w])
      BY Zenon DEF DossierInv
    <2>2. clerk[w].at \in {"put", "complete"} => Supports(clerk[w].held, clerk[w].archive)'
      BY <1>3, <2>1, Zenon DEF ClerkOK
    <2> QED
      BY <2>1, <2>2, Zenon DEF ClerkOK
  <1>5. ASSUME NEW e \in Exports PROVE ExportOK(e)'
    <2>1. ExportOK(e)
      BY Zenon DEF DossierInv
    <2>2. export[e].state = "COMPLETED" => Supports(e, object[e])'
      BY <1>3, <2>1, Zenon DEF ExportOK
    <2>3. export'[e].as_of <= Cardinality(Recorded)'
      BY <2>1, RecordedIsFinite DEF ExportOK, DossierInv, DossierTypes, ExportRows
    <2> QED
      BY <2>1, <2>2, <2>3, Zenon DEF ExportOK
  <1> QED
    BY <1>1, <1>2, <1>4, <1>5, Zenon DEF DossierInv

LEMMA FactIsRecorded ==
    ASSUME DossierInv, NEW f \in Facts, NEW by \in Operators, NEW b \in BOOLEAN, Record(f, by, b)
    PROVE  DossierInv'
  <1> DEFINE n == Cardinality(Recorded)
             row == [status |-> "UNVERIFIED", blocking |-> b, born |-> n + 1,
                     created_by |-> by, verified_by |-> "-"]
  <1>1. /\ fact[f].status = "NONE" /\ fact' = [fact EXCEPT ![f] = row]
        /\ UNCHANGED <<export, object, told, clerk>>
    BY DEF Record, SaveFact
  <1>2. n \in Nat /\ IsFiniteSet(Recorded)
    BY RecordedIsFinite
  <1>3. fact \in [Facts -> FactRows]
    BY DEF DossierInv, DossierTypes
  <1> HIDE DEF n
  <1>4. row \in FactRows
    BY <1>2 DEF FactRows, Names
  <1>5. row.status = "UNVERIFIED" /\ row.born = n + 1
    OBVIOUS
  <1> HIDE DEF row
  <1>6. fact' \in [Facts -> FactRows] /\ fact'[f] = row /\ \A g \in Facts \ {f} : fact'[g] = fact[g]
    BY <1>1, <1>3, <1>4
  <1>7. Recorded' = Recorded \cup {f} /\ f \notin Recorded
    BY <1>1, <1>5, <1>6 DEF Recorded
  <1>8. Cardinality(Recorded)' = n + 1
    BY <1>2, <1>7, FS_AddElement DEF n
  <1>9. RegisterOK'
    <2>1. ASSUME NEW g \in Facts, g # f
          PROVE  /\ fact'[g].status # "NONE" => fact'[g].born <= n + 1
                 /\ fact'[g].status = "VERIFIED" => fact'[g].verified_by # fact'[g].created_by
      <3>1. fact[g].born \in Nat
        BY <1>3 DEF FactRows
      <3>2. /\ fact[g].status # "NONE" => fact[g].born <= n
            /\ fact[g].status = "VERIFIED" => fact[g].verified_by # fact[g].created_by
        BY DEF DossierInv, RegisterOK, n
      <3> QED
        BY <1>2, <1>6, <2>1, <3>1, <3>2
    <2>2. /\ fact'[f].status # "NONE" => fact'[f].born <= n + 1
          /\ fact'[f].status # "VERIFIED"
      BY <1>2, <1>5, <1>6
    <2> QED
      BY <1>8, <2>1, <2>2, Zenon DEF RegisterOK
  <1>10. \A g \in Facts : FactMoves(g)
    BY <1>1, <1>2, <1>5, <1>6 DEF FactMoves, n
  <1> QED
    BY <1>1, <1>2, <1>6, <1>8, <1>9, <1>10, RegisterMoves DEF n

LEMMA FactIsDecided ==
    ASSUME DossierInv, NEW f \in Facts, NEW row \in FactRows, fact' = [fact EXCEPT ![f] = row],
           fact[f].status = "UNVERIFIED", row.status \in {"VERIFIED", "RETRACTED"},
           row.blocking = fact[f].blocking, row.born = fact[f].born,
           row.status = "VERIFIED" => row.verified_by # row.created_by,
           UNCHANGED <<export, object, told, clerk>>
    PROVE  DossierInv'
  <1>1. fact \in [Facts -> FactRows] /\ RegisterOK
    BY DEF DossierInv, DossierTypes
  <1>2. fact' \in [Facts -> FactRows] /\ fact'[f] = row /\ \A g \in Facts \ {f} : fact'[g] = fact[g]
    BY <1>1
  <1>3. Recorded' = Recorded
    BY <1>2 DEF Recorded
  <1>4. RegisterOK'
    BY <1>1, <1>2, <1>3 DEF RegisterOK
  <1>5. \A g \in Facts : FactMoves(g)
    BY <1>2 DEF FactMoves
  <1> QED
    BY <1>2, <1>3, <1>4, <1>5, RecordedIsFinite, RegisterMoves

LEMMA FactsAreDecided ==
    ASSUME DossierInv, NEW f \in Facts, Retract(f) \/ \E by \in Operators : Verify(f, by)
    PROVE  DossierInv'
  <1>1. fact \in [Facts -> FactRows]
    BY DEF DossierInv, DossierTypes
  <1>2. CASE Retract(f)
    <2> DEFINE row == [fact[f] EXCEPT !.status = "RETRACTED"]
    <2>1. row \in FactRows /\ row.status = "RETRACTED" /\ row.blocking = fact[f].blocking
          /\ row.born = fact[f].born
      BY <1>1 DEF FactRows
    <2>2. fact' = [fact EXCEPT ![f] = row] /\ fact[f].status = "UNVERIFIED" /\ UNCHANGED <<export, object, told, clerk>>
      BY <1>2 DEF Retract, SaveFact
    <2> HIDE DEF row
    <2> QED
      BY <2>1, <2>2, FactIsDecided
  <1>3. ASSUME NEW by \in Operators, Verify(f, by) PROVE DossierInv'
    <2> DEFINE row == [fact[f] EXCEPT !.status = "VERIFIED", !.verified_by = by]
    <2>1. row \in FactRows /\ row.status = "VERIFIED" /\ row.blocking = fact[f].blocking
          /\ row.born = fact[f].born /\ row.verified_by = by /\ row.created_by = fact[f].created_by
      BY <1>1 DEF FactRows, Names
    <2>2. /\ fact' = [fact EXCEPT ![f] = row] /\ fact[f].status = "UNVERIFIED" /\ by # fact[f].created_by
          /\ UNCHANGED <<export, object, told, clerk>>
      BY <1>3 DEF Verify, SaveFact
    <2> HIDE DEF row
    <2> QED
      BY <2>1, <2>2, FactIsDecided
  <1> QED
    BY <1>2, <1>3

(* A step on one row leaves the others, and the workers on them, alone.      *)
Apart(e) ==
    /\ fact' = fact
    /\ \A d \in Exports \ {e} : export'[d] = export[d] /\ object'[d] = object[d] /\ told'[d] = told[d]

LEMMA SameRegister ==
    ASSUME fact' = fact
    PROVE  Recorded' = Recorded /\ (RegisterOK => RegisterOK')
           /\ \A zip, type, as_of : Backs(zip, type, as_of) <=> Backs(zip, type, as_of)'
  <1>1. Recorded' = Recorded
    BY Zenon DEF Recorded
  <1>2. RegisterOK => RegisterOK'
    BY <1>1, Zenon DEF RegisterOK
  <1>3. ASSUME NEW zip, NEW type, NEW as_of PROVE Backs(zip, type, as_of) <=> Backs(zip, type, as_of)'
    BY Zenon DEF Backs
  <1> QED
    BY <1>1, <1>2, <1>3, Zenon

LEMMA OthersStand ==
    ASSUME DossierInv, NEW e \in Exports, Apart(e)
    PROVE  /\ \A d \in Exports \ {e} : ExportOK(d)'
           /\ \A c \in Clerks : ClerkOK(c) /\ c.held # e => ClerkOK(c)'
           /\ RegisterOK'
  <1>1. ASSUME NEW d \in Exports, d # e PROVE ExportOK(d)'
    <2>1. ExportOK(d) /\ export'[d] = export[d] /\ object'[d] = object[d] /\ told'[d] = told[d]
      BY <1>1, Zenon DEF Apart, DossierInv
    <2>2. Recorded' = Recorded
      BY SameRegister, Zenon DEF Apart
    <2>3. Supports(d, object[d]) => Supports(d, object[d])'
      BY <2>1, Zenon DEF Apart, Supports, Backs
    <2> QED
      BY <2>1, <2>2, <2>3 DEF ExportOK
  <1>2. ASSUME NEW c \in Clerks, ClerkOK(c), c.held # e PROVE ClerkOK(c)'
    <2>1. CASE c.at = "idle"
      BY <2>1 DEF ClerkOK, Working
    <2>2. CASE c.at # "idle"
      <3>1. c.held \in Exports
        BY <1>2, <2>2, Zenon DEF ClerkOK
      <3>2. export'[c.held] = export[c.held] /\ object'[c.held] = object[c.held]
        BY <1>2, <3>1, Zenon DEF Apart
      <3>3. Supports(c.held, c.archive) <=> Supports(c.held, c.archive)'
        BY <3>2, SameRegister, Zenon DEF Apart, Supports
      <3> QED
        BY <1>2, <3>1, <3>2, <3>3, Zenon DEF ClerkOK
    <2> QED
      BY <2>1, <2>2
  <1>3. RegisterOK'
    BY SameRegister, Zenon DEF Apart, DossierInv
  <1> QED
    BY <1>1, <1>2, <1>3, Zenon

(* An event says how its row ended.                                          *)
TellsTruth ==
    /\ told' \in [Exports -> SUBSET {"completed", "failed"}]
    /\ \A e \in Exports : "completed" \in told'[e] => "completed" \in told[e] \/ export[e].state = "COMPLETED"
    /\ \A e \in Exports : "failed" \in told'[e] => "failed" \in told[e] \/ export[e].state = "FAILED"

(* Only what worker w has in hand changes, and what was told.                *)
LEMMA ClerkTurns ==
    ASSUME DossierInv, NEW w \in Workers, NEW c \in Clerks, clerk' = [clerk EXCEPT ![w] = c], ClerkOK(c),
           c.at \in Working => clerk[w].at \in Working /\ clerk[w].held = c.held,
           UNCHANGED <<fact, export, object>>, TellsTruth
    PROVE  DossierInv'
  <1>1. DossierTypes'
    BY DEF DossierInv, DossierTypes, TellsTruth
  <1>2. clerk'[w] = c /\ \A x \in Workers \ {w} : clerk'[x] = clerk[x]
    BY DEF DossierInv, DossierTypes
  <1>3. \A d : ClerkOK(d) => ClerkOK(d)'
    BY Zenon DEF ClerkOK, Supports, Backs
  <1>4. ASSUME NEW x \in Workers PROVE ClerkOK(clerk[x])'
    <2>1. ClerkOK(clerk[x])
      BY Zenon DEF DossierInv
    <2>2. CASE x = w
      <3>1. ClerkOK(c)'
        BY <1>3, Zenon
      <3> QED
        BY <1>2, <2>2, <3>1 DEF ClerkOK, Supports, Backs
    <2>3. CASE x # w
      BY <1>2, <2>1, <2>3 DEF ClerkOK, Supports, Backs
    <2> QED
      BY <2>2, <2>3
  <1>5. Alone'
    <2> SUFFICES ASSUME NEW v \in Workers, NEW x \in Workers, clerk'[v].at \in Working,
                        clerk'[x].at \in Working, clerk'[v].held = clerk'[x].held
                 PROVE  v = x
      BY Zenon DEF Alone
    <2>1. \A y \in {v, x} : clerk[y].at \in Working /\ clerk[y].held = clerk'[y].held
      BY <1>2
    <2> QED
      BY <2>1, Zenon DEF DossierInv, Alone
  <1>6. RegisterOK' /\ Recorded' = Recorded
    BY SameRegister, Zenon DEF DossierInv
  <1>7. ASSUME NEW e \in Exports PROVE ExportOK(e)'
    <2>1. ExportOK(e) /\ Recorded' = Recorded
      BY <1>6, Zenon DEF DossierInv
    <2>2. /\ "completed" \in told'[e] => export[e].state = "COMPLETED"
          /\ "failed" \in told'[e] => export[e].state = "FAILED"
      BY <2>1, Zenon DEF TellsTruth, ExportOK
    <2> QED
      BY <2>1, <2>2, Zenon DEF ExportOK, Supports, Backs
  <1> QED
    BY <1>1, <1>4, <1>5, <1>6, <1>7, Zenon DEF DossierInv

(* The worker that has claimed row e, or claims it now, changes the row or   *)
(* its archive.                                                              *)
LEMMA RowTurns ==
    ASSUME DossierInv, NEW w \in Workers, NEW c \in Clerks, NEW e \in Exports, Apart(e),
           clerk' = [clerk EXCEPT ![w] = c], c.held = e, told' = told,
           export' \in [Exports -> ExportRows], object' \in [Exports -> Archives],
           export' = export \/ export[e].state \in {"QUEUED", "ASSEMBLING"},
           export[e].state = "QUEUED" \/ (clerk[w].at \in Working /\ clerk[w].held = e),
           ClerkOK(c)', ExportOK(e)'
    PROVE  DossierInv'
  <1>1. DossierTypes'
    BY DEF DossierInv, DossierTypes, Apart
  <1>2. clerk'[w] = c /\ \A x \in Workers \ {w} : clerk'[x] = clerk[x] /\ clerk[x] \in Clerks
    BY DEF DossierInv, DossierTypes
  <1>3. ASSUME NEW x \in Workers \ {w}, clerk[x].held = e PROVE clerk[x].at \notin Working
    <2>1. ClerkOK(clerk[x])
      BY Zenon DEF DossierInv
    <2>2. CASE export[e].state = "QUEUED"
      BY <1>3, <2>1, <2>2 DEF ClerkOK
    <2>3. CASE clerk[w].at \in Working /\ clerk[w].held = e
      BY <1>3, <2>3, Zenon DEF DossierInv, Alone
    <2> QED
      BY <2>2, <2>3
  <1>4. ASSUME NEW x \in Workers \ {w} PROVE ClerkOK(clerk[x])'
    <2>1. ClerkOK(clerk[x]) /\ clerk[x] \in Clerks /\ clerk'[x] = clerk[x]
      BY <1>2, Zenon DEF DossierInv
    <2>2. CASE clerk[x].held # e
      <3> DEFINE d == clerk[x]
      <3>1. d' = d /\ ClerkOK(d) /\ d \in Clerks /\ d.held # e
        BY <2>1, <2>2
      <3>2. \A k \in Clerks : ClerkOK(k) /\ k.held # e => ClerkOK(k)'
        BY OthersStand, Zenon
      <3> HIDE DEF d
      <3>3. ClerkOK(d)'
        BY <3>1, <3>2 DEF ClerkOK, Supports, Backs
      <3> QED
        BY <3>3 DEF d
    <2>3. CASE clerk[x].held = e
      BY <1>3, <2>1, <2>3 DEF ClerkOK, Working, Clerks
    <2> QED
      BY <2>2, <2>3
  <1>5. ClerkOK(clerk[w])'
    BY <1>2 DEF ClerkOK, Supports, Backs
  <1>6. Alone'
    <2> SUFFICES ASSUME NEW v \in Workers, NEW x \in Workers, clerk'[v].at \in Working,
                        clerk'[x].at \in Working, clerk'[v].held = clerk'[x].held
                 PROVE  v = x
      BY Zenon DEF Alone
    <2>1. CASE v = w \/ x = w
      BY <1>2, <1>3, <2>1
    <2>2. CASE v # w /\ x # w
      <3>1. clerk'[v] = clerk[v] /\ clerk'[x] = clerk[x]
        BY <1>2, <2>2
      <3> QED
        BY <3>1, Zenon DEF DossierInv, Alone
    <2> QED
      BY <2>1, <2>2
  <1>7. \A d \in Exports : ExportOK(d)'
    BY OthersStand, Zenon
  <1>8. RegisterOK'
    BY OthersStand, Zenon
  <1> QED
    BY <1>1, <1>4, <1>5, <1>6, <1>7, <1>8, Zenon DEF DossierInv

(* A row changes while the workers stand still.                              *)
LEMMA RowAlone ==
    ASSUME DossierInv, NEW e \in Exports, Apart(e), clerk' = clerk, DossierTypes', ExportOK(e)',
           \A x \in Workers : clerk[x].held = e => ClerkOK(clerk[x])'
    PROVE  DossierInv'
  <1>1. ASSUME NEW x \in Workers PROVE ClerkOK(clerk[x])'
    <2>1. CASE clerk[x].held = e
      BY <2>1, Zenon
    <2>2. CASE clerk[x].held # e
      <3> DEFINE d == clerk[x]
      <3>1. d' = d /\ ClerkOK(d) /\ d \in Clerks /\ d.held # e
        BY <2>2 DEF DossierInv, DossierTypes
      <3>2. \A k \in Clerks : ClerkOK(k) /\ k.held # e => ClerkOK(k)'
        BY OthersStand, Zenon
      <3> HIDE DEF d
      <3>3. ClerkOK(d)'
        BY <3>1, <3>2 DEF ClerkOK, Supports, Backs
      <3> QED
        BY <3>3 DEF d
    <2> QED
      BY <2>1, <2>2
  <1>2. Alone' /\ RegisterOK' /\ \A d \in Exports : ExportOK(d)'
    <2>1. Alone'
      BY Zenon DEF DossierInv, Alone
    <2> QED
      BY <2>1, OthersStand, Zenon
  <1> QED
    BY <1>1, <1>2, Zenon DEF DossierInv

LEMMA NothingTold == DossierInv /\ told' = told => TellsTruth
  BY DEF DossierInv, DossierTypes, TellsTruth

LEMMA ClerkRests ==
    ASSUME DossierInv, NEW w \in Workers, clerk' = [clerk EXCEPT ![w] = Idle],
           UNCHANGED <<fact, export, object>>, TellsTruth
    PROVE  DossierInv'
  <1>1. Idle \in Clerks
    BY RestIsTyped
  <1>2. ClerkOK(Idle) /\ Idle.at \notin Working
    BY DEF ClerkOK, Idle, Working
  <1> QED
    BY <1>1, <1>2, ClerkTurns

(* What the steps of a worker do to the row it holds.                        *)
LEMMA HandsOf ==
    ASSUME DossierInv, NEW w \in Workers, clerk[w].at # "idle"
    PROVE  /\ clerk[w].held \in Exports /\ export[clerk[w].held] \in ExportRows
           /\ clerk[w].archive \in Archives /\ clerk[w] \in Clerks /\ ClerkOK(clerk[w])
           /\ ExportOK(clerk[w].held)
  <1>1. clerk[w] \in Clerks /\ ClerkOK(clerk[w])
    BY DEF DossierInv, DossierTypes
  <1>2. clerk[w].held \in Exports
    BY <1>1, Zenon DEF ClerkOK
  <1> QED
    BY <1>1, <1>2 DEF DossierInv, DossierTypes, Clerks

LEMMA ClerkTyped ==
    ASSUME NEW at \in {"claim", "build", "put", "complete", "fail", "completed", "failed"}, NEW e \in Exports,
           NEW zip \in Archives
    PROVE  [at |-> at, held |-> e, archive |-> zip] \in Clerks
  BY DEF Clerks

LEMMA NextIsRead ==
    ASSUME DossierInv, NEW w \in Workers, AssembleNext(w)
    PROVE  DossierInv'
  <1>1. PICK e \in Exports : Goes(w, "claim", e, NoArchive)
    BY Zenon DEF AssembleNext, ByState
  <1> DEFINE c == [at |-> "claim", held |-> e, archive |-> NoArchive]
  <1>2. c \in Clerks
    BY RestIsTyped, ClerkTyped
  <1>3. clerk' = [clerk EXCEPT ![w] = c] /\ UNCHANGED <<fact, export, object, told>>
    BY <1>1 DEF Goes, AssembleNext
  <1>4. ClerkOK(c) /\ c.at \notin Working
    BY DEF ClerkOK, Working
  <1> HIDE DEF c
  <1> QED
    BY <1>2, <1>3, <1>4, ClerkTurns, NothingTold

LEMMA RowIsClaimed ==
    ASSUME DossierInv, NEW w \in Workers, Assemble(w)
    PROVE  DossierInv'
  <1>0. clerk[w].at = "claim" /\ UNCHANGED <<fact, object, told>>
    BY DEF Assemble
  <1>1. PICK e \in Exports : e = clerk[w].held /\ export[e] \in ExportRows /\ ExportOK(e)
    BY <1>0, HandsOf
  <1> DEFINE c == [at |-> "build", held |-> e, archive |-> NoArchive]
  <1>2. CASE BeginAssembly(e)
    <2>1. /\ export' = [export EXCEPT ![e].state = "ASSEMBLING", ![e].manifest = {}]
          /\ clerk' = [clerk EXCEPT ![w] = c] /\ export[e].state = "QUEUED"
      BY <1>1, <1>2 DEF Assemble, SaveExport, Goes, BeginAssembly
    <2>2. c \in Clerks /\ c.held = e /\ c.at = "build"
      BY <1>1, RestIsTyped, ClerkTyped
    <2> HIDE DEF c
    <2>3. export \in [Exports -> ExportRows] /\ object \in [Exports -> Archives]
      BY DEF DossierInv, DossierTypes
    <2>4. /\ export' \in [Exports -> ExportRows] /\ export'[e].state = "ASSEMBLING"
          /\ export'[e].as_of = export[e].as_of
          /\ \A d \in Exports \ {e} : export'[d] = export[d]
      BY <1>1, <2>1, <2>3 DEF ExportRows
    <2>5. Apart(e)
      BY <1>0, <2>4 DEF Apart
    <2>6. ClerkOK(c)'
      BY <1>1, <2>2, <2>4 DEF ClerkOK, Working
    <2>7. ExportOK(e)'
      <3>1. Recorded' = Recorded
        BY <1>0, SameRegister
      <3> QED
        BY <1>0, <1>1, <2>1, <2>4, <3>1 DEF ExportOK
    <2> QED
      BY <1>0, <1>1, <2>1, <2>2, <2>3, <2>4, <2>5, <2>6, <2>7, RowTurns
  <1>3. CASE ~BeginAssembly(e)
    BY <1>0, <1>1, <1>3, ClerkRests, NothingTold DEF Assemble
  <1> QED
    BY <1>2, <1>3

(* The gates of _build_members and the seal give an archive that supports    *)
(* its row.                                                                  *)
LEMMA SealedSupports ==
    ASSUME NEW type, NEW as_of, NEW r, Passes(type, as_of, r)
    PROVE  LET zip == SealZip(BuildMembers(type), RowsAsOf(as_of))
           IN  zip \in Archives /\ Backs(zip, type, as_of)
  <1> DEFINE zip == SealZip(BuildMembers(type), RowsAsOf(as_of))
  <1>1. zip.members = BuildMembers(type) /\ zip.manifest = zip.members /\ zip.facts = RowsAsOf(as_of)
    BY DEF SealZip, BuildManifest
  <1>2. RowsAsOf(as_of) \in SUBSET Facts /\ BuildMembers(type) \in SUBSET Sections
    BY MembersAreClasses, Zenon DEF RowsAsOf, Recorded
  <1>3. zip \in Archives
    BY <1>2 DEF SealZip, BuildManifest, Archives
  <1>4. "facts" \in BuildMembers(type) => FactGate(RowsAsOf(as_of))
    BY Zenon DEF Passes
  <1> HIDE DEF zip
  <1>5. Backs(zip, type, as_of)
    BY <1>1, <1>4 DEF Backs, FactGate, RowsAsOf, Recorded
  <1> QED
    BY <1>3, <1>5 DEF zip

LEMMA EvidenceIsGathered ==
    ASSUME DossierInv, NEW w \in Workers, Gather(w)
    PROVE  DossierInv'
  <1>0. clerk[w].at = "build" /\ UNCHANGED <<fact, export, object, told>>
    BY DEF Gather
  <1>1. PICK e \in Exports : e = clerk[w].held /\ ClerkOK(clerk[w])
    BY <1>0, HandsOf
  <1>2. export[e].state \in {"ASSEMBLING", "FAILED"}
    BY <1>0, <1>1 DEF ClerkOK, Working
  <1> DEFINE zip == SealZip(BuildMembers(export[e].type), RowsAsOf(export[e].as_of))
  <1>3. PICK r \in Readings : IF Passes(export[e].type, export[e].as_of, r) /\ VerifySealedZip(zip)
                               THEN Goes(w, "put", e, zip) ELSE Goes(w, "fail", e, NoArchive)
    BY <1>1, Zenon DEF Gather
  <1>4. CASE Passes(export[e].type, export[e].as_of, r) /\ Goes(w, "put", e, zip)
    <2>1. zip \in Archives /\ Supports(e, zip)
      BY <1>4, SealedSupports, Zenon DEF Supports
    <2> HIDE DEF zip
    <2> DEFINE c == [at |-> "put", held |-> e, archive |-> zip]
    <2>2. c \in Clerks
      BY <2>1, ClerkTyped
    <2>3. clerk' = [clerk EXCEPT ![w] = c]
      BY <1>4 DEF Goes
    <2>4. c.at = "put" /\ c.held = e /\ c.archive = zip
      OBVIOUS
    <2> HIDE DEF c
    <2>5. ClerkOK(c) /\ clerk[w].at \in Working /\ clerk[w].held = c.held
      BY <1>0, <1>1, <1>2, <2>1, <2>4 DEF ClerkOK, Working
    <2> QED
      BY <1>0, <2>2, <2>3, <2>5, ClerkTurns, NothingTold
  <1>5. CASE Goes(w, "fail", e, NoArchive)
    <2> DEFINE c == [at |-> "fail", held |-> e, archive |-> NoArchive]
    <2>2. c \in Clerks
      BY RestIsTyped, ClerkTyped
    <2>3. clerk' = [clerk EXCEPT ![w] = c]
      BY <1>5 DEF Goes
    <2>4. c.at = "fail" /\ c.held = e
      OBVIOUS
    <2> HIDE DEF c
    <2>5. ClerkOK(c) /\ clerk[w].at \in Working /\ clerk[w].held = c.held
      BY <1>0, <1>1, <1>2, <2>4 DEF ClerkOK, Working
    <2> QED
      BY <1>0, <2>2, <2>3, <2>5, ClerkTurns, NothingTold
  <1> QED
    BY <1>3, <1>4, <1>5

LEMMA ArchiveIsStored ==
    ASSUME DossierInv, NEW w \in Workers, Put(w)
    PROVE  DossierInv'
  <1>0. clerk[w].at = "put" /\ UNCHANGED <<fact, export, told>>
    BY DEF Put
  <1>1. PICK e \in Exports : /\ e = clerk[w].held /\ ClerkOK(clerk[w]) /\ ExportOK(e)
                             /\ clerk[w].archive \in Archives
    BY <1>0, HandsOf
  <1>2. export[e].state \in {"ASSEMBLING", "FAILED"}
    BY <1>0, <1>1 DEF ClerkOK, Working
  <1>3. PICK zip \in Archives : zip = clerk[w].archive
    BY <1>1
  <1>4. Supports(e, zip)
    BY <1>0, <1>1, <1>3 DEF ClerkOK
  <1>5. CASE object' = [object EXCEPT ![e] = zip] /\ Goes(w, "complete", e, zip)
    <2> DEFINE c == [at |-> "complete", held |-> e, archive |-> zip]
    <2>1. c \in Clerks
      BY ClerkTyped
    <2>2. clerk' = [clerk EXCEPT ![w] = c]
      BY <1>5 DEF Goes
    <2>3. c.at = "complete" /\ c.held = e /\ c.archive = zip
      OBVIOUS
    <2> HIDE DEF c
    <2>4. export \in [Exports -> ExportRows] /\ object \in [Exports -> Archives]
      BY DEF DossierInv, DossierTypes
    <2>5. object' \in [Exports -> Archives] /\ object'[e] = zip /\ \A d \in Exports \ {e} : object'[d] = object[d]
      BY <1>5, <2>4
    <2>6. Apart(e)
      BY <1>0, <2>5 DEF Apart
    <2>7. ClerkOK(c)'
      <3>1. Supports(e, zip)'
        BY <1>0, <1>4 DEF Supports, Backs
      <3> QED
        BY <1>0, <1>2, <2>3, <2>5, <3>1 DEF ClerkOK
    <2>8. ExportOK(e)'
      <3>1. Recorded' = Recorded
        BY <1>0, SameRegister
      <3> QED
        BY <1>0, <1>1, <1>2, <3>1 DEF ExportOK
    <2>9. clerk[w].at \in Working
      BY <1>0 DEF Working
    <2> QED
      BY <1>0, <1>1, <2>1, <2>2, <2>3, <2>4, <2>5, <2>6, <2>7, <2>8, <2>9, RowTurns
  <1>6. CASE Goes(w, "fail", e, NoArchive) /\ UNCHANGED object
    <2> DEFINE c == [at |-> "fail", held |-> e, archive |-> NoArchive]
    <2>2. c \in Clerks
      BY RestIsTyped, ClerkTyped
    <2>3. clerk' = [clerk EXCEPT ![w] = c]
      BY <1>6 DEF Goes
    <2>4. c.at = "fail" /\ c.held = e
      OBVIOUS
    <2> HIDE DEF c
    <2>5. ClerkOK(c) /\ clerk[w].at \in Working /\ clerk[w].held = c.held
      BY <1>0, <1>1, <1>2, <2>4 DEF ClerkOK, Working
    <2> QED
      BY <1>0, <1>6, <2>2, <2>3, <2>5, ClerkTurns, NothingTold
  <1> QED
    BY <1>1, <1>3, <1>5, <1>6 DEF Put

(* The save that closes a row, by the worker that claimed it.                *)
LEMMA RowIsClosed ==
    ASSUME DossierInv, NEW w \in Workers, NEW e \in Exports, e = clerk[w].held, clerk[w].at \in Working,
           NEW state \in {"COMPLETED", "FAILED"}, NEW manifest \in SUBSET Sections, SaveTakes(e),
           SaveExport(e, state, manifest),
           Goes(w, IF state = "COMPLETED" THEN "completed" ELSE "failed", e, NoArchive),
           UNCHANGED <<fact, object, told>>,
           state = "COMPLETED" => object[e].manifest = manifest /\ Supports(e, object[e])
    PROVE  DossierInv'
  <1> DEFINE at == IF state = "COMPLETED" THEN "completed" ELSE "failed"
             c == [at |-> at, held |-> e, archive |-> NoArchive]
  <1>1. ClerkOK(clerk[w]) /\ ExportOK(e)
    BY Zenon DEF DossierInv
  <1>2. export[e].state = "ASSEMBLING"
    BY <1>1 DEF ClerkOK, SaveTakes, Terminal
  <1>3. export \in [Exports -> ExportRows] /\ object \in [Exports -> Archives]
    BY DEF DossierInv, DossierTypes
  <1>4. /\ export' \in [Exports -> ExportRows] /\ export'[e].state = state /\ export'[e].manifest = manifest
        /\ export'[e].as_of = export[e].as_of /\ export'[e].type = export[e].type
        /\ \A d \in Exports \ {e} : export'[d] = export[d]
    BY <1>3 DEF SaveExport, ExportRows
  <1>5. c \in Clerks
    BY RestIsTyped, ClerkTyped
  <1>6. clerk' = [clerk EXCEPT ![w] = c]
    BY DEF Goes
  <1>7. c.held = e /\ c.at = at
    OBVIOUS
  <1> HIDE DEF c
  <1>8. Apart(e)
    BY <1>4 DEF Apart
  <1>9. ClerkOK(c)'
    BY <1>4, <1>7 DEF ClerkOK, Working
  <1>10. ExportOK(e)'
    <2>1. Recorded' = Recorded
      BY SameRegister
    <2>2. state = "COMPLETED" => object'[e].manifest = export'[e].manifest /\ Supports(e, object[e])'
      BY <1>4 DEF Supports, Backs
    <2> QED
      BY <1>1, <1>2, <1>4, <2>1, <2>2 DEF ExportOK
  <1> HIDE DEF at
  <1> QED
    BY <1>2, <1>3, <1>4, <1>5, <1>6, <1>7, <1>8, <1>9, <1>10, RowTurns

LEMMA ClerkCloses ==
    ASSUME DossierInv, NEW w \in Workers, CompleteRow(w) \/ Fail(w)
    PROVE  DossierInv'
  <1>0. clerk[w].at \in {"complete", "fail"} /\ UNCHANGED <<fact, object, told>>
    BY DEF CompleteRow, Fail
  <1>1. PICK e \in Exports : /\ e = clerk[w].held /\ ClerkOK(clerk[w]) /\ clerk[w].archive \in Archives
    BY <1>0, HandsOf
  <1>2. clerk[w].at \in Working
    BY <1>0 DEF Working
  <1>3. CASE ~SaveTakes(e)
    <2>1. clerk' = [clerk EXCEPT ![w] = Idle] /\ UNCHANGED export
      BY <1>1, <1>3 DEF CompleteRow, Fail
    <2> QED
      BY <1>0, <2>1, ClerkRests, NothingTold
  <1>4. CASE SaveTakes(e) /\ clerk[w].at = "complete"
    <2>1. PICK manifest \in SUBSET Sections : manifest = clerk[w].archive.manifest
      BY <1>1 DEF Archives
    <2>2. SaveExport(e, "COMPLETED", manifest) /\ Goes(w, "completed", e, NoArchive)
      BY <1>1, <1>4, <2>1 DEF CompleteRow, Fail
    <2>3. object[e].manifest = manifest /\ Supports(e, object[e])
      BY <1>1, <1>4, <2>1 DEF ClerkOK
    <2> QED
      BY <1>0, <1>1, <1>2, <1>4, <2>2, <2>3, RowIsClosed
  <1>5. CASE SaveTakes(e) /\ clerk[w].at = "fail"
    <2>1. SaveExport(e, "FAILED", {}) /\ Goes(w, "failed", e, NoArchive)
      BY <1>1, <1>5 DEF CompleteRow, Fail
    <2> QED
      BY <1>0, <1>1, <1>2, <1>5, <2>1, RowIsClosed
  <1> QED
    BY <1>0, <1>3, <1>4, <1>5

LEMMA EventIsSent ==
    ASSUME DossierInv, NEW w \in Workers, Tell(w)
    PROVE  DossierInv'
  <1>0. /\ clerk[w].at \in {"completed", "failed"} /\ clerk' = [clerk EXCEPT ![w] = Idle]
        /\ UNCHANGED <<fact, export, object>>
    BY DEF Tell
  <1>1. PICK e \in Exports : e = clerk[w].held /\ ClerkOK(clerk[w])
    BY <1>0, HandsOf
  <1>2. told \in [Exports -> SUBSET {"completed", "failed"}]
    BY DEF DossierInv, DossierTypes
  <1>3. told' = [told EXCEPT ![e] = @ \cup {clerk[w].at}]
    BY <1>1 DEF Tell
  <1>4. TellsTruth
    BY <1>0, <1>1, <1>2, <1>3 DEF TellsTruth, ClerkOK
  <1> QED
    BY <1>0, <1>4, ClerkRests

LEMMA ClerkDies ==
    ASSUME DossierInv, NEW w \in Workers, CrashClerk(w)
    PROVE  DossierInv'
  BY ClerkRests, NothingTold DEF CrashClerk

LEMMA RowIsQueued ==
    ASSUME DossierInv, NEW e \in Exports, NEW type \in DOSSIER_TYPES, NEW n \in Nat, Queue(e, type, n)
    PROVE  DossierInv'
  <1> DEFINE row == [NoExport EXCEPT !.state = "QUEUED", !.type = type, !.as_of = n]
  <1>1. /\ export[e].state = "NONE" /\ export' = [export EXCEPT ![e] = row] /\ n <= Cardinality(Recorded)
        /\ UNCHANGED <<fact, object, told, clerk>>
    BY DEF Queue, ValidSnapshot, InsertExport
  <1>2. row \in ExportRows /\ row.state = "QUEUED" /\ row.as_of = n
    BY DEF NoExport, ExportRows
  <1> HIDE DEF row
  <1>3. export \in [Exports -> ExportRows] /\ ExportOK(e)
    BY DEF DossierInv, DossierTypes
  <1>4. /\ export' \in [Exports -> ExportRows] /\ export'[e] = row
        /\ \A d \in Exports \ {e} : export'[d] = export[d]
    BY <1>1, <1>2, <1>3
  <1>5. DossierTypes' /\ Apart(e)
    BY <1>1, <1>4 DEF DossierInv, DossierTypes, Apart
  <1>6. ExportOK(e)'
    <2>1. Recorded' = Recorded
      BY <1>1, SameRegister
    <2> QED
      BY <1>1, <1>2, <1>3, <1>4, <2>1 DEF ExportOK
  <1>7. ASSUME NEW x \in Workers, clerk[x].held = e PROVE ClerkOK(clerk[x])'
    <2>1. ClerkOK(clerk[x])
      BY Zenon DEF DossierInv
    <2> QED
      BY <1>1, <1>7, <2>1 DEF ClerkOK, Working
  <1> QED
    BY <1>1, <1>5, <1>6, <1>7, RowAlone

(* The clock, and the sweep that fails a row nobody has closed.              *)
LEMMA RowAges ==
    ASSUME DossierInv, NEW e \in Exports, Age(e)
    PROVE  DossierInv'
  <1>1. /\ export' = [export EXCEPT ![e].old = TRUE] /\ UNCHANGED <<fact, object, told, clerk>>
    BY DEF Age
  <1>2. export \in [Exports -> ExportRows] /\ ExportOK(e)
    BY DEF DossierInv, DossierTypes
  <1>3. /\ export' \in [Exports -> ExportRows] /\ export'[e].state = export[e].state
        /\ export'[e].type = export[e].type /\ export'[e].as_of = export[e].as_of
        /\ export'[e].manifest = export[e].manifest /\ \A d \in Exports \ {e} : export'[d] = export[d]
    BY <1>1, <1>2 DEF ExportRows
  <1>4. DossierTypes' /\ Apart(e)
    BY <1>1, <1>3 DEF DossierInv, DossierTypes, Apart
  <1>5. ExportOK(e)'
    <2>1. Recorded' = Recorded
      BY <1>1, SameRegister
    <2>2. Supports(e, object[e]) => Supports(e, object[e])'
      BY <1>1, <1>3 DEF Supports, Backs
    <2> QED
      BY <1>1, <1>2, <1>3, <2>1, <2>2 DEF ExportOK
  <1>6. ASSUME NEW x \in Workers, clerk[x].held = e PROVE ClerkOK(clerk[x])'
    <2>1. ClerkOK(clerk[x])
      BY Zenon DEF DossierInv
    <2>2. Supports(e, clerk[x].archive) => Supports(e, clerk[x].archive)'
      BY <1>1, <1>3 DEF Supports, Backs
    <2> QED
      BY <1>1, <1>3, <1>6, <2>1, <2>2 DEF ClerkOK
  <1> QED
    BY <1>1, <1>4, <1>5, <1>6, RowAlone

LEMMA DossiersRest ==
    ASSUME DossierInv, UNCHANGED <<fact, export, object, told, clerk>>
    PROVE  DossierInv'
  <1>1. DossierTypes' /\ Alone'
    BY Zenon DEF DossierInv, DossierTypes, Alone
  <1>2. RegisterOK' /\ Recorded' = Recorded
    BY SameRegister, Zenon DEF DossierInv
  <1>3. \A w \in Workers : ClerkOK(clerk[w])'
    BY Zenon DEF DossierInv, ClerkOK, Supports, Backs
  <1>4. \A e \in Exports : ExportOK(e)'
    BY <1>2, Zenon DEF DossierInv, ExportOK, Supports, Backs
  <1> QED
    BY <1>1, <1>2, <1>3, <1>4, Zenon DEF DossierInv

LEMMA RowIsSwept ==
    ASSUME DossierInv, NEW e \in Exports, SweepOne(e)
    PROVE  DossierInv'
  <1>0. UNCHANGED <<fact, object, clerk>>
    BY DEF SweepOne
  <1>1. CASE SaveTakes(e)
    <2>1. /\ export' = [export EXCEPT ![e].state = "FAILED", ![e].manifest = {}]
          /\ told' = [told EXCEPT ![e] = @ \cup {"failed"}] /\ export[e].state \notin {"COMPLETED", "FAILED"}
      BY <1>1 DEF SweepOne, SaveExport, SaveTakes, Terminal
    <2>2. /\ export \in [Exports -> ExportRows] /\ told \in [Exports -> SUBSET {"completed", "failed"}]
          /\ ExportOK(e)
      BY DEF DossierInv, DossierTypes
    <2>3. /\ export' \in [Exports -> ExportRows] /\ export'[e].state = "FAILED"
          /\ export'[e].type = export[e].type /\ export'[e].as_of = export[e].as_of
          /\ \A d \in Exports \ {e} : export'[d] = export[d]
      <3> DEFINE row == [export[e] EXCEPT !.state = "FAILED", !.manifest = {}]
      <3>1. row \in ExportRows /\ row.state = "FAILED" /\ row.type = export[e].type /\ row.as_of = export[e].as_of
        BY <2>2 DEF ExportRows
      <3>2. export' = [export EXCEPT ![e] = row]
        BY <2>1
      <3> HIDE DEF row
      <3> QED
        BY <2>2, <3>1, <3>2
    <2>4. /\ told' \in [Exports -> SUBSET {"completed", "failed"}] /\ told'[e] = told[e] \cup {"failed"}
          /\ \A d \in Exports \ {e} : told'[d] = told[d]
      BY <2>1, <2>2
    <2>5. DossierTypes' /\ Apart(e)
      BY <1>0, <2>3, <2>4 DEF DossierInv, DossierTypes, Apart
    <2>6. ExportOK(e)'
      <3>1. Recorded' = Recorded
        BY <1>0, SameRegister
      <3> QED
        BY <2>1, <2>2, <2>3, <2>4, <3>1 DEF ExportOK
    <2>7. ASSUME NEW x \in Workers, clerk[x].held = e PROVE ClerkOK(clerk[x])'
      <3>1. ClerkOK(clerk[x])
        BY Zenon DEF DossierInv
      <3>2. Supports(e, clerk[x].archive) => Supports(e, clerk[x].archive)'
        BY <1>0, <2>3 DEF Supports, Backs
      <3> QED
        BY <1>0, <2>1, <2>3, <2>7, <3>1, <3>2 DEF ClerkOK
    <2> QED
      BY <1>0, <2>5, <2>6, <2>7, RowAlone
  <1>2. CASE ~SaveTakes(e)
    <2>1. UNCHANGED <<fact, object, clerk, export, told>>
      BY <1>0, <1>2 DEF SweepOne
    <2> QED
      BY <2>1, DossiersRest
  <1> QED
    BY <1>1, <1>2

LEMMA DossierStep == DossierInv /\ [DNext]_dossiers => DossierInv'
  <1> SUFFICES ASSUME DossierInv, [DNext]_dossiers PROVE DossierInv'
    OBVIOUS
  <1>1. CASE UNCHANGED <<fact, export, object, told, clerk>>
    BY <1>1, DossiersRest
  <1>2. ASSUME NEW f \in Facts, NEW by \in Operators, NEW b \in BOOLEAN, Record(f, by, b) PROVE DossierInv'
    BY <1>2, FactIsRecorded
  <1>3. ASSUME NEW f \in Facts, Retract(f) \/ \E by \in Operators : Verify(f, by) PROVE DossierInv'
    BY <1>3, FactsAreDecided
  <1>4. ASSUME NEW e \in Exports, NEW t \in DOSSIER_TYPES, NEW n \in 0 .. Cardinality(Facts), Queue(e, t, n)
        PROVE  DossierInv'
    BY <1>4, RowIsQueued
  <1>5. ASSUME NEW w \in Workers,
               \/ AssembleNext(w) \/ Assemble(w) \/ Gather(w) \/ Put(w)
               \/ CompleteRow(w) \/ Fail(w) \/ Tell(w) \/ CrashClerk(w)
        PROVE  DossierInv'
    BY <1>5, NextIsRead, RowIsClaimed, EvidenceIsGathered, ArchiveIsStored, ClerkCloses, EventIsSent,
       ClerkDies, Zenon
  <1>6. ASSUME NEW e \in Exports, Age(e) \/ SweepOne(e) PROVE DossierInv'
    BY <1>6, RowAges, RowIsSwept, Zenon
  <1>7. SweepTimeouts \/ UNCHANGED dossiers => UNCHANGED <<fact, export, object, told, clerk>>
    BY Zenon DEF SweepTimeouts, dossiers
  <1> QED
    BY <1>1, <1>2, <1>3, <1>4, <1>5, <1>6, <1>7, Zenon DEF DNext

LEMMA SoundFromInv == DossierInv => DossiersAreSound
  <1> SUFFICES ASSUME DossierInv, NEW e \in Exports
               PROVE  /\ told[e] \subseteq (CASE export[e].state = "COMPLETED" -> {"completed"}
                                               [] export[e].state = "FAILED" -> {"failed"}
                                               [] OTHER -> {})
                      /\ export[e].state = "COMPLETED" =>
                           /\ Downloadable(e)
                           /\ object[e].manifest = export[e].manifest
                           /\ object[e].members = BuildMembers(export[e].type)
                           /\ "facts" \in object[e].members =>
                                \A f \in Recorded :
                                  fact[f].blocking /\ fact[f].born <= export[e].as_of =>
                                    /\ f \in object[e].facts
                                    /\ fact[f].status = "VERIFIED"
                                    /\ fact[f].verified_by # fact[f].created_by
    BY DEF DossiersAreSound
  <1>1. ExportOK(e) /\ RegisterOK /\ told[e] \in SUBSET {"completed", "failed"}
    BY DEF DossierInv, DossierTypes
  <1>2. told[e] \subseteq (CASE export[e].state = "COMPLETED" -> {"completed"}
                             [] export[e].state = "FAILED" -> {"failed"}
                             [] OTHER -> {})
    BY <1>1 DEF ExportOK
  <1>3. ASSUME export[e].state = "COMPLETED" PROVE object[e].members = BuildMembers(export[e].type)
    BY <1>1, <1>3, Zenon DEF ExportOK, Supports, Backs
  <1>4. "chain" \in BuildMembers(export[e].type)
    BY DEF BuildMembers
  <1>5. NoArchive.members = {}
    BY DEF NoArchive
  <1>6. ASSUME export[e].state = "COMPLETED" PROVE Downloadable(e)
    BY <1>3, <1>4, <1>5, <1>6 DEF Downloadable
  <1>7. ASSUME export[e].state = "COMPLETED", "facts" \in object[e].members, NEW f \in Recorded,
               fact[f].blocking, fact[f].born <= export[e].as_of
        PROVE  f \in object[e].facts /\ fact[f].status = "VERIFIED" /\ fact[f].verified_by # fact[f].created_by
    BY <1>1, <1>7, Zenon DEF ExportOK, Supports, Backs, Recorded, RegisterOK
  <1> QED
    BY <1>1, <1>2, <1>3, <1>6, <1>7, Zenon DEF ExportOK

(* What DossiersAreSound says, for any number of dossiers, facts, operators  *)
(* and workers and any number of crashes: the saves of                       *)
(* PostgresDossierExportStore, one claimant per row and none over a row that *)
(* ended, keep a finished dossier, its archive and its event in agreement.   *)
THEOREM DossiersStaySound == DSpec => []DossiersAreSound
  BY DossiersInitially, DossierStep, SoundFromInv, PTL DEF DSpec
=============================================================================
