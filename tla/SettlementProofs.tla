-------------------------- MODULE SettlementProofs --------------------------
(***************************************************************************)
(* The settlement engine keeps its promises at every durable write.  The   *)
(* inductive invariant says what each kind of operation under way knows of *)
(* its batch and its row (SWorkOK), what a batch's row, closing entry and  *)
(* events say of one another (SBatchOK), and what an instruction owes to   *)
(* the journal (SInstOK).                                                  *)
(***************************************************************************)
EXTENDS Settlement, WellFoundedInduction, TLAPS

(* A step that names no prover is tried with each of these in turn.         *)
USE ZenonT(2), SMT, Zenon, SMTT(30)

(* The loops over a batch's rows take the least id left: there is one.       *)
LEMMA MinIsMember ==
    ASSUME NEW S, S \subseteq Nat, S # {}
    PROVE  Min(S) \in S
  <1> DEFINE R == {ss \in Nat \X Nat : ss[1] < ss[2]}
  <1>1. IsWellFoundedOn(R, Nat)
    BY NatLessThanWellFounded, Zenon DEF OpToRel
  <1>2. PICK x \in S : \A y \in S : ~(<<y, x>> \in R)
    <2> HIDE DEF R
    <2> QED
      BY <1>1, WFMin, Zenon
  <1>3. ASSUME NEW y \in S PROVE x =< y
    <2>1. <<y, x>> \in Nat \X Nat /\ x \in Nat /\ y \in Nat
      OBVIOUS
    <2>2. ~(y < x)
      BY <1>2, <2>1
    <2> QED
      BY <2>1, <2>2
  <1> QED
    BY <1>3 DEF Min

SBatchRows == [status : SETTLEMENT_BATCH_STATES \cup {"ABSENT"}, count : Nat, twoEyes : BOOLEAN,
               retries : Nat, ref : BOOLEAN]
SInstRows == [status : INSTRUCTION_STATES \cup {"ABSENT"}, batch : Cycles \cup {NoBatch},
              due : BOOLEAN, frozen : BOOLEAN]

(* The engine's writes keep a batch's row, and an instruction's, in its type.*)
LEMMA SBatchRowSet ==
    ASSUME NEW row \in SBatchRows
    PROVE  /\ \A s \in SETTLEMENT_BATCH_STATES : [row EXCEPT !.status = s] \in SBatchRows
           /\ \A v \in BOOLEAN : [row EXCEPT !.twoEyes = v] \in SBatchRows
           /\ [row EXCEPT !.ref = TRUE] \in SBatchRows
           /\ [row EXCEPT !.count = @ + 1] \in SBatchRows
           /\ [row EXCEPT !.status = "PENDING_DISPATCH", !.retries = @ + 1] \in SBatchRows
  <1> USE DEF SBatchRows, SETTLEMENT_BATCH_STATES
  <1>1. ASSUME NEW s \in SETTLEMENT_BATCH_STATES PROVE [row EXCEPT !.status = s] \in SBatchRows
    OBVIOUS
  <1>2. ASSUME NEW v \in BOOLEAN PROVE [row EXCEPT !.twoEyes = v] \in SBatchRows
    OBVIOUS
  <1>3. [row EXCEPT !.ref = TRUE] \in SBatchRows
    OBVIOUS
  <1>4. [row EXCEPT !.count = @ + 1] \in SBatchRows
    OBVIOUS
  <1>5. [row EXCEPT !.status = "PENDING_DISPATCH", !.retries = @ + 1] \in SBatchRows
    <2>1. ASSUME NEW n \in Nat
          PROVE  [row EXCEPT !.status = "PENDING_DISPATCH", !.retries = n] \in SBatchRows
      OBVIOUS
    <2>2. row.retries + 1 \in Nat
      OBVIOUS
    <2> HIDE DEF SBatchRows
    <2> QED
      BY <2>1, <2>2
  <1> QED
    BY <1>1, <1>2, <1>3, <1>4, <1>5

(* The same for the settlement_instructions row.                             *)
LEMMA SInstRowSet ==
    ASSUME NEW row \in SInstRows
    PROVE  /\ \A s \in INSTRUCTION_STATES : [row EXCEPT !.status = s] \in SInstRows
           /\ \A b \in Cycles : [row EXCEPT !.batch = b] \in SInstRows
           /\ \A v \in BOOLEAN : [row EXCEPT !.due = v] \in SInstRows
           /\ \A v \in BOOLEAN : [row EXCEPT !.status = "QUEUED", !.due = v] \in SInstRows
           /\ [row EXCEPT !.frozen = ~@] \in SInstRows
  BY DEF SInstRows, INSTRUCTION_STATES

STypes ==
    /\ sbatch \in [Cycles -> SBatchRows]
    /\ sinst \in [Instructions -> SInstRows]
    /\ cycle \in Cycles
    /\ closed \in [Cycles -> SUBSET Instructions]
    /\ work \in [op : {"idle", "stage", "count", "link", "eyes", "submit", "close", "commit",
                       "settle", "tell", "emit", "reconcile", "fail", "retry", "requeue",
                       "giveup", "cancel", "void", "bury"},
                 b : Cycles \cup {NoBatch}, i : Instructions \cup {0}, todo : SUBSET Instructions]

(* What each kind of operation knows of its batch and its row.               *)
OnBatch(ops, statuses) ==
    work.op \in ops => work.b \in Cycles /\ sbatch[work.b].status \in statuses

SWorkOK ==
    /\ OnBatch({"stage", "count", "link", "eyes"}, {"OPEN"})
    /\ OnBatch({"submit", "close", "commit"}, {"DISPATCHED"})
    /\ OnBatch({"settle", "reconcile"}, {"CONFIRMED"})
    /\ OnBatch({"fail", "retry", "giveup", "bury"}, {"FAILED"})
    /\ OnBatch({"cancel", "void"}, {"PENDING_DISPATCH", "HELD"})
    /\ work.op = "requeue" => work.b \in Cycles
    /\ work.op \in {"tell", "emit"} => work.b = NoBatch \/ sbatch[work.b].status = "CONFIRMED"
    /\ work.op \in {"stage", "count", "link"}
          => /\ work.i \in Instructions
             /\ sinst[work.i].status = "QUEUED" /\ sinst[work.i].batch = NoBatch
    /\ work.op \in {"count", "link"} => <<work.b, work.i>> \in staged
    /\ work.op = "submit" => /\ ~sbatch[work.b].ref
                             /\ \A i \in work.todo : sinst[i].batch = work.b
    /\ work.op \in {"close", "commit"} => sbatch[work.b].ref
    /\ work.op = "commit" => work.todo \subseteq closed[work.b]
    /\ work.op \in {"close", "commit", "settle", "tell", "emit"} /\ work.b # NoBatch
          => \A i \in Instructions :
                i \in work.todo <=> sinst[i].batch = work.b /\ sinst[i].status = "SUBMITTED"
    /\ work.op = "reconcile"
          => \A i \in Instructions : sinst[i].batch = work.b =>
                /\ sinst[i].status # "SUBMITTED"
                /\ sinst[i].status = "SETTLED" => i \in work.todo \/ Told("inst", i)
    /\ work.op = "retry" => sbatch[work.b].retries < MAX_RETRIES
    /\ work.op \in {"giveup", "bury"} => sbatch[work.b].retries >= MAX_RETRIES

SBatchOK(b) ==
    /\ sbatch[b].ref => sbatch[b].status \in {"DISPATCHED", "CONFIRMED"}
    /\ closed[b] # {} => sbatch[b].ref
    /\ closed[b] # {} \/ sbatch[b].status = "CONFIRMED"
          => \A i \in Instructions :
                sinst[i].batch = b /\ sinst[i].status = "SUBMITTED" => i \in closed[b]
    /\ \A i \in closed[b] : <<b, i>> \in staged
    /\ (\E i \in Instructions : <<b, i>> \in unstaged) /\ b \notin cancelCut
          => \/ sbatch[b].status = "CANCELLED"
             \/ sbatch[b].status = "FAILED" /\ sbatch[b].retries >= MAX_RETRIES
             \/ work.op \in {"cancel", "void"} /\ work.b = b
    /\ <<"audit", "batch", b>> \in told \/ <<"outbox", "batch", b>> \in told
          => /\ sbatch[b].status = "CONFIRMED"
             /\ \A i \in Instructions : sinst[i].batch = b =>
                   /\ sinst[i].status # "SUBMITTED"
                   /\ sinst[i].status = "SETTLED" => Told("inst", i)

SInstOK(i) ==
    /\ sinst[i].batch # NoBatch => <<sinst[i].batch, i>> \in staged
    /\ sinst[i].status = "SETTLED" /\ i \notin byRail => i \in closed[sinst[i].batch]

SInv ==
    /\ STypes
    /\ SWorkOK
    /\ \A b \in Cycles : SBatchOK(b)
    /\ \A i \in Instructions : SInstOK(i)

(* An empty store satisfies the invariant.                                   *)
LEMMA SInitially == SInit => SInv
  BY SettlementAssumption
  DEF SInit, SInv, STypes, SWorkOK, OnBatch, SBatchOK, SInstOK, NoWork, NoBatch, SBatchRows,
      SInstRows

(* What the writes to a row leave alone.                                     *)
SameBatch(b) ==
    /\ sbatch'[b].status = sbatch[b].status /\ sbatch'[b].ref = sbatch[b].ref
    /\ sbatch'[b].retries = sbatch[b].retries
SameInst(i) == sinst'[i].status = sinst[i].status /\ sinst'[i].batch = sinst[i].batch

(* What update_batch_status, the two-eyes flag, persist_confirmation_evidence*)
(* and update_instruction_status write, and what they leave alone.           *)
LEMMA StatusWritten ==
    ASSUME STypes, NEW b \in Cycles, NEW s \in SETTLEMENT_BATCH_STATES, SetStatus(b, s)
    PROVE  /\ sbatch' \in [Cycles -> SBatchRows]
           /\ \A c \in Cycles \ {b} : SameBatch(c)
           /\ sbatch'[b].status = s /\ sbatch'[b].ref = sbatch[b].ref
           /\ sbatch'[b].retries = sbatch[b].retries
  <1>1. [sbatch[b] EXCEPT !.status = s] \in SBatchRows
    BY SBatchRowSet DEF STypes
  <1> QED
    BY <1>1 DEF STypes, SetStatus, SameBatch, SBatchRows

(* The two-eyes flag.                                                        *)
LEMMA TwoEyesWritten ==
    ASSUME STypes, NEW b \in Cycles, NEW v \in BOOLEAN, SetTwoEyes(b, v)
    PROVE  sbatch' \in [Cycles -> SBatchRows] /\ \A c \in Cycles : SameBatch(c)
  <1>1. [sbatch[b] EXCEPT !.twoEyes = v] \in SBatchRows
    BY SBatchRowSet DEF STypes
  <1> QED
    BY <1>1 DEF STypes, SetTwoEyes, SameBatch, SBatchRows

(* The sponsor's reference.                                                  *)
LEMMA EvidenceWritten ==
    ASSUME STypes, NEW b \in Cycles, PersistConfirmationEvidence(b)
    PROVE  /\ sbatch' \in [Cycles -> SBatchRows]
           /\ \A c \in Cycles \ {b} : SameBatch(c)
           /\ sbatch'[b].ref /\ sbatch'[b].status = sbatch[b].status
           /\ sbatch'[b].retries = sbatch[b].retries
  <1>1. [sbatch[b] EXCEPT !.ref = TRUE] \in SBatchRows
    BY SBatchRowSet DEF STypes
  <1> QED
    BY <1>1 DEF STypes, PersistConfirmationEvidence, SameBatch, SBatchRows

(* An instruction's status.                                                  *)
LEMMA InstWritten ==
    ASSUME STypes, NEW i \in Instructions, NEW s \in INSTRUCTION_STATES, SetInst(i, s)
    PROVE  /\ sinst' \in [Instructions -> SInstRows]
           /\ \A j \in Instructions \ {i} : SameInst(j)
           /\ sinst'[i].status = s /\ sinst'[i].batch = sinst[i].batch
  <1>1. [sinst[i] EXCEPT !.status = s] \in SInstRows
    BY SInstRowSet DEF STypes
  <1> QED
    BY <1>1 DEF STypes, SetInst, SameInst, SInstRows

(* Steps that leave the rows of the batches, the journal and the events as   *)
(* they are, and at most move one instruction out of the batch's way.        *)
KeepsCancelling ==
    work.op \in {"cancel", "void"} => work'.op \in {"cancel", "void"} /\ work'.b = work.b

(* Such steps keep what the invariant says of batches and instructions.      *)
LEMMA RowsStand ==
    ASSUME SInv, \A c \in Cycles : SameBatch(c), KeepsCancelling,
           \A j \in Instructions :
              \/ SameInst(j)
              \/ sinst'[j].batch = sinst[j].batch /\ sinst'[j].status \notin {"SUBMITTED", "SETTLED"},
           UNCHANGED <<staged, unstaged, closed, told, cancelCut, byRail>>
    PROVE  (\A c \in Cycles : SBatchOK(c)') /\ (\A j \in Instructions : SInstOK(j)')
  <1>1. ASSUME NEW c \in Cycles PROVE SBatchOK(c)'
    <2>1. SBatchOK(c)
      BY DEF SInv
    <2> QED
      BY <2>1 DEF SBatchOK, SameBatch, SameInst, KeepsCancelling, Told
  <1>2. ASSUME NEW j \in Instructions PROVE SInstOK(j)'
    <2>1. SInstOK(j)
      BY DEF SInv
    <2> QED
      BY <2>1 DEF SInstOK, SameInst
  <1> QED
    BY <1>1, <1>2

(* A batch without evidence may change its status.                           *)
LEMMA BatchMoves ==
    ASSUME SInv, NEW b \in Cycles, ~sbatch[b].ref, sbatch[b].status # "CONFIRMED",
           \A c \in Cycles \ {b} : SameBatch(c), ~sbatch'[b].ref, sbatch'[b].status # "CONFIRMED",
           \/ sbatch'[b].status = "CANCELLED"
           \/ sbatch[b].status \notin {"CANCELLED", "FAILED"} /\ work.op \notin {"cancel", "void"}
           \/ sbatch[b].status = "FAILED" /\ sbatch[b].retries < MAX_RETRIES /\ work.op = "retry",
           work.op \in {"cancel", "void"} => work.b = b,
           sinst' = sinst, UNCHANGED <<staged, unstaged, closed, told, cancelCut, byRail>>
    PROVE  (\A c \in Cycles : SBatchOK(c)') /\ (\A j \in Instructions : SInstOK(j)')
  <1>1. ASSUME NEW c \in Cycles PROVE SBatchOK(c)'
    <2>1. SBatchOK(c)
      BY DEF SInv
    <2>2. CASE c = b
      <3>1. sbatch[b].retries < MAX_RETRIES => ~(sbatch[b].retries >= MAX_RETRIES)
        <4>1. sbatch[b].retries \in Nat
          BY DEF SInv, STypes, SBatchRows
        <4> QED
          BY <4>1, SettlementAssumption
      <3>2. \A i \in Instructions : <<b, i>> \in unstaged /\ b \notin cancelCut
               => sbatch'[b].status = "CANCELLED"
        BY <2>1, <2>2, <3>1 DEF SBatchOK
      <3> QED
        BY <2>1, <2>2, <3>2 DEF SBatchOK, Told
    <2>3. CASE c # b
      BY <2>1, <2>3 DEF SBatchOK, SameBatch, Told
    <2> QED
      BY <2>2, <2>3
  <1>2. ASSUME NEW j \in Instructions PROVE SInstOK(j)'
    BY DEF SInv, SInstOK
  <1> QED
    BY <1>1, <1>2


(* Every step of every operation, and a crash between any two, keeps it.     *)
LEMMA SStep == SInv /\ [SNext]_svars => SInv'
  <1> SUFFICES ASSUME SInv, [SNext]_svars PROVE SInv'
    OBVIOUS
  <1> USE SettlementAssumption DEF NoBatch, NoWork, At, journal, past
  <1>0. STypes /\ SWorkOK
    BY DEF SInv
  <1>1. CASE NextCycle
    <2>1. STypes'
      BY <1>0, <1>1 DEF STypes, SWorkOK, OnBatch, In, NextCycle
    <2>2. SWorkOK'
      BY <1>0, <1>1 DEF STypes, SWorkOK, OnBatch, SameBatch, SameInst, Told, In, NextCycle
    <2>3. (\A c \in Cycles : SBatchOK(c)') /\ (\A j \in Instructions : SInstOK(j)')
      BY <1>0, <1>1, RowsStand DEF SameBatch, SameInst, KeepsCancelling, SWorkOK, OnBatch, NextCycle
    <2> QED
      BY <2>1, <2>2, <2>3 DEF SInv
  <1>2. CASE AssignDueInstruction
    <2>1. Min(Due) \in Due
      BY <1>0, <1>2, MinIsMember DEF STypes, Due, AssignDueInstruction, DoOne
    <2>2. PICK m \in Instructions : m = Min(Due) /\ sinst[m].status = "QUEUED" /\ sinst[m].batch = NoBatch
      BY <2>1 DEF Due, _releasable
    <2>3. /\ sbatch' \in [Cycles -> SBatchRows] /\ \A c \in Cycles \ {cycle} : SameBatch(c)
          /\ sbatch'[cycle].status = "OPEN" /\ sbatch'[cycle].ref = sbatch[cycle].ref
          /\ sbatch'[cycle].retries = sbatch[cycle].retries
      BY <1>0, <1>2, StatusWritten DEF AssignDueInstruction, DoOne, SETTLEMENT_BATCH_STATES, SWorkOK, OnBatch, STypes
    <2>4. work' = [op |-> "stage", b |-> cycle, i |-> m, todo |-> {}]
      BY <2>2, <1>2 DEF AssignDueInstruction, DoOne
    <2>5. STypes'
      BY <2>1, <2>2, <2>3, <2>4, <1>0, <1>2 DEF STypes, SWorkOK, OnBatch, In, AssignDueInstruction, DoOne
    <2>6. SWorkOK'
      BY <2>1, <2>2, <2>3, <2>4, <1>0, <1>2 DEF STypes, SWorkOK, OnBatch, SameBatch, SameInst, Told, In, AssignDueInstruction, DoOne
    <2>7. cycle \in Cycles
      BY <2>1, <2>2, <2>3, <2>4, <1>0, <1>2 DEF AssignDueInstruction, DoOne, SWorkOK, OnBatch, STypes
    <2>8. SBatchOK(cycle)
      BY <2>7 DEF SInv
    <2>9. (\A c \in Cycles : SBatchOK(c)') /\ (\A j \in Instructions : SInstOK(j)')
      BY <2>8, <2>7, <2>1, <2>2, <2>3, <2>4, <1>0, <1>2, BatchMoves DEF SBatchOK, SWorkOK, OnBatch, AssignDueInstruction, DoOne
    <2> QED
      BY <2>5, <2>6, <2>9 DEF SInv
  <1>3. ASSUME NEW i \in Instructions, RegisterSucceededPayment(i) PROVE SInv'
    <2>1. PICK v \in BOOLEAN : sinst' = [sinst EXCEPT ![i].status = "QUEUED", ![i].due = v]
      BY <1>3 DEF RegisterSucceededPayment
    <2>2. [sinst[i] EXCEPT !.status = "QUEUED", !.due = v] \in SInstRows
      BY <1>0, SInstRowSet DEF STypes
    <2>3. /\ sinst' \in [Instructions -> SInstRows] /\ \A j \in Instructions \ {i} : SameInst(j)
          /\ sinst'[i].status = "QUEUED" /\ sinst'[i].batch = sinst[i].batch
      BY <1>0, <2>1, <2>2 DEF STypes, SameInst, SInstRows
    <2>4. STypes'
      BY <2>1, <2>2, <2>3, <1>0, <1>3 DEF STypes, SWorkOK, OnBatch, In, RegisterSucceededPayment
    <2>5. SWorkOK'
      BY <2>1, <2>2, <2>3, <1>0, <1>3 DEF STypes, SWorkOK, OnBatch, SameBatch, SameInst, Told, In, RegisterSucceededPayment
    <2>6. (\A c \in Cycles : SBatchOK(c)') /\ (\A j \in Instructions : SInstOK(j)')
      BY <2>1, <2>2, <2>3, <1>0, <1>3, RowsStand DEF SameBatch, SameInst, KeepsCancelling, SWorkOK, OnBatch, RegisterSucceededPayment
    <2> QED
      BY <2>4, <2>5, <2>6 DEF SInv
  <1>4. ASSUME NEW i \in Instructions, SetAmlHold(i) PROVE SInv'
    <2>1. [sinst[i] EXCEPT !.frozen = ~@] \in SInstRows
      BY <1>0, SInstRowSet DEF STypes
    <2>2. sinst' \in [Instructions -> SInstRows] /\ \A j \in Instructions : SameInst(j)
      BY <1>0, <2>1, <1>4 DEF SetAmlHold, STypes, SameInst, SInstRows
    <2>3. STypes'
      BY <2>1, <2>2, <1>0, <1>4 DEF STypes, SWorkOK, OnBatch, In, SetAmlHold
    <2>4. SWorkOK'
      BY <2>1, <2>2, <1>0, <1>4 DEF STypes, SWorkOK, OnBatch, SameBatch, SameInst, Told, In, SetAmlHold
    <2>5. (\A c \in Cycles : SBatchOK(c)') /\ (\A j \in Instructions : SInstOK(j)')
      BY <2>1, <2>2, <1>0, <1>4, RowsStand DEF SameBatch, SameInst, KeepsCancelling, SWorkOK, OnBatch, SetAmlHold
    <2> QED
      BY <2>3, <2>4, <2>5 DEF SInv
  <1>5. ASSUME NEW i \in Instructions, ConfirmDelivery(i) PROVE SInv'
    <2>1. [sinst[i] EXCEPT !.due = TRUE] \in SInstRows
      BY <1>0, SInstRowSet DEF STypes
    <2>2. sinst' \in [Instructions -> SInstRows] /\ \A j \in Instructions : SameInst(j)
      BY <1>0, <2>1, <1>5 DEF ConfirmDelivery, STypes, SameInst, SInstRows
    <2>3. STypes'
      BY <2>1, <2>2, <1>0, <1>5 DEF STypes, SWorkOK, OnBatch, In, ConfirmDelivery
    <2>4. SWorkOK'
      BY <2>1, <2>2, <1>0, <1>5 DEF STypes, SWorkOK, OnBatch, SameBatch, SameInst, Told, In, ConfirmDelivery
    <2>5. (\A c \in Cycles : SBatchOK(c)') /\ (\A j \in Instructions : SInstOK(j)')
      BY <2>1, <2>2, <1>0, <1>5, RowsStand DEF SameBatch, SameInst, KeepsCancelling, SWorkOK, OnBatch, ConfirmDelivery
    <2> QED
      BY <2>3, <2>4, <2>5 DEF SInv
  <1>6. ASSUME NEW i \in Instructions, OnRailConfirmed(i) PROVE SInv'
    <2>1. /\ sinst' \in [Instructions -> SInstRows] /\ \A j \in Instructions \ {i} : SameInst(j)
          /\ sinst'[i].status = "SETTLED" /\ sinst'[i].batch = sinst[i].batch
      BY <1>0, <1>6, InstWritten DEF OnRailConfirmed, DoOne, INSTRUCTION_STATES
    <2>2. STypes'
      BY <2>1, <1>0, <1>6 DEF STypes, SWorkOK, OnBatch, In, OnRailConfirmed, DoOne
    <2>3. SWorkOK'
      BY <2>1, <1>0, <1>6 DEF STypes, SWorkOK, OnBatch, SameBatch, SameInst, Told, In, OnRailConfirmed, DoOne
    <2>4. ASSUME NEW c \in Cycles PROVE SBatchOK(c)'
      <3>1. SBatchOK(c)
        BY DEF SInv
      <3> QED
        BY <2>1, <1>0, <1>6, <3>1 DEF STypes, SWorkOK, OnBatch, SBatchOK, SameBatch, SameInst, Told, In, OnRailConfirmed, DoOne
    <2>5. ASSUME NEW j \in Instructions PROVE SInstOK(j)'
      <3>1. SInstOK(j)
        BY DEF SInv
      <3> QED
        BY <2>1, <1>0, <1>6, <3>1 DEF STypes, SWorkOK, OnBatch, SInstOK, SameBatch, SameInst, In, OnRailConfirmed, DoOne
    <2> QED
      BY <2>2, <2>3, <2>4, <2>5 DEF SInv
  <1>7. ASSUME NEW i \in Instructions, OnRailRefused(i) PROVE SInv'
    <2>1. PICK s \in {"RETURNED", "FAILED"} : SetInst(i, s)
      BY <1>7 DEF OnRailRefused
    <2>2. /\ sinst' \in [Instructions -> SInstRows] /\ \A j \in Instructions \ {i} : SameInst(j)
          /\ sinst'[i].status = s /\ sinst'[i].batch = sinst[i].batch
      BY <1>0, <2>1, InstWritten DEF INSTRUCTION_STATES
    <2>3. STypes'
      BY <2>1, <2>2, <1>0, <1>7 DEF STypes, SWorkOK, OnBatch, In, OnRailRefused
    <2>4. SWorkOK'
      BY <2>1, <2>2, <1>0, <1>7 DEF STypes, SWorkOK, OnBatch, SameBatch, SameInst, Told, In, OnRailRefused
    <2>5. (\A c \in Cycles : SBatchOK(c)') /\ (\A j \in Instructions : SInstOK(j)')
      BY <2>1, <2>2, <1>0, <1>7, RowsStand DEF SameBatch, SameInst, KeepsCancelling, SWorkOK, OnBatch, OnRailRefused
    <2> QED
      BY <2>3, <2>4, <2>5 DEF SInv
  <1>8. ASSUME NEW b \in Cycles, Cutoff(b) PROVE SInv'
    <2>1. PICK s \in {"PENDING_DISPATCH", "CANCELLED"} : SetStatus(b, s)
      BY <1>8 DEF Cutoff
    <2>2. /\ sbatch' \in [Cycles -> SBatchRows] /\ \A c \in Cycles \ {b} : SameBatch(c)
          /\ sbatch'[b].status = s /\ sbatch'[b].ref = sbatch[b].ref
          /\ sbatch'[b].retries = sbatch[b].retries
      BY <1>0, <2>1, StatusWritten DEF SETTLEMENT_BATCH_STATES
    <2>3. STypes'
      BY <2>1, <2>2, <1>0, <1>8 DEF STypes, SWorkOK, OnBatch, In, Cutoff
    <2>4. SWorkOK'
      BY <2>1, <2>2, <1>0, <1>8 DEF STypes, SWorkOK, OnBatch, SameBatch, SameInst, Told, In, Cutoff
    <2>5. SBatchOK(b)
      BY DEF SInv
    <2>6. (\A c \in Cycles : SBatchOK(c)') /\ (\A j \in Instructions : SInstOK(j)')
      BY <2>5, <2>1, <2>2, <1>0, <1>8, BatchMoves DEF SBatchOK, SWorkOK, OnBatch, Cutoff
    <2> QED
      BY <2>3, <2>4, <2>6 DEF SInv
  <1>9. ASSUME NEW b \in Cycles, GrantApproval(b) PROVE SInv'
    <2>1. sbatch' \in [Cycles -> SBatchRows] /\ \A c \in Cycles : SameBatch(c)
      BY <1>0, <1>9, TwoEyesWritten DEF GrantApproval, SWorkOK, OnBatch
    <2>2. STypes'
      BY <2>1, <1>0, <1>9 DEF STypes, SWorkOK, OnBatch, In, GrantApproval
    <2>3. SWorkOK'
      BY <2>1, <1>0, <1>9 DEF STypes, SWorkOK, OnBatch, SameBatch, SameInst, Told, In, GrantApproval
    <2>4. (\A c \in Cycles : SBatchOK(c)') /\ (\A j \in Instructions : SInstOK(j)')
      BY <2>1, <1>0, <1>9, RowsStand DEF SameBatch, SameInst, KeepsCancelling, SWorkOK, OnBatch, GrantApproval
    <2> QED
      BY <2>2, <2>3, <2>4 DEF SInv
  <1>10. ASSUME NEW b \in Cycles, TryDispatch(b) PROVE SInv'
    <2>1. PICK s \in {"HELD", "DISPATCHED"} :
             /\ SetStatus(b, s)
             /\ s = "HELD" => UNCHANGED work
             /\ s = "DISPATCHED"
                   => work' = [op |-> "submit", b |-> b, i |-> 0, todo |-> In(b, {"QUEUED"})]
      BY <1>10 DEF TryDispatch, Do
    <2>2. /\ sbatch' \in [Cycles -> SBatchRows] /\ \A c \in Cycles \ {b} : SameBatch(c)
          /\ sbatch'[b].status = s /\ sbatch'[b].ref = sbatch[b].ref
          /\ sbatch'[b].retries = sbatch[b].retries
      BY <1>0, <2>1, StatusWritten DEF SETTLEMENT_BATCH_STATES
    <2>3. In(b, {"QUEUED"}) \subseteq Instructions /\ \A i \in In(b, {"QUEUED"}) : sinst[i].batch = b
      BY DEF In
    <2>4. STypes'
      BY <1>0, <1>10, <2>1, <2>2, <2>3 DEF STypes, TryDispatch
    <2>5. SBatchOK(b) /\ sbatch[b].status = "PENDING_DISPATCH" /\ work.op = "idle"
      BY <1>10 DEF SInv, TryDispatch
    <2>6. SWorkOK'
      <3>1. CASE s = "HELD"
        BY <1>0, <1>10, <2>1, <2>2, <2>5, <3>1 DEF SWorkOK, OnBatch, TryDispatch
      <3>2. CASE s = "DISPATCHED"
        BY <1>0, <1>10, <2>1, <2>2, <2>3, <2>5, <3>2 DEF SWorkOK, OnBatch, TryDispatch, SBatchOK
      <3> QED
        BY <3>1, <3>2
    <2>7. (\A c \in Cycles : SBatchOK(c)') /\ (\A j \in Instructions : SInstOK(j)')
      BY <1>10, <2>1, <2>2, <2>5, BatchMoves DEF SBatchOK, TryDispatch
    <2> QED
      BY <2>4, <2>6, <2>7 DEF SInv
  <1>11. ASSUME NEW b \in Cycles, ReleaseHeld(b) PROVE SInv'
    <2>1. /\ sbatch' \in [Cycles -> SBatchRows] /\ \A c \in Cycles \ {b} : SameBatch(c)
          /\ sbatch'[b].status = "PENDING_DISPATCH" /\ sbatch'[b].ref = sbatch[b].ref
          /\ sbatch'[b].retries = sbatch[b].retries
      BY <1>0, <1>11, StatusWritten DEF ReleaseHeld, SETTLEMENT_BATCH_STATES, SWorkOK, OnBatch, STypes
    <2>2. STypes'
      BY <2>1, <1>0, <1>11 DEF STypes, SWorkOK, OnBatch, In, ReleaseHeld
    <2>3. SWorkOK'
      BY <2>1, <1>0, <1>11 DEF STypes, SWorkOK, OnBatch, SameBatch, SameInst, Told, In, ReleaseHeld
    <2>4. SBatchOK(b)
      BY DEF SInv
    <2>5. (\A c \in Cycles : SBatchOK(c)') /\ (\A j \in Instructions : SInstOK(j)')
      BY <2>4, <2>1, <1>0, <1>11, BatchMoves DEF SBatchOK, SWorkOK, OnBatch, ReleaseHeld
    <2> QED
      BY <2>2, <2>3, <2>5 DEF SInv
  <1>12. ASSUME NEW b \in Cycles, Confirm(b) PROVE SInv'
    <2>1. /\ sbatch' \in [Cycles -> SBatchRows] /\ \A c \in Cycles \ {b} : SameBatch(c)
          /\ sbatch'[b].ref /\ sbatch'[b].status = sbatch[b].status
          /\ sbatch'[b].retries = sbatch[b].retries
      BY <1>0, <1>12, EvidenceWritten DEF Confirm, Do
    <2>2. STypes'
      BY <2>1, <1>0, <1>12 DEF STypes, SWorkOK, OnBatch, In, Confirm, Do
    <2>3. SWorkOK'
      BY <2>1, <1>0, <1>12 DEF STypes, SWorkOK, OnBatch, SameBatch, SameInst, Told, In, Confirm, Do
    <2>4. ASSUME NEW c \in Cycles PROVE SBatchOK(c)'
      <3>1. SBatchOK(c)
        BY DEF SInv
      <3> QED
        BY <2>1, <1>0, <1>12, <3>1 DEF STypes, SWorkOK, OnBatch, SBatchOK, SameBatch, SameInst, Told, In, Confirm, Do
    <2>5. ASSUME NEW j \in Instructions PROVE SInstOK(j)'
      <3>1. SInstOK(j)
        BY DEF SInv
      <3> QED
        BY <2>1, <1>0, <1>12, <3>1 DEF STypes, SWorkOK, OnBatch, SInstOK, SameBatch, SameInst, In, Confirm, Do
    <2> QED
      BY <2>2, <2>3, <2>4, <2>5 DEF SInv
  <1>13. ASSUME NEW b \in Cycles, ConfirmAgain(b) PROVE SInv'
    <2>1. STypes'
      BY <1>0, <1>13 DEF STypes, SWorkOK, OnBatch, In, ConfirmAgain, Do
    <2>2. SWorkOK'
      BY <1>0, <1>13 DEF STypes, SWorkOK, OnBatch, SameBatch, SameInst, Told, In, ConfirmAgain, Do
    <2>3. (\A c \in Cycles : SBatchOK(c)') /\ (\A j \in Instructions : SInstOK(j)')
      BY <1>0, <1>13, RowsStand DEF SameBatch, SameInst, KeepsCancelling, SWorkOK, OnBatch, ConfirmAgain, Do
    <2> QED
      BY <2>1, <2>2, <2>3 DEF SInv
  <1>14. ASSUME NEW b \in Cycles, FailBatch(b) PROVE SInv'
    <2>1. /\ sbatch' \in [Cycles -> SBatchRows] /\ \A c \in Cycles \ {b} : SameBatch(c)
          /\ sbatch'[b].status = "FAILED" /\ sbatch'[b].ref = sbatch[b].ref
          /\ sbatch'[b].retries = sbatch[b].retries
      BY <1>0, <1>14, StatusWritten DEF FailBatch, Do, SETTLEMENT_BATCH_STATES, SWorkOK, OnBatch, STypes
    <2>2. STypes'
      BY <2>1, <1>0, <1>14 DEF STypes, SWorkOK, OnBatch, In, FailBatch, Do
    <2>3. SWorkOK'
      BY <2>1, <1>0, <1>14 DEF STypes, SWorkOK, OnBatch, SameBatch, SameInst, Told, In, FailBatch, Do
    <2>4. SBatchOK(b)
      BY DEF SInv
    <2>5. (\A c \in Cycles : SBatchOK(c)') /\ (\A j \in Instructions : SInstOK(j)')
      BY <2>4, <2>1, <1>0, <1>14, BatchMoves DEF SBatchOK, SWorkOK, OnBatch, FailBatch, Do
    <2> QED
      BY <2>2, <2>3, <2>5 DEF SInv
  <1>15. ASSUME NEW b \in Cycles, ManualRetry(b) PROVE SInv'
    <2>1. PICK v \in BOOLEAN : SetTwoEyes(b, v)
      BY <1>0, <1>15 DEF ManualRetry, Do, STypes, SBatchRows, Large
    <2>2. sbatch' \in [Cycles -> SBatchRows] /\ \A c \in Cycles : SameBatch(c)
      BY <1>0, <2>1, TwoEyesWritten
    <2>3. STypes'
      BY <2>1, <2>2, <1>0, <1>15 DEF STypes, SWorkOK, OnBatch, In, ManualRetry, Do
    <2>4. SWorkOK'
      BY <2>1, <2>2, <1>0, <1>15 DEF STypes, SWorkOK, OnBatch, SameBatch, SameInst, Told, In, ManualRetry, Do
    <2>5. (\A c \in Cycles : SBatchOK(c)') /\ (\A j \in Instructions : SInstOK(j)')
      BY <2>1, <2>2, <1>0, <1>15, RowsStand DEF SameBatch, SameInst, KeepsCancelling, SWorkOK, OnBatch, ManualRetry, Do
    <2> QED
      BY <2>3, <2>4, <2>5 DEF SInv
  <1>16. ASSUME NEW b \in Cycles, MaxRetriesExceeded(b) PROVE SInv'
    <2>1. STypes'
      BY <1>0, <1>16 DEF STypes, SWorkOK, OnBatch, In, MaxRetriesExceeded, Do
    <2>2. SWorkOK'
      BY <1>0, <1>16 DEF STypes, SWorkOK, OnBatch, SameBatch, SameInst, Told, In, MaxRetriesExceeded, Do
    <2>3. (\A c \in Cycles : SBatchOK(c)') /\ (\A j \in Instructions : SInstOK(j)')
      BY <1>0, <1>16, RowsStand DEF SameBatch, SameInst, KeepsCancelling, SWorkOK, OnBatch, MaxRetriesExceeded, Do
    <2> QED
      BY <2>1, <2>2, <2>3 DEF SInv
  <1>17. ASSUME NEW b \in Cycles, Cancel(b) PROVE SInv'
    <2>1. STypes'
      BY <1>0, <1>17 DEF STypes, SWorkOK, OnBatch, In, Cancel, Do
    <2>2. SWorkOK'
      BY <1>0, <1>17 DEF STypes, SWorkOK, OnBatch, SameBatch, SameInst, Told, In, Cancel, Do
    <2>3. (\A c \in Cycles : SBatchOK(c)') /\ (\A j \in Instructions : SInstOK(j)')
      BY <1>0, <1>17, RowsStand DEF SameBatch, SameInst, KeepsCancelling, SWorkOK, OnBatch, Cancel, Do
    <2> QED
      BY <2>1, <2>2, <2>3 DEF SInv
  <1>18. CASE StageFloat
    <2>1. STypes'
      BY <1>0, <1>18 DEF STypes, SWorkOK, OnBatch, In, StageFloat, DoOne, Done
    <2>2. SWorkOK'
      BY <1>0, <1>18 DEF STypes, SWorkOK, OnBatch, SameBatch, SameInst, Told, In, StageFloat, DoOne, Done
    <2>3. ASSUME NEW c \in Cycles PROVE SBatchOK(c)'
      <3>1. SBatchOK(c)
        BY DEF SInv
      <3> QED
        BY <1>0, <1>18, <3>1 DEF STypes, SWorkOK, OnBatch, SBatchOK, SameBatch, SameInst, Told, In, StageFloat, DoOne, Done
    <2>4. ASSUME NEW j \in Instructions PROVE SInstOK(j)'
      <3>1. SInstOK(j)
        BY DEF SInv
      <3> QED
        BY <1>0, <1>18, <3>1 DEF STypes, SWorkOK, OnBatch, SInstOK, SameBatch, SameInst, In, StageFloat, DoOne, Done
    <2> QED
      BY <2>1, <2>2, <2>3, <2>4 DEF SInv
  <1>19. CASE CountInstruction
    <2>1. work.b \in Cycles
      BY <1>0, <1>19 DEF CountInstruction, DoOne, SWorkOK, OnBatch
    <2>2. [sbatch[work.b] EXCEPT !.count = @ + 1] \in SBatchRows
      BY <1>0, <2>1, SBatchRowSet DEF STypes
    <2>3. sbatch' \in [Cycles -> SBatchRows] /\ \A c \in Cycles : SameBatch(c)
      BY <1>0, <2>1, <2>2, <1>19 DEF CountInstruction, DoOne, STypes, SameBatch, SBatchRows
    <2>4. STypes'
      BY <2>1, <2>2, <2>3, <1>0, <1>19 DEF STypes, SWorkOK, OnBatch, In, CountInstruction, DoOne
    <2>5. SWorkOK'
      BY <2>1, <2>2, <2>3, <1>0, <1>19 DEF STypes, SWorkOK, OnBatch, SameBatch, SameInst, Told, In, CountInstruction, DoOne
    <2>6. (\A c \in Cycles : SBatchOK(c)') /\ (\A j \in Instructions : SInstOK(j)')
      BY <2>1, <2>2, <2>3, <1>0, <1>19, RowsStand DEF SameBatch, SameInst, KeepsCancelling, SWorkOK, OnBatch, CountInstruction, DoOne
    <2> QED
      BY <2>4, <2>5, <2>6 DEF SInv
  <1>20. CASE LinkInstruction
    <2>1. work.b \in Cycles /\ work.i \in Instructions
      BY <1>0, <1>20 DEF LinkInstruction, SWorkOK, OnBatch
    <2>2. [sinst[work.i] EXCEPT !.batch = work.b] \in SInstRows
      BY <1>0, <2>1, SInstRowSet DEF STypes
    <2>3. /\ sinst' \in [Instructions -> SInstRows] /\ \A j \in Instructions \ {work.i} : SameInst(j)
          /\ sinst'[work.i].status = sinst[work.i].status /\ sinst'[work.i].batch = work.b
      BY <1>0, <2>1, <2>2, <1>20 DEF LinkInstruction, STypes, SameInst, SInstRows
    <2>4. STypes'
      BY <2>1, <2>3, <1>0, <1>20 DEF STypes, LinkInstruction, Do, Done
    <2>5. SWorkOK'
      BY <2>1, <2>3, <1>0, <1>20 DEF STypes, SWorkOK, OnBatch, LinkInstruction, Do, Done
    <2>6. sbatch[work.b].status = "OPEN" /\ sinst[work.i].status = "QUEUED"
      BY <1>0, <1>20 DEF LinkInstruction, SWorkOK, OnBatch
    <2>7. UNCHANGED <<sbatch, staged, unstaged, closed, told, cancelCut, byRail>>
          /\ work.op = "link"
      BY <1>20 DEF LinkInstruction
    <2>8. ASSUME NEW c \in Cycles PROVE SBatchOK(c)'
      <3>1. SBatchOK(c)
        BY DEF SInv
      <3>2. CASE c = work.b
        BY <2>6, <2>7, <3>1, <3>2 DEF SBatchOK
      <3>3. CASE c # work.b
        BY <2>1, <2>3, <2>6, <2>7, <3>1, <3>3 DEF SBatchOK, SameInst, Told
      <3> QED
        BY <3>2, <3>3
    <2>9. ASSUME NEW j \in Instructions PROVE SInstOK(j)'
      <3>1. SInstOK(j)
        BY DEF SInv
      <3> QED
        BY <2>1, <2>3, <2>6, <2>7, <3>1, <1>0 DEF SInstOK, SameInst, SWorkOK
    <2> QED
      BY <2>4, <2>5, <2>8, <2>9 DEF SInv
  <1>21. CASE RequireTwoEyes
    <2>1. sbatch' \in [Cycles -> SBatchRows] /\ \A c \in Cycles : SameBatch(c)
      BY <1>0, <1>21, TwoEyesWritten DEF RequireTwoEyes, Done, SWorkOK, OnBatch
    <2>2. STypes'
      BY <2>1, <1>0, <1>21 DEF STypes, SWorkOK, OnBatch, In, RequireTwoEyes, Done
    <2>3. SWorkOK'
      BY <2>1, <1>0, <1>21 DEF STypes, SWorkOK, OnBatch, SameBatch, SameInst, Told, In, RequireTwoEyes, Done
    <2>4. (\A c \in Cycles : SBatchOK(c)') /\ (\A j \in Instructions : SInstOK(j)')
      BY <2>1, <1>0, <1>21, RowsStand DEF SameBatch, SameInst, KeepsCancelling, SWorkOK, OnBatch, RequireTwoEyes, Done
    <2> QED
      BY <2>2, <2>3, <2>4 DEF SInv
  <1>22. CASE SubmitInstruction
    <2>1. /\ work.op = "submit" /\ work.b \in Cycles /\ ~sbatch[work.b].ref
          /\ sbatch[work.b].status = "DISPATCHED" /\ work.todo \subseteq Instructions
          /\ \A i \in work.todo : sinst[i].batch = work.b
          /\ UNCHANGED <<sbatch, cycle, staged, unstaged, closed, told, cancelCut, byRail>>
      BY <1>0, <1>22 DEF SubmitInstruction, SWorkOK, OnBatch, STypes
    <2>2. CASE work.todo = {}
      <3>1. work' = NoWork /\ UNCHANGED sinst
        BY <1>22, <2>2 DEF SubmitInstruction, Done
      <3>2. STypes' /\ SWorkOK'
        BY <1>0, <2>1, <3>1 DEF STypes, SWorkOK, OnBatch
      <3>3. (\A c \in Cycles : SBatchOK(c)') /\ (\A j \in Instructions : SInstOK(j)')
        BY <2>1, <3>1, RowsStand DEF SameBatch, SameInst, KeepsCancelling
      <3> QED
        BY <3>2, <3>3 DEF SInv
    <2>3. CASE work.todo # {}
      <3>1. PICK m \in work.todo : m = Min(work.todo)
        BY <2>1, <2>3, MinIsMember
      <3>2. SetInst(m, "SUBMITTED") /\ m \in Instructions
            /\ work' = [op |-> "submit", b |-> work.b, i |-> 0, todo |-> work.todo \ {m}]
        BY <1>22, <2>1, <2>3, <3>1 DEF SubmitInstruction, Do, SetInst
      <3>3. /\ sinst' \in [Instructions -> SInstRows] /\ \A j \in Instructions \ {m} : SameInst(j)
            /\ sinst'[m].status = "SUBMITTED" /\ sinst'[m].batch = sinst[m].batch
        BY <1>0, <3>2, InstWritten DEF INSTRUCTION_STATES
      <3>4. STypes'
        BY <1>0, <2>1, <3>2, <3>3 DEF STypes
      <3>5. SWorkOK'
        <4>1. /\ work'.op = "submit" /\ work'.b = work.b /\ work'.todo = work.todo \ {m}
              /\ sbatch' = sbatch
          BY <2>1, <3>2
        <4>2. \A i \in work'.todo : sinst'[i].batch = work'.b
          BY <2>1, <3>3, <4>1 DEF SameInst
        <4> QED
          BY <2>1, <4>1, <4>2 DEF SWorkOK, OnBatch
      <3>6. ASSUME NEW c \in Cycles PROVE SBatchOK(c)'
        <4>1. SBatchOK(c)
          BY DEF SInv
        <4>2. CASE c = work.b
          BY <2>1, <3>2, <4>1, <4>2 DEF SBatchOK
        <4>3. CASE c # work.b
          <5>1. sinst'[m].batch # c
            BY <2>1, <3>3, <4>3
          <5> QED
            BY <2>1, <3>2, <3>3, <4>1, <4>3, <5>1 DEF SBatchOK, SameInst, Told
        <4> QED
          BY <4>2, <4>3
      <3>7. ASSUME NEW j \in Instructions PROVE SInstOK(j)'
        <4>1. SInstOK(j)
          BY DEF SInv
        <4> QED
          BY <2>1, <3>3, <4>1 DEF SInstOK, SameInst
      <3> QED
        BY <3>4, <3>5, <3>6, <3>7 DEF SInv
    <2> QED
      BY <2>2, <2>3
  <1>23. CASE PostBatchClose
    <2>1. /\ work.op = "close" /\ work.b \in Cycles /\ sbatch[work.b].ref
          /\ sbatch[work.b].status = "DISPATCHED" /\ work.todo \subseteq Instructions
          /\ work' = [op |-> "commit", b |-> work.b, i |-> 0, todo |-> work.todo]
          /\ UNCHANGED <<sbatch, sinst, cycle, staged, unstaged, told, cancelCut, byRail>>
      BY <1>0, <1>23 DEF PostBatchClose, SWorkOK, OnBatch, STypes, Do
    <2>2. \A i \in Instructions :
             i \in work.todo <=> sinst[i].batch = work.b /\ sinst[i].status = "SUBMITTED"
      BY <1>0, <2>1 DEF SWorkOK
    <2>3. /\ closed' \in [Cycles -> SUBSET Instructions]
          /\ \A c \in Cycles \ {work.b} : closed'[c] = closed[c]
          /\ closed'[work.b] = IF closed[work.b] = {} THEN work.todo ELSE closed[work.b]
      BY <1>0, <1>23, <2>1 DEF PostBatchClose, STypes
    <2>4. SBatchOK(work.b)
      BY <2>1 DEF SInv
    <2>5. work.todo \subseteq closed'[work.b] /\ closed[work.b] \subseteq closed'[work.b]
      BY <2>1, <2>2, <2>3, <2>4 DEF SBatchOK
    <2>6. \A i \in closed'[work.b] : <<work.b, i>> \in staged
      <3>1. \A i \in work.todo : <<work.b, i>> \in staged
        BY <2>1, <2>2 DEF SInv, SInstOK
      <3> QED
        BY <2>3, <2>4, <3>1 DEF SBatchOK
    <2>7. STypes'
      BY <1>0, <2>1, <2>3 DEF STypes
    <2>8. SWorkOK'
      BY <1>0, <2>1, <2>2, <2>5 DEF SWorkOK, OnBatch
    <2>9. ASSUME NEW c \in Cycles PROVE SBatchOK(c)'
      <3>1. SBatchOK(c)
        BY DEF SInv
      <3>2. CASE c = work.b
        BY <2>1, <2>2, <2>5, <2>6, <3>1, <3>2 DEF SBatchOK, Told
      <3>3. CASE c # work.b
        BY <2>1, <2>3, <3>1, <3>3 DEF SBatchOK, Told
      <3> QED
        BY <3>2, <3>3
    <2>10. ASSUME NEW j \in Instructions PROVE SInstOK(j)'
      <3>1. SInstOK(j) /\ sinst[j].batch \in Cycles \cup {NoBatch}
        BY <1>0 DEF SInv, STypes, SInstRows
      <3>2. closed'[sinst[j].batch] = closed[sinst[j].batch] \/ sinst[j].batch = work.b
        BY <2>1, <2>3, <3>1, <1>23 DEF PostBatchClose, STypes
      <3> QED
        BY <2>1, <2>5, <3>1, <3>2 DEF SInstOK
    <2> QED
      BY <2>7, <2>8, <2>9, <2>10 DEF SInv
  <1>24. CASE CommitConfirmed
    <2>1. /\ sbatch' \in [Cycles -> SBatchRows] /\ \A c \in Cycles \ {work.b} : SameBatch(c)
          /\ sbatch'[work.b].status = "CONFIRMED" /\ sbatch'[work.b].ref = sbatch[work.b].ref
          /\ sbatch'[work.b].retries = sbatch[work.b].retries
      BY <1>0, <1>24, StatusWritten DEF CommitConfirmed, Do, SETTLEMENT_BATCH_STATES, SWorkOK, OnBatch, STypes
    <2>2. STypes'
      BY <2>1, <1>0, <1>24 DEF STypes, SWorkOK, OnBatch, In, CommitConfirmed, Do
    <2>3. SWorkOK'
      BY <2>1, <1>0, <1>24 DEF STypes, SWorkOK, OnBatch, SameBatch, SameInst, Told, In, CommitConfirmed, Do
    <2>4. ASSUME NEW c \in Cycles PROVE SBatchOK(c)'
      <3>1. SBatchOK(c)
        BY DEF SInv
      <3> QED
        BY <2>1, <1>0, <1>24, <3>1 DEF STypes, SWorkOK, OnBatch, SBatchOK, SameBatch, SameInst, Told, In, CommitConfirmed, Do
    <2>5. ASSUME NEW j \in Instructions PROVE SInstOK(j)'
      <3>1. SInstOK(j)
        BY DEF SInv
      <3> QED
        BY <2>1, <1>0, <1>24, <3>1 DEF STypes, SWorkOK, OnBatch, SInstOK, SameBatch, SameInst, In, CommitConfirmed, Do
    <2> QED
      BY <2>2, <2>3, <2>4, <2>5 DEF SInv
  <1>25. CASE SettleInstruction
    <2>1. /\ work.op = "settle" /\ work.b \in Cycles /\ work.b # NoBatch
          /\ sbatch[work.b].status = "CONFIRMED" /\ work.todo \subseteq Instructions
          /\ UNCHANGED <<sbatch, cycle, staged, unstaged, closed, told, cancelCut, byRail>>
      BY <1>0, <1>25 DEF SettleInstruction, SWorkOK, OnBatch, STypes
    <2>2. \A i \in Instructions :
             i \in work.todo <=> sinst[i].batch = work.b /\ sinst[i].status = "SUBMITTED"
      BY <1>0, <2>1 DEF SWorkOK
    <2>3. CASE work.todo = {}
      <3>1. work' = [op |-> "reconcile", b |-> work.b, i |-> 0, todo |-> In(work.b, {"SETTLED"})]
            /\ UNCHANGED sinst
        BY <1>25, <2>3 DEF SettleInstruction, Do
      <3>2. /\ In(work.b, {"SETTLED"}) \subseteq Instructions
            /\ \A i \in Instructions : sinst[i].batch = work.b /\ sinst[i].status = "SETTLED"
                                         => i \in In(work.b, {"SETTLED"})
        BY DEF In
      <3>3. STypes'
        BY <1>0, <2>1, <3>1, <3>2 DEF STypes
      <3>4. SWorkOK'
        BY <1>0, <2>1, <2>2, <2>3, <3>1, <3>2 DEF SWorkOK, OnBatch
      <3>5. (\A c \in Cycles : SBatchOK(c)') /\ (\A j \in Instructions : SInstOK(j)')
        BY <2>1, <3>1, RowsStand DEF SameBatch, SameInst, KeepsCancelling
      <3> QED
        BY <3>3, <3>4, <3>5 DEF SInv
    <2>4. CASE work.todo # {}
      <3>1. PICK m \in work.todo : m = Min(work.todo)
        BY <2>1, <2>4, MinIsMember
      <3>2. SetInst(m, "SETTLED") /\ m \in Instructions
            /\ work' = [op |-> "tell", b |-> work.b, i |-> m, todo |-> work.todo \ {m}]
        BY <1>25, <2>1, <2>4, <3>1 DEF SettleInstruction, DoOne
      <3>3. /\ sinst' \in [Instructions -> SInstRows] /\ \A j \in Instructions \ {m} : SameInst(j)
            /\ sinst'[m].status = "SETTLED" /\ sinst'[m].batch = sinst[m].batch
        BY <1>0, <3>2, InstWritten DEF INSTRUCTION_STATES
      <3>4. STypes'
        BY <1>0, <2>1, <3>2, <3>3 DEF STypes
      <3>5. SWorkOK'
        <4>1. /\ work'.op = "tell" /\ work'.b = work.b /\ work'.todo = work.todo \ {m}
              /\ sbatch'[work.b].status = "CONFIRMED"
          BY <2>1, <3>2
        <4>2. \A i \in Instructions :
                 i \in work'.todo <=> sinst'[i].batch = work.b /\ sinst'[i].status = "SUBMITTED"
          BY <2>2, <3>3, <4>1 DEF SameInst
        <4> QED
          BY <4>1, <4>2 DEF SWorkOK, OnBatch
      <3>6. sinst[m].batch = work.b /\ sinst[m].status = "SUBMITTED" /\ m \in closed[work.b]
        BY <2>1, <2>2, <3>2 DEF SInv, SBatchOK
      <3>7. ASSUME NEW c \in Cycles PROVE SBatchOK(c)'
        <4>1. SBatchOK(c)
          BY DEF SInv
        <4> QED
          BY <2>1, <3>2, <3>3, <3>6, <4>1 DEF SBatchOK, SameInst, Told
      <3>8. ASSUME NEW j \in Instructions PROVE SInstOK(j)'
        <4>1. SInstOK(j)
          BY DEF SInv
        <4> QED
          BY <2>1, <3>3, <3>6, <4>1 DEF SInstOK, SameInst
      <3> QED
        BY <3>4, <3>5, <3>7, <3>8 DEF SInv
    <2> QED
      BY <2>3, <2>4
  <1>26. CASE TellSettled
    <2>1. STypes'
      BY <1>0, <1>26 DEF STypes, SWorkOK, OnBatch, In, TellSettled, WriteAuditEvent, DoOne
    <2>2. SWorkOK'
      BY <1>0, <1>26 DEF STypes, SWorkOK, OnBatch, SameBatch, SameInst, Told, In, TellSettled, WriteAuditEvent, DoOne
    <2>3. ASSUME NEW c \in Cycles PROVE SBatchOK(c)'
      <3>1. SBatchOK(c)
        BY DEF SInv
      <3> QED
        BY <1>0, <1>26, <3>1 DEF STypes, SWorkOK, OnBatch, SBatchOK, SameBatch, SameInst, Told, In, TellSettled, WriteAuditEvent, DoOne
    <2>4. ASSUME NEW j \in Instructions PROVE SInstOK(j)'
      <3>1. SInstOK(j)
        BY DEF SInv
      <3> QED
        BY <1>0, <1>26, <3>1 DEF STypes, SWorkOK, OnBatch, SInstOK, SameBatch, SameInst, In, TellSettled, WriteAuditEvent, DoOne
    <2> QED
      BY <2>1, <2>2, <2>3, <2>4 DEF SInv
  <1>27. CASE EmitSettled
    <2>1. STypes'
      BY <1>0, <1>27 DEF STypes, SWorkOK, OnBatch, In, EmitSettled, EmitEvent, Do, Done
    <2>2. SWorkOK'
      BY <1>0, <1>27 DEF STypes, SWorkOK, OnBatch, SameBatch, SameInst, Told, In, EmitSettled, EmitEvent, Do, Done
    <2>3. ASSUME NEW c \in Cycles PROVE SBatchOK(c)'
      <3>1. SBatchOK(c)
        BY DEF SInv
      <3> QED
        BY <1>0, <1>27, <3>1 DEF STypes, SWorkOK, OnBatch, SBatchOK, SameBatch, SameInst, Told, In, EmitSettled, EmitEvent, Do, Done
    <2>4. ASSUME NEW j \in Instructions PROVE SInstOK(j)'
      <3>1. SInstOK(j)
        BY DEF SInv
      <3> QED
        BY <1>0, <1>27, <3>1 DEF STypes, SWorkOK, OnBatch, SInstOK, SameBatch, SameInst, In, EmitSettled, EmitEvent, Do, Done
    <2> QED
      BY <2>1, <2>2, <2>3, <2>4 DEF SInv
  <1>28. CASE ReconcileEvents
    <2>1. work.todo # {} => Min(work.todo) \in work.todo /\ Min(work.todo) \in Instructions
      BY <1>0, MinIsMember DEF STypes
    <2>2. STypes'
      <3>1. UNCHANGED <<sbatch, sinst, cycle, closed>>
        BY <1>28 DEF ReconcileEvents, journal
      <3>2. PICK rest \in SUBSET work.todo :
               \/ work' = work \/ work' = NoWork
               \/ work' = [op |-> "reconcile", b |-> work.b, i |-> 0, todo |-> rest]
        BY <1>28 DEF ReconcileEvents, Do, Done
      <3> QED
        BY <1>0, <3>1, <3>2 DEF STypes, NoWork
    <2>3. /\ work.op = "reconcile" /\ work.b \in Cycles /\ sbatch[work.b].status = "CONFIRMED"
          /\ \A i \in Instructions : sinst[i].batch = work.b =>
                /\ sinst[i].status # "SUBMITTED"
                /\ sinst[i].status = "SETTLED" => i \in work.todo \/ Told("inst", i)
      BY <1>0, <1>28 DEF SWorkOK, OnBatch, ReconcileEvents, At
    <2>4. sbatch' = sbatch /\ sinst' = sinst /\ UNCHANGED journal /\ UNCHANGED past
      BY <1>28 DEF ReconcileEvents
    <2>5. told \subseteq told' /\ \A i \in Instructions : Told("inst", i) => Told("inst", i)'
      <3>1. told \subseteq told'
        BY <1>28 DEF ReconcileEvents, WriteAuditEvent, EmitEvent
      <3> QED
        BY <3>1 DEF Told
    <2>6. ASSUME NEW c \in Cycles, <<"audit", "batch", c>> \in told' \/ <<"outbox", "batch", c>> \in told'
          PROVE  \/ <<"audit", "batch", c>> \in told \/ <<"outbox", "batch", c>> \in told
                 \/ c = work.b /\ work.todo = {}
      BY <2>6, <1>28 DEF ReconcileEvents, WriteAuditEvent, EmitEvent
    <2>7. \/ work' = NoWork
          \/ /\ work'.op = "reconcile" /\ work'.b = work.b
             /\ \A i \in Instructions : i \in work.todo => i \in work'.todo \/ Told("inst", i)'
      <3>1. CASE work' = work
        BY <3>1, <2>3
      <3>2. CASE work' = NoWork
        BY <3>2
      <3>3. CASE work' # work /\ work' # NoWork
        <4>1. PICK m \in Instructions : m = Min(work.todo)
          BY <3>3, <2>1, <1>28 DEF ReconcileEvents, Done
        <4>2. /\ <<"audit", "inst", m>> \in told
              /\ told' = told \cup {<<"outbox", "inst", m>>}
              /\ work' = [op |-> "reconcile", b |-> work.b, i |-> 0, todo |-> work.todo \ {m}]
          BY <3>3, <4>1, <1>28 DEF ReconcileEvents, EmitEvent, Do, Done
        <4>3. Told("inst", m)'
          BY <4>2 DEF Told
        <4>4. work'.op = "reconcile" /\ work'.b = work.b /\ work'.todo = work.todo \ {m}
          BY <4>2
        <4> QED
          BY <4>3, <4>4
      <3> QED
        BY <3>1, <3>2, <3>3
    <2>8. SWorkOK'
      <3>1. CASE work' = NoWork
        BY <3>1 DEF SWorkOK, OnBatch, NoWork
      <3>2. CASE work'.op = "reconcile" /\ work'.b = work.b
                 /\ \A i \in Instructions : i \in work.todo => i \in work'.todo \/ Told("inst", i)'
        BY <2>3, <2>4, <2>5, <3>2 DEF SWorkOK, OnBatch
      <3> QED
        BY <2>7, <3>1, <3>2
    <2>9. ASSUME NEW c \in Cycles PROVE SBatchOK(c)'
      <3>1. SBatchOK(c)
        BY DEF SInv
      <3>2. work.op \notin {"cancel", "void"}
        BY <2>3
      <3>3. <<"audit", "batch", c>> \in told' \/ <<"outbox", "batch", c>> \in told'
              => /\ sbatch[c].status = "CONFIRMED"
                 /\ \A i \in Instructions : sinst[i].batch = c =>
                       /\ sinst[i].status # "SUBMITTED"
                       /\ sinst[i].status = "SETTLED" => Told("inst", i)'
        BY <2>3, <2>5, <2>6, <3>1 DEF SBatchOK
      <3> QED
        BY <2>4, <3>1, <3>2, <3>3 DEF SBatchOK, journal, past
    <2>10. ASSUME NEW j \in Instructions PROVE SInstOK(j)'
      <3>1. SInstOK(j)
        BY DEF SInv
      <3> QED
        BY <2>4, <3>1 DEF SInstOK, journal, past
    <2> QED
      BY <2>2, <2>8, <2>9, <2>10 DEF SInv
  <1>29. CASE MarkInstruction("fail", "FAILED")
    <2>1. Min(work.todo) \in work.todo /\ Min(work.todo) \in Instructions
      BY <1>0, <1>29, MinIsMember DEF STypes, MarkInstruction, Do
    <2>2. /\ sinst' \in [Instructions -> SInstRows] /\ \A j \in Instructions \ {Min(work.todo)} : SameInst(j)
          /\ sinst'[Min(work.todo)].status = "FAILED" /\ sinst'[Min(work.todo)].batch = sinst[Min(work.todo)].batch
      BY <1>0, <2>1, <1>29, InstWritten DEF MarkInstruction, Do, INSTRUCTION_STATES
    <2>3. STypes'
      BY <2>1, <2>2, <1>0, <1>29 DEF STypes, SWorkOK, OnBatch, In, MarkInstruction, Do
    <2>4. SWorkOK'
      BY <2>1, <2>2, <1>0, <1>29 DEF STypes, SWorkOK, OnBatch, SameBatch, SameInst, Told, In, MarkInstruction, Do
    <2>5. (\A c \in Cycles : SBatchOK(c)') /\ (\A j \in Instructions : SInstOK(j)')
      BY <2>1, <2>2, <1>0, <1>29, RowsStand DEF SameBatch, SameInst, KeepsCancelling, SWorkOK, OnBatch, MarkInstruction, Do
    <2> QED
      BY <2>3, <2>4, <2>5 DEF SInv
  <1>30. CASE MarksEnd("fail")
    <2>1. STypes'
      BY <1>0, <1>30 DEF STypes, SWorkOK, OnBatch, In, MarksEnd, Done
    <2>2. SWorkOK'
      BY <1>0, <1>30 DEF STypes, SWorkOK, OnBatch, SameBatch, SameInst, Told, In, MarksEnd, Done
    <2>3. (\A c \in Cycles : SBatchOK(c)') /\ (\A j \in Instructions : SInstOK(j)')
      BY <1>0, <1>30, RowsStand DEF SameBatch, SameInst, KeepsCancelling, SWorkOK, OnBatch, MarksEnd, Done
    <2> QED
      BY <2>1, <2>2, <2>3 DEF SInv
  <1>31. CASE RetryCommits
    <2>1. work.b \in Cycles
      BY <1>0, <1>31 DEF RetryCommits, Do, SWorkOK, OnBatch
    <2>2. [sbatch[work.b] EXCEPT !.status = "PENDING_DISPATCH", !.retries = @ + 1] \in SBatchRows
      BY <1>0, <2>1, SBatchRowSet DEF STypes
    <2>3. /\ sbatch' \in [Cycles -> SBatchRows] /\ \A c \in Cycles \ {work.b} : SameBatch(c)
          /\ sbatch'[work.b].status = "PENDING_DISPATCH" /\ sbatch'[work.b].ref = sbatch[work.b].ref
      BY <1>0, <2>1, <2>2, <1>31 DEF RetryCommits, Do, STypes, SameBatch, SBatchRows
    <2>4. STypes'
      BY <2>1, <2>2, <2>3, <1>0, <1>31 DEF STypes, SWorkOK, OnBatch, In, RetryCommits, Do
    <2>5. SWorkOK'
      BY <2>1, <2>2, <2>3, <1>0, <1>31 DEF STypes, SWorkOK, OnBatch, SameBatch, SameInst, Told, In, RetryCommits, Do
    <2>6. work.b \in Cycles
      BY <2>1, <2>2, <2>3, <1>0, <1>31 DEF RetryCommits, Do, SWorkOK, OnBatch, STypes
    <2>7. SBatchOK(work.b)
      BY <2>6 DEF SInv
    <2>8. (\A c \in Cycles : SBatchOK(c)') /\ (\A j \in Instructions : SInstOK(j)')
      BY <2>7, <2>6, <2>1, <2>2, <2>3, <1>0, <1>31, BatchMoves DEF SBatchOK, SWorkOK, OnBatch, RetryCommits, Do
    <2> QED
      BY <2>4, <2>5, <2>8 DEF SInv
  <1>32. CASE MarkInstruction("requeue", "QUEUED")
    <2>1. Min(work.todo) \in work.todo /\ Min(work.todo) \in Instructions
      BY <1>0, <1>32, MinIsMember DEF STypes, MarkInstruction, Do
    <2>2. /\ sinst' \in [Instructions -> SInstRows] /\ \A j \in Instructions \ {Min(work.todo)} : SameInst(j)
          /\ sinst'[Min(work.todo)].status = "QUEUED" /\ sinst'[Min(work.todo)].batch = sinst[Min(work.todo)].batch
      BY <1>0, <2>1, <1>32, InstWritten DEF MarkInstruction, Do, INSTRUCTION_STATES
    <2>3. STypes'
      BY <2>1, <2>2, <1>0, <1>32 DEF STypes, SWorkOK, OnBatch, In, MarkInstruction, Do
    <2>4. SWorkOK'
      BY <2>1, <2>2, <1>0, <1>32 DEF STypes, SWorkOK, OnBatch, SameBatch, SameInst, Told, In, MarkInstruction, Do
    <2>5. (\A c \in Cycles : SBatchOK(c)') /\ (\A j \in Instructions : SInstOK(j)')
      BY <2>1, <2>2, <1>0, <1>32, RowsStand DEF SameBatch, SameInst, KeepsCancelling, SWorkOK, OnBatch, MarkInstruction, Do
    <2> QED
      BY <2>3, <2>4, <2>5 DEF SInv
  <1>33. CASE MarksEnd("requeue")
    <2>1. STypes'
      BY <1>0, <1>33 DEF STypes, SWorkOK, OnBatch, In, MarksEnd, Done
    <2>2. SWorkOK'
      BY <1>0, <1>33 DEF STypes, SWorkOK, OnBatch, SameBatch, SameInst, Told, In, MarksEnd, Done
    <2>3. (\A c \in Cycles : SBatchOK(c)') /\ (\A j \in Instructions : SInstOK(j)')
      BY <1>0, <1>33, RowsStand DEF SameBatch, SameInst, KeepsCancelling, SWorkOK, OnBatch, MarksEnd, Done
    <2> QED
      BY <2>1, <2>2, <2>3 DEF SInv
  <1>34. CASE PostBatchOpenReversal
    <2>1. STypes'
      BY <1>0, <1>34 DEF STypes, SWorkOK, OnBatch, In, PostBatchOpenReversal, OpenEntries
    <2>2. SWorkOK'
      BY <1>0, <1>34 DEF STypes, SWorkOK, OnBatch, SameBatch, SameInst, Told, In, PostBatchOpenReversal, OpenEntries
    <2>3. ASSUME NEW c \in Cycles PROVE SBatchOK(c)'
      <3>1. SBatchOK(c)
        BY DEF SInv
      <3> QED
        BY <1>0, <1>34, <3>1 DEF STypes, SWorkOK, OnBatch, SBatchOK, SameBatch, SameInst, Told, In, PostBatchOpenReversal, OpenEntries
    <2>4. ASSUME NEW j \in Instructions PROVE SInstOK(j)'
      <3>1. SInstOK(j)
        BY DEF SInv
      <3> QED
        BY <1>0, <1>34, <3>1 DEF STypes, SWorkOK, OnBatch, SInstOK, SameBatch, SameInst, In, PostBatchOpenReversal, OpenEntries
    <2> QED
      BY <2>1, <2>2, <2>3, <2>4 DEF SInv
  <1>35. CASE ReversalsPosted
    <2>1. STypes'
      BY <1>0, <1>35 DEF STypes, SWorkOK, OnBatch, In, ReversalsPosted, OpenEntries, Do
    <2>2. SWorkOK'
      BY <1>0, <1>35 DEF STypes, SWorkOK, OnBatch, SameBatch, SameInst, Told, In, ReversalsPosted, OpenEntries, Do
    <2>3. (\A c \in Cycles : SBatchOK(c)') /\ (\A j \in Instructions : SInstOK(j)')
      BY <1>0, <1>35, RowsStand DEF SameBatch, SameInst, KeepsCancelling, SWorkOK, OnBatch, ReversalsPosted, OpenEntries, Do
    <2> QED
      BY <2>1, <2>2, <2>3 DEF SInv
  <1>36. CASE MarkInstruction("void", "CANCELLED")
    <2>1. Min(work.todo) \in work.todo /\ Min(work.todo) \in Instructions
      BY <1>0, <1>36, MinIsMember DEF STypes, MarkInstruction, Do
    <2>2. /\ sinst' \in [Instructions -> SInstRows] /\ \A j \in Instructions \ {Min(work.todo)} : SameInst(j)
          /\ sinst'[Min(work.todo)].status = "CANCELLED" /\ sinst'[Min(work.todo)].batch = sinst[Min(work.todo)].batch
      BY <1>0, <2>1, <1>36, InstWritten DEF MarkInstruction, Do, INSTRUCTION_STATES
    <2>3. STypes'
      BY <2>1, <2>2, <1>0, <1>36 DEF STypes, SWorkOK, OnBatch, In, MarkInstruction, Do
    <2>4. SWorkOK'
      BY <2>1, <2>2, <1>0, <1>36 DEF STypes, SWorkOK, OnBatch, SameBatch, SameInst, Told, In, MarkInstruction, Do
    <2>5. (\A c \in Cycles : SBatchOK(c)') /\ (\A j \in Instructions : SInstOK(j)')
      BY <2>1, <2>2, <1>0, <1>36, RowsStand DEF SameBatch, SameInst, KeepsCancelling, SWorkOK, OnBatch, MarkInstruction, Do
    <2> QED
      BY <2>3, <2>4, <2>5 DEF SInv
  <1>37. CASE CommitCancelled
    <2>1. /\ sbatch' \in [Cycles -> SBatchRows] /\ \A c \in Cycles \ {work.b} : SameBatch(c)
          /\ sbatch'[work.b].status = "CANCELLED" /\ sbatch'[work.b].ref = sbatch[work.b].ref
          /\ sbatch'[work.b].retries = sbatch[work.b].retries
      BY <1>0, <1>37, StatusWritten DEF CommitCancelled, Done, SETTLEMENT_BATCH_STATES, SWorkOK, OnBatch, STypes
    <2>2. STypes'
      BY <2>1, <1>0, <1>37 DEF STypes, SWorkOK, OnBatch, In, CommitCancelled, Done
    <2>3. SWorkOK'
      BY <2>1, <1>0, <1>37 DEF STypes, SWorkOK, OnBatch, SameBatch, SameInst, Told, In, CommitCancelled, Done
    <2>4. work.b \in Cycles
      BY <2>1, <1>0, <1>37 DEF CommitCancelled, Done, SWorkOK, OnBatch, STypes
    <2>5. SBatchOK(work.b)
      BY <2>4 DEF SInv
    <2>6. (\A c \in Cycles : SBatchOK(c)') /\ (\A j \in Instructions : SInstOK(j)')
      BY <2>5, <2>4, <2>1, <1>0, <1>37, BatchMoves DEF SBatchOK, SWorkOK, OnBatch, CommitCancelled, Done
    <2> QED
      BY <2>2, <2>3, <2>6 DEF SInv
  <1>38. CASE Crash
    <2>1. STypes'
      BY <1>0, <1>38 DEF STypes, SWorkOK, OnBatch, In, Crash, Done
    <2>2. SWorkOK'
      BY <1>0, <1>38 DEF STypes, SWorkOK, OnBatch, SameBatch, SameInst, Told, In, Crash, Done
    <2>3. ASSUME NEW c \in Cycles PROVE SBatchOK(c)'
      <3>1. SBatchOK(c)
        BY DEF SInv
      <3> QED
        BY <1>0, <1>38, <3>1 DEF STypes, SWorkOK, OnBatch, SBatchOK, SameBatch, SameInst, Told, In, Crash, Done
    <2>4. ASSUME NEW j \in Instructions PROVE SInstOK(j)'
      <3>1. SInstOK(j)
        BY DEF SInv
      <3> QED
        BY <1>0, <1>38, <3>1 DEF STypes, SWorkOK, OnBatch, SInstOK, SameBatch, SameInst, In, Crash, Done
    <2> QED
      BY <2>1, <2>2, <2>3, <2>4 DEF SInv
  <1>39. CASE UNCHANGED svars
    <2>1. STypes' /\ SWorkOK'
      BY <1>0, <1>39 DEF svars, STypes, SWorkOK, OnBatch, Told
    <2>2. ASSUME NEW c \in Cycles PROVE SBatchOK(c)'
      <3>1. SBatchOK(c) /\ UNCHANGED <<sbatch, sinst, staged, unstaged, closed, told, work, cancelCut>>
        BY <1>39 DEF svars, SInv
      <3> QED
        BY <3>1 DEF SBatchOK, Told
    <2>3. ASSUME NEW j \in Instructions PROVE SInstOK(j)'
      BY <1>39 DEF svars, SInv, SInstOK
    <2> QED
      BY <2>1, <2>2, <2>3 DEF SInv
  <1> QED
    BY <1>1, <1>2, <1>3, <1>4, <1>5, <1>6, <1>7, <1>8, <1>9, <1>10, <1>11, <1>12, <1>13, <1>14, <1>15, <1>16, <1>17, <1>18, <1>19, <1>20, <1>21, <1>22, <1>23, <1>24, <1>25, <1>26, <1>27, <1>28, <1>29, <1>30, <1>31, <1>32, <1>33, <1>34, <1>35, <1>36, <1>37, <1>38, <1>39
       DEF SNext, Calls, Steps, ResumeConfirmations

(* What the four properties of the settlement engine need of the invariant.  *)
LEMMA SInvImplies == SInv => SettlementHolds
  <1> SUFFICES ASSUME SInv PROVE SettlementHolds
    OBVIOUS
  <1>1. EvidenceBinds /\ SettledIsDischarged
    BY DEF SInv, SBatchOK, SInstOK, EvidenceBinds, SettledIsDischarged
  <1>2. BatchEventLast
    BY DEF SInv, SBatchOK, BatchEventLast, Told, In
  <1>3. ASSUME NEW b \in Cycles, b \notin cancelCut, NEW i \in closed[b]
        PROVE  <<b, i>> \in staged \ unstaged
    <2>1. SBatchOK(b) /\ i \in Instructions
      BY DEF SInv, STypes
    <2>2. sbatch[b].status \in {"DISPATCHED", "CONFIRMED"}
      BY <2>1 DEF SBatchOK
    <2>3. ~(work.op \in {"cancel", "void"} /\ work.b = b)
      BY <2>2 DEF SInv, SWorkOK, OnBatch
    <2> QED
      BY <1>3, <2>1, <2>2, <2>3 DEF SBatchOK
  <1> QED
    BY <1>1, <1>2, <1>3 DEF SettlementHolds, TcsaNeverOverdrawn

(* The settlement engine, for every number of instructions, cycles, retries  *)
(* and crashes: durable evidence is never failed over, an instruction that   *)
(* confirm settled is in its batch's closing entry, that entry only pays out *)
(* what stands staged, and a batch event comes after those of its rows.      *)
THEOREM SettlementIsSound == SSpec => []SettlementHolds
  <1>1. SInv /\ [SNext]_svars => SInv'
    BY SStep
  <1> QED
    BY SInitially, <1>1, SInvImplies, PTL DEF SSpec
=============================================================================
