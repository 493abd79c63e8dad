--------------------------- MODULE PlatformProofs ---------------------------
(***************************************************************************)
(* Theorems about the platform under the business, for every value of the  *)
(* constants: the outbox, the modes of a connector, the process that runs  *)
(* them, the credentials of merchants and operators, and the runner that   *)
(* sends a ref to its rail.                                                *)
(***************************************************************************)
EXTENDS Boot, ConnectorModes, Outbox, Credentials, ConnectorRunner, TLAPS

(* A step that names no prover is tried with each of these in turn.         *)
USE ZenonT(2), SMT, Zenon, SMTT(30)
-----------------------------------------------------------------------------
(* Proofs that the outbox invariants hold for every set of events, processes *)
(* and consumers, every attempt cap and every assignment of worker ids.      *)

(* A process that is not idle works on an event.                             *)
BusyHasEvent == \A w \in Workers : stage[w] # "idle" => current[w] \in Events

(* What a bus remembers has been handled.                                    *)
SeenWasHandled ==
    \A w \in Workers, c \in Consumers : \A e \in seen[w][c] : runs[e][c] > 0

(* While publish() has met no error, the consumers it is done with have run. *)
CalledHasRun ==
    \A w \in Workers :
        stage[w] = "publishing" /\ ~error[w] =>
            \A c \in Consumers : c \in todo[w] \/ runs[current[w]][c] > 0

(* publish() returned: every consumer has run for the event to be marked.    *)
ReturnedHasRun ==
    \A w \in Workers :
        stage[w] = "published" => \A c \in Consumers : runs[current[w]][c] > 0

(* The inductive strengthening of the properties.                            *)
Inv ==
    /\ TypeOK
    /\ BusyHasEvent
    /\ SeenWasHandled
    /\ CalledHasRun
    /\ ReturnedHasRun
    /\ PublishedWasHandled
    /\ PoisonExactlyAtCap

(* The cap and the bound on crashes are numbers.                             *)
LEMMA CapIsPositive == MAX_ATTEMPTS \in Nat \ {0} /\ MaxCrashes \in Nat
  BY OutboxAssumption

(* The initial state, an empty table and idle processes, satisfies Inv.      *)
LEMMA InitInv == Init => Inv
  BY OutboxAssumption
     DEF Init, Inv, TypeOK, RowStatus, BusyHasEvent, SeenWasHandled, CalledHasRun,
         ReturnedHasRun, PublishedWasHandled, PoisonExactlyAtCap

(* Enqueueing and the expiry of a lease touch no settled row.                *)
LEMMA RowSteps ==
    ASSUME Inv, NEW e \in Events, Enqueue(e) \/ LeaseExpires(e)
    PROVE  Inv'
<1>1. CASE Enqueue(e)
  BY <1>1, OutboxAssumption
     DEF Inv, TypeOK, RowStatus, BusyHasEvent, SeenWasHandled, CalledHasRun, ReturnedHasRun,
         PublishedWasHandled, PoisonExactlyAtCap, Enqueue, process
<1>2. CASE LeaseExpires(e)
  BY <1>2 DEF Inv, TypeOK, RowStatus, BusyHasEvent, SeenWasHandled, CalledHasRun, ReturnedHasRun,
         PublishedWasHandled, PoisonExactlyAtCap, LeaseExpires, process
<1> QED  BY <1>1, <1>2

(* Claiming takes rows that are not settled.                                 *)
LEMMA ClaimStep ==
    ASSUME Inv, NEW w \in Workers, NEW B \in SUBSET Events, ClaimBatch(w, B)
    PROVE  Inv'
<1>1. TypeOK'
    BY DEF Inv, TypeOK, RowStatus, ClaimBatch
<1>2. PoisonExactlyAtCap' /\ PublishedWasHandled'
    BY DEF Inv, TypeOK, RowStatus, PoisonExactlyAtCap, PublishedWasHandled, ClaimBatch, Due
<1>3. BusyHasEvent' /\ SeenWasHandled' /\ CalledHasRun' /\ ReturnedHasRun'
    BY DEF Inv, BusyHasEvent, SeenWasHandled, CalledHasRun, ReturnedHasRun, ClaimBatch
<1> QED  BY <1>1, <1>2, <1>3 DEF Inv

(* publish() starts with every consumer still to be called.                  *)
LEMMA BeginStep ==
    ASSUME Inv, NEW w \in Workers, NEW e \in Events, BeginPublish(w, e)
    PROVE  Inv'
  BY DEF Inv, TypeOK, RowStatus, BusyHasEvent, SeenWasHandled, CalledHasRun, ReturnedHasRun,
         PublishedWasHandled, PoisonExactlyAtCap, BeginPublish, rows

(* The loop of publish(): a consumer leaves todo only after it has run for   *)
(* the event, now or before, or after the error flag was raised.             *)
LEMMA HandleSteps ==
    ASSUME Inv, NEW w \in Workers, NEW c \in Consumers, Handle(w, c) \/ HandlerRaises(w, c)
    PROVE  Inv'
<1>2. CASE Handle(w, c)
  <2>1. current[w] \in Events
    BY <1>2 DEF Inv, BusyHasEvent, Handle
  <2>2. CASE current[w] \in seen[w][c]
    BY <1>2, <2>1, <2>2
       DEF Inv, TypeOK, RowStatus, BusyHasEvent, SeenWasHandled, CalledHasRun, ReturnedHasRun,
           PublishedWasHandled, PoisonExactlyAtCap, Handle, rows
  <2>3. CASE current[w] \notin seen[w][c]
    <3>1. /\ runs' = [runs EXCEPT ![current[w]][c] = @ + 1]
          /\ seen' = [seen EXCEPT ![w][c] = @ \cup {current[w]}]
          /\ UNCHANGED <<rows, batch, current, stage, error, crashes>>
          /\ todo' = [todo EXCEPT ![w] = @ \ {c}]
      BY <1>2, <2>3 DEF Handle
    <3>2. TypeOK'
      <4>1. /\ runs' \in [Events -> [Consumers -> Nat]]
            /\ seen' \in [Workers -> [Consumers -> SUBSET Events]]
        BY <3>1, <2>1 DEF Inv, TypeOK
      <4>2. todo' \in [Workers -> SUBSET Consumers]
        BY <3>1 DEF Inv, TypeOK
      <4> QED  BY <3>1, <4>1, <4>2 DEF Inv, TypeOK, rows
    <3>3. \A x \in Events, d \in Consumers :
             /\ runs[x][d] > 0 => runs'[x][d] > 0
             /\ runs'[current[w]][c] > 0
      BY <3>1, <2>1 DEF Inv, TypeOK
    <3>4. SeenWasHandled'
      <4> SUFFICES ASSUME NEW v \in Workers, NEW d \in Consumers, NEW x \in seen'[v][d]
                   PROVE  runs'[x][d] > 0
        BY DEF SeenWasHandled
      <4>1. x \in Events
        BY <3>2 DEF TypeOK
      <4>2. CASE x \in seen[v][d]
        BY <4>1, <4>2, <3>3 DEF Inv, SeenWasHandled
      <4>3. CASE x \notin seen[v][d]
        <5>1. v = w /\ d = c /\ x = current[w]
          BY <4>3, <3>1 DEF Inv, TypeOK
        <5> QED  BY <5>1, <3>3, <2>1
      <4> QED  BY <4>2, <4>3
    <3>5. CalledHasRun' /\ ReturnedHasRun' /\ BusyHasEvent'
      BY <3>1, <3>3, <2>1 DEF Inv, TypeOK, CalledHasRun, ReturnedHasRun, BusyHasEvent
    <3>6. PublishedWasHandled' /\ PoisonExactlyAtCap'
      BY <3>1, <3>3, <2>1 DEF Inv, TypeOK, PublishedWasHandled, PoisonExactlyAtCap, rows
    <3> QED  BY <3>2, <3>4, <3>5, <3>6 DEF Inv
  <2> QED  BY <2>2, <2>3
<1>3. CASE HandlerRaises(w, c)
  BY <1>3 DEF Inv, TypeOK, RowStatus, BusyHasEvent, SeenWasHandled, CalledHasRun, ReturnedHasRun,
         PublishedWasHandled, PoisonExactlyAtCap, HandlerRaises, rows
<1> QED  BY <1>2, <1>3

(* Settling: PUBLISHED needs a publish() that returned, and the attempt      *)
(* counter reaches the cap in the very step that makes the row POISON.       *)
LEMMA SettleSteps ==
    ASSUME Inv, NEW w \in Workers,
           EndPublish(w) \/ MarkPublished(w) \/ ReleaseFailed(w) \/ Crash(w)
    PROVE  Inv'
<1>1. CASE MarkPublished(w)
  <2>1. current[w] \in Events
    BY <1>1 DEF Inv, BusyHasEvent, MarkPublished
  <2>2. TypeOK'
    <3>1. status' \in [Events -> RowStatus]
      BY <1>1, <2>1 DEF Inv, TypeOK, RowStatus, MarkPublished
    <3>2. batch' \in [Workers -> SUBSET Events]
      BY <1>1, <2>1 DEF Inv, TypeOK, MarkPublished
    <3>3. /\ stage' \in [Workers -> {"idle", "publishing", "published", "failed"}]
          /\ current' \in [Workers -> Events \cup {NoEvent}]
      BY <1>1 DEF Inv, TypeOK, MarkPublished
    <3> QED  BY <1>1, <3>1, <3>2, <3>3 DEF Inv, TypeOK, MarkPublished
  <2>3. PublishedWasHandled' /\ PoisonExactlyAtCap'
    BY <1>1, <2>1 DEF Inv, TypeOK, PublishedWasHandled, PoisonExactlyAtCap, ReturnedHasRun,
                      MarkPublished, Owns
  <2>4. BusyHasEvent' /\ SeenWasHandled' /\ CalledHasRun' /\ ReturnedHasRun'
    BY <1>1 DEF Inv, TypeOK, BusyHasEvent, SeenWasHandled, CalledHasRun, ReturnedHasRun,
                MarkPublished
  <2> QED  BY <2>2, <2>3, <2>4 DEF Inv
<1>2. CASE ReleaseFailed(w)
  <2>1. current[w] \in Events
    BY <1>2 DEF Inv, BusyHasEvent, ReleaseFailed
  <2>2. BusyHasEvent' /\ SeenWasHandled' /\ CalledHasRun' /\ ReturnedHasRun'
    BY <1>2 DEF Inv, TypeOK, BusyHasEvent, SeenWasHandled, CalledHasRun, ReturnedHasRun,
                ReleaseFailed
  <2>3. CASE Owns(w, current[w])
    <3>1. attempts[current[w]] \in 0..MAX_ATTEMPTS /\ attempts[current[w]] # MAX_ATTEMPTS
      BY <2>1, <2>3 DEF Inv, TypeOK, PoisonExactlyAtCap, Owns
    <3>2. TypeOK'
      <4>1. /\ status' \in [Events -> RowStatus]
            /\ leaseOver' \in [Events -> BOOLEAN]
            /\ claimedBy' \in [Events -> {WorkerId[v] : v \in Workers} \cup {NoWorker}]
        BY <1>2, <2>1, <2>3 DEF Inv, TypeOK, RowStatus, ReleaseFailed
      <4>2. attempts' \in [Events -> 0..MAX_ATTEMPTS]
        <5>1. attempts' = [attempts EXCEPT ![current[w]] = attempts[current[w]] + 1]
          BY <1>2, <2>3 DEF ReleaseFailed
        <5>2. attempts[current[w]] + 1 \in 0..MAX_ATTEMPTS
          BY <3>1, CapIsPositive
        <5>3. attempts \in [Events -> 0..MAX_ATTEMPTS]
          BY DEF Inv, TypeOK
        <5> QED  BY <5>1, <5>2, <5>3, <2>1
      <4>3. /\ batch' = batch
            /\ stage' \in [Workers -> {"idle", "publishing", "published", "failed"}]
            /\ current' \in [Workers -> Events \cup {NoEvent}]
            /\ UNCHANGED <<todo, error, seen, runs, crashes>>
        BY <1>2, <2>3 DEF Inv, TypeOK, ReleaseFailed
      <4> QED  BY <4>1, <4>2, <4>3 DEF Inv, TypeOK
    <3>3. PublishedWasHandled'
      BY <1>2, <2>1, <2>3 DEF Inv, TypeOK, PublishedWasHandled, ReleaseFailed
    <3>4. PoisonExactlyAtCap'
      <4>1. /\ attempts' = [attempts EXCEPT ![current[w]] = @ + 1]
            /\ status' = [status EXCEPT ![current[w]] =
                            IF CapReached(attempts[current[w]] + 1)
                            THEN "POISON" ELSE "PENDING"]
        BY <1>2, <2>3 DEF ReleaseFailed
      <4>2. CapReached(attempts[current[w]] + 1) <=> attempts[current[w]] + 1 = MAX_ATTEMPTS
        BY <3>1, CapIsPositive DEF CapReached
      <4>3. ASSUME NEW x \in Events
            PROVE  status'[x] = "POISON" <=> attempts'[x] = MAX_ATTEMPTS
        <5>1. /\ status[x] = "POISON" <=> attempts[x] = MAX_ATTEMPTS
              /\ DOMAIN status = Events /\ DOMAIN attempts = Events
          BY DEF Inv, TypeOK, PoisonExactlyAtCap
        <5>2. CASE x # current[w]
          BY <4>1, <5>1, <5>2
        <5>3. CASE x = current[w]
          BY <4>1, <4>2, <5>1, <5>3
        <5> QED  BY <5>2, <5>3
      <4> QED  BY <4>3 DEF PoisonExactlyAtCap
    <3> QED  BY <2>2, <3>2, <3>3, <3>4 DEF Inv
  <2>4. CASE ~Owns(w, current[w])
    <3>1. UNCHANGED <<status, claimedBy, leaseOver, attempts, todo, error, seen, runs, crashes>>
      BY <1>2, <2>4 DEF ReleaseFailed, rows
    <3>2. batch' \in [Workers -> SUBSET Events]
      BY <1>2, <2>4 DEF Inv, TypeOK, ReleaseFailed
    <3>3. /\ stage' \in [Workers -> {"idle", "publishing", "published", "failed"}]
          /\ current' \in [Workers -> Events \cup {NoEvent}]
      BY <1>2 DEF Inv, TypeOK, ReleaseFailed
    <3>4. TypeOK' /\ PublishedWasHandled' /\ PoisonExactlyAtCap'
      BY <3>1, <3>2, <3>3 DEF Inv, TypeOK, PublishedWasHandled, PoisonExactlyAtCap
    <3> QED  BY <2>2, <3>4 DEF Inv
  <2> QED  BY <2>3, <2>4
<1>3. CASE Crash(w)
  <2>1. TypeOK'
    BY <1>3, CapIsPositive DEF Inv, TypeOK, Crash, rows
  <2>2. BusyHasEvent' /\ CalledHasRun' /\ ReturnedHasRun'
    BY <1>3 DEF Inv, TypeOK, BusyHasEvent, CalledHasRun, ReturnedHasRun, Crash
  <2>3. SeenWasHandled'
    <3> SUFFICES ASSUME NEW v \in Workers, NEW c \in Consumers, NEW x \in seen'[v][c]
                 PROVE  runs'[x][c] > 0
      BY DEF SeenWasHandled
    <3>1. v # w /\ x \in seen[v][c]
      BY <1>3 DEF Inv, TypeOK, Crash
    <3> QED  BY <1>3, <3>1 DEF Inv, SeenWasHandled, Crash
  <2>4. PublishedWasHandled' /\ PoisonExactlyAtCap'
    BY <1>3 DEF Inv, PublishedWasHandled, PoisonExactlyAtCap, Crash, rows
  <2> QED  BY <2>1, <2>2, <2>3, <2>4 DEF Inv
<1>4. CASE EndPublish(w)
  BY <1>4 DEF Inv, TypeOK, RowStatus, BusyHasEvent, SeenWasHandled, CalledHasRun, ReturnedHasRun,
         PublishedWasHandled, PoisonExactlyAtCap, EndPublish, rows
<1> QED  BY <1>1, <1>2, <1>3, <1>4

(* Every step preserves Inv.                                                 *)
LEMMA NextInv == Inv /\ [Next]_vars => Inv'
<1> SUFFICES ASSUME Inv, [Next]_vars PROVE Inv'
  OBVIOUS
<1>1. CASE UNCHANGED vars
  BY <1>1 DEF Inv, TypeOK, BusyHasEvent, SeenWasHandled, CalledHasRun, ReturnedHasRun,
              PublishedWasHandled, PoisonExactlyAtCap, vars, rows, process
<1>2. ASSUME NEW e \in Events, Enqueue(e) \/ LeaseExpires(e) PROVE Inv'
  BY <1>2, RowSteps
<1>3. ASSUME NEW w \in Workers, WorkerStep(w) \/ Crash(w) PROVE Inv'
  <2>1. ASSUME NEW B \in SUBSET Events, ClaimBatch(w, B) PROVE Inv'
    BY <2>1, ClaimStep
  <2>2. ASSUME NEW e \in Events, BeginPublish(w, e) PROVE Inv'
    BY <2>2, BeginStep
  <2>3. ASSUME NEW c \in Consumers, Handle(w, c) \/ HandlerRaises(w, c) PROVE Inv'
    BY <2>3, HandleSteps
  <2>4. CASE EndPublish(w) \/ MarkPublished(w) \/ ReleaseFailed(w) \/ Crash(w)
    BY <2>4, SettleSteps
  <2> QED  BY <1>3, <2>1, <2>2, <2>3, <2>4 DEF WorkerStep
<1> QED  BY <1>1, <1>2, <1>3 DEF Next

(* At least once, for every number of processes, events and consumers: a row *)
(* is PUBLISHED only after every subscription handled the event.             *)
THEOREM PublishedIsHandled == Spec => []PublishedWasHandled
  BY InitInv, NextInv, PTL DEF Spec, Inv

(* For every cap: POISON and "MAX_ATTEMPTS publishes failed" are the same.   *)
THEOREM PoisonAtCap == Spec => []PoisonExactlyAtCap
  BY InitInv, NextInv, PTL DEF Spec, Inv

(* Delivery is honest, for every number of processes, events and consumers   *)
(* and every cap.                                                            *)
THEOREM HonestDelivery == Spec => []DeliveryIsHonest
  BY PublishedIsHandled, PoisonAtCap, PTL DEF DeliveryIsHonest

(* The types of rows and worker frames hold in every reachable state.        *)
THEOREM TypeCorrect == Spec => []TypeOK
  BY InitInv, NextInv, PTL DEF Spec, Inv

(* No step changes a row that is PUBLISHED or POISON: the claim and both     *)
(* settling updates require a PENDING or CLAIMED row.                        *)
THEOREM SettledStays == Spec => SettledIsFinal
<1>1. ASSUME Inv, Next, NEW x \in Events, status[x] \in Settled
      PROVE  status'[x] = status[x]
  <2>1. ASSUME NEW e \in Events, Enqueue(e) \/ LeaseExpires(e) PROVE status'[x] = status[x]
    BY <1>1, <2>1 DEF Enqueue, LeaseExpires, Settled, Inv, TypeOK
  <2>2. ASSUME NEW w \in Workers, WorkerStep(w) \/ Crash(w) PROVE status'[x] = status[x]
    <3>1. ASSUME NEW B \in SUBSET Events, ClaimBatch(w, B) PROVE status'[x] = status[x]
      BY <1>1, <3>1 DEF ClaimBatch, Due, Settled
    <3>2. ASSUME MarkPublished(w) \/ ReleaseFailed(w) PROVE status'[x] = status[x]
      BY <1>1, <3>2 DEF MarkPublished, ReleaseFailed, Owns, Settled, Inv, TypeOK, rows
    <3>3. ASSUME ~(MarkPublished(w) \/ ReleaseFailed(w)),
                 ~(\E B \in SUBSET Events : ClaimBatch(w, B))
          PROVE  status'[x] = status[x]
      BY <2>2, <3>3 DEF WorkerStep, BeginPublish, Handle, HandlerRaises, EndPublish, Crash, rows
    <3> QED  BY <3>1, <3>2, <3>3
  <2> QED  BY <1>1, <2>1, <2>2 DEF Next
<1>2. Inv /\ [Next]_vars =>
        [\A e \in Events : status[e] \in Settled => status'[e] = status[e]]_vars
  BY <1>1
<1> QED  BY InitInv, NextInv, <1>2, PTL DEF Spec, SettledIsFinal
-----------------------------------------------------------------------------
RegistryModes == {"MANUAL_LOCAL", "SIMULATOR", "SANDBOX", "PRODUCTION", "DISABLED", "none"}

(* What backs a mode, live or kept for re_enable.                            *)
BackedMode(mode) ==
    mode \in Credentialed => mode \in backed \/ (mode = "SANDBOX" /\ "PRODUCTION" \in backed)

(* LiveIsBacked is not inductive: re_enable returns to the stored mode, so   *)
(* that one must be backed too.                                              *)
ModesInv ==
    /\ reg \in [mode : RegistryModes \ {"none"}, prev : RegistryModes, enabled : BOOLEAN,
                cert : {"NEVER_RUN", "PASSED", "FAILED", "STALE"},
                health : {"UNKNOWN", "HEALTHY", "DEGRADED", "UNHEALTHY"}]
    /\ up => BackedMode(reg.mode) /\ BackedMode(reg.prev)
    /\ up => (reg.mode = "DISABLED" <=> ~reg.enabled)
    /\ simulatorOnly => touched \subseteq {"SIMULATOR"}

LEMMA ModesInitially == MInit => ModesInv
  BY DEF MInit, ModesInv, RegistryModes

LEMMA ModesStep == ModesInv /\ [MNext]_mvars => ModesInv'
  <1> SUFFICES ASSUME ModesInv, [MNext]_mvars PROVE ModesInv'
    OBVIOUS
  <1> USE DEF ModesInv, BackedMode, Credentialed, RegistryModes
  <1>1. CASE BootSimulator
    BY <1>1 DEF BootSimulator, Boots, RegisterRow
  <1>2. CASE BootDisabled
    BY <1>2 DEF BootDisabled, Boots, RegisterRow
  <1>3. ASSUME NEW mode \in Credentialed, BootLive(mode) PROVE ModesInv'
    BY <1>3 DEF BootLive, Boots, RegisterRow
  <1>4. CASE ProcessDies
    BY <1>4 DEF ProcessDies
  <1>5. CASE Disable
    BY <1>5 DEF Disable, Apply, RowOnly
  <1>6. CASE ReEnable
    BY <1>6 DEF ReEnable, Apply, RowOnly
  <1>7. CASE SweepCredentials
    BY <1>7 DEF SweepCredentials, Apply, RowOnly
  <1>8. CASE SweepSandbox
    BY <1>8 DEF SweepSandbox, Apply, RowOnly
  <1>9. CASE CredentialsChange
    BY <1>9 DEF CredentialsChange
  <1>10. ASSUME NEW x \in BOOLEAN, Promote(x) PROVE ModesInv'
    <2>1. PICK target \in {"SIMULATOR", "SANDBOX", "PRODUCTION"} :
             /\ Apply(target, reg.mode, reg.enabled) /\ backed' = backed \cup {target}
             /\ up /\ reg.mode \in {"MANUAL_LOCAL", "SIMULATOR", "SANDBOX"} /\ RowOnly
      BY <1>10 DEF Promote, PromotionTarget
    <2> QED
      BY <2>1 DEF Apply, RowOnly
  <1>11. ASSUME NEW to \in {"SANDBOX", "SIMULATOR", "MANUAL_LOCAL"}, Demote(to) PROVE ModesInv'
    BY <1>11 DEF Demote, Apply, RowOnly
  <1>12. CASE CertificationStarts
    BY <1>12 DEF CertificationStarts
  <1>13. CASE SetCertification
    BY <1>13 DEF SetCertification, RowOnly
  <1>14. CASE BumpAdapterVersion
    BY <1>14 DEF BumpAdapterVersion, RowOnly
  <1>15. CASE Reaches
    BY <1>15 DEF Reaches
  <1>16. ASSUME NEW x \in BOOLEAN, NEW y \in BOOLEAN, NEW z \in BOOLEAN,
                CertificationEnds(x, y, z)
         PROVE  ModesInv'
    BY <1>16 DEF CertificationEnds
  <1>17. ASSUME NEW x \in BOOLEAN, NEW y \in BOOLEAN, RecordHealth(x, y) PROVE ModesInv'
    BY <1>17 DEF RecordHealth, RowOnly
  <1>18. CASE UNCHANGED mvars
    BY <1>18 DEF mvars
  <1> QED
    BY <1>1, <1>2, <1>3, <1>4, <1>5, <1>6, <1>7, <1>8, <1>9, <1>10, <1>11, <1>12, <1>13,
       <1>14, <1>15, <1>16, <1>17, <1>18 DEF MNext

(* For every number of boots and both settings of ALLOW_SIMULATOR: no        *)
(* sequence of disables, sweeps, demotions, promotions and re-enables makes  *)
(* a connector live that no certified boot or promotion made live.           *)
THEOREM LiveStaysBacked == MSpec => []LiveIsBacked
  <1>1. ModesInv => LiveIsBacked
    BY DEF ModesInv, LiveIsBacked, BackedMode
  <1> QED
    BY <1>1, ModesInitially, ModesStep, PTL DEF MSpec
-----------------------------------------------------------------------------
(* The process: custody of the checkpoint key, and the composition root.     *)

InstanceRows == [at : {"down", "read", "create", "fill", "trust", "up", "refused"}, key : Nat,
                 trusted : SUBSET Nat]

CustodyType ==
    /\ file \in [is : {"missing", "empty", "written"}, keys : Seq(Nat)]
    /\ inst \in [Instances -> InstanceRows] /\ minted \in Nat

(* The record is written once and then only grows: it has keys when it is    *)
(* written, one instance fills an opened record, nobody trusts or signs      *)
(* before that, and a rotation holds what the record still says.             *)
CustodyInv ==
    /\ CustodyType
    /\ (file.is = "written") <=> (file.keys # <<>>)
    /\ \A i \in Instances : inst[i].at = "fill" => file.is = "empty"
    /\ \A i, j \in Instances : inst[i].at = "fill" /\ inst[j].at = "fill" => i = j
    /\ \A i \in Instances : inst[i].at \in {"trust", "up"} => inst[i].key \in Enrolled
    /\ \A i \in Instances : inst[i].at = "up" => inst[i].key \in inst[i].trusted
    /\ signed \subseteq Enrolled
    /\ rotating # <<>> => rotating = file.keys

(* The phases from one on, while the process is coming up or serves.         *)
FromServing == {"serving"}
FromRoutes == FromServing \cup {"routes"}
FromGuard == FromRoutes \cup {"guard"}
FromInbound == FromGuard \cup {"inbound"}
FromSurfaces == FromInbound \cup {"surfaces"}
FromGateway == FromSurfaces \cup {"gateway", "channels"}
FromServices == FromGateway \cup {"services"}
FromKernel == FromServices \cup {"kernel"}

ReportingWired ==
    /\ built.portal = IF Live THEN "live" ELSE env.mode
    /\ built.feed = IF FeedConfigured THEN "live" ELSE "none"
    /\ ComplianceTasks(FeedConfigured) \subseteq tasks

KernelWired ==
    /\ built.runner = IF Live THEN "live" ELSE env.mode
    /\ built.beftn = IF BeftnConfigured THEN "live" ELSE "none"
    /\ KernelTasks \subseteq tasks

ChannelsWired ==
    /\ built.sms \in {"recording", "live"} \cup ExternalModes
    /\ built.cash => env.cash = "wired"

GuardHeld ==
    env.production => /\ ~env.memory /\ built.sms # "recording" /\ built.runner # "SIMULATOR"
                      /\ EffectiveRequired \subseteq tasks

Pieces == {"none", "live", "unproven", "recording"} \cup ExternalModes
BuiltRows == [portal : Pieces, feed : Pieces, runner : Pieces, beftn : Pieces, sms : Pieces,
              sandbox : BOOLEAN, cash : BOOLEAN]

(* What each phase of build_services has established.                        *)
BootInv ==
    /\ env \in Settings /\ built \in BuiltRows
    /\ phase \in FromKernel => ReportingWired
    /\ phase \in FromServices => KernelWired
    /\ phase \in FromGateway /\ BeftnConfigured => "beftn_return_poll" \in tasks
    /\ phase \in FromSurfaces => ChannelsWired
    /\ phase \in FromInbound => (built.sandbox => ~Live)
    /\ phase \in FromRoutes => GuardHeld
    /\ phase \notin {"serving", "stopping"} => workers = {}
    /\ phase = "serving" => workers = Schedulers
    /\ phase = "closed" => owned = {}

LEMMA BootInitially == BInit => CustodyInv /\ BootInv
  <1> SUFFICES ASSUME BInit PROVE CustodyInv /\ BootInv
    OBVIOUS
  <1>1. CustodyType
    BY DEF BInit, CustodyInit, CustodyType, InstanceRows, NoInstance
  <1>2. CustodyInv
    BY <1>1 DEF BInit, CustodyInit, CustodyInv, Enrolled, NoInstance
  <1>3. BootInv
    <2>1. env \in Settings /\ built \in BuiltRows /\ phase = "settings" /\ workers = {}
      BY DEF BInit, BootInit, BuiltRows, Pieces
    <2> QED
      BY <2>1 DEF BootInv, FromKernel, FromServices, FromGateway, FromSurfaces, FromInbound,
                  FromGuard, FromRoutes, FromServing
  <1> QED
    BY <1>2, <1>3

(* One instance moves, and the record keeps its keys or gains some.          *)
LEMMA InstanceMoves ==
    ASSUME CustodyInv, NEW i \in Instances, NEW row \in InstanceRows,
           inst' = [inst EXCEPT ![i] = row], UNCHANGED <<signed, rotating, file>>, minted' \in Nat,
           row.at # "fill", row.at \in {"trust", "up"} => row.key \in Enrolled,
           row.at = "up" => row.key \in row.trusted
    PROVE  CustodyInv'
  <1>1. /\ inst' \in [Instances -> InstanceRows] /\ inst'[i] = row
        /\ \A j \in Instances \ {i} : inst'[j] = inst[j]
    BY DEF CustodyInv, CustodyType
  <1>2. Enrolled' = Enrolled
    BY DEF Enrolled
  <1> QED
    BY <1>1, <1>2 DEF CustodyInv, CustodyType

LEMMA CustodyStep == CustodyInv /\ CustodyNext => CustodyInv'
  <1> SUFFICES ASSUME CustodyInv, CustodyNext PROVE CustodyInv'
    OBVIOUS
  <1>0. CustodyType /\ \A i \in Instances : inst[i] \in InstanceRows
    BY DEF CustodyInv, CustodyType
  <1>a. NoInstance \in InstanceRows /\ NoInstance.at = "down"
    BY DEF NoInstance, InstanceRows
  <1>1. ASSUME NEW i \in Instances, Starts(i) PROVE CustodyInv'
    <2> DEFINE row == [inst[i] EXCEPT !.at = "read"]
    <2>1. row \in InstanceRows /\ row.at = "read"
      BY <1>0 DEF InstanceRows
    <2>2. inst' = [inst EXCEPT ![i] = row] /\ UNCHANGED <<signed, rotating, file>> /\ minted' \in Nat
      BY <1>0, <1>1 DEF Starts, CustodyType
    <2> HIDE DEF row
    <2> QED
      BY <2>1, <2>2, InstanceMoves
  <1>2. ASSUME NEW i \in Instances, ReadCustody(i) PROVE CustodyInv'
    <2>1. UNCHANGED <<file, signed, rotating>>
      BY <1>2 DEF ReadCustody
    <2>2. CASE file.is = "missing"
      <3> DEFINE k == minted + 1
                 row == [inst[i] EXCEPT !.at = "create", !.key = k]
      <3>0. k \in Nat
        BY <1>0 DEF CustodyType
      <3>1. minted' = k /\ inst' = [inst EXCEPT ![i] = row]
        BY <1>2, <2>2 DEF ReadCustody
      <3> HIDE DEF k
      <3>2. row \in InstanceRows /\ row.at = "create"
        BY <1>0, <3>0 DEF InstanceRows
      <3> HIDE DEF row
      <3> QED
        BY <2>1, <3>0, <3>1, <3>2, InstanceMoves
    <2>3. CASE file.is = "empty"
      <3> DEFINE row == [NoInstance EXCEPT !.at = "refused"]
      <3>1. row \in InstanceRows /\ row.at = "refused"
        BY DEF InstanceRows, NoInstance
      <3>2. inst' = [inst EXCEPT ![i] = row] /\ minted' \in Nat
        BY <1>0, <1>2, <2>3 DEF ReadCustody, CustodyType
      <3> HIDE DEF row
      <3> QED
        BY <2>1, <3>1, <3>2, InstanceMoves
    <2>4. CASE file.is = "written"
      <3> DEFINE k == file.keys[Len(file.keys)]
                 row == [inst[i] EXCEPT !.at = "trust", !.key = k]
      <3>1. k \in Nat /\ k \in Enrolled
        <4>1. file.keys \in Seq(Nat) /\ file.keys # <<>>
          BY <2>4 DEF CustodyInv, CustodyType
        <4>2. Len(file.keys) \in DOMAIN file.keys
          BY <4>1
        <4> QED
          BY <4>1, <4>2 DEF Enrolled
      <3>2. inst' = [inst EXCEPT ![i] = row] /\ minted' \in Nat
        BY <1>0, <1>2, <2>4 DEF ReadCustody, CustodyType
      <3> HIDE DEF k
      <3>3. row \in InstanceRows /\ row.at = "trust" /\ row.key = k
        BY <1>0, <3>1 DEF InstanceRows
      <3> HIDE DEF row
      <3> QED
        BY <2>1, <3>1, <3>2, <3>3, InstanceMoves
    <2> QED
      BY <1>2, <2>2, <2>3, <2>4 DEF ReadCustody
  <1>3. ASSUME NEW i \in Instances, CreateExclusive(i) PROVE CustodyInv'
    <2>1. CASE file.is = "missing"
      <3> DEFINE row == [inst[i] EXCEPT !.at = "fill"]
      <3>1. row \in InstanceRows /\ row.at = "fill"
        BY <1>0 DEF InstanceRows
      <3>2. /\ inst' = [inst EXCEPT ![i] = row] /\ file' = [file EXCEPT !.is = "empty"]
            /\ UNCHANGED <<signed, minted, rotating>>
        BY <1>3, <2>1 DEF CreateExclusive
      <3> HIDE DEF row
      <3>3. /\ inst' \in [Instances -> InstanceRows] /\ inst'[i] = row
            /\ \A j \in Instances \ {i} : inst'[j] = inst[j]
        BY <1>0, <3>1, <3>2 DEF CustodyType
      <3>4. /\ file' \in [is : {"missing", "empty", "written"}, keys : Seq(Nat)]
            /\ file'.is = "empty" /\ file'.keys = file.keys /\ file.keys = <<>>
        BY <2>1, <3>2 DEF CustodyInv, CustodyType
      <3>5. Enrolled' = Enrolled
        BY <3>4 DEF Enrolled
      <3>6. \A j \in Instances : inst[j].at # "fill"
        BY <2>1 DEF CustodyInv
      <3> QED
        BY <3>1, <3>2, <3>3, <3>4, <3>5, <3>6 DEF CustodyInv, CustodyType
    <2>2. CASE file.is # "missing"
      <3> DEFINE row == [inst[i] EXCEPT !.at = "read", !.key = 0]
      <3>1. row \in InstanceRows /\ row.at = "read"
        BY <1>0 DEF InstanceRows
      <3>2. /\ inst' = [inst EXCEPT ![i] = row] /\ UNCHANGED <<file, signed, rotating>>
            /\ minted' \in Nat
        BY <1>0, <1>3, <2>2 DEF CreateExclusive, CustodyType
      <3> HIDE DEF row
      <3> QED
        BY <3>1, <3>2, InstanceMoves
    <2> QED
      BY <2>1, <2>2
  <1>4. ASSUME NEW i \in Instances, FillCustody(i) PROVE CustodyInv'
    <2> DEFINE row == [inst[i] EXCEPT !.at = "read"]
               k == inst[i].key
    <2>1. row \in InstanceRows /\ row.at = "read" /\ k \in Nat
      BY <1>0 DEF InstanceRows
    <2>2. /\ inst' = [inst EXCEPT ![i] = row] /\ file' = Written(<<k>>)
          /\ UNCHANGED <<signed, minted, rotating>> /\ inst[i].at = "fill"
      BY <1>4 DEF FillCustody
    <2>3. /\ file.is = "empty" /\ file.keys = <<>> /\ Enrolled = {} /\ signed = {} /\ rotating = <<>>
          /\ \A j \in Instances : inst[j].at \notin {"trust", "up"}
      BY <2>2 DEF CustodyInv, Enrolled
    <2> HIDE DEF row, k
    <2>4. /\ inst' \in [Instances -> InstanceRows] /\ inst'[i] = row
          /\ \A j \in Instances \ {i} : inst'[j] = inst[j]
      BY <1>0, <2>1, <2>2 DEF CustodyType
    <2>5. /\ file' \in [is : {"missing", "empty", "written"}, keys : Seq(Nat)]
          /\ file'.is = "written" /\ file'.keys # <<>>
      BY <2>1, <2>2 DEF Written
    <2>6. \A j \in Instances : inst'[j].at \notin {"fill", "trust", "up"}
      BY <2>1, <2>2, <2>3, <2>4 DEF CustodyInv
    <2> QED
      BY <1>0, <2>2, <2>3, <2>4, <2>5, <2>6 DEF CustodyInv, CustodyType
  <1>5. ASSUME NEW i \in Instances, Trusts(i) PROVE CustodyInv'
    <2> DEFINE row == [inst[i] EXCEPT !.at = "up", !.trusted = Enrolled]
    <2>0. Enrolled \in SUBSET Nat
      BY <1>0 DEF Enrolled, CustodyType
    <2>1. /\ row \in InstanceRows /\ row.at = "up" /\ row.key = inst[i].key /\ row.trusted = Enrolled
          /\ inst[i].key \in Enrolled
      BY <1>0, <1>5, <2>0 DEF InstanceRows, Trusts, CustodyInv
    <2>2. inst' = [inst EXCEPT ![i] = row] /\ UNCHANGED <<signed, rotating, file>> /\ minted' \in Nat
      BY <1>0, <1>5 DEF Trusts, CustodyType
    <2> HIDE DEF row
    <2> QED
      BY <2>1, <2>2, InstanceMoves
  <1>6. ASSUME NEW i \in Instances, SignsCheckpoint(i) PROVE CustodyInv'
    BY <1>6 DEF SignsCheckpoint, CustodyInv, CustodyType, Enrolled
  <1>7. ASSUME NEW i \in Instances, InstanceDies(i) PROVE CustodyInv'
    <2>1. /\ inst' = [inst EXCEPT ![i] = NoInstance] /\ UNCHANGED <<signed, rotating, file>>
          /\ minted' \in Nat
      BY <1>0, <1>7 DEF InstanceDies, CustodyType
    <2> QED
      BY <1>a, <2>1, InstanceMoves
  <1>8. CASE RotateReads
    BY <1>8 DEF RotateReads, CustodyInv, CustodyType, Enrolled
  <1>9. CASE RotateReplaces
    <2> DEFINE k == minted + 1
    <2>1. /\ k \in Nat /\ minted' = k /\ file' = Written(Append(file.keys, k)) /\ rotating' = <<>>
          /\ UNCHANGED <<inst, signed>> /\ file.keys \in Seq(Nat) /\ file.keys # <<>>
          /\ file.is = "written"
      BY <1>0, <1>9 DEF RotateReplaces, CustodyInv, CustodyType
    <2> HIDE DEF k
    <2>2. /\ file'.is = "written" /\ file'.keys = Append(file.keys, k)
          /\ Append(file.keys, k) \in Seq(Nat) /\ Append(file.keys, k) # <<>>
          /\ file' \in [is : {"missing", "empty", "written"}, keys : Seq(Nat)]
      BY <2>1 DEF Written
    <2>3. Enrolled \subseteq Enrolled'
      <3>1. \A n \in DOMAIN file.keys : n \in DOMAIN file'.keys /\ file'.keys[n] = file.keys[n]
        BY <2>1, <2>2
      <3> QED
        BY <3>1 DEF Enrolled
    <2>4. \A i \in Instances : inst[i].at # "fill"
      BY <2>1 DEF CustodyInv
    <2> QED
      BY <1>0, <2>1, <2>2, <2>3, <2>4 DEF CustodyInv, CustodyType
  <1> QED
    BY <1>1, <1>2, <1>3, <1>4, <1>5, <1>6, <1>7, <1>8, <1>9 DEF CustodyNext

LEMMA CustodyImplies == CustodyInv => CustodyHolds
  <1> SUFFICES ASSUME CustodyInv PROVE CustodyHolds
    OBVIOUS
  <1>1. ASSUME Len(file.keys) = 1 PROVE \A k, l \in signed : k = l
    <2>1. Enrolled = {file.keys[1]}
      BY <1>1 DEF CustodyInv, CustodyType, Enrolled
    <2> QED
      BY <2>1 DEF CustodyInv
  <1> QED
    BY <1>1 DEF CustodyInv, CustodyHolds

(* What a phase established stays, while tasks are only added and the pieces *)
(* it built are not replaced.                                                *)
LEMMA WiringStays ==
    ASSUME UNCHANGED env, tasks \subseteq tasks'
    PROVE  /\ Live' = Live /\ FeedConfigured' = FeedConfigured /\ BeftnConfigured' = BeftnConfigured
           /\ ReportingWired /\ built'.portal = built.portal /\ built'.feed = built.feed => ReportingWired'
           /\ KernelWired /\ built'.runner = built.runner /\ built'.beftn = built.beftn => KernelWired'
           /\ ChannelsWired /\ built'.sms = built.sms /\ built'.cash = built.cash => ChannelsWired'
  <1>1. Live' = Live /\ FeedConfigured' = FeedConfigured /\ BeftnConfigured' = BeftnConfigured
    BY DEF Live, FeedConfigured, BeftnConfigured
  <1>2. ReportingWired /\ built'.portal = built.portal /\ built'.feed = built.feed => ReportingWired'
    BY <1>1 DEF ReportingWired
  <1>3. KernelWired /\ built'.runner = built.runner /\ built'.beftn = built.beftn => KernelWired'
    BY <1>1 DEF KernelWired
  <1>4. ChannelsWired /\ built'.sms = built.sms /\ built'.cash = built.cash => ChannelsWired'
    BY DEF ChannelsWired
  <1> QED
    BY <1>1, <1>2, <1>3, <1>4

(* A step that raises leaves a process that never serves.                    *)
LEMMA Refusal ==
    ASSUME BootInv, phase' = "refused", workers = {}, UNCHANGED <<env, workers, built>>
    PROVE  BootInv'
  BY DEF BootInv, FromKernel, FromServices, FromGateway, FromSurfaces, FromInbound, FromGuard,
         FromRoutes, FromServing

(* What is not touched stays.                                                *)
LEMMA ProcessFrames ==
    /\ CustodyInv /\ UNCHANGED custody => CustodyInv'
    /\ BootInv /\ UNCHANGED container => BootInv'
  <1>1. CustodyInv /\ UNCHANGED custody => CustodyInv'
    BY DEF custody, CustodyInv, CustodyType, Enrolled
  <1>2. BootInv /\ UNCHANGED container => BootInv'
    BY DEF container, BootInv, ReportingWired, KernelWired, ChannelsWired, GuardHeld, Live,
           FeedConfigured, BeftnConfigured, EffectiveRequired, Schedulers
  <1> QED
    BY <1>1, <1>2

LEMMA BootStep == BootInv /\ BootNext => BootInv'
  <1> SUFFICES ASSUME BootInv, BootNext PROVE BootInv'
    OBVIOUS
  <1> USE DEF FromKernel, FromServices, FromGateway, FromSurfaces, FromInbound, FromGuard, FromRoutes,
              FromServing
  <1>0. env \in Settings /\ built \in BuiltRows
    BY DEF BootInv
  <1>1. CASE ReadSettings
    <2>1. /\ phase' \in {"books", "refused"} /\ phase = "settings" /\ UNCHANGED <<env, workers, built>>
      BY <1>1 DEF ReadSettings, Wires, To, Kept, Unbuilt
    <2> QED
      BY <2>1 DEF BootInv
  <1>2. ASSUME NEW x \in BOOLEAN, WireBooks(x) PROVE BootInv'
    <2>1. /\ phase' \in {"compliance", "refused"} /\ phase = "books" /\ UNCHANGED <<env, workers, built>>
      BY <1>2 DEF WireBooks, Wires, To, Kept, Unbuilt
    <2> QED
      BY <2>1 DEF BootInv
  <1>3. ASSUME NEW x \in BOOLEAN, NEW y \in BOOLEAN, NEW z \in BOOLEAN, WireCompliance(x, y, z)
        PROVE  BootInv'
    <2>1. /\ phase' \in {"reporting", "refused"} /\ phase = "compliance"
          /\ UNCHANGED <<env, workers, built>>
      BY <1>3 DEF WireCompliance, Wires, To, Kept, Unbuilt
    <2> QED
      BY <2>1 DEF BootInv
  <1>4. CASE WireReporting
    <2> DEFINE may == GoamlPortalBuilds /\ FeedBuilds
    <2>1. /\ phase = "reporting" /\ workers = {} /\ UNCHANGED <<env, workers>>
          /\ may => phase' = "kernel"
          /\ ~may => phase' = "refused" /\ UNCHANGED built
      BY <1>4 DEF WireReporting, Wires, To, Kept, Unbuilt, BootInv
    <2>2. CASE may
      <3> DEFINE portal == IF Live THEN Piece ELSE env.mode
                 feed == IF FeedConfigured THEN Piece ELSE "none"
      <3>1. /\ built' = [built EXCEPT !.portal = portal, !.feed = feed]
            /\ tasks' = tasks \cup ComplianceTasks(FeedConfigured)
        BY <1>4, <2>1, <2>2 DEF WireReporting
      <3>2. portal = (IF Live THEN "live" ELSE env.mode) /\ feed = (IF FeedConfigured THEN "live" ELSE "none")
        BY <2>2 DEF GoamlPortalBuilds, FeedBuilds, FeedConfigured, LiveRegistrationConfig, Piece
      <3>3. env.mode \in ExternalModes
        BY <1>0 DEF Settings
      <3>4. portal \in Pieces /\ feed \in Pieces
        BY <3>2, <3>3 DEF Pieces
      <3>5. built' \in BuiltRows /\ built'.portal = portal /\ built'.feed = feed
        <4> HIDE DEF portal, feed
        <4> QED
          BY <1>0, <3>1, <3>4 DEF BuiltRows
      <3>6. Live' = Live /\ FeedConfigured' = FeedConfigured
        BY <2>1 DEF Live, FeedConfigured
      <3>7. ReportingWired'
        BY <2>1, <3>1, <3>2, <3>5, <3>6 DEF ReportingWired
      <3> QED
        BY <2>1, <2>2, <3>5, <3>7 DEF BootInv
    <2> QED
      BY <2>1, <2>2, Refusal
  <1>5. CASE WireKernel
    <2>1. /\ phase = "kernel" /\ workers = {} /\ UNCHANGED <<env, workers>>
          /\ RunnerBuilds => phase' = "services"
          /\ ~RunnerBuilds => phase' = "refused" /\ UNCHANGED built
      BY <1>5 DEF WireKernel, Wires, To, Kept, Unbuilt, BootInv
    <2>2. CASE RunnerBuilds
      <3> DEFINE runner == IF Live THEN Piece ELSE env.mode
                 beftn == IF BeftnConfigured THEN Piece ELSE "none"
      <3>1. /\ built' = [built EXCEPT !.runner = runner, !.beftn = beftn]
            /\ tasks' = tasks \cup KernelTasks
        BY <1>5, <2>1, <2>2 DEF WireKernel
      <3>2. runner = (IF Live THEN "live" ELSE env.mode) /\ beftn = (IF BeftnConfigured THEN "live" ELSE "none")
        BY <2>2 DEF RunnerBuilds, BeftnConfigured, Piece
      <3>3. env.mode \in ExternalModes
        BY <1>0 DEF Settings
      <3>4. runner \in Pieces /\ beftn \in Pieces
        BY <3>2, <3>3 DEF Pieces
      <3>5. /\ built' \in BuiltRows /\ built'.runner = runner /\ built'.beftn = beftn
            /\ built'.portal = built.portal /\ built'.feed = built.feed
        <4> HIDE DEF runner, beftn
        <4> QED
          BY <1>0, <3>1, <3>4 DEF BuiltRows
      <3>6. ReportingWired'
        BY <2>1, <3>1, <3>5, WiringStays DEF BootInv
      <3>7. Live' = Live /\ BeftnConfigured' = BeftnConfigured
        BY <2>1 DEF Live, BeftnConfigured
      <3>8. KernelWired'
        BY <2>1, <3>1, <3>2, <3>5, <3>7 DEF KernelWired
      <3> QED
        BY <2>1, <2>2, <3>5, <3>6, <3>8 DEF BootInv
    <2> QED
      BY <2>1, <2>2, Refusal
  <1>6. CASE WireServices
    <2>1. /\ phase = "services" /\ workers = {} /\ UNCHANGED <<env, workers, built>>
          /\ phase' = "gateway" /\ tasks \subseteq tasks'
          /\ built.beftn # "none" => "beftn_return_poll" \in tasks'
      BY <1>6 DEF WireServices, Wires, To, Kept, BootInv
    <2>2. ReportingWired' /\ KernelWired' /\ BeftnConfigured' = BeftnConfigured /\ KernelWired
      BY <2>1, WiringStays DEF BootInv
    <2>3. BeftnConfigured => "beftn_return_poll" \in tasks'
      BY <2>1, <2>2 DEF KernelWired
    <2> QED
      BY <2>1, <2>2, <2>3 DEF BootInv
  <1>7. ASSUME NEW x \in BOOLEAN, WireGateway(x) PROVE BootInv'
    <2>1. /\ phase = "gateway" /\ workers = {} /\ UNCHANGED <<env, workers, built, tasks>>
          /\ phase' \in {"channels", "refused"}
      BY <1>7 DEF WireGateway, Wires, To, Kept, Unbuilt, BootInv
    <2>2. ReportingWired' /\ KernelWired' /\ BeftnConfigured' = BeftnConfigured
      BY <2>1, WiringStays DEF BootInv
    <2> QED
      BY <2>1, <2>2 DEF BootInv
  <1>8. CASE WireChannels
    <2>1. /\ phase = "channels" /\ workers = {} /\ UNCHANGED <<env, workers>>
          /\ SmsBuilds => phase' = "surfaces"
          /\ ~SmsBuilds => phase' = "refused" /\ UNCHANGED built
      BY <1>8 DEF WireChannels, Wires, To, Kept, Unbuilt, BootInv
    <2>2. CASE SmsBuilds
      <3> DEFINE sms == NotificationPort
                 cash == env.cash = "wired"
      <3>1. built' = [built EXCEPT !.sms = sms, !.cash = cash] /\ tasks' = tasks
        BY <1>8, <2>1, <2>2 DEF WireChannels
      <3>2. env.mode \in ExternalModes
        BY <1>0 DEF Settings
      <3>3. sms \in {"recording", "live"} \cup ExternalModes
        BY <2>2, <3>2 DEF NotificationPort, SmsBuilds, LiveRegistrationConfig, Piece
      <3>4. sms \in Pieces /\ cash \in BOOLEAN
        BY <3>3 DEF Pieces
      <3>5. /\ built' \in BuiltRows /\ built'.sms = sms /\ built'.cash = cash
            /\ built'.portal = built.portal /\ built'.feed = built.feed
            /\ built'.runner = built.runner /\ built'.beftn = built.beftn
        <4> HIDE DEF sms, cash
        <4> QED
          BY <1>0, <3>1, <3>4 DEF BuiltRows
      <3>6. ReportingWired' /\ KernelWired' /\ BeftnConfigured' = BeftnConfigured
        BY <2>1, <3>1, <3>5, WiringStays DEF BootInv
      <3>7. ChannelsWired'
        BY <2>1, <3>3, <3>5 DEF ChannelsWired
      <3> QED
        BY <2>1, <2>2, <3>1, <3>5, <3>6, <3>7 DEF BootInv
    <2> QED
      BY <2>1, <2>2, Refusal
  <1>9. CASE WireSurfaces
    <2>1. /\ phase = "surfaces" /\ workers = {} /\ UNCHANGED <<env, workers>>
          /\ ~SandboxRefuses => phase' = "inbound"
          /\ SandboxRefuses => phase' = "refused" /\ UNCHANGED built
      BY <1>9 DEF WireSurfaces, Wires, To, Kept, Unbuilt, BootInv
    <2>2. CASE ~SandboxRefuses
      <3>1. built' = [built EXCEPT !.sandbox = env.public] /\ tasks' = tasks
        BY <1>9, <2>1, <2>2 DEF WireSurfaces
      <3>2. /\ built' \in BuiltRows /\ built'.sandbox = env.public
            /\ built'.portal = built.portal /\ built'.feed = built.feed
            /\ built'.runner = built.runner /\ built'.beftn = built.beftn
            /\ built'.sms = built.sms /\ built'.cash = built.cash
        <4>1. env.public \in BOOLEAN
          BY <1>0 DEF Settings
        <4> QED
          BY <1>0, <3>1, <4>1 DEF BuiltRows
      <3>3. ReportingWired' /\ KernelWired' /\ ChannelsWired' /\ BeftnConfigured' = BeftnConfigured
            /\ Live' = Live
        BY <2>1, <3>1, <3>2, WiringStays DEF BootInv
      <3> QED
        BY <2>1, <2>2, <3>1, <3>2, <3>3 DEF BootInv, SandboxRefuses
    <2> QED
      BY <2>1, <2>2, Refusal
  <1>10. CASE WireInbound
    <2>1. /\ phase = "inbound" /\ workers = {} /\ UNCHANGED <<env, workers, built>>
          /\ phase' = "guard" /\ tasks \subseteq tasks'
      BY <1>10 DEF WireInbound, Wires, To, Kept, BootInv
    <2>2. ReportingWired' /\ KernelWired' /\ ChannelsWired' /\ BeftnConfigured' = BeftnConfigured
          /\ Live' = Live
      BY <2>1, WiringStays DEF BootInv
    <2> QED
      BY <2>1, <2>2 DEF BootInv
  <1>11. ASSUME NEW x \in BOOLEAN, NEW y \in BOOLEAN, AssertBootInvariants(x, y) PROVE BootInv'
    <2>1. /\ phase = "guard" /\ workers = {} /\ UNCHANGED <<env, workers, built, tasks>>
          /\ \/ phase' = "closed" /\ owned' = {}
             \/ phase' = "routes" /\ ~(env.production /\ Offends(x, y))
      BY <1>11 DEF AssertBootInvariants, To, Kept, BootInv
    <2>2. ReportingWired' /\ KernelWired' /\ ChannelsWired' /\ BeftnConfigured' = BeftnConfigured
          /\ Live' = Live
      BY <2>1, WiringStays DEF BootInv
    <2>3. phase' = "routes" => GuardHeld'
      BY <2>1 DEF GuardHeld, Offends, EffectiveRequired
    <2> QED
      BY <2>1, <2>2, <2>3 DEF BootInv
  <1>12. CASE StartBackgroundWorkers
    <2>1. /\ phase = "routes" /\ phase' = "serving" /\ workers' = Schedulers
          /\ UNCHANGED <<env, built, tasks, owned>>
      BY <1>12 DEF StartBackgroundWorkers, To, Unbuilt
    <2>2. ReportingWired' /\ KernelWired' /\ ChannelsWired' /\ BeftnConfigured' = BeftnConfigured
          /\ Live' = Live
      BY <2>1, WiringStays DEF BootInv
    <2>3. GuardHeld' /\ Schedulers' = Schedulers
      BY <2>1 DEF GuardHeld, EffectiveRequired, Schedulers, BootInv
    <2> QED
      BY <2>1, <2>2, <2>3 DEF BootInv
  <1>13. ASSUME NEW w \in workers, NEW x \in BOOLEAN, RunDue(w, x) PROVE BootInv'
    BY <1>13, ProcessFrames DEF RunDue
  <1>15. ASSUME NEW w \in workers, StopWorker(w) \/ Close PROVE BootInv'
    <2>1. /\ phase' \in {"stopping", "closed"} /\ UNCHANGED <<env, built>>
          /\ phase' = "closed" => owned' = {} /\ workers' = {}
      BY <1>15 DEF StopWorker, Close, To, Unbuilt
    <2> QED
      BY <2>1 DEF BootInv
  <1> QED
    BY <1>1, <1>2, <1>3, <1>4, <1>5, <1>6, <1>7, <1>8, <1>9, <1>10, <1>11, <1>12, <1>13, <1>15 DEF BootNext

LEMMA BootImplies == BootInv => ServesWhole
  <1> SUFFICES ASSUME BootInv PROVE ServesWhole
    OBVIOUS
  <1> USE DEF FromKernel, FromServices, FromGateway, FromSurfaces, FromInbound, FromGuard, FromRoutes,
              FromServing
  <1>1. CASE phase = "serving"
    <2>1. /\ env \in Settings /\ ReportingWired /\ KernelWired /\ ChannelsWired /\ GuardHeld
          /\ built.sandbox => ~Live
          /\ BeftnConfigured => "beftn_return_poll" \in tasks
          /\ workers = Schedulers
      BY <1>1 DEF BootInv
    <2>2. "unproven" \notin {built.feed, built.beftn, built.sms}
      BY <2>1 DEF ReportingWired, KernelWired, ChannelsWired, ExternalModes
    <2>3. Live => built["portal"] = "live" /\ built["runner"] = "live"
      BY <2>1 DEF ReportingWired, KernelWired
    <2>4. env.production => AlwaysRequired \subseteq tasks
      BY <2>1 DEF GuardHeld, EffectiveRequired
    <2>5. Live /\ "feed" \in env.named => {"sanctions_feed_poll", "sanctions_staleness"} \subseteq tasks
      BY <2>1 DEF ReportingWired, FeedConfigured, ComplianceTasks
    <2> QED
      BY <1>1, <2>1, <2>2, <2>3, <2>4, <2>5 DEF ServesWhole, GuardHeld, ChannelsWired, BeftnConfigured
  <1>2. CASE phase # "serving"
    BY <1>2 DEF BootInv, ServesWhole
  <1> QED
    BY <1>1, <1>2

(* For any number of instances that share a record of custody, any deaths    *)
(* and rotations, and every deployment the settings allow: what is signed    *)
(* stays verifiable, and a process that serves is whole.                     *)
THEOREM ProcessStaysWhole == BSpec => []ProcessIsWhole
  <1>1. CustodyInv /\ BootInv /\ [BNext]_<<custody, container>> => CustodyInv' /\ BootInv'
    <2> SUFFICES ASSUME CustodyInv, BootInv, [BNext]_<<custody, container>>
                 PROVE  CustodyInv' /\ BootInv'
      OBVIOUS
    <2>1. CASE CustodyNext /\ UNCHANGED container
      BY <2>1, CustodyStep, ProcessFrames
    <2>2. CASE BootNext /\ UNCHANGED custody
      BY <2>2, BootStep, ProcessFrames
    <2>3. CASE UNCHANGED <<custody, container>>
      BY <2>3, ProcessFrames
    <2> QED
      BY <2>1, <2>2, <2>3 DEF BNext
  <1>2. CustodyInv /\ BootInv => ProcessIsWhole
    BY CustodyImplies, BootImplies DEF ProcessIsWhole
  <1> QED
    BY BootInitially, <1>1, <1>2, PTL DEF BSpec
-----------------------------------------------------------------------------
(* Credentials.                                                              *)

KeyRows == [status : {"none", "ACTIVE", "ROTATION_PENDING", "REVOKED"}, secret : Nat,
            successor : ApiKeys \cup {NoKey}, grace : BOOLEAN, root : ApiKeys \cup {NoKey}]
WorkRows == [op : {"idle", "rotate_key", "rotate_secret", "revoke"},
             key : ApiKeys \cup {NoKey}, read : KeyRows]

(* A key that exists descends from a key that exists; one that was replaced  *)
(* names a key of the same descent; and the merchant holds its secret.       *)
KeyOK(k) ==
    /\ (key[k].status = "none") <=> (key[k].root = NoKey)
    /\ key[k].root # NoKey => key[key[k].root].status # "none"
    /\ key[k].status = "ROTATION_PENDING" =>
          key[k].successor \in ApiKeys /\ key[key[k].successor].root = key[k].root
    /\ keyring[k] = key[k].secret

OneActivePerRoot ==
    \A j, k \in ApiKeys : key[j].status = "ACTIVE" /\ key[k].status = "ACTIVE"
                             /\ key[j].root = key[k].root => j = k

KeysType ==
    /\ key \in [ApiKeys -> KeyRows] /\ keyring \in [ApiKeys -> Nat] /\ secrets \in Nat
    /\ work \in [GatewayWorkers -> WorkRows]

KeysInv ==
    /\ KeysType /\ OneActivePerRoot
    /\ \A k \in ApiKeys : KeyOK(k)
    /\ \A w \in GatewayWorkers : work[w].op # "idle" =>
          work[w].key \in ApiKeys /\ key[work[w].key].status # "none"

(* A code that opened a session is not enrolled any more.                    *)
CodesInv ==
    /\ enrolled \in SUBSET Codes
    /\ session \in [Sessions -> [status : {"none", "ACTIVE", "TERMINATED"},
                                 by : Codes \cup {"totp", "none"}]]
    /\ \A c \in enrolled : \A s \in Sessions : session[s].by # c
    /\ \A s, t \in Sessions : session[s].by \in Codes /\ session[s].by = session[t].by => s = t
    /\ \A s \in Sessions : session[s].status = "none" => session[s].by = "none"

LEMMA CredentialsInitially == KInit => KeysInv /\ CodesInv
  <1> SUFFICES ASSUME KInit PROVE KeysInv /\ CodesInv
    OBVIOUS
  <1>1. KeysType
    BY DEF KInit, KeysType, KeyRows, WorkRows, NoRecord, Idle
  <1>2. OneActivePerRoot /\ \A k \in ApiKeys : KeyOK(k)
    BY DEF KInit, OneActivePerRoot, KeyOK, NoRecord
  <1>3. \A w \in GatewayWorkers : work[w].op = "idle"
    BY DEF KInit, Idle
  <1>4. CodesInv
    BY CredentialsAssumption DEF KInit, CodesInv, NoSession
  <1> QED
    BY <1>1, <1>2, <1>3, <1>4 DEF KeysInv

(* The keys stay and a worker picks one that exists, or is done.             *)
LEMMA WorkerMoves ==
    ASSUME KeysInv, NEW w \in GatewayWorkers, NEW item \in WorkRows,
           item.op # "idle" => item.key \in ApiKeys /\ key[item.key].status # "none",
           work' = [work EXCEPT ![w] = item], UNCHANGED <<key, secrets, keyring>>
    PROVE  KeysInv'
  <1>1. /\ work' \in [GatewayWorkers -> WorkRows] /\ work'[w] = item
        /\ \A v \in GatewayWorkers \ {w} : work'[v] = work[v]
    BY DEF KeysInv, KeysType
  <1>2. KeysType' /\ OneActivePerRoot' /\ \A k \in ApiKeys : KeyOK(k)'
    BY <1>1 DEF KeysInv, KeysType, OneActivePerRoot, KeyOK
  <1> QED
    BY <1>1, <1>2 DEF KeysInv

(* Keys change so that none ceases to exist or changes its root.             *)
LEMMA KeysMove ==
    ASSUME KeysInv, KeysType', OneActivePerRoot', \A k \in ApiKeys : KeyOK(k)',
           \A k \in ApiKeys : key[k].status # "none" => key'[k].status # "none",
           \/ UNCHANGED work
           \/ \E w \in GatewayWorkers : Done(w)
    PROVE  KeysInv'
  <1>1. \A v \in GatewayWorkers : work'[v] = work[v] \/ work'[v].op = "idle"
    BY DEF KeysInv, KeysType, Done, Idle
  <1> QED
    BY <1>1 DEF KeysInv

(* One key changes in a way that is not about the others.                    *)
LEMMA OneKeyMoves ==
    ASSUME KeysInv, NEW k \in ApiKeys, NEW record \in KeyRows, NEW secret \in Nat, secrets' \in Nat,
           key' = [key EXCEPT ![k] = record], keyring' = [keyring EXCEPT ![k] = secret],
           secret = record.secret, record.root = key[k].root, key[k].status # "none",
           record.status \in {key[k].status, "REVOKED"},
           record.status = "ROTATION_PENDING" => record.successor = key[k].successor,
           \/ UNCHANGED work
           \/ \E w \in GatewayWorkers : Done(w)
    PROVE  KeysInv'
  <1>0. Idle \in WorkRows
    BY DEF Idle, WorkRows, KeyRows, NoRecord
  <1>1. /\ key'[k] = record /\ keyring'[k] = secret
        /\ \A j \in ApiKeys \ {k} : key'[j] = key[j] /\ keyring'[j] = keyring[j]
    BY DEF KeysInv, KeysType
  <1>2. KeysType'
    BY <1>0 DEF KeysInv, KeysType, Done
  <1>3. \A j \in ApiKeys : /\ key'[j].root = key[j].root
                           /\ key'[j].status \in {key[j].status, "REVOKED"}
                           /\ (key'[j].status = "none") <=> (key[j].status = "none")
                           /\ key'[j].status = "ROTATION_PENDING" =>
                                 key'[j].successor = key[j].successor
                           /\ keyring'[j] = key'[j].secret
    BY <1>1 DEF KeysInv, KeyOK
  <1>4. OneActivePerRoot'
    BY <1>3 DEF KeysInv, OneActivePerRoot
  <1>5. ASSUME NEW j \in ApiKeys PROVE KeyOK(j)'
    <2>1. KeyOK(j) /\ key[j] \in KeyRows
      BY DEF KeysInv, KeysType
    <2>2. key[j].root # NoKey => key[j].root \in ApiKeys
      BY <2>1 DEF KeyRows
    <2>3. (key'[j].status = "none") <=> (key'[j].root = NoKey)
      BY <1>3, <2>1 DEF KeyOK
    <2>4. key'[j].root # NoKey => key'[key'[j].root].status # "none"
      BY <1>3, <2>1, <2>2 DEF KeyOK
    <2>5. key'[j].status = "ROTATION_PENDING" =>
             key'[j].successor \in ApiKeys /\ key'[key'[j].successor].root = key'[j].root
      BY <1>3, <2>1 DEF KeyOK
    <2> QED
      BY <1>3, <2>3, <2>4, <2>5 DEF KeyOK
  <1> QED
    BY <1>2, <1>3, <1>4, <1>5, KeysMove

(* What happens to the other keys when new becomes the active key of a root. *)
StepsBack(new, root) ==
    \A j \in ApiKeys \ {new} :
       /\ key'[j].root = key[j].root /\ key'[j].secret = key[j].secret
       /\ key[j].root = root => key'[j].status # "ACTIVE"
       /\ \/ key'[j] = key[j]
          \/ /\ key[j].status = "ACTIVE" /\ key[j].root = root
             /\ key'[j].status = "ROTATION_PENDING" /\ key'[j].successor = new

Appears(new, root) ==
    /\ key'[new].status = "ACTIVE" /\ key'[new].root = root /\ key'[new].secret = secrets + 1
    /\ keyring' = [keyring EXCEPT ![new] = secrets + 1] /\ secrets' = secrets + 1

WorkGoesOn == UNCHANGED work \/ \E w \in GatewayWorkers : Done(w)

(* A key appears under a root, and the active key it replaces steps back.    *)
LEMMA KeyAppears ==
    ASSUME KeysInv, NEW new \in ApiKeys, key[new].status = "none", NEW root \in ApiKeys,
           root = new \/ key[root].status # "none", key' \in [ApiKeys -> KeyRows],
           Appears(new, root), StepsBack(new, root), WorkGoesOn
    PROVE  KeysInv'
  <1>0. Idle \in WorkRows
    BY DEF Idle, WorkRows, KeyRows, NoRecord
  <1>1. /\ key'[new].status = "ACTIVE" /\ key'[new].root = root /\ key'[new].secret = secrets + 1
        /\ secrets \in Nat
    BY DEF Appears, KeysInv, KeysType
  <1>2. /\ keyring' \in [ApiKeys -> Nat] /\ keyring'[new] = secrets + 1
        /\ \A j \in ApiKeys \ {new} : keyring'[j] = keyring[j]
    <2>1. secrets + 1 \in Nat
      BY <1>1
    <2> QED
      BY <2>1 DEF Appears, KeysInv, KeysType
  <1>3. KeysType'
    <2>1. secrets' \in Nat
      BY <1>1 DEF Appears
    <2> QED
      BY <1>0, <1>2, <2>1 DEF KeysInv, KeysType, WorkGoesOn, Done
  <1>4. OneActivePerRoot'
    <2> SUFFICES ASSUME NEW j \in ApiKeys, NEW k \in ApiKeys, key'[j].status = "ACTIVE",
                        key'[k].status = "ACTIVE", key'[j].root = key'[k].root
                 PROVE  j = k
      BY DEF OneActivePerRoot
    <2>1. \A i \in ApiKeys \ {new} : key'[i].status = "ACTIVE" =>
             key[i].status = "ACTIVE" /\ key'[i].root = key[i].root /\ key[i].root # root
      BY DEF StepsBack
    <2>2. \A i, l \in ApiKeys : key[i].status = "ACTIVE" /\ key[l].status = "ACTIVE"
                                 /\ key[i].root = key[l].root => i = l
      BY DEF KeysInv, OneActivePerRoot
    <2> QED
      BY <1>1, <2>1, <2>2
  <1>5. \A j \in ApiKeys : key[j].status # "none" => key'[j].status # "none"
    <2>1. \A j \in ApiKeys \ {new} : key'[j].status \in {key[j].status, "ROTATION_PENDING"}
      BY DEF StepsBack
    <2> QED
      BY <2>1
  <1>6. ASSUME NEW j \in ApiKeys \ {new} PROVE KeyOK(j)'
    <2>1. KeyOK(j) /\ key[j] \in KeyRows /\ (key[j].root # NoKey => key[j].root \in ApiKeys)
      BY DEF KeysInv, KeysType, KeyRows
    <2>2. keyring'[j] = key'[j].secret
      BY <1>2, <2>1 DEF KeyOK, StepsBack
    <2>3. key[j].root # NoKey => key'[key[j].root].status # "none"
      BY <1>5, <2>1 DEF KeyOK
    <2>4. CASE key'[j] = key[j]
      <3>1. ASSUME key[j].status = "ROTATION_PENDING"
            PROVE  key[j].successor \in ApiKeys /\ key'[key[j].successor].root = key[j].root
        <4>1. /\ key[j].successor \in ApiKeys /\ key[key[j].successor].root = key[j].root
              /\ key[j].root # NoKey
          BY <2>1, <3>1 DEF KeyOK
        <4>2. key[new].root = NoKey
          BY DEF KeysInv, KeyOK
        <4> QED
          BY <4>1, <4>2 DEF StepsBack
      <3> QED
        BY <2>1, <2>2, <2>3, <2>4, <3>1 DEF KeyOK, StepsBack
    <2>5. CASE key'[j] # key[j]
      <3>1. /\ key[j].status = "ACTIVE" /\ key'[j].status = "ROTATION_PENDING"
            /\ key'[j].successor = new /\ key'[j].root = root /\ root # NoKey /\ key[j].root = root
        BY <2>5, CredentialsAssumption DEF StepsBack
      <3> QED
        BY <1>1, <2>2, <2>3, <3>1 DEF KeyOK
    <2> QED
      BY <2>4, <2>5
  <1>7. KeyOK(new)'
    <2>1. key'[root].status # "none"
      BY <1>1, <1>5
    <2> QED
      BY <1>1, <1>2, <2>1, CredentialsAssumption DEF KeyOK
  <1> QED
    BY <1>3, <1>4, <1>5, <1>6, <1>7, KeysMove DEF WorkGoesOn

LEMMA KeysStep == KeysInv /\ [KeyNext \/ OperatorNext]_access => KeysInv'
  <1> SUFFICES ASSUME KeysInv, [KeyNext \/ OperatorNext]_access PROVE KeysInv'
    OBVIOUS
  <1>0. /\ KeysType /\ \A k \in ApiKeys : key[k] \in KeyRows /\ KeyOK(k)
        /\ \A w \in GatewayWorkers : work[w] \in WorkRows
        /\ secrets \in Nat /\ secrets + 1 \in Nat
    BY DEF KeysInv, KeysType
  <1>a. /\ NoRecord.secret = 0 /\ NoRecord.status = "none" /\ NoRecord.successor = NoKey
        /\ NoRecord \in KeyRows /\ Idle \in WorkRows /\ Idle.op = "idle"
    BY DEF NoRecord, KeyRows, Idle, WorkRows
  <1>1. ASSUME NEW k \in ApiKeys, CreateKey(k) PROVE KeysInv'
    <2> DEFINE record == [NoRecord EXCEPT !.status = "ACTIVE", !.secret = secrets + 1, !.root = k]
    <2>1. /\ record \in KeyRows /\ record.status = "ACTIVE" /\ record.root = k
          /\ record.secret = secrets + 1
      BY <1>0 DEF NoRecord, KeyRows
    <2>2. /\ key[k].status = "none" /\ key' = [key EXCEPT ![k] = record] /\ secrets' = secrets + 1
          /\ keyring' = [keyring EXCEPT ![k] = secrets + 1] /\ UNCHANGED work
      BY <1>1 DEF CreateKey, NewSecret, InsertRecord
    <2> HIDE DEF record
    <2>3. /\ key' \in [ApiKeys -> KeyRows] /\ key'[k] = record
          /\ \A j \in ApiKeys \ {k} : key'[j] = key[j]
      BY <1>0, <2>1, <2>2 DEF KeysType
    <2>4. \A j \in ApiKeys : key[j].root # k
      BY <1>0, <2>2, CredentialsAssumption DEF KeyOK
    <2>5. Appears(k, k) /\ StepsBack(k, k) /\ WorkGoesOn
      BY <2>1, <2>2, <2>3, <2>4 DEF Appears, StepsBack, WorkGoesOn
    <2> QED
      BY <2>2, <2>3, <2>5, KeyAppears
  <1>2. ASSUME NEW w \in GatewayWorkers, NEW new \in ApiKeys, RotateKeyAtomic(w, new) PROVE KeysInv'
    <2>1. PICK k \in ApiKeys : /\ k = work[w].key /\ key[k].status = "ACTIVE" /\ k # new
                               /\ key[new].status = "none"
      BY <1>2 DEF RotateKeyAtomic, KeysInv
    <2> DEFINE record == [NoRecord EXCEPT !.status = "ACTIVE", !.secret = secrets + 1,
                                          !.root = key[k].root]
               old == [key[k] EXCEPT !.status = "ROTATION_PENDING", !.successor = new,
                                     !.grace = TRUE]
    <2>2. key[k].root \in ApiKeys /\ key[key[k].root].status # "none"
      BY <1>0, <2>1 DEF KeyOK, KeyRows
    <2>3. /\ record \in KeyRows /\ record.status = "ACTIVE" /\ record.root = key[k].root
          /\ record.secret = secrets + 1
      BY <1>0, <2>2 DEF NoRecord, KeyRows
    <2>4. /\ old \in KeyRows /\ old.status = "ROTATION_PENDING" /\ old.successor = new
          /\ old.root = key[k].root /\ old.secret = key[k].secret
      <3>1. ASSUME NEW r \in KeyRows
            PROVE  LET o == [r EXCEPT !.status = "ROTATION_PENDING", !.successor = new, !.grace = TRUE]
                   IN  /\ o \in KeyRows /\ o.status = "ROTATION_PENDING" /\ o.successor = new
                       /\ o.root = r.root /\ o.secret = r.secret
        BY DEF KeyRows
      <3>2. key[k] \in KeyRows
        BY <1>0
      <3> QED
        BY <3>1, <3>2
    <2>5. /\ key' = [key EXCEPT ![new] = record, ![k] = old] /\ secrets' = secrets + 1
          /\ keyring' = [keyring EXCEPT ![new] = secrets + 1] /\ Done(w)
      BY <1>0, <1>2, <2>1 DEF RotateKeyAtomic, NewSecret, InsertRecord, KeysType
    <2> HIDE DEF record, old
    <2>6. /\ key' \in [ApiKeys -> KeyRows] /\ key'[new] = record /\ key'[k] = old
          /\ \A j \in ApiKeys \ {k, new} : key'[j] = key[j]
      BY <1>0, <2>1, <2>3, <2>4, <2>5 DEF KeysType
    <2>7. \A j \in ApiKeys : key[j].status = "ACTIVE" /\ key[j].root = key[k].root => j = k
      BY <2>1 DEF KeysInv, OneActivePerRoot
    <2>8. StepsBack(new, key[k].root)
      BY <2>1, <2>4, <2>6, <2>7 DEF StepsBack
    <2>9. Appears(new, key[k].root) /\ WorkGoesOn
      BY <2>3, <2>5, <2>6 DEF Appears, WorkGoesOn
    <2> QED
      BY <2>1, <2>2, <2>6, <2>8, <2>9, KeyAppears
  <1>3. ASSUME NEW w \in GatewayWorkers, RotateSecretAtomic(w) PROVE KeysInv'
    <2>1. PICK k \in ApiKeys : k = work[w].key /\ key[k].status # "none"
      BY <1>3 DEF RotateSecretAtomic, KeysInv
    <2>2. CASE key[k].status = "ACTIVE" /\ key[k].successor = NoKey
      <3> DEFINE secret == secrets + 1
                 record == [key[k] EXCEPT !.secret = secret]
      <3>1. secret \in Nat /\ secrets' \in Nat /\ key' = [key EXCEPT ![k] = record]
            /\ keyring' = [keyring EXCEPT ![k] = secret] /\ Done(w)
        BY <1>0, <1>3, <2>1, <2>2 DEF RotateSecretAtomic, NewSecret
      <3> HIDE DEF secret
      <3>2. /\ record \in KeyRows /\ record.secret = secret /\ record.root = key[k].root
            /\ record.status = key[k].status /\ record.successor = key[k].successor
        BY <1>0, <3>1 DEF KeyRows
      <3> HIDE DEF record
      <3> QED
        BY <2>1, <3>1, <3>2, OneKeyMoves
    <2>3. CASE ~(key[k].status = "ACTIVE" /\ key[k].successor = NoKey)
      BY <1>a, <1>3, <2>1, <2>3, WorkerMoves DEF RotateSecretAtomic, Done
    <2> QED
      BY <2>2, <2>3
  <1>4. ASSUME NEW w \in GatewayWorkers, SaveRevoked(w) PROVE KeysInv'
    <2>1. PICK k \in ApiKeys : k = work[w].key /\ key[k].status # "none"
      BY <1>4 DEF SaveRevoked, KeysInv
    <2>2. /\ work[w].read.successor \in ApiKeys \cup {NoKey} /\ work[w].read.grace \in BOOLEAN
      BY <1>0 DEF WorkRows, KeyRows
    <2> DEFINE record == [key[k] EXCEPT !.status = "REVOKED", !.successor = work[w].read.successor,
                                        !.grace = work[w].read.grace]
    <2>3. /\ record \in KeyRows /\ record.secret = key[k].secret /\ record.root = key[k].root
          /\ record.status = "REVOKED"
      BY <1>0, <2>2 DEF KeyRows
    <2>4. /\ key' = [key EXCEPT ![k] = record] /\ keyring' = [keyring EXCEPT ![k] = keyring[k]]
          /\ secrets' \in Nat /\ Done(w)
      BY <1>0, <1>4, <2>1 DEF SaveRevoked, KeysType
    <2>5. keyring[k] \in Nat /\ keyring[k] = record.secret
      BY <1>0, <2>3 DEF KeyOK, KeysType
    <2> HIDE DEF record
    <2> QED
      BY <2>1, <2>3, <2>4, <2>5, OneKeyMoves
  <1>5. ASSUME NEW k \in ApiKeys, RotationGraceEnds(k) PROVE KeysInv'
    <2> DEFINE record == [key[k] EXCEPT !.grace = FALSE]
    <2>1. /\ record \in KeyRows /\ record.secret = key[k].secret /\ record.root = key[k].root
          /\ record.status = key[k].status /\ record.successor = key[k].successor
      BY <1>0 DEF KeyRows
    <2>2. /\ key' = [key EXCEPT ![k] = record] /\ keyring' = [keyring EXCEPT ![k] = keyring[k]]
          /\ secrets' \in Nat /\ UNCHANGED work
      BY <1>0, <1>5 DEF RotationGraceEnds, KeysType
    <2>3. keyring[k] \in Nat /\ keyring[k] = record.secret
      BY <1>0, <2>1 DEF KeyOK, KeysType
    <2> HIDE DEF record
    <2>4. CASE key[k].status # "none"
      BY <2>1, <2>2, <2>3, <2>4, OneKeyMoves
    <2>5. CASE key[k].status = "none"
      <3>1. /\ key'[k] = record /\ \A j \in ApiKeys \ {k} : key'[j] = key[j]
            /\ keyring' = keyring
        BY <1>0, <2>2 DEF KeysType
      <3>2. \A j \in ApiKeys : /\ key'[j].root = key[j].root /\ key'[j].status = key[j].status
                               /\ key'[j].successor = key[j].successor
                               /\ key'[j].secret = key[j].secret
        BY <2>1, <3>1
      <3>3. OneActivePerRoot'
        BY <3>2 DEF KeysInv, OneActivePerRoot
      <3>4. ASSUME NEW j \in ApiKeys PROVE KeyOK(j)'
        <4>1. KeyOK(j) /\ (key[j].root # NoKey => key[j].root \in ApiKeys)
          BY <1>0 DEF KeyRows
        <4> QED
          BY <3>1, <3>2, <4>1 DEF KeyOK
      <3>5. KeysType'
        BY <1>0, <2>1, <2>2 DEF KeysType
      <3> QED
        BY <2>2, <3>2, <3>3, <3>4, <3>5, KeysMove
    <2> QED
      BY <2>4, <2>5
  <1>6. ASSUME NEW w \in GatewayWorkers, NEW k \in ApiKeys,
               NEW op \in {"rotate_key", "rotate_secret", "revoke"}, Reads(w, k, op)
        PROVE  KeysInv'
    <2> DEFINE item == [op |-> op, key |-> k, read |-> key[k]]
    <2>1. item \in WorkRows /\ item.key = k /\ key[k].status # "none"
      BY <1>0, <1>6 DEF WorkRows, Reads
    <2>2. work' = [work EXCEPT ![w] = item] /\ UNCHANGED <<key, secrets, keyring>>
      BY <1>6 DEF Reads
    <2> HIDE DEF item
    <2> QED
      BY <2>1, <2>2, WorkerMoves
  <1>7. ASSUME NEW w \in GatewayWorkers, RotateKeyRefused(w) PROVE KeysInv'
    BY <1>a, <1>7, WorkerMoves DEF RotateKeyRefused, Done
  <1>8. CASE OperatorNext \/ UNCHANGED access
    <2>1. UNCHANGED <<key, work, secrets, keyring>>
      BY <1>8 DEF OperatorNext, EnrollTotp, RecordFailure, WindowPasses, LockPasses, VerifyTotp,
                  AuthenticateSession, Logout, access
    <2> QED
      BY <2>1 DEF KeysInv, KeysType, KeyOK, OneActivePerRoot
  <1>9. CASE KeyNext
    BY <1>9, <1>1, <1>2, <1>3, <1>4, <1>5, <1>6, <1>7
      DEF KeyNext, ReadRotateKey, ReadRotateSecret, ReadRevoke
  <1> QED
    BY <1>8, <1>9

LEMMA KeysLeaveCodes == KeyNext => UNCHANGED <<enrolled, session>>
  <1>1. ASSUME NEW k \in ApiKeys, CreateKey(k) \/ RotationGraceEnds(k)
        PROVE  UNCHANGED <<enrolled, session>>
    BY <1>1 DEF CreateKey, RotationGraceEnds
  <1>2. ASSUME NEW k \in ApiKeys, NEW w \in GatewayWorkers,
               ReadRotateKey(w, k) \/ ReadRotateSecret(w, k) \/ ReadRevoke(w, k)
        PROVE  UNCHANGED <<enrolled, session>>
    BY <1>2 DEF ReadRotateKey, ReadRotateSecret, ReadRevoke, Reads
  <1>3. ASSUME NEW k \in ApiKeys, NEW w \in GatewayWorkers, RotateKeyAtomic(w, k)
        PROVE  UNCHANGED <<enrolled, session>>
    BY <1>3 DEF RotateKeyAtomic
  <1>4. ASSUME NEW w \in GatewayWorkers, RotateKeyRefused(w) \/ RotateSecretAtomic(w) \/ SaveRevoked(w)
        PROVE  UNCHANGED <<enrolled, session>>
    BY <1>4 DEF RotateKeyRefused, RotateSecretAtomic, SaveRevoked
  <1> QED
    BY <1>1, <1>2, <1>3, <1>4 DEF KeyNext

LEMMA CodesStep == CodesInv /\ [KeyNext \/ OperatorNext]_access => CodesInv'
  <1> SUFFICES ASSUME CodesInv, [KeyNext \/ OperatorNext]_access PROVE CodesInv'
    OBVIOUS
  <1>1. CASE KeyNext \/ UNCHANGED access \/ RecordFailure \/ WindowPasses \/ LockPasses
    <2>1. CASE KeyNext
      BY <2>1, KeysLeaveCodes DEF CodesInv
    <2>2. CASE UNCHANGED access \/ RecordFailure \/ WindowPasses \/ LockPasses
      <3>1. UNCHANGED <<enrolled, session>>
        BY <2>2 DEF RecordFailure, WindowPasses, LockPasses, access
      <3> QED  BY <3>1 DEF CodesInv
    <2> QED
      BY <1>1, <2>1, <2>2
  <1>2. CASE EnrollTotp
    BY <1>2, CredentialsAssumption DEF EnrollTotp, SaveEnrollment, CodesInv, NoSession
  <1>3. ASSUME NEW s \in Sessions, NEW code \in Codes \cup {"totp"}, NEW crashed \in BOOLEAN,
               VerifyTotp(s, code, crashed)
        PROVE  CodesInv'
    <2>1. enrolled' = enrolled \ {code} /\ code \in enrolled \cup {"totp"}
      BY <1>3 DEF VerifyTotp, SaveEnrollment
    <2>2. CASE crashed
      <3>1. session' = session
        BY <1>3, <2>2 DEF VerifyTotp
      <3> QED
        BY <2>1, <3>1 DEF CodesInv
    <2>3. CASE ~crashed
      <3>1. session' = [session EXCEPT ![s] = [status |-> "ACTIVE", by |-> code]]
        BY <1>3, <2>3 DEF VerifyTotp, InsertSession
      <3>2. /\ session' \in [Sessions -> [status : {"none", "ACTIVE", "TERMINATED"},
                                          by : Codes \cup {"totp", "none"}]]
            /\ session'[s].by = code /\ session'[s].status = "ACTIVE"
            /\ \A t \in Sessions \ {s} : session'[t] = session[t]
        BY <3>1 DEF CodesInv
      <3>3. code \in Codes => \A t \in Sessions : session[t].by # code
        BY <2>1, CredentialsAssumption DEF CodesInv
      <3>4. \A c \in enrolled' : \A t \in Sessions : session'[t].by # c
        BY <2>1, <3>2 DEF CodesInv
      <3>5. \A t, u \in Sessions : session'[t].by \in Codes /\ session'[t].by = session'[u].by => t = u
        BY <3>2, <3>3 DEF CodesInv
      <3> QED
        BY <2>1, <3>2, <3>4, <3>5 DEF CodesInv
    <2> QED
      BY <2>2, <2>3
  <1>4. ASSUME NEW s \in Sessions, AuthenticateSession(s) \/ Logout(s) PROVE CodesInv'
    <2>1. /\ session' = [session EXCEPT ![s].status = "TERMINATED"] /\ enrolled' = enrolled
      BY <1>4 DEF AuthenticateSession, Logout, SaveSession
    <2>2. /\ session' \in [Sessions -> [status : {"none", "ACTIVE", "TERMINATED"},
                                        by : Codes \cup {"totp", "none"}]]
          /\ session'[s].status = "TERMINATED"
          /\ \A t \in Sessions : session'[t].by = session[t].by
          /\ \A t \in Sessions \ {s} : session'[t] = session[t]
      BY <2>1 DEF CodesInv
    <2> QED
      BY <2>1, <2>2 DEF CodesInv
  <1> QED
    BY <1>1, <1>2, <1>3, <1>4 DEF OperatorNext

(* For every set of keys, gateway workers, backup codes and sessions, and    *)
(* every limit on failures: rotations, in-place rotations and revocations    *)
(* that overlap leave one active key per descent, with the secret its        *)
(* merchant was given, and a backup code opens one session.                  *)
THEOREM CredentialsAreExact == KSpec => []CredentialsStayExact
  <1>1. KeysInv /\ CodesInv => CredentialsStayExact
    <2> SUFFICES ASSUME KeysInv, CodesInv PROVE CredentialsStayExact
      OBVIOUS
    <2>1. \A k, l \in ApiKeys :
             key[k].status = "ACTIVE" /\ key[l].status = "ACTIVE" /\ key[k].root = key[l].root => k = l
      BY DEF KeysInv, OneActivePerRoot
    <2>2. \A k \in ApiKeys : /\ Usable(k) => Authenticates(keyring[k], k)
                             /\ key[k].status = "ROTATION_PENDING" =>
                                   key[key[k].successor].root = key[k].root
      BY DEF KeysInv, KeyOK, Authenticates
    <2>3. \A c \in Codes : \A s, t \in Sessions : session[s].by = c /\ session[t].by = c => s = t
      BY DEF CodesInv
    <2>4. \A c \in Codes : c \in enrolled => \A s \in Sessions : session[s].by # c
      BY DEF CodesInv
    <2> QED
      BY <2>1, <2>2, <2>3, <2>4 DEF CredentialsStayExact
  <1> QED
    BY CredentialsInitially, KeysStep, CodesStep, <1>1, PTL DEF KSpec
-----------------------------------------------------------------------------
(* The runner of a connector and its circuit breaker.                        *)

BreakerRows == [state : {"CLOSED", "OPEN", "HALF_OPEN"}, fails : Nat, succ : Nat, probes : Nat]
Places == {"idle", "dispatch", "sleep", "call", "rail", "reverse", "asking", "reversing", "polling"}
Replies == ReplaySafe \cup {"none", "failed", "not_received", "transport", "timed_out"}
CallRows == [op : {"none", "submit", "resubmit", "settle", "query", "health"}, at : Places,
             polls : Nat, tries : Nat, reached : BOOLEAN]

Rests(c) == c.at = "idle"

(* Probes and successes stay within the quota.                               *)
BreakerOK(b) == b \in BreakerRows /\ b.probes <= Quota /\ b.succ < Quota

(* Only a submitting call is dispatched, and only settle_after_timeout       *)
(* reverses.                                                                 *)
CallOK(c) ==
    /\ c \in CallRows
    /\ c.at \in {"dispatch", "rail"} => c.op \in Submitting
    /\ c.at = "reverse" => c.op = "settle"

(* One submission of the ref is under way at a time.                         *)
Submits(c) == c.op \in Submitting /\ ~Rests(c)
OneSubmits == \A t, u \in Tasks : Submits(task[t]) /\ Submits(task[u]) => t = u

(* Why a second submit does not go out: an answer that counts is stored, and *)
(* after a timeout nobody is about to dispatch while the last row says so.   *)
DoubtOK ==
    /\ doubt = "answered" => recorded # "none"
    /\ doubt = "timed_out" => /\ last = "timed_out"
                              /\ \A t \in Tasks : task[t].at \notin {"dispatch", "rail"}

RunnerInv ==
    /\ BreakerOK(brk)
    /\ task \in [Tasks -> CallRows] /\ \A t \in Tasks : CallOK(task[t])
    /\ doubt \in {"none", "answered", "timed_out", "crash"} /\ recorded \in ReplaySafe \cup {"none"}
    /\ OneSubmits /\ DoubtOK /\ AskBeforeResubmit

LEMMA RunnerInitially == CInit => RunnerInv
  <1> SUFFICES ASSUME CInit PROVE RunnerInv
    OBVIOUS
  <1>1. NoTask \in CallRows /\ NoTask.at = "idle"
    BY DEF NoTask, NewCall, CallRows, Places
  <1>2. BreakerOK(brk)
    BY RunnerAssumption DEF CInit, BreakerOK, BreakerRows
  <1>3. task \in [Tasks -> CallRows] /\ \A t \in Tasks : CallOK(task[t]) /\ Rests(task[t])
    BY <1>1 DEF CInit, CallOK, Rests
  <1>4. doubt = "none" /\ blind = {} /\ recorded = "none"
    BY DEF CInit
  <1>5. OneSubmits
    BY <1>3 DEF OneSubmits, Submits
  <1>6. DoubtOK
    BY <1>4 DEF DoubtOK
  <1>7. AskBeforeResubmit
    BY <1>4 DEF AskBeforeResubmit
  <1> QED
    BY <1>2, <1>3, <1>4, <1>5, <1>6, <1>7 DEF RunnerInv

(* What the breaker's transitions keep, and how it closes.                   *)
LEMMA BreakerMoves ==
    ASSUME NEW b, BreakerOK(b)
    PROVE  /\ BreakerOK(ToHalfOpen(b)) /\ ToHalfOpen(b).state = "HALF_OPEN"
           /\ \A cooled \in BOOLEAN :
                 /\ BreakerOK(MaybeCooldown(b, cooled))
                 /\ MaybeCooldown(b, cooled).state = "CLOSED" => b.state = "CLOSED"
           /\ \A kind : BreakerOK(AfterAdmit(b, kind)) /\ AfterAdmit(b, kind).state = b.state
  <1>1. BreakerOK(ToHalfOpen(b)) /\ ToHalfOpen(b).state = "HALF_OPEN"
    BY RunnerAssumption DEF BreakerOK, BreakerRows, ToHalfOpen
  <1>2. ASSUME NEW cooled \in BOOLEAN
        PROVE  /\ BreakerOK(MaybeCooldown(b, cooled))
               /\ MaybeCooldown(b, cooled).state = "CLOSED" => b.state = "CLOSED"
    BY <1>1 DEF MaybeCooldown
  <1>3. ASSUME NEW kind PROVE BreakerOK(AfterAdmit(b, kind)) /\ AfterAdmit(b, kind).state = b.state
    BY RunnerAssumption DEF BreakerOK, BreakerRows, AfterAdmit
  <1> QED  BY <1>1, <1>2, <1>3

LEMMA ObserveMoves ==
    ASSUME NEW b, BreakerOK(b), NEW answer, NEW when
    PROVE  /\ BreakerOK(Observe(b, answer, when))
           /\ b.state # "CLOSED" /\ Observe(b, answer, when).state = "CLOSED" =>
                 b.state = "HALF_OPEN" /\ b.succ = Quota - 1
  <1>0. b \in BreakerRows /\ b.probes <= Quota /\ b.succ < Quota /\ Quota \in Nat \ {0}
    BY RunnerAssumption DEF BreakerOK
  <1>1. BreakerOK(ToOpen(b)) /\ ToOpen(b).state = "OPEN"
    BY <1>0 DEF BreakerOK, BreakerRows, ToOpen
  <1>2. BreakerOK(ToClosed)
    BY <1>0 DEF BreakerOK, BreakerRows, ToClosed
  <1>3. ASSUME NEW f \in BOOLEAN, b.state = "HALF_OPEN"
        PROVE  /\ BreakerOK(ObserveHalfOpen(b, f))
               /\ ObserveHalfOpen(b, f).state = "CLOSED" => b.succ = Quota - 1
    <2>1. CASE f
      BY <1>1, <2>1 DEF ObserveHalfOpen
    <2>2. CASE ~f /\ b.succ + 1 >= Quota
      BY <1>0, <1>2, <2>2 DEF ObserveHalfOpen, BreakerRows
    <2>3. CASE ~f /\ ~(b.succ + 1 >= Quota)
      BY <1>0, <1>3, <2>3 DEF ObserveHalfOpen, BreakerOK, BreakerRows
    <2> QED  BY <2>1, <2>2, <2>3
  <1>4. ASSUME NEW f \in BOOLEAN, b.state = "CLOSED"
        PROVE  BreakerOK(ObserveClosed(b, f, when))
    <2> DEFINE n == IF b.fails = 0 \/ when = "lapsed" THEN 1 ELSE b.fails + 1
               c == [b EXCEPT !.fails = n]
    <2>1. BreakerOK(c)
      BY <1>0 DEF BreakerOK, BreakerRows
    <2>2. BreakerOK(ToOpen(c))
      BY <1>0, <2>1 DEF BreakerOK, BreakerRows, ToOpen
    <2>3. BreakerOK([b EXCEPT !.fails = 0])
      BY <1>0 DEF BreakerOK, BreakerRows
    <2> QED  BY <2>1, <2>2, <2>3 DEF ObserveClosed
  <1>5. Failure(answer) \in BOOLEAN
    BY DEF Failure
  <1>6. b.state \in {"CLOSED", "OPEN", "HALF_OPEN"}
    BY <1>0 DEF BreakerRows
  <1>7. CASE b.state = "OPEN" \/ when = "unread"
    <2>1. Observe(b, answer, when) = b
      BY <1>7 DEF Observe
    <2> QED  BY <2>1
  <1>8. CASE b.state = "HALF_OPEN" /\ when # "unread"
    <2>1. Observe(b, answer, when) = ObserveHalfOpen(b, Failure(answer))
      BY <1>8 DEF Observe
    <2> QED  BY <2>1, <1>3, <1>5, <1>8
  <1>9. CASE b.state = "CLOSED" /\ when # "unread"
    <2>1. Observe(b, answer, when) = ObserveClosed(b, Failure(answer), when)
      BY <1>9 DEF Observe
    <2> QED  BY <2>1, <1>4, <1>5, <1>9
  <1> QED  BY <1>6, <1>7, <1>8, <1>9

(* One call moves: what it may be afterwards.                                *)
LEMMA OneMoves ==
    ASSUME RunnerInv, NEW t \in Tasks, task' \in [Tasks -> CallRows],
           \A u \in Tasks : u # t => task'[u] = task[u],
           CallOK(task'[t]),
           Submits(task'[t]) => Submits(task[t]) \/ \A u \in Tasks : ~Submits(task[u])
    PROVE  (\A u \in Tasks : CallOK(task'[u])) /\ OneSubmits'
  <1>1. \A u \in Tasks : CallOK(task'[u])
    BY DEF RunnerInv
  <1>2. OneSubmits'
    <2> SUFFICES ASSUME NEW u \in Tasks, NEW v \in Tasks, Submits(task'[u]), Submits(task'[v])
                 PROVE  u = v
      BY DEF OneSubmits
    <2> QED  BY DEF RunnerInv, OneSubmits
  <1> QED  BY <1>1, <1>2

LEMMA CallFields ==
    ASSUME NEW c \in CallRows, NEW at \in Places
    PROVE  /\ MovedTo(c, at) \in CallRows /\ MovedTo(c, at).at = at
           /\ Rests(MovedTo(c, at)) \/ MovedTo(c, at).op = c.op
  <1>1. CASE at = "idle"
    BY <1>1 DEF MovedTo, NoTask, NewCall, CallRows, Places, Rests
  <1>2. CASE at # "idle"
    BY <1>2 DEF MovedTo, CallRows
  <1> QED  BY <1>1, <1>2

LEMMA CallCounts ==
    ASSUME NEW c \in CallRows
    PROVE  /\ Forwarded(c) \in CallRows /\ Forwarded(c).op = c.op
           /\ Polled(c) \in CallRows /\ Polled(c).op = c.op
           /\ Tried(c) \in CallRows /\ Tried(c).op = c.op
  <1>1. Forwarded(c) \in CallRows /\ Forwarded(c).op = c.op
    BY DEF Forwarded, CallRows
  <1>2. Polled(c) \in CallRows /\ Polled(c).op = c.op
    BY DEF Polled, CallRows
  <1>3. Tried(c) \in CallRows /\ Tried(c).op = c.op
    BY DEF Tried, CallRows
  <1> QED  BY <1>1, <1>2, <1>3

(* A call moves on within its operation.                                     *)
LEMMA CallMoves ==
    ASSUME RunnerInv, NEW t \in Tasks, NEW c \in CallRows, task' = [task EXCEPT ![t] = c],
           ~Rests(task[t]), Rests(c) \/ c.op = task[t].op,
           c.at \in {"dispatch", "rail"} => c.op \in Submitting,
           c.at = "reverse" => c.op = "settle"
    PROVE  /\ task' \in [Tasks -> CallRows] /\ (\A u \in Tasks : CallOK(task'[u])) /\ OneSubmits'
           /\ task'[t] = c /\ \A u \in Tasks : u # t => task'[u] = task[u]
  <1>0. task \in [Tasks -> CallRows]
    BY DEF RunnerInv
  <1>1. task' \in [Tasks -> CallRows] /\ task'[t] = c /\ \A u \in Tasks : u # t => task'[u] = task[u]
    BY <1>0
  <1>2. CallOK(task'[t])
    BY <1>1 DEF CallOK
  <1>3. Submits(task'[t]) => Submits(task[t])
    BY <1>1 DEF Submits
  <1> QED  BY <1>1, <1>2, <1>3, OneMoves

LEMMA StepMoves ==
    ASSUME RunnerInv, NEW t \in Tasks, NEW at, Step(t, at), ~Rests(task[t]),
           at \in {"idle", "asking", "reversing", "polling"}
    PROVE  /\ task' \in [Tasks -> CallRows] /\ (\A u \in Tasks : CallOK(task'[u])) /\ OneSubmits'
           /\ task'[t].at = at /\ \A u \in Tasks : u # t => task'[u] = task[u]
  <1> DEFINE c == MovedTo(task[t], at)
  <1>0. task \in [Tasks -> CallRows] /\ at \in Places
    BY DEF RunnerInv, Places
  <1>1. c \in CallRows /\ c.at = at /\ (Rests(c) \/ c.op = task[t].op)
    BY <1>0, CallFields
  <1>2. task' = [task EXCEPT ![t] = c]
    BY <1>0 DEF Step
  <1> HIDE DEF c
  <1> QED  BY <1>1, <1>2, CallMoves

(* What a call does with an answer: only not_received sends a resubmission   *)
(* on to dispatch.                                                           *)
LEMMA ContinueMoves ==
    ASSUME RunnerInv, NEW t \in Tasks, NEW answer \in Replies, Continue(t, answer), ~Rests(task[t])
    PROVE  /\ task' \in [Tasks -> CallRows] /\ (\A u \in Tasks : CallOK(task'[u])) /\ OneSubmits'
           /\ \/ task'[t].at \in {"sleep", "reverse", "idle"}
              \/ task'[t].at = "dispatch" /\ answer = "not_received"
           /\ \A u \in Tasks : u # t => task'[u] = task[u]
  <1>0. task \in [Tasks -> CallRows] /\ task[t] \in CallRows
    BY DEF RunnerInv
  <1>1. CASE task[t].at \in {"sleep", "polling"}
    <2> DEFINE at == AfterPoll(t, answer)
               c == MovedTo(Polled(task[t]), at)
    <2>1. /\ at \in {"sleep", "reverse", "dispatch", "idle"}
          /\ at = "reverse" => task[t].op = "settle"
          /\ at = "dispatch" => task[t].op = "resubmit" /\ answer = "not_received"
      BY DEF AfterPoll
    <2>2. task' = [task EXCEPT ![t] = c]
      BY <1>1 DEF Continue
    <2> HIDE DEF at
    <2>3. at \in Places
      BY <2>1 DEF Places
    <2>4. c \in CallRows /\ c.at = at /\ (Rests(c) \/ c.op = task[t].op)
      BY <1>0, <2>3, CallFields, CallCounts
    <2> HIDE DEF c
    <2>5. (c.at \in {"dispatch", "rail"} => c.op \in Submitting) /\ (c.at = "reverse" => c.op = "settle")
      BY <2>1, <2>4 DEF Submitting, Rests
    <2>6. /\ task' \in [Tasks -> CallRows] /\ (\A u \in Tasks : CallOK(task'[u])) /\ OneSubmits'
          /\ task'[t] = c /\ \A u \in Tasks : u # t => task'[u] = task[u]
      BY <2>2, <2>4, <2>5, CallMoves
    <2> QED  BY <2>1, <2>4, <2>6
  <1>2. CASE task[t].at \notin {"sleep", "polling"}
    <2>1. Step(t, "idle")
      BY <1>2 DEF Continue
    <2>2. /\ task' \in [Tasks -> CallRows] /\ (\A u \in Tasks : CallOK(task'[u])) /\ OneSubmits'
          /\ task'[t].at = "idle" /\ \A u \in Tasks : u # t => task'[u] = task[u]
      BY <2>1, StepMoves
    <2> QED  BY <2>2
  <1> QED  BY <1>1, <1>2

(* A caller enters: a submitting one while no other is under way.            *)
LEMMA EnterMoves ==
    ASSUME RunnerInv, NEW t \in Tasks, NEW op, NEW at, Enter(t, op, at),
           op \in {"submit", "resubmit", "settle", "query", "health"},
           at \in {"dispatch", "sleep", "call"}, at = "dispatch" => op = "submit"
    PROVE  /\ task' \in [Tasks -> CallRows] /\ (\A u \in Tasks : CallOK(task'[u])) /\ OneSubmits'
           /\ task'[t].at = at /\ \A u \in Tasks : u # t => task'[u] = task[u]
  <1> DEFINE c == NewCall(op, at)
  <1>0. task \in [Tasks -> CallRows]
    BY DEF RunnerInv
  <1>2. c \in CallRows /\ c.at = at /\ c.op = op
    BY DEF NewCall, CallRows, Places, Replies
  <1>3. task' = [task EXCEPT ![t] = c]
    BY <1>0 DEF Enter
  <1>4. op \in Submitting => \A u \in Tasks : ~Submits(task[u])
    BY DEF Enter, Submits, Rests
  <1> HIDE DEF c
  <1>5. task' \in [Tasks -> CallRows] /\ task'[t] = c /\ \A u \in Tasks : u # t => task'[u] = task[u]
    BY <1>0, <1>2, <1>3
  <1>6. CallOK(task'[t])
    BY <1>2, <1>5 DEF CallOK, Submitting
  <1>7. Submits(task'[t]) => \A u \in Tasks : ~Submits(task[u])
    BY <1>2, <1>4, <1>5 DEF Submits
  <1> QED  BY <1>2, <1>5, <1>6, <1>7, OneMoves

(* What a step has to keep, and may do.                                      *)
Careful == RunnerInv' /\ CircuitHolds

(* The steps that begin and end nothing on the rail.                         *)
LEMMA QuietSteps ==
    ASSUME RunnerInv, Reset \/ ModeChange \/ Restart
    PROVE  Careful
  <1>0. BreakerOK(brk) /\ BreakerOK(ToHalfOpen(brk)) /\ ToHalfOpen(brk).state = "HALF_OPEN"
    BY BreakerMoves DEF RunnerInv
  <1>1. BreakerOK(brk') /\ (brk.state # "CLOSED" => brk'.state # "CLOSED")
    BY <1>0 DEF Reset, ModeChange, Restart
  <1>2. /\ task' \in [Tasks -> CallRows] /\ (\A u \in Tasks : CallOK(task'[u])) /\ OneSubmits'
        /\ \A t \in Tasks : task'[t].at \in {task[t].at, "idle"}
        /\ DoubtOK' /\ doubt' \in {"none", "answered", "timed_out", "crash"} /\ recorded' = recorded
    <2>1. CASE Reset \/ ModeChange
      <3>1. task' = task /\ doubt' = doubt /\ recorded' = recorded /\ last' = last
        BY <2>1 DEF Reset, ModeChange, Stores
      <3> QED  BY <3>1 DEF RunnerInv, OneSubmits, DoubtOK
    <2>2. CASE Restart
      <3>0. NoTask \in CallRows /\ NoTask.at = "idle"
        BY DEF NoTask, NewCall, CallRows, Places
      <3>1. task' = [t \in Tasks |-> NoTask]
        BY <2>2 DEF Restart
      <3>2. task' \in [Tasks -> CallRows] /\ \A u \in Tasks : task'[u] = NoTask
        BY <3>0, <3>1
      <3>3. CallOK(NoTask) /\ ~Submits(NoTask)
        BY <3>0 DEF CallOK, Submits, Rests
      <3>4. OneSubmits'
        BY <3>2, <3>3 DEF OneSubmits
      <3>5. DoubtOK' /\ doubt' \in {"none", "answered", "timed_out", "crash"}
        <4>1. CASE AtRail # {}
          <5>1. doubt' = "crash"
            BY <2>2, <4>1 DEF Restart
          <5> QED  BY <5>1 DEF DoubtOK
        <4>2. CASE AtRail = {}
          <5>1. doubt' = doubt /\ last' = last /\ recorded' = recorded
            BY <2>2, <4>2 DEF Restart
          <5>2. \A t \in Tasks : task'[t].at \notin {"dispatch", "rail"}
            BY <3>0, <3>2
          <5> QED  BY <5>1, <5>2 DEF RunnerInv, DoubtOK
        <4> QED  BY <4>1, <4>2
      <3>6. recorded' = recorded
        BY <2>2 DEF Restart
      <3> QED  BY <3>0, <3>2, <3>3, <3>4, <3>5, <3>6
    <2> QED  BY <2>1, <2>2
  <1>3. AskBeforeResubmit'
    BY DEF Reset, ModeChange, Restart, Stores, RunnerInv, AskBeforeResubmit
  <1>4. CircuitHolds
    BY <1>1, <1>2 DEF CircuitHolds, BreakerOK
  <1> QED  BY <1>1, <1>2, <1>3, <1>4 DEF Careful, RunnerInv

(* A call enters the runner.                                                 *)
LEMMA CallersEnter ==
    ASSUME RunnerInv, NEW t \in Tasks,
           \/ Submit(t) \/ ResubmitAfterTimeout(t) \/ SettleAfterTimeout(t)
           \/ QueryStatus(t) \/ HealthCheck(t)
    PROVE  Careful
  <1>1. PICK op \in {"submit", "resubmit", "settle", "query", "health"},
             at \in {"dispatch", "sleep", "call"} :
          /\ Enter(t, op, at)
          /\ at = "dispatch" => op = "submit" /\ last # "timed_out"
    BY DEF Submit, ResubmitAfterTimeout, SettleAfterTimeout, QueryStatus, HealthCheck
  <1>2. /\ task' \in [Tasks -> CallRows] /\ (\A u \in Tasks : CallOK(task'[u])) /\ OneSubmits'
        /\ task'[t].at = at /\ \A u \in Tasks : u # t => task'[u] = task[u]
    BY <1>1, EnterMoves
  <1>3. brk' = brk /\ doubt' = doubt /\ recorded' = recorded /\ last' = last /\ blind' = blind
    BY <1>1 DEF Enter, Stores
  <1>4. DoubtOK'
    BY <1>1, <1>2, <1>3 DEF RunnerInv, DoubtOK
  <1>5. CircuitHolds
    BY <1>2, <1>3 DEF CircuitHolds, RunnerInv, BreakerOK
  <1> QED  BY <1>2, <1>3, <1>4, <1>5 DEF Careful, RunnerInv, AskBeforeResubmit

(* The rail acts on a submit.                                                *)
LEMMA RailActs ==
    ASSUME RunnerInv, NEW t \in Tasks, NEW does, RailTakes(t, does)
    PROVE  Careful
  <1> DEFINE c == [task[t] EXCEPT !.reached = TRUE]
  <1>0. task[t] \in CallRows /\ CallOK(task[t]) /\ task \in [Tasks -> CallRows] /\ task[t].at = "rail"
    BY DEF RunnerInv, RailTakes
  <1>1. c \in CallRows /\ c.at = task[t].at /\ c.op = task[t].op
    BY <1>0 DEF CallRows
  <1>2. task' = [task EXCEPT ![t] = c]
    BY <1>0 DEF RailTakes
  <1> HIDE DEF c
  <1>3. ~Rests(task[t]) /\ (c.at \in {"dispatch", "rail"} => c.op \in Submitting)
        /\ (c.at = "reverse" => c.op = "settle")
    BY <1>0, <1>1 DEF Rests, CallOK
  <1>4. /\ task' \in [Tasks -> CallRows] /\ (\A u \in Tasks : CallOK(task'[u])) /\ OneSubmits'
        /\ \A u \in Tasks : task'[u].at = task[u].at
    <2>1. /\ task' \in [Tasks -> CallRows] /\ (\A u \in Tasks : CallOK(task'[u])) /\ OneSubmits'
          /\ task'[t] = c /\ \A u \in Tasks : u # t => task'[u] = task[u]
      BY <1>1, <1>2, <1>3, CallMoves
    <2> QED  BY <1>1, <2>1
  <1>5. brk' = brk /\ doubt' = doubt /\ recorded' = recorded /\ last' = last /\ blind' = blind
    BY DEF RailTakes
  <1>6. DoubtOK'
    BY <1>4, <1>5 DEF RunnerInv, DoubtOK
  <1>7. CircuitHolds
    BY <1>4, <1>5 DEF CircuitHolds, RunnerInv, BreakerOK
  <1> QED  BY <1>4, <1>5, <1>6, <1>7 DEF Careful, RunnerInv, AskBeforeResubmit

(* dispatch: only a closed circuit lets a submit through, and it is blind    *)
(* only after a crash.                                                       *)
LEMMA Dispatches ==
    ASSUME RunnerInv, NEW t \in Tasks, NEW cooled \in BOOLEAN, NEW storeUp, Dispatch(t, cooled, storeUp)
    PROVE  Careful
  <1> DEFINE b == IF Informational THEN brk ELSE MaybeCooldown(brk, cooled)
  <1>0. /\ task[t] \in CallRows /\ CallOK(task[t]) /\ task \in [Tasks -> CallRows]
        /\ task[t].at = "dispatch" /\ ~Rests(task[t]) /\ task[t].op \in Submitting
    BY DEF RunnerInv, Dispatch, Rests, CallOK, CallRows
  <1>1. BreakerOK(brk) /\ BreakerOK(b) /\ (b.state = "CLOSED" => brk.state = "CLOSED")
    <2>1. BreakerOK(brk)
      BY DEF RunnerInv
    <2>2. BreakerOK(MaybeCooldown(brk, cooled)) /\ (MaybeCooldown(brk, cooled).state = "CLOSED" => brk.state = "CLOSED")
      BY <2>1, BreakerMoves
    <2> QED  BY <2>1, <2>2
  <1>2. /\ brk' = brk \/ brk' = b
        /\ doubt' = doubt /\ recorded' = recorded /\ last' = last
    BY DEF Dispatch, SaveBreaker
  <1>3. \/ blind' = blind /\ Step(t, "idle")
        \/ /\ recorded = "none" /\ Admits(b, "SUBMIT") /\ brk' = b
           /\ blind' = IF doubt = "none" THEN blind ELSE blind \cup {doubt}
           /\ task' = [task EXCEPT ![t] = MovedTo(Forwarded(@), "rail")]
    BY DEF Dispatch, SaveBreaker
  <1>b. BreakerOK(brk') /\ (brk'.state = "CLOSED" => brk.state = "CLOSED")
    BY <1>1, <1>2
  <1> HIDE DEF b
  <1>4. ASSUME blind' = blind, Step(t, "idle") PROVE Careful
    <2>1. /\ task' \in [Tasks -> CallRows] /\ (\A u \in Tasks : CallOK(task'[u])) /\ OneSubmits'
          /\ task'[t].at = "idle" /\ \A u \in Tasks : u # t => task'[u] = task[u]
      BY <1>0, <1>4, StepMoves
    <2>2. DoubtOK'
      BY <1>2, <2>1 DEF RunnerInv, DoubtOK
    <2>3. CircuitHolds
      BY <1>b, <2>1 DEF CircuitHolds, BreakerOK
    <2> QED  BY <1>2, <1>4, <1>b, <2>1, <2>2, <2>3 DEF Careful, RunnerInv, AskBeforeResubmit
  <1>5. ASSUME recorded = "none", Admits(b, "SUBMIT"), brk' = b,
               blind' = IF doubt = "none" THEN blind ELSE blind \cup {doubt},
               task' = [task EXCEPT ![t] = MovedTo(Forwarded(@), "rail")]
        PROVE  Careful
    <2> DEFINE c == MovedTo(Forwarded(task[t]), "rail")
    <2>1. "rail" \in Places
      BY DEF Places
    <2>2. task' = [task EXCEPT ![t] = c]
      BY <1>5
    <2>3. c \in CallRows /\ c.at = "rail" /\ c.op = task[t].op
      BY <1>0, <2>1, CallFields, CallCounts DEF Rests
    <2> HIDE DEF c
    <2>4. /\ task' \in [Tasks -> CallRows] /\ (\A u \in Tasks : CallOK(task'[u])) /\ OneSubmits'
          /\ task'[t] = c /\ \A u \in Tasks : u # t => task'[u] = task[u]
      BY <1>0, <2>2, <2>3, CallMoves
    <2>5. doubt \in {"none", "crash"}
      BY <1>0, <1>5 DEF RunnerInv, DoubtOK
    <2>6. DoubtOK' /\ AskBeforeResubmit'
      BY <1>2, <1>5, <2>5 DEF RunnerInv, DoubtOK, AskBeforeResubmit
    <2>7. ~Informational => brk'.state = "CLOSED"
      BY <1>5 DEF Admits
    <2>8. CircuitHolds
      BY <1>b, <2>4, <2>7 DEF CircuitHolds, BreakerOK
    <2> QED  BY <1>2, <1>b, <2>4, <2>6, <2>8 DEF Careful, RunnerInv
  <1> QED  BY <1>3, <1>4, <1>5

(* _call before the adapter: a reversal needs a closed circuit, and a probe  *)
(* a free place in the quota.                                                *)
LEMMA Calls ==
    ASSUME RunnerInv, NEW t \in Tasks, NEW cooled \in BOOLEAN, NEW storeUp, Call(t, cooled, storeUp)
    PROVE  Careful
  <1> DEFINE b == IF Informational THEN brk ELSE MaybeCooldown(brk, cooled)
  <1>0. /\ task[t] \in CallRows /\ CallOK(task[t]) /\ task \in [Tasks -> CallRows]
        /\ task[t].at \in {"call", "reverse", "sleep"} /\ ~Rests(task[t])
    BY DEF RunnerInv, Call, Rests, CallRows
  <1>1. BreakerOK(brk) /\ BreakerOK(b) /\ (b.state = "CLOSED" => brk.state = "CLOSED")
    <2>1. BreakerOK(brk)
      BY DEF RunnerInv
    <2>2. BreakerOK(MaybeCooldown(brk, cooled)) /\ (MaybeCooldown(brk, cooled).state = "CLOSED" => brk.state = "CLOSED")
      BY <2>1, BreakerMoves
    <2> QED  BY <2>1, <2>2
  <1>2. BreakerOK(AfterAdmit(b, Kind(t))) /\ AfterAdmit(b, Kind(t)).state = b.state
    BY <1>1, BreakerMoves
  <1>3. doubt' = doubt /\ recorded' = recorded /\ last' = last /\ blind' = blind
    BY DEF Call, Stores
  <1>4. \/ Continue(t, "failed") /\ (brk' = brk \/ brk' = b)
        \/ /\ Admits(b, Kind(t)) /\ brk' = AfterAdmit(b, Kind(t)) /\ Step(t, Asked(t))
    BY DEF Call, SaveBreaker
  <1> HIDE DEF b
  <1>b. BreakerOK(brk') /\ (brk'.state = "CLOSED" => brk.state = "CLOSED")
    BY <1>1, <1>2, <1>4
  <1>5. CASE Continue(t, "failed")
    <2>1. /\ task' \in [Tasks -> CallRows] /\ (\A u \in Tasks : CallOK(task'[u])) /\ OneSubmits'
          /\ task'[t].at \in {"sleep", "reverse", "idle"} /\ \A u \in Tasks : u # t => task'[u] = task[u]
      BY <1>0, <1>5, ContinueMoves DEF Replies
    <2>2. DoubtOK'
      BY <1>3, <2>1 DEF RunnerInv, DoubtOK
    <2>3. CircuitHolds
      BY <1>b, <2>1 DEF CircuitHolds, BreakerOK
    <2> QED  BY <1>3, <1>b, <2>1, <2>2, <2>3 DEF Careful, RunnerInv, AskBeforeResubmit
  <1>6. CASE Admits(b, Kind(t)) /\ brk' = AfterAdmit(b, Kind(t)) /\ Step(t, Asked(t))
    <2>1. /\ Asked(t) \in {"asking", "reversing", "polling"}
          /\ Asked(t) = "reversing" => task[t].at = "reverse"
      BY <1>0 DEF Asked
    <2>2. /\ task' \in [Tasks -> CallRows] /\ (\A u \in Tasks : CallOK(task'[u])) /\ OneSubmits'
          /\ task'[t].at = Asked(t) /\ \A u \in Tasks : u # t => task'[u] = task[u]
      BY <1>0, <1>6, <2>1, StepMoves
    <2>3. DoubtOK'
      BY <1>3, <2>1, <2>2 DEF RunnerInv, DoubtOK
    <2>4. Asked(t) = "reversing" /\ ~Informational => brk'.state = "CLOSED"
      <3> SUFFICES ASSUME Asked(t) = "reversing", ~Informational PROVE brk'.state = "CLOSED"
        OBVIOUS
      <3>1. task[t].at = "reverse" /\ task[t].op = "settle"
        BY <1>0, <2>1 DEF CallOK
      <3>2. Kind(t) = "REVERSE"
        BY <3>1 DEF Kind
      <3>3. b.state = "CLOSED"
        BY <1>6, <3>2 DEF Admits
      <3> QED  BY <1>2, <1>6, <3>3
    <2>5. CircuitHolds
      BY <1>b, <2>1, <2>2, <2>4 DEF CircuitHolds, BreakerOK
    <2> QED  BY <1>3, <1>b, <2>2, <2>3, <2>5 DEF Careful, RunnerInv, AskBeforeResubmit
  <1> QED  BY <1>4, <1>5, <1>6

(* The end of a submission: its row, its outcome and the breaker are stored. *)
LEMMA SubmitsEnd ==
    ASSUME RunnerInv, NEW t \in Tasks, NEW answer \in Replies, NEW when \in {"within", "lapsed", "unread"},
           SubmitEnds(t, answer, when)
    PROVE  Careful
  <1>0. /\ task[t] \in CallRows /\ CallOK(task[t]) /\ task \in [Tasks -> CallRows]
        /\ task[t].at = "rail" /\ ~Rests(task[t]) /\ task[t].op \in Submitting
    BY DEF RunnerInv, SubmitEnds, Rests, CallOK
  <1>1. /\ BreakerOK(brk') /\ (brk.state # "CLOSED" /\ brk'.state = "CLOSED" =>
                                   brk.state = "HALF_OPEN" /\ brk.succ = Quota - 1)
    BY ObserveMoves DEF RunnerInv, SubmitEnds, SaveBreaker
  <1>2. /\ recorded' = RecordedAfter(answer) /\ last' = answer /\ blind' = blind
        /\ doubt' = IF answer \in ReplaySafe THEN "answered"
                    ELSE IF answer = "timed_out" THEN "timed_out" ELSE "none"
    BY DEF SubmitEnds, Record
  <1>3. /\ recorded' \in ReplaySafe \cup {"none"}
        /\ answer \in ReplaySafe => recorded' # "none"
    BY <1>2 DEF RunnerInv, RecordedAfter, ReplaySafe
  <1>4. /\ task' \in [Tasks -> CallRows] /\ (\A u \in Tasks : CallOK(task'[u])) /\ OneSubmits'
        /\ \/ task'[t].at = "idle"
           \/ task'[t].at = "dispatch" /\ answer = "transport"
        /\ \A u \in Tasks : u # t => task'[u] = task[u]
    <2>1. CASE Retried(t, answer)
      <3> DEFINE c == MovedTo(Tried(task[t]), "dispatch")
      <3>2. task' = [task EXCEPT ![t] = c]
        BY <2>1 DEF SubmitEnds
      <3>3. "dispatch" \in Places /\ answer = "transport"
        BY <2>1 DEF Places, Retried
      <3>5. c \in CallRows /\ c.at = "dispatch" /\ c.op = task[t].op
        BY <1>0, <3>3, CallFields, CallCounts DEF Rests
      <3> HIDE DEF c
      <3>6. /\ task' \in [Tasks -> CallRows] /\ (\A u \in Tasks : CallOK(task'[u])) /\ OneSubmits'
            /\ task'[t] = c /\ \A u \in Tasks : u # t => task'[u] = task[u]
        BY <1>0, <3>2, <3>5, CallMoves
      <3> QED  BY <3>3, <3>5, <3>6
    <2>2. CASE ~Retried(t, answer)
      <3>1. Step(t, "idle")
        BY <2>2 DEF SubmitEnds
      <3> QED  BY <1>0, <3>1, StepMoves
    <2> QED  BY <2>1, <2>2
  <1>5. DoubtOK'
    <2>1. doubt' = "answered" => recorded' # "none"
      BY <1>2, <1>3
    <2>2. ASSUME doubt' = "timed_out", NEW u \in Tasks
          PROVE  last' = "timed_out" /\ task'[u].at \notin {"dispatch", "rail"}
      <3>1. answer = "timed_out"
        BY <1>2, <2>2
      <3>2. task[u].at \in {"dispatch", "rail"} => u = t
        BY <1>0 DEF RunnerInv, OneSubmits, Submits, CallOK, Rests
      <3> QED  BY <1>2, <1>4, <3>1, <3>2
    <2>3. doubt' = "timed_out" => last' = "timed_out"
      BY <1>2
    <2> QED  BY <2>1, <2>2, <2>3 DEF DoubtOK
  <1>6. CircuitHolds
    BY <1>1, <1>4 DEF CircuitHolds, BreakerOK
  <1> QED  BY <1>1, <1>2, <1>3, <1>4, <1>5, <1>6 DEF Careful, RunnerInv, AskBeforeResubmit

(* _call after the adapter: a resubmission goes on only after the rail said  *)
(* not_received, which also ends the doubt.                                  *)
LEMMA CallsEnd ==
    ASSUME RunnerInv, NEW t \in Tasks, NEW answer \in Replies, NEW when \in {"within", "lapsed", "unread"},
           CallEnds(t, answer, when) \/ ReverseEnds(t, answer, when)
    PROVE  Careful
  <1>0. /\ task[t] \in CallRows /\ CallOK(task[t]) /\ task \in [Tasks -> CallRows]
        /\ task[t].at \in {"asking", "polling", "reversing"} /\ ~Rests(task[t])
    BY DEF RunnerInv, CallEnds, ReverseEnds, Rests
  <1>1. /\ BreakerOK(brk') /\ (brk.state # "CLOSED" /\ brk'.state = "CLOSED" =>
                                   brk.state = "HALF_OPEN" /\ brk.succ = Quota - 1)
    BY ObserveMoves DEF RunnerInv, CallEnds, ReverseEnds, SaveBreaker
  <1>2. /\ recorded' = recorded /\ last' = last /\ blind' = blind
        /\ doubt' = doubt \/ doubt' = "none"
    BY DEF CallEnds, ReverseEnds
  <1>3. /\ task' \in [Tasks -> CallRows] /\ (\A u \in Tasks : CallOK(task'[u])) /\ OneSubmits'
        /\ \/ task'[t].at \in {"sleep", "reverse", "idle"}
           \/ task'[t].at = "dispatch" /\ doubt' = "none"
        /\ \A u \in Tasks : u # t => task'[u] = task[u]
    <2>1. CASE CallEnds(t, answer, when)
      <3>1. Continue(t, answer) /\ doubt' = IF answer = "not_received" THEN "none" ELSE doubt
        BY <2>1 DEF CallEnds
      <3> QED  BY <1>0, <3>1, ContinueMoves
    <2>2. CASE ReverseEnds(t, answer, when)
      <3>1. Step(t, "idle")
        BY <2>2 DEF ReverseEnds
      <3> QED  BY <1>0, <3>1, StepMoves
    <2> QED  BY <2>1, <2>2
  <1>4. DoubtOK'
    BY <1>2, <1>3 DEF RunnerInv, DoubtOK
  <1>5. CircuitHolds
    BY <1>1, <1>3 DEF CircuitHolds, BreakerOK
  <1> QED  BY <1>1, <1>2, <1>3, <1>4, <1>5 DEF Careful, RunnerInv, AskBeforeResubmit

LEMMA RunnerStep == RunnerInv /\ [CNext]_rvars => RunnerInv' /\ [CircuitHolds]_rvars
  <1> SUFFICES ASSUME RunnerInv, [CNext]_rvars PROVE RunnerInv' /\ [CircuitHolds]_rvars
    OBVIOUS
  <1>1. CASE UNCHANGED rvars
    BY <1>1 DEF rvars, RunnerInv, OneSubmits, DoubtOK, AskBeforeResubmit
  <1>2. CASE CNext
    <2>1. ASSUME Reset \/ ModeChange \/ Restart
          PROVE  Careful
      BY <2>1, QuietSteps
    <2>2. ASSUME NEW t \in Tasks,
                 \/ Submit(t) \/ ResubmitAfterTimeout(t) \/ SettleAfterTimeout(t)
                 \/ QueryStatus(t) \/ HealthCheck(t)
          PROVE  Careful
      BY <2>2, CallersEnter
    <2>3. ASSUME NEW t \in Tasks, NEW does \in {"taken", "declined"}, RailTakes(t, does)
          PROVE  Careful
      BY <2>3, RailActs
    <2>4. ASSUME NEW t \in Tasks, NEW x \in BOOLEAN, NEW y \in BOOLEAN, Dispatch(t, x, y) \/ Call(t, x, y)
          PROVE  Careful
      BY <2>4, Dispatches, Calls
    <2>5. ASSUME NEW t \in Tasks,
                 NEW s \in ReplaySafe \cup {"failed", "not_received", "transport", "timed_out"},
                 NEW when \in {"within", "lapsed", "unread"},
                 SubmitEnds(t, s, when) \/ CallEnds(t, s, when) \/ ReverseEnds(t, s, when)
          PROVE  Careful
      <3>1. s \in Replies
        BY DEF Replies, ReplaySafe
      <3> QED  BY <2>5, <3>1, SubmitsEnd, CallsEnd
    <2>6. Careful
      BY <1>2, <2>1, <2>2, <2>3, <2>4, <2>5, Zenon DEF CNext
    <2> QED  BY <2>6 DEF Careful
  <1> QED  BY <1>1, <1>2

(* runner.py and breaker.py, for any number of concurrent calls, restarts,   *)
(* quota, threshold and retry budget: short of a crash in mid-dispatch, a    *)
(* ref that timed out goes to the rail again only once the rail has said     *)
(* not_received, and one with a replay-safe answer never; and a circuit that *)
(* is not closed lets no new money through, probes within its quota, and     *)
(* closes only on a full quota of successes.                                 *)
THEOREM RunnerIsCareful == CSpec => DispatchIsCareful
  <1>1. CInit => RunnerInv
    BY RunnerInitially
  <1>2. RunnerInv => AskBeforeResubmit
    BY DEF RunnerInv
  <1> QED  BY <1>1, <1>2, RunnerStep, PTL DEF CSpec, DispatchIsCareful
=============================================================================
