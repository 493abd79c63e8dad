----------------------------- MODULE Dossiers -----------------------------
(* Evidence dossiers (compliance/dossier.py) over the register of external *)
(* facts (compliance/fact_corrections.py), bound by                        *)
(* compliance/dossier_wiring.py.  A request queues an export; a worker     *)
(* claims it, gathers the evidence classes its type asks for, seals them   *)
(* under a manifest, stores the archive and closes the row; a sweep fails  *)
(* what has been assembling for too long.  Queueing and the register run   *)
(* in the gateway's process, workers and the sweep in others, so a worker  *)
(* and the sweep may hold the same row at once.                            *)
(*                                                                         *)
(* Time is abstracted: facts are numbered in the order they are recorded   *)
(* and a snapshot's as_of is such a number; Age passes the assembly        *)
(* timeout, which the code counts from the row's creation.                 *)
EXTENDS Integers, FiniteSets

CONSTANTS
    Exports,     \* snapshots an operator asks a dossier for, numbered in order
    Facts,       \* claims the register may come to hold
    Operators,   \* who records, verifies and retracts them
    Workers,     \* assembly processes
    MaxDeadClerks  \* how many workers die

ASSUME FactsAssumption == IsFiniteSet(Facts)

VARIABLES
    fact,        \* Facts -> row of fact_corrections
    export,      \* Exports -> row of dossier_exports
    object,      \* Exports -> archive under the row's zip_pointer
    told,        \* Exports -> events sent to aml.events about the row
    clerk,       \* Workers -> what the worker holds
    sweep,       \* rows a running sweep has listed and not yet failed
    deadClerks   \* crashes so far

dossiers == <<fact, export, object, told, clerk, sweep, deadClerks>>

DOSSIER_TYPES == {"BB_PHASE2", "SPONSOR_BANK_PACK", "BFIU_EVIDENCE"}
Terminal == {"COMPLETED", "FAILED"}
NoArchive == [members |-> {}, manifest |-> {}, facts |-> {}]
NoFact == [status |-> "NONE", blocking |-> FALSE, born |-> 0,
           created_by |-> "-", verified_by |-> "-"]
NoExport == [state |-> "NONE", type |-> "-", as_of |-> 0, old |-> FALSE,
             manifest |-> {}]
Idle == [at |-> "idle", held |-> 0, archive |-> NoArchive]

Recorded == {f \in Facts : fact[f].status # "NONE"}
---------------------------------------------------------------------------
(* The register.  save is an upsert: a row's whole content is replaced.    *)

SaveFact(f, r) == fact' = [fact EXCEPT ![f] = r]

(* FactCorrectionService.record: a known claim is returned untouched. *)
Record(f, by, blocks) ==
    /\ fact[f].status = "NONE"
    /\ SaveFact(f, [status |-> "UNVERIFIED", blocking |-> blocks,
                    born |-> Cardinality(Recorded) + 1,
                    created_by |-> by, verified_by |-> "-"])
    /\ UNCHANGED <<export, object, told, clerk, sweep, deadClerks>>

(* verify: only UNVERIFIED rows, and never by the operator who recorded it. *)
Verify(f, by) ==
    /\ fact[f].status = "UNVERIFIED"
    /\ by # fact[f].created_by
    /\ SaveFact(f, [fact[f] EXCEPT !.status = "VERIFIED", !.verified_by = by])
    /\ UNCHANGED <<export, object, told, clerk, sweep, deadClerks>>

Retract(f) ==
    /\ fact[f].status = "UNVERIFIED"
    /\ SaveFact(f, [fact[f] EXCEPT !.status = "RETRACTED"])
    /\ UNCHANGED <<export, object, told, clerk, sweep, deadClerks>>

(* FactCorrectionRegisterAdapter.rows_as_of: rows created by the cutoff,   *)
(* with the status they have when read.                                    *)
RowsAsOf(as_of) == {f \in Recorded : fact[f].born <= as_of}
---------------------------------------------------------------------------
(* The rows of dossier_exports.                                            *)

InsertExport(e, r) == export' = [export EXCEPT ![e] = r]
SaveOverTerminal(e) == export[e].state # "NONE"
(* save updates no row that is COMPLETED or FAILED and raises instead. *)
SaveTakes(e) == export[e].state \notin Terminal
SaveExport(e, state, manifest) ==
    export' = [export EXCEPT ![e].state = state, ![e].manifest = manifest]
(* begin_assembly: one claimant per row, under an advisory lock. *)
BeginAssembly(e) == export[e].state = "QUEUED"
ByState(state) == {e \in Exports : export[e].state = state}

(* validate_input_snapshot checks that every key is there and every index  *)
(* range is ordered.  It does not compare as_of with the clock: here a     *)
(* snapshot names a moment that has passed when it is queued.              *)
ValidSnapshot(as_of) == as_of \in 0 .. Cardinality(Recorded)

(* queue: the id is derived from type and snapshot, so a repeated request  *)
(* returns the row that is there, a FAILED one included.                   *)
Queue(e, type, as_of) ==
    /\ ValidSnapshot(as_of)
    /\ export[e].state = "NONE"
    /\ \A d \in Exports : d < e => export[d].state # "NONE"
    /\ InsertExport(e, [NoExport EXCEPT !.state = "QUEUED", !.type = type,
                                        !.as_of = as_of])
    /\ UNCHANGED <<fact, object, told, clerk, sweep, deadClerks>>
---------------------------------------------------------------------------
(* The evidence classes.  A reading names the source whose answer a gate   *)
(* refuses, if any; the first refusal ends the assembly, so one is enough. *)

Readings == {"good", "runs", "coverage", "chain", "balance", "replays",
             "migrations", "checklist", "claims"}

CoverageGate(r) == r # "coverage"
CertificationGate(type, r) ==
    r # "runs" /\ (type = "BB_PHASE2" => CoverageGate(r))
CertificationMembers(type) ==
    IF type = "BFIU_EVIDENCE" THEN {} ELSE {"certification"}
TrialBalanceMembers(type) ==
    IF type = "BFIU_EVIDENCE" THEN {} ELSE {"trial-balance"}
MigrationMembers(type) ==
    IF type = "BB_PHASE2" THEN {"migrations", "retention"} ELSE {}
PolicyMembers(type) ==
    IF type = "SPONSOR_BANK_PACK" THEN {} ELSE {"policy"}
FactMembers(type) ==
    IF type = "BFIU_EVIDENCE" THEN {} ELSE {"facts"}
CaseMembers(type) ==
    IF type = "BFIU_EVIDENCE" THEN {"case-evidence"} ELSE {}
SponsorMembers(type) ==
    IF type = "SPONSOR_BANK_PACK" THEN {"checklist", "claims"} ELSE {}

(* A blocking claim that is not VERIFIED, a retracted one included, stops  *)
(* every dossier that shows the register.                                  *)
FactGate(rows) == \A f \in rows : fact[f].blocking => fact[f].status = "VERIFIED"
SponsorGate(r) == r \notin {"checklist", "claims"}
ReplayGate(r) == r # "replays"
ChainGate(r) == r # "chain"
TrialBalanceGate(r) == r # "balance"
MigrationGate(r) == r # "migrations"

BuildMembers(type) ==
    UNION {CertificationMembers(type), {"chain", "replay"},
           TrialBalanceMembers(type), MigrationMembers(type),
           PolicyMembers(type), FactMembers(type), CaseMembers(type),
           SponsorMembers(type)}

(* The gates in _build_members, in the order the classes are added; any of *)
(* them, or a source that raises, ends the assembly with a named reason.   *)
Passes(type, as_of, r) ==
    /\ "certification" \in BuildMembers(type) => CertificationGate(type, r)
    /\ ChainGate(r)
    /\ "trial-balance" \in BuildMembers(type) => TrialBalanceGate(r)
    /\ ReplayGate(r)
    /\ "migrations" \in BuildMembers(type) => MigrationGate(r)
    /\ "facts" \in BuildMembers(type) => FactGate(RowsAsOf(as_of))
    /\ "claims" \in BuildMembers(type) => SponsorGate(r)

BuildManifest(members) == members
SealZip(members, rows) ==
    [members |-> members, manifest |-> BuildManifest(members), facts |-> rows]
VerifySealedZip(zip) == zip.members = zip.manifest
---------------------------------------------------------------------------
(* A worker's pass: assemble_next, then assemble.                          *)

Goes(w, at, e, archive) ==
    clerk' = [clerk EXCEPT ![w] = [at |-> at, held |-> e, archive |-> archive]]

(* assemble_next reads the oldest queued row; nothing is claimed yet. *)
AssembleNext(w) ==
    /\ clerk[w].at = "idle"
    /\ \E e \in ByState("QUEUED") :
         /\ \A d \in ByState("QUEUED") : e <= d
         /\ Goes(w, "claim", e, NoArchive)
    /\ UNCHANGED <<fact, export, object, told, sweep, deadClerks>>

(* The claim: a row another worker took is a conflict and ends the pass. *)
Assemble(w) ==
    LET e == clerk[w].held
    IN /\ clerk[w].at = "claim"
       /\ IF BeginAssembly(e)
            THEN /\ SaveExport(e, "ASSEMBLING", {})
                 /\ Goes(w, "build", e, NoArchive)
            ELSE clerk' = [clerk EXCEPT ![w] = Idle] /\ UNCHANGED export
       /\ UNCHANGED <<fact, object, told, sweep, deadClerks>>

(* Members, manifest, archive and its recomputation, in memory; the worker *)
(* uses the row it claimed, not the row as it is now.                      *)
Gather(w) ==
    LET e == clerk[w].held
        zip == SealZip(BuildMembers(export[e].type), RowsAsOf(export[e].as_of))
    IN /\ clerk[w].at = "build"
       /\ \E r \in Readings :
            IF Passes(export[e].type, export[e].as_of, r) /\ VerifySealedZip(zip)
              THEN Goes(w, "put", e, zip)
              ELSE Goes(w, "fail", e, NoArchive)
       /\ UNCHANGED <<fact, export, object, told, sweep, deadClerks>>

(* The archive is stored before the row says so; a refused put fails it. *)
Put(w) ==
    LET e == clerk[w].held
    IN /\ clerk[w].at = "put"
       /\ \/ /\ object' = [object EXCEPT ![e] = clerk[w].archive]
             /\ Goes(w, "complete", e, clerk[w].archive)
          \/ Goes(w, "fail", e, NoArchive) /\ UNCHANGED object
       /\ UNCHANGED <<fact, export, told, sweep, deadClerks>>

(* Closing the row.  When the sweep has failed it meanwhile, save raises   *)
(* and the pass ends without an event.                                     *)
CompleteRow(w) ==
    LET e == clerk[w].held
    IN /\ clerk[w].at = "complete"
       /\ IF SaveTakes(e)
            THEN /\ SaveExport(e, "COMPLETED", clerk[w].archive.manifest)
                 /\ Goes(w, "completed", e, NoArchive)
            ELSE clerk' = [clerk EXCEPT ![w] = Idle] /\ UNCHANGED export
       /\ UNCHANGED <<fact, object, told, sweep, deadClerks>>

Fail(w) ==
    LET e == clerk[w].held
    IN /\ clerk[w].at = "fail"
       /\ IF SaveTakes(e)
            THEN SaveExport(e, "FAILED", {}) /\ Goes(w, "failed", e, NoArchive)
            ELSE clerk' = [clerk EXCEPT ![w] = Idle] /\ UNCHANGED export
       /\ UNCHANGED <<fact, object, told, sweep, deadClerks>>

(* The audit row and the event follow the save in transactions of their own. *)
Tell(w) ==
    /\ clerk[w].at \in {"completed", "failed"}
    /\ told' = [told EXCEPT ![clerk[w].held] = @ \union {clerk[w].at}]
    /\ clerk' = [clerk EXCEPT ![w] = Idle]
    /\ UNCHANGED <<fact, export, object, sweep, deadClerks>>

CrashClerk(w) ==
    /\ clerk[w].at # "idle"
    /\ deadClerks < MaxDeadClerks
    /\ deadClerks' = deadClerks + 1
    /\ clerk' = [clerk EXCEPT ![w] = Idle]
    /\ UNCHANGED <<fact, export, object, told, sweep>>
---------------------------------------------------------------------------
(* sweep_timeouts lists the stale ASSEMBLING rows and fails them one by    *)
(* one; a row a worker completed in between makes save raise, which ends   *)
(* the sweep and leaves the rest to the next one.                          *)
Age(e) ==
    /\ export[e].state \in {"QUEUED", "ASSEMBLING"}
    /\ ~export[e].old
    /\ export' = [export EXCEPT ![e].old = TRUE]
    /\ UNCHANGED <<fact, object, told, clerk, sweep, deadClerks>>

SweepTimeouts ==
    /\ sweep = {}
    /\ sweep' = {e \in ByState("ASSEMBLING") : export[e].old}
    /\ sweep' # {}
    /\ UNCHANGED <<fact, export, object, told, clerk, deadClerks>>

SweepOne(e) ==
    /\ e \in sweep
    /\ IF SaveTakes(e)
         THEN /\ SaveExport(e, "FAILED", {})
              /\ told' = [told EXCEPT ![e] = @ \union {"failed"}]
              /\ sweep' = sweep \ {e}
         ELSE sweep' = {} /\ UNCHANGED <<export, told>>
    /\ UNCHANGED <<fact, object, clerk, deadClerks>>

(* download answers with the stored archive of a COMPLETED row only. *)
Downloadable(e) ==
    export[e].state = "COMPLETED" /\ object[e] # NoArchive
---------------------------------------------------------------------------
DInit ==
    /\ fact = [f \in Facts |-> NoFact]
    /\ export = [e \in Exports |-> NoExport]
    /\ object = [e \in Exports |-> NoArchive]
    /\ told = [e \in Exports |-> {}]
    /\ clerk = [w \in Workers |-> Idle]
    /\ sweep = {}
    /\ deadClerks = 0

DNext ==
    \/ \E f \in Facts, by \in Operators, b \in BOOLEAN : Record(f, by, b)
    \/ \E f \in Facts, by \in Operators : Verify(f, by)
    \/ \E f \in Facts : Retract(f)
    \/ \E e \in Exports, t \in DOSSIER_TYPES, n \in 0 .. Cardinality(Facts) :
         Queue(e, t, n)
    \/ \E w \in Workers :
         \/ AssembleNext(w) \/ Assemble(w) \/ Gather(w) \/ Put(w)
         \/ CompleteRow(w) \/ Fail(w) \/ Tell(w) \/ CrashClerk(w)
    \/ \E e \in Exports : Age(e) \/ SweepOne(e)
    \/ SweepTimeouts

DSpec == DInit /\ [][DNext]_dossiers
---------------------------------------------------------------------------
(* A finished dossier can be trusted, whichever of a worker, the sweep and *)
(* a crash came first: a COMPLETED row has its archive in the store, under *)
(* the manifest the row records and with every class its type asks for;    *)
(* where the archive shows the fact register, every blocking claim         *)
(* recorded up to its as_of is in it, VERIFIED, by somebody other than the *)
(* operator who recorded it (dossier.py: unverified_claim gate;            *)
(* fact_corrections.py: verifier_must_differ, terminal rows stay); and no  *)
(* consumer of aml.events is ever told that a row ended otherwise than it  *)
(* did, so never both ways.                                                *)
DossiersAreSound ==
    \A e \in Exports :
      /\ told[e] \subseteq
           (CASE export[e].state = "COMPLETED" -> {"completed"}
              [] export[e].state = "FAILED" -> {"failed"}
              [] OTHER -> {})
      /\ export[e].state = "COMPLETED" =>
           /\ Downloadable(e)
           /\ object[e].manifest = export[e].manifest
           /\ object[e].members = BuildMembers(export[e].type)
           /\ "facts" \in object[e].members =>
                \A f \in Recorded :
                  fact[f].blocking /\ fact[f].born <= export[e].as_of =>
                    /\ f \in object[e].facts
                    /\ fact[f].status = "VERIFIED"
                    /\ fact[f].verified_by # fact[f].created_by
===========================================================================
