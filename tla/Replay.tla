------------------------------- MODULE Replay -------------------------------
(***************************************************************************)
(* The ledger replays of bdpay.ledger.replay: replay records and their     *)
(* runner, the four replay modes, and the sealed dispute bundle that is    *)
(* gated by a clean window replay.  One settlement window is posted,       *)
(* netted and unwound (reduced here to the entries, runs and result files  *)
(* the replay reads; Netting models the window itself) while stored facts  *)
(* may drift from what was sealed.  A replay is synchronous, so executing  *)
(* one is a single step after the claim of its record.                     *)
(***************************************************************************)
EXTENDS Integers, FiniteSets, Sequences, FiniteSetsExt

CONSTANTS
    N,                 \* participants 1 .. N; each may pay the next, an amount of 1
    AttributeClose,    \* the batch-close entry carries the window attribution: it does when the
                       \* caller gives it one (attribute_entry), not under the database trigger
    Requests,          \* replay ids
    Modes,             \* the modes asked for
    MaxUnwinds,        \* bound: unwind rounds
    MaxDrifts          \* bound: stored facts that drift

VARIABLES
    chain,             \* MONEY chain: the journal entry of each chain index
    runs,              \* netting_runs of the window, in order of creation
    replay,            \* ledger_replay_records
    bundle,            \* the dispute bundle and its sealed archive
    drifts

replays == <<chain, runs, replay, bundle, drifts>>

Participants == 1 .. N
Clearing == 0          \* the memo accounts of the net-file entry
Suspense == N + 1

Entry(kind, from, to) ==
    [type |-> kind, from |-> from, to |-> to, amt |-> 1, sealed |-> 1,
     win |-> AttributeClose \/ kind # "settlement_batch_close"]
NoFile == [lost |-> TRUE]
NoRecord == [mode |-> "NONE", status |-> "NONE", found |-> FALSE, intact |-> FALSE,
             due |-> FALSE]
NoBundle == [state |-> "NONE", disputed |-> 0, zip |-> NoFile, intact |-> FALSE,
             due |-> FALSE]

RInit ==
    /\ chain = <<>> /\ runs = <<>> /\ drifts = 0
    /\ replay = [q \in Requests |-> NoRecord] /\ bundle = NoBundle
-----------------------------------------------------------------------------
(* window_math, over the entries es of the chain ch.                         *)
Signed(e, p) == IF p = e.to THEN e.amt ELSE IF p = e.from THEN -e.amt ELSE 0

DerivePositions(ch, es) ==
    [p \in UNION {{ch[i].from, ch[i].to} : i \in es} |->
        MapThenSumSet(LAMBDA i : Signed(ch[i], p), es)]

ObligationsFromPositions(pos) ==
    [p \in DOMAIN pos |->
        [direction |-> IF pos[p] < 0 THEN "PAY" ELSE IF pos[p] > 0 THEN "RECEIVE" ELSE "FLAT",
         amt |-> IF pos[p] < 0 THEN -pos[p] ELSE pos[p]]]

TotalGross(ch, es) == MapThenSumSet(LAMBDA i : 2 * ch[i].amt, es)

TotalNetPay(obl) ==
    MapThenSumSet(LAMBDA p : obl[p].amt, {p \in DOMAIN obl : obl[p].direction = "PAY"})

(* A plan has no row for a FLAT participant.                                 *)
InstructionPlan(obl) == {<<p, obl[p]>> : p \in {q \in DOMAIN obl : obl[q].amt # 0}}

(* The chain hash of a row is told by its index.                             *)
ResultDocument(ch, es, anchor, anchorHash) ==
    LET pos == DerivePositions(ch, es)
        obl == ObligationsFromPositions(pos)
    IN  [positions |-> pos, gross |-> TotalGross(ch, es), net_pay |-> TotalNetPay(obl),
         plan |-> InstructionPlan(obl), anchor |-> anchor, anchor_hash |-> anchorHash]
-----------------------------------------------------------------------------
(* The window: post_transfer, compute, unwind, by what they leave on record. *)
IsClose(e) == e.type = "settlement_batch_close"
Live == {n \in DOMAIN runs : runs[n].status = "PASSED"}

PostTransfer(p) ==
    /\ runs = <<>> /\ p + 1 \in Participants
    /\ \A i \in DOMAIN chain : chain[i].from # p
    /\ chain' = Append(chain, Entry("position_updated", p, p + 1))
    /\ UNCHANGED <<runs, replay, bundle, drifts>>

(* The run is sealed over every fact of the window in ch; the net-file entry *)
(* follows, but only when something is owed.                                 *)
SealRun(ch, rs) ==
    LET doc == ResultDocument(ch, {i \in DOMAIN ch : ~IsClose(ch[i])}, Len(ch), Len(ch)) IN
    /\ runs' = Append(rs, [status |-> "PASSED", inputs |-> doc.positions, hash |-> doc,
                           file |-> doc, sealed |-> doc])
    /\ chain' = IF doc.net_pay = 0 THEN ch
                ELSE Append(ch, Entry("settlement_batch_close", Clearing, Suspense))

Compute ==
    /\ runs = <<>> /\ chain # <<>> /\ drifts = 0
    /\ SealRun(chain, runs)
    /\ UNCHANGED <<replay, bundle, drifts>>

(* unwind: the old run is superseded, every movement of the excluded debtor  *)
(* is offset, and the survivors are netted again.                            *)
Reversals(x) ==
    LET own == SelectSeq(chain, LAMBDA e : e.type = "position_updated" /\ x \in {e.from, e.to})
    IN  [i \in DOMAIN own |-> Entry("payment_reversed", own[i].to, own[i].from)]

Unwind(x) ==
    /\ drifts = 0 /\ Len(runs) \in 1 .. MaxUnwinds
    /\ \E n \in Live :
        /\ x \in DOMAIN runs[n].inputs /\ runs[n].inputs[x] < 0
        /\ SealRun(chain \o Reversals(x), [runs EXCEPT ![n].status = "SUPERSEDED"])
    /\ UNCHANGED <<replay, bundle, drifts>>

(* What is on disk or in a row is no longer what was sealed.                 *)
Drift ==
    /\ drifts < MaxDrifts /\ drifts' = drifts + 1 /\ runs # <<>>
    /\ \/ \E i \in DOMAIN chain, f \in {"amt", "win"} :
            /\ chain' = IF f = "amt" THEN [chain EXCEPT ![i].amt = 2]
                        ELSE [chain EXCEPT ![i].win = FALSE]
            /\ UNCHANGED runs
       \/ \E n \in Live :
            /\ runs[n].file # NoFile
            /\ \/ runs' = [runs EXCEPT ![n].file.gross = @ + 1]
               \/ runs' = [runs EXCEPT ![n].file.anchor = @ + 1]
               \/ runs' = [runs EXCEPT ![n].file = NoFile]
               \/ runs' = [runs EXCEPT ![n].hash = runs[n].file]
            /\ UNCHANGED chain
    /\ UNCHANGED <<replay, bundle>>
-----------------------------------------------------------------------------
(* The facts port: runs that are not superseded, entries by attribution, and *)
(* every entry in a range that moves a position.                             *)
LatestNettingRun == IF Live = {} THEN 0 ELSE Max(Live)
ResultFile(n) == runs[n].file
WindowEntries == {i \in DOMAIN chain : chain[i].win}
PositionEntriesInRange(lo, hi) == {i \in lo .. hi : ~IsClose(chain[i])}

(* verify_chain, deep, over a range: the postings hash to what was sealed.   *)
VerifyChain(lo, hi) == \A i \in lo .. hi : chain[i].amt = chain[i].sealed

LastClose == Max({i \in WindowEntries : IsClose(chain[i])})
Derivation == {i \in WindowEntries : i < LastClose /\ ~IsClose(chain[i])}

(* The refusals of execute_window_replay: nothing to replay.                 *)
NotReplayable ==
    \/ LatestNettingRun = 0
    \/ ResultFile(LatestNettingRun) = NoFile
    \/ {i \in WindowEntries : IsClose(chain[i])} = {}

DiscrepanciesOfFileOnly ==
    LET run == runs[LatestNettingRun] IN
    \/ run.file # run.hash
    \/ run.file # ResultDocument(chain, Derivation, run.file.anchor, run.file.anchor_hash)

(* The findings a window replay collects: the stored file, the attribution   *)
(* of the range, zero sum, the run's inputs, the anchor, the recomputed      *)
(* bytes, and the chain.                                                     *)
Discrepancies ==
    LET run == runs[LatestNettingRun]
        pos == DerivePositions(chain, Derivation)
        first == Min(WindowEntries)
    IN  \/ run.file # run.hash
        \/ \E i \in PositionEntriesInRange(first, LastClose) : ~chain[i].win
        \/ MapThenSumSet(LAMBDA p : pos[p], DOMAIN pos) # 0
        \/ pos # run.inputs
        \/ run.file.anchor \notin DOMAIN chain \/ run.file.anchor_hash # run.file.anchor
        \/ run.file # ResultDocument(chain, Derivation, run.file.anchor, run.file.anchor_hash)
        \/ ~VerifyChain(first, LastClose)

WindowReplay ==
    IF NotReplayable THEN "FAILED" ELSE IF Discrepancies THEN "FAILED" ELSE "PASSED"
-----------------------------------------------------------------------------
(* The other modes complete whatever they find and report it: the balance of *)
(* one position account against the maintained one, the entries of the       *)
(* window's reference, the trail of one payment.                             *)
DerivedBalance(p, upTo) == MapThenSumSet(LAMBDA i : Signed(chain[i], p), 1 .. upTo)
MaintainedBalance(p) ==
    MapThenSumSet(LAMBDA i : Signed([chain[i] EXCEPT !.amt = chain[i].sealed], p),
                  DOMAIN chain)

AccountBalanceFinds ==
    \/ \E p \in Participants : DerivedBalance(p, Len(chain)) # MaintainedBalance(p)
    \/ ~VerifyChain(1, Len(chain))
EntrySequenceFinds == \E i \in DOMAIN chain : chain[i].amt # chain[i].sealed
DisputeTrailFinds == ~VerifyChain(1, Len(chain))

(* Ghosts of an execution: the window's facts are the sealed ones, up to the *)
(* close of its last run; a clean verdict is due when that run owed anything *)
(* and so closed the window.                                                 *)
Unaltered == \A i \in DOMAIN chain : chain[i].amt = chain[i].sealed
Intact ==
    /\ LatestNettingRun # 0
    /\ LET run == runs[LatestNettingRun] IN run.file = run.sealed /\ run.hash = run.sealed
    /\ \A i \in DOMAIN chain : chain[i].win \/ (IsClose(chain[i]) /\ i < Len(chain))
    /\ Unaltered
Due == Intact /\ runs[LatestNettingRun].sealed.net_pay > 0
-----------------------------------------------------------------------------
(* request_replay: content-addressed on the moment of asking, so a new ask   *)
(* is a new record.                                                          *)
RequestReplay(q, mode) ==
    /\ replay[q] = NoRecord
    /\ replay' = [replay EXCEPT ![q].mode = mode, ![q].status = "QUEUED"]
    /\ UNCHANGED <<chain, runs, bundle, drifts>>

(* begin_run: one claimant; any later pickup is denied.                      *)
BeginRun(q) ==
    /\ replay[q].status = "QUEUED"
    /\ replay' = [replay EXCEPT ![q].status = "RUNNING"]
    /\ UNCHANGED <<chain, runs, bundle, drifts>>

(* _execute: TRUE for a replay that failed; an error inside is a failure.    *)
Fails(mode) ==
    CASE mode = "WINDOW_REPLAY"   -> WindowReplay # "PASSED"
      [] mode = "ACCOUNT_BALANCE" -> FALSE
      [] OTHER                    -> chain = <<>>
Finds(mode) ==
    CASE mode = "WINDOW_REPLAY"   -> WindowReplay # "PASSED"
      [] mode = "ACCOUNT_BALANCE" -> AccountBalanceFinds
      [] mode = "ENTRY_SEQUENCE"  -> EntrySequenceFinds
      [] mode = "DISPUTE_TRAIL"   -> DisputeTrailFinds

(* run, after the claim: the verdict and the row, which is never overwritten *)
(* once it is terminal.                                                      *)
Run(q) ==
    /\ replay[q].status = "RUNNING"
    /\ LET mode == replay[q].mode IN
       replay' = [replay EXCEPT ![q].status = IF Fails(mode) THEN "FAILED" ELSE "COMPLETED",
                                ![q].found = Finds(mode),
                                ![q].intact = IF mode = "WINDOW_REPLAY" THEN Intact
                                              ELSE Unaltered,
                                ![q].due = Due]
    /\ UNCHANGED <<chain, runs, bundle, drifts>>
-----------------------------------------------------------------------------
(* DisputeBundleExporter.queue: content-addressed, so a failed bundle is     *)
(* returned as it is.  The snapshot names a disputed entry of the window.    *)
QueueBundle(i) ==
    /\ bundle = NoBundle
    /\ bundle' = [bundle EXCEPT !.state = "QUEUED", !.disputed = i]
    /\ UNCHANGED <<chain, runs, replay, drifts>>

BeginAssembly ==
    /\ bundle.state = "QUEUED"
    /\ bundle' = [bundle EXCEPT !.state = "ASSEMBLING"]
    /\ UNCHANGED <<chain, runs, replay, drifts>>

(* _build_members: the gate is a clean replay; then every disputed entry     *)
(* must be an entry of the window.                                           *)
ReplayGate == WindowReplay = "PASSED"
DisputedTransactions == {bundle.disputed} \cap WindowEntries
BuildMembers ==
    LET file == ResultFile(LatestNettingRun) IN
    [netting_result |-> file,
     netting_replay |-> ResultDocument(chain, Derivation, file.anchor, file.anchor_hash),
     transactions |-> DisputedTransactions]

Assemble ==
    /\ bundle.state = "ASSEMBLING"
    /\ bundle' = IF ReplayGate /\ DisputedTransactions # {}
                 THEN [bundle EXCEPT !.state = "COMPLETED", !.zip = BuildMembers,
                                     !.intact = Intact]
                 ELSE [bundle EXCEPT !.state = "FAILED",
                                     !.due = Due /\ chain[bundle.disputed].win]
    /\ UNCHANGED <<chain, runs, replay, drifts>>

RNext ==
    \/ \E p \in Participants : PostTransfer(p) \/ Unwind(p)
    \/ Compute
    \/ Drift
    \/ \E q \in Requests, m \in Modes : RequestReplay(q, m)
    \/ \E q \in Requests : BeginRun(q) \/ Run(q)
    \/ \E i \in DOMAIN chain : QueueBundle(i)
    \/ BeginAssembly \/ Assemble

RSpec == RInit /\ [][RNext]_replays
-----------------------------------------------------------------------------
(* A replay tells drift from its absence.  A window replay that completes    *)
(* and a bundle that is sealed were made from the very facts that netting    *)
(* sealed, whatever was unwound and recomputed before; an intact window      *)
(* whose run closed it never fails; and the other modes report something     *)
(* exactly of an altered chain.                                              *)
ReplayTellsDrift ==
    /\ \A q \in Requests :
        LET r == replay[q] IN
        /\ r.status = "COMPLETED" => (r.intact <=> ~r.found)
        /\ (r.mode = "WINDOW_REPLAY" /\ r.status = "FAILED") => ~r.due
    /\ bundle.state = "COMPLETED" =>
        bundle.intact /\ bundle.zip.netting_result = bundle.zip.netting_replay
    /\ bundle.state = "FAILED" => ~bundle.due
=============================================================================
