------------------------------ MODULE Netting ------------------------------
(***************************************************************************)
(* One settlement window of the PSO mode: position movements under net     *)
(* debit caps (bdpay.ledger.position), the attributed posting path and its *)
(* maintained mirror (bdpay.ledger.netting.positions), multilateral        *)
(* netting, the settlement legs, and the unwind of a failed net debtor     *)
(* (bdpay.ledger.netting.engine).  The code is synchronous: an operation   *)
(* is one step, with the writes it leaves behind when it refuses half-way. *)
(***************************************************************************)
EXTENDS Integers, FiniteSets, Sequences, Functions

CONSTANTS
    Participants,
    Transfers,         \* records [id, from, to, amt]; id is the source payment
    Caps,              \* the cap amounts an operator may set
    InitialCap,        \* Participants -> active net debit cap, 0 for none
    MaxUnwindRounds,
    MaxAttempts        \* bound: post_transfer and set_net_debit_cap calls, retries included

ASSUME NettingAssumption ==
    /\ IsFiniteSet(Transfers) /\ "none" \notin Participants
    /\ \A t \in Transfers : t.from \in Participants /\ t.to \in Participants /\ t.amt \in Nat

VARIABLES
    window,            \* settlement_windows.status
    facts,             \* entries of the window: <<transfer, excluded or "none">>
    cap,               \* active net debit caps
    mirror,            \* maintained positions, one per position_accounts row
    inactive,          \* participants whose kyb_status is not ACTIVE
    untokened,         \* participants without a settlement account token
    runs,              \* netting runs in order of creation
    attempts

nvars == <<window, facts, cap, mirror, inactive, untokened, runs, attempts>>

WINDOW_STATES == {"WINDOW_OPEN", "ACCUMULATING_POSITIONS", "CUTOFF_REACHED",
                  "NETTING_CALCULATED", "WINDOW_BLOCKED", "SETTLEMENT_INSTRUCTED",
                  "SETTLEMENT_CONFIRMED", "RECONCILIATION_RUNNING",
                  "RECONCILIATION_EXCEPTION", "WINDOW_CLOSED", "SETTLEMENT_FAILED"}
Settled == {"SETTLEMENT_CONFIRMED", "RECONCILIATION_RUNNING", "RECONCILIATION_EXCEPTION",
            "WINDOW_CLOSED"}

(* The entries that credit and debit p: a reversal swaps the sides of its    *)
(* original.  Units counts what entries move, unit by unit.                  *)
Credits(es, p) == {e \in es : p = IF e[2] = "none" THEN e[1].to ELSE e[1].from}
Debits(es, p) == {e \in es : p = IF e[2] = "none" THEN e[1].from ELSE e[1].to}
Units(es) == Cardinality(UNION {{e} \X (1 .. e[1].amt) : e \in es})
Movement(es, p) == Units(Credits(es, p)) - Units(Debits(es, p))

(* StoreLedgerFacts.derive_window: participants of the window's entries.     *)
Derived(es) == [p \in UNION {{e[1].from, e[1].to} : e \in es} |-> Movement(es, p)]

SumOf(pos) == FoldFunctionOnSet(+, 0, pos, DOMAIN pos)

NInit ==
    /\ window = "WINDOW_OPEN" /\ facts = {} /\ cap = InitialCap /\ mirror = [p \in {} |-> 0]
    /\ inactive = {} /\ untokened \in {{}} \cup {{p} : p \in Participants}
    /\ runs = <<>> /\ attempts = 0

NTypeOK ==
    /\ window \in WINDOW_STATES
    /\ \A e \in facts : e[1] \in Transfers
    /\ DOMAIN mirror \subseteq Participants
    /\ inactive \in SUBSET Participants
-----------------------------------------------------------------------------
(* transition_window: the rows of WINDOW_TRANSITIONS that no other operation *)
(* of this module performs.                                                  *)
FreeTransitions ==
    {<<"WINDOW_OPEN", "ACCUMULATING_POSITIONS">>, <<"ACCUMULATING_POSITIONS", "CUTOFF_REACHED">>,
     <<"NETTING_CALCULATED", "WINDOW_BLOCKED">>, <<"NETTING_CALCULATED", "SETTLEMENT_INSTRUCTED">>,
     <<"WINDOW_BLOCKED", "SETTLEMENT_INSTRUCTED">>,
     <<"SETTLEMENT_INSTRUCTED", "SETTLEMENT_FAILED">>,
     <<"SETTLEMENT_FAILED", "SETTLEMENT_INSTRUCTED">>,
     <<"SETTLEMENT_CONFIRMED", "RECONCILIATION_RUNNING">>,
     <<"RECONCILIATION_RUNNING", "WINDOW_CLOSED">>,
     <<"RECONCILIATION_RUNNING", "RECONCILIATION_EXCEPTION">>,
     <<"RECONCILIATION_EXCEPTION", "WINDOW_CLOSED">>}

TransitionWindow ==
    /\ \E t \in FreeTransitions : window = t[1] /\ window' = t[2]
    /\ UNCHANGED <<facts, cap, mirror, inactive, untokened, runs, attempts>>

(* mark_participant_suspended: accepted movements stay.                      *)
MarkParticipantSuspended(p) ==
    /\ window = "ACCUMULATING_POSITIONS" /\ p \notin inactive
    /\ inactive' = inactive \cup {p}
    /\ UNCHANGED <<window, facts, cap, mirror, untokened, runs, attempts>>

SetNetDebitCap(p, amt) ==
    /\ attempts < MaxAttempts /\ attempts' = attempts + 1
    /\ cap' = [cap EXCEPT ![p] = amt]
    /\ UNCHANGED <<window, facts, mirror, inactive, untokened, runs>>

(* PositionService: the row is opened before the cap is applied.             *)
Net(m, p) == IF p \in DOMAIN m THEN m[p] ELSE 0
Moved(m, p, amt) == [q \in DOMAIN m \cup {p} |-> Net(m, q) + (IF q = p THEN amt ELSE 0)]
Headroom(p, amt) ==
    LET net == Net(mirror, p) - amt IN cap[p] - (IF net < 0 THEN -net ELSE 0)

(* post_transfer: suspension is refused before anything is written; then the *)
(* debit side and the credit side of the mirror move, each refusing on its   *)
(* own, and last the journal entry, which refuses a repeated key.            *)
PostTransfer(t) ==
    /\ window = "ACCUMULATING_POSITIONS" /\ attempts < MaxAttempts
    /\ {t.from, t.to} \cap inactive = {}
    /\ attempts' = attempts + 1
    /\ LET debited == Moved(mirror, t.from, -t.amt)
           both == Moved(debited, t.to, t.amt)
       IN IF cap[t.from] = 0 THEN UNCHANGED <<mirror, facts>>
          ELSE IF Headroom(t.from, t.amt) < 0
               THEN mirror' = Moved(mirror, t.from, 0) /\ UNCHANGED facts
          ELSE IF cap[t.to] = 0 THEN mirror' = debited /\ UNCHANGED facts
          ELSE mirror' = both /\ facts' = facts \cup {<<t, "none">>}
    /\ UNCHANGED <<window, cap, inactive, untokened, runs>>
-----------------------------------------------------------------------------
LiveRuns == {n \in DOMAIN runs : runs[n].status = "PASSED"}
LegsOf(pos) == [p \in DOMAIN pos |-> IF pos[p] = 0 THEN "NONE" ELSE "QUEUED"]
NewRun(pos, status, excluded) ==
    [pos |-> pos, status |-> status, excluded |-> excluded,
     legs |-> IF status = "PASSED" THEN LegsOf(pos) ELSE [p \in {} |-> "NONE"]]

(* _integrity_failure finds nothing.                                         *)
IntegrityHolds(pos, m) ==
    pos = m /\ SumOf(pos) = 0 /\ \A p \in DOMAIN pos : cap[p] > 0

(* compute, on the entries es and the mirror m: the run's id is made from    *)
(* the positions, so a run with the same positions decides for this one.  A  *)
(* missing token refuses after the run is on record.                         *)
Compute(es, m, rs, excluded) ==
    LET pos == Derived(es) IN
    IF \E n \in DOMAIN rs : rs[n].pos = pos
    THEN runs' = rs /\ window' = "CUTOFF_REACHED"
    ELSE IF ~IntegrityHolds(pos, m)
    THEN /\ runs' = Append(rs, NewRun(pos, "FAILED_INTEGRITY", excluded))
         /\ window' = "CUTOFF_REACHED"
    ELSE IF DOMAIN pos \cap untokened # {}
    THEN /\ runs' = Append(rs, NewRun(pos, "COMPUTING", excluded))
         /\ window' = "CUTOFF_REACHED"
    ELSE /\ runs' = Append(rs, NewRun(pos, "PASSED", excluded))
         /\ window' = "NETTING_CALCULATED"

ComputeWindow ==
    /\ window = "CUTOFF_REACHED" /\ LiveRuns = {}
    /\ Compute(facts, mirror, runs, "none")
    /\ UNCHANGED <<facts, cap, mirror, inactive, untokened, attempts>>

SetLeg(n, p, s) == runs' = [runs EXCEPT ![n].legs[p] = s]

MarkLegSubmitted(n, p) ==
    /\ runs[n].legs[p] = "QUEUED" /\ SetLeg(n, p, "SUBMITTED")
    /\ UNCHANGED <<window, facts, cap, mirror, inactive, untokened, attempts>>

RecordLegSettled(n, p) ==
    /\ runs[n].legs[p] = "SUBMITTED" /\ SetLeg(n, p, "SETTLED")
    /\ UNCHANGED <<window, facts, cap, mirror, inactive, untokened, attempts>>

RecordLegRejected(n, p) ==
    /\ runs[n].legs[p] = "SUBMITTED" /\ SetLeg(n, p, "FAILED")
    /\ window' = IF window = "SETTLEMENT_INSTRUCTED" THEN "SETTLEMENT_FAILED" ELSE window
    /\ UNCHANGED <<facts, cap, mirror, inactive, untokened, attempts>>

ConfirmWithoutLegs ==
    /\ window = "SETTLEMENT_INSTRUCTED" /\ LiveRuns # {}
    /\ \A n \in LiveRuns : \E p \in DOMAIN runs[n].legs : runs[n].legs[p] = "SETTLED"
    /\ window' = "SETTLEMENT_CONFIRMED"
    /\ UNCHANGED <<facts, cap, mirror, inactive, untokened, runs, attempts>>

ConfirmSettlement ==
    /\ window = "SETTLEMENT_INSTRUCTED" /\ LiveRuns # {}
    /\ \A n \in LiveRuns : \A p \in DOMAIN runs[n].legs : runs[n].legs[p] \in {"NONE", "SETTLED"}
    /\ window' = "SETTLEMENT_CONFIRMED"
    /\ UNCHANGED <<facts, cap, mirror, inactive, untokened, runs, attempts>>
-----------------------------------------------------------------------------
Rounds == Cardinality({n \in DOMAIN runs : runs[n].excluded # "none"})
Superseded(n) ==
    [runs EXCEPT ![n].status = "SUPERSEDED",
                 ![n].legs = [p \in DOMAIN @ |->
                                 IF @[p] \in {"QUEUED", "SUBMITTED"} THEN "CANCELLED" ELSE @[p]]]

(* post_unwind_reversal of every forward entry that touches the participant, *)
(* keyed by the entry and the excluded participant.                          *)
Reversals(p) ==
    {<<e[1], p>> : e \in {f \in facts : f[2] = "none" /\ p \in {f[1].from, f[1].to}}}

(* unwind: the failed net debtor is taken out and the survivors are netted.  *)
Unwind(p) ==
    /\ window = "SETTLEMENT_FAILED" /\ Rounds < MaxUnwindRounds
    /\ \E n \in LiveRuns :
          /\ p \in DOMAIN runs[n].pos /\ runs[n].pos[p] < 0 /\ runs[n].legs[p] = "FAILED"
          /\ facts' = facts \cup Reversals(p)
          /\ mirror' = [q \in DOMAIN mirror |-> mirror[q] + Movement(Reversals(p), q)]
          /\ Compute(facts', mirror', Superseded(n), p)
    /\ UNCHANGED <<cap, inactive, untokened, attempts>>

NNext ==
    \/ TransitionWindow \/ ComputeWindow \/ ConfirmSettlement
    \/ \E t \in Transfers : PostTransfer(t)
    \/ \E p \in Participants : MarkParticipantSuspended(p) \/ Unwind(p)
    \/ \E p \in Participants, amt \in Caps : SetNetDebitCap(p, amt)
    \/ \E n \in DOMAIN runs : \E p \in DOMAIN runs[n].legs :
          MarkLegSubmitted(n, p) \/ RecordLegSettled(n, p) \/ RecordLegRejected(n, p)

NSpec == NInit /\ [][NNext]_nvars
-----------------------------------------------------------------------------
(* A window is confirmed only on one live run that nets to zero, agrees with *)
(* the ledger's entries and has every leg settled: confirm_settlement over   *)
(* what compute sealed, through failures, retries and unwinds.               *)
ConfirmedIsNetted ==
    window \in Settled =>
       /\ Cardinality(LiveRuns) = 1
       /\ \A n \in LiveRuns :
             /\ SumOf(runs[n].pos) = 0 /\ runs[n].pos = Derived(facts) /\ runs[n].pos = mirror
             /\ \A p \in DOMAIN runs[n].pos :
                   runs[n].legs[p] = IF runs[n].pos[p] = 0 THEN "NONE" ELSE "SETTLED"

(* After an unwind the excluded participant owes and is owed nothing.        *)
ExcludedIsOut ==
    \A n \in LiveRuns : runs[n].excluded # "none" => runs[n].pos[runs[n].excluded] = 0

(* ConfirmedIsNetted and ExcludedIsOut together: what a settlement window    *)
(* pays out is what its ledger entries net to, unwinds included.             *)
NettingHolds == ConfirmedIsNetted /\ ExcludedIsOut

(* A refused movement moves nothing: the maintained mirror agrees with the   *)
(* positions derived from the ledger, as the integrity check demands.        *)
MirrorMatchesLedger == mirror = Derived(facts)
=============================================================================
