------------------------------- MODULE Ledger -------------------------------
(***************************************************************************)
(* bdpay.ledger.service over Postgres: journal entries, account holds and  *)
(* the MONEY hash chain, written by concurrent transactions, the verifier  *)
(* that reads them and the write gate.                                     *)
(*                                                                         *)
(* A transaction (`tx') appends any number of entries before it commits.   *)
(* READ COMMITTED: its reads see what is committed and its own writes.     *)
(* The unique index on idempotency_key makes an insert wait for another    *)
(* transaction's insert of the same key; the advisory lock on the chain    *)
(* tip, taken after that insert, is held to the end of the transaction.    *)
(*                                                                         *)
(* A chain row holds its index, the entry it points to with the content    *)
(* sealed into payload_hash, the previous hash and its own.  SHA-256 is    *)
(* taken to be collision free: the hash of a row is the sequence of        *)
(* everything hashed up to it.  A signature is the hash it signs.          *)
(***************************************************************************)
EXTENDS Integers, Sequences, FiniteSets

(* The hash chain of one ledger domain and the walk that verifies it         *)
(* (_append_chain_entry and _verify_chain_inner), as functions of what was   *)
(* read.                                                                     *)
CONSTANTS CHECKPOINT_INTERVAL, Genesis

ASSUME IntervalAssumption == CHECKPOINT_INTERVAL \in Nat \ {0}

ComputeEntryHash(prev, index, entry) == Append(prev, <<index, entry>>)

IsCheckpointIndex(i) == i > 0 /\ i % CHECKPOINT_INTERVAL = 0

NewRow(prev, index, entry) ==
    [index |-> index, entry |-> entry, prev |-> prev,
     hash  |-> ComputeEntryHash(prev, index, entry),
     is_checkpoint |-> IsCheckpointIndex(index),
     sig   |-> IF IsCheckpointIndex(index) THEN ComputeEntryHash(prev, index, entry) ELSE <<>>]

GenesisRow == NewRow(<<>>, 0, Genesis)

(* _append_chain_entry: the genesis row comes with the first entry.          *)
AppendChainEntry(rows, entry) ==
    LET base == IF rows = <<>> THEN <<GenesisRow>> ELSE rows
        tip  == base[Len(base)] IN
    Append(base, NewRow(tip.hash, tip.index + 1, entry))

CheckpointOf(row) == [to |-> row.index, hash |-> row.hash, sig |-> row.sig]

(* The row's journal entry exists and has the content that was sealed.       *)
DeepSound(row, journal) == row.index > 0 => row.entry \in journal

(* One row of the walk, after a predecessor with hash prev.                  *)
RowSound(row, expected, prev, journal) ==
    /\ row.index = expected
    /\ row.prev = prev
    /\ row.hash = ComputeEntryHash(prev, row.index, row.entry)
    /\ row.is_checkpoint = IsCheckpointIndex(row.index)
    /\ row.is_checkpoint => row.sig = row.hash
    /\ DeepSound(row, journal)

(* The rows are read in index order.                                         *)
WalkSound(rows, journal) ==
    \A i \in 1..Len(rows) :
        RowSound(rows[i], i - 1, IF i = 1 THEN <<>> ELSE rows[i - 1].hash, journal)

(* The cross-check of ledger_checkpoints, against a maximum index read before *)
(* the checkpoints were listed and the chain rows as they are now.           *)
CheckpointSound(cp, max, rows) ==
    /\ cp.to <= max
    /\ \E i \in 1..Len(rows) :
          rows[i].index = cp.to /\ rows[i].is_checkpoint
                                /\ rows[i].hash = cp.hash /\ rows[i].sig = cp.sig
    /\ cp.sig = cp.hash

CheckpointsSound(cps, max, rows) == \A cp \in cps : CheckpointSound(cp, max, rows)

(* Every journal entry has exactly one chain row: a comparison of counts.    *)
CountsAgree(rows, journal) == Cardinality(journal) = Len(rows) - 1

MaxIndex(rows) == IF rows = <<>> THEN -1 ELSE rows[Len(rows)].index

(* _verify_chain_inner over the whole MONEY domain, deep, all reads at once.  *)
VerifyPasses(rows, journal, cps) ==
    IF rows = <<>>
    THEN cps = {} /\ journal = {}
    ELSE /\ WalkSound(rows, journal)
         /\ CheckpointsSound(cps, MaxIndex(rows), rows)
         /\ CountsAgree(rows, journal)
-----------------------------------------------------------------------------
CONSTANTS
    Writers,
    Keys,            \* idempotency keys of post_journal_entry calls
    Holds,           \* hold ids (fresh for every open_hold that inserts)
    Amounts,         \* amount_minor of holds
    None

ASSUME LedgerAssumption == Amounts \subseteq Nat \ {0} /\ None \notin Holds

VARIABLES
    journal,   \* committed journal entries with their postings
    chain,     \* committed ledger_chain rows of MONEY
    cps,       \* committed ledger_checkpoints
    holds,     \* committed account_holds of one reference_id
    gate,      \* an uncleared write_gate row is committed
    tx,        \* the open transaction of each writer
    verify     \* the verifier

vars == <<journal, chain, cps, holds, gate, tx, verify>>

Outcomes   == {"CAPTURED", "VOIDED", "EXPIRED"}
Accounts   == {"source", "reserve", "merchant"}

(* An entry: its idempotency key and the postings (credit minus debit).      *)
NoPostings == [a \in Accounts |-> 0]
Transfer(from, to, n) == [NoPostings EXCEPT ![from] = -n, ![to] = n]
PostedEntry(k) == [key |-> <<"post", k>>, postings |-> Transfer("source", "merchant", 1)]

NoEntry == [key |-> <<>>, postings |-> NoPostings]
NoHold  == [status |-> "ABSENT", amount |-> 0, captured |-> 0]
NoTx == [at |-> "none", entry |-> NoEntry, hold |-> None, to |-> NoHold,
         journal |-> {}, rows |-> <<>>, holds |-> [h \in Holds |-> NoHold],
         touched |-> {}, reflock |-> FALSE, tip |-> FALSE]
Resting == [at |-> "idle", rows |-> <<>>, max |-> -1, verdict |-> "none"]

Init ==
    /\ journal = {} /\ chain = <<>> /\ cps = {} /\ gate = FALSE
    /\ holds = [h \in Holds |-> NoHold]
    /\ tx = [w \in Writers |-> NoTx]
    /\ verify = Resting

KeysOf(es) == {e.key : e \in es}
HoldNow(w, h) == IF h \in tx[w].touched THEN tx[w].holds[h] ELSE holds[h]
-----------------------------------------------------------------------------
(* The checks of _append_journal_entry that come before its first insert:    *)
(* the gate, then the idempotency key.                                       *)
ChecksPass(w, entry) ==
    /\ ~gate
    /\ entry.key \notin KeysOf(journal \cup tx[w].journal)

Starts(w, entry, h, to, reflock) ==
    /\ ChecksPass(w, entry)
    /\ tx' = [tx EXCEPT ![w].at = "checked", ![w].entry = entry, ![w].hold = h, ![w].to = to,
                        ![w].reflock = @ \/ reflock,
                        ![w].touched = IF h = None THEN @ ELSE @ \cup {h},
                        ![w].holds = IF h = None THEN @ ELSE [@ EXCEPT ![h] = HoldNow(w, h)]]
    /\ UNCHANGED <<journal, chain, cps, holds, gate, verify>>

Begin(w) ==
    /\ tx[w].at = "none"
    /\ tx' = [tx EXCEPT ![w].at = "open"]
    /\ UNCHANGED <<journal, chain, cps, holds, gate, verify>>

PostJournalEntry(w, k) ==
    tx[w].at = "open" /\ Starts(w, PostedEntry(k), None, NoHold, FALSE)

(* open_hold: under the advisory lock of the reference; an OPEN hold of the  *)
(* reference is returned, without a step.                                    *)
OpenHold(w, h, n) ==
    /\ tx[w].at = "open"
    /\ \A v \in Writers \ {w} : ~tx[v].reflock
    /\ \A g \in Holds : HoldNow(w, g).status # "OPEN"
    /\ HoldNow(w, h).status = "ABSENT"
    /\ \A v \in Writers \ {w} : h \notin tx[v].touched
    /\ Starts(w, [key |-> <<"hold_opened", h>>, postings |-> Transfer("source", "reserve", n)],
              h, [status |-> "OPEN", amount |-> n, captured |-> 0], TRUE)

(* The entry that closes a hold: a capture credits the account with what was *)
(* captured and the source with the rest; otherwise all of it goes back.     *)
ClosingEntry(h, outcome, amount, n) ==
    [key |-> <<outcome, h, n>>,
     postings |-> [source   |-> IF outcome = "CAPTURED" THEN amount - n ELSE amount,
                   reserve  |-> -amount,
                   merchant |-> IF outcome = "CAPTURED" THEN n ELSE 0]]

ReleaseHoldUnchecked(w, h, outcome, n) ==
    LET hold == HoldNow(w, h) IN
    /\ tx[w].at = "open" /\ hold.status # "ABSENT"
    /\ \A v \in Writers \ {w} : h \notin tx[v].touched
    /\ IF outcome = "CAPTURED" THEN n <= hold.amount ELSE n = hold.amount
    /\ Starts(w, ClosingEntry(h, outcome, hold.amount, n), h,
              [hold EXCEPT !.status = outcome, !.captured = IF outcome = "CAPTURED" THEN n ELSE 0],
              FALSE)

(* release_hold: under the row lock; only an OPEN hold is closed (the same   *)
(* outcome again is a no-op, another one refuses).                           *)
ReleaseHold(w, h, outcome, n) ==
    LET hold == HoldNow(w, h) IN
    /\ tx[w].at = "open"
    /\ \A v \in Writers \ {w} : h \notin tx[v].touched
    /\ hold.status = "OPEN"
    /\ IF outcome = "CAPTURED" THEN n <= hold.amount ELSE n = hold.amount
    /\ Starts(w, ClosingEntry(h, outcome, hold.amount, n), h,
              [hold EXCEPT !.status = outcome, !.captured = IF outcome = "CAPTURED" THEN n ELSE 0],
              FALSE)

(* insert_journal_entry and the postings.  The unique index waits for a      *)
(* concurrent insert of the key; a committed one raises (Rollback).          *)
InsertJournalEntry(w) ==
    /\ tx[w].at = "checked"
    /\ tx[w].entry.key \notin KeysOf(journal)
    /\ \A v \in Writers \ {w} : tx[w].entry.key \notin KeysOf(tx[v].journal)
    /\ tx' = [tx EXCEPT ![w].at = "inserted", ![w].journal = @ \cup {tx[w].entry}]
    /\ UNCHANGED <<journal, chain, cps, holds, gate, verify>>

(* The row that follows the tip, in this transaction.                        *)
Appended(w) ==
    IF tx[w].tip THEN AppendChainEntry(tx[w].rows, tx[w].entry)
                 ELSE AppendChainEntry(chain, tx[w].entry)

AppendChainUnlocked(w) ==
    /\ tx[w].at = "inserted"
    /\ tx' = [tx EXCEPT ![w].at = "open", ![w].tip = TRUE, ![w].rows = Appended(w),
                        ![w].holds = IF tx[w].hold = None THEN @
                                     ELSE [@ EXCEPT ![tx[w].hold] = tx[w].to]]
    /\ UNCHANGED <<journal, chain, cps, holds, gate, verify>>

(* _append_chain_entry under lock_chain_tip, the outbox row, and the hold's  *)
(* insert or update that follows.                                            *)
AppendChain(w) ==
    /\ tx[w].at = "inserted"
    /\ \A v \in Writers \ {w} : ~tx[v].tip
    /\ tx' = [tx EXCEPT ![w].at = "open", ![w].tip = TRUE, ![w].rows = Appended(w),
                        ![w].holds = IF tx[w].hold = None THEN @
                                     ELSE [@ EXCEPT ![tx[w].hold] = tx[w].to]]
    /\ UNCHANGED <<journal, chain, cps, holds, gate, verify>>

(* What ledger_checkpoints gains with the rows.                              *)
NewCheckpoints(rows) ==
    {CheckpointOf(rows[i]) : i \in {j \in 1..Len(rows) : rows[j].is_checkpoint}}

Commit(w) ==
    /\ tx[w].at = "open" /\ tx[w].tip
    /\ journal' = journal \cup tx[w].journal
    /\ chain' = chain \o SubSeq(tx[w].rows, Len(chain) + 1, Len(tx[w].rows))
    /\ cps' = cps \cup NewCheckpoints(tx[w].rows)
    /\ holds' = [h \in Holds |-> HoldNow(w, h)]
    /\ tx' = [tx EXCEPT ![w] = NoTx]
    /\ UNCHANGED <<gate, verify>>

(* Any refusal, a unique violation, a deadlock victim, or a crash.           *)
Rollback(w) ==
    /\ tx[w].at # "none"
    /\ tx' = [tx EXCEPT ![w] = NoTx]
    /\ UNCHANGED <<journal, chain, cps, holds, gate, verify>>
-----------------------------------------------------------------------------
(* verify_chain reads with single-statement autocommit: transactions commit  *)
(* between its reads.                                                        *)
Concludes(verdict) ==
    /\ verify' = [Resting EXCEPT !.verdict = verdict]
    /\ gate' = (gate \/ verdict = "FAILED_BROKEN_CHAIN")
    /\ UNCHANGED <<journal, chain, cps, holds, tx>>

(* iter_chain and the walk with its deep look at the journal; an empty chain *)
(* ends it at once.                                                          *)
ReadChain ==
    /\ verify.at = "idle"
    /\ IF chain = <<>>
       THEN Concludes(IF VerifyPasses(chain, journal, cps) THEN "COMPLETED"
                                                           ELSE "FAILED_BROKEN_CHAIN")
       ELSE IF WalkSound(chain, journal)
       THEN /\ verify' = [Resting EXCEPT !.at = "walked", !.rows = chain]
            /\ UNCHANGED <<journal, chain, cps, holds, gate, tx>>
       ELSE Concludes("FAILED_BROKEN_CHAIN")

ReadTip ==
    /\ verify.at = "walked"
    /\ verify' = [verify EXCEPT !.at = "tip", !.max = MaxIndex(chain)]
    /\ UNCHANGED <<journal, chain, cps, holds, gate, tx>>

ReadCheckpoints ==
    /\ verify.at = "tip"
    /\ IF CheckpointsSound(cps, verify.max, chain)
       THEN /\ verify' = [verify EXCEPT !.at = "compared"]
            /\ UNCHANGED <<journal, chain, cps, holds, gate, tx>>
       ELSE Concludes("FAILED_BROKEN_CHAIN")

CountJournal ==
    /\ verify.at = "compared"
    /\ Concludes(IF CountsAgree(verify.rows, journal) THEN "COMPLETED" ELSE "FAILED_BROKEN_CHAIN")

(* A read raises: the result is FAILED_ERROR.                                *)
VerifyRaises == Concludes("FAILED_ERROR")

WriterNext(w) ==
    \/ Begin(w)
    \/ \E k \in Keys : PostJournalEntry(w, k)
    \/ \E h \in Holds, n \in Amounts :
         \/ OpenHold(w, h, n)
         \/ \E outcome \in Outcomes : ReleaseHold(w, h, outcome, n)
    \/ InsertJournalEntry(w) \/ AppendChain(w) \/ Commit(w) \/ Rollback(w)

Next ==
    \/ \E w \in Writers : WriterNext(w)
    \/ ReadChain \/ ReadTip \/ ReadCheckpoints \/ CountJournal \/ VerifyRaises

Spec == Init /\ [][Next]_vars
-----------------------------------------------------------------------------
(* Whatever the transactions did concurrently, the committed tables pass the *)
(* verification: one chain without gaps or forks, one row for every entry,   *)
(* and a checkpoint for every CHECKPOINT_INTERVAL rows.                      *)
ChainAlwaysVerifies ==
    VerifyPasses(chain, journal, cps) /\ cps = NewCheckpoints(chain)

(* An idempotency key is posted at most once.                                *)
KeysPostOnce ==
    \A i, j \in 2..Len(chain) : chain[i].entry.key = chain[j].entry.key => i = j

(* Credits, debits and the holds, unit by unit.                              *)
Credits(a) == UNION {{e} \X (1 .. e.postings[a]) : e \in journal}
Debits(a) == UNION {{e} \X (1 .. -e.postings[a]) : e \in journal}
Balance(a) == Cardinality(Credits(a)) - Cardinality(Debits(a))

HeldUnits == UNION {{h} \X (1 .. holds[h].amount) : h \in {g \in Holds : holds[g].status = "OPEN"}}
CapturedUnits == UNION {{h} \X (1 .. holds[h].captured) : h \in Holds}
PlainPosts == Cardinality({e \in journal : e.key[1] = "post"})

(* The reserve account holds exactly the open holds; the merchant has exactly *)
(* what was captured; the three accounts cancel out.                         *)
HoldsAreFunded ==
    /\ Balance("reserve") = Cardinality(HeldUnits)
    /\ Balance("merchant") = Cardinality(CapturedUnits) + PlainPosts
    /\ Balance("source") + Balance("reserve") + Balance("merchant") = 0

(* The ledger is sound: a key posts once, open holds are funded, and the     *)
(* chain the writers leave verifies.                                         *)
LedgerIsSound == KeysPostOnce /\ HoldsAreFunded /\ ChainAlwaysVerifies

(* A closed hold never changes: a capture and a void of the same hold cannot *)
(* both commit.                                                              *)
ClosedHoldIsFinal ==
    [][\A h \in Holds : holds[h].status \in Outcomes => holds'[h] = holds[h]]_vars

(* The verifier alarms only if the chain grew between its reads: a walk that *)
(* overlaps no commit always passes.                                         *)
AlarmNeedsRace == [][~gate /\ gate' => chain # verify.rows]_vars

(* "verify_chain ... mutates the write gate when tamper is detected": on     *)
(* tables nobody tampered with, the gate stays open.                         *)
GateMeansTamper == ~gate
=============================================================================
