------------------------------ MODULE MCBooks ------------------------------
(***************************************************************************)
(* The books: the ledger's writers and its verifier, the refunds of an     *)
(* intent, and a ledger whose tables are damaged.  The components share no *)
(* state; `part' says which of them a behaviour is about, so one run       *)
(* explores them side by side.                                             *)
(***************************************************************************)
EXTENDS Ledger, Refunds, TLC, SequencesExt

CONSTANTS Contents, MaxEntries, MaxDamage

VARIABLES part, honest, rows, kept, keptCps, damage

damageVars == <<honest, rows, kept, keptCps, damage>>
-----------------------------------------------------------------------------
(* What verify_chain notices: a ledger grows by append, then rows of its     *)
(* three tables are lost or altered, and the verdict is compared with what   *)
(* really happened to it.                                                    *)
CInit ==
    /\ honest = <<>> /\ rows = <<>> /\ kept = {} /\ keptCps = {} /\ damage = 0

HonestCheckpoints(s) == {CheckpointOf(s[i]) : i \in {j \in 1..Len(s) : s[j].is_checkpoint}}

Post(c) ==
    LET e == [id |-> IF honest = <<>> THEN 1 ELSE Len(honest), content |-> c] IN
    /\ damage = 0 /\ e.id <= MaxEntries
    /\ honest' = AppendChainEntry(honest, e)
    /\ rows' = honest'
    /\ kept' = kept \cup {e}
    /\ keptCps' = HonestCheckpoints(honest')
    /\ UNCHANGED damage

Damages == damage < MaxDamage /\ damage' = damage + 1 /\ UNCHANGED honest

LoseChainRow(i) ==
    Damages /\ rows' = RemoveAt(rows, i) /\ UNCHANGED <<kept, keptCps>>

(* A payload field of the row is overwritten, its hash is not.               *)
AlterChainRow(i, c) ==
    /\ Damages /\ rows[i].index > 0 /\ rows[i].entry.content # c
    /\ rows' = [rows EXCEPT ![i].entry.content = c]
    /\ UNCHANGED <<kept, keptCps>>

ClearCheckpointFlag(i) ==
    /\ Damages /\ rows[i].is_checkpoint
    /\ rows' = [rows EXCEPT ![i].is_checkpoint = FALSE]
    /\ UNCHANGED <<kept, keptCps>>

LoseEntry(e)  == Damages /\ kept' = kept \ {e} /\ UNCHANGED <<rows, keptCps>>

AlterEntry(e, c) ==
    /\ Damages /\ e.content # c
    /\ kept' = (kept \ {e}) \cup {[e EXCEPT !.content = c]}
    /\ UNCHANGED <<rows, keptCps>>

LoseCheckpoint(cp) == Damages /\ keptCps' = keptCps \ {cp} /\ UNCHANGED <<rows, kept>>

CNext ==
    \/ \E c \in Contents : Post(c)
    \/ \E i \in 1..Len(rows) :
         \/ LoseChainRow(i) \/ ClearCheckpointFlag(i)
         \/ \E c \in Contents : AlterChainRow(i, c)
    \/ \E e \in kept : LoseEntry(e) \/ \E c \in Contents : AlterEntry(e, c)
    \/ \E cp \in keptCps : LoseCheckpoint(cp)

(* What is left is a prefix of what was posted, in all three tables, and no  *)
(* checkpoint beyond it is left.                                             *)
IsHonestPrefix ==
    /\ IsPrefix(rows, honest)
    /\ kept = {rows[i].entry : i \in 2..Len(rows)}
    /\ keptCps \subseteq HonestCheckpoints(rows)

(* "Any gap, hash mismatch, checkpoint anomaly, payload mismatch against the *)
(* underlying kept rows or count mismatch": verify_chain passes exactly   *)
(* when the tables are those of an honest ledger, except that a tail above   *)
(* the last checkpoint may be missing from all of them.                      *)
VerifyIsExact == VerifyPasses(rows, kept, keptCps) <=> IsHonestPrefix
-----------------------------------------------------------------------------
books == <<part, vars, refunds, damageVars>>

InitBooks ==
    /\ part \in {"ledger", "refunds", "damage"}
    /\ Init /\ FInit /\ CInit

NextBooks ==
    \/ part = "ledger" /\ Next /\ UNCHANGED <<part, refunds, damageVars>>
    \/ part = "refunds" /\ FNext /\ UNCHANGED <<part, vars, damageVars>>
    \/ part = "damage" /\ CNext /\ UNCHANGED <<part, vars, refunds>>

SpecBooks == InitBooks /\ [][NextBooks]_books

Symmetry == Permutations(Writers) \cup Permutations(Holds) \cup Permutations(Keys)
                \cup Permutations(RefundIds) \cup Permutations(Agents)

(* Ledger.tla, Refunds.tla and the damage above: what was closed stays    *)
(* closed.  A closed hold and a settled refund are not touched by what comes *)
(* late, the gate engages on an honest chain only in a race with a writer,   *)
(* and verify_chain passes on damaged tables exactly when they are an honest *)
(* prefix.                                                                   *)
NothingIsReopened ==
    ClosedHoldIsFinal /\ SettledRefundIsFinal /\ AlarmNeedsRace /\ []VerifyIsExact
=============================================================================
