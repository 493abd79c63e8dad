---------------------------- MODULE BooksProofs ----------------------------
(***************************************************************************)
(* The ledger: LedgerIsSound, for every set of writers, keys, holds and    *)
(* amounts and every checkpoint interval; that a closed hold stays closed; *)
(* and that the verifier of an intact ledger alarms only when overtaken.   *)
(***************************************************************************)
EXTENDS Ledger, FiniteSetTheorems, TLAPS

(* A step that names no prover is tried with each of these in turn.         *)
USE ZenonT(2), SMT, Zenon, SMTT(30)

-----------------------------------------------------------------------------
(* What a transaction holds the row lock of, or inserted, no other one has,  *)
(* and it was not closed when the lock was taken.                            *)
LocksInv ==
    /\ DOMAIN tx = Writers /\ DOMAIN holds = Holds
    /\ \A w \in Writers : tx[w].touched \subseteq Holds
    /\ \A v, w \in Writers : v # w => tx[v].touched \cap tx[w].touched = {}
    /\ \A w \in Writers : \A h \in tx[w].touched : holds[h].status \notin Outcomes

Closed == \A h \in Holds : holds[h].status \in Outcomes => holds'[h] = holds[h]

LEMMA LocksInitially == Init => LocksInv
  BY DEF Init, LocksInv, NoTx

(* A writer takes the lock of at most one more hold, one that nobody has and *)
(* that is not closed.                                                       *)
LEMMA LocksTaken ==
    ASSUME LocksInv, NEW w \in Writers, holds' = holds, DOMAIN tx' = Writers,
           \A v \in Writers \ {w} : tx'[v] = tx[v],
           \A h \in tx'[w].touched \ tx[w].touched :
              /\ h \in Holds /\ holds[h].status \notin Outcomes
              /\ \A v \in Writers \ {w} : h \notin tx[v].touched
    PROVE  LocksInv' /\ Closed
  <1>1. Closed
    BY DEF Closed
  <1>2. \A v \in Writers : tx'[v].touched \subseteq Holds
    BY DEF LocksInv
  <1>3. \A v \in Writers : \A h \in tx'[v].touched : holds'[h].status \notin Outcomes
    BY DEF LocksInv
  <1>4. ASSUME NEW u \in Writers, NEW v \in Writers, u # v, NEW h \in tx'[u].touched,
               h \in tx'[v].touched
        PROVE  FALSE
    <2>1. CASE u = w
      BY <1>4, <2>1 DEF LocksInv
    <2>2. CASE v = w
      BY <1>4, <2>2 DEF LocksInv
    <2>3. CASE u # w /\ v # w
      BY <1>4, <2>3 DEF LocksInv
    <2> QED
      BY <2>1, <2>2, <2>3
  <1> QED
    BY <1>1, <1>2, <1>3, <1>4 DEF LocksInv

LEMMA StartsLocks ==
    ASSUME LocksInv, NEW w \in Writers, NEW h, NEW entry, NEW to, NEW reflock,
           Starts(w, entry, h, to, reflock),
           h # None => /\ h \in Holds /\ HoldNow(w, h).status \notin Outcomes
                       /\ \A v \in Writers \ {w} : h \notin tx[v].touched
    PROVE  LocksInv' /\ Closed
  <1>1. holds' = holds /\ DOMAIN tx' = Writers /\ \A v \in Writers \ {w} : tx'[v] = tx[v]
    BY DEF Starts, LocksInv
  <1>2. tx'[w].touched = IF h = None THEN tx[w].touched ELSE tx[w].touched \cup {h}
    BY DEF Starts, LocksInv
  <1>3. \A g \in tx'[w].touched \ tx[w].touched :
              /\ g \in Holds /\ holds[g].status \notin Outcomes
              /\ \A v \in Writers \ {w} : g \notin tx[v].touched
    BY <1>2 DEF HoldNow
  <1> QED
    BY <1>1, <1>3, LocksTaken

LEMMA LocksStep == LocksInv /\ [Next]_vars => LocksInv' /\ Closed
  <1> SUFFICES ASSUME LocksInv, [Next]_vars PROVE LocksInv' /\ Closed
    OBVIOUS
  <1>1. ASSUME NEW w \in Writers, Begin(w) \/ InsertJournalEntry(w) \/ AppendChain(w)
        PROVE  LocksInv' /\ Closed
    <2>1. /\ holds' = holds /\ DOMAIN tx' = Writers /\ \A v \in Writers \ {w} : tx'[v] = tx[v]
          /\ tx'[w].touched = tx[w].touched
      <3>1. CASE Begin(w)
        BY <3>1 DEF Begin, LocksInv
      <3>2. CASE InsertJournalEntry(w)
        BY <3>2 DEF InsertJournalEntry, LocksInv
      <3>3. CASE AppendChain(w)
        BY <3>3 DEF AppendChain, LocksInv
      <3> QED
        BY <1>1, <3>1, <3>2, <3>3
    <2> QED
      BY <2>1, LocksTaken
  <1>2. ASSUME NEW w \in Writers, NEW k \in Keys, PostJournalEntry(w, k)
        PROVE  LocksInv' /\ Closed
    BY <1>2, StartsLocks DEF PostJournalEntry
  <1>3. ASSUME NEW w \in Writers, NEW h \in Holds, NEW n \in Amounts, OpenHold(w, h, n)
        PROVE  LocksInv' /\ Closed
    <2>1. /\ HoldNow(w, h).status \notin Outcomes
          /\ \A v \in Writers \ {w} : h \notin tx[v].touched
      BY <1>3 DEF OpenHold, Outcomes
    <2>2. PICK entry, to : Starts(w, entry, h, to, TRUE)
      BY <1>3 DEF OpenHold
    <2> QED
      BY <2>1, <2>2, StartsLocks
  <1>4. ASSUME NEW w \in Writers, NEW h \in Holds, NEW n \in Amounts, NEW outcome \in Outcomes,
               ReleaseHold(w, h, outcome, n)
        PROVE  LocksInv' /\ Closed
    <2>1. /\ HoldNow(w, h).status \notin Outcomes
          /\ \A v \in Writers \ {w} : h \notin tx[v].touched
      BY <1>4 DEF ReleaseHold, Outcomes
    <2>2. PICK entry, to : Starts(w, entry, h, to, FALSE)
      BY <1>4 DEF ReleaseHold
    <2> QED
      BY <2>1, <2>2, StartsLocks
  <1>5. ASSUME NEW w \in Writers, tx' = [tx EXCEPT ![w] = NoTx]
        PROVE  /\ DOMAIN tx' = Writers /\ \A v \in Writers \ {w} : tx'[v] = tx[v]
               /\ tx'[w].touched = {}
    BY <1>5 DEF LocksInv, NoTx
  <1>6. ASSUME NEW w \in Writers, Rollback(w) PROVE LocksInv' /\ Closed
    BY <1>5, <1>6, LocksTaken DEF Rollback
  <1>7. ASSUME NEW w \in Writers, Commit(w) PROVE LocksInv' /\ Closed
    <2>1. /\ DOMAIN tx' = Writers /\ \A v \in Writers \ {w} : tx'[v] = tx[v]
          /\ tx'[w].touched = {}
      BY <1>5, <1>7 DEF Commit
    <2>2. DOMAIN holds' = Holds /\ \A h \in Holds \ tx[w].touched : holds'[h] = holds[h]
      BY <1>7 DEF Commit, HoldNow
    <2>3. Closed
      BY <2>2 DEF Closed, LocksInv
    <2>4. \A v \in Writers : \A h \in tx'[v].touched : h \in Holds \ tx[w].touched
      BY <2>1 DEF LocksInv
    <2>5. LocksInv'
      BY <2>1, <2>2, <2>4 DEF LocksInv
    <2> QED
      BY <2>3, <2>5
  <1>8. CASE ReadChain \/ ReadTip \/ ReadCheckpoints \/ CountJournal \/ VerifyRaises \/ UNCHANGED vars
    <2>1. UNCHANGED <<tx, holds>>
      BY <1>8 DEF ReadChain, ReadTip, ReadCheckpoints, CountJournal, VerifyRaises, Concludes, vars
    <2> QED
      BY <2>1 DEF LocksInv, Closed
  <1> QED
    BY <1>1, <1>2, <1>3, <1>4, <1>6, <1>7, <1>8 DEF Next, WriterNext

(* For any number of writers, keys, holds and amounts: whatever the          *)
(* transactions read and commit concurrently, a hold that release_hold has   *)
(* closed is never captured, voided or expired again.                        *)
THEOREM ClosedHoldsStay == Spec => ClosedHoldIsFinal
  <1>1. LocksInv /\ [Next]_vars => [Closed]_vars
    BY LocksStep
  <1>2. ClosedHoldIsFinal <=> [][Closed]_vars
    BY PTL DEF ClosedHoldIsFinal, Closed
  <1> QED
    BY LocksInitially, LocksStep, <1>1, <1>2, PTL DEF Spec

(* The entries of a transaction that are in its chain: all but the one it    *)
(* has inserted and not appended yet.                                        *)
Chained(w) == IF tx[w].at = "inserted" THEN tx[w].journal \ {tx[w].entry} ELSE tx[w].journal

IsSequence(rows) == \E S : rows \in Seq(S)

(* A chain that verifies against the entries J, with every key once.         *)
Good(rows, J) ==
    /\ IsSequence(rows) /\ IsFiniteSet(J)
    /\ rows = <<>> => J = {}
    /\ rows # <<>> => WalkSound(rows, J) /\ CountsAgree(rows, J)
    /\ \A i, j \in 2..Len(rows) : rows[i].entry.key = rows[j].entry.key => i = j

(* The rows of a transaction that has the tip extend the committed ones.     *)
Extends(rows, base) ==
    Len(base) <= Len(rows) /\ \A i \in 1..Len(base) : rows[i] = base[i]

(* One transaction has the tip, its rows verify with what it has chained,    *)
(* and no key is inserted twice.                                             *)
TxOK(w) ==
    /\ tx[w].at \in {"none", "open", "checked", "inserted"}
    /\ tx[w].at = "none" => tx[w].journal = {} /\ ~tx[w].tip
    /\ tx[w].at = "checked" => tx[w].entry.key \notin KeysOf(tx[w].journal)
    /\ tx[w].at = "inserted" => /\ tx[w].entry \in tx[w].journal
                                /\ tx[w].entry.key \notin KeysOf(Chained(w))
    /\ KeysOf(tx[w].journal) \cap KeysOf(journal) = {}
    /\ tx[w].tip => /\ Good(tx[w].rows, journal \cup Chained(w))
                    /\ Extends(tx[w].rows, chain)
    /\ ~tx[w].tip => Chained(w) = {}

Apart(v, w) ==
    ~(tx[v].tip /\ tx[w].tip) /\ KeysOf(tx[v].journal) \cap KeysOf(tx[w].journal) = {}

ChainInv ==
    /\ DOMAIN tx = Writers
    /\ Good(chain, journal) /\ cps = NewCheckpoints(chain)
    /\ \A w \in Writers : TxOK(w)
    /\ \A v, w \in Writers : v # w => Apart(v, w)

-----------------------------------------------------------------------------
(* The entries a hold's row stands for.                                      *)
OpeningEntry(h, n) ==
    [key |-> <<"hold_opened", h>>, postings |-> Transfer("source", "reserve", n)]
ClosedBy(h, row) ==
    ClosingEntry(h, row.status, row.amount,
                 IF row.status = "CAPTURED" THEN row.captured ELSE row.amount)
EntriesFor(h, row) ==
    (IF row.status = "ABSENT" THEN {} ELSE {OpeningEntry(h, row.amount)})
        \cup (IF row.status \in Outcomes THEN {ClosedBy(h, row)} ELSE {})

HoldRows ==
    {row \in [status : {"ABSENT", "OPEN"} \cup Outcomes, amount : Nat, captured : Nat] :
        /\ row.status # "ABSENT" => row.amount > 0
        /\ row.captured <= row.amount
        /\ row.status # "CAPTURED" => row.captured = 0}

IsPost(e) == \E k \in Keys : e = PostedEntry(k)
IsOf(e, h) == e.key[1] # "post" /\ e.key[2] = h
EntriesOf(J, h) == {e \in J : IsOf(e, h)}

(* What a transaction is about to append: a plain entry, or the one by which *)
(* a hold it has locked becomes the row it will write.                       *)
Pending(w) ==
    \/ tx[w].hold = None /\ IsPost(tx[w].entry)
    \/ /\ tx[w].hold \in tx[w].touched /\ tx[w].to \in HoldRows
       /\ IsOf(tx[w].entry, tx[w].hold)
       /\ EntriesFor(tx[w].hold, tx[w].to)
            = EntriesFor(tx[w].hold, tx[w].holds[tx[w].hold]) \cup {tx[w].entry}

(* The journal holds the entries of the committed rows and no others; what a *)
(* transaction has appended are those of the rows it has locked.             *)
BooksOK(w) ==
    /\ tx[w].touched \subseteq Holds /\ tx[w].holds \in [Holds -> HoldRows]
    /\ \A e \in tx[w].journal : IsPost(e) \/ \E h \in tx[w].touched : IsOf(e, h)
    /\ \A h \in tx[w].touched :
          EntriesOf(journal \cup Chained(w), h) = EntriesFor(h, tx[w].holds[h])
    /\ tx[w].at \in {"checked", "inserted"} => Pending(w)

BalanceInv ==
    /\ holds \in [Holds -> HoldRows]
    /\ \A e \in journal : IsPost(e) \/ \E h \in Holds : IsOf(e, h)
    /\ \A h \in Holds : EntriesOf(journal, h) = EntriesFor(h, holds[h])
    /\ \A w \in Writers : BooksOK(w)

LedgerInv == LocksInv /\ ChainInv /\ BalanceInv

LEMMA Appending ==
    ASSUME NEW s, IsSequence(s), NEW x
    PROVE  /\ IsSequence(Append(s, x)) /\ Len(s) \in Nat
           /\ Append(s, x) # <<>> /\ Len(Append(s, x)) = Len(s) + 1
           /\ \A i \in 1..Len(s) : Append(s, x)[i] = s[i]
           /\ Append(s, x)[Len(s) + 1] = x
  <1>1. PICK S : s \in Seq(S)
    BY DEF IsSequence
  <1>2. s \in Seq(S \cup {x})
    BY <1>1
  <1>3. Append(s, x) \in Seq(S \cup {x})
    BY <1>2
  <1> QED
    BY <1>2, <1>3 DEF IsSequence

(* A row on top of a chain that verifies: the walk goes on over it.          *)
LEMMA WalkGoesOn ==
    ASSUME NEW base, NEW J, NEW e, IsSequence(base), Len(base) \in Nat \ {0},
           WalkSound(base, J)
    PROVE  LET tip == base[Len(base)]
           IN  WalkSound(Append(base, NewRow(tip.hash, tip.index + 1, e)), J \cup {e})
  <1> DEFINE n == Len(base)
             row == NewRow(base[n].hash, base[n].index + 1, e)
             next == Append(base, row)
  <1>1. /\ Len(next) = n + 1 /\ next[n + 1] = row /\ \A i \in 1..n : next[i] = base[i]
    BY Appending
  <1>2. base[n].index = n - 1
    BY DEF WalkSound, RowSound
  <1>3. /\ row.index = n /\ row.prev = base[n].hash /\ row.entry = e
        /\ row.hash = ComputeEntryHash(row.prev, row.index, row.entry)
        /\ row.is_checkpoint = IsCheckpointIndex(row.index)
        /\ row.is_checkpoint => row.sig = row.hash
    BY <1>2 DEF NewRow
  <1>4. RowSound(row, n, base[n].hash, J \cup {e})
    BY <1>3 DEF RowSound, DeepSound
  <1>5. ASSUME NEW i \in 1..n
        PROVE  RowSound(base[i], i - 1, IF i = 1 THEN <<>> ELSE base[i - 1].hash, J \cup {e})
    BY DEF WalkSound, RowSound, DeepSound
  <1> HIDE DEF row, next
  <1>6. ASSUME NEW i \in 1..(n + 1)
        PROVE  RowSound(next[i], i - 1, IF i = 1 THEN <<>> ELSE next[i - 1].hash, J \cup {e})
    <2>1. CASE i = n + 1
      <3>1. next[i] = row /\ i - 1 = n /\ i # 1 /\ next[i - 1] = base[n]
        BY <1>1, <2>1
      <3> QED
        BY <1>4, <3>1
    <2>2. CASE i \in 1..n
      <3>1. next[i] = base[i] /\ (i # 1 => next[i - 1] = base[i - 1])
        BY <1>1, <2>2
      <3> QED
        BY <1>5, <2>2, <3>1
    <2> QED
      BY <2>1, <2>2
  <1>7. WalkSound(next, J \cup {e})
    BY <1>1, <1>6 DEF WalkSound
  <1> QED
    BY <1>7 DEF next, row

LEMMA GoodAppends ==
    ASSUME NEW rows, NEW J, NEW e, Good(rows, J), e.key \notin KeysOf(J)
    PROVE  /\ Good(AppendChainEntry(rows, e), J \cup {e})
           /\ Extends(AppendChainEntry(rows, e), rows)
  <1> DEFINE base == IF rows = <<>> THEN <<GenesisRow>> ELSE rows
             n == Len(base)
             row == NewRow(base[n].hash, base[n].index + 1, e)
             next == Append(base, row)
  <1>1. /\ IsSequence(base) /\ n \in Nat \ {0} /\ WalkSound(base, J)
        /\ Cardinality(J) = n - 1 /\ Extends(base, rows)
        /\ \A i, j \in 2..n : base[i].entry.key = base[j].entry.key => i = j
    <2>1. CASE rows = <<>>
      <3>1. base = <<GenesisRow>> /\ J = {} /\ n = 1
        BY <2>1 DEF Good
      <3>2. IsSequence(base) /\ base[1] = GenesisRow
        <4>1. \A g : <<g>> \in Seq({g}) /\ <<g>>[1] = g
          OBVIOUS
        <4> QED
          BY <3>1, <4>1 DEF IsSequence
      <3>3. RowSound(GenesisRow, 0, <<>>, J)
        <4>1. /\ GenesisRow.index = 0 /\ GenesisRow.prev = <<>>
              /\ GenesisRow.hash = ComputeEntryHash(GenesisRow.prev, GenesisRow.index, GenesisRow.entry)
              /\ GenesisRow.is_checkpoint = IsCheckpointIndex(GenesisRow.index)
              /\ GenesisRow.is_checkpoint => GenesisRow.sig = GenesisRow.hash
          BY DEF GenesisRow, NewRow
        <4> QED
          BY <4>1 DEF RowSound, DeepSound
      <3>4. WalkSound(base, J)
        BY <3>1, <3>2, <3>3 DEF WalkSound
      <3>5. Cardinality(J) = 0
        BY <3>1, FS_EmptySet
      <3>6. Extends(base, rows)
        BY <2>1, <3>1 DEF Extends
      <3> HIDE DEF base
      <3> QED
        BY <3>1, <3>2, <3>4, <3>5, <3>6
    <2>2. CASE rows # <<>>
      <3>1. base = rows /\ WalkSound(rows, J) /\ Cardinality(J) = Len(rows) - 1 /\ IsSequence(rows)
        BY <2>2 DEF Good, CountsAgree
      <3>2. PICK S : rows \in Seq(S)
        BY <3>1 DEF IsSequence
      <3>3. Len(rows) \in Nat \ {0}
        BY <2>2, <3>2
      <3> QED
        BY <3>1, <3>3 DEF Good, Extends
    <2> QED
      BY <2>1, <2>2
  <1> HIDE DEF base
  <1>2. /\ IsSequence(next) /\ next # <<>> /\ Len(next) = n + 1 /\ next[n + 1] = row
        /\ \A i \in 1..n : next[i] = base[i]
    BY <1>1, Appending
  <1>3. WalkSound(next, J \cup {e})
    BY <1>1, WalkGoesOn
  <1>4. IsFiniteSet(J) /\ e \notin J
    BY DEF Good, KeysOf
  <1>5. IsFiniteSet(J \cup {e}) /\ Cardinality(J \cup {e}) = Cardinality(J) + 1
    BY <1>4, FS_AddElement
  <1>6. CountsAgree(next, J \cup {e})
    BY <1>1, <1>2, <1>5 DEF CountsAgree
  <1>7. row.entry = e
    BY DEF NewRow
  <1>8. \A i \in 2..n : base[i].entry.key \in KeysOf(J)
    BY <1>1 DEF WalkSound, RowSound, DeepSound, KeysOf
  <1> HIDE DEF next, row
  <1>9. \A i, j \in 2..Len(next) : next[i].entry.key = next[j].entry.key => i = j
    <2> SUFFICES ASSUME NEW i \in 2..(n + 1), NEW j \in 2..(n + 1),
                        next[i].entry.key = next[j].entry.key
                 PROVE  i = j
      BY <1>2
    <2>1. CASE i \in 2..n /\ j \in 2..n
      BY <1>1, <1>2, <2>1
    <2>2. CASE i = n + 1 /\ j \in 2..n
      BY <1>1, <1>2, <1>7, <1>8, <2>2
    <2>3. CASE j = n + 1 /\ i \in 2..n
      BY <1>1, <1>2, <1>7, <1>8, <2>3
    <2> QED
      BY <1>1, <2>1, <2>2, <2>3
  <1>10. Good(next, J \cup {e})
    BY <1>2, <1>3, <1>5, <1>6, <1>9 DEF Good
  <1>11. Extends(next, rows)
    <2>1. PICK S : rows \in Seq(S)
      BY DEF Good, IsSequence
    <2> QED
      BY <1>1, <1>2, <2>1 DEF Extends
  <1>12. AppendChainEntry(rows, e) = next
    BY DEF AppendChainEntry, base, next, row
  <1> QED
    BY <1>10, <1>11, <1>12

LEMMA Extending ==
    ASSUME NEW a, NEW b, NEW c, IsSequence(a), IsSequence(b), IsSequence(c),
           Extends(c, b), Extends(b, a)
    PROVE  Extends(c, a) /\ Extends(a, a)
  <1>1. Len(a) \in Nat /\ Len(b) \in Nat /\ Len(c) \in Nat
    BY DEF IsSequence
  <1> QED
    BY <1>1 DEF Extends

(* One transaction moves and the committed tables stay.                      *)
LEMMA OneTxMoves ==
    ASSUME ChainInv, NEW w \in Writers, UNCHANGED <<journal, chain, cps>>,
           DOMAIN tx' = Writers, \A v \in Writers \ {w} : tx'[v] = tx[v], TxOK(w)',
           \A v \in Writers \ {w} : Apart(v, w)'
    PROVE  ChainInv'
  <1>1. ASSUME NEW v \in Writers \ {w} PROVE TxOK(v)'
    <2>1. Chained(v)' = Chained(v)
      BY DEF Chained
    <2> QED
      BY <2>1 DEF ChainInv, TxOK
  <1>2. ASSUME NEW u \in Writers, NEW v \in Writers, u # v PROVE Apart(u, v)'
    BY <1>2 DEF ChainInv, Apart
  <1>3. Good(chain, journal)' /\ (cps = NewCheckpoints(chain))'
    BY DEF ChainInv
  <1> QED
    BY <1>1, <1>2, <1>3 DEF ChainInv

(* The steps of a writer that leave its entries and rows as they are.        *)
LEMMA TxKeepsRows ==
    ASSUME ChainInv, NEW w \in Writers, UNCHANGED <<journal, chain, cps>>,
           DOMAIN tx' = Writers, \A v \in Writers \ {w} : tx'[v] = tx[v],
           tx[w].at # "inserted", tx'[w].at \in {"open", "checked"},
           tx'[w].at = "checked" => tx'[w].entry.key \notin KeysOf(tx[w].journal),
           tx'[w].journal = tx[w].journal, tx'[w].rows = tx[w].rows, tx'[w].tip = tx[w].tip
    PROVE  ChainInv'
  <1>1. Chained(w)' = Chained(w)
    BY DEF Chained
  <1>2. TxOK(w)'
    BY <1>1 DEF ChainInv, TxOK
  <1>3. \A v \in Writers \ {w} : Apart(v, w)'
    BY DEF ChainInv, Apart
  <1> QED
    BY <1>2, <1>3, OneTxMoves

LEMMA ChainStarts ==
    ASSUME ChainInv, NEW w \in Writers, NEW entry, NEW h, NEW to, NEW reflock,
           tx[w].at = "open", Starts(w, entry, h, to, reflock)
    PROVE  ChainInv'
  <1>1. /\ UNCHANGED <<journal, chain, cps>> /\ DOMAIN tx' = Writers
        /\ \A v \in Writers \ {w} : tx'[v] = tx[v]
        /\ tx'[w].at = "checked" /\ tx'[w].entry = entry
        /\ tx'[w].journal = tx[w].journal /\ tx'[w].rows = tx[w].rows /\ tx'[w].tip = tx[w].tip
    BY DEF Starts, ChainInv
  <1>2. entry.key \notin KeysOf(tx[w].journal)
    BY DEF Starts, ChecksPass, KeysOf
  <1> QED
    BY <1>1, <1>2, TxKeepsRows

LEMMA ChainInserts ==
    ASSUME ChainInv, NEW w \in Writers, InsertJournalEntry(w)
    PROVE  ChainInv' /\ Chained(w)' = Chained(w)
  <1>1. /\ UNCHANGED <<journal, chain, cps>> /\ DOMAIN tx' = Writers
        /\ \A v \in Writers \ {w} : tx'[v] = tx[v]
        /\ tx[w].at = "checked" /\ tx'[w].at = "inserted" /\ tx'[w].entry = tx[w].entry
        /\ tx'[w].journal = tx[w].journal \cup {tx[w].entry}
        /\ tx'[w].rows = tx[w].rows /\ tx'[w].tip = tx[w].tip
    BY DEF InsertJournalEntry, ChainInv
  <1>2. /\ tx[w].entry.key \notin KeysOf(journal) /\ TxOK(w)
        /\ \A v \in Writers \ {w} : tx[w].entry.key \notin KeysOf(tx[v].journal)
    BY DEF InsertJournalEntry, ChainInv
  <1>3. tx[w].entry.key \notin KeysOf(tx[w].journal) /\ tx[w].entry \notin tx[w].journal
    BY <1>1, <1>2 DEF TxOK, KeysOf
  <1>4. Chained(w)' = Chained(w) /\ Chained(w) = tx[w].journal
    BY <1>1, <1>3 DEF Chained
  <1>5. KeysOf(tx'[w].journal) = KeysOf(tx[w].journal) \cup {tx[w].entry.key}
    BY <1>1 DEF KeysOf
  <1>6. TxOK(w)'
    BY <1>1, <1>2, <1>3, <1>4, <1>5 DEF TxOK
  <1>7. \A v \in Writers \ {w} : Apart(v, w)'
    BY <1>1, <1>2, <1>5 DEF ChainInv, Apart
  <1> QED
    BY <1>1, <1>4, <1>6, <1>7, OneTxMoves

LEMMA ChainAppends ==
    ASSUME ChainInv, NEW w \in Writers, AppendChain(w)
    PROVE  /\ ChainInv' /\ Chained(w)' = Chained(w) \cup {tx[w].entry}
           /\ UNCHANGED <<journal, holds>> /\ DOMAIN tx' = Writers
           /\ \A v \in Writers \ {w} : tx'[v] = tx[v]
           /\ tx[w].at = "inserted" /\ tx'[w].at = "open"
           /\ tx'[w].journal = tx[w].journal /\ tx'[w].touched = tx[w].touched
           /\ tx'[w].holds = IF tx[w].hold = None THEN tx[w].holds
                             ELSE [tx[w].holds EXCEPT ![tx[w].hold] = tx[w].to]
  <1>1. /\ UNCHANGED <<journal, chain, cps, holds>> /\ DOMAIN tx' = Writers
        /\ \A v \in Writers \ {w} : tx'[v] = tx[v]
        /\ tx[w].at = "inserted" /\ tx'[w].at = "open" /\ tx'[w].tip
        /\ tx'[w].journal = tx[w].journal /\ tx'[w].touched = tx[w].touched
        /\ tx'[w].rows = Appended(w)
        /\ tx'[w].holds = IF tx[w].hold = None THEN tx[w].holds
                          ELSE [tx[w].holds EXCEPT ![tx[w].hold] = tx[w].to]
    BY DEF AppendChain, ChainInv
  <1>2. TxOK(w) /\ \A v \in Writers \ {w} : ~tx[v].tip
    BY DEF AppendChain, ChainInv
  <1>3. Chained(w) = tx[w].journal \ {tx[w].entry} /\ Chained(w)' = tx[w].journal
    BY <1>1 DEF Chained
  <1>4. Chained(w)' = Chained(w) \cup {tx[w].entry}
    BY <1>1, <1>2, <1>3 DEF TxOK
  <1>5. tx[w].entry.key \notin KeysOf(journal \cup Chained(w))
    <2>1. tx[w].entry.key \in KeysOf(tx[w].journal)
      BY <1>1, <1>2 DEF TxOK, KeysOf
    <2>2. tx[w].entry.key \notin KeysOf(journal) /\ tx[w].entry.key \notin KeysOf(Chained(w))
      BY <1>1, <1>2, <2>1 DEF TxOK
    <2> QED
      BY <2>2 DEF KeysOf
  <1>6. /\ Good(tx'[w].rows, journal \cup (Chained(w) \cup {tx[w].entry}))
        /\ Extends(tx'[w].rows, chain)
    <2>1. CASE tx[w].tip
      <3>1. Good(tx[w].rows, journal \cup Chained(w)) /\ Extends(tx[w].rows, chain)
        BY <1>2, <2>1 DEF TxOK
      <3>2. tx'[w].rows = AppendChainEntry(tx[w].rows, tx[w].entry)
        BY <1>1, <2>1 DEF Appended
      <3>3. /\ Good(tx'[w].rows, (journal \cup Chained(w)) \cup {tx[w].entry})
            /\ Extends(tx'[w].rows, tx[w].rows)
        BY <1>5, <3>1, <3>2, GoodAppends
      <3>4. IsSequence(tx'[w].rows) /\ IsSequence(tx[w].rows) /\ IsSequence(chain)
        BY <3>1, <3>3 DEF Good, ChainInv
      <3>5. Extends(tx'[w].rows, chain)
        BY <3>1, <3>3, <3>4, Extending
      <3>6. (journal \cup Chained(w)) \cup {tx[w].entry} = journal \cup (Chained(w) \cup {tx[w].entry})
        OBVIOUS
      <3> QED
        BY <3>3, <3>5, <3>6
    <2>2. CASE ~tx[w].tip
      <3>1. Good(chain, journal) /\ Chained(w) = {}
        BY <1>2, <2>2 DEF TxOK, ChainInv
      <3>2. tx'[w].rows = AppendChainEntry(chain, tx[w].entry)
        BY <1>1, <2>2 DEF Appended
      <3>3. tx[w].entry.key \notin KeysOf(journal)
        BY <1>5, <3>1
      <3>4. /\ Good(tx'[w].rows, journal \cup {tx[w].entry}) /\ Extends(tx'[w].rows, chain)
        BY <3>1, <3>2, <3>3, GoodAppends
      <3>5. journal \cup {tx[w].entry} = journal \cup (Chained(w) \cup {tx[w].entry})
        BY <3>1
      <3> QED
        BY <3>4, <3>5
    <2> QED
      BY <2>1, <2>2
  <1>7. TxOK(w)'
    BY <1>1, <1>2, <1>4, <1>6 DEF TxOK
  <1>8. \A v \in Writers \ {w} : Apart(v, w)'
    BY <1>1, <1>2 DEF ChainInv, Apart
  <1> QED
    BY <1>1, <1>4, <1>7, <1>8, OneTxMoves

LEMMA SameRows ==
    ASSUME NEW a, NEW b, IsSequence(a), IsSequence(b), Len(a) = Len(b),
           \A i \in 1..Len(a) : a[i] = b[i]
    PROVE  a = b
  <1>1. ASSUME NEW s, IsSequence(s) PROVE s = [i \in 1..Len(s) |-> s[i]]
    <2>1. PICK S : s \in Seq(S)
      BY <1>1 DEF IsSequence
    <2>2. s \in [1..Len(s) -> S]
      BY <2>1
    <2> QED
      BY <2>2, Zenon
  <1> QED
    BY <1>1, Zenon

(* What a commit adds to the chain makes it the transaction's rows.          *)
LEMMA CommittedRows ==
    ASSUME NEW base, NEW rows, IsSequence(base), IsSequence(rows), Extends(rows, base)
    PROVE  /\ base \o SubSeq(rows, Len(base) + 1, Len(rows)) = rows
           /\ NewCheckpoints(base) \cup NewCheckpoints(rows) = NewCheckpoints(rows)
  <1> DEFINE m == Len(base)
             n == Len(rows)
             more == SubSeq(rows, m + 1, n)
  <1>1. PICK S : base \in Seq(S)
    BY DEF IsSequence
  <1>2. PICK T : rows \in Seq(T)
    BY DEF IsSequence
  <1>3. m \in Nat /\ n \in Nat /\ m <= n /\ \A i \in 1..m : rows[i] = base[i]
    BY <1>1, <1>2 DEF Extends
  <1>4. more \in Seq(T) /\ Len(more) = n - m /\ \A i \in 1..(n - m) : more[i] = rows[m + i]
    BY <1>2, <1>3
  <1> HIDE DEF more
  <1>5. base \in Seq(S \cup T) /\ more \in Seq(S \cup T) /\ rows \in Seq(S \cup T)
    BY <1>1, <1>2, <1>4
  <1>6. /\ base \o more \in Seq(S \cup T) /\ Len(base \o more) = n
        /\ \A i \in 1..n : (base \o more)[i] = IF i <= m THEN base[i] ELSE more[i - m]
    BY <1>3, <1>4, <1>5
  <1>7. \A i \in 1..n : (base \o more)[i] = rows[i]
    <2> SUFFICES ASSUME NEW i \in 1..n, i > m PROVE more[i - m] = rows[i]
      BY <1>3, <1>6
    <2>1. i - m \in 1..(n - m) /\ m + (i - m) = i
      BY <1>3
    <2> QED
      BY <1>4, <2>1
  <1>8. base \o more = rows
    <2>1. IsSequence(base \o more)
      BY <1>6 DEF IsSequence
    <2> QED
      BY <1>6, <1>7, <2>1, SameRows
  <1>9. NewCheckpoints(base) \subseteq NewCheckpoints(rows)
    BY <1>3 DEF NewCheckpoints
  <1> QED
    BY <1>8, <1>9 DEF more

LEMMA ChainCommits ==
    ASSUME ChainInv, NEW w \in Writers, Commit(w)
    PROVE  /\ ChainInv' /\ Chained(w) = tx[w].journal
           /\ \A v \in Writers \ {w} : tx'[v] = tx[v]
           /\ tx'[w] = NoTx
  <1>1. /\ tx[w].at = "open" /\ tx[w].tip /\ journal' = journal \cup tx[w].journal
        /\ DOMAIN tx' = Writers /\ \A v \in Writers \ {w} : tx'[v] = tx[v]
        /\ tx'[w] = NoTx
    BY DEF Commit, ChainInv
  <1>2. Chained(w) = tx[w].journal
    BY <1>1 DEF Chained
  <1>3. Good(tx[w].rows, journal') /\ Extends(tx[w].rows, chain) /\ Good(chain, journal)
    BY <1>1, <1>2 DEF ChainInv, TxOK
  <1>4. chain' = tx[w].rows /\ cps' = NewCheckpoints(tx[w].rows)
    BY <1>3, CommittedRows DEF Commit, ChainInv, Good
  <1>5. Good(chain, journal)' /\ (cps = NewCheckpoints(chain))'
    BY <1>3, <1>4 DEF NewCheckpoints
  <1>6. KeysOf(journal') = KeysOf(journal) \cup KeysOf(tx[w].journal)
    BY <1>1 DEF KeysOf
  <1>7. ASSUME NEW v \in Writers PROVE TxOK(v)'
    <2>1. CASE v = w
      <3>1. tx'[v].at = "none" /\ tx'[v].journal = {} /\ ~tx'[v].tip /\ Chained(v)' = {}
        BY <1>1, <2>1 DEF NoTx, Chained
      <3> QED
        BY <3>1 DEF TxOK, KeysOf
    <2>2. CASE v # w
      <3>1. TxOK(v) /\ Apart(v, w) /\ ~tx[v].tip /\ tx'[v] = tx[v] /\ Chained(v)' = Chained(v)
        BY <1>1, <2>2 DEF ChainInv, Apart, Chained
      <3>2. KeysOf(tx[v].journal) \cap KeysOf(journal') = {}
        BY <1>6, <3>1 DEF TxOK, Apart
      <3> QED
        BY <3>1, <3>2 DEF TxOK
    <2> QED
      BY <2>1, <2>2
  <1>8. ASSUME NEW u \in Writers, NEW v \in Writers, u # v PROVE Apart(u, v)'
    <2>1. ~tx'[w].tip /\ KeysOf(tx'[w].journal) = {}
      BY <1>1 DEF NoTx, KeysOf
    <2>2. CASE u = w \/ v = w
      BY <2>1, <2>2 DEF Apart
    <2>3. CASE u # w /\ v # w
      BY <1>1, <1>8, <2>3 DEF ChainInv, Apart
    <2> QED
      BY <2>2, <2>3
  <1> QED
    BY <1>1, <1>2, <1>5, <1>7, <1>8 DEF ChainInv

LEMMA ChainRollsBack ==
    ASSUME ChainInv, NEW w \in Writers, Rollback(w)
    PROVE  ChainInv'
  <1>1. /\ UNCHANGED <<journal, chain, cps>> /\ DOMAIN tx' = Writers
        /\ \A v \in Writers \ {w} : tx'[v] = tx[v]
        /\ tx'[w] = NoTx
    BY DEF Rollback, ChainInv
  <1>2. tx'[w].at = "none" /\ tx'[w].journal = {} /\ ~tx'[w].tip /\ Chained(w)' = {}
    BY <1>1 DEF NoTx, Chained
  <1>3. TxOK(w)' /\ \A v \in Writers \ {w} : Apart(v, w)'
    BY <1>2 DEF TxOK, Apart, KeysOf
  <1> QED
    BY <1>1, <1>3, OneTxMoves

LEMMA ChainInitially == Init => ChainInv
  <1> SUFFICES ASSUME Init PROVE ChainInv
    OBVIOUS
  <1>1. journal = {} /\ chain = <<>> /\ cps = {} /\ tx = [w \in Writers |-> NoTx]
    BY DEF Init
  <1>2. IsSequence(chain)
    <2>1. <<>> \in Seq({})
      OBVIOUS
    <2> QED
      BY <1>1, <2>1 DEF IsSequence
  <1>3. Good(chain, journal)
    BY <1>1, <1>2, FS_EmptySet DEF Good
  <1>4. cps = NewCheckpoints(chain)
    BY <1>1 DEF NewCheckpoints
  <1>5. ASSUME NEW w \in Writers
        PROVE  tx[w].at = "none" /\ tx[w].journal = {} /\ ~tx[w].tip /\ Chained(w) = {}
    BY <1>1 DEF NoTx, Chained
  <1>6. (\A w \in Writers : TxOK(w)) /\ \A v, w \in Writers : Apart(v, w)
    BY <1>5 DEF TxOK, Apart, KeysOf
  <1> QED
    BY <1>1, <1>3, <1>4, <1>6 DEF ChainInv

LEMMA ChainStep == ChainInv /\ [Next]_vars => ChainInv'
  <1> SUFFICES ASSUME ChainInv, [Next]_vars PROVE ChainInv'
    OBVIOUS
  <1>1. ASSUME NEW w \in Writers, Begin(w) PROVE ChainInv'
    <2>1. /\ UNCHANGED <<journal, chain, cps>> /\ DOMAIN tx' = Writers
          /\ \A v \in Writers \ {w} : tx'[v] = tx[v]
          /\ tx[w].at = "none" /\ tx'[w].at = "open" /\ tx'[w].journal = tx[w].journal
          /\ tx'[w].rows = tx[w].rows /\ tx'[w].tip = tx[w].tip
      BY <1>1 DEF Begin, ChainInv
    <2> QED
      BY <2>1, TxKeepsRows
  <1>2. ASSUME NEW w \in Writers, NEW k \in Keys, PostJournalEntry(w, k) PROVE ChainInv'
    BY <1>2, ChainStarts DEF PostJournalEntry
  <1>3. ASSUME NEW w \in Writers, NEW h \in Holds, NEW n \in Amounts, OpenHold(w, h, n)
        PROVE  ChainInv'
    <2>1. PICK entry, to : Starts(w, entry, h, to, TRUE) /\ tx[w].at = "open"
      BY <1>3 DEF OpenHold
    <2> QED
      BY <2>1, ChainStarts
  <1>4. ASSUME NEW w \in Writers, NEW h \in Holds, NEW n \in Amounts, NEW outcome \in Outcomes,
               ReleaseHold(w, h, outcome, n)
        PROVE  ChainInv'
    <2>1. PICK entry, to : Starts(w, entry, h, to, FALSE) /\ tx[w].at = "open"
      BY <1>4 DEF ReleaseHold
    <2> QED
      BY <2>1, ChainStarts
  <1>5. CASE ReadChain \/ ReadTip \/ ReadCheckpoints \/ CountJournal \/ VerifyRaises \/ UNCHANGED vars
    <2>1. UNCHANGED <<journal, chain, cps, tx>>
      BY <1>5 DEF ReadChain, ReadTip, ReadCheckpoints, CountJournal, VerifyRaises, Concludes, vars
    <2>2. \A w \in Writers : Chained(w)' = Chained(w)
      BY <2>1 DEF Chained
    <2>3. (\A w \in Writers : TxOK(w)') /\ \A v, w \in Writers : v # w => Apart(v, w)'
      BY <2>1, <2>2 DEF ChainInv, TxOK, Apart
    <2> QED
      BY <2>1, <2>3 DEF ChainInv
  <1> QED
    BY <1>1, <1>2, <1>3, <1>4, <1>5, ChainInserts, ChainAppends, ChainCommits, ChainRollsBack
       DEF Next, WriterNext

LEMMA EntriesOfBoth ==
    ASSUME NEW A, NEW B, NEW h
    PROVE  EntriesOf(A \cup B, h) = EntriesOf(A, h) \cup EntriesOf(B, h)
  BY DEF EntriesOf

LEMMA PostIsOfNone == ASSUME NEW e, NEW h, IsPost(e) PROVE ~IsOf(e, h)
  BY DEF IsPost, IsOf, PostedEntry

LEMMA NoneOfOthers ==
    ASSUME NEW A, NEW T, NEW h, h \notin T,
           \A e \in A : IsPost(e) \/ \E g \in T : IsOf(e, g)
    PROVE  EntriesOf(A, h) = {}
  <1>1. ASSUME NEW e \in A, IsOf(e, h) PROVE FALSE
    BY <1>1, PostIsOfNone DEF IsOf
  <1> QED
    BY <1>1 DEF EntriesOf

(* A hold the transaction has not locked has no entries in it.               *)
LEMMA HoldNowIsBooked ==
    ASSUME LedgerInv, NEW w \in Writers, NEW h \in Holds
    PROVE  /\ HoldNow(w, h) \in HoldRows
           /\ EntriesOf(journal \cup Chained(w), h) = EntriesFor(h, HoldNow(w, h))
  <1>1. BooksOK(w) /\ holds \in [Holds -> HoldRows] /\ EntriesOf(journal, h) = EntriesFor(h, holds[h])
    BY DEF LedgerInv, BalanceInv
  <1>2. CASE h \in tx[w].touched
    BY <1>1, <1>2 DEF BooksOK, HoldNow
  <1>3. CASE h \notin tx[w].touched
    <2>1. EntriesOf(Chained(w), h) = {}
      <3>1. \A e \in Chained(w) : IsPost(e) \/ \E g \in tx[w].touched : IsOf(e, g)
        BY <1>1 DEF BooksOK, Chained
      <3> QED
        BY <1>3, <3>1, NoneOfOthers
    <2>2. EntriesOf(journal \cup Chained(w), h) = EntriesOf(journal, h) \cup EntriesOf(Chained(w), h)
      BY EntriesOfBoth
    <2>3. HoldNow(w, h) = holds[h]
      BY <1>3 DEF HoldNow
    <2> QED
      BY <1>1, <2>1, <2>2, <2>3
  <1> QED
    BY <1>2, <1>3

LEMMA OneBookMoves ==
    ASSUME LedgerInv, NEW w \in Writers, UNCHANGED <<journal, holds>>,
           \A v \in Writers \ {w} : tx'[v] = tx[v], BooksOK(w)'
    PROVE  BalanceInv'
  <1>1. ASSUME NEW v \in Writers \ {w} PROVE BooksOK(v)'
    <2>1. Chained(v)' = Chained(v) /\ Pending(v)' = Pending(v) /\ BooksOK(v)
      BY DEF Chained, Pending, LedgerInv, BalanceInv
    <2> QED
      BY <2>1 DEF BooksOK
  <1> QED
    BY <1>1 DEF LedgerInv, BalanceInv

(* The entry and the row fit.                                                *)
Fits(w, entry, h, to) ==
    \/ h = None /\ IsPost(entry)
    \/ /\ h \in Holds /\ to \in HoldRows /\ IsOf(entry, h)
       /\ EntriesFor(h, to) = EntriesFor(h, HoldNow(w, h)) \cup {entry}

LEMMA BalanceStarts ==
    ASSUME LedgerInv, NEW w \in Writers, NEW entry, NEW h, NEW to, NEW reflock,
           tx[w].at = "open", Starts(w, entry, h, to, reflock), Fits(w, entry, h, to)
    PROVE  BalanceInv'
  <1>1. /\ UNCHANGED <<journal, holds>> /\ \A v \in Writers \ {w} : tx'[v] = tx[v]
        /\ tx'[w].at = "checked" /\ tx'[w].entry = entry /\ tx'[w].hold = h /\ tx'[w].to = to
        /\ tx'[w].journal = tx[w].journal
        /\ tx'[w].touched = IF h = None THEN tx[w].touched ELSE tx[w].touched \cup {h}
        /\ tx'[w].holds = IF h = None THEN tx[w].holds
                          ELSE [tx[w].holds EXCEPT ![h] = HoldNow(w, h)]
    BY DEF Starts, LedgerInv, LocksInv
  <1>2. Chained(w)' = Chained(w)
    BY <1>1 DEF Chained
  <1>3. BooksOK(w)
    BY DEF LedgerInv, BalanceInv
  <1>4. CASE h = None
    <2>1. IsPost(entry)
      BY <1>4, LedgerAssumption DEF Fits
    <2>2. Pending(w)'
      BY <1>1, <1>4, <2>1 DEF Pending
    <2>3. BooksOK(w)'
      BY <1>1, <1>2, <1>3, <1>4, <2>2 DEF BooksOK
    <2> QED
      BY <1>1, <2>3, OneBookMoves
  <1>5. CASE h # None
    <2>1. /\ h \in Holds /\ to \in HoldRows /\ IsOf(entry, h)
          /\ EntriesFor(h, to) = EntriesFor(h, HoldNow(w, h)) \cup {entry}
      BY <1>5 DEF Fits
    <2>2. /\ HoldNow(w, h) \in HoldRows
          /\ EntriesOf(journal \cup Chained(w), h) = EntriesFor(h, HoldNow(w, h))
      BY <2>1, HoldNowIsBooked
    <2>3. /\ tx'[w].holds \in [Holds -> HoldRows] /\ tx'[w].holds[h] = HoldNow(w, h)
          /\ \A g \in Holds \ {h} : tx'[w].holds[g] = tx[w].holds[g]
          /\ tx'[w].touched = tx[w].touched \cup {h} /\ tx[w].touched \subseteq Holds
      BY <1>1, <1>3, <1>5, <2>1, <2>2 DEF BooksOK
    <2>4. Pending(w)'
      BY <1>1, <2>1, <2>3 DEF Pending
    <2>5. \A g \in tx'[w].touched :
             EntriesOf(journal \cup Chained(w), g) = EntriesFor(g, tx'[w].holds[g])
      BY <1>3, <2>2, <2>3 DEF BooksOK
    <2>6. BooksOK(w)'
      BY <1>1, <1>2, <1>3, <2>1, <2>3, <2>4, <2>5 DEF BooksOK
    <2> QED
      BY <1>1, <2>6, OneBookMoves
  <1> QED
    BY <1>4, <1>5

LEMMA OpeningFits ==
    ASSUME LedgerInv, NEW w \in Writers, NEW h \in Holds, NEW n \in Amounts,
           HoldNow(w, h).status = "ABSENT"
    PROVE  Fits(w, OpeningEntry(h, n), h, [status |-> "OPEN", amount |-> n, captured |-> 0])
  <1> DEFINE to == [status |-> "OPEN", amount |-> n, captured |-> 0]
  <1>1. to \in HoldRows /\ to.status = "OPEN" /\ to.amount = n
    BY LedgerAssumption DEF HoldRows
  <1>2. IsOf(OpeningEntry(h, n), h)
    BY DEF IsOf, OpeningEntry
  <1>3. EntriesFor(h, HoldNow(w, h)) = {}
    BY DEF EntriesFor, Outcomes
  <1>4. EntriesFor(h, to) = {OpeningEntry(h, n)}
    BY <1>1 DEF EntriesFor, Outcomes
  <1> QED
    BY <1>1, <1>2, <1>3, <1>4 DEF Fits

LEMMA ClosingFits ==
    ASSUME LedgerInv, NEW w \in Writers, NEW h \in Holds, NEW n \in Amounts, NEW outcome \in Outcomes,
           HoldNow(w, h).status = "OPEN",
           IF outcome = "CAPTURED" THEN n <= HoldNow(w, h).amount ELSE n = HoldNow(w, h).amount
    PROVE  Fits(w, ClosingEntry(h, outcome, HoldNow(w, h).amount, n), h,
                [HoldNow(w, h) EXCEPT !.status = outcome,
                                      !.captured = IF outcome = "CAPTURED" THEN n ELSE 0])
  <1>1. PICK row \in HoldRows : row = HoldNow(w, h)
    BY HoldNowIsBooked
  <1> DEFINE to == [row EXCEPT !.status = outcome, !.captured = IF outcome = "CAPTURED" THEN n ELSE 0]
             entry == ClosingEntry(h, outcome, row.amount, n)
  <1>2. n \in Nat \ {0} /\ row.amount \in Nat \ {0}
    BY <1>1, LedgerAssumption DEF HoldRows
  <1>3. /\ to.status = outcome /\ to.amount = row.amount
        /\ to.captured = IF outcome = "CAPTURED" THEN n ELSE 0
    BY DEF HoldRows
  <1>4. to \in HoldRows
    BY <1>1, <1>2, <1>3 DEF HoldRows, Outcomes
  <1>5. IsOf(entry, h)
    BY DEF IsOf, ClosingEntry, Outcomes
  <1> HIDE DEF to
  <1>6. ClosedBy(h, to) = entry
    BY <1>1, <1>3 DEF ClosedBy
  <1>7. /\ EntriesFor(h, row) = {OpeningEntry(h, row.amount)}
        /\ EntriesFor(h, to) = {OpeningEntry(h, row.amount)} \cup {ClosedBy(h, to)}
    BY <1>1, <1>3 DEF EntriesFor, Outcomes
  <1> HIDE DEF entry
  <1>8. Fits(w, entry, h, to)
    BY <1>1, <1>4, <1>5, <1>6, <1>7 DEF Fits
  <1> QED
    BY <1>1, <1>8 DEF to, entry

LEMMA BalanceInserts ==
    ASSUME LedgerInv, NEW w \in Writers, InsertJournalEntry(w) PROVE BalanceInv'
  <1>1. /\ UNCHANGED <<journal, holds>> /\ \A v \in Writers \ {w} : tx'[v] = tx[v]
        /\ tx[w].at = "checked" /\ tx'[w].at = "inserted" /\ tx'[w].entry = tx[w].entry
        /\ tx'[w].hold = tx[w].hold /\ tx'[w].to = tx[w].to
        /\ tx'[w].journal = tx[w].journal \cup {tx[w].entry}
        /\ tx'[w].touched = tx[w].touched /\ tx'[w].holds = tx[w].holds
    BY DEF InsertJournalEntry, LedgerInv, LocksInv
  <1>2. Chained(w)' = Chained(w)
    BY ChainInserts DEF LedgerInv
  <1>3. BooksOK(w) /\ Pending(w)
    BY <1>1 DEF LedgerInv, BalanceInv, BooksOK
  <1>4. Pending(w)'
    BY <1>1, <1>3 DEF Pending
  <1>5. IsPost(tx[w].entry) \/ \E h \in tx[w].touched : IsOf(tx[w].entry, h)
    BY <1>3 DEF Pending
  <1>6. BooksOK(w)'
    BY <1>1, <1>2, <1>3, <1>4, <1>5 DEF BooksOK
  <1> QED
    BY <1>1, <1>6, OneBookMoves

LEMMA BalanceAppends ==
    ASSUME LedgerInv, NEW w \in Writers, AppendChain(w) PROVE BalanceInv'
  <1>1. /\ Chained(w)' = Chained(w) \cup {tx[w].entry}
        /\ UNCHANGED <<journal, holds>> /\ \A v \in Writers \ {w} : tx'[v] = tx[v]
        /\ tx[w].at = "inserted" /\ tx'[w].at = "open"
        /\ tx'[w].journal = tx[w].journal /\ tx'[w].touched = tx[w].touched
        /\ tx'[w].holds = IF tx[w].hold = None THEN tx[w].holds
                          ELSE [tx[w].holds EXCEPT ![tx[w].hold] = tx[w].to]
    BY ChainAppends DEF LedgerInv
  <1>2. BooksOK(w) /\ Pending(w)
    BY <1>1 DEF LedgerInv, BalanceInv, BooksOK
  <1>3. \A g : EntriesOf(journal \cup (Chained(w) \cup {tx[w].entry}), g)
                 = EntriesOf(journal \cup Chained(w), g) \cup EntriesOf({tx[w].entry}, g)
    BY DEF EntriesOf
  <1>4. /\ tx'[w].holds \in [Holds -> HoldRows]
        /\ \A g \in tx[w].touched :
             EntriesFor(g, tx'[w].holds[g])
               = EntriesFor(g, tx[w].holds[g]) \cup EntriesOf({tx[w].entry}, g)
    <2>1. CASE tx[w].hold = None
      <3>1. IsPost(tx[w].entry)
        BY <1>2, <2>1, LedgerAssumption DEF Pending, BooksOK
      <3>2. \A g : EntriesOf({tx[w].entry}, g) = {}
        BY <3>1, PostIsOfNone DEF EntriesOf
      <3> QED
        BY <1>1, <1>2, <2>1, <3>2 DEF BooksOK
    <2>2. CASE tx[w].hold # None
      <3>1. PICK h \in tx[w].touched : h = tx[w].hold
        BY <1>2, <2>2 DEF Pending
      <3>2. /\ h \in Holds /\ tx[w].to \in HoldRows /\ IsOf(tx[w].entry, h)
            /\ EntriesFor(h, tx[w].to) = EntriesFor(h, tx[w].holds[h]) \cup {tx[w].entry}
        BY <1>2, <2>2, <3>1 DEF Pending, BooksOK
      <3>3. /\ tx'[w].holds \in [Holds -> HoldRows] /\ tx'[w].holds[h] = tx[w].to
            /\ \A g \in Holds \ {h} : tx'[w].holds[g] = tx[w].holds[g]
        BY <1>1, <1>2, <2>2, <3>1, <3>2 DEF BooksOK
      <3>4. \A g : EntriesOf({tx[w].entry}, g) = IF g = h THEN {tx[w].entry} ELSE {}
        BY <3>2 DEF EntriesOf, IsOf
      <3>5. tx[w].touched \subseteq Holds
        BY <1>2 DEF BooksOK
      <3> QED
        BY <3>2, <3>3, <3>4, <3>5
    <2> QED
      BY <2>1, <2>2
  <1>5. ASSUME NEW g \in tx[w].touched
        PROVE  EntriesOf(journal \cup Chained(w)', g) = EntriesFor(g, tx'[w].holds[g])
    <2>1. EntriesOf(journal \cup Chained(w), g) = EntriesFor(g, tx[w].holds[g])
      BY <1>2 DEF BooksOK
    <2> QED
      BY <1>1, <1>3, <1>4, <2>1
  <1>6. BooksOK(w)'
    BY <1>1, <1>2, <1>4, <1>5 DEF BooksOK
  <1> QED
    BY <1>1, <1>6, OneBookMoves

LEMMA EmptyBooks ==
    ASSUME NEW w \in Writers, tx'[w] = NoTx PROVE BooksOK(w)'
  <1>1. /\ tx'[w].at = "none" /\ tx'[w].touched = {} /\ tx'[w].journal = {}
        /\ tx'[w].holds = [h \in Holds |-> NoHold]
    BY DEF NoTx
  <1>2. NoHold \in HoldRows
    BY DEF NoHold, HoldRows
  <1> QED
    BY <1>1, <1>2 DEF BooksOK

LEMMA BalanceCommits ==
    ASSUME LedgerInv, NEW w \in Writers, Commit(w) PROVE BalanceInv'
  <1>1. /\ journal' = journal \cup tx[w].journal /\ holds' = [h \in Holds |-> HoldNow(w, h)]
        /\ Chained(w) = tx[w].journal /\ \A v \in Writers \ {w} : tx'[v] = tx[v]
        /\ tx'[w] = NoTx
    BY ChainCommits DEF Commit, LedgerInv
  <1>2. BooksOK(w) /\ BalanceInv
    BY DEF LedgerInv, BalanceInv
  <1>3. \A h \in Holds : /\ HoldNow(w, h) \in HoldRows
                         /\ EntriesOf(journal', h) = EntriesFor(h, HoldNow(w, h))
    BY <1>1, HoldNowIsBooked
  <1>4. ASSUME NEW v \in Writers PROVE BooksOK(v)'
    <2>1. CASE v = w
      BY <1>1, <2>1, EmptyBooks
    <2>2. CASE v # w
      <3>1. tx'[v] = tx[v] /\ Chained(v)' = Chained(v) /\ BooksOK(v) /\ (Pending(v) <=> Pending(v)')
        BY <1>1, <1>2, <2>2 DEF Chained, Pending, BalanceInv
      <3>2. ASSUME NEW h \in tx[v].touched
            PROVE  EntriesOf(journal' \cup Chained(v), h) = EntriesOf(journal \cup Chained(v), h)
        <4>1. h \notin tx[w].touched
          BY <2>2 DEF LedgerInv, LocksInv
        <4>2. EntriesOf(tx[w].journal, h) = {}
          BY <1>2, <4>1, NoneOfOthers DEF BooksOK
        <4> QED
          BY <1>1, <4>2 DEF EntriesOf
      <3> QED
        BY <3>1, <3>2 DEF BooksOK
    <2> QED
      BY <2>1, <2>2
  <1>5. \A e \in journal' : IsPost(e) \/ \E h \in Holds : IsOf(e, h)
    BY <1>1, <1>2 DEF BooksOK, BalanceInv
  <1>6. holds' \in [Holds -> HoldRows] /\ \A h \in Holds : holds'[h] = HoldNow(w, h)
    BY <1>1, <1>3
  <1> QED
    BY <1>3, <1>4, <1>5, <1>6 DEF BalanceInv

LEMMA LedgerInitially == Init => LedgerInv
  <1> SUFFICES ASSUME Init PROVE BalanceInv
    BY LocksInitially, ChainInitially DEF LedgerInv
  <1>1. journal = {} /\ holds = [h \in Holds |-> NoHold] /\ tx = [w \in Writers |-> NoTx]
    BY DEF Init
  <1>2. NoHold \in HoldRows /\ \A h : EntriesFor(h, NoHold) = {}
    BY DEF NoHold, HoldRows, EntriesFor, Outcomes
  <1>3. ASSUME NEW w \in Writers PROVE BooksOK(w)
    <2>1. /\ tx[w].at = "none" /\ tx[w].touched = {} /\ tx[w].journal = {}
          /\ tx[w].holds = [h \in Holds |-> NoHold]
      BY <1>1 DEF NoTx
    <2> QED
      BY <1>2, <2>1 DEF BooksOK
  <1> QED
    BY <1>1, <1>2, <1>3 DEF BalanceInv, EntriesOf

LEMMA LedgerStep == LedgerInv /\ [Next]_vars => LedgerInv'
  <1> SUFFICES ASSUME LedgerInv, [Next]_vars PROVE BalanceInv'
    BY LocksStep, ChainStep DEF LedgerInv
  <1>1. ASSUME NEW w \in Writers, Begin(w) PROVE BalanceInv'
    <2>1. /\ UNCHANGED <<journal, holds>> /\ \A v \in Writers \ {w} : tx'[v] = tx[v]
          /\ tx[w].at = "none" /\ tx'[w].at = "open" /\ tx'[w].journal = tx[w].journal
          /\ tx'[w].touched = tx[w].touched /\ tx'[w].holds = tx[w].holds
      BY <1>1 DEF Begin, LedgerInv, LocksInv
    <2>2. Chained(w)' = Chained(w) /\ BooksOK(w)
      BY <2>1 DEF Chained, LedgerInv, BalanceInv
    <2>3. BooksOK(w)'
      BY <2>1, <2>2 DEF BooksOK
    <2> QED
      BY <2>1, <2>3, OneBookMoves
  <1>2. ASSUME NEW w \in Writers, NEW k \in Keys, PostJournalEntry(w, k) PROVE BalanceInv'
    <2>1. Fits(w, PostedEntry(k), None, NoHold)
      BY DEF Fits, IsPost
    <2> QED
      BY <1>2, <2>1, BalanceStarts DEF PostJournalEntry
  <1>3. ASSUME NEW w \in Writers, NEW h \in Holds, NEW n \in Amounts, OpenHold(w, h, n)
        PROVE  BalanceInv'
    <2> DEFINE to == [status |-> "OPEN", amount |-> n, captured |-> 0]
    <2>1. /\ tx[w].at = "open" /\ HoldNow(w, h).status = "ABSENT"
          /\ Starts(w, OpeningEntry(h, n), h, to, TRUE)
      BY <1>3 DEF OpenHold, OpeningEntry
    <2>2. Fits(w, OpeningEntry(h, n), h, to)
      BY <2>1, OpeningFits
    <2> HIDE DEF to
    <2> QED
      BY <2>1, <2>2, BalanceStarts
  <1>4. ASSUME NEW w \in Writers, NEW h \in Holds, NEW n \in Amounts, NEW outcome \in Outcomes,
               ReleaseHold(w, h, outcome, n)
        PROVE  BalanceInv'
    <2> DEFINE entry == ClosingEntry(h, outcome, HoldNow(w, h).amount, n)
               to == [HoldNow(w, h) EXCEPT !.status = outcome,
                                           !.captured = IF outcome = "CAPTURED" THEN n ELSE 0]
    <2>1. /\ tx[w].at = "open" /\ HoldNow(w, h).status = "OPEN"
          /\ IF outcome = "CAPTURED" THEN n <= HoldNow(w, h).amount ELSE n = HoldNow(w, h).amount
          /\ Starts(w, entry, h, to, FALSE)
      BY <1>4 DEF ReleaseHold
    <2>2. Fits(w, entry, h, to)
      BY <2>1, ClosingFits
    <2> HIDE DEF entry, to
    <2> QED
      BY <2>1, <2>2, BalanceStarts
  <1>5. ASSUME NEW w \in Writers, Rollback(w) PROVE BalanceInv'
    <2>1. /\ UNCHANGED <<journal, holds>> /\ tx'[w] = NoTx
          /\ \A v \in Writers \ {w} : tx'[v] = tx[v]
      BY <1>5 DEF Rollback, LedgerInv, LocksInv
    <2> QED
      BY <2>1, EmptyBooks, OneBookMoves
  <1>6. CASE ReadChain \/ ReadTip \/ ReadCheckpoints \/ CountJournal \/ VerifyRaises \/ UNCHANGED vars
    <2>1. UNCHANGED <<journal, holds, tx>>
      BY <1>6 DEF ReadChain, ReadTip, ReadCheckpoints, CountJournal, VerifyRaises, Concludes, vars
    <2>2. \A w \in Writers : Chained(w)' = Chained(w) /\ (Pending(w) <=> Pending(w)') /\ BooksOK(w)
      BY <2>1 DEF Chained, Pending, LedgerInv, BalanceInv
    <2>3. \A w \in Writers : BooksOK(w)'
      BY <2>1, <2>2 DEF BooksOK
    <2> QED
      BY <2>1, <2>3 DEF LedgerInv, BalanceInv
  <1> QED
    BY <1>1, <1>2, <1>3, <1>4, <1>5, <1>6, BalanceInserts, BalanceAppends, BalanceCommits
       DEF Next, WriterNext

(* Checkpoints made of sound rows are sound.                                 *)
LEMMA ChainVerifies == ChainInv => ChainAlwaysVerifies /\ KeysPostOnce
  <1> SUFFICES ASSUME ChainInv PROVE ChainAlwaysVerifies /\ KeysPostOnce
    OBVIOUS
  <1>1. Good(chain, journal) /\ cps = NewCheckpoints(chain)
    BY DEF ChainInv
  <1>2. PICK S : chain \in Seq(S)
    BY <1>1 DEF Good, IsSequence
  <1>3. CASE chain = <<>>
    <2>1. NewCheckpoints(chain) = {}
      BY <1>3 DEF NewCheckpoints
    <2> QED
      BY <1>1, <1>3, <2>1 DEF Good, ChainAlwaysVerifies, VerifyPasses, KeysPostOnce
  <1>4. CASE chain # <<>>
    <2>1. WalkSound(chain, journal) /\ CountsAgree(chain, journal) /\ KeysPostOnce
      BY <1>1, <1>4 DEF Good, KeysPostOnce
    <2>2. Len(chain) \in Nat \ {0} /\ MaxIndex(chain) = Len(chain) - 1
      BY <1>2, <1>4, <2>1 DEF WalkSound, RowSound, MaxIndex
    <2>3. ASSUME NEW cp \in cps PROVE CheckpointSound(cp, MaxIndex(chain), chain)
      <3>1. PICK i \in 1..Len(chain) : chain[i].is_checkpoint /\ cp = CheckpointOf(chain[i])
        BY <1>1 DEF NewCheckpoints
      <3>2. chain[i].index = i - 1 /\ chain[i].sig = chain[i].hash
        BY <2>1, <3>1 DEF WalkSound, RowSound
      <3>3. cp.to = chain[i].index /\ cp.hash = chain[i].hash /\ cp.sig = chain[i].sig
        BY <3>1 DEF CheckpointOf
      <3> QED
        BY <2>2, <3>1, <3>2, <3>3 DEF CheckpointSound
    <2> QED
      BY <1>1, <1>4, <2>1, <2>3 DEF ChainAlwaysVerifies, VerifyPasses, CheckpointsSound
  <1> QED
    BY <1>3, <1>4

-----------------------------------------------------------------------------
(* Counting units.                                                           *)
LEMMA SameSize ==
    ASSUME NEW S, NEW T, NEW f \in [S -> T], IsFiniteSet(S),
           \A x, y \in S : f[x] = f[y] => x = y,
           \A t \in T : \E x \in S : f[x] = t
    PROVE  IsFiniteSet(T) /\ Cardinality(T) = Cardinality(S)
  <1>1. f \in Injection(S, T)
    BY DEF Injection, IsInjective
  <1>2. f \in Surjection(S, T)
    BY DEF Surjection
  <1>3. ExistsBijection(S, T)
    BY <1>1, <1>2 DEF Bijection, ExistsBijection
  <1> QED
    BY <1>3, FS_Bijection, Zenon

LEMMA DisjointSizes ==
    ASSUME NEW A, NEW B, IsFiniteSet(A), IsFiniteSet(B), A \cap B = {}
    PROVE  /\ IsFiniteSet(A \cup B) /\ Cardinality(A) \in Nat /\ Cardinality(B) \in Nat
           /\ Cardinality(A \cup B) = Cardinality(A) + Cardinality(B)
  <1>1. /\ IsFiniteSet(A \cup B)
        /\ Cardinality(A \cup B) = Cardinality(A) + Cardinality(B) - Cardinality(A \cap B)
    BY FS_Union, Zenon
  <1>2. Cardinality(A) \in Nat /\ Cardinality(B) \in Nat /\ Cardinality({}) = 0
    BY FS_CardinalityType, FS_EmptySet
  <1>3. Cardinality(A \cup B) = Cardinality(A) + Cardinality(B) - 0
    BY <1>1, <1>2, Zenon
  <1> QED
    BY <1>1, <1>2, <1>3

(* Finitely many things have finitely many units.                            *)
LEMMA FiniteUnits ==
    ASSUME NEW E, IsFiniteSet(E), NEW size \in [E -> Int]
    PROVE  IsFiniteSet(UNION {{e} \X (1 .. size[e]) : e \in E})
  <1> DEFINE f == [e \in E |-> {e} \X (1 .. size[e])]
             T == {{e} \X (1 .. size[e]) : e \in E}
  <1>1. f \in Surjection(E, T)
    BY DEF Surjection
  <1>2. IsFiniteSet(T)
    <2> HIDE DEF f, T
    <2> QED
      BY <1>1, FS_Surjection
  <1>3. ASSUME NEW e \in E PROVE IsFiniteSet({e} \X (1 .. size[e]))
    <2>1. PICK n \in Int : n = size[e]
      OBVIOUS
    <2>2. IsFiniteSet(1 .. n)
      BY 1 \in Int, FS_Interval, Zenon
    <2>3. IsFiniteSet({e})
      BY FS_Singleton, Zenon
    <2> QED
      BY <2>1, <2>2, <2>3, FS_Product
  <1>4. \A X \in T : IsFiniteSet(X)
    BY <1>3
  <1> HIDE DEF T
  <1>5. IsFiniteSet(UNION T)
    BY <1>2, <1>4, FS_UNION
  <1> QED
    BY <1>5 DEF T

(* One entry per hold, which names it: the units of the entries are as many  *)
(* as those of the holds, wherever these begin.                              *)
EntryUnits(H, entry, size) == UNION {{entry[h]} \X (1 .. size[h]) : h \in H}
HoldUnits(H, low, size) == UNION {{h} \X ((low[h] + 1) .. (low[h] + size[h])) : h \in H}

LEMMA UnitsMatch ==
    ASSUME NEW H, NEW entry, NEW low, NEW size,
           \A h \in H : entry[h].key[2] = h /\ low[h] \in Nat /\ size[h] \in Nat,
           IsFiniteSet(EntryUnits(H, entry, size))
    PROVE  /\ IsFiniteSet(HoldUnits(H, low, size))
           /\ Cardinality(HoldUnits(H, low, size)) = Cardinality(EntryUnits(H, entry, size))
  <1> DEFINE S == EntryUnits(H, entry, size)
             T == HoldUnits(H, low, size)
             f == [u \in S |-> <<u[1].key[2], low[u[1].key[2]] + u[2]>>]
  <1>1. ASSUME NEW u PROVE u \in S <=> \E h \in H : \E i \in 1 .. size[h] : u = <<entry[h], i>>
    BY DEF EntryUnits
  <1>2. ASSUME NEW u
        PROVE  u \in T <=> \E h \in H : \E i \in (low[h] + 1) .. (low[h] + size[h]) : u = <<h, i>>
    BY DEF HoldUnits
  <1>3. ASSUME NEW h \in H, NEW i \in 1 .. size[h]
        PROVE  <<entry[h], i>> \in S /\ f[<<entry[h], i>>] = <<h, low[h] + i>>
    <2>1. <<entry[h], i>> \in S
      BY <1>1
    <2> HIDE DEF S
    <2> QED
      BY <2>1
  <1>4. f \in [S -> T]
    <2>1. ASSUME NEW u \in S PROVE f[u] \in T
      <3>1. PICK h \in H : \E i \in 1 .. size[h] : u = <<entry[h], i>>
        BY <1>1
      <3>2. PICK i \in 1 .. size[h] : u = <<entry[h], i>>
        BY <3>1
      <3>3. f[u] = <<h, low[h] + i>> /\ low[h] + i \in (low[h] + 1) .. (low[h] + size[h])
        BY <1>3, <3>2
      <3> HIDE DEF f, T
      <3> QED
        BY <1>2, <3>3
    <2> HIDE DEF S, T
    <2> QED
      BY <2>1
  <1>5. ASSUME NEW u \in S, NEW v \in S, f[u] = f[v] PROVE u = v
    <2>1. PICK h \in H : \E i \in 1 .. size[h] : u = <<entry[h], i>>
      BY <1>1
    <2>2. PICK i \in 1 .. size[h] : u = <<entry[h], i>>
      BY <2>1
    <2>3. PICK g \in H : \E j \in 1 .. size[g] : v = <<entry[g], j>>
      BY <1>1
    <2>4. PICK j \in 1 .. size[g] : v = <<entry[g], j>>
      BY <2>3
    <2>5. f[u] = <<h, low[h] + i>> /\ f[v] = <<g, low[g] + j>>
      BY <1>3, <2>2, <2>4
    <2> HIDE DEF f, S
    <2>6. h = g /\ low[h] + i = low[g] + j
      <3>1. <<h, low[h] + i>> = <<g, low[g] + j>>
        BY <1>5, <2>5, Zenon
      <3> QED
        BY <3>1, Zenon
    <2>7. i = j
      BY <2>6
    <2> QED
      BY <2>2, <2>4, <2>6, <2>7
  <1>6. ASSUME NEW t \in T PROVE \E u \in S : f[u] = t
    <2>1. PICK h \in H : \E i \in (low[h] + 1) .. (low[h] + size[h]) : t = <<h, i>>
      BY <1>2
    <2>2. PICK i \in (low[h] + 1) .. (low[h] + size[h]) : t = <<h, i>>
      BY <2>1
    <2>3. i - low[h] \in 1 .. size[h] /\ low[h] + (i - low[h]) = i
      OBVIOUS
    <2>4. PICK k \in 1 .. size[h] : low[h] + k = i
      BY <2>3
    <2> QED
      BY <1>3, <2>2, <2>4
  <1> HIDE DEF S, T, f
  <1>7. IsFiniteSet(T) /\ Cardinality(T) = Cardinality(S)
    BY <1>4, <1>5, <1>6, SameSize DEF S
  <1> QED
    BY <1>7 DEF S, T

(* What is in the journal, by hold.                                          *)
Posts == {e \in journal : e.key[1] = "post"}
Opened == {h \in Holds : holds[h].status # "ABSENT"}
ClosedHolds == {h \in Holds : holds[h].status \in Outcomes}
Opens == [h \in Opened |-> OpeningEntry(h, holds[h].amount)]
Closes == [h \in ClosedHolds |-> ClosedBy(h, holds[h])]

LEMMA HoldTypes ==
    ASSUME BalanceInv, NEW h \in Holds
    PROVE  /\ holds[h] \in HoldRows /\ holds[h].status \in {"ABSENT", "OPEN"} \cup Outcomes
           /\ holds[h].amount \in Nat /\ holds[h].captured \in Nat
           /\ holds[h].captured <= holds[h].amount
           /\ holds[h].status # "CAPTURED" => holds[h].captured = 0
  BY DEF BalanceInv, HoldRows

LEMMA PostingsAre ==
    ASSUME BalanceInv
    PROVE  /\ \A e \in Posts : /\ e.postings["source"] = -1 /\ e.postings["reserve"] = 0
                               /\ e.postings["merchant"] = 1
           /\ \A h \in Opened : /\ Opens[h].key[2] = h /\ Opens[h].key[1] = "hold_opened"
                                /\ Opens[h].postings["source"] = -holds[h].amount
                                /\ Opens[h].postings["reserve"] = holds[h].amount
                                /\ Opens[h].postings["merchant"] = 0
           /\ \A h \in ClosedHolds :
                 /\ Closes[h].key[2] = h /\ Closes[h].key[1] \in Outcomes
                 /\ Closes[h].postings["source"] = holds[h].amount - holds[h].captured
                 /\ Closes[h].postings["reserve"] = -holds[h].amount
                 /\ Closes[h].postings["merchant"] = holds[h].captured
  <1>1. \A e \in Posts : IsPost(e)
    BY DEF BalanceInv, IsOf, Posts
  <1>2. \A n : LET p == Transfer("source", "merchant", n)
               IN  p["source"] = -n /\ p["reserve"] = 0 /\ p["merchant"] = n
    BY DEF Transfer, NoPostings, Accounts
  <1>3. \A n : LET p == Transfer("source", "reserve", n)
               IN  p["source"] = -n /\ p["reserve"] = n /\ p["merchant"] = 0
    BY DEF Transfer, NoPostings, Accounts
  <1>4. \A e \in Posts : /\ e.postings["source"] = -1 /\ e.postings["reserve"] = 0
                         /\ e.postings["merchant"] = 1
    BY <1>1, <1>2 DEF IsPost, PostedEntry
  <1>5. ASSUME NEW h \in Opened
        PROVE  /\ Opens[h].key[2] = h /\ Opens[h].key[1] = "hold_opened"
               /\ Opens[h].postings["source"] = -holds[h].amount
               /\ Opens[h].postings["reserve"] = holds[h].amount
               /\ Opens[h].postings["merchant"] = 0
    BY <1>3 DEF Opens, OpeningEntry
  <1>6. ASSUME NEW h \in ClosedHolds
        PROVE  /\ Closes[h].key[2] = h /\ Closes[h].key[1] \in Outcomes
               /\ Closes[h].postings["source"] = holds[h].amount - holds[h].captured
               /\ Closes[h].postings["reserve"] = -holds[h].amount
               /\ Closes[h].postings["merchant"] = holds[h].captured
    <2>1. h \in Holds /\ holds[h].status \in Outcomes
      BY DEF ClosedHolds
    <2>2. /\ holds[h].amount \in Nat /\ holds[h].captured \in Nat
          /\ holds[h].status # "CAPTURED" => holds[h].captured = 0
      BY <2>1, HoldTypes
    <2>3. Closes[h] = ClosedBy(h, holds[h])
      BY DEF Closes
    <2> QED
      BY <2>1, <2>2, <2>3 DEF ClosedBy, ClosingEntry
  <1> QED
    BY <1>4, <1>5, <1>6

LEMMA JournalIs ==
    ASSUME BalanceInv
    PROVE  /\ \A e \in journal : \/ e \in Posts \/ \E h \in Opened : e = Opens[h]
                                 \/ \E h \in ClosedHolds : e = Closes[h]
           /\ \A h \in Opened : Opens[h] \in journal /\ Opens[h] \notin Posts
           /\ \A h \in ClosedHolds : Closes[h] \in journal /\ Closes[h] \notin Posts
  <1>1. ASSUME NEW h \in Holds, NEW e
        PROVE  (e \in journal /\ IsOf(e, h)) <=>
                  (h \in Opened /\ e = Opens[h]) \/ (h \in ClosedHolds /\ e = Closes[h])
    <2>1. EntriesOf(journal, h) = EntriesFor(h, holds[h])
      BY DEF BalanceInv
    <2>2. e \in EntriesFor(h, holds[h]) <=>
             (h \in Opened /\ e = Opens[h]) \/ (h \in ClosedHolds /\ e = Closes[h])
      <3>1. /\ h \in Opened <=> holds[h].status # "ABSENT"
            /\ h \in ClosedHolds <=> holds[h].status \in Outcomes
        BY DEF Opened, ClosedHolds
      <3>2. /\ h \in Opened => Opens[h] = OpeningEntry(h, holds[h].amount)
            /\ h \in ClosedHolds => Closes[h] = ClosedBy(h, holds[h])
        BY DEF Opens, Closes
      <3> QED
        BY <3>1, <3>2 DEF EntriesFor
    <2> QED
      BY <2>1, <2>2 DEF EntriesOf
  <1>2. ASSUME NEW e \in journal
        PROVE  \/ e \in Posts \/ \E h \in Opened : e = Opens[h]
               \/ \E h \in ClosedHolds : e = Closes[h]
    <2>1. CASE IsPost(e)
      BY <2>1 DEF IsPost, PostedEntry, Posts
    <2>2. CASE \E h \in Holds : IsOf(e, h)
      BY <1>1, <2>2
    <2> QED
      BY <2>1, <2>2 DEF BalanceInv
  <1>3. \A h \in Opened : Opens[h] \in journal /\ Opens[h] \notin Posts
    <2> SUFFICES ASSUME NEW h \in Opened PROVE Opens[h] \in journal /\ Opens[h].key[1] # "post"
      BY DEF Posts
    <2>1. h \in Holds /\ Opens[h].key[1] = "hold_opened"
      BY PostingsAre DEF Opened
    <2> QED
      BY <1>1, <2>1
  <1>4. \A h \in ClosedHolds : Closes[h] \in journal /\ Closes[h] \notin Posts
    <2> SUFFICES ASSUME NEW h \in ClosedHolds
                 PROVE  Closes[h] \in journal /\ Closes[h].key[1] # "post"
      BY DEF Posts
    <2>1. h \in Holds /\ Closes[h].key[1] \in Outcomes
      BY PostingsAre DEF ClosedHolds
    <2> QED
      BY <1>1, <2>1 DEF Outcomes
  <1> QED
    BY <1>2, <1>3, <1>4

(* The units of the three accounts, by hold.                                 *)
AmountOf == [h \in Holds |-> holds[h].amount]
CapturedOf == [h \in Holds |-> holds[h].captured]
RestOf == [h \in Holds |-> holds[h].amount - holds[h].captured]

LEMMA CreditsAre ==
    ASSUME BalanceInv
    PROVE  /\ Credits("reserve") = EntryUnits(Opened, Opens, AmountOf)
           /\ Debits("reserve") = EntryUnits(ClosedHolds, Closes, AmountOf)
           /\ Credits("merchant") = (Posts \X {1}) \cup EntryUnits(ClosedHolds, Closes, CapturedOf)
           /\ Debits("merchant") = {}
           /\ Credits("source") = EntryUnits(ClosedHolds, Closes, RestOf)
           /\ Debits("source") = (Posts \X {1}) \cup EntryUnits(Opened, Opens, AmountOf)
  <1>1. ASSUME NEW H, NEW entry, NEW size, NEW u
        PROVE  u \in EntryUnits(H, entry, size) <=>
                  \E h \in H : \E i \in 1 .. size[h] : u = <<entry[h], i>>
    BY DEF EntryUnits
  <1>2. ASSUME NEW a, NEW u
        PROVE  /\ u \in Credits(a) <=> \E e \in journal : \E i \in 1 .. e.postings[a] : u = <<e, i>>
               /\ u \in Debits(a) <=> \E e \in journal : \E i \in 1 .. -e.postings[a] : u = <<e, i>>
    BY DEF Credits, Debits
  <1>3. /\ \A h \in Opened : h \in Holds /\ AmountOf[h] = holds[h].amount /\ holds[h].amount \in Nat
        /\ \A h \in ClosedHolds :
              /\ h \in Holds /\ AmountOf[h] = holds[h].amount /\ CapturedOf[h] = holds[h].captured
              /\ RestOf[h] = holds[h].amount - holds[h].captured
              /\ holds[h].amount \in Nat /\ holds[h].captured \in Nat
              /\ holds[h].captured <= holds[h].amount
    BY HoldTypes DEF Opened, ClosedHolds, AmountOf, CapturedOf, RestOf
  <1>4. \A u : u \in Posts \X {1} <=> \E e \in Posts : u = <<e, 1>>
    OBVIOUS
  <1>5. \A e \in Posts : e \in journal
    BY DEF Posts
  <1>6. Credits("reserve") = EntryUnits(Opened, Opens, AmountOf)
    <2>1. ASSUME NEW e \in journal, NEW i \in 1 .. e.postings["reserve"]
          PROVE  \E h \in Opened : e = Opens[h] /\ i \in 1 .. AmountOf[h]
      BY <1>3, JournalIs, PostingsAre
    <2>2. ASSUME NEW h \in Opened, NEW i \in 1 .. AmountOf[h]
          PROVE  Opens[h] \in journal /\ i \in 1 .. Opens[h].postings["reserve"]
      BY <1>3, JournalIs, PostingsAre
    <2>3. ASSUME NEW u PROVE u \in Credits("reserve") <=> u \in EntryUnits(Opened, Opens, AmountOf)
      BY <1>1, <1>2, <2>1, <2>2
    <2> QED
      BY <2>3
  <1>7. Debits("reserve") = EntryUnits(ClosedHolds, Closes, AmountOf)
    <2>1. ASSUME NEW e \in journal, NEW i \in 1 .. -e.postings["reserve"]
          PROVE  \E h \in ClosedHolds : e = Closes[h] /\ i \in 1 .. AmountOf[h]
      BY <1>3, JournalIs, PostingsAre
    <2>2. ASSUME NEW h \in ClosedHolds, NEW i \in 1 .. AmountOf[h]
          PROVE  Closes[h] \in journal /\ i \in 1 .. -Closes[h].postings["reserve"]
      BY <1>3, JournalIs, PostingsAre
    <2>3. ASSUME NEW u PROVE u \in Debits("reserve") <=> u \in EntryUnits(ClosedHolds, Closes, AmountOf)
      BY <1>1, <1>2, <2>1, <2>2
    <2> QED
      BY <2>3
  <1>8. Credits("merchant") = (Posts \X {1}) \cup EntryUnits(ClosedHolds, Closes, CapturedOf)
    <2>1. ASSUME NEW e \in journal, NEW i \in 1 .. e.postings["merchant"]
          PROVE  \/ e \in Posts /\ i = 1
                 \/ \E h \in ClosedHolds : e = Closes[h] /\ i \in 1 .. CapturedOf[h]
      BY <1>3, JournalIs, PostingsAre
    <2>2. ASSUME NEW h \in ClosedHolds, NEW i \in 1 .. CapturedOf[h]
          PROVE  Closes[h] \in journal /\ i \in 1 .. Closes[h].postings["merchant"]
      BY <1>3, JournalIs, PostingsAre
    <2>3. ASSUME NEW e \in Posts PROVE e \in journal /\ 1 \in 1 .. e.postings["merchant"]
      BY <1>5, PostingsAre
    <2> QED
      BY <1>1, <1>2, <1>4, <2>1, <2>2, <2>3
  <1>9. Debits("merchant") = {}
    <2>1. ASSUME NEW e \in journal, NEW i \in 1 .. -e.postings["merchant"] PROVE FALSE
      BY <1>3, JournalIs, PostingsAre
    <2> QED
      BY <1>2, <2>1
  <1>10. Credits("source") = EntryUnits(ClosedHolds, Closes, RestOf)
    <2>1. ASSUME NEW e \in journal, NEW i \in 1 .. e.postings["source"]
          PROVE  \E h \in ClosedHolds : e = Closes[h] /\ i \in 1 .. RestOf[h]
      BY <1>3, JournalIs, PostingsAre
    <2>2. ASSUME NEW h \in ClosedHolds, NEW i \in 1 .. RestOf[h]
          PROVE  Closes[h] \in journal /\ i \in 1 .. Closes[h].postings["source"]
      BY <1>3, JournalIs, PostingsAre
    <2>3. ASSUME NEW u PROVE u \in Credits("source") <=> u \in EntryUnits(ClosedHolds, Closes, RestOf)
      BY <1>1, <1>2, <2>1, <2>2
    <2> QED
      BY <2>3
  <1>11. Debits("source") = (Posts \X {1}) \cup EntryUnits(Opened, Opens, AmountOf)
    <2>1. ASSUME NEW e \in journal, NEW i \in 1 .. -e.postings["source"]
          PROVE  \/ e \in Posts /\ i = 1
                 \/ \E h \in Opened : e = Opens[h] /\ i \in 1 .. AmountOf[h]
      BY <1>3, JournalIs, PostingsAre
    <2>2. ASSUME NEW h \in Opened, NEW i \in 1 .. AmountOf[h]
          PROVE  Opens[h] \in journal /\ i \in 1 .. -Opens[h].postings["source"]
      BY <1>3, JournalIs, PostingsAre
    <2>3. ASSUME NEW e \in Posts PROVE e \in journal /\ 1 \in 1 .. -e.postings["source"]
      BY <1>5, PostingsAre
    <2> QED
      BY <1>1, <1>2, <1>4, <2>1, <2>2, <2>3
  <1> QED
    BY <1>6, <1>7, <1>8, <1>9, <1>10, <1>11

(* Two halves of what was held: the holds that are closed and the open ones, *)
(* and of a closed one what was captured and what went back.                 *)
LEMMA UnitsSplit ==
    ASSUME BalanceInv
    PROVE  LET zero == [h \in Holds |-> 0]
               living == HoldUnits(Opened, zero, AmountOf)
               closed == HoldUnits(ClosedHolds, zero, AmountOf)
               taken == HoldUnits(ClosedHolds, zero, CapturedOf)
               rest == HoldUnits(ClosedHolds, CapturedOf, RestOf)
           IN  /\ living = HeldUnits \cup closed /\ HeldUnits \cap closed = {}
               /\ closed = taken \cup rest /\ taken \cap rest = {} /\ taken = CapturedUnits
  <1> DEFINE zero == [h \in Holds |-> 0]
             living == HoldUnits(Opened, zero, AmountOf)
             closed == HoldUnits(ClosedHolds, zero, AmountOf)
             taken == HoldUnits(ClosedHolds, zero, CapturedOf)
             rest == HoldUnits(ClosedHolds, CapturedOf, RestOf)
             open == {h \in Holds : holds[h].status = "OPEN"}
  <1>1. ASSUME NEW H, NEW low, NEW size, NEW u
        PROVE  u \in HoldUnits(H, low, size) <=>
                  \E h \in H : \E i \in (low[h] + 1) .. (low[h] + size[h]) : u = <<h, i>>
    BY DEF HoldUnits
  <1>2. ASSUME NEW h \in Holds
        PROVE  /\ zero[h] = 0 /\ AmountOf[h] = holds[h].amount /\ CapturedOf[h] = holds[h].captured
               /\ RestOf[h] = holds[h].amount - holds[h].captured
               /\ holds[h].amount \in Nat /\ holds[h].captured \in Nat
               /\ holds[h].captured <= holds[h].amount
               /\ h \notin ClosedHolds => holds[h].captured = 0
               /\ h \in Opened <=> h \in open \/ h \in ClosedHolds
               /\ ~(h \in open /\ h \in ClosedHolds)
    BY HoldTypes DEF Opened, ClosedHolds, AmountOf, CapturedOf, RestOf, Outcomes
  <1>3. Opened \subseteq Holds /\ ClosedHolds \subseteq Holds /\ open \subseteq Holds
    BY DEF Opened, ClosedHolds
  <1>4. \A u : u \in HeldUnits <=> \E h \in open : \E i \in 1 .. holds[h].amount : u = <<h, i>>
    BY DEF HeldUnits
  <1>5. \A u : u \in CapturedUnits <=> \E h \in Holds : \E i \in 1 .. holds[h].captured : u = <<h, i>>
    BY DEF CapturedUnits
  <1> HIDE DEF zero, open
  <1>6. \A u : u \in living <=> \E h \in Opened : \E i \in 1 .. holds[h].amount : u = <<h, i>>
    BY <1>1, <1>2, <1>3
  <1>7. \A u : u \in closed <=> \E h \in ClosedHolds : \E i \in 1 .. holds[h].amount : u = <<h, i>>
    BY <1>1, <1>2, <1>3
  <1>8. \A u : u \in taken <=> \E h \in ClosedHolds : \E i \in 1 .. holds[h].captured : u = <<h, i>>
    BY <1>1, <1>2, <1>3
  <1>9. \A u : u \in rest <=> \E h \in ClosedHolds :
                                 \E i \in (holds[h].captured + 1) .. holds[h].amount : u = <<h, i>>
    <2>1. \A h \in ClosedHolds : CapturedOf[h] + RestOf[h] = holds[h].amount
                                 /\ CapturedOf[h] = holds[h].captured
      BY <1>2, <1>3
    <2> QED
      BY <1>1, <2>1
  <1> HIDE DEF living, closed, taken, rest
  <1>10. living = HeldUnits \cup closed
    <2>1. ASSUME NEW u PROVE u \in living <=> u \in HeldUnits \/ u \in closed
      BY <1>2, <1>3, <1>4, <1>6, <1>7
    <2> QED
      BY <2>1
  <1>11. HeldUnits \cap closed = {}
    <2>1. ASSUME NEW u, u \in HeldUnits, u \in closed PROVE FALSE
      BY <1>2, <1>3, <1>4, <1>7, <2>1
    <2> QED
      BY <2>1
  <1>12. closed = taken \cup rest
    <2>1. ASSUME NEW h \in ClosedHolds, NEW i
          PROVE  i \in 1 .. holds[h].amount <=> \/ i \in 1 .. holds[h].captured
                                                \/ i \in (holds[h].captured + 1) .. holds[h].amount
      BY <1>2, <1>3
    <2>2. ASSUME NEW u PROVE u \in closed <=> u \in taken \/ u \in rest
      BY <1>7, <1>8, <1>9, <2>1
    <2> QED
      BY <2>2
  <1>13. taken \cap rest = {}
    <2>1. ASSUME NEW h \in ClosedHolds, NEW i \in 1 .. holds[h].captured
          PROVE  i \notin (holds[h].captured + 1) .. holds[h].amount
      BY <1>2, <1>3
    <2>2. ASSUME NEW u, u \in taken, u \in rest PROVE FALSE
      BY <1>8, <1>9, <2>1, <2>2
    <2> QED
      BY <2>2
  <1>14. taken = CapturedUnits
    <2>1. ASSUME NEW h \in Holds, NEW i \in 1 .. holds[h].captured PROVE h \in ClosedHolds
      BY <1>2
    <2>2. ASSUME NEW u PROVE u \in taken <=> u \in CapturedUnits
      BY <1>3, <1>5, <1>8, <2>1
    <2> QED
      BY <2>2
  <1> QED
    BY <1>10, <1>11, <1>12, <1>13, <1>14 DEF zero, living, closed, taken, rest

LEMMA BooksBalance == LedgerInv => HoldsAreFunded
  <1> SUFFICES ASSUME LedgerInv PROVE HoldsAreFunded
    OBVIOUS
  <1> DEFINE zero == [h \in Holds |-> 0]
             living == HoldUnits(Opened, zero, AmountOf)
             closed == HoldUnits(ClosedHolds, zero, AmountOf)
             taken == HoldUnits(ClosedHolds, zero, CapturedOf)
             rest == HoldUnits(ClosedHolds, CapturedOf, RestOf)
             plain == Posts \X {1}
  <1>1. BalanceInv /\ IsFiniteSet(journal)
    BY DEF LedgerInv, ChainInv, Good
  <1>2. /\ \A h \in Opened : /\ Opens[h].key[2] = h /\ zero[h] \in Nat /\ AmountOf[h] \in Nat
        /\ \A h \in ClosedHolds : /\ Closes[h].key[2] = h /\ zero[h] \in Nat /\ AmountOf[h] \in Nat
                                  /\ CapturedOf[h] \in Nat /\ RestOf[h] \in Nat
    <2>1. \A h \in Holds : AmountOf[h] \in Nat /\ CapturedOf[h] \in Nat /\ RestOf[h] \in Nat
      BY <1>1, HoldTypes DEF AmountOf, CapturedOf, RestOf
    <2>2. Opened \subseteq Holds /\ ClosedHolds \subseteq Holds
      BY DEF Opened, ClosedHolds
    <2> QED
      BY <1>1, <2>1, <2>2, PostingsAre
  <1>3. \A a \in Accounts : IsFiniteSet(Credits(a)) /\ IsFiniteSet(Debits(a))
    <2> SUFFICES ASSUME NEW a \in Accounts PROVE IsFiniteSet(Credits(a)) /\ IsFiniteSet(Debits(a))
      OBVIOUS
    <2>1. \A e \in journal : e.postings[a] \in Int /\ -e.postings[a] \in Int
      <3>1. \A h \in Holds : holds[h].amount \in Nat /\ holds[h].captured \in Nat
        BY <1>1, HoldTypes
      <3>2. Opened \subseteq Holds /\ ClosedHolds \subseteq Holds
        BY DEF Opened, ClosedHolds
      <3> QED
        BY <1>1, <3>1, <3>2, JournalIs, PostingsAre DEF Accounts
    <2> DEFINE gain == [e \in journal |-> e.postings[a]]
               loss == [e \in journal |-> -e.postings[a]]
    <2>2. gain \in [journal -> Int] /\ loss \in [journal -> Int]
      BY <2>1
    <2>3. /\ Credits(a) = UNION {{e} \X (1 .. gain[e]) : e \in journal}
          /\ Debits(a) = UNION {{e} \X (1 .. loss[e]) : e \in journal}
      BY DEF Credits, Debits
    <2> HIDE DEF gain, loss
    <2> QED
      BY <1>1, <2>2, <2>3, FiniteUnits
  <1>4. /\ IsFiniteSet(living) /\ Cardinality(living) = Cardinality(Credits("reserve"))
        /\ Cardinality(living) = Cardinality(EntryUnits(Opened, Opens, AmountOf))
        /\ IsFiniteSet(EntryUnits(Opened, Opens, AmountOf))
    <2>1. Credits("reserve") = EntryUnits(Opened, Opens, AmountOf)
      BY <1>1, CreditsAre
    <2> QED
      BY <1>2, <1>3, <2>1, UnitsMatch DEF Accounts
  <1>5. IsFiniteSet(closed) /\ Cardinality(closed) = Cardinality(Debits("reserve"))
    <2>1. Debits("reserve") = EntryUnits(ClosedHolds, Closes, AmountOf)
      BY <1>1, CreditsAre
    <2> QED
      BY <1>2, <1>3, <2>1, UnitsMatch DEF Accounts
  <1>6. IsFiniteSet(rest) /\ Cardinality(rest) = Cardinality(Credits("source"))
    <2>1. Credits("source") = EntryUnits(ClosedHolds, Closes, RestOf)
      BY <1>1, CreditsAre
    <2> QED
      BY <1>2, <1>3, <2>1, UnitsMatch DEF Accounts
  <1>7. /\ IsFiniteSet(plain) /\ Cardinality(plain) = PlainPosts
    <2>1. IsFiniteSet(Posts)
      BY <1>1, FS_Subset DEF Posts
    <2> DEFINE f == [u \in Posts |-> <<u, 1>>]
    <2>2. /\ f \in [Posts -> plain] /\ \A x, y \in Posts : f[x] = f[y] => x = y
          /\ \A t \in plain : \E x \in Posts : f[x] = t
      OBVIOUS
    <2> HIDE DEF f, plain
    <2>3. IsFiniteSet(plain) /\ Cardinality(plain) = Cardinality(Posts)
      BY <2>1, <2>2, SameSize
    <2> QED
      BY <2>3 DEF PlainPosts, Posts
  <1>8. /\ IsFiniteSet(taken) /\ Cardinality(Credits("merchant")) = PlainPosts + Cardinality(taken)
    <2> DEFINE units == EntryUnits(ClosedHolds, Closes, CapturedOf)
    <2>1. Credits("merchant") = plain \cup units
      BY <1>1, CreditsAre
    <2>2. IsFiniteSet(units)
      BY <1>3, <2>1, FS_Subset DEF Accounts
    <2>3. plain \cap units = {}
      BY <1>1, JournalIs DEF EntryUnits
    <2>4. IsFiniteSet(taken) /\ Cardinality(taken) = Cardinality(units)
      BY <1>2, <2>2, UnitsMatch
    <2> HIDE DEF units, plain, taken
    <2>5. Cardinality(plain \cup units) = Cardinality(plain) + Cardinality(units)
      BY <1>7, <2>2, <2>3, DisjointSizes
    <2> QED
      BY <1>7, <2>1, <2>4, <2>5
  <1>9. Cardinality(Debits("source")) = PlainPosts + Cardinality(living)
    <2> DEFINE units == EntryUnits(Opened, Opens, AmountOf)
    <2>1. Debits("source") = plain \cup units
      BY <1>1, CreditsAre
    <2>2. plain \cap units = {}
      BY <1>1, JournalIs DEF EntryUnits
    <2> HIDE DEF units, plain, living
    <2>3. Cardinality(plain \cup units) = Cardinality(plain) + Cardinality(units)
      BY <1>4, <1>7, <2>2, DisjointSizes DEF units
    <2> QED
      BY <1>4, <1>7, <2>1, <2>3 DEF units
  <1>10. Cardinality(Debits("merchant")) = 0
    BY <1>1, CreditsAre, FS_EmptySet
  <1>11. /\ living = HeldUnits \cup closed /\ HeldUnits \cap closed = {}
         /\ closed = taken \cup rest /\ taken \cap rest = {} /\ taken = CapturedUnits
    BY <1>1, UnitsSplit
  <1> HIDE DEF living, closed, taken, rest, plain
  <1>12. IsFiniteSet(HeldUnits)
    BY <1>4, <1>11, FS_Subset
  <1>13. /\ Cardinality(living) = Cardinality(HeldUnits) + Cardinality(closed)
         /\ Cardinality(closed) = Cardinality(taken) + Cardinality(rest)
         /\ Cardinality(HeldUnits) \in Nat /\ Cardinality(closed) \in Nat
         /\ Cardinality(taken) \in Nat /\ Cardinality(rest) \in Nat
    BY <1>5, <1>6, <1>8, <1>11, <1>12, DisjointSizes
  <1>14. PlainPosts \in Nat
    BY <1>7, FS_CardinalityType
  <1> QED
    BY <1>4, <1>5, <1>6, <1>8, <1>9, <1>10, <1>11, <1>13, <1>14 DEF HoldsAreFunded, Balance

(* For any number of writers, keys, holds and amounts: every transaction     *)
(* that _append_journal_entry, open_hold and release_hold make, committed in *)
(* any order or rolled back anywhere, leaves a chain that verify_chain       *)
(* passes with every key posted once, the reserve equal to the open holds,   *)
(* the merchant's balance equal to what was captured, and accounts that      *)
(* cancel out.                                                               *)
THEOREM LedgerStaysSound == Spec => []LedgerIsSound
  <1>1. LedgerInv => LedgerIsSound
    BY BooksBalance, ChainVerifies DEF LedgerInv, LedgerIsSound
  <1> QED
    BY LedgerInitially, LedgerStep, <1>1, PTL DEF Spec

-----------------------------------------------------------------------------
(* The verifier: its rows are a prefix of the chain, and as long as nothing  *)
(* was appended since, the maximum it read is the chain's.                   *)
VerifyInv ==
    /\ verify.at \in {"idle", "walked", "tip", "compared"}
    /\ verify.at # "idle" => /\ IsSequence(verify.rows) /\ verify.rows # <<>>
                             /\ Extends(chain, verify.rows)
    /\ verify.at \in {"tip", "compared"} /\ chain = verify.rows => verify.max = MaxIndex(chain)

LEMMA VerifyStep ==
    ASSUME LedgerInv, VerifyInv, [Next]_vars
    PROVE  VerifyInv' /\ (~gate /\ gate' => chain # verify.rows)
  <1>1. /\ IsSequence(chain) /\ VerifyPasses(chain, journal, cps) /\ Extends(chain, chain)
        /\ chain # <<>> => /\ WalkSound(chain, journal) /\ CountsAgree(chain, journal)
                           /\ CheckpointsSound(cps, MaxIndex(chain), chain)
    BY ChainVerifies DEF LedgerInv, ChainInv, Good, ChainAlwaysVerifies, VerifyPasses, Extends
  <1>2. ASSUME UNCHANGED <<chain, verify, gate>>
        PROVE  VerifyInv' /\ (~gate /\ gate' => chain # verify.rows)
    BY <1>2 DEF VerifyInv, MaxIndex
  <1>3. ASSUME NEW verdict, Concludes(verdict) PROVE VerifyInv'
    BY <1>3 DEF Concludes, VerifyInv, Resting
  <1>4. ASSUME NEW w \in Writers, Commit(w)
        PROVE  VerifyInv' /\ (~gate /\ gate' => chain # verify.rows)
    <2>1. UNCHANGED <<verify, gate>>
      BY <1>4 DEF Commit
    <2>2. Good(tx[w].rows, journal \cup Chained(w)) /\ Extends(tx[w].rows, chain)
      BY <1>4 DEF Commit, LedgerInv, ChainInv, TxOK
    <2>3. IsSequence(tx[w].rows) /\ chain' = tx[w].rows
      BY <1>1, <1>4, <2>2, CommittedRows DEF Commit, Good
    <2>4. CASE verify.at = "idle"
      BY <2>1, <2>4 DEF VerifyInv
    <2>5. CASE verify.at # "idle"
      <3>1. IsSequence(verify.rows) /\ verify.rows # <<>> /\ Extends(chain, verify.rows)
        BY <2>5 DEF VerifyInv
      <3>2. Extends(chain', verify.rows)
        BY <1>1, <2>2, <2>3, <3>1, Extending
      <3>3. ASSUME chain' = verify.rows PROVE chain = verify.rows
        <4>1. Len(chain) \in Nat /\ Len(verify.rows) \in Nat
          BY <1>1, <3>1 DEF IsSequence
        <4>2. Len(chain) = Len(verify.rows) /\ \A i \in 1..Len(chain) : chain[i] = verify.rows[i]
          BY <2>2, <2>3, <3>1, <3>3, <4>1 DEF Extends
        <4> QED
          BY <1>1, <3>1, <4>1, <4>2, SameRows
      <3> QED
        BY <2>1, <2>5, <3>1, <3>2, <3>3 DEF VerifyInv
    <2> QED
      BY <2>4, <2>5
  <1>5. CASE ReadChain
    <2>1. CASE chain = <<>>
      <3>1. Concludes("COMPLETED")
        BY <1>1, <1>5, <2>1 DEF ReadChain
      <3> QED
        BY <1>3, <3>1 DEF Concludes
    <2>2. CASE chain # <<>>
      <3>1. /\ verify' = [Resting EXCEPT !.at = "walked", !.rows = chain]
            /\ UNCHANGED <<chain, gate>>
        BY <1>1, <1>5, <2>2 DEF ReadChain
      <3>2. verify'.at = "walked" /\ verify'.rows = chain
        BY <3>1 DEF Resting
      <3> QED
        BY <1>1, <2>2, <3>1, <3>2 DEF VerifyInv
    <2> QED
      BY <2>1, <2>2
  <1>6. CASE ReadTip
    <2>1. /\ verify.at = "walked" /\ verify'.at = "tip" /\ verify'.rows = verify.rows
          /\ verify'.max = MaxIndex(chain) /\ UNCHANGED <<chain, gate>>
      BY <1>6 DEF ReadTip, VerifyInv
    <2> QED
      BY <2>1 DEF VerifyInv, MaxIndex
  <1>7. CASE ReadCheckpoints
    <2>1. CASE CheckpointsSound(cps, verify.max, chain)
      <3>0. /\ verify.at = "tip" /\ verify' = [verify EXCEPT !.at = "compared"]
            /\ UNCHANGED <<chain, gate>>
        BY <1>7, <2>1 DEF ReadCheckpoints
      <3>1. verify'.at = "compared" /\ verify'.rows = verify.rows /\ verify'.max = verify.max
        BY <3>0 DEF VerifyInv
      <3> QED
        BY <3>0, <3>1 DEF VerifyInv, MaxIndex
    <2>2. CASE ~CheckpointsSound(cps, verify.max, chain)
      <3>1. verify.at = "tip" /\ Concludes("FAILED_BROKEN_CHAIN")
        BY <1>7, <2>2 DEF ReadCheckpoints
      <3>2. chain # verify.rows
        BY <1>1, <2>2, <3>1 DEF VerifyInv
      <3> QED
        BY <1>3, <3>1, <3>2
    <2> QED
      BY <2>1, <2>2
  <1>8. CASE CountJournal
    <2>1. CASE CountsAgree(verify.rows, journal)
      <3>1. Concludes("COMPLETED")
        BY <1>8, <2>1 DEF CountJournal
      <3> QED
        BY <1>3, <3>1 DEF Concludes
    <2>2. CASE ~CountsAgree(verify.rows, journal)
      <3>1. verify.at = "compared" /\ Concludes("FAILED_BROKEN_CHAIN")
        BY <1>8, <2>2 DEF CountJournal
      <3>2. chain # verify.rows
        BY <1>1, <2>2, <3>1 DEF VerifyInv
      <3> QED
        BY <1>3, <3>1, <3>2
    <2> QED
      BY <2>1, <2>2
  <1>9. CASE VerifyRaises
    BY <1>3, <1>9 DEF VerifyRaises, Concludes
  <1>10. ASSUME NEW w \in Writers, WriterNext(w), ~Commit(w) PROVE UNCHANGED <<chain, verify, gate>>
    <2>1. ASSUME NEW k \in Keys, PostJournalEntry(w, k) PROVE UNCHANGED <<chain, verify, gate>>
      BY <2>1, Zenon DEF PostJournalEntry, Starts
    <2>2. ASSUME NEW h \in Holds, NEW n \in Amounts, NEW outcome \in Outcomes,
                 OpenHold(w, h, n) \/ ReleaseHold(w, h, outcome, n)
          PROVE  UNCHANGED <<chain, verify, gate>>
      BY <2>2, Zenon DEF OpenHold, ReleaseHold, Starts
    <2>3. ASSUME \/ Begin(w)
                 \/ InsertJournalEntry(w)
                 \/ AppendChain(w)
                 \/ Rollback(w)
          PROVE  UNCHANGED <<chain, verify, gate>>
      BY <2>3, Zenon DEF Begin, InsertJournalEntry, AppendChain, Rollback
    <2>4. Outcomes # {}
      BY DEF Outcomes
    <2> QED
      BY <1>10, <2>1, <2>2, <2>3, <2>4 DEF WriterNext
  <1>11. CASE UNCHANGED vars
    BY <1>2, <1>11 DEF vars
  <1> QED
    BY <1>2, <1>4, <1>5, <1>6, <1>7, <1>8, <1>9, <1>10, <1>11 DEF Next

(* For any number of writers, keys, holds and amounts: verify_chain raises   *)
(* the write gate only when the chain grew after it had read it; a walk      *)
(* that overlaps no commit never does.                                       *)
THEOREM AlarmsNeedRaces == Spec => AlarmNeedsRace
  <1>1. Init => VerifyInv
    BY DEF Init, VerifyInv, Resting
  <1>2. LedgerInv /\ VerifyInv /\ [Next]_vars
          => VerifyInv' /\ [~gate /\ gate' => chain # verify.rows]_vars
    BY VerifyStep
  <1> QED
    BY LedgerInitially, LedgerStep, <1>1, <1>2, PTL DEF Spec, AlarmNeedsRace
=============================================================================
