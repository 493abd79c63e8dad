---------------------------- MODULE PayoutProofs ----------------------------
(***************************************************************************)
(* Theorems about money that leaves, for every value of the constants:     *)
(* bulk payouts, the two-eyes approvals they ask for, and refunds.         *)
(***************************************************************************)
EXTENDS Disbursement, Refunds, FiniteSetTheorems, WellFoundedInduction, TLAPS

(* A step that names no prover is tried with each of these in turn.         *)
USE ZenonT(2), SMT, Zenon, SMTT(30)

(***************************************************************************)
(* The money of a bulk payout adds up, for any number of items, amounts,   *)
(* dispatchers and changes of the watchlist.  The amounts are counted unit *)
(* by unit, so that settling an item moves exactly its units.              *)
(***************************************************************************)

UnitsOf(S) == UNION {{i} \X (1 .. Amount[i]) : i \in S}

(* A finite number of rows is a finite number of units.                      *)
LEMMA UnitsFinite ==
    ASSUME NEW S, S \subseteq Items
    PROVE  IsFiniteSet(UnitsOf(S))
  <1> DEFINE f == [i \in S |-> {i} \X (1 .. Amount[i])]
  <1> DEFINE T == {{i} \X (1 .. Amount[i]) : i \in S}
  <1>1. IsFiniteSet(S)
    BY FS_Subset, DisbursementAssumption
  <1>2. f \in Surjection(S, T)
    BY DEF Surjection
  <1>3. IsFiniteSet(T)
    <2> HIDE DEF f, T
    <2> QED
      BY <1>1, <1>2, FS_Surjection
  <1>4. ASSUME NEW i \in S PROVE IsFiniteSet({i} \X (1 .. Amount[i]))
    <2>1. Amount[i] \in Int
      BY DisbursementAssumption
    <2>2. IsFiniteSet(1 .. Amount[i])
      BY <2>1, 1 \in Int, FS_Interval, Zenon
    <2>3. IsFiniteSet({i})
      BY FS_Singleton, Zenon
    <2> QED
      BY <2>2, <2>3, FS_Product
  <1>5. \A X \in T : IsFiniteSet(X)
    BY <1>4
  <1> HIDE DEF T
  <1>6. IsFiniteSet(UNION T)
    BY <1>3, <1>5, FS_UNION
  <1> QED
    BY <1>6 DEF UnitsOf, T

(* What one row adds to the amount of a set of rows.                         *)
LEMMA AmountAdds ==
    /\ AmountOf({}) = 0
    /\ \A S \in SUBSET Items : AmountOf(S) \in Nat
    /\ \A S \in SUBSET Items : \A i \in Items \ S : AmountOf(S \cup {i}) = AmountOf(S) + Amount[i]
  <1>1. AmountOf({}) = 0
    <2>1. UNION {{i} \X (1 .. Amount[i]) : i \in {}} = {}
      OBVIOUS
    <2> QED
      BY <2>1, FS_EmptySet DEF AmountOf
  <1>2. ASSUME NEW S \in SUBSET Items PROVE AmountOf(S) \in Nat
    BY UnitsFinite, FS_CardinalityType DEF AmountOf, UnitsOf
  <1>3. ASSUME NEW S \in SUBSET Items, NEW i \in Items \ S
        PROVE  AmountOf(S \cup {i}) = AmountOf(S) + Amount[i]
    <2> DEFINE row == {i} \X (1 .. Amount[i])
    <2>1. UnitsOf(S \cup {i}) = UnitsOf(S) \cup row /\ UnitsOf(S) \cap row = {}
      BY DEF UnitsOf
    <2>2. Amount[i] \in Nat
      BY DisbursementAssumption
    <2>3. IsFiniteSet(1 .. Amount[i]) /\ Cardinality(1 .. Amount[i]) = Amount[i]
      <3>1. /\ IsFiniteSet(1 .. Amount[i])
            /\ Cardinality(1 .. Amount[i]) = IF 1 > Amount[i] THEN 0 ELSE Amount[i] - 1 + 1
        <4>1. 1 \in Int /\ Amount[i] \in Int
          BY <2>2
        <4> QED
          BY <4>1, FS_Interval, Zenon
      <3> QED
        BY <2>2, <3>1
    <2>4. IsFiniteSet({i}) /\ Cardinality({i}) = 1
      BY FS_Singleton
    <2>5. IsFiniteSet(row) /\ Cardinality(row) = 1 * Amount[i]
      <3>1. /\ IsFiniteSet({i} \X (1 .. Amount[i]))
            /\ Cardinality({i} \X (1 .. Amount[i])) = Cardinality({i}) * Cardinality(1 .. Amount[i])
        BY <2>3, <2>4, FS_Product
      <3> QED
        BY <2>3, <2>4, <3>1, Zenon
    <2>6. IsFiniteSet(UnitsOf(S))
      BY UnitsFinite
    <2> HIDE DEF row
    <2>7. Cardinality(UnitsOf(S) \cup row)
             = Cardinality(UnitsOf(S)) + Cardinality(row) - Cardinality(UnitsOf(S) \cap row)
      BY <2>5, <2>6, FS_Union
    <2>8. Cardinality(UnitsOf(S)) \in Nat
      BY <2>6, FS_CardinalityType
    <2>9. Cardinality(UnitsOf(S \cup {i})) = Cardinality(UnitsOf(S)) + Amount[i]
      <3>1. Cardinality(UnitsOf(S) \cap row) = 0
        BY <2>1, FS_EmptySet DEF row
      <3>2. Cardinality(row) = Amount[i]
        BY <2>2, <2>5
      <3>3. UnitsOf(S \cup {i}) = UnitsOf(S) \cup row
        BY <2>1 DEF row
      <3>4. Cardinality(UnitsOf(S) \cup row) = Cardinality(UnitsOf(S)) + Amount[i]
        BY <2>2, <2>7, <2>8, <3>1, <3>2
      <3> QED
        BY <3>3, <3>4, Zenon
    <2> QED
      BY <2>9 DEF AmountOf, UnitsOf
  <1> QED
    BY <1>1, <1>2, <1>3
-----------------------------------------------------------------------------
(* The states of a batch before it is funded.                                *)
Early == {"DRAFT", "VALIDATED", "VALIDATION_FAILED", "PENDING_APPROVAL", "CANCELLED"}

DispRecs ==
    [at : {"idle", "screened", "hits", "upload", "items", "await", "recover", "queried"},
     mode : {"none", "first", "lost", "sent", "plain"}, seen : SUBSET Items,
     hits : SUBSET Items, queue : SUBSET Items]

(* A dispatcher that stops has nothing in hand.                              *)
LEMMA FreeRec == Free \in DispRecs /\ Free.at = "idle"
  BY DEF DispRecs, Free

DTypes ==
    /\ batch \in BATCH_STATES
    /\ item \in [Items -> ITEM_STATES]
    /\ calls \in [Items -> Nat]
    /\ disp \in [Dispatchers -> DispRecs]

(* Nothing moves before the batch is taken for dispatch, and the maker that  *)
(* writes its status late finds a batch that nobody has approved.            *)
OfficeOK ==
    /\ batch \in {"DRAFT", "VALIDATION_FAILED"} => \A i \in Items : item[i] = "ABSENT"
    /\ batch \in {"VALIDATED", "PENDING_APPROVAL", "APPROVED", "CANCELLED"}
          => /\ \E i \in Items : item[i] = "QUEUED"
             /\ \A i \in Items : item[i] \in {"ABSENT", "QUEUED"}
    /\ batch \in {"DRAFT", "VALIDATION_FAILED"} => maker = "idle" /\ checker = "idle" /\ request = "NONE"
    /\ batch = "VALIDATED" => checker = "idle" /\ request \in {"NONE", "PENDING"}
    /\ batch = "VALIDATED" /\ request = "PENDING" => maker = "requested"
    /\ maker = "requested" => batch \in {"VALIDATED", "CANCELLED"} /\ checker = "idle"

MayBe(r) ==
    /\ r.at # "idle" => batch \notin Early
    /\ r.at \notin {"idle", "screened"} => batch # "APPROVED"
    /\ r.at = "await" => r.queue # {}

BooksOK ==
    /\ books \in [settlement : Int, reserve : Int, paid : Int, funds : Int]
    /\ ReserveIsOwed

CallsOK == \A i \in Items : calls[i] <= 1 /\ (item[i] \in {"ABSENT", "QUEUED"} => calls[i] = 0)

DInv ==
    /\ DTypes
    /\ OfficeOK
    /\ \A d \in Dispatchers : MayBe(disp[d])
    /\ BooksOK
    /\ ClosedWhenSettled
    /\ CallsOK

(* Nothing is owed on a batch that is not there.                             *)
LEMMA DInitially == DInit => DInv
  <1> SUFFICES ASSUME DInit PROVE DInv
    OBVIOUS
  <1>1. WithStatus(Unsettled) = {} /\ WithStatus({"PAID"}) = {}
    BY DEF DInit, WithStatus, Unsettled
  <1>2. BooksOK
    <2>1. PICK funds \in {0, AmountOf(Items)} :
             books = [settlement |-> funds, reserve |-> 0, paid |-> 0, funds |-> funds]
      BY DEF DInit
    <2>2. funds \in Int
      BY AmountAdds
    <2>3. ~Funded
      BY DEF DInit, Funded
    <2>4. books \in [settlement : Int, reserve : Int, paid : Int, funds : Int]
      BY <2>1, <2>2
    <2>5. /\ books.settlement = funds /\ books.reserve = 0 /\ books.paid = 0
          /\ books.funds = funds /\ funds + 0 + 0 = funds /\ AmountOf({}) = 0
      BY <2>1, <2>2, AmountAdds
    <2> QED
      BY <1>1, <2>3, <2>4, <2>5 DEF BooksOK, ReserveIsOwed
  <1>3. DTypes
    BY DEF DInit, DTypes, BATCH_STATES, ITEM_STATES, DispRecs, Free
  <1>4. OfficeOK /\ ClosedWhenSettled /\ CallsOK
    BY DEF DInit, OfficeOK, ClosedWhenSettled, CallsOK, Funded
  <1>5. \A d \in Dispatchers : MayBe(disp[d])
    BY DEF DInit, MayBe, Free
  <1> QED
    BY <1>2, <1>3, <1>4, <1>5 DEF DInv

(* A step of one dispatcher that touches no row.                             *)
LEMMA DispatcherMoves ==
    ASSUME DInv, NEW d \in Dispatchers, NEW r \in DispRecs, Goes(d, r), MayBe(r),
           UNCHANGED <<batch, item, books, request, maker, checker, calls>>
    PROVE  DInv'
  <1>1. /\ disp' \in [Dispatchers -> DispRecs] /\ disp'[d] = r
        /\ \A e \in Dispatchers \ {d} : disp'[e] = disp[e]
    BY DEF DInv, DTypes, Goes
  <1>2. DTypes' /\ OfficeOK'
    BY <1>1 DEF DInv, DTypes, OfficeOK
  <1>3. \A e \in Dispatchers : MayBe(disp[e])'
    BY <1>1 DEF DInv, MayBe
  <1>4. BooksOK' /\ ClosedWhenSettled' /\ CallsOK'
    BY DEF DInv, BooksOK, ClosedWhenSettled, CallsOK, ReserveIsOwed, Funded, WithStatus
  <1> QED
    BY <1>2, <1>3, <1>4 DEF DInv

(* A row is settled: mark_item_paid, mark_item_returned or mark_item_failed  *)
(* moves its units out of the reserve, and closes the batch with the last.   *)
LEMMA Settling ==
    ASSUME DInv, NEW i \in Items, NEW to \in ITEM_TERMINAL_STATES, Settles(i, to),
           item[i] \in Unsettled, batch = "DISPATCHING", UNCHANGED calls
    PROVE  /\ batch' \in {"DISPATCHING", "COMPLETED", "PARTIALLY_RETURNED"}
           /\ item' \in [Items -> ITEM_STATES]
           /\ BooksOK' /\ ClosedWhenSettled' /\ CallsOK'
  <1> DEFINE U == WithStatus(Unsettled)  P == WithStatus({"PAID"})
  <1>1. item' \in [Items -> ITEM_STATES] /\ item'[i] = to
        /\ \A j \in Items \ {i} : item'[j] = item[j]
    BY DEF DInv, DTypes, Settles, ITEM_STATES
  <1>2. /\ WithStatus(Unsettled)' = U \ {i} /\ i \in U /\ i \notin P
        /\ WithStatus({"PAID"})' = IF to = "PAID" THEN P \cup {i} ELSE P
    BY <1>1 DEF WithStatus, Unsettled, ITEM_TERMINAL_STATES
  <1>3. /\ batch' \in {"DISPATCHING", "COMPLETED", "PARTIALLY_RETURNED"}
        /\ batch' = "DISPATCHING" <=> WithStatus(Unsettled)' # {}
    <2>1. batch' = Completed(item')
      BY DEF Settles
    <2>2. (\E j \in Items : item'[j] \in Unsettled) <=> WithStatus(Unsettled)' # {}
      BY DEF WithStatus
    <2> QED
      BY <2>1, <2>2 DEF Completed
  <1>4. U \in SUBSET Items /\ U \ {i} \in SUBSET Items /\ P \in SUBSET Items
        /\ (U \ {i}) \cup {i} = U
    BY <1>2 DEF WithStatus
  <1>5. /\ AmountOf(U \ {i}) \in Nat /\ AmountOf(P) \in Nat /\ Amount[i] \in Nat
        /\ AmountOf(U) = AmountOf(U \ {i}) + Amount[i]
        /\ AmountOf(P \cup {i}) = AmountOf(P) + Amount[i]
    BY <1>2, <1>4, AmountAdds, DisbursementAssumption
  <1>6. /\ books.settlement \in Int /\ books.reserve = AmountOf(U) /\ books.paid = AmountOf(P)
        /\ books.settlement + books.reserve + books.paid = books.funds /\ books.funds \in Int
        /\ books \in [settlement : Int, reserve : Int, paid : Int, funds : Int]
    BY DEF DInv, BooksOK, ReserveIsOwed, Funded
  <1> HIDE DEF U, P
  <1>7. BooksOK'
    <2>1. CASE to = "PAID"
      <3>1. /\ books' = [books EXCEPT !.reserve = books.reserve - Amount[i],
                                      !.paid = books.paid + Amount[i]]
        BY <2>1 DEF Settles, PaidOut
      <3>2. /\ books'.reserve = AmountOf(U \ {i}) /\ books'.paid = AmountOf(P \cup {i})
            /\ books'.settlement = books.settlement /\ books'.funds = books.funds
            /\ books' \in [settlement : Int, reserve : Int, paid : Int, funds : Int]
        <4>1. /\ books.reserve - Amount[i] = AmountOf(U \ {i}) /\ books.reserve - Amount[i] \in Int
              /\ books.paid + Amount[i] = AmountOf(P \cup {i}) /\ books.paid + Amount[i] \in Int
          BY <1>5, <1>6
        <4> QED
          BY <3>1, <4>1, <1>6
      <3>3. books'.settlement + books'.reserve + books'.paid = books'.funds
        BY <3>2, <1>5, <1>6
      <3> QED
        BY <2>1, <3>2, <3>3, <1>2, <1>3 DEF BooksOK, ReserveIsOwed, Funded
    <2>2. CASE to # "PAID"
      <3>1. /\ books' = [books EXCEPT !.reserve = books.reserve - Amount[i],
                                      !.settlement = books.settlement + Amount[i]]
        BY <2>2 DEF Settles, Released
      <3>2. /\ books'.reserve = AmountOf(U \ {i}) /\ books'.paid = AmountOf(P)
            /\ books'.settlement = books.settlement + Amount[i] /\ books'.funds = books.funds
            /\ books' \in [settlement : Int, reserve : Int, paid : Int, funds : Int]
        <4>1. /\ books.reserve - Amount[i] = AmountOf(U \ {i}) /\ books.reserve - Amount[i] \in Int
              /\ books.settlement + Amount[i] \in Int
          BY <1>5, <1>6
        <4> QED
          BY <3>1, <4>1, <1>6
      <3>3. books'.settlement + books'.reserve + books'.paid = books'.funds
        BY <3>2, <1>5, <1>6
      <3> QED
        BY <2>2, <3>2, <3>3, <1>2, <1>3 DEF BooksOK, ReserveIsOwed, Funded
    <2> QED
      BY <2>1, <2>2
  <1>8. ClosedWhenSettled'
    BY <1>3 DEF ClosedWhenSettled, BATCH_TERMINAL_STATES
  <1>9. CallsOK'
    BY <1>1 DEF DInv, CallsOK, ITEM_TERMINAL_STATES
  <1> QED
    BY <1>1, <1>3, <1>7, <1>8, <1>9

(* A row that goes out to its rail is owed as before.                        *)
LEMMA GoingOut ==
    ASSUME DInv, NEW i \in Items, item[i] \in Unsettled,
           NEW to \in {"DISPATCHING", "DISPATCHED"}, item' = [item EXCEPT ![i] = to],
           UNCHANGED <<batch, books>>
    PROVE  /\ item' \in [Items -> ITEM_STATES] /\ item'[i] = to
           /\ \A j \in Items \ {i} : item'[j] = item[j]
           /\ BooksOK' /\ ClosedWhenSettled'
  <1>1. item' \in [Items -> ITEM_STATES] /\ item'[i] = to
        /\ \A j \in Items \ {i} : item'[j] = item[j]
    BY DEF DInv, DTypes, ITEM_STATES
  <1>2. /\ WithStatus(Unsettled)' = WithStatus(Unsettled)
        /\ WithStatus({"PAID"})' = WithStatus({"PAID"})
    BY <1>1 DEF WithStatus, Unsettled
  <1>3. BooksOK'
    BY <1>2 DEF DInv, BooksOK, ReserveIsOwed, Funded
  <1>4. ClosedWhenSettled'
    BY <1>2 DEF DInv, ClosedWhenSettled, Funded
  <1> QED
    BY <1>1, <1>3, <1>4

(* Only a batch that is being dispatched has rows on their way.              *)
LEMMA OnTheWay ==
    ASSUME DInv, NEW i \in Items, item[i] \in Unsettled,
           \/ item[i] # "QUEUED"
           \/ batch \notin Early \cup {"APPROVED"}
    PROVE  batch = "DISPATCHING"
  <1>1. batch \notin Early \cup {"APPROVED"}
    BY DEF DInv, OfficeOK, Early, Unsettled
  <1>2. batch \in BATCH_STATES /\ WithStatus(Unsettled) # {}
    BY DEF DInv, DTypes, WithStatus
  <1> QED
    BY <1>1, <1>2 DEF DInv, ClosedWhenSettled, Funded, BATCH_STATES, BATCH_TERMINAL_STATES, Early

(* What is left to show of a step taken while a batch is being dispatched.   *)
LEMMA WhileDispatching ==
    ASSUME DInv, batch = "DISPATCHING", UNCHANGED <<request, maker, checker>>,
           batch' \in {"DISPATCHING", "COMPLETED", "PARTIALLY_RETURNED"},
           item' \in [Items -> ITEM_STATES], calls' \in [Items -> Nat],
           disp' \in [Dispatchers -> DispRecs],
           \A e \in Dispatchers : disp'[e].at = "await" => disp'[e].queue # {},
           BooksOK', ClosedWhenSettled', CallsOK'
    PROVE  DInv'
  <1>1. DTypes'
    BY DEF DTypes, BATCH_STATES
  <1>2. OfficeOK'
    BY DEF DInv, OfficeOK
  <1>3. \A e \in Dispatchers : MayBe(disp[e])'
    BY DEF MayBe, Early
  <1> QED
    BY <1>1, <1>2, <1>3 DEF DInv

(* The dispatcher's own record after a step.                                 *)
LEMMA GoesTo ==
    ASSUME DInv, NEW d \in Dispatchers, NEW r \in DispRecs, Goes(d, r),
           r.at = "await" => r.queue # {}
    PROVE  /\ disp' \in [Dispatchers -> DispRecs]
           /\ \A e \in Dispatchers : disp'[e].at = "await" => disp'[e].queue # {}
  BY DEF DInv, DTypes, Goes, MayBe

(* A loop over rows takes the least one left.                                *)
LEMMA MinOfItems ==
    ASSUME NEW S, S \subseteq Items, S # {}
    PROVE  Min(S) \in S
  <1> DEFINE R == {ss \in Nat \X Nat : ss[1] < ss[2]}
  <1>1. IsWellFoundedOn(R, Nat) /\ S \subseteq Nat
    BY NatLessThanWellFounded, DisbursementAssumption, Zenon DEF OpToRel
  <1>2. PICK x \in S : \A y \in S : ~(<<y, x>> \in R)
    <2> HIDE DEF R
    <2> QED
      BY <1>1, WFMin, Zenon
  <1>3. ASSUME NEW y \in S PROVE x =< y
    <2>1. <<y, x>> \in Nat \X Nat /\ x \in Nat /\ y \in Nat
      BY <1>1
    <2>2. ~(y < x)
      BY <1>2, <2>1
    <2> QED
      BY <2>1, <2>2
  <1> QED
    BY <1>3 DEF Min

(* Every step of the maker, the checker, the dispatchers and the bank.       *)
LEMMA DStep == DInv /\ [DNext]_dvars => DInv'
  <1> SUFFICES ASSUME DInv, [DNext]_dvars PROVE DInv'
    OBVIOUS
  <1> USE DEF office, rails
  <1>0. DTypes /\ OfficeOK /\ BooksOK /\ ClosedWhenSettled /\ CallsOK
        /\ \A d \in Dispatchers : MayBe(disp[d])
    BY DEF DInv
  <1>1. ASSUME NEW accepted \in SUBSET Items, CreateBatch(accepted) PROVE DInv'
    <2>1. /\ batch = "DRAFT" /\ batch' \in Early
          /\ item' = [i \in Items |-> IF i \in accepted THEN "QUEUED" ELSE "ABSENT"]
          /\ batch' = IF accepted = {} THEN "VALIDATION_FAILED" ELSE "VALIDATED"
          /\ UNCHANGED <<books, request, maker, checker, calls, disp>>
      BY <1>1 DEF CreateBatch, Early
    <2>2. WithStatus({"PAID"})' = {} /\ WithStatus({"PAID"}) = {} /\ ~Funded /\ ~Funded'
      BY <1>0, <2>1 DEF WithStatus, OfficeOK, Funded, Early
    <2>3. DTypes' /\ OfficeOK'
      BY <1>0, <2>1 DEF DTypes, OfficeOK, BATCH_STATES, ITEM_STATES
    <2>4. BooksOK' /\ ClosedWhenSettled' /\ CallsOK'
      BY <1>0, <2>1, <2>2 DEF BooksOK, ReserveIsOwed, ClosedWhenSettled, CallsOK, OfficeOK
    <2>5. \A e \in Dispatchers : MayBe(disp[e])'
      BY <1>0, <2>1 DEF MayBe, Early
    <2> QED
      BY <2>3, <2>4, <2>5 DEF DInv
  <1>2. CASE OpenRequest \/ DecideApproval
    <2>1. UNCHANGED <<batch, item, books, calls, disp>>
      BY <1>2 DEF OpenRequest, DecideApproval
    <2>2. DTypes' /\ BooksOK' /\ ClosedWhenSettled' /\ CallsOK'
          /\ \A e \in Dispatchers : MayBe(disp[e])'
      BY <1>0, <2>1 DEF DTypes, BooksOK, ReserveIsOwed, ClosedWhenSettled, CallsOK, Funded,
                        WithStatus, MayBe
    <2>3. OfficeOK'
      BY <1>0, <1>2, <2>1 DEF OfficeOK, OpenRequest, DecideApproval
    <2> QED
      BY <2>2, <2>3 DEF DInv
  <1>3. CASE SubmitBatch \/ CancelBatch \/ ApplyApprovalTerminal
    <2>1. /\ batch \in Early /\ batch' \in Early
          /\ UNCHANGED <<item, books, calls, disp>>
      BY <1>0, <1>3 DEF SubmitBatch, CancelBatch, ApplyApprovalTerminal, OfficeOK, Early
    <2>2. ~Funded /\ ~Funded'
      BY <2>1 DEF Funded, Early
    <2>3. DTypes' /\ BooksOK' /\ ClosedWhenSettled' /\ CallsOK'
      BY <1>0, <2>1, <2>2 DEF DTypes, BooksOK, ReserveIsOwed, ClosedWhenSettled, CallsOK,
                              WithStatus, Early, BATCH_STATES
    <2>4. OfficeOK'
      BY <1>0, <1>3 DEF OfficeOK, SubmitBatch, CancelBatch, ApplyApprovalTerminal
    <2>5. \A e \in Dispatchers : MayBe(disp[e])'
      BY <1>0, <2>1 DEF MayBe, Early
    <2> QED
      BY <2>3, <2>4, <2>5 DEF DInv
  <1>4. CASE ApproveBatch
    <2>1. /\ checker = "decided" /\ checker' = "idle"
          /\ UNCHANGED <<item, request, maker, calls, disp>>
      BY <1>4 DEF ApproveBatch
    <2>2. CASE UNCHANGED <<batch, books>>
      <3>1. DTypes' /\ BooksOK' /\ ClosedWhenSettled' /\ CallsOK'
            /\ \A e \in Dispatchers : MayBe(disp[e])'
        BY <1>0, <2>1, <2>2 DEF DTypes, BooksOK, ReserveIsOwed, ClosedWhenSettled, CallsOK, Funded,
                                WithStatus, MayBe
      <3>2. OfficeOK'
        BY <1>0, <2>1, <2>2 DEF OfficeOK
      <3> QED
        BY <3>1, <3>2 DEF DInv
    <2>3. CASE /\ batch = "PENDING_APPROVAL" /\ batch' = "APPROVED"
               /\ books' = [books EXCEPT !.settlement = @ - Total, !.reserve = @ + Total]
      <3>1. /\ Accepted = WithStatus(Unsettled) /\ Accepted # {} /\ Accepted \in SUBSET Items
            /\ WithStatus(Unsettled)' = WithStatus(Unsettled)
            /\ WithStatus({"PAID"})' = WithStatus({"PAID"})
        BY <1>0, <2>1, <2>3 DEF OfficeOK, Accepted, WithStatus, Unsettled
      <3>2. Total = AmountOf(WithStatus(Unsettled)) /\ Total \in Nat
        BY <3>1, AmountAdds DEF Total
      <3>3. /\ books \in [settlement : Int, reserve : Int, paid : Int, funds : Int]
            /\ books.reserve = 0 /\ books.paid = AmountOf(WithStatus({"PAID"}))
            /\ books.settlement + books.reserve + books.paid = books.funds
        BY <1>0, <2>3 DEF BooksOK, ReserveIsOwed, Funded
      <3>4. books.settlement - Total \in Int /\ books.reserve + Total \in Int
            /\ books.reserve + Total = Total
        BY <3>2, <3>3
      <3>5. /\ books'.settlement = books.settlement - Total /\ books'.reserve = Total
            /\ books'.paid = books.paid /\ books'.funds = books.funds
            /\ books' \in [settlement : Int, reserve : Int, paid : Int, funds : Int]
        BY <2>3, <3>3, <3>4
      <3>6. books'.settlement + books'.reserve + books'.paid = books'.funds
        BY <3>2, <3>3, <3>5
      <3>7. BooksOK'
        BY <2>3, <3>1, <3>2, <3>3, <3>5, <3>6 DEF BooksOK, ReserveIsOwed, Funded
      <3>8. DTypes' /\ OfficeOK'
        BY <1>0, <2>1, <2>3 DEF DTypes, OfficeOK, BATCH_STATES
      <3>9. ClosedWhenSettled' /\ CallsOK'
        BY <1>0, <2>1, <2>3, <3>1 DEF ClosedWhenSettled, BATCH_TERMINAL_STATES, CallsOK
      <3>10. \A e \in Dispatchers : MayBe(disp[e])'
        BY <1>0, <2>1, <2>3 DEF MayBe, Early
      <3> QED
        BY <3>7, <3>8, <3>9, <3>10 DEF DInv
    <2> QED
      BY <1>4, <2>2, <2>3 DEF ApproveBatch
  <1>5. CASE LeaseExpires \/ (\E i \in Items : Relist(i)) \/ UNCHANGED dvars
    <2>1. UNCHANGED <<batch, item, books, request, maker, checker, calls, disp>>
      BY <1>5 DEF LeaseExpires, Relist, dvars
    <2> QED
      BY <1>0, <2>1 DEF DInv, DTypes, OfficeOK, BooksOK, ReserveIsOwed, ClosedWhenSettled, CallsOK,
                        Funded, WithStatus, MayBe
  <1>6. ASSUME NEW d \in Dispatchers, StartDispatch(d) PROVE DInv'
    <2> DEFINE next == [Free EXCEPT !.at = "screened", !.mode = "first", !.hits = Accepted \cap listed]
    <2>0. next \in DispRecs /\ next.at = "screened"
      BY DEF DispRecs, Free, Accepted
    <2>1. PICK r \in DispRecs : Goes(d, r) /\ r.at \in {"screened"}
      BY <1>6, <2>0 DEF StartDispatch
    <2>2. UNCHANGED <<batch, item, books, request, maker, checker, calls>>
      BY <1>6 DEF StartDispatch
    <2>3. MayBe(r)
      BY <1>0, <1>6, <2>1 DEF MayBe, Early, StartDispatch
    <2> QED
      BY <2>1, <2>2, <2>3, DispatcherMoves
  <1>7. ASSUME NEW d \in Dispatchers, StartRecovery(d) PROVE DInv'
    <2>1. PICK r \in DispRecs : Goes(d, r) /\ r.at \in {"recover"}
      <3>1. [Free EXCEPT !.at = "recover"] \in DispRecs /\ [Free EXCEPT !.at = "recover"].at = "recover"
        BY DEF DispRecs, Free
      <3> QED
        BY <1>7, <3>1 DEF StartRecovery
    <2>2. UNCHANGED <<batch, item, books, request, maker, checker, calls>>
      BY <1>7 DEF StartRecovery
    <2>3. MayBe(r)
      BY <1>0, <1>7, <2>1 DEF MayBe, Early, StartRecovery
    <2> QED
      BY <2>1, <2>2, <2>3, DispatcherMoves
  <1>8. ASSUME NEW d \in Dispatchers, QueryFile(d) PROVE DInv'
    <2>0. ASSUME NEW mode \in {"plain", "lost", "sent"}, NEW seen \in SUBSET Items,
                 Goes(d, [Free EXCEPT !.at = "queried", !.mode = mode, !.seen = seen])
          PROVE  \E r \in DispRecs : Goes(d, r) /\ r.at \in {"idle", "queried"}
      <3> DEFINE next == [Free EXCEPT !.at = "queried", !.mode = mode, !.seen = seen]
      <3>1. next \in DispRecs /\ next.at = "queried"
        BY DEF DispRecs, Free
      <3> QED
        BY <2>0, <3>1
    <2>1. PICK r \in DispRecs : Goes(d, r) /\ r.at \in {"idle", "queried"}
      <3>1. CASE Stops(d)
        BY <3>1, FreeRec DEF Stops
      <3>2. WithStatus({"QUEUED"}) \in SUBSET Items /\ WithStatus(Unsettled) \in SUBSET Items
            /\ WithStatus({"QUEUED"}) \ Beftn \in SUBSET Items
        BY DEF WithStatus
      <3>3. \/ Stops(d)
            \/ \E mode \in {"plain", "lost", "sent"}, seen \in SUBSET Items :
                  Goes(d, [Free EXCEPT !.at = "queried", !.mode = mode, !.seen = seen])
        BY <1>8, <3>2 DEF QueryFile
      <3> QED
        BY <2>0, <3>1, <3>3
    <2>2. UNCHANGED <<batch, item, books, request, maker, checker, calls>>
      BY <1>8 DEF QueryFile
    <2>3. MayBe(r)
      BY <1>0, <1>8, <2>1 DEF MayBe, Early, QueryFile
    <2> QED
      BY <2>1, <2>2, <2>3, DispatcherMoves
  <1>9. ASSUME NEW d \in Dispatchers, ScreenAgain(d) PROVE DInv'
    <2> DEFINE next == [disp[d] EXCEPT !.at = "hits", !.hits = disp[d].seen \cap listed]
    <2>0. next \in DispRecs /\ next.at = "hits"
      BY <1>0 DEF DispRecs, DTypes
    <2>1. PICK r \in DispRecs : Goes(d, r) /\ r.at \in {"hits"}
      BY <1>9, <2>0 DEF ScreenAgain
    <2>2. UNCHANGED <<batch, item, books, request, maker, checker, calls>>
      BY <1>9 DEF ScreenAgain
    <2>3. MayBe(r)
      BY <1>0, <1>9, <2>1 DEF MayBe, Early, ScreenAgain
    <2> QED
      BY <2>1, <2>2, <2>3, DispatcherMoves
  <1>10. ASSUME NEW d \in Dispatchers, DispatcherDies(d) PROVE DInv'
    <2>1. PICK r \in DispRecs : Goes(d, r) /\ r.at \in {"idle"}
      BY <1>10, FreeRec DEF DispatcherDies, Stops
    <2>2. UNCHANGED <<batch, item, books, request, maker, checker, calls>>
      BY <1>10 DEF DispatcherDies
    <2>3. MayBe(r)
      BY <1>0, <1>10, <2>1 DEF MayBe, Early, DispatcherDies
    <2> QED
      BY <2>1, <2>2, <2>3, DispatcherMoves
  <1>11. ASSUME NEW d \in Dispatchers, EndDispatch(d) PROVE DInv'
    <2>1. PICK r \in DispRecs : Goes(d, r) /\ r.at \in {"idle"}
      BY <1>11, FreeRec DEF EndDispatch, Stops
    <2>2. UNCHANGED <<batch, item, books, request, maker, checker, calls>>
      BY <1>11 DEF EndDispatch
    <2>3. MayBe(r)
      BY <1>0, <1>11, <2>1 DEF MayBe, Early, EndDispatch
    <2> QED
      BY <2>1, <2>2, <2>3, DispatcherMoves
  <1>12. ASSUME NEW d \in Dispatchers, NEW arrives \in BOOLEAN, NEW ok \in BOOLEAN, Uploaded(d, arrives, ok) PROVE DInv'
    <2>1. PICK r \in DispRecs : Goes(d, r) /\ r.at \in {"idle", "items"}
      BY <1>0, <1>12 DEF Uploaded, Stops, DTypes, DispRecs, Free, Accepted, WithStatus
    <2>2. UNCHANGED <<batch, item, books, request, maker, checker, calls>>
      BY <1>12 DEF Uploaded
    <2>3. MayBe(r)
      BY <1>0, <1>12, <2>1 DEF MayBe, Early, Uploaded
    <2> QED
      BY <2>1, <2>2, <2>3, DispatcherMoves
  <1>13. ASSUME NEW d \in Dispatchers, HandOver(d) PROVE DInv'
    <2>0. ASSUME NEW at \in {"upload", "items"}, NEW queue \in SUBSET Items,
                 Goes(d, [[Free EXCEPT !.at = "items", !.queue = queue] EXCEPT !.at = at])
          PROVE  \E r \in DispRecs : Goes(d, r) /\ r.at \in {"idle", "upload", "items"}
      <3> DEFINE next == [[Free EXCEPT !.at = "items", !.queue = queue] EXCEPT !.at = at]
      <3>1. next \in DispRecs /\ next.at = at
        BY DEF DispRecs, Free
      <3> QED
        BY <2>0, <3>1
    <2>1. PICK r \in DispRecs : Goes(d, r) /\ r.at \in {"idle", "upload", "items"}
      <3> DEFINE mine == IF disp[d].mode = "lost" THEN disp[d].seen \cap WithStatus(Unsettled)
                                                  ELSE WithStatus({"QUEUED"})
                 queue == mine \cap WithStatus({"QUEUED"})
                 goesOn == [Free EXCEPT !.at = "items", !.queue = queue]
      <3>1. queue \in SUBSET Items
        BY DEF WithStatus
      <3>2. \/ Stops(d) \/ Goes(d, goesOn) \/ Goes(d, [goesOn EXCEPT !.at = "upload"])
        <4> HIDE DEF queue, goesOn
        <4>1. SubmitFile(d, mine \cap Beftn, queue)
                 => \/ Stops(d) \/ Goes(d, goesOn) \/ Goes(d, [goesOn EXCEPT !.at = "upload"])
          BY DEF SubmitFile, goesOn
        <4>2. SubmitFile(d, mine \cap Beftn, queue) \/ Goes(d, goesOn)
          BY <1>13 DEF HandOver, queue, goesOn
        <4> QED
          BY <4>1, <4>2
      <3>3. CASE Stops(d)
        BY <3>3, FreeRec DEF Stops
      <3>4. goesOn = [goesOn EXCEPT !.at = "items"]
        BY DEF Free
      <3> QED
        BY <2>0, <3>1, <3>2, <3>3, <3>4
    <2>2. UNCHANGED <<batch, item, books, request, maker, checker, calls>>
      BY <1>13 DEF HandOver, SubmitFile
    <2>3. MayBe(r)
      BY <1>0, <1>13, <2>1 DEF MayBe, Early, HandOver, SubmitFile
    <2> QED
      BY <2>1, <2>2, <2>3, DispatcherMoves
  <1>14. ASSUME NEW d \in Dispatchers, TakeBatch(d) PROVE DInv'
    <2>1. UNCHANGED <<item, books, request, maker, checker, calls>> /\ disp[d].at = "screened"
      BY <1>14 DEF TakeBatch
    <2>2. CASE UNCHANGED batch
      <3>1. PICK r \in DispRecs : Goes(d, r) /\ r.at \in {"idle", "recover"}
                                  /\ (r.at = "recover" => batch = "DISPATCHING")
        BY <1>0, <1>14, <2>2 DEF TakeBatch, Stops, DTypes, DispRecs, Free
      <3>2. MayBe(r)
        BY <3>1 DEF MayBe, Early
      <3> QED
        BY <2>1, <2>2, <3>1, <3>2, DispatcherMoves
    <2>3. CASE batch = "APPROVED" /\ batch' = "DISPATCHING"
      <3>1. [disp[d] EXCEPT !.at = "hits"] \in DispRecs
        BY <1>0 DEF DTypes, DispRecs
      <3>2. PICK r \in DispRecs : Goes(d, r) /\ r.at = "hits"
        BY <1>0, <1>14, <2>3, <3>1 DEF TakeBatch, DTypes, DispRecs
      <3>3. /\ disp' \in [Dispatchers -> DispRecs] /\ disp'[d].at = "hits"
            /\ \A e \in Dispatchers \ {d} : disp'[e] = disp[e]
        BY <1>0, <3>2 DEF DTypes, Goes
      <3>4. DTypes' /\ OfficeOK' /\ CallsOK'
        BY <1>0, <2>1, <2>3, <3>3 DEF DTypes, OfficeOK, CallsOK, BATCH_STATES
      <3>5. BooksOK'
        BY <1>0, <2>1, <2>3 DEF BooksOK, ReserveIsOwed, Funded, WithStatus
      <3>6. ClosedWhenSettled'
        <4>1. WithStatus(Unsettled)' # {}
          BY <1>0, <2>1, <2>3 DEF OfficeOK, WithStatus, Unsettled
        <4> QED
          BY <2>3, <4>1 DEF ClosedWhenSettled, BATCH_TERMINAL_STATES
      <3>7. \A e \in Dispatchers : MayBe(disp[e])'
        BY <1>0, <2>3, <3>3 DEF MayBe, Early
      <3> QED
        BY <3>4, <3>5, <3>6, <3>7 DEF DInv
    <2> QED
      BY <1>14, <2>2, <2>3 DEF TakeBatch
  <1>15. ASSUME NEW i \in Items, ReturnEntry(i) PROVE DInv'
    <2>1. UNCHANGED <<request, maker, checker, calls, disp>>
      BY <1>15 DEF ReturnEntry
    <2>2. CASE UNCHANGED <<batch, item, books>>
      <3>1. DTypes' /\ OfficeOK' /\ CallsOK'
        BY <1>0, <2>1, <2>2, Zenon DEF DTypes, OfficeOK, CallsOK
      <3>2. BooksOK'
        BY <1>0, <2>1, <2>2, Zenon DEF BooksOK, ReserveIsOwed, Funded, WithStatus
      <3>3. ClosedWhenSettled'
        <4>1. Funded' = Funded /\ WithStatus(Unsettled)' = WithStatus(Unsettled)
          BY <2>1, <2>2 DEF Funded, WithStatus
        <4> QED
          BY <1>0, <2>2, <4>1 DEF ClosedWhenSettled
      <3>4. \A e \in Dispatchers : MayBe(disp[e])'
        BY <1>0, <2>1, <2>2, Zenon DEF MayBe
      <3> QED
        BY <3>1, <3>2, <3>3, <3>4 DEF DInv
    <2>3. CASE MarkItemReturned(i)
      <3>1. batch = "DISPATCHING" /\ Settles(i, "RETURNED") /\ item[i] \in Unsettled
        BY <2>3, OnTheWay DEF MarkItemReturned, Unsettled
      <3>2. /\ batch' \in {"DISPATCHING", "COMPLETED", "PARTIALLY_RETURNED"}
            /\ item' \in [Items -> ITEM_STATES] /\ BooksOK' /\ ClosedWhenSettled' /\ CallsOK'
        BY <2>1, <3>1, Settling DEF ITEM_TERMINAL_STATES
      <3> QED
        BY <1>0, <2>1, <3>1, <3>2, WhileDispatching DEF DTypes, MayBe
    <2> QED
      BY <1>15, <2>2, <2>3 DEF ReturnEntry, ProcessMatchedRow
  <1>16. ASSUME NEW d \in Dispatchers, FailHit(d) PROVE DInv'
    <2>1. PICK i \in Items : i = Min(disp[d].hits)
      BY <1>0, <1>16, MinOfItems DEF FailHit, DTypes, DispRecs
    <2>2. UNCHANGED <<request, maker, checker, calls>> /\ disp[d].at = "hits"
      BY <1>16 DEF FailHit
    <2>3. CASE MarkItemFailed(i) /\ Goes(d, [disp[d] EXCEPT !.hits = @ \ {i}])
      <3>1. batch = "DISPATCHING" /\ Settles(i, "FAILED") /\ item[i] \in Unsettled
        BY <1>0, <2>2, <2>3, OnTheWay DEF MarkItemFailed, MayBe
      <3>2. /\ batch' \in {"DISPATCHING", "COMPLETED", "PARTIALLY_RETURNED"}
            /\ item' \in [Items -> ITEM_STATES] /\ BooksOK' /\ ClosedWhenSettled' /\ CallsOK'
        BY <2>2, <3>1, Settling DEF ITEM_TERMINAL_STATES
      <3>3. PICK r \in DispRecs : Goes(d, r) /\ r.at = "hits"
        BY <1>0, <2>2, <2>3 DEF DTypes, DispRecs
      <3>4. /\ disp' \in [Dispatchers -> DispRecs]
            /\ \A e \in Dispatchers : disp'[e].at = "await" => disp'[e].queue # {}
        BY <3>3, GoesTo
      <3> QED
        BY <1>0, <2>2, <3>1, <3>2, <3>4, WhileDispatching DEF DTypes
    <2>4. CASE Stops(d) /\ UNCHANGED <<batch, item, books>>
      <3>1. PICK r \in DispRecs : Goes(d, r) /\ r.at = "idle"
        BY <2>4 DEF Stops, DispRecs, Free
      <3>2. MayBe(r)
        BY <3>1 DEF MayBe
      <3> QED
        BY <2>2, <2>4, <3>1, <3>2, DispatcherMoves
    <2> QED
      BY <1>16, <2>1, <2>3, <2>4 DEF FailHit
  <1>17. ASSUME NEW d \in Dispatchers, DispatchItem(d) PROVE DInv'
    <2>1. PICK i \in Items : i = Min(disp[d].queue) /\ i \in disp[d].queue
      BY <1>0, <1>17, MinOfItems DEF DispatchItem, DTypes, DispRecs
    <2>2. UNCHANGED <<batch, books, request, maker, checker>> /\ disp[d].at = "items"
      BY <1>17 DEF DispatchItem
    <2>3. /\ [disp[d] EXCEPT !.queue = @ \ {i}] \in DispRecs
          /\ [disp[d] EXCEPT !.at = "await"] \in DispRecs
      BY <1>0 DEF DTypes, DispRecs
    <2>4. PICK r \in DispRecs : Goes(d, r) /\ r.at \in {"items", "await"}
                                /\ (r.at = "await" => r.queue # {})
      BY <1>0, <1>17, <2>1, <2>2, <2>3 DEF DispatchItem, DTypes, DispRecs
    <2>5. CASE UNCHANGED <<item, calls>>
      <3>1. MayBe(r)
        BY <1>0, <2>2, <2>4 DEF MayBe
      <3> QED
        BY <2>2, <2>4, <2>5, <3>1, DispatcherMoves
    <2>6. CASE item[i] = "QUEUED"
      <3>1. batch = "DISPATCHING" /\ item[i] \in Unsettled
        BY <1>0, <2>2, <2>6, OnTheWay DEF MayBe, Unsettled
      <3>2. PICK to \in {"DISPATCHING", "DISPATCHED"} : item' = [item EXCEPT ![i] = to]
        BY <1>17, <2>1, <2>6 DEF DispatchItem
      <3>3. /\ item' \in [Items -> ITEM_STATES] /\ item'[i] = to
            /\ \A j \in Items \ {i} : item'[j] = item[j]
            /\ BooksOK' /\ ClosedWhenSettled'
        BY <2>2, <3>1, <3>2, GoingOut
      <3>4. calls[i] = 0 /\ calls \in [Items -> Nat]
        BY <1>0, <2>6 DEF CallsOK, DTypes
      <3>5. /\ calls' \in [Items -> Nat] /\ calls'[i] \in {0, 1}
            /\ \A j \in Items \ {i} : calls'[j] = calls[j]
        BY <1>17, <2>1, <2>6, <3>4 DEF DispatchItem
      <3>6. CallsOK'
        BY <1>0, <3>3, <3>5 DEF CallsOK
      <3>7. /\ disp' \in [Dispatchers -> DispRecs]
            /\ \A e \in Dispatchers : disp'[e].at = "await" => disp'[e].queue # {}
        BY <2>4, GoesTo
      <3> QED
        BY <1>0, <2>2, <3>1, <3>3, <3>5, <3>6, <3>7, WhileDispatching
    <2> QED
      BY <1>17, <2>1, <2>5, <2>6 DEF DispatchItem
  <1>18. ASSUME NEW d \in Dispatchers, NEW result, MfsAnswers(d, result) PROVE DInv'
    <2>1. PICK i \in Items : i = Min(disp[d].queue)
      BY <1>0, <1>18, MinOfItems DEF MfsAnswers, DTypes, DispRecs, MayBe
    <2>2. UNCHANGED <<request, maker, checker, calls>> /\ disp[d].at = "await"
      BY <1>18 DEF MfsAnswers
    <2> DEFINE goesOn == Goes(d, [disp[d] EXCEPT !.at = "items", !.queue = @ \ {i}])
    <2>3. [disp[d] EXCEPT !.at = "items", !.queue = @ \ {i}] \in DispRecs
      BY <1>0 DEF DTypes, DispRecs
    <2>4. goesOn => \E r \in DispRecs : Goes(d, r) /\ r.at = "items"
      BY <1>0, <2>3 DEF DTypes, DispRecs
    <2>5. ASSUME NEW to \in ITEM_TERMINAL_STATES, Settles(i, to), item[i] \in Unsettled, goesOn
          PROVE  DInv'
      <3>1. batch = "DISPATCHING"
        BY <1>0, <2>2, <2>5, OnTheWay DEF MayBe
      <3>2. /\ batch' \in {"DISPATCHING", "COMPLETED", "PARTIALLY_RETURNED"}
            /\ item' \in [Items -> ITEM_STATES] /\ BooksOK' /\ ClosedWhenSettled' /\ CallsOK'
        BY <2>2, <2>5, <3>1, Settling
      <3>3. /\ disp' \in [Dispatchers -> DispRecs]
            /\ \A e \in Dispatchers : disp'[e].at = "await" => disp'[e].queue # {}
        BY <2>4, <2>5, GoesTo
      <3> QED
        BY <1>0, <2>2, <3>1, <3>2, <3>3, WhileDispatching DEF DTypes
    <2>6. CASE goesOn /\ item[i] = "DISPATCHING" /\ item' = [item EXCEPT ![i] = "DISPATCHED"]
               /\ UNCHANGED <<batch, books>>
      <3>1. batch = "DISPATCHING" /\ item[i] \in Unsettled
        BY <2>6, OnTheWay DEF Unsettled
      <3>2. /\ item' \in [Items -> ITEM_STATES] /\ item'[i] = "DISPATCHED"
            /\ \A j \in Items \ {i} : item'[j] = item[j]
            /\ BooksOK' /\ ClosedWhenSettled'
        BY <2>6, <3>1, GoingOut
      <3>3. CallsOK'
        BY <1>0, <2>2, <3>2 DEF CallsOK
      <3>4. /\ disp' \in [Dispatchers -> DispRecs]
            /\ \A e \in Dispatchers : disp'[e].at = "await" => disp'[e].queue # {}
        BY <2>4, <2>6, GoesTo
      <3> QED
        BY <1>0, <2>2, <2>6, <3>1, <3>2, <3>3, <3>4, WhileDispatching DEF DTypes
    <2>7. CASE UNCHANGED <<batch, item, books>> /\ (goesOn \/ Stops(d))
      <3>1. PICK r \in DispRecs : Goes(d, r) /\ r.at \in {"idle", "items"}
        BY <2>4, <2>7 DEF Stops, DispRecs, Free
      <3>2. MayBe(r)
        BY <1>0, <2>2, <3>1 DEF MayBe
      <3> QED
        BY <2>2, <2>7, <3>1, <3>2, DispatcherMoves
    <2> HIDE DEF goesOn
    <2>8. \/ goesOn /\ (MarkItemPaid(i) \/ MarkItemReturned(i) \/ MarkItemFailed(i))
          \/ /\ goesOn /\ UNCHANGED <<batch, books>>
             /\ item' = IF item[i] = "DISPATCHING" THEN [item EXCEPT ![i] = "DISPATCHED"] ELSE item
          \/ Stops(d) /\ UNCHANGED <<batch, item, books>>
      BY <1>18, <2>1 DEF MfsAnswers, goesOn
    <2>9. CASE goesOn /\ (MarkItemPaid(i) \/ MarkItemReturned(i) \/ MarkItemFailed(i))
      <3>1. PICK to \in ITEM_TERMINAL_STATES : Settles(i, to) /\ item[i] \in Unsettled
        BY <2>9 DEF MarkItemPaid, MarkItemReturned, MarkItemFailed, ITEM_TERMINAL_STATES, Unsettled
      <3> QED
        BY <2>5, <2>9, <3>1
    <2> QED
      BY <2>6, <2>7, <2>8, <2>9
  <1> QED
    BY <1>1, <1>2, <1>3, <1>4, <1>5, <1>6, <1>7, <1>8, <1>9, <1>10, <1>11, <1>12, <1>13, <1>14,
       <1>15, <1>16, <1>17, <1>18 DEF DNext, DispatcherStep, EnforceSanctionsFreshness

(* A bulk payout, for any rows, amounts, dispatchers and watchlist changes:  *)
(* the reserve holds what the funded batch still owes, the batch closes with *)
(* its last row, and no MFS payout is handed to its rail twice.              *)
THEOREM PayoutsAlwaysAddUp == DSpec => []PayoutsAddUp
  <1>1. DInv => PayoutsAddUp
    BY DEF DInv, BooksOK, CallsOK, PayoutsAddUp, MfsHandedOnce
  <1>2. DInv /\ [DNext]_dvars => DInv'
    BY DStep
  <1> QED
    BY DInitially, <1>1, <1>2, PTL DEF DSpec
-----------------------------------------------------------------------------
(***************************************************************************)
(* Theorems about the two-eyes gateway, for every set of requests and      *)
(* operators: TwoEyes for any number of server processes, DecisionIsFinal  *)
(* for one.                                                                *)
(***************************************************************************)

(* What holds of every stored row, and of every row about to be saved.       *)
RowOK(row) ==
    /\ row.state \in {"APPROVED", "APPROVED_EXECUTION_FAILED", "REJECTED"}
          => row.approver \notin {Nobody, row.initiator}
    /\ row.executed => row.state \in {"APPROVED", "APPROVED_EXECUTION_FAILED"}

(* TwoEyes is not inductive: a save writes the row that was planned when it  *)
(* was read, so the planned rows must be in order too.                       *)
EyesInv ==
    /\ ATypeOK
    /\ \A r \in Requests : RowOK(areq[r])
    /\ \A w \in Workers : RowOK(plan[w].row) /\ (plan[w] # NoPlan => plan[w].req \in Requests)
    /\ \A r, s \in Requests : areq[r].state \in ALive /\ areq[s].state \in ALive => r = s

LEMMA EyesInitially == AInit => EyesInv
  BY DEF AInit, EyesInv, ATypeOK, ARows, RowOK, Absent, NoPlan, ALive, AStates

(* A read plans a row in order when what it makes of the stored row is.      *)
LEMMA PlansInOrder ==
    ASSUME EyesInv, NEW w \in Workers, NEW r \in Requests, NEW row \in ARows, RowOK(row),
           Plan(w, r, row), UNCHANGED <<areq, overdue>>
    PROVE  EyesInv'
  <1>1. plan' \in [Workers -> [req : Requests \cup {Nobody}, row : ARows]]
    BY DEF EyesInv, ATypeOK, Plan
  <1>2. \A v \in Workers : plan'[v] = IF v = w THEN [req |-> r, row |-> row] ELSE plan[v]
    BY DEF EyesInv, ATypeOK, Plan
  <1>3. ASSUME NEW v \in Workers
        PROVE  RowOK(plan'[v].row) /\ (plan'[v] # NoPlan => plan'[v].req \in Requests)
    BY <1>2 DEF EyesInv
  <1> QED
    BY <1>1, <1>3 DEF EyesInv, ATypeOK, RowOK, NoPlan, Absent

LEMMA EyesStep == EyesInv /\ [ANext]_avars => EyesInv'
  <1> SUFFICES ASSUME EyesInv, [ANext]_avars PROVE EyesInv'
    OBVIOUS
  <1>1. ASSUME NEW r \in Requests, TtlPasses(r) PROVE EyesInv'
    BY <1>1 DEF TtlPasses, EyesInv, ATypeOK, RowOK, NoPlan, Absent
  <1>2. ASSUME NEW r \in Requests, NEW o \in Operators, RequestApproval(r, o) PROVE EyesInv'
    <2> DEFINE new == [Absent EXCEPT !.state = "PENDING_SECOND_APPROVER", !.initiator = o]
    <2>1. new \in ARows /\ RowOK(new)
      BY DEF ARows, RowOK, Absent, AStates, ALive
    <2>2. /\ \A s \in Requests : areq'[s] = IF s = r THEN new ELSE areq[s]
          /\ areq' \in [Requests -> ARows]
      BY <1>2, <2>1 DEF RequestApproval, EyesInv, ATypeOK
    <2>3. \A s \in Requests : areq[s].state \notin ALive
      BY <1>2 DEF RequestApproval, LiveRequests
    <2> HIDE DEF new
    <2> QED
      BY <1>2, <2>1, <2>2, <2>3 DEF RequestApproval, EyesInv, ATypeOK, RowOK, NoPlan, Absent
  <1>3. ASSUME NEW w \in Workers, Save(w) PROVE EyesInv'
    <2> DEFINE p == plan[w]
    <2>1. p.req \in Requests /\ p.row \in ARows /\ RowOK(p.row)
      BY <1>3 DEF Save, EyesInv, ATypeOK
    <2>2. plan' \in [Workers -> [req : Requests \cup {Nobody}, row : ARows]]
      BY <1>3 DEF Save, EyesInv, ATypeOK, NoPlan, Absent, ARows, AStates
    <2>3. \A v \in Workers : plan'[v] = IF v = w THEN NoPlan ELSE plan[v]
      BY <1>3 DEF Save, EyesInv, ATypeOK
    <2>4. \A v \in Workers : RowOK(plan'[v].row) /\ (plan'[v] # NoPlan => plan'[v].req \in Requests)
      <3>1. RowOK(NoPlan.row)
        BY DEF RowOK, NoPlan, Absent
      <3> QED
        BY <2>3, <3>1 DEF EyesInv
    <2>5. CASE p.row.state \in ALive /\ LiveRequests \ {p.req} # {}
      BY <1>3, <2>2, <2>4, <2>5 DEF Save, EyesInv, ATypeOK, RowOK
    <2>6. CASE ~(p.row.state \in ALive /\ LiveRequests \ {p.req} # {})
      <3>1. /\ areq' \in [Requests -> ARows]
            /\ \A s \in Requests : areq'[s] = IF s = p.req THEN p.row ELSE areq[s]
        BY <1>3, <2>1, <2>6 DEF Save, EyesInv, ATypeOK
      <3>2. p.row.state \in ALive => \A s \in Requests \ {p.req} : areq[s].state \notin ALive
        BY <2>6 DEF LiveRequests
      <3> HIDE DEF p
      <3>3. ATypeOK'
        BY <1>3, <2>2, <3>1 DEF Save, EyesInv, ATypeOK
      <3>4. \A s \in Requests : RowOK(areq'[s])
        BY <2>1, <3>1, Zenon DEF EyesInv
      <3>5. \A s \in Requests : RowOK(areq[s])'
        BY <3>4 DEF RowOK
      <3>6. \A v \in Workers : RowOK(plan[v].row)' /\ (plan'[v] # NoPlan => plan'[v].req \in Requests)
        BY <2>4 DEF RowOK
      <3>7. \A r, s \in Requests : areq'[r].state \in ALive /\ areq'[s].state \in ALive => r = s
        BY <2>1, <3>1, <3>2 DEF EyesInv
      <3> QED
        BY <3>3, <3>5, <3>6, <3>7 DEF EyesInv, NoPlan, Absent
    <2> QED
      BY <2>5, <2>6
  <1>4. ASSUME NEW w \in Workers, NEW r \in Requests, ReadForDecision(w, r) PROVE EyesInv'
    <2>1. areq[r] \in ARows /\ RowOK(areq[r]) /\ areq[r].state = "PENDING_SECOND_APPROVER"
      BY <1>4 DEF ReadForDecision, Pending, EyesInv, ATypeOK
    <2>2. PICK row \in ARows : RowOK(row) /\ Plan(w, r, row)
      <3>1. CASE Plan(w, r, [areq[r] EXCEPT !.state = "EXPIRED"])
        BY <2>1, <3>1 DEF ARows, RowOK, AStates, ALive, ATerminal
      <3>2. ASSUME NEW o \in Operators, o # areq[r].initiator, NEW s \in {"APPROVED", "REJECTED"},
                   Plan(w, r, [areq[r] EXCEPT !.state = s, !.approver = o])
            PROVE  \E row \in ARows : RowOK(row) /\ Plan(w, r, row)
        BY <2>1, <3>2, ApprovalsAssumption DEF ARows, RowOK, AStates, ALive, ATerminal
      <3>3. CASE Plan(w, r, [areq[r] EXCEPT !.state = "WITHDRAWN"])
        BY <2>1, <3>3 DEF ARows, RowOK, AStates, ALive, ATerminal
      <3> QED
        BY <1>4, <3>1, <3>2, <3>3 DEF ReadForDecision
    <2> QED
      BY <1>4, <2>2, PlansInOrder DEF ReadForDecision
  <1>5. ASSUME NEW w \in Workers, NEW r \in Requests, ReadForExecution(w, r) PROVE EyesInv'
    <2>1. areq[r] \in ARows /\ RowOK(areq[r])
      BY DEF EyesInv, ATypeOK
    <2>2. PICK row \in ARows : RowOK(row) /\ Plan(w, r, row)
      BY <1>5, <2>1 DEF ReadForExecution, ARows, RowOK, AStates, ALive, ATerminal
    <2> QED
      BY <1>5, <2>2, PlansInOrder DEF ReadForExecution
  <1>6. CASE UNCHANGED avars
    BY <1>6 DEF avars, EyesInv, ATypeOK, RowOK, NoPlan, Absent
  <1> QED
    BY <1>1, <1>2, <1>3, <1>4, <1>5, <1>6 DEF ANext

LEMMA EyesImplyTwo == EyesInv => TwoEyes
  <1> SUFFICES ASSUME EyesInv PROVE TwoEyes
    OBVIOUS
  <1>1. Cardinality(LiveRequests) <= 1
    <2>1. CASE LiveRequests = {}
      BY <2>1, FS_EmptySet
    <2>2. ASSUME NEW r \in LiveRequests PROVE Cardinality(LiveRequests) <= 1
      <3>1. LiveRequests = {r}
        BY <2>2 DEF LiveRequests, EyesInv
      <3>2. Cardinality({r}) = 1
        BY FS_Singleton
      <3> QED
        BY <3>1, <3>2
    <2> QED
      BY <2>1, <2>2
  <1> QED
    BY <1>1 DEF TwoEyes, EyesInv, RowOK

(* For every set of requests, operators and server processes: an approval or *)
(* a rejection has two different people, what was executed was approved, and *)
(* at most one request of an action and subject is live.                     *)
THEOREM TwoEyesAlways == ASpec => []TwoEyes
  BY EyesInitially, EyesStep, EyesImplyTwo, PTL DEF ASpec
-----------------------------------------------------------------------------
(* What one server process has planned was read from the row as it still is: *)
(* a pending one, or one approved by the same approver.                      *)
FreshPlans ==
    \A w \in Workers : plan[w] # NoPlan =>
       LET row == areq[plan[w].req] IN
       \/ row.state = "PENDING_SECOND_APPROVER"
       \/ /\ row.state \in {"APPROVED", "APPROVED_EXECUTION_FAILED"}
          /\ plan[w].row.approver = row.approver

OneProcess == \A v, w \in Workers : v = w

LEMMA PlansStayFresh ==
    ASSUME OneProcess, EyesInv, FreshPlans, [ANext]_avars
    PROVE  FreshPlans'
  <1> SUFFICES ASSUME NEW w \in Workers, plan'[w] # NoPlan
               PROVE  LET row == areq'[plan'[w].req] IN
                      \/ row.state = "PENDING_SECOND_APPROVER"
                      \/ /\ row.state \in {"APPROVED", "APPROVED_EXECUTION_FAILED"}
                         /\ plan'[w].row.approver = row.approver
    BY DEF FreshPlans, NoPlan, Absent
  <1> USE DEF EyesInv, ATypeOK
  <1>1. ASSUME NEW r \in Requests, TtlPasses(r) PROVE areq' = areq /\ plan' = plan
    BY <1>1 DEF TtlPasses
  <1>2. ASSUME NEW r \in Requests, NEW o \in Operators, RequestApproval(r, o)
        PROVE  plan' = plan /\ areq'[plan[w].req] = areq[plan[w].req]
    <2>1. plan' = plan /\ areq[r].state = "absent"
      BY <1>2 DEF RequestApproval, Absent
    <2>2. plan[w].req # r
      BY <2>1 DEF FreshPlans
    <2> QED
      BY <1>2, <2>1, <2>2 DEF RequestApproval
  <1>3. ASSUME NEW v \in Workers, Save(v) PROVE FALSE
    BY <1>3 DEF Save, OneProcess
  <1>4. ASSUME NEW v \in Workers, NEW r \in Requests, ReadForDecision(v, r)
        PROVE  /\ areq' = areq /\ plan'[w].req = r
               /\ areq[r].state = "PENDING_SECOND_APPROVER"
    <2>1. v = w
      BY DEF OneProcess
    <2>2. PICK row : Plan(w, r, row)
      BY <1>4, <2>1 DEF ReadForDecision
    <2> QED
      BY <1>4, <2>2 DEF ReadForDecision, Pending, Plan
  <1>5. ASSUME NEW v \in Workers, NEW r \in Requests, ReadForExecution(v, r)
        PROVE  /\ areq' = areq /\ plan'[w].req = r
               /\ areq[r].state \in {"APPROVED", "APPROVED_EXECUTION_FAILED"}
               /\ plan'[w].row.approver = areq[r].approver
    <2>1. v = w /\ areq[r] \in ARows
      BY DEF OneProcess
    <2>2. PICK row : Plan(w, r, row) /\ row.approver = areq[r].approver
      <3> DEFINE failed == [areq[r] EXCEPT !.state = "APPROVED_EXECUTION_FAILED"]
                 executed == [areq[r] EXCEPT !.state = "APPROVED", !.executed = TRUE]
      <3>1. failed.approver = areq[r].approver /\ executed.approver = areq[r].approver
        BY <2>1 DEF ARows
      <3>2. Plan(w, r, failed) \/ Plan(w, r, executed)
        BY <1>5, <2>1 DEF ReadForExecution
      <3> HIDE DEF failed, executed
      <3> QED
        BY <3>1, <3>2
    <2> QED
      BY <1>5, <2>2 DEF ReadForExecution, Plan
  <1>6. CASE UNCHANGED avars
    BY <1>6 DEF avars, FreshPlans
  <1> QED
    BY <1>1, <1>2, <1>3, <1>4, <1>5, <1>6 DEF ANext, FreshPlans

LEMMA DecidedOnce ==
    ASSUME EyesInv, FreshPlans, [ANext]_avars, NEW r \in Requests
    PROVE  /\ areq[r].state \in ATerminal => areq'[r] = areq[r]
           /\ areq[r].state \in {"APPROVED", "APPROVED_EXECUTION_FAILED"}
                 => areq'[r].approver = areq[r].approver
  <1> USE DEF EyesInv, ATypeOK
  <1>1. ASSUME NEW s \in Requests, NEW o \in Operators, RequestApproval(s, o),
               areq[r].state # "absent"
        PROVE  areq'[r] = areq[r]
    BY <1>1 DEF RequestApproval, Absent
  <1>2. ASSUME NEW w \in Workers, Save(w) 
        PROVE  \/ areq'[r] = areq[r]
               \/ areq'[r] = plan[w].row /\ plan[w].req = r /\ plan[w] # NoPlan
    BY <1>2 DEF Save
  <1>3. ASSUME NEW w \in Workers, Save(w)
        PROVE  /\ areq[r].state \in ATerminal => areq'[r] = areq[r]
               /\ areq[r].state \in {"APPROVED", "APPROVED_EXECUTION_FAILED"}
                     => areq'[r].approver = areq[r].approver
    BY <1>2, <1>3 DEF FreshPlans, ATerminal
  <1>4. CASE \/ \E s \in Requests : TtlPasses(s)
             \/ \E w \in Workers, s \in Requests : ReadForDecision(w, s) \/ ReadForExecution(w, s)
             \/ UNCHANGED avars
    BY <1>4 DEF TtlPasses, ReadForDecision, ReadForExecution, avars
  <1> QED
    BY <1>1, <1>3, <1>4 DEF ANext, ATerminal

(* With one server process, for every set of requests and operators: what    *)
(* was rejected, expired or withdrawn never changes, and an approval keeps   *)
(* its approver, whatever is read before it is saved.                        *)
THEOREM DecisionsAlwaysStand == OneProcess => (ASpec => DecisionsStand)
  <1> SUFFICES ASSUME OneProcess PROVE ASpec => DecisionsStand
    OBVIOUS
  <1>1. AInit => FreshPlans
    BY DEF AInit, FreshPlans
  <1>2. EyesInv /\ FreshPlans /\ [ANext]_avars => FreshPlans'
    BY PlansStayFresh
  <1>3. EyesInv /\ FreshPlans /\ [ANext]_avars =>
          [\A r \in Requests :
             /\ areq[r].state \in ATerminal => areq'[r] = areq[r]
             /\ areq[r].state \in {"APPROVED", "APPROVED_EXECUTION_FAILED"}
                   => areq'[r].approver = areq[r].approver]_avars
    BY DecidedOnce
  <1> QED
    BY <1>1, <1>2, <1>3, EyesInitially, EyesStep, EyesImplyTwo, PTL
       DEF ASpec, DecisionsStand, DecisionIsFinal

-----------------------------------------------------------------------------
(* The rows, without the bounds of TypeOK.                                   *)
AnyRows == [status : RefundStatus, amount : Nat, retries : Nat, key : RefundKeys \cup {NoKey}]

RefundsInv ==
    /\ refund \in [RefundIds -> AnyRows] /\ posted \in [RefundIds -> Nat]
    /\ agent \in [Agents -> [at : {"idle", "calling", "answered", "read"},
                             id : RefundIds \cup {NoRefund}, res : Results, snap : AnyRows]]
    /\ \A a \in Agents : agent[a].at # "idle" => agent[a].id \in RefundIds
    /\ SettledOnce

Untouched ==
    \A f \in RefundIds : refund[f].status \in {"REFUND_SUCCEEDED", "REFUND_FAILED"} =>
                            refund'[f] = refund[f]

LEMMA RefundsInitially == FInit => RefundsInv
  BY DEF FInit, RefundsInv, AnyRows, NoRow, Idle, RefundStatus, Results, SettledOnce

(* An agent moves and the refunds stay.                                      *)
LEMMA AgentMoves ==
    ASSUME RefundsInv, NEW a \in Agents, UNCHANGED <<refund, posted>>,
           NEW row \in [at : {"idle", "calling", "answered", "read"},
                        id : RefundIds \cup {NoRefund}, res : Results, snap : AnyRows],
           row.at # "idle" => row.id \in RefundIds, agent' = [agent EXCEPT ![a] = row]
    PROVE  RefundsInv' /\ Untouched
  <1>1. agent'[a] = row /\ \A b \in Agents \ {a} : agent'[b] = agent[b]
    BY DEF RefundsInv
  <1> QED
    BY <1>1 DEF RefundsInv, SettledOnce, Untouched

(* An agent that has read a pending refund settles it or counts a failure.   *)
LEMMA AgentSettles ==
    ASSUME RefundsInv, NEW a \in Agents, agent[a].at = "read", NEW f \in RefundIds,
           refund[f].status = "REFUND_PENDING_CONNECTOR",
           NEW row \in AnyRows, row.status \in {"REFUND_PENDING_CONNECTOR", "REFUND_SUCCEEDED", "REFUND_FAILED"},
           refund' = [refund EXCEPT ![f] = row],
           posted' = IF row.status = "REFUND_SUCCEEDED" THEN [posted EXCEPT ![f] = @ + 1] ELSE posted,
           agent' = [agent EXCEPT ![a] = Idle]
    PROVE  RefundsInv' /\ Untouched
  <1>1. /\ agent' \in [Agents -> [at : {"idle", "calling", "answered", "read"},
                                  id : RefundIds \cup {NoRefund}, res : Results, snap : AnyRows]]
        /\ agent'[a].at = "idle" /\ \A b \in Agents \ {a} : agent'[b] = agent[b]
    BY DEF RefundsInv, Idle, Results, AnyRows, NoRow, RefundStatus
  <1>2. /\ refund' \in [RefundIds -> AnyRows] /\ refund'[f] = row
        /\ \A g \in RefundIds \ {f} : refund'[g] = refund[g]
    BY DEF RefundsInv
  <1>3. posted[f] = 0
    BY DEF RefundsInv, SettledOnce
  <1>4. posted' \in [RefundIds -> Nat] /\ SettledOnce'
    BY <1>2, <1>3 DEF RefundsInv, SettledOnce
  <1>5. Untouched
    BY <1>2 DEF Untouched
  <1> QED
    BY <1>1, <1>2, <1>4, <1>5 DEF RefundsInv

LEMMA RefundsStep == RefundsInv /\ [FNext]_refunds => RefundsInv' /\ Untouched
  <1> SUFFICES ASSUME RefundsInv, [FNext]_refunds PROVE RefundsInv' /\ Untouched
    OBVIOUS
  <1> DEFINE AgentRows == [at : {"idle", "calling", "answered", "read"},
                           id : RefundIds \cup {NoRefund}, res : Results, snap : AnyRows]
  <1>0. Idle \in AgentRows /\ Idle.at = "idle" /\ \A a \in Agents : agent[a] \in AgentRows
    BY DEF Idle, Results, AnyRows, NoRow, RefundStatus, RefundsInv
  <1>1. ASSUME NEW f \in RefundIds, NEW amount \in 1..Captured, NEW key \in RefundKeys \cup {NoKey},
               CreateRefund(f, amount, key)
        PROVE  RefundsInv' /\ Untouched
    <2>1. /\ refund[f].status = "ABSENT" /\ UNCHANGED <<posted, agent>> /\ amount \in Nat
          /\ refund' = [refund EXCEPT ![f] = [status |-> "REFUND_INITIATED", amount |-> amount,
                                              retries |-> 0, key |-> key]]
      BY <1>1 DEF CreateRefund, InsertRefund
    <2>2. /\ refund' \in [RefundIds -> AnyRows] /\ refund'[f].status = "REFUND_INITIATED"
          /\ \A g \in RefundIds \ {f} : refund'[g] = refund[g]
      BY <2>1 DEF RefundsInv, AnyRows, RefundStatus
    <2>3. SettledOnce' /\ Untouched
      BY <2>1, <2>2 DEF RefundsInv, SettledOnce, Untouched
    <2> QED
      BY <2>1, <2>2, <2>3 DEF RefundsInv
  <1>2. ASSUME NEW f \in RefundIds, NEW to \in {"MOVED", "REFUSED"}, RailDecides(f, to)
        PROVE  RefundsInv' /\ Untouched
    BY <1>2 DEF RailDecides, RefundsInv, SettledOnce, Untouched
  <1>3. ASSUME NEW a \in Agents, NEW f \in RefundIds, Dispatch(a, f)
        PROVE  RefundsInv' /\ Untouched
    <2> DEFINE row == [Idle EXCEPT !.at = "calling", !.id = f]
    <2>1. row \in AgentRows /\ row.id = f /\ agent' = [agent EXCEPT ![a] = row] /\ posted' = posted
      BY <1>0, <1>3 DEF Dispatch
    <2>2. CASE refund[f].status # "REFUND_INITIATED"
      <3>1. refund' = refund
        BY <1>3, <2>2 DEF Dispatch
      <3> HIDE DEF row
      <3> QED
        BY <2>1, <3>1, AgentMoves
    <2>3. CASE refund[f].status = "REFUND_INITIATED"
      <3>1. refund' = [refund EXCEPT ![f].status = "REFUND_PENDING_CONNECTOR"]
        BY <1>3, <2>3 DEF Dispatch
      <3>2. /\ refund' \in [RefundIds -> AnyRows] /\ refund'[f].status = "REFUND_PENDING_CONNECTOR"
            /\ \A g \in RefundIds \ {f} : refund'[g] = refund[g]
        BY <3>1 DEF RefundsInv, AnyRows, RefundStatus
      <3>3. SettledOnce' /\ Untouched
        BY <2>1, <2>3, <3>2 DEF RefundsInv, SettledOnce, Untouched
      <3> HIDE DEF row
      <3>4. /\ agent' \in [Agents -> AgentRows]
            /\ \A b \in Agents : agent'[b].at # "idle" => agent'[b].id \in RefundIds
        BY <2>1 DEF RefundsInv
      <3> QED
        BY <2>1, <3>2, <3>3, <3>4 DEF RefundsInv
    <2> QED
      BY <2>2, <2>3
  <1>4. ASSUME NEW a \in Agents, NEW f \in RefundIds, NEW res \in Results, ReceiveCallback(a, f, res)
        PROVE  RefundsInv' /\ Untouched
    <2> DEFINE row == [at |-> "answered", id |-> f, res |-> res, snap |-> NoRow]
    <2>1. row \in AgentRows /\ row.id = f
      BY DEF AnyRows, NoRow, RefundStatus
    <2>2. agent' = [agent EXCEPT ![a] = row] /\ UNCHANGED <<refund, posted>>
      BY <1>4 DEF ReceiveCallback
    <2> HIDE DEF row
    <2> QED
      BY <2>1, <2>2, AgentMoves
  <1>5. ASSUME NEW a \in Agents, NEW res \in Results, RailAnswers(a, res)
        PROVE  RefundsInv' /\ Untouched
    <2> DEFINE row == [agent[a] EXCEPT !.at = "answered", !.res = res]
    <2>1. row \in AgentRows /\ row.id \in RefundIds /\ agent' = [agent EXCEPT ![a] = row]
          /\ UNCHANGED <<refund, posted>>
      BY <1>0, <1>5 DEF RailAnswers, RefundsInv
    <2> HIDE DEF row
    <2> QED
      BY <2>1, AgentMoves
  <1>6. ASSUME NEW a \in Agents, ReadRefund(a) PROVE RefundsInv' /\ Untouched
    <2> DEFINE row == [agent[a] EXCEPT !.at = "read", !.snap = refund[agent[a].id]]
    <2>1. agent[a].id \in RefundIds /\ refund[agent[a].id] \in AnyRows
      BY <1>6 DEF ReadRefund, RefundsInv
    <2>2. row \in AgentRows /\ row.id \in RefundIds /\ agent' = [agent EXCEPT ![a] = row]
          /\ UNCHANGED <<refund, posted>>
      BY <1>0, <1>6, <2>1 DEF ReadRefund
    <2> HIDE DEF row
    <2> QED
      BY <2>2, AgentMoves
  <1>7. ASSUME NEW a \in Agents, GiveUp(a) PROVE RefundsInv' /\ Untouched
    BY <1>0, <1>7, AgentMoves DEF GiveUp
  <1>8. ASSUME NEW a \in Agents, agent[a].at = "read"
        PROVE  /\ agent[a].id \in RefundIds /\ refund[agent[a].id] \in AnyRows
               /\ agent[a].snap.retries \in Nat
               /\ \A trigger, to : Advances(agent[a].id, agent[a].snap, trigger, to)
                     /\ trigger # "connector_dispatched" =>
                        refund[agent[a].id].status = "REFUND_PENDING_CONNECTOR"
    BY <1>8 DEF RefundsInv, Advances, Resolves, REFUND_TABLE, AnyRows
  <1>9. ASSUME NEW a \in Agents, SettleSuccess(a) PROVE RefundsInv' /\ Untouched
    <2> DEFINE f == agent[a].id
               row == [refund[f] EXCEPT !.status = "REFUND_SUCCEEDED"]
    <2>1. agent[a].at = "read" /\ f \in RefundIds /\ refund[f] \in AnyRows
          /\ refund[f].status = "REFUND_PENDING_CONNECTOR"
      BY <1>8, <1>9 DEF SettleSuccess
    <2>2. row \in AnyRows /\ row.status = "REFUND_SUCCEEDED"
      BY <2>1 DEF AnyRows, RefundStatus
    <2>3. /\ refund' = [refund EXCEPT ![f] = row] /\ posted' = [posted EXCEPT ![f] = @ + 1]
          /\ agent' = [agent EXCEPT ![a] = Idle]
      BY <1>9 DEF SettleSuccess
    <2> HIDE DEF row, f
    <2> QED
      BY <2>1, <2>2, <2>3, AgentSettles
  <1>10. ASSUME NEW a \in Agents, agent[a].at = "read", NEW retries \in Nat,
                refund[agent[a].id].status = "REFUND_PENDING_CONNECTOR",
                RefundFails(a, agent[a].id, retries)
         PROVE  RefundsInv' /\ Untouched
    <2> DEFINE f == agent[a].id
               row == [refund[f] EXCEPT !.status = "REFUND_FAILED", !.retries = retries]
    <2>1. f \in RefundIds /\ refund[f] \in AnyRows
      BY <1>8, <1>10
    <2>2. row \in AnyRows /\ row.status = "REFUND_FAILED"
      BY <2>1 DEF AnyRows, RefundStatus
    <2>3. /\ refund' = [refund EXCEPT ![f] = row] /\ posted' = posted
          /\ agent' = [agent EXCEPT ![a] = Idle]
      BY <1>10, <2>1 DEF RefundFails, RefundsInv
    <2> HIDE DEF row, f
    <2> QED
      BY <1>10, <2>1, <2>2, <2>3, AgentSettles DEF f
  <1>11. ASSUME NEW a \in Agents, SettleRejected(a) PROVE RefundsInv' /\ Untouched
    BY <1>8, <1>10, <1>11 DEF SettleRejected
  <1>12. ASSUME NEW a \in Agents, SettleExhausted(a) PROVE RefundsInv' /\ Untouched
    <2>1. agent[a].snap.retries + 1 \in Nat
      BY <1>8, <1>12 DEF SettleExhausted
    <2> QED
      BY <1>8, <1>10, <1>12, <2>1 DEF SettleExhausted
  <1>13. ASSUME NEW a \in Agents, SettleRetry(a) PROVE RefundsInv' /\ Untouched
    <2> DEFINE f == agent[a].id
               row == [refund[f] EXCEPT !.retries = agent[a].snap.retries + 1]
    <2>1. agent[a].at = "read" /\ f \in RefundIds /\ refund[f] \in AnyRows
          /\ refund[f].status = "REFUND_PENDING_CONNECTOR" /\ agent[a].snap.retries \in Nat
      BY <1>8, <1>13 DEF SettleRetry
    <2>2. row \in AnyRows /\ row.status = "REFUND_PENDING_CONNECTOR"
      BY <2>1 DEF AnyRows
    <2>3. /\ refund' = [refund EXCEPT ![f] = row] /\ posted' = posted
          /\ agent' = [agent EXCEPT ![a] = Idle]
      BY <1>13 DEF SettleRetry
    <2> HIDE DEF row, f
    <2> QED
      BY <2>1, <2>2, <2>3, AgentSettles
  <1>14. CASE UNCHANGED refunds
    BY <1>14 DEF refunds, RefundsInv, SettledOnce, Untouched
  <1> QED
    BY <1>1, <1>2, <1>3, <1>4, <1>5, <1>6, <1>7, <1>9, <1>11, <1>12, <1>13, <1>14 DEF FNext

(* For any number of refunds, agents, keys and retries, and any capture:     *)
(* however process_refund calls and callbacks overtake each other, a refund  *)
(* is posted once if it succeeded and never otherwise.                       *)
THEOREM RefundsSettleOnce == FSpec => []SettledOnce
  <1>1. RefundsInv => SettledOnce
    BY DEF RefundsInv
  <1> QED
    BY RefundsInitially, RefundsStep, <1>1, PTL DEF FSpec

(* For the same constants: nothing changes a refund that has succeeded or    *)
(* failed, whatever was read before it did.                                  *)
THEOREM SettledRefundsStay == FSpec => SettledRefundIsFinal
  <1>1. RefundsInv /\ [FNext]_refunds => [Untouched]_refunds
    BY RefundsStep
  <1>2. SettledRefundIsFinal <=> [][Untouched]_refunds
    BY PTL DEF SettledRefundIsFinal, Untouched
  <1> QED
    BY RefundsInitially, RefundsStep, <1>1, <1>2, PTL DEF FSpec

(* What the books returned, and which refund is outstanding.                 *)
Succeeded == {f \in RefundIds : refund[f].status = "REFUND_SUCCEEDED"}
IsOutstanding(f) == refund[f].status \in Outstanding

(* A refund has an amount from its insert on, and a settlement works with    *)
(* the amount the row still has.                                             *)
AmountsHold ==
    /\ \A f \in RefundIds : refund[f].status # "ABSENT" => refund[f].amount > 0
    /\ \A a \in Agents : agent[a].at # "idle" => refund[agent[a].id].status # "ABSENT"
    /\ \A a \in Agents : agent[a].at = "read" => agent[a].snap.amount = refund[agent[a].id].amount

(* The status of the intent against the sum; one refund is outstanding at a  *)
(* time, and it was reserved.                                                *)
TotalsHold ==
    /\ IsFiniteSet(Units(Succeeded))
    /\ intent \in IntentStatus
    /\ \A f, g \in RefundIds : IsOutstanding(f) /\ IsOutstanding(g) => f = g
    /\ (intent = "REFUND_INITIATED") <=> (\E f \in RefundIds : IsOutstanding(f))
    /\ \A f \in RefundIds : IsOutstanding(f) => RefundedTotal + refund[f].amount <= Captured
    /\ intent = "REFUNDED" => RefundedTotal = Captured
    /\ intent = "PARTIALLY_REFUNDED" => RefundedTotal > 0 /\ RefundedTotal < Captured
    /\ intent = "SUCCEEDED" => RefundedTotal = 0

MoneyInv == RefundsInv /\ AmountsHold /\ TotalsHold

(* The units of some rows: what does not change the amounts does not change  *)
(* them, and one more row adds its amount.                                   *)
RefundUnits(rows, S) == UNION {{f} \X (1 .. rows[f].amount) : f \in S}

LEMMA UnitsAre ==
    ASSUME NEW rows, NEW S, NEW u
    PROVE  u \in RefundUnits(rows, S) <=> \E f \in S : \E n \in 1 .. rows[f].amount : u = <<f, n>>
  BY DEF RefundUnits

LEMMA UnitsStay ==
    ASSUME NEW rows, NEW next, NEW S, \A f \in S : next[f].amount = rows[f].amount
    PROVE  RefundUnits(next, S) = RefundUnits(rows, S)
  BY DEF RefundUnits

LEMMA UnitsGrow ==
    ASSUME NEW rows, NEW S, NEW f, f \notin S, rows[f].amount \in Nat,
           IsFiniteSet(RefundUnits(rows, S))
    PROVE  /\ IsFiniteSet(RefundUnits(rows, S \cup {f}))
           /\ Cardinality(RefundUnits(rows, S \cup {f}))
                 = Cardinality(RefundUnits(rows, S)) + rows[f].amount
  <1> DEFINE one == {f} \X (1 .. rows[f].amount)
  <1>1. PICK n \in Nat : n = rows[f].amount
    OBVIOUS
  <1>2. IsFiniteSet(1 .. n) /\ Cardinality(1 .. n) = n
    <2>1. n \in Int /\ 1 \in Int
      OBVIOUS
    <2>2. IsFiniteSet(1 .. n) /\ Cardinality(1 .. n) = IF 1 > n THEN 0 ELSE n - 1 + 1
      BY <2>1, FS_Interval, Zenon
    <2> QED
      BY <2>2
  <1>3. IsFiniteSet({f}) /\ Cardinality({f}) = 1
    BY FS_Singleton, Zenon
  <1>4. IsFiniteSet(one) /\ Cardinality(one) = n
    <2>1. /\ IsFiniteSet({f} \X (1 .. n))
          /\ Cardinality({f} \X (1 .. n)) = Cardinality({f}) * Cardinality(1 .. n)
      BY <1>2, <1>3, FS_Product, Zenon
    <2>2. Cardinality({f} \X (1 .. n)) = 1 * n
      BY <1>2, <1>3, <2>1, Zenon
    <2> QED
      BY <1>1, <2>1, <2>2
  <1>5. RefundUnits(rows, S \cup {f}) = RefundUnits(rows, S) \cup one
    BY DEF RefundUnits
  <1>6. RefundUnits(rows, S) \cap one = {}
    <2>1. SUFFICES ASSUME NEW u \in RefundUnits(rows, S), u \in one PROVE FALSE
      OBVIOUS
    <2>2. PICK g \in S : \E k \in 1 .. rows[g].amount : u = <<g, k>>
      BY UnitsAre
    <2> QED
      BY <2>1, <2>2
  <1> HIDE DEF one
  <1>7. Cardinality(RefundUnits(rows, S)) \in Nat /\ Cardinality({}) = 0
    BY FS_CardinalityType, FS_EmptySet
  <1>8. /\ IsFiniteSet(RefundUnits(rows, S) \cup one)
        /\ Cardinality(RefundUnits(rows, S) \cup one)
              = Cardinality(RefundUnits(rows, S)) + Cardinality(one)
                   - Cardinality(RefundUnits(rows, S) \cap one)
    BY <1>4, FS_Union, Zenon
  <1>9. /\ IsFiniteSet(RefundUnits(rows, S \cup {f}))
        /\ Cardinality(RefundUnits(rows, S \cup {f})) = Cardinality(RefundUnits(rows, S)) + n - 0
    BY <1>4, <1>5, <1>6, <1>7, <1>8, Zenon
  <1>10. \A u \in Nat : u + n - 0 = u + rows[f].amount
    BY <1>1
  <1> QED
    BY <1>7, <1>9, <1>10, Zenon

LEMMA TotalIsUnits == Units(Succeeded) = RefundUnits(refund, Succeeded)
                      /\ RefundedTotal = Cardinality(RefundUnits(refund, Succeeded))
  BY DEF Units, RefundUnits, RefundedTotal, Sum, Succeeded

(* While no refund is outstanding, what is reserved is what was returned.    *)
LEMMA ReservedIsRefunded ==
    ASSUME RefundsInv, \A f \in RefundIds : ~IsOutstanding(f)
    PROVE  ReservedTotal = RefundedTotal
  <1>1. {f \in RefundIds : refund[f].status \notin {"ABSENT", "REFUND_FAILED"}}
          = {f \in RefundIds : refund[f].status = "REFUND_SUCCEEDED"}
    BY DEF RefundsInv, AnyRows, RefundStatus, IsOutstanding, Outstanding
  <1> QED
    BY <1>1 DEF ReservedTotal, RefundedTotal

LEMMA MoneyInitially == FInit => MoneyInv
  <1> SUFFICES ASSUME FInit PROVE MoneyInv
    OBVIOUS
  <1>1. Succeeded = {} /\ \A f \in RefundIds : refund[f].status = "ABSENT"
    BY DEF FInit, Succeeded, NoRow
  <1>2. RefundUnits(refund, {}) = {}
    BY DEF RefundUnits
  <1>3. IsFiniteSet(Units(Succeeded)) /\ RefundedTotal = 0
    BY <1>1, <1>2, TotalIsUnits, FS_EmptySet
  <1>4. TotalsHold
    BY <1>1, <1>3 DEF TotalsHold, FInit, IntentStatus, IsOutstanding, Outstanding
  <1>5. AmountsHold
    BY <1>1 DEF AmountsHold, FInit, Idle
  <1> QED
    BY <1>4, <1>5, RefundsInitially DEF MoneyInv

(* The rows keep their amounts and nothing succeeds: the sum stays.          *)
LEMMA TotalStays ==
    ASSUME MoneyInv,
           \A f \in Succeeded : refund'[f].amount = refund[f].amount, Succeeded' = Succeeded
    PROVE  IsFiniteSet(Units(Succeeded)') /\ RefundedTotal' = RefundedTotal
  <1>1. RefundUnits(refund', Succeeded) = RefundUnits(refund, Succeeded)
    BY UnitsStay
  <1>2. /\ Units(Succeeded)' = RefundUnits(refund', Succeeded)
        /\ RefundedTotal' = Cardinality(RefundUnits(refund', Succeeded))
    BY DEF Units, RefundUnits, RefundedTotal, Sum, Succeeded
  <1> QED
    BY <1>1, <1>2, TotalIsUnits DEF MoneyInv, TotalsHold

(* What keeps the intent, the amounts and what is settled keeps the totals.  *)
QuietStep ==
    /\ intent' = intent
    /\ \A f \in RefundIds : /\ refund'[f].amount = refund[f].amount
                            /\ (refund'[f].status = "REFUND_SUCCEEDED"
                                  <=> refund[f].status = "REFUND_SUCCEEDED")
                            /\ (refund'[f].status \in Outstanding
                                  <=> refund[f].status \in Outstanding)

LEMMA QuietKeepsTotals == ASSUME MoneyInv, QuietStep PROVE TotalsHold'
  <1>1. Succeeded' = Succeeded /\ \A f \in Succeeded : refund'[f].amount = refund[f].amount
    BY DEF QuietStep, Succeeded
  <1>2. IsFiniteSet(Units(Succeeded)') /\ RefundedTotal' = RefundedTotal
    BY <1>1, TotalStays
  <1>3. \A f \in RefundIds : /\ IsOutstanding(f)' <=> IsOutstanding(f)
                             /\ refund'[f].amount = refund[f].amount
    BY DEF QuietStep, IsOutstanding
  <1>4. TotalsHold /\ intent' = intent
    BY DEF MoneyInv, QuietStep
  <1> HIDE DEF IsOutstanding
  <1> QED
    BY <1>2, <1>3, <1>4 DEF TotalsHold

(* Rows stay and keep their amount; a new one has an amount.                 *)
RowsKept ==
    \A f \in RefundIds :
       IF refund[f].status = "ABSENT"
       THEN refund'[f].status = "ABSENT" \/ refund'[f].amount > 0
       ELSE refund'[f].status # "ABSENT" /\ refund'[f].amount = refund[f].amount

(* What an agent may hold, given the rows.                                   *)
WorksWith(row) ==
    row.at # "idle" => /\ row.id \in RefundIds /\ refund[row.id].status # "ABSENT"
                       /\ row.at = "read" => row.snap.amount = refund[row.id].amount

LEMMA AmountsStay ==
    ASSUME MoneyInv, RefundsInv', RowsKept,
           \A a \in Agents : agent'[a] = agent[a] \/ WorksWith(agent'[a])
    PROVE  AmountsHold'
  <1>1. \A a \in Agents : WorksWith(agent'[a])
    BY DEF MoneyInv, RefundsInv, AmountsHold, WorksWith
  <1>2. \A f \in RefundIds : refund'[f].status # "ABSENT" => refund'[f].amount > 0
    BY DEF MoneyInv, AmountsHold, RowsKept
  <1>3. ASSUME NEW a \in Agents, agent'[a].at # "idle"
        PROVE  /\ refund'[agent'[a].id].status # "ABSENT"
               /\ agent'[a].at = "read" => agent'[a].snap.amount = refund'[agent'[a].id].amount
    <2>1. PICK f \in RefundIds : f = agent'[a].id
      BY <1>1, <1>3 DEF WorksWith
    <2> QED
      BY <1>1, <1>3, <2>1 DEF WorksWith, RowsKept
  <1> QED
    BY <1>2, <1>3 DEF AmountsHold

(* One refund leaves the outstanding ones.                                   *)
LEMMA OneSettles ==
    ASSUME MoneyInv, NEW f \in RefundIds, IsOutstanding(f),
           refund'[f].status \in {"REFUND_SUCCEEDED", "REFUND_FAILED"},
           refund'[f].amount = refund[f].amount,
           \A g \in RefundIds \ {f} : refund'[g] = refund[g]
    PROVE  /\ RefundedTotal \in Nat /\ refund[f].amount \in Nat \ {0}
           /\ RefundedTotal + refund[f].amount <= Captured
           /\ intent = "REFUND_INITIATED" /\ \A g \in RefundIds : ~IsOutstanding(g)'
           /\ IsFiniteSet(Units(Succeeded)')
           /\ RefundedTotal' = IF refund'[f].status = "REFUND_SUCCEEDED"
                               THEN RefundedTotal + refund[f].amount ELSE RefundedTotal
           /\ RowsKept
  <1>1. /\ refund[f].amount \in Nat \ {0} /\ refund[f].status # "ABSENT"
        /\ RefundedTotal + refund[f].amount <= Captured /\ intent = "REFUND_INITIATED"
        /\ f \notin Succeeded /\ IsFiniteSet(RefundUnits(refund, Succeeded))
    <2>1. RefundsInv /\ AmountsHold /\ TotalsHold
      BY DEF MoneyInv
    <2>2. refund[f].status \in {"REFUND_INITIATED", "REFUND_PENDING_CONNECTOR"} /\ refund[f] \in AnyRows
      BY <2>1 DEF RefundsInv, IsOutstanding, Outstanding
    <2>3. refund[f].amount \in Nat \ {0}
      BY <2>1, <2>2 DEF AmountsHold, AnyRows
    <2>4. RefundedTotal + refund[f].amount <= Captured /\ intent = "REFUND_INITIATED"
      BY <2>1 DEF TotalsHold
    <2>5. f \notin Succeeded
      BY <2>2 DEF Succeeded
    <2>6. IsFiniteSet(RefundUnits(refund, Succeeded))
      BY <2>1, TotalIsUnits DEF TotalsHold
    <2> QED
      BY <2>2, <2>3, <2>4, <2>5, <2>6
  <1>2. \A g \in RefundIds : ~IsOutstanding(g)'
    BY DEF MoneyInv, TotalsHold, IsOutstanding, Outstanding
  <1>3. RowsKept
    BY <1>1 DEF RowsKept, MoneyInv, AmountsHold
  <1>4. RefundedTotal \in Nat
    BY <1>1, TotalIsUnits, FS_CardinalityType
  <1>5. CASE refund'[f].status = "REFUND_FAILED"
    <2>1. Succeeded' = Succeeded /\ \A g \in Succeeded : refund'[g].amount = refund[g].amount
      BY <1>1, <1>5 DEF Succeeded
    <2> QED
      BY <1>1, <1>2, <1>3, <1>4, <1>5, <2>1, TotalStays
  <1>6. CASE refund'[f].status = "REFUND_SUCCEEDED"
    <2>1. Succeeded' = Succeeded \cup {f}
      BY <1>6 DEF Succeeded
    <2>2. \A g \in Succeeded \cup {f} : refund'[g].amount = refund[g].amount
      BY <1>1 DEF Succeeded
    <2>3. RefundUnits(refund', Succeeded \cup {f}) = RefundUnits(refund, Succeeded \cup {f})
      BY <2>2, UnitsStay
    <2>4. /\ IsFiniteSet(RefundUnits(refund, Succeeded \cup {f}))
          /\ Cardinality(RefundUnits(refund, Succeeded \cup {f}))
                = Cardinality(RefundUnits(refund, Succeeded)) + refund[f].amount
      BY <1>1, UnitsGrow
    <2>5. /\ Units(Succeeded)' = RefundUnits(refund', Succeeded')
          /\ RefundedTotal' = Cardinality(RefundUnits(refund', Succeeded'))
      BY DEF Units, RefundUnits, RefundedTotal, Sum, Succeeded
    <2>6. IsFiniteSet(Units(Succeeded)') /\ RefundedTotal' = RefundedTotal + refund[f].amount
      BY <2>1, <2>3, <2>4, <2>5, TotalIsUnits
    <2> QED
      BY <1>1, <1>2, <1>3, <1>4, <1>6, <2>6
  <1> QED
    BY <1>5, <1>6

(* What is left to the steps: the status the intent gets with it.            *)
LEMMA TotalsAfter ==
    ASSUME RefundedTotal' \in Nat, IsFiniteSet(Units(Succeeded)'),
           \A g \in RefundIds : ~IsOutstanding(g)',
           \/ intent' = "REFUNDED" /\ RefundedTotal' = Captured
           \/ intent' = "PARTIALLY_REFUNDED" /\ RefundedTotal' > 0 /\ RefundedTotal' < Captured
           \/ intent' = "SUCCEEDED" /\ RefundedTotal' = 0
    PROVE  TotalsHold'
  BY DEF TotalsHold, IntentStatus

LEMMA MoneyStep == MoneyInv /\ [FNext]_refunds => MoneyInv'
  <1> SUFFICES ASSUME MoneyInv, [FNext]_refunds PROVE AmountsHold' /\ TotalsHold'
    BY RefundsStep DEF MoneyInv
  <1>0. RefundsInv /\ RefundsInv' /\ AmountsHold /\ TotalsHold
    BY RefundsStep DEF MoneyInv
  <1>a. ASSUME NEW a \in Agents, NEW row, agent' = [agent EXCEPT ![a] = row], WorksWith(row)
        PROVE  \A b \in Agents : agent'[b] = agent[b] \/ WorksWith(agent'[b])
    BY <1>0, <1>a DEF RefundsInv
  <1>b. ASSUME UNCHANGED <<intent, refund>> PROVE QuietStep /\ RowsKept
    BY <1>0, <1>b DEF QuietStep, RowsKept, AmountsHold
  <1>c. WorksWith(Idle)
    BY DEF WorksWith, Idle
  <1>1. ASSUME NEW f \in RefundIds, NEW amount \in 1..Captured, NEW key \in RefundKeys \cup {NoKey},
               CreateRefund(f, amount, key)
        PROVE  AmountsHold' /\ TotalsHold'
    <2>1. /\ intent \in {"SUCCEEDED", "PARTIALLY_REFUNDED"} /\ refund[f].status = "ABSENT"
          /\ amount <= Captured - ReservedTotal /\ intent' = "REFUND_INITIATED" /\ agent' = agent
          /\ refund' = [refund EXCEPT ![f] = [status |-> "REFUND_INITIATED", amount |-> amount,
                                              retries |-> 0, key |-> key]]
      BY <1>1 DEF CreateRefund, InsertRefund
    <2>2. /\ refund'[f].status = "REFUND_INITIATED" /\ refund'[f].amount = amount /\ amount > 0
          /\ \A g \in RefundIds \ {f} : refund'[g] = refund[g]
      BY <1>0, <2>1 DEF RefundsInv
    <2>3. \A g \in RefundIds : ~IsOutstanding(g)
      BY <1>0, <2>1 DEF TotalsHold
    <2>4. RefundedTotal \in Nat
      <3>1. IsFiniteSet(RefundUnits(refund, Succeeded))
        BY <1>0, TotalIsUnits DEF TotalsHold
      <3> QED
        BY <3>1, TotalIsUnits, FS_CardinalityType
    <2>5. RefundedTotal + amount <= Captured
      BY <1>0, <2>1, <2>3, <2>4, ReservedIsRefunded, CapturedAssumption
    <2>6. Succeeded' = Succeeded /\ \A g \in Succeeded : refund'[g].amount = refund[g].amount
      BY <2>1, <2>2 DEF Succeeded
    <2>7. IsFiniteSet(Units(Succeeded)') /\ RefundedTotal' = RefundedTotal
      BY <2>6, TotalStays
    <2>8. /\ IsOutstanding(f)' /\ \A g \in RefundIds : IsOutstanding(g)' => g = f
      BY <2>2, <2>3 DEF IsOutstanding, Outstanding
    <2>9. TotalsHold'
      BY <2>1, <2>2, <2>5, <2>7, <2>8 DEF TotalsHold, IntentStatus
    <2>10. RowsKept
      BY <2>1, <2>2 DEF RowsKept
    <2> QED
      BY <1>0, <2>1, <2>9, <2>10, AmountsStay
  <1>2. ASSUME NEW f \in RefundIds, NEW to \in {"MOVED", "REFUSED"}, RailDecides(f, to)
        PROVE  AmountsHold' /\ TotalsHold'
    <2>1. UNCHANGED <<intent, refund, agent>>
      BY <1>2 DEF RailDecides
    <2> QED
      BY <1>0, <1>b, <2>1, AmountsStay, QuietKeepsTotals
  <1>3. ASSUME NEW a \in Agents, NEW f \in RefundIds, Dispatch(a, f)
        PROVE  AmountsHold' /\ TotalsHold'
    <2> DEFINE row == [Idle EXCEPT !.at = "calling", !.id = f]
    <2>1. agent' = [agent EXCEPT ![a] = row] /\ intent' = intent /\ refund[f].status # "ABSENT"
      BY <1>3 DEF Dispatch
    <2>2. WorksWith(row)
      BY <2>1 DEF WorksWith, Idle
    <2>3. \A g \in RefundIds : /\ refund'[g].amount = refund[g].amount
                               /\ \/ refund'[g].status = refund[g].status
                                  \/ refund[g].status = "REFUND_INITIATED"
                                     /\ refund'[g].status = "REFUND_PENDING_CONNECTOR"
      BY <1>0, <1>3 DEF Dispatch, RefundsInv, AnyRows
    <2>4. QuietStep /\ RowsKept
      BY <2>1, <2>3 DEF QuietStep, RowsKept, Outstanding
    <2> HIDE DEF row
    <2> QED
      BY <1>0, <1>a, <2>1, <2>2, <2>4, AmountsStay, QuietKeepsTotals
  <1>4. ASSUME NEW a \in Agents, NEW f \in RefundIds, NEW res \in Results, ReceiveCallback(a, f, res)
        PROVE  AmountsHold' /\ TotalsHold'
    <2> DEFINE row == [at |-> "answered", id |-> f, res |-> res, snap |-> NoRow]
    <2>1. agent' = [agent EXCEPT ![a] = row] /\ UNCHANGED <<intent, refund>>
      BY <1>4 DEF ReceiveCallback
    <2>2. WorksWith(row)
      BY <1>4 DEF WorksWith, ReceiveCallback
    <2> HIDE DEF row
    <2> QED
      BY <1>0, <1>a, <1>b, <2>1, <2>2, AmountsStay, QuietKeepsTotals
  <1>5. ASSUME NEW a \in Agents, NEW res \in Results, RailAnswers(a, res)
        PROVE  AmountsHold' /\ TotalsHold'
    <2> DEFINE row == [agent[a] EXCEPT !.at = "answered", !.res = res]
    <2>1. agent' = [agent EXCEPT ![a] = row] /\ UNCHANGED <<intent, refund>>
      BY <1>0, <1>5 DEF RailAnswers, RefundsInv
    <2>2. row.at = "answered" /\ row.id = agent[a].id
      BY <1>0 DEF RefundsInv
    <2>3. WorksWith(row)
      BY <1>0, <1>5, <2>2 DEF WorksWith, RailAnswers, RefundsInv, AmountsHold
    <2> HIDE DEF row
    <2> QED
      BY <1>0, <1>a, <1>b, <2>1, <2>3, AmountsStay, QuietKeepsTotals
  <1>6. ASSUME NEW a \in Agents, ReadRefund(a) PROVE AmountsHold' /\ TotalsHold'
    <2> DEFINE row == [agent[a] EXCEPT !.at = "read", !.snap = refund[agent[a].id]]
    <2>1. agent' = [agent EXCEPT ![a] = row] /\ UNCHANGED <<intent, refund>>
      BY <1>0, <1>6 DEF ReadRefund, RefundsInv
    <2>2. row.at = "read" /\ row.id = agent[a].id /\ row.snap = refund[agent[a].id]
      BY <1>0 DEF RefundsInv
    <2>3. WorksWith(row)
      BY <1>0, <1>6, <2>2 DEF WorksWith, ReadRefund, RefundsInv, AmountsHold
    <2> HIDE DEF row
    <2> QED
      BY <1>0, <1>a, <1>b, <2>1, <2>3, AmountsStay, QuietKeepsTotals
  <1>7. ASSUME NEW a \in Agents, GiveUp(a) PROVE AmountsHold' /\ TotalsHold'
    <2>1. agent' = [agent EXCEPT ![a] = Idle] /\ UNCHANGED <<intent, refund>>
      BY <1>7 DEF GiveUp
    <2> QED
      BY <1>0, <1>a, <1>b, <1>c, <2>1, AmountsStay, QuietKeepsTotals
  <1>8. ASSUME NEW a \in Agents, agent[a].at = "read"
        PROVE  /\ agent[a].id \in RefundIds /\ agent[a].snap.amount = refund[agent[a].id].amount
               /\ \A trigger, to : Advances(agent[a].id, agent[a].snap, trigger, to)
                     /\ trigger # "connector_dispatched" => IsOutstanding(agent[a].id)
    BY <1>0, <1>8 DEF RefundsInv, AmountsHold, Advances, Resolves, REFUND_TABLE, IsOutstanding,
                      Outstanding
  <1>9. ASSUME NEW a \in Agents, SettleSuccess(a) PROVE AmountsHold' /\ TotalsHold'
    <2>1. PICK f \in RefundIds : f = agent[a].id
      BY <1>8, <1>9 DEF SettleSuccess
    <2>2. IsOutstanding(f) /\ agent[a].snap.amount = refund[f].amount
      BY <1>8, <1>9, <2>1 DEF SettleSuccess
    <2>3. /\ refund' = [refund EXCEPT ![f].status = "REFUND_SUCCEEDED"]
          /\ agent' = [agent EXCEPT ![a] = Idle]
      BY <1>9, <2>1 DEF SettleSuccess
    <2>4. /\ refund'[f].status = "REFUND_SUCCEEDED" /\ refund'[f].amount = refund[f].amount
          /\ \A g \in RefundIds \ {f} : refund'[g] = refund[g]
      BY <1>0, <2>3 DEF RefundsInv, AnyRows
    <2>5. /\ RefundedTotal \in Nat /\ refund[f].amount \in Nat \ {0}
          /\ RefundedTotal + refund[f].amount <= Captured
          /\ intent = "REFUND_INITIATED" /\ \A g \in RefundIds : ~IsOutstanding(g)'
          /\ IsFiniteSet(Units(Succeeded)')
          /\ RefundedTotal' = RefundedTotal + refund[f].amount /\ RowsKept
      BY <2>2, <2>4, OneSettles
    <2>6. intent' = IF RefundedTotal + refund[f].amount >= Captured
                    THEN "REFUNDED" ELSE "PARTIALLY_REFUNDED"
      BY <1>9, <2>1, <2>2, <2>5 DEF SettleSuccess, IntentMove, Resolves, INTENT_TABLE,
             PreDispatchRules, RailRules, ReversalRules, RefundingRules
    <2>7. TotalsHold'
      BY <2>5, <2>6, CapturedAssumption, TotalsAfter
    <2> QED
      BY <1>0, <1>a, <1>c, <2>3, <2>5, <2>7, AmountsStay
  <1>10. ASSUME NEW a \in Agents, agent[a].at = "read", NEW retries,
                IsOutstanding(agent[a].id), RefundFails(a, agent[a].id, retries)
         PROVE  AmountsHold' /\ TotalsHold'
    <2>1. PICK f \in RefundIds : f = agent[a].id
      BY <1>8, <1>10
    <2>2. /\ refund' = [refund EXCEPT ![f].status = "REFUND_FAILED", ![f].retries = retries]
          /\ agent' = [agent EXCEPT ![a] = Idle]
          /\ intent' = IF RefundedTotal > 0 THEN "PARTIALLY_REFUNDED" ELSE "SUCCEEDED"
      BY <1>10, <2>1 DEF RefundFails
    <2>3. /\ refund'[f].status = "REFUND_FAILED" /\ refund'[f].amount = refund[f].amount
          /\ \A g \in RefundIds \ {f} : refund'[g] = refund[g]
      BY <1>0, <2>2 DEF RefundsInv, AnyRows
    <2>4. /\ RefundedTotal \in Nat /\ refund[f].amount \in Nat \ {0}
          /\ RefundedTotal + refund[f].amount <= Captured
          /\ intent = "REFUND_INITIATED" /\ \A g \in RefundIds : ~IsOutstanding(g)'
          /\ IsFiniteSet(Units(Succeeded)') /\ RefundedTotal' = RefundedTotal /\ RowsKept
      BY <1>10, <2>1, <2>3, OneSettles
    <2>5. TotalsHold'
      BY <2>2, <2>4, CapturedAssumption, TotalsAfter
    <2> QED
      BY <1>0, <1>a, <1>c, <2>2, <2>4, <2>5, AmountsStay
  <1>11. ASSUME NEW a \in Agents, SettleRejected(a) \/ SettleExhausted(a)
         PROVE  AmountsHold' /\ TotalsHold'
    BY <1>8, <1>10, <1>11 DEF SettleRejected, SettleExhausted
  <1>12. ASSUME NEW a \in Agents, SettleRetry(a) PROVE AmountsHold' /\ TotalsHold'
    <2>1. PICK f \in RefundIds : f = agent[a].id
      BY <1>8, <1>12 DEF SettleRetry
    <2>2. /\ refund' = [refund EXCEPT ![f].retries = agent[a].snap.retries + 1]
          /\ agent' = [agent EXCEPT ![a] = Idle] /\ intent' = intent
      BY <1>12, <2>1 DEF SettleRetry
    <2>3. \A g \in RefundIds : /\ refund'[g].amount = refund[g].amount
                               /\ refund'[g].status = refund[g].status
      BY <1>0, <2>2 DEF RefundsInv, AnyRows
    <2>4. QuietStep /\ RowsKept
      BY <2>2, <2>3 DEF QuietStep, RowsKept
    <2> QED
      BY <1>0, <1>a, <1>c, <2>2, <2>4, AmountsStay, QuietKeepsTotals
  <1>13. CASE UNCHANGED refunds
    <2>1. UNCHANGED <<intent, refund, agent>>
      BY <1>13 DEF refunds
    <2> QED
      BY <1>0, <1>b, <2>1, AmountsStay, QuietKeepsTotals
  <1> QED
    BY <1>1, <1>2, <1>3, <1>4, <1>5, <1>6, <1>7, <1>9, <1>11, <1>12, <1>13 DEF FNext

(* For any number of refunds, agents, keys and retries, and any capture: the *)
(* succeeded refunds never exceed what was captured, each is on the books    *)
(* once, and the intent's status tells their sum, whatever create_refund,    *)
(* process_refund and the callbacks read before they took the row lock.      *)
THEOREM RefundsAlwaysAddUp == FSpec => []RefundsAddUp
  <1>1. MoneyInv => RefundsAddUp
    <2> SUFFICES ASSUME MoneyInv PROVE RefundsAddUp
      OBVIOUS
    <2>1. RefundedTotal \in Nat /\ TotalsHold /\ SettledOnce /\ RefundsInv
      <3>1. TotalsHold /\ SettledOnce /\ RefundsInv
        BY DEF MoneyInv, RefundsInv
      <3>2. IsFiniteSet(RefundUnits(refund, Succeeded))
        BY <3>1, TotalIsUnits DEF TotalsHold
      <3> QED
        BY <3>1, <3>2, TotalIsUnits, FS_CardinalityType
    <2>2. RefundedTotal <= Captured /\ (RefundedTotal = Captured => intent = "REFUNDED")
      <3>1. CASE intent = "REFUND_INITIATED"
        <4>1. PICK f \in RefundIds : IsOutstanding(f)
          BY <2>1, <3>1 DEF TotalsHold
        <4>2. refund[f].amount \in Nat /\ refund[f].amount > 0
          BY <4>1 DEF MoneyInv, AmountsHold, RefundsInv, AnyRows, IsOutstanding, Outstanding
        <4> QED
          BY <2>1, <4>1, <4>2, CapturedAssumption DEF TotalsHold
      <3> QED
        BY <2>1, <3>1, CapturedAssumption DEF TotalsHold, IntentStatus
    <2> QED
      <3>1. RefundsWithinCaptured
        BY <2>1, <2>2 DEF RefundsWithinCaptured
      <3>2. (intent = "REFUND_INITIATED") <=> (\E f \in RefundIds : refund[f].status \in Outstanding)
        BY <2>1, Zenon DEF TotalsHold, IsOutstanding
      <3>3. /\ intent = "REFUNDED" => RefundedTotal = Captured
            /\ intent = "PARTIALLY_REFUNDED" => RefundedTotal > 0
            /\ intent = "SUCCEEDED" => RefundedTotal = 0
        BY <2>1, Zenon DEF TotalsHold
      <3> QED
        BY <2>2, <3>1, <3>2, <3>3 DEF RefundsAddUp, StatusTellsRefunds
  <1> QED
    BY MoneyInitially, MoneyStep, <1>1, PTL DEF FSpec
=============================================================================
