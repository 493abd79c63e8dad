-------------------------- MODULE MCPaymentIntents --------------------------
(***************************************************************************)
(* Payment intents for TLC, captured manually or automatically.  The       *)
(* manual ones meet the worst rail: a task is lost, a FAILED answer may    *)
(* hide a payment, polls time out or fail.  The automatic ones meet a rail *)
(* whose FAILED answers are definite, and lose no task.  The retry and     *)
(* poll budgets of the code (3 and 3) are cut to 2: one retry and one      *)
(* repeated poll happen.                                                   *)
(***************************************************************************)
EXTENDS PaymentIntents, TLC

InitBoth == Init /\ manual = rough

SpecBoth == InitBoth /\ [][Next]_vars

Symmetry == Permutations(Reversers)
=============================================================================
