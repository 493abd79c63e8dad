----------------------------- MODULE MCClearing -----------------------------
(***************************************************************************)
(* The clearing side: bulk payouts, merchant settlement, PSO netting,      *)
(* reconciliation and the approvals they ask for.  The components share no *)
(* state; `part' says which of them a behaviour is about.                  *)
(***************************************************************************)
EXTENDS Disbursement, Settlement, Netting, Reconciliation

CONSTANT Parts

VARIABLE part

clearing == <<part, dvars, svars, nvars, rvars, avars>>

(* Item i pays i units.                                                      *)
MCAmount == [i \in Items |-> i]

(* Three participants in a ring, and one without a cap: transfers that net   *)
(* out, that breach a cap, and that refuse on the receiving side.            *)
MCParticipants == {"a", "b", "c", "d"}
MCTransfer(id, from, to, amt) == [id |-> id, from |-> from, to |-> to, amt |-> amt]
MCTransfers == {MCTransfer(1, "a", "b", 2), MCTransfer(2, "b", "c", 1),
                MCTransfer(3, "c", "a", 1), MCTransfer(4, "a", "d", 1)}
MCInitialCap == [p \in MCParticipants |-> IF p = "d" THEN 0 ELSE 2]

InitClearing ==
    /\ part \in Parts
    /\ DInit /\ SInit /\ NInit /\ RInit /\ AInit
    /\ untokened \subseteq IF part = "netting" THEN {"b"} ELSE {}
    /\ part # "payouts" => books.funds = 0

NextClearing ==
    \/ part = "payouts" /\ DNext /\ UNCHANGED <<part, svars, nvars, rvars, avars>>
    \/ part = "settlement" /\ SNext /\ UNCHANGED <<part, dvars, nvars, rvars, avars>>
    \/ part = "netting" /\ NNext /\ UNCHANGED <<part, dvars, svars, rvars, avars>>
    \/ part = "reconciliation" /\ RNext /\ UNCHANGED <<part, dvars, svars, nvars, avars>>
    \/ part = "approvals" /\ ANext /\ UNCHANGED <<part, dvars, svars, nvars, rvars>>

SpecClearing == InitClearing /\ [][NextClearing]_clearing
=============================================================================
