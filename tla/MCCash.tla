------------------------------- MODULE MCCash -------------------------------
(***************************************************************************)
(* CashDrawer with two rows, two requests at a time and two sessions.      *)
(* Rows of different tables meet only in the sums of a close: a behaviour  *)
(* keeps to the tables of its mix.  No row is written while a session is   *)
(* being closed (Overlap = FALSE).                                         *)
(***************************************************************************)
EXTENDS CashDrawer, TLC

CONSTANTS e1, e2

VARIABLE mix

OfKinds(k1, k2) == e1 :> k1 @@ e2 :> k2
SaleAndRefund == OfKinds("sale", "refund")

Sale == INSTANCE CashDrawer WITH KindOf <- SaleAndRefund
Spent == INSTANCE CashDrawer WITH KindOf <- OfKinds("expense", "tip")
Counter == INSTANCE CashDrawer WITH KindOf <- OfKinds("deposit", "refund")
Owed == INSTANCE CashDrawer WITH KindOf <- OfKinds("pay", "rent")

(* The sale alone: no refund is recorded. *)
OnlySale == \A w \in Worker : call[w].entry # e2

MCInit ==
    \/ mix = "sale" /\ Sale!Init
    \/ mix = "spent" /\ Spent!Init
    \/ mix = "counter" /\ Counter!Init
    \/ mix = "owed" /\ Owed!Init

MCNext ==
    /\ \/ mix = "sale" /\ Sale!Next /\ OnlySale'
       \/ mix = "spent" /\ Spent!Next
       \/ mix = "counter" /\ Counter!Next
       \/ mix = "owed" /\ Owed!Next
    /\ UNCHANGED mix

MCSpec == MCInit /\ [][MCNext]_<<vars, mix>>

MCSymmetry == Permutations(Worker) \cup Permutations(Session)
=============================================================================
