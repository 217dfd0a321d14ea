----------------------------- MODULE MCCheckout -----------------------------
(***************************************************************************)
(* Small instances of Checkout.  The mixes touch one or two of the things  *)
(* a sale changes; ana was referred by bia.                                *)
(***************************************************************************)
EXTENDS Checkout, TLC

CONSTANTS w1, w2, s1, s2, s3, s4, ana, bia, k1

NoReferral == [c \in Customer |-> None]
ReferredByBia == [c \in Customer |-> IF c = ana THEN bia ELSE None]

SaleOps == {"create", "update", "delete"}

(* Points take two sales. *)
AboutPoints == [ops |-> SaleOps, shared |-> FALSE, fields |-> {}, customers |-> Customer,
                prices |-> {1}, before |-> {0}, units |-> {0}, most |-> 2]

(* Sales that are repriced, paid and set back to pending *)
Repriced == [AboutPoints EXCEPT !.fields = {"status", "total"}, !.prices = {0, 1}]

(* Sales that are given to another customer *)
Reassigned == [AboutPoints EXCEPT !.fields = {"customer", "status"}]

(* Cards and products need no customer. *)
AboutGoods == [AboutPoints EXCEPT !.customers = {}, !.most = Cardinality(SaleId) + 2]

(* A card that is spent, given back, switched off, refunded and cancelled,  *)
(* by requests that may work on one sale at once                            *)
CardMix == [AboutGoods EXCEPT !.ops = AllOps \ {"stock"}, !.shared = TRUE, !.prices = {2},
                              !.before = {0, 1}]

(* A card that is not switched off, whose sale is edited *)
RefundMix == [AboutGoods EXCEPT !.ops = SaleOps \cup {"card", "refund"}, !.fields = {"status", "total"}]

(* Products, and the stock that is counted and put in by hand *)
StockMix == [AboutGoods EXCEPT !.ops = SaleOps \cup {"stock"}, !.fields = {"items"}, !.units = {0, 1}]

SalesMixes == {Repriced, Reassigned, CardMix, RefundMix, StockMix}

(* One request at a time: what staff can do to the books without any race *)
NoRaceMixes ==
    {[AboutGoods EXCEPT !.ops = {"create", "update", "card", "refund"}, !.customers = Customer,
                        !.fields = {"customer", "status", "total"}, !.prices = {1, 2}]}

MCSymmetry == Permutations(Worker) \cup Permutations(SaleId)
=============================================================================
