------------------------------ MODULE Featured ------------------------------
(***************************************************************************)
(* The days of "Destaque" one shop or professional buys by card: starting  *)
(* a purchase, its approval from the screen and from the webhook, and what *)
(* a refund or a lost dispute takes back.  The tip a customer leaves       *)
(* through the app is settled in the same way and is modelled beside it.   *)
(*                                                                         *)
(* No day passes here, so the days the placement still has are the days    *)
(* that were added and not taken back.                                     *)
(***************************************************************************)
EXTENDS Integers, FiniteSets, FiniteSetsExt

CONSTANTS
    Worker,      \* concurrent requests
    PurchaseId,  \* rows of FeaturedPurchase, each with its payment intent
    None,
    Offers,      \* days (and price) the platform sells, one at a time
    Overlap      \* requests run together

VARIABLES
    purchase,    \* the purchases
    charge,      \* their intents at Stripe
    offer,       \* what is on sale now
    left,        \* days until featuredUntil
    tip,         \* the tip and its intent
    dispute,     \* the dispute of a purchase: what Stripe says, what is stored
    job,         \* what each request read
    crossed      \* history: a refund arrived while the approval was handled

vars == <<purchase, charge, offer, left, tip, dispute, job, crossed>>

Closed == {"won", "lost"}
Days == 0 .. Max(Offers)

Purchase == [status : {"none", "pending", "canceled", "paid", "refunded"},
             intent : BOOLEAN, days : Days]
Charge == [st : {"none", "open", "canceled", "succeeded"}, back : BOOLEAN]
Tip == [st : {"none", "open", "succeeded"}, back : BOOLEAN, rows : 0 .. 2, refunded : BOOLEAN]
Dispute == [of : PurchaseId \cup {None}, real : {"none", "open"} \cup Closed,
            stored : {"none", "open"} \cup Closed]

Job == [op : {"idle", "start", "drop", "finalize", "add", "revoke", "take", "dispute", "return", "undo"},
        of : PurchaseId \cup {None},
        status : {"none", "pending", "canceled", "paid", "refunded", "open"} \cup Closed]

Idle == [op |-> "idle", of |-> None, status |-> "none"]
Doing(w, op, p, status) == job' = [job EXCEPT ![w] = [op |-> op, of |-> p, status |-> status]]
Ends(w) == job' = [job EXCEPT ![w] = Idle]
Free(w) == job[w] = Idle /\ (Overlap \/ \A v \in Worker : job[v] = Idle)

Init ==
    /\ purchase = [p \in PurchaseId |-> [status |-> "none", intent |-> FALSE, days |-> 0]]
    /\ charge = [p \in PurchaseId |-> [st |-> "none", back |-> FALSE]]
    /\ offer \in Offers
    /\ left = 0
    /\ tip = [st |-> "none", back |-> FALSE, rows |-> 0, refunded |-> FALSE]
    /\ dispute = [of |-> None, real |-> "none", stored |-> "none"]
    /\ job = [w \in Worker |-> Idle]
    /\ crossed = FALSE

(***************************************************************************)
(* start: resume the purchase that is pending, or begin another            *)
(***************************************************************************)

Pending == {p \in PurchaseId : purchase[p].status = "pending" /\ purchase[p].intent}
Unused == {p \in PurchaseId : purchase[p].status = "none"}

NewPurchase(p) ==
    /\ purchase' = [purchase EXCEPT ![p] = [status |-> "pending", intent |-> TRUE, days |-> offer]]
    /\ charge' = [charge EXCEPT ![p].st = "open"]

Start(w) ==
    /\ Free(w)
    /\ IF Pending = {}
       THEN \E p \in Unused : NewPurchase(p) /\ UNCHANGED job
       ELSE /\ \E p \in Pending :
                 CASE charge[p].st = "succeeded" -> Doing(w, "finalize", p, "pending")
                   [] charge[p].st = "open" /\ purchase[p].days = offer -> UNCHANGED job
                   [] OTHER -> Doing(w, "drop", p, "pending")
            /\ UNCHANGED <<purchase, charge>>
    /\ UNCHANGED <<offer, left, tip, dispute, crossed>>

(* Another price: the old intent is cancelled, if Stripe still can *)
StartDrops(w) ==
    LET p == job[w].of IN
    /\ job[w].op = "drop"
    /\ purchase' = [purchase EXCEPT ![p].status = "canceled"]
    /\ charge' \in {charge} \cup
                   IF charge[p].st = "open" THEN {[charge EXCEPT ![p].st = "canceled"]} ELSE {}
    /\ Doing(w, "start", None, "none")
    /\ UNCHANGED <<offer, left, tip, dispute, crossed>>

StartCreates(w) ==
    /\ job[w].op = "start"
    /\ \E p \in Unused : NewPurchase(p)
    /\ Ends(w)
    /\ UNCHANGED <<offer, left, tip, dispute, crossed>>

OfferChanges ==
    /\ offer' \in Offers \ {offer}
    /\ UNCHANGED <<purchase, charge, left, tip, dispute, job, crossed>>

CustomerPays(p) ==
    /\ charge[p].st = "open"
    /\ charge' = [charge EXCEPT ![p].st = "succeeded"]
    /\ UNCHANGED <<purchase, offer, left, tip, dispute, job, crossed>>

(***************************************************************************)
(* finalize: claim the purchase, then add its days                         *)
(***************************************************************************)

FinalizeReads(w, p) ==
    /\ Free(w) /\ charge[p].st = "succeeded"
    /\ Doing(w, "finalize", p, purchase[p].status)
    /\ UNCHANGED <<purchase, charge, offer, left, tip, dispute, crossed>>

Settled == {"paid", "refunded"}

Claims(p, seen) == seen \notin Settled /\ purchase[p].status \notin Settled

Finalize(w) ==
    LET p == job[w].of IN
    /\ job[w].op = "finalize"
    /\ IF Claims(p, job[w].status)
       THEN /\ purchase' = [purchase EXCEPT ![p].status = "paid"]
            /\ Doing(w, "add", p, "paid")
       ELSE Ends(w) /\ UNCHANGED purchase
    /\ UNCHANGED <<charge, offer, left, tip, dispute, crossed>>

FinalizeAdds(w) ==
    /\ job[w].op = "add"
    /\ left' = left + purchase[job[w].of].days
    /\ Ends(w)
    /\ UNCHANGED <<purchase, charge, offer, tip, dispute, crossed>>

(***************************************************************************)
(* Refunds and disputes: syncStripeRefund, recordDispute,                  *)
(* revokePlatformPurchase                                                  *)
(***************************************************************************)

MoneyReturned(p) ==
    /\ charge[p].st = "succeeded"
    /\ charge' = [charge EXCEPT ![p].back = TRUE]
    /\ UNCHANGED <<purchase, offer, left, tip, dispute, job, crossed>>

DisputeMoves ==
    /\ IF dispute.of = None
       THEN \E p \in PurchaseId :
              /\ charge[p].st = "succeeded"
              /\ dispute' = [dispute EXCEPT !.of = p, !.real = "open"]
       ELSE /\ dispute.real = "open"
            /\ \E end \in Closed : dispute' = [dispute EXCEPT !.real = end]
    /\ charge' = IF dispute'.real = "lost" THEN [charge EXCEPT ![dispute.of].back = TRUE] ELSE charge
    /\ UNCHANGED <<purchase, offer, left, tip, job, crossed>>

(* An event that arrives late does not open a closed dispute again *)
KeepsClosed(now) == dispute.stored \in Closed

DisputeReads(w) ==
    /\ Free(w) /\ dispute.of # None
    /\ \E now \in {"open", dispute.real} :
         IF KeepsClosed(now) THEN UNCHANGED job ELSE Doing(w, "dispute", dispute.of, now)
    /\ UNCHANGED <<purchase, charge, offer, left, tip, dispute, crossed>>

RecordDispute(w) ==
    /\ job[w].op = "dispute"
    /\ dispute' = [dispute EXCEPT !.stored = job[w].status]
    /\ IF job[w].status = "lost" THEN Doing(w, "revoke", dispute.of, purchase[dispute.of].status)
       ELSE Ends(w)
    /\ UNCHANGED <<purchase, charge, offer, left, tip, crossed>>

RevokeReads(w, p) ==
    /\ Free(w) /\ charge[p].back
    /\ Doing(w, "revoke", p, purchase[p].status)
    /\ UNCHANGED <<purchase, charge, offer, left, tip, dispute, crossed>>

Busy(p) == \E v \in Worker : job[v].of = p /\ job[v].op \in {"finalize", "add"}

Revokes(p, seen) == seen = "paid" /\ purchase[p].status = "paid"

RevokeClaims(w) ==
    LET p == job[w].of IN
    /\ job[w].op = "revoke"
    /\ IF Revokes(p, job[w].status)
       THEN purchase' = [purchase EXCEPT ![p].status = "refunded"] /\ Doing(w, "take", p, "paid")
       ELSE Ends(w) /\ UNCHANGED purchase
    /\ crossed' = (crossed \/ Busy(p))
    /\ UNCHANGED <<charge, offer, left, tip, dispute>>

(* The placement ends now at the earliest. *)
Taken(days) == IF left > days THEN left - days ELSE 0

RevokeTakes(w) ==
    LET days == purchase[job[w].of].days IN
    /\ job[w].op = "take"
    /\ left' = Taken(days)
    /\ Ends(w)
    /\ UNCHANGED <<purchase, charge, offer, tip, dispute, crossed>>

(***************************************************************************)
(* The tip through the app                                                 *)
(***************************************************************************)

StartAppTip ==
    /\ tip.st = "none"
    /\ tip' = [tip EXCEPT !.st = "open"]
    /\ UNCHANGED <<purchase, charge, offer, left, dispute, job, crossed>>

TipPaid ==
    /\ tip.st = "open"
    /\ tip' = [tip EXCEPT !.st = "succeeded"]
    /\ UNCHANGED <<purchase, charge, offer, left, dispute, job, crossed>>

(* The intent is unique among the tips *)
TipRows == 1

FinalizeAppTip ==
    /\ tip.st = "succeeded" /\ tip.rows < 2
    /\ tip' = [tip EXCEPT !.rows = TipRows]
    /\ UNCHANGED <<purchase, charge, offer, left, dispute, job, crossed>>

(* refundTip marks the row, then calls Stripe, and undoes the mark when it refuses *)
RefundTip(w) ==
    /\ Free(w) /\ tip.rows > 0 /\ ~tip.refunded
    /\ tip' = [tip EXCEPT !.refunded = TRUE]
    /\ Doing(w, "return", None, "none")
    /\ UNCHANGED <<purchase, charge, offer, left, dispute, crossed>>

RefundTipCalls(w) ==
    /\ job[w].op = "return"
    /\ \/ tip' = [tip EXCEPT !.back = TRUE] /\ Ends(w)
       \/ ~tip.back /\ Doing(w, "undo", None, "none") /\ UNCHANGED tip
    /\ UNCHANGED <<purchase, charge, offer, left, dispute, crossed>>

RefundTipUndoes(w) ==
    /\ job[w].op = "undo"
    /\ tip' = [tip EXCEPT !.refunded = FALSE]
    /\ Ends(w)
    /\ UNCHANGED <<purchase, charge, offer, left, dispute, crossed>>

TipReturnedAtStripe ==
    /\ tip.st = "succeeded"
    /\ tip' = [tip EXCEPT !.back = TRUE]
    /\ UNCHANGED <<purchase, charge, offer, left, dispute, job, crossed>>

SyncTipRefund ==
    /\ tip.back /\ tip.rows > 0
    /\ tip' = [tip EXCEPT !.refunded = TRUE]
    /\ UNCHANGED <<purchase, charge, offer, left, dispute, job, crossed>>

Next ==
    \/ \E w \in Worker :
         \/ Start(w) \/ StartDrops(w) \/ StartCreates(w)
         \/ Finalize(w) \/ FinalizeAdds(w)
         \/ DisputeReads(w) \/ RecordDispute(w) \/ RevokeClaims(w) \/ RevokeTakes(w)
         \/ RefundTip(w) \/ RefundTipCalls(w) \/ RefundTipUndoes(w)
         \/ \E p \in PurchaseId : FinalizeReads(w, p) \/ RevokeReads(w, p)
    \/ \E p \in PurchaseId : CustomerPays(p) \/ MoneyReturned(p)
    \/ OfferChanges \/ DisputeMoves
    \/ StartAppTip \/ TipPaid \/ FinalizeAppTip \/ TipReturnedAtStripe \/ SyncTipRefund

Spec == Init /\ [][Next]_vars

(***************************************************************************)
(* Properties                                                              *)
(***************************************************************************)

TypeOK ==
    /\ purchase \in [PurchaseId -> Purchase] /\ charge \in [PurchaseId -> Charge]
    /\ offer \in Offers /\ left \in Nat
    /\ tip \in Tip /\ dispute \in Dispute
    /\ job \in [Worker -> Job] /\ crossed \in BOOLEAN

PaidDays == SumFunction([p \in PurchaseId |-> IF purchase[p].status = "paid" THEN purchase[p].days ELSE 0])

(* The placement lasts as long as the purchases that are paid say: screen  *)
(* and webhook add the days of a purchase once, a refund and a lost        *)
(* dispute take them back once, and neither gives them again (finalize,    *)
(* revokePlatformPurchase).                                                *)
DaysPaidFor ==
    ~crossed /\ (\A w \in Worker : job[w].op \notin {"add", "take"}) => left = PaidDays

(* When events are handled one at a time, a dispute stored as won or lost  *)
(* is not open again because an older event arrived late (recordDispute).  *)
DisputeNotReopened == dispute.stored \in Closed => dispute'.stored = dispute.stored

(* A tip is recorded once, and one that is marked as given back was given  *)
(* back at Stripe (finalizeAppTip, refundTip, syncTipRefund).              *)
TipHonest ==
    /\ tip.rows <= 1
    /\ tip.refunded /\ (\A w \in Worker : job[w].op \notin {"return", "undo"}) => tip.back
=============================================================================
