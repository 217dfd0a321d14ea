----------------------------- MODULE Prepayment -----------------------------
(***************************************************************************)
(* One appointment paid ahead through the app: starting the payment in     *)
(* several tabs, the approval arriving from the screen and from the        *)
(* webhook, cancelling, closing the bill and giving money back, here and   *)
(* on the panel of Stripe.                                                 *)
(*                                                                         *)
(* Stripe is external.  It never gives back more than it took, replays a   *)
(* refund whose key it knows, and tells every refund in an event that may  *)
(* arrive late and out of order.                                           *)
(***************************************************************************)
EXTENDS Integers, FiniteSets

CONSTANTS
    Worker,     \* concurrent requests
    IntentId,   \* payment intents at Stripe
    None,
    Prices,     \* what the services of the appointment may cost
    Faults      \* of "overlap", "panel", "lost", "bill", "reopen": see below

(***************************************************************************)
(* "overlap": requests run together; "panel": refunds made on the panel of *)
(* Stripe; "lost": Stripe gave the money back but its answer was lost;     *)
(* "bill": the appointment is served and its bill closed meanwhile;        *)
(* "reopen": the sale that closed the bill is deleted.                     *)
(***************************************************************************)

VARIABLES
    appt,       \* the columns of the appointment and of its sale
    intent,     \* the payment intents at Stripe
    keys,       \* keys of refunds Stripe has done: <<intent, total after it>>
    price,      \* what the services cost now
    news,       \* events of refunds not delivered yet: <<intent, total>>
    heard,      \* history: intents whose approval was handled to the end
    job         \* what each request read

vars == <<appt, intent, keys, price, news, heard, job>>

Top == CHOOSE p \in Prices : \A q \in Prices : q <= p
Money == 0 .. Top

Appointment ==
    [status : {"CONFIRMED", "CANCELLED", "COMPLETED"}, intent : IntentId \cup {None},
     paid : BOOLEAN, amount : Money, back : Money, closed : BOOLEAN, kept : Money,
     sale : BOOLEAN, applied : Money]

Intent == [st : {"none", "open", "canceled", "succeeded"}, amount : Money, back : Money]

Job == [op : {"idle", "start", "finalize", "refund", "claimed", "revert", "cancel", "sale", "sync"},
        intent : IntentId \cup {None}, seen : Appointment \cup {None}, value : Money]

Idle == [op |-> "idle", intent |-> None, seen |-> None, value |-> 0]

Doing(w, op, i, value) ==
    job' = [job EXCEPT ![w] = [op |-> op, intent |-> i, seen |-> appt, value |-> value]]

Ends(w) == job' = [job EXCEPT ![w] = Idle]

Free(w) == job[w] = Idle /\ ("overlap" \in Faults \/ \A v \in Worker : job[v] = Idle)

Init ==
    /\ appt = [status |-> "CONFIRMED", intent |-> None, paid |-> FALSE, amount |-> 0, back |-> 0,
               closed |-> FALSE, kept |-> 0, sale |-> FALSE, applied |-> 0]
    /\ intent = [i \in IntentId |-> [st |-> "none", amount |-> 0, back |-> 0]]
    /\ keys = {} /\ news = {} /\ heard = {}
    /\ price \in Prices
    /\ job = [w \in Worker |-> Idle]

(***************************************************************************)
(* Stripe: cancelling an intent, and giving part of it back                *)
(***************************************************************************)

(* cancelPaymentIntent, whose errors are swallowed: it may do nothing *)
Cancelled(i) ==
    {intent} \cup
    IF i # None /\ intent[i].st = "open" THEN {[intent EXCEPT ![i].st = "canceled"]} ELSE {}

Returns(i, value) ==
    /\ intent' = [intent EXCEPT ![i].back = @ + value]
    /\ news' = news \cup {<<i, intent[i].back + value>>}

Left(i) == intent[i].amount - intent[i].back

CustomerPays(i) ==
    /\ intent[i].st = "open"
    /\ intent' = [intent EXCEPT ![i].st = "succeeded"]
    /\ UNCHANGED <<appt, keys, price, news, heard, job>>

PanelRefund(i) ==
    /\ "panel" \in Faults /\ appt.paid /\ appt.intent = i /\ ~appt.sale
    /\ \E value \in 1 .. Left(i) : Returns(i, value)
    /\ UNCHANGED <<appt, keys, price, heard, job>>

(***************************************************************************)
(* PrepaymentService.start                                                 *)
(***************************************************************************)

Payable(a) == a.status = "CONFIRMED" /\ ~a.sale

StartReads(w) ==
    /\ Free(w) /\ ~appt.paid /\ Payable(appt)
    /\ Doing(w, "start", None, price)
    /\ UNCHANGED <<appt, intent, keys, price, news, heard>>

(* The condition of the update that names the new intent *)
Saves(seen) == ~appt.paid /\ appt.intent = seen.intent

(* An intent that was not saved was shown to nobody: it stays unused, and start runs again *)
StartEnds(w) ==
    LET seen == job[w].seen
        old == seen.intent
        value == job[w].value
    IN /\ job[w].op = "start"
       /\ IF old # None /\ intent[old].st = "succeeded"
          THEN Doing(w, "finalize", old, 0) /\ UNCHANGED <<appt, intent>>
          ELSE IF old # None /\ intent[old].st = "open" /\ intent[old].amount = value
          THEN Ends(w) /\ UNCHANGED <<appt, intent>>
          ELSE \E i \in {n \in IntentId : intent[n].st = "none"}, after \in Cancelled(old) :
                 /\ intent' = IF Saves(seen)
                              THEN [after EXCEPT ![i] = [st |-> "open", amount |-> value, back |-> 0]]
                              ELSE after
                 /\ appt' = IF Saves(seen) THEN [appt EXCEPT !.intent = i] ELSE appt
                 /\ Ends(w)
       /\ UNCHANGED <<keys, price, news, heard>>

(***************************************************************************)
(* finalize, from the screen (confirm) and from the webhook                *)
(***************************************************************************)

FinalizeReads(w, i) ==
    /\ Free(w) /\ intent[i].st = "succeeded"
    /\ Doing(w, "finalize", i, 0)
    /\ UNCHANGED <<appt, intent, keys, price, news, heard>>

(* refundExtra: the whole intent, once, with a key of its own *)
RefundExtra(i) ==
    IF Left(i) > 0 THEN Returns(i, Left(i)) ELSE UNCHANGED <<intent, news>>

Recorded(i) == [appt EXCEPT !.paid = TRUE, !.intent = i, !.amount = intent[i].amount]

(* A payment of a closed bill, or of an appointment that was served *)
Late(seen) == seen.sale \/ seen.status = "COMPLETED"

Finalize(w) ==
    LET i == job[w].intent
        seen == job[w].seen
        mine == \/ seen.paid /\ seen.intent = i
                \/ ~seen.paid /\ ~Late(seen) /\ appt.paid /\ appt.intent = i
        records == ~seen.paid /\ ~Late(seen) /\ ~appt.paid
    IN /\ job[w].op = "finalize"
       /\ heard' = heard \cup {i}
       /\ IF mine THEN UNCHANGED <<appt, intent, news>> /\ Ends(w)
          ELSE IF records
          THEN /\ appt' = Recorded(i)
               /\ IF seen.status = "CANCELLED"
                  THEN job' = [job EXCEPT ![w] = [op |-> "refund", intent |-> i, seen |-> Recorded(i),
                                                  value |-> intent[i].amount]]
                  ELSE Ends(w)
               /\ UNCHANGED <<intent, news>>
          ELSE RefundExtra(i) /\ UNCHANGED appt /\ Ends(w)
       /\ UNCHANGED <<keys, price>>

(***************************************************************************)
(* refundPrepayment: read, claim in the row, call Stripe, undo on an error *)
(***************************************************************************)

Remaining(a) == a.amount - a.back

RefundReads(w) ==
    /\ Free(w) /\ appt.paid /\ ~appt.closed /\ ~appt.sale
    /\ \E value \in 1 .. Remaining(appt) : Doing(w, "refund", appt.intent, value)
    /\ UNCHANGED <<appt, intent, keys, price, news, heard>>

MutClaims(seen) == ~appt.closed

Claims(seen) == ~appt.closed /\ appt.back = seen.back

RefundClaims(w) ==
    LET seen == job[w].seen
        after == seen.back + job[w].value
    IN /\ job[w].op = "refund"
       /\ IF Claims(seen)
          THEN /\ appt' = [appt EXCEPT !.back = after, !.closed = (after >= seen.amount)]
               /\ job' = [job EXCEPT ![w].op = "claimed"]
          ELSE UNCHANGED appt /\ Ends(w)
       /\ UNCHANGED <<intent, keys, price, news, heard>>

(* A replayed key changes nothing; more than what is left is refused, and  *)
(* an intent wholly given back already counts as done.                     *)
RefundCalls(w) ==
    LET i == job[w].intent
        key == <<i, job[w].seen.back + job[w].value>>
        refused == key \notin keys /\ job[w].value > Left(i)
    IN /\ job[w].op = "claimed"
       /\ IF key \in keys \/ refused THEN UNCHANGED <<intent, news, keys>>
          ELSE Returns(i, job[w].value) /\ keys' = keys \cup {key}
       /\ \E lost \in {FALSE, "lost" \in Faults} :
            IF lost \/ (refused /\ Left(i) > 0)
            THEN job' = [job EXCEPT ![w].op = "revert"]
            ELSE Ends(w)
       /\ UNCHANGED <<appt, price, heard>>

RefundReverts(w) ==
    LET seen == job[w].seen IN
    /\ job[w].op = "revert"
    /\ appt' = IF appt.back = seen.back + job[w].value
               THEN [appt EXCEPT !.back = seen.back, !.closed = FALSE]
               ELSE appt
    /\ Ends(w)
    /\ UNCHANGED <<intent, keys, price, news, heard>>

(***************************************************************************)
(* syncPrepaidRefund: an event of Stripe with the total given back         *)
(***************************************************************************)

SyncReads(w, e) ==
    /\ Free(w) /\ e \in news
    /\ news' = news \ {e}
    /\ IF appt.intent = e[1] /\ appt.paid /\ ~appt.closed
       THEN Doing(w, "sync", e[1], e[2])
       ELSE UNCHANGED job
    /\ UNCHANGED <<appt, intent, keys, price, heard>>

Synced(seen, total) == IF total > seen.back THEN total ELSE seen.back

SyncWrites(w) ==
    LET seen == job[w].seen
        next == Synced(seen, job[w].value)
    IN /\ job[w].op = "sync"
       /\ appt' = IF appt.closed \/ (next = seen.back /\ next < seen.amount) THEN appt
                  ELSE [appt EXCEPT !.back = next, !.closed = (next >= seen.amount)]
       /\ Ends(w)
       /\ UNCHANGED <<intent, keys, price, news, heard>>

(***************************************************************************)
(* What the shop does with the appointment meanwhile                       *)
(***************************************************************************)

UpdateServices ==
    /\ Payable(appt)
    /\ price' \in Prices \ {price}
    /\ UNCHANGED <<appt, intent, keys, news, heard, job>>

CompleteAppointment ==
    /\ "bill" \in Faults /\ appt.status = "CONFIRMED"
    /\ appt' = [appt EXCEPT !.status = "COMPLETED"]
    /\ UNCHANGED <<intent, keys, price, news, heard, job>>

CancelReads(w) ==
    /\ Free(w) /\ appt.status = "CONFIRMED" /\ ~appt.sale
    /\ Doing(w, "cancel", None, 0)
    /\ UNCHANGED <<appt, intent, keys, price, news, heard>>

(* A fee of the customer's cancellation stays; the rest goes back *)
Returned(seen, kept) == Remaining(seen) - kept

CancelWrites(w) ==
    LET seen == job[w].seen IN
    /\ job[w].op = "cancel"
    /\ \E fee \in {0, 1} :
         LET pays == seen.paid /\ ~seen.closed
             kept == IF ~pays THEN 0 ELSE IF fee > Remaining(seen) THEN Remaining(seen) ELSE fee
         IN /\ appt' = [appt EXCEPT !.status = "CANCELLED", !.kept = kept]
            /\ IF pays /\ Returned(seen, kept) > 0 /\ appt.back + Returned(seen, kept) <= appt.amount
               THEN job' = [job EXCEPT ![w] = [op |-> "refund", intent |-> appt.intent, seen |-> appt,
                                               value |-> Returned(seen, kept)]]
               ELSE Ends(w)
    /\ UNCHANGED <<intent, keys, price, news, heard>>

(* createSale: what was paid ahead is read before the transaction *)
SaleReads(w) ==
    /\ "bill" \in Faults /\ Free(w) /\ appt.status # "CANCELLED" /\ ~appt.sale
    /\ LET ahead == IF appt.paid /\ ~appt.closed THEN Remaining(appt) ELSE 0 IN
       /\ ahead <= price
       /\ Doing(w, "sale", None, ahead)
    /\ intent' \in IF appt.paid THEN {intent} ELSE Cancelled(appt.intent)
    /\ UNCHANGED <<appt, keys, price, news, heard>>

SaleCommits(w) ==
    /\ job[w].op = "sale"
    /\ appt' = IF appt.sale THEN appt ELSE [appt EXCEPT !.sale = TRUE, !.applied = job[w].value]
    /\ Ends(w)
    /\ UNCHANGED <<intent, keys, price, news, heard>>

DeleteSale ==
    /\ "reopen" \in Faults /\ appt.sale
    /\ appt' = [appt EXCEPT !.sale = FALSE, !.applied = 0]
    /\ UNCHANGED <<intent, keys, price, news, heard, job>>

Next ==
    \/ \E w \in Worker :
         \/ StartReads(w) \/ StartEnds(w) \/ Finalize(w)
         \/ RefundReads(w) \/ RefundClaims(w) \/ RefundCalls(w) \/ RefundReverts(w)
         \/ SyncWrites(w) \/ CancelReads(w) \/ CancelWrites(w) \/ SaleReads(w) \/ SaleCommits(w)
         \/ \E i \in IntentId : FinalizeReads(w, i)
         \/ \E e \in news : SyncReads(w, e)
    \/ \E i \in IntentId : CustomerPays(i) \/ PanelRefund(i)
    \/ UpdateServices \/ CompleteAppointment \/ DeleteSale

Spec == Init /\ [][Next]_vars

(***************************************************************************)
(* Properties                                                              *)
(***************************************************************************)

TypeOK ==
    /\ appt \in Appointment /\ price \in Prices
    /\ intent \in [IntentId -> Intent]
    /\ job \in [Worker -> Job]
    /\ heard \subseteq IntentId
    /\ news \subseteq IntentId \X Money /\ keys \subseteq IntentId \X Money

Quiet == \A w \in Worker : job[w] = Idle

(* However many tabs pay one appointment, screen and webhook leave every   *)
(* approved payment either as the one the appointment was paid with or     *)
(* wholly given back (finalize, refundExtra).                              *)
ChargedOnce ==
    \A i \in heard :
        (\A w \in Worker : job[w].intent # i) =>
            (appt.paid /\ appt.intent = i) \/ Left(i) = 0

(* Once the events of Stripe were handled, what the appointment says was   *)
(* given back is what Stripe gave back (refundPrepayment, its undoing and  *)
(* syncPrepaidRefund).                                                     *)
RefundsAgree ==
    Quiet /\ news = {} /\ appt.paid => appt.back = intent[appt.intent].back

(* A payment that is kept is owed: a cancelled appointment keeps a fee     *)
(* at most, and a closed bill took off exactly what was not given back     *)
(* (finalize 200-204, refundPrepayment 6719, createSale 12076-12088).      *)
PrepaymentSettled ==
    Quiet /\ news = {} /\ appt.paid =>
        /\ appt.status = "CANCELLED" => Remaining(appt) <= appt.kept
        /\ appt.sale => appt.applied = Remaining(appt)
=============================================================================
