---------------------------- MODULE JobOpenings ----------------------------
(***************************************************************************)
(* A job opening of a shop: professionals apply, a manager pays the fee    *)
(* and accepts, the accepted person gets an invitation to the team, and a  *)
(* job takes back what nobody used.  The fee is in force.                  *)
(***************************************************************************)
EXTENDS Integers, FiniteSetsExt

CONSTANTS
    Worker, AppId, None,
    IntentId,  \* payments at Stripe, a set of numbers
    Slots,     \* places of the opening
    Faults     \* "refuse": Stripe may refuse a refund; "job": the hourly job
               \* runs while somebody is being accepted; "paynow": the card is
               \* charged, or a second payment begun, while a payment is being
               \* replaced; "panel": refunds on the panel of Stripe

VARIABLES
    opening,  \* its status, and whether its period is over
    app,      \* the rows of JobApplication
    intent,   \* payments at Stripe
    req

vars == <<opening, app, intent, req>>

AppRow == [status : {"none", "pending", "accepted", "rejected", "withdrawn", "expired"},
           returned : BOOLEAN, invite : {"none", "PENDING", "ACCEPTED", "gone"}, joined : BOOLEAN,
           paid : BOOLEAN, refunded : BOOLEAN, intent : IntentId \cup {None}]

Free == [op |-> "free", app |-> None, fee |-> None]
Step(w, op, a, i) == req' = [req EXCEPT ![w] = [op |-> op, app |-> a, fee |-> i]]
Goes(w, op) == req' = [req EXCEPT ![w].op = op]
Ends(w) == req' = [req EXCEPT ![w] = Free]
Row(a, r) == app' = [app EXCEPT ![a] = r]
Having(status) == {a \in AppId : app[a].status = status}
Rejecting(rows) == [a \in AppId |-> IF rows[a].status = "pending" THEN [rows[a] EXCEPT !.status = "rejected"]
                                    ELSE rows[a]]

Init ==
    /\ opening = [status |-> "open", over |-> FALSE]
    /\ app = [a \in AppId |-> [status |-> "none", returned |-> FALSE, invite |-> "none",
                               joined |-> FALSE, paid |-> FALSE, refunded |-> FALSE, intent |-> None]]
    /\ intent = [i \in IntentId |-> [of |-> None, state |-> "none"]]
    /\ req = [w \in Worker |-> Free]

(***************************************************************************)
(* The professional                                                        *)
(***************************************************************************)

(* apply: once, and once more after a withdrawal *)
Apply(a) ==
    /\ opening.status = "open" /\ ~opening.over
    /\ \/ app[a].status = "none" /\ Row(a, [app[a] EXCEPT !.status = "pending"])
       \/ /\ app[a].status = "withdrawn" /\ ~app[a].returned
          /\ Row(a, [app[a] EXCEPT !.status = "pending", !.returned = TRUE])
    /\ UNCHANGED <<opening, intent, req>>

Withdraw(a) ==
    /\ app[a].status = "pending"
    /\ Row(a, [app[a] EXCEPT !.status = "withdrawn"])
    /\ UNCHANGED <<opening, intent, req>>

(* The invitation, by its own service: taken, or cancelled or past its day *)
InviteAnswered(a) ==
    /\ app[a].invite = "PENDING"
    /\ \E s \in {"ACCEPTED", "gone"} : Row(a, [app[a] EXCEPT !.invite = s])
    /\ UNCHANGED <<opening, intent, req>>

(***************************************************************************)
(* The fee                                                                 *)
(***************************************************************************)

NewIntent == {i \in IntentId : intent[i].state = "none"}
CanPay(a) == app[a].status = "pending" /\ opening.status = "open" /\ ~opening.over /\ ~app[a].paid

(* startAcceptPayment: the payment that is open is used again, unless the   *)
(* price changed; a paid one is settled instead                             *)
StartReads(w, a) ==
    LET old == app[a].intent IN
    /\ req[w] = Free /\ CanPay(a) /\ NewIntent # {}
    /\ "paynow" \in Faults \/ \A v \in Worker : req[v].app = a => req[v].op # "start"
    /\ old # None => intent[old].state # "paid"
    /\ Step(w, "start", a, old)
    /\ UNCHANGED <<opening, app, intent>>

(* A payment that could not be cancelled is left alone. *)
StartCreates(w) ==
    LET a == req[w].app
        old == req[w].fee
        new == Min(NewIntent)
    IN
    /\ req[w].op = "start"
    /\ IF NewIntent = {} THEN UNCHANGED <<app, intent>>
       ELSE /\ intent' = [i \in IntentId |->
                            IF i = new THEN [of |-> a, state |-> "open"]
                            ELSE IF i = old /\ intent[i].state = "open"
                            THEN [intent[i] EXCEPT !.state = "canceled"] ELSE intent[i]]
            /\ Row(a, [app[a] EXCEPT !.intent = new])
    /\ Ends(w)
    /\ UNCHANGED opening

(* External: the card of the manager is charged. *)
CardPaid(i) ==
    /\ intent[i].state = "open"
    /\ "paynow" \in Faults \/ \A w \in Worker : req[w].op # "start"
    /\ intent' = [intent EXCEPT ![i].state = "paid"]
    /\ UNCHANGED <<opening, app, req>>

(* Mutant: the payment is not claimed. *)
MutClaimsFee(a, i) == app[a].intent = i

ClaimsFee(a, i) == app[a].intent = i /\ ~app[a].paid

(* finalizeFee, by the screen and by the webhook *)
FinalizeFee(w, i) ==
    LET a == intent[i].of IN
    /\ req[w] = Free /\ intent[i].state = "paid" /\ ClaimsFee(a, i)
    /\ Row(a, [app[a] EXCEPT !.paid = TRUE])
    /\ Step(w, "accept", a, i)
    /\ UNCHANGED <<opening, intent>>

Failed(w) == IF req[w].fee = None THEN Ends(w) ELSE Goes(w, "giveBack")

(* The accept failed: the refund, whose error is only logged, then the row *)
GiveBack(w) ==
    LET i == req[w].fee IN
    /\ req[w].op = "giveBack"
    /\ \/ intent' = [intent EXCEPT ![i].state = "refunded"]
       \/ "refuse" \in Faults /\ UNCHANGED intent
    /\ Goes(w, "givenBack")
    /\ UNCHANGED <<opening, app>>

GivenBack(w) ==
    /\ req[w].op = "givenBack"
    /\ Row(req[w].app, [app[req[w].app] EXCEPT !.paid = FALSE, !.refunded = TRUE, !.intent = None])
    /\ Ends(w)
    /\ UNCHANGED <<opening, intent>>

(***************************************************************************)
(* acceptNow                                                               *)
(***************************************************************************)

(* accept: by hand, with the fee paid *)
Accept(w, a) ==
    /\ req[w] = Free /\ app[a].paid
    /\ Step(w, "accept", a, None)
    /\ UNCHANGED <<opening, app, intent>>

AcceptReads(w) ==
    LET a == req[w].app IN
    /\ req[w].op = "accept"
    /\ IF app[a].status = "pending" /\ opening.status = "open" /\ ~opening.over
       THEN Goes(w, "claim") ELSE Failed(w)
    /\ UNCHANGED <<opening, app, intent>>

(* Under the lock of the opening *)
HasPlace == opening.status = "open" /\ Cardinality(Having("accepted")) < Slots

AcceptClaims(w) ==
    LET a == req[w].app IN
    /\ req[w].op = "claim"
    /\ IF HasPlace /\ app[a].status = "pending"
       THEN Row(a, [app[a] EXCEPT !.status = "accepted"]) /\ Goes(w, "invite")
       ELSE Failed(w) /\ UNCHANGED app
    /\ UNCHANGED <<opening, intent>>

(* The invitation may fail (the plan has no room, the address is taken):    *)
(* the application waits again.                                             *)
CreateInvite(w) ==
    LET a == req[w].app IN
    /\ req[w].op = "invite"
    /\ \/ Row(a, [app[a] EXCEPT !.invite = "PENDING"]) /\ Goes(w, "fill")
       \/ Row(a, [app[a] EXCEPT !.status = "pending"]) /\ Failed(w)
    /\ UNCHANGED <<opening, intent>>

(* The last place closes the opening and answers who waits. *)
Fill(w) ==
    /\ req[w].op = "fill"
    /\ IF Cardinality(Having("accepted")) >= Slots
       THEN opening' = [opening EXCEPT !.status = "filled"] /\ app' = Rejecting(app)
       ELSE UNCHANGED <<opening, app>>
    /\ Ends(w)
    /\ UNCHANGED intent

Reject(a) ==
    /\ app[a].status = "pending"
    /\ Row(a, [app[a] EXCEPT !.status = "rejected"])
    /\ UNCHANGED <<opening, intent, req>>

(* close, closeOpeningsOfBarbershop, and closeEndedOpenings when it is over *)
Close ==
    /\ opening.status # "closed"
    /\ opening' = [opening EXCEPT !.status = "closed"]
    /\ app' = Rejecting(app)
    /\ UNCHANGED <<intent, req>>

PeriodEnds ==
    /\ ~opening.over
    /\ opening' = [opening EXCEPT !.over = TRUE]
    /\ UNCHANGED <<app, intent, req>>

(***************************************************************************)
(* The hourly job: releaseUnjoinedApplications, retryFailedRefunds         *)
(***************************************************************************)

Lapsed(a) == app[a].invite \notin {"PENDING", "ACCEPTED"} \/ (opening.over /\ app[a].invite = "PENDING")
BeingAccepted(a) == \E w \in Worker : req[w].app = a /\ req[w].op \in {"invite", "fill"}
JobMayRun(a) == "job" \in Faults \/ ~BeingAccepted(a)

MarkJoined(a) ==
    /\ app[a].status = "accepted" /\ app[a].invite = "ACCEPTED" /\ ~app[a].joined
    /\ Row(a, [app[a] EXCEPT !.joined = TRUE])
    /\ UNCHANGED <<opening, intent, req>>

Release(w, a) ==
    /\ req[w] = Free /\ JobMayRun(a)
    /\ app[a].status = "accepted" /\ ~app[a].joined /\ Lapsed(a)
    /\ Row(a, [app[a] EXCEPT !.status = "expired", !.invite = "gone"])
    /\ Step(w, "release", a, None)
    /\ UNCHANGED <<opening, intent>>

OwedBack(a) == app[a].paid /\ ~app[a].refunded /\ app[a].intent # None

(* refundFee: the mark first; an error of Stripe takes the mark away *)
RefundFee(w) ==
    LET a == req[w].app IN
    /\ req[w].op \in {"release", "retry"}
    /\ IF OwedBack(a)
       THEN /\ Row(a, [app[a] EXCEPT !.refunded = TRUE])
            /\ Step(w, IF req[w].op = "retry" THEN "refundOnly" ELSE "refund", a, app[a].intent)
       ELSE /\ UNCHANGED app
            /\ IF req[w].op = "retry" THEN Ends(w) ELSE Goes(w, "reopen")
    /\ UNCHANGED <<opening, intent>>

RefundAtStripe(w) ==
    LET a == req[w].app IN
    /\ req[w].op \in {"refund", "refundOnly"}
    /\ \/ intent' = [intent EXCEPT ![req[w].fee].state = "refunded"] /\ UNCHANGED app
       \/ "refuse" \in Faults /\ Row(a, [app[a] EXCEPT !.refunded = FALSE]) /\ UNCHANGED intent
    /\ IF req[w].op = "refund" THEN Goes(w, "reopen") ELSE Ends(w)
    /\ UNCHANGED opening

Reopen(w) ==
    /\ req[w].op = "reopen"
    /\ opening' = IF opening.status = "filled" /\ ~opening.over
                  THEN [opening EXCEPT !.status = "open"] ELSE opening
    /\ Ends(w)
    /\ UNCHANGED <<app, intent>>

RetryFailedRefunds(w, a) ==
    /\ req[w] = Free /\ app[a].status = "expired" /\ OwedBack(a)
    /\ Step(w, "retry", a, None)
    /\ UNCHANGED <<opening, app, intent>>

(* revokePlatformPurchase: the fee was given back on the panel of Stripe *)
PanelRefund(i) ==
    LET a == intent[i].of IN
    /\ "panel" \in Faults
    /\ intent[i].state = "paid" /\ app[a].intent = i /\ app[a].paid /\ ~app[a].refunded
    /\ intent' = [intent EXCEPT ![i].state = "refunded"]
    /\ Row(a, [app[a] EXCEPT !.paid = FALSE, !.refunded = TRUE, !.intent = None])
    /\ UNCHANGED <<opening, req>>

Next ==
    \/ Close \/ PeriodEnds
    \/ \E a \in AppId : Apply(a) \/ Withdraw(a) \/ InviteAnswered(a) \/ Reject(a) \/ MarkJoined(a)
    \/ \E i \in IntentId : CardPaid(i) \/ PanelRefund(i)
    \/ \E w \in Worker :
         \/ StartCreates(w) \/ GiveBack(w) \/ GivenBack(w)
         \/ AcceptReads(w) \/ AcceptClaims(w) \/ CreateInvite(w) \/ Fill(w)
         \/ RefundFee(w) \/ RefundAtStripe(w) \/ Reopen(w)
         \/ \E i \in IntentId : FinalizeFee(w, i)
         \/ \E a \in AppId : StartReads(w, a) \/ Accept(w, a) \/ Release(w, a) \/ RetryFailedRefunds(w, a)

Spec == Init /\ [][Next]_vars

(***************************************************************************)
(* Properties                                                              *)
(***************************************************************************)

Op == {"free", "start", "accept", "claim", "invite", "fill", "giveBack", "givenBack",
       "release", "retry", "refund", "refundOnly", "reopen"}

TypeOK ==
    /\ opening \in [status : {"open", "filled", "closed"}, over : BOOLEAN]
    /\ app \in [AppId -> AppRow]
    /\ intent \in [IntentId -> [of : AppId \cup {None}, state : {"none", "open", "canceled", "paid", "refunded"}]]
    /\ req \in [Worker -> [op : Op, app : AppId \cup {None}, fee : IntentId \cup {None}]]

(* No more people are accepted than the opening has places, though managers *)
(* and payments accept together (the lock of the opening).                  *)
PlacesRespected == Cardinality(Having("accepted")) <= Slots

Handles(a) == \E w \in Worker : req[w].app = a /\ req[w].op # "start"

(* A fee that was taken got somebody accepted, is still to be applied or    *)
(* given back, or went back: no payment is left behind, though the card,    *)
(* the webhook, the screen, the withdrawal and the job race (finalizeFee).  *)
FeeEarned ==
    (Faults \cap {"paynow", "refuse", "panel"} = {}) =>
      \A i \in IntentId : intent[i].state = "paid" =>
        LET a == intent[i].of IN
        Handles(a) \/ (app[a].intent = i /\ (app[a].paid => app[a].status \in {"accepted", "expired"}))

(* Who joined the team by the opening was accepted and holds a place.       *)
JoinedHasPlace ==
    ("job" \notin Faults) => \A a \in AppId : app[a].joined => app[a].status = "accepted"

=============================================================================
