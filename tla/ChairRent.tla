------------------------------ MODULE ChairRent -----------------------------
(***************************************************************************)
(* The rent of a chair in a space that is shared: the link and its charge, *)
(* and what is owed and paid.                                              *)
(***************************************************************************)
EXTENDS Integers, FiniteSets

CONSTANTS
    Part,       \* the flow that is explored: "link", "dues"
    SubId,      \* subscriptions at Stripe
    PriceId,    \* prices at Stripe, one per subscription asked for
    None,
    Amounts,    \* monthly rents
    Worker,     \* concurrent requests and events
    DueId,      \* months: numbers
    InvoiceId,  \* invoices of the card
    Rent,       \* the amount of a month
    Together    \* operations that may run at the same time

VARIABLES
    link,       \* the row of SharedLocationMember
    stripe,     \* subscriptions: live, confirmed, amount
    key,        \* idempotency keys: price -> subscription
    agreed,     \* history: what the professional agreed to pay last
    answers,    \* history: an answer to a raise that is still to reach Stripe
    stranded,   \* history: the price of an unsaved subscription was dropped
    today,      \* months begun so far
    due,        \* payments of the months, by hand
    invoice,    \* payments of the card
    paidUntil,  \* rentPaidUntil: the last invoice whose period is paid
    expense,    \* expenses of the professional: payment -> amounts
    told,       \* history: how often each overdue month was told
    drawer,     \* the open cash session of the space, or "closed"
    job         \* what each request read

(***************************************************************************)
(* "link". The link between a shared space and a professional who works    *)
(* there, and the rent of the chair: inviting, answering, leaving and      *)
(* blocking, what the space charges, how the professional authorizes the   *)
(* card, and the subscription at Stripe behind it. One call of the space   *)
(* or of the professional runs at a time, except for the two clicks the    *)
(* code guards against; Stripe acts between them, and a crash may lose     *)
(* what the transaction of authorize wrote.                                *)
(***************************************************************************)

linkVars == <<link, stripe, key, agreed, answers, stranded>>

Link == [status : {"NEW", "PENDING", "ACTIVE", "DECLINED", "REMOVED", "CANCELLED"},
         blocked : BOOLEAN, mode : {"CARD", "MANUAL"}, amount : Amounts \cup {0},
         rent : {"NONE", "AWAITING_PAYMENT", "INCOMPLETE", "ACTIVE", "PAST_DUE"},
         sub : SubId \cup {None}, price : PriceId \cup {None},
         pending : Amounts \cup {0}, started : BOOLEAN]

Subscription == [st : {"none", "incomplete", "active", "past_due", "canceled"},
                 amount : Amounts \cup {0}]

Live == {s \in SubId : stripe[s].st \in {"incomplete", "active", "past_due"}}

LinkInit ==
    /\ link = [status |-> "NEW", blocked |-> FALSE, mode |-> "CARD", amount |-> 0,
               rent |-> "NONE", sub |-> None, price |-> None, pending |-> 0, started |-> FALSE]
    /\ stripe = [s \in SubId |-> [st |-> "none", amount |-> 0]]
    /\ key = [p \in PriceId |-> None]
    /\ agreed = 0 /\ answers = {} /\ stranded = FALSE

(***************************************************************************)
(* SharedLocationService                                                   *)
(***************************************************************************)

Invite ==
    /\ link.status \in {"NEW", "DECLINED", "REMOVED", "CANCELLED"} /\ ~link.blocked
    /\ link' = [link EXCEPT !.status = "PENDING"]
    /\ UNCHANGED <<stripe, key, agreed, answers, stranded>>

Respond ==
    /\ link.status = "PENDING"
    /\ \E status \in {"ACTIVE", "DECLINED"} : link' = [link EXCEPT !.status = status]
    /\ UNCHANGED <<stripe, key, agreed, answers, stranded>>

SetInviteBlock ==
    /\ link.status # "NEW"
    /\ \E blocked \in BOOLEAN :
         /\ ~(blocked /\ link.status = "ACTIVE")
         /\ link' = [link EXCEPT !.blocked = blocked,
                                 !.status = IF blocked /\ @ = "PENDING" THEN "DECLINED" ELSE @]
    /\ UNCHANGED <<stripe, key, agreed, answers, stranded>>

(* cancelChairRentsOfBarbershops: the subscription the link names ends *)
Without(s) == [stripe EXCEPT ![s].st = "canceled"]
Cancelled == IF link.sub = None THEN stripe ELSE Without(link.sub)
NoCharge == [link EXCEPT !.sub = None, !.rent = "NONE"]

(* A subscription Stripe has and no row names: its price alone leads to it *)
Unsaved == {p \in PriceId : key[p] # None /\ key[p] \in Live /\ key[p] # link.sub}
DropsPrice == stranded' = (stranded \/ link.price \in Unsaved)

Ended(l) == [l EXCEPT !.status = "REMOVED", !.rent = "NONE", !.amount = 0, !.price = None]

End ==
    /\ \/ /\ link.status = "PENDING"
          /\ link' = [link EXCEPT !.status = "CANCELLED"]
          /\ UNCHANGED <<stripe, stranded>>
       \/ /\ link.status = "ACTIVE"
          /\ stripe' = Cancelled
          /\ link' = Ended(IF link.sub = None THEN link ELSE NoCharge)
          /\ DropsPrice
    /\ UNCHANGED <<key, agreed, answers>>

(***************************************************************************)
(* setRent                                                                 *)
(***************************************************************************)

StopRent ==
    /\ link.status = "ACTIVE"
    /\ stripe' = Cancelled
    /\ link' = [NoCharge EXCEPT !.amount = 0, !.price = None, !.started = FALSE, !.pending = 0]
    /\ DropsPrice
    /\ UNCHANGED <<key, agreed, answers>>

Unchanged(amount, mode) == amount = link.amount /\ mode = link.mode /\ link.rent # "NONE"

SetManualRent(amount) ==
    /\ link.status = "ACTIVE" /\ ~Unchanged(amount, "MANUAL")
    /\ stripe' = Cancelled
    /\ link' = [NoCharge EXCEPT !.amount = amount, !.mode = "MANUAL", !.price = None,
                                !.rent = "ACTIVE", !.pending = 0, !.started = TRUE]
    /\ DropsPrice
    /\ UNCHANGED <<key, agreed, answers>>

(* With the card being charged, a raise waits for the professional *)
IsRaise(amount) == amount > link.amount

SetCardRent(amount) ==
    /\ link.status = "ACTIVE" /\ ~Unchanged(amount, "CARD")
    /\ IF link.sub # None /\ IsRaise(amount)
       THEN /\ link' = [link EXCEPT !.pending = amount]
            /\ UNCHANGED <<stripe, stranded>>
       ELSE /\ link' = [link EXCEPT !.mode = "CARD", !.amount = amount, !.price = None, !.pending = 0,
                                    !.started = IF link.mode = "MANUAL" THEN FALSE ELSE @,
                                    !.rent = IF link.sub = None THEN "AWAITING_PAYMENT" ELSE @]
            /\ stripe' = IF link.sub = None THEN stripe
                         ELSE [stripe EXCEPT ![link.sub].amount = amount]
            /\ DropsPrice
    /\ agreed' = IF link.sub = None \/ amount > agreed THEN agreed ELSE amount
    /\ UNCHANGED <<key, answers>>

(***************************************************************************)
(* respondRentIncrease: claim the proposal, then change the price          *)
(***************************************************************************)

Decline ==
    /\ link.pending # 0
    /\ link' = [link EXCEPT !.pending = 0]
    /\ UNCHANGED <<stripe, key, agreed, answers, stranded>>

AcceptClaims ==
    /\ link.pending # 0
    /\ link' = [link EXCEPT !.pending = 0]
    /\ answers' = answers \cup {<<link.sub, link.pending>>}
    /\ UNCHANGED <<stripe, key, agreed, stranded>>

(* Stripe refuses the change of a subscription that ended meanwhile *)
AcceptWrites(a) ==
    /\ answers' = answers \ {a}
    /\ agreed' = IF a[1] \in Live \/ a[2] > agreed THEN a[2] ELSE agreed
    /\ IF a[1] = None
       THEN link' = [link EXCEPT !.amount = a[2], !.price = None] /\ DropsPrice /\ UNCHANGED stripe
       ELSE IF a[1] \in Live
       THEN /\ stripe' = [stripe EXCEPT ![a[1]].amount = a[2]]
            /\ link' = [link EXCEPT !.amount = a[2]]
            /\ UNCHANGED stranded
       ELSE UNCHANGED <<stripe, link, stranded>>
    /\ UNCHANGED key

(***************************************************************************)
(* authorize: under the lock of the link                                   *)
(***************************************************************************)

PayOverdue ==
    /\ link.status = "ACTIVE" /\ link.mode = "CARD"
    /\ link.sub # None /\ link.rent = "PAST_DUE" /\ stripe[link.sub].st = "past_due"
    /\ stripe' = [stripe EXCEPT ![link.sub].st = "active"]
    /\ UNCHANGED <<link, key, agreed, answers, stranded>>

(* The first charge stopped at the confirmation of the card *)
ResumeIncomplete ==
    /\ link.status = "ACTIVE" /\ link.mode = "CARD"
    /\ link.sub # None /\ link.rent = "INCOMPLETE"
    /\ link' = CASE stripe[link.sub].st = "active"   -> [link EXCEPT !.rent = "ACTIVE"]
                 [] stripe[link.sub].st = "canceled" ->
                      [link EXCEPT !.sub = None, !.rent = "AWAITING_PAYMENT", !.price = None]
                 [] OTHER -> link
    /\ UNCHANGED <<stripe, key, agreed, answers, stranded>>

Spare(s) == stripe[s].st = "none" /\ \A p \in PriceId : key[p] # s

(* createSubscription with the key of the price: the same one again, or a new one *)
Asked(p) == IF key[p] # None THEN {key[p]} ELSE {s \in SubId : Spare(s)}

(* The price is saved outside the transaction; what follows Stripe may be lost *)
Authorize ==
    /\ link.status = "ACTIVE" /\ link.mode = "CARD"
    /\ link.rent = "AWAITING_PAYMENT" /\ link.amount # 0
    /\ \E p \in IF link.price # None THEN {link.price} ELSE {q \in PriceId : key[q] = None} :
       \E s \in Asked(p) :
         /\ key' = [key EXCEPT ![p] = s]
         /\ agreed' = link.amount
         /\ IF stripe[s].st = "canceled"
            THEN link' = [link EXCEPT !.price = None] /\ UNCHANGED stripe
            ELSE /\ \E st \in {"active", "incomplete"} :
                      stripe' = IF stripe[s].st # "none" THEN stripe
                                ELSE [stripe EXCEPT ![s] = [st |-> st, amount |-> link.amount]]
                 /\ \E saved \in BOOLEAN :
                      link' = IF ~saved THEN [link EXCEPT !.price = p]
                              ELSE [link EXCEPT !.price = p, !.sub = s,
                                     !.rent = IF stripe'[s].st = "active" THEN "ACTIVE" ELSE "INCOMPLETE"]
    /\ UNCHANGED <<answers, stranded>>

(***************************************************************************)
(* Stripe, and the events it sends                                         *)
(***************************************************************************)

StripeMoves(s) ==
    /\ s \in Live
    /\ \E st \in {"active", "past_due", "canceled"} :
         /\ ~(stripe[s].st # "incomplete" /\ st = "active")
         /\ stripe' = [stripe EXCEPT ![s].st = st]
    /\ UNCHANGED <<link, key, agreed, answers, stranded>>

InvoiceEvent ==
    /\ link.sub # None
    /\ \E rent \in {"ACTIVE", "PAST_DUE"} : link' = [link EXCEPT !.rent = rent]
    /\ UNCHANGED <<stripe, key, agreed, answers, stranded>>

HandleSubscriptionDeleted ==
    /\ link.sub # None /\ stripe[link.sub].st = "canceled"
    /\ link' = [link EXCEPT !.sub = None, !.price = None, !.pending = 0,
                            !.rent = IF link.amount # 0 /\ link.status = "ACTIVE"
                                     THEN "AWAITING_PAYMENT" ELSE "NONE"]
    /\ UNCHANGED <<stripe, key, agreed, answers, stranded>>

LinkNext ==
    \/ Invite \/ Respond \/ SetInviteBlock \/ End
    \/ StopRent \/ \E a \in Amounts : SetManualRent(a) \/ SetCardRent(a)
    \/ Decline \/ AcceptClaims \/ \E a \in answers : AcceptWrites(a)
    \/ PayOverdue \/ ResumeIncomplete \/ Authorize
    \/ \E s \in SubId : StripeMoves(s)
    \/ InvoiceEvent \/ HandleSubscriptionDeleted

(***************************************************************************)
(* Properties                                                              *)
(***************************************************************************)

LinkTypeOK ==
    /\ link \in Link
    /\ stripe \in [SubId -> Subscription]
    /\ key \in [PriceId -> SubId \cup {None}]
    /\ agreed \in Amounts \cup {0} /\ stranded \in BOOLEAN
    /\ answers \subseteq (SubId \cup {None}) \X Amounts

(* Retries, lost transactions, expired confirmations and changes of the    *)
(* way to pay leave at most one subscription charging the card, unless the *)
(* space changed the rent between a creation that was lost and its retry   *)
(* (authorize, setRent).                                                   *)
OneLiveRent == ~stranded => Cardinality(Live) <= 1

(* The card is never charged more than the professional authorized or      *)
(* accepted last (setRent, respondRentIncrease, authorize).                *)
NeverAboveAgreed == ~stranded => \A s \in Live : stripe[s].amount <= agreed

(* Who left the space is not charged: no subscription the link knew of     *)
(* outlives it (end).                                                      *)
LeavingStopsCharge ==
    link.status \in {"DECLINED", "REMOVED", "CANCELLED"} /\ ~stranded =>
        Live = {} /\ link.rent = "NONE"

(***************************************************************************)
(* "dues". What is owed and paid for a chair: the dues the system writes   *)
(* for a rent paid by hand, registering and undoing a payment, the         *)
(* invoices of the rent charged to the card and what Stripe gives back of  *)
(* them. Every payment is also an expense of the professional's business.  *)
(***************************************************************************)

duesVars == <<today, due, invoice, paidUntil, expense, told, drawer, job>>

Payment == DueId \cup InvoiceId
Due == [rows : 0 .. 2, status : {"none", "DUE", "SUCCEEDED"}, cash : BOOLEAN, linked : BOOLEAN,
        noticed : BOOLEAN]
Invoice == [status : {"none", "FAILED", "SUCCEEDED"}, linked : BOOLEAN, back : 0 .. Rent]

Job == [op : {"idle", "dues", "record", "expense", "undo", "invoice", "refund", "overdue"},
        of : Payment \cup {None}, months : SUBSET DueId, seen : BOOLEAN, value : 0 .. Rent]

Idle == [op |-> "idle", of |-> None, months |-> {}, seen |-> FALSE, value |-> 0]
Doing(w, op, p) == job' = [job EXCEPT ![w] = [Idle EXCEPT !.op = op, !.of = p]]
Ends(w) == job' = [job EXCEPT ![w] = Idle]
Free(w, op) ==
    job[w] = Idle /\ \A v \in Worker : job[v] = Idle \/ {op, job[v].op} \subseteq Together

DuesInit ==
    /\ today = 1
    /\ due = [d \in DueId |-> [rows |-> 0, status |-> "none", cash |-> FALSE, linked |-> FALSE,
                               noticed |-> FALSE]]
    /\ invoice = [i \in InvoiceId |-> [status |-> "none", linked |-> FALSE, back |-> 0]]
    /\ paidUntil = None
    /\ expense = [p \in Payment |-> 0]
    /\ told = [d \in DueId |-> 0]
    /\ drawer = "open"
    /\ job = [w \in Worker |-> Idle]

MonthBegins ==
    /\ today + 1 \in DueId
    /\ today' = today + 1
    /\ UNCHANGED <<due, invoice, paidUntil, expense, told, drawer, job>>

(***************************************************************************)
(* ensureDues: one row per month that began                                *)
(***************************************************************************)

DuesReads(w) ==
    /\ Free(w, "dues")
    /\ LET missing == {d \in DueId : d <= today /\ due[d].rows = 0} IN
       /\ missing # {}
       /\ job' = [job EXCEPT ![w] = [Idle EXCEPT !.op = "dues", !.months = missing]]
    /\ UNCHANGED <<today, due, invoice, paidUntil, expense, told, drawer>>

(* skipDuplicates on the unique (link, due date) *)
Created(d) == due[d].rows = 0

EnsureDues(w) ==
    /\ job[w].op = "dues"
    /\ due' = [d \in DueId |->
                IF d \in job[w].months /\ Created(d)
                THEN [due[d] EXCEPT !.rows = @ + 1, !.status = "DUE"] ELSE due[d]]
    /\ Ends(w)
    /\ UNCHANGED <<today, invoice, paidUntil, expense, told, drawer>>

(***************************************************************************)
(* recordPayment and undoPayment                                           *)
(***************************************************************************)

RecordReads(w, d) ==
    /\ Free(w, "record") /\ due[d].status = "DUE"
    /\ \E cash \in BOOLEAN :
         job' = [job EXCEPT ![w] = [Idle EXCEPT !.op = "record", !.of = d,
                                               !.seen = (cash /\ drawer = "open")]]
    /\ UNCHANGED <<today, due, invoice, paidUntil, expense, told, drawer>>

MutClaimsDue(d) == due[d].status # "none"

ClaimsDue(d) == due[d].status = "DUE"

RecordPayment(w) ==
    LET d == job[w].of IN
    /\ job[w].op = "record"
    /\ IF ClaimsDue(d)
       THEN /\ due' = [due EXCEPT ![d].status = "SUCCEEDED", ![d].cash = job[w].seen]
            /\ Doing(w, "expense", d)
       ELSE UNCHANGED due /\ Ends(w)
    /\ UNCHANGED <<today, invoice, paidUntil, expense, told, drawer>>

(* createMemberExpense, and the payment that names it *)
RecordsExpense(w) ==
    LET p == job[w].of IN
    /\ job[w].op = "expense"
    /\ expense' = [expense EXCEPT ![p] = @ + Rent]
    /\ due' = IF p \in DueId THEN [due EXCEPT ![p].linked = TRUE] ELSE due
    /\ invoice' = IF p \in InvoiceId THEN [invoice EXCEPT ![p].linked = TRUE] ELSE invoice
    /\ Ends(w)
    /\ UNCHANGED <<today, paidUntil, told, drawer>>

UndoReads(w, d) ==
    /\ Free(w, "undo") /\ due[d].status = "SUCCEEDED"
    /\ ~(due[d].cash /\ drawer = "closed")
    /\ job' = [job EXCEPT ![w] = [Idle EXCEPT !.op = "undo", !.of = d, !.seen = due[d].linked]]
    /\ UNCHANGED <<today, due, invoice, paidUntil, expense, told, drawer>>

Undone(d) == expense[d] - Rent

UndoPayment(w) ==
    LET d == job[w].of IN
    /\ job[w].op = "undo"
    /\ expense' = IF job[w].seen /\ expense[d] > 0 THEN [expense EXCEPT ![d] = Undone(d)] ELSE expense
    /\ due' = [due EXCEPT ![d].status = "DUE", ![d].cash = FALSE, ![d].linked = FALSE]
    /\ Ends(w)
    /\ UNCHANGED <<today, invoice, paidUntil, told, drawer>>

CashClosing ==
    /\ drawer = "open"
    /\ drawer' = "closed"
    /\ UNCHANGED <<today, due, invoice, paidUntil, expense, told, job>>

(***************************************************************************)
(* handleInvoice, under the lock of the invoice, and syncRefund            *)
(***************************************************************************)

(* A paid invoice stays paid; a failed one is not written twice *)
Keeps(i, paid) == invoice[i].status = "SUCCEEDED" \/ (invoice[i].status # "none" /\ ~paid)

HandleInvoice(w, i) ==
    /\ Free(w, "invoice")
    /\ \E paid \in BOOLEAN :
         /\ ~Keeps(i, paid)
         /\ invoice' = [invoice EXCEPT ![i].status = IF paid THEN "SUCCEEDED" ELSE "FAILED"]
         /\ paidUntil' = IF paid THEN i ELSE paidUntil
         /\ IF paid THEN Doing(w, "expense", i) ELSE UNCHANGED job
    /\ UNCHANGED <<today, due, expense, told, drawer>>

(* charge.refunded: a total that only grows, delivered late or twice *)
RefundReads(w, i) ==
    /\ Free(w, "refund") /\ invoice[i].status = "SUCCEEDED"
    /\ \E value \in 1 .. Rent :
         job' = [job EXCEPT ![w] = [Idle EXCEPT !.op = "refund", !.of = i, !.seen = invoice[i].linked,
                                               !.value = value]]
    /\ UNCHANGED <<today, due, invoice, paidUntil, expense, told, drawer>>

Grows(i, value) == invoice[i].back < value

SyncRefund(w) ==
    LET i == job[w].of
        value == job[w].value
    IN /\ job[w].op = "refund"
       /\ IF Grows(i, value)
          THEN /\ invoice' = [invoice EXCEPT ![i].back = value,
                                             ![i].linked = IF value = Rent THEN FALSE ELSE @]
               /\ expense' = IF job[w].seen THEN [expense EXCEPT ![i] = Rent - value] ELSE expense
               /\ paidUntil' = IF value = Rent /\ paidUntil = i THEN None ELSE paidUntil
          ELSE UNCHANGED <<invoice, expense, paidUntil>>
       /\ Ends(w)
       /\ UNCHANGED <<today, due, told, drawer>>

(***************************************************************************)
(* processManualDues tells an overdue month once                           *)
(***************************************************************************)

OverdueReads(w, d) ==
    /\ Free(w, "overdue") /\ due[d].status = "DUE" /\ d < today /\ ~due[d].noticed
    /\ Doing(w, "overdue", d)
    /\ UNCHANGED <<today, due, invoice, paidUntil, expense, told, drawer>>

Notices(d) == ~due[d].noticed

ProcessManualDues(w) ==
    LET d == job[w].of IN
    /\ job[w].op = "overdue"
    /\ due' = [due EXCEPT ![d].noticed = TRUE]
    /\ told' = IF Notices(d) THEN [told EXCEPT ![d] = @ + 1] ELSE told
    /\ Ends(w)
    /\ UNCHANGED <<today, invoice, paidUntil, expense, drawer>>

DuesNext ==
    \/ MonthBegins \/ CashClosing
    \/ \E w \in Worker :
         \/ DuesReads(w) \/ EnsureDues(w) \/ RecordPayment(w) \/ RecordsExpense(w)
         \/ UndoPayment(w) \/ SyncRefund(w) \/ ProcessManualDues(w)
         \/ \E d \in DueId : RecordReads(w, d) \/ UndoReads(w, d) \/ OverdueReads(w, d)
         \/ \E i \in InvoiceId : HandleInvoice(w, i) \/ RefundReads(w, i)

(***************************************************************************)
(* Properties                                                              *)
(***************************************************************************)

DuesTypeOK ==
    /\ today \in DueId /\ drawer \in {"open", "closed"}
    /\ due \in [DueId -> Due] /\ invoice \in [InvoiceId -> Invoice]
    /\ paidUntil \in InvoiceId \cup {None}
    /\ expense \in [Payment -> Nat] /\ told \in [DueId -> Nat]
    /\ job \in [Worker -> Job]

Touching(p) == \E w \in Worker : job[w].of = p

(* What the professional's books show as rent is what was paid and not     *)
(* given back: two clicks, a repeated event and an undone payment leave no *)
(* expense twice and none behind (recordPayment, undoPayment,              *)
(* handleInvoice, syncRefund).                                             *)
ExpensesMatchPayments ==
    /\ \A d \in DueId : ~Touching(d) =>
         expense[d] = (IF due[d].status = "SUCCEEDED" THEN Rent ELSE 0)
    /\ \A i \in InvoiceId : ~Touching(i) =>
         expense[i] = (IF invoice[i].status = "SUCCEEDED" THEN Rent - invoice[i].back ELSE 0)

(* Each month is owed once, however many screens and jobs write the dues   *)
(* together (ensureDues).                                                  *)
MonthOwedOnce == \A d \in DueId : due[d].rows <= 1

(* An overdue month is told once to both sides (processManualDues).        *)
OverdueToldOnce == \A d \in DueId : told[d] <= 1

(* Nothing un-pays an invoice, and what was given back of it never         *)
(* shrinks, whatever the order of the events (handleInvoice, syncRefund).  *)
PaidStaysPaid ==
    \A i \in InvoiceId :
      invoice[i].status = "SUCCEEDED" =>
         invoice'[i].status = "SUCCEEDED" /\ invoice'[i].back >= invoice[i].back

(***************************************************************************)
(* The component: one part at a time. The other parts have no state then.  *)
(***************************************************************************)

vars == 
    <<link, stripe, key, agreed, answers, stranded, today, due, invoice, paidUntil,
      expense, told, drawer, job>>

Init ==
    \/ /\ Part = "link" /\ LinkInit
          /\ today = None /\ due = None /\ invoice = None /\ paidUntil = None /\ expense = None
          /\ told = None /\ drawer = None /\ job = None
    \/ /\ Part = "dues" /\ DuesInit
          /\ link = None /\ stripe = None /\ key = None /\ agreed = None /\ answers = None
          /\ stranded = None

Next ==
    \/ Part = "link" /\ LinkNext /\ UNCHANGED <<today, due, invoice, paidUntil, expense, told, drawer, job>>
    \/ Part = "dues" /\ DuesNext /\ UNCHANGED <<link, stripe, key, agreed, answers, stranded>>

Spec == Init /\ [][Next]_vars

TypeOK ==
    /\ Part = "link" => LinkTypeOK
    /\ Part = "dues" => DuesTypeOK
=============================================================================
