------------------------------ MODULE Checkout ------------------------------
(***************************************************************************)
(* The sales of one shop and everything a sale changes outside its own     *)
(* row: the balance of a gift card, the customer's loyalty points, the     *)
(* bonus of who referred the customer, and the stock.                      *)
(*                                                                         *)
(* Transactions run at READ COMMITTED.  The row a request reads first      *)
(* (`existing`) is not locked, so a request has one step that reads and    *)
(* one that commits; the writes of a transaction hold their row locks      *)
(* until the commit and are one step.                                      *)
(*                                                                         *)
(* Left out: packages and club sessions, the cash session and the          *)
(* commission of a sale.  Deposit and payment by app are one amount that   *)
(* was paid before.  The loyalty programme of the network is on.           *)
(*                                                                         *)
(* The requests of a behaviour come from a mix: what the screens may ask,  *)
(* and whether two requests may be at work on one sale.                    *)
(***************************************************************************)
EXTENDS Integers, FiniteSets, Functions

CONSTANTS
    Worker,          \* concurrent requests
    SaleId,
    Customer,
    Card,            \* gift card ids
    None,
    Referrer,        \* who referred each customer, or None
    CardValue,       \* initialValue of a gift card
    PointsPerUnit,   \* loyaltyPointsPerCurrencyUnit
    PointValue,      \* loyaltyPointValue
    Bonus,           \* referralBonusPoints
    MaxManual,       \* bound on the units put into stock by hand
    MaxForgiven,     \* bound on the points forgiven before more are redeemed
    StartPoints,     \* loyaltyPoints of each customer at the start
    Mixes            \* the mixes of requests a behaviour may consist of

AllOps == {"create", "update", "delete", "card", "switch", "refund", "stock"}
AllFields == {"customer", "status", "total", "items"}

(* most: bound on the sales that stand or are being created *)
Mix == [ops : SUBSET AllOps, shared : BOOLEAN, fields : SUBSET AllFields,
        customers : SUBSET Customer, prices : SUBSET Nat, before : SUBSET Nat,
        units : SUBSET Nat, most : Nat]

ASSUME RulesAssumption ==
    /\ {CardValue, PointValue} \subseteq Nat \ {0}
    /\ {PointsPerUnit, Bonus, StartPoints, MaxManual, MaxForgiven} \subseteq Nat
ASSUME ReferrerAssumption ==
    /\ Referrer \in [Customer -> Customer \cup {None}]
    /\ None \notin Customer \cup SaleId \cup Card
ASSUME TablesAssumption == IsFiniteSet(SaleId) /\ IsFiniteSet(Customer)
ASSUME MixesAssumption == Mixes \subseteq Mix

VARIABLES
    mix,         \* the requests of this behaviour: it never changes
    sales,       \* the rows of Sale
    points,      \* loyaltyPoints
    cards,       \* the rows of GiftCard
    referral,    \* per referred customer: the sale that completed it, points awarded
    stock,       \* quantity of the product in stock
    job,         \* what each request remembers
    forgiven,    \* history: points that GREATEST(0, ...) did not take
    withdrawn,   \* history: value a cancellation or a refund took from a card
    manual       \* history: sum of the MANUAL stock movements

Ops == mix.ops                  (* the requests that may be made *)
SharedSales == mix.shared       (* may two requests work on one sale at once? *)
EditFields == mix.fields        (* the fields an edit may name *)
Prices == mix.prices            (* totals the screen may send *)
PaidBefore == mix.before        (* deposit plus payment by app an appointment may bring *)
Units == mix.units              (* units of the product a sale may have *)

ghosts == <<forgiven, withdrawn, manual>>
vars == <<mix, sales, points, cards, referral, stock, job, forgiven, withdrawn, manual>>

(* kind STAFF stands for SERVICE, PRODUCT and MIXED; qty: units of the      *)
(* product; of: the sale a REFUND gives back (its item's note).             *)
Sale == [kind : {"STAFF", "GIFT_CARD", "REFUND"}, status : {"PENDING", "PAID"},
         customer : Customer \cup {None}, total : Int, before : Nat,
         card : Card \cup {None}, applied : Nat, redeemed : Nat, discount : Nat,
         earned : Nat, qty : Nat, of : SaleId \cup {None}]

GiftCard == [issued : BOOLEAN, active : BOOLEAN, remaining : Int, sale : SaleId \cup {None}]

ASSUME NoneAssumption == None \notin Sale

(* A field of an edit that is None is left alone. *)
Edit == [customer : Customer \cup {None}, status : {"PENDING", "PAID", None},
         total : Nat \cup {None}, qty : Nat \cup {None}]

Named(field, values) == IF field \in EditFields THEN values \cup {None} ELSE {None}

Edits == [customer : Named("customer", mix.customers), status : Named("status", {"PENDING", "PAID"}),
          total : Named("total", Prices), qty : Named("items", Units)]

NoSale == [kind |-> "STAFF", status |-> "PENDING", customer |-> None, total |-> 0, before |-> 0,
           card |-> None, applied |-> 0, redeemed |-> 0, discount |-> 0, earned |-> 0,
           qty |-> 0, of |-> None]
NoEdit == [customer |-> None, status |-> None, total |-> None, qty |-> None]
NoJob == [op |-> "idle", sale |-> None, seen |-> NoSale, edit |-> NoEdit, card |-> None,
          amount |-> 0, reopen |-> {}]

Job == [op : AllOps \cup {"idle", "deleting"}, sale : SaleId \cup {None}, seen : Sale, edit : Edit,
        card : Card \cup {None}, amount : Int, reopen : SUBSET Customer]

Exists(s) == s # None /\ sales[s] # None

(* The rows keep their types; only a refund has a negative total. *)
TypeOK ==
    /\ mix \in Mixes
    /\ sales \in [SaleId -> Sale \cup {None}]
    /\ \A s \in SaleId : Exists(s) => sales[s].kind = "REFUND" \/ sales[s].total >= 0
    /\ points \in [Customer -> Int]
    /\ cards \in [Card -> GiftCard]
    /\ referral \in [Customer -> [sale : SaleId \cup {None}, awarded : Nat]]
    /\ stock \in Int
    /\ job \in [Worker -> Job]
    /\ forgiven \in [Customer -> Nat]
    /\ withdrawn \in [Card -> Nat]
    /\ manual \in Int

NotIssued == [issued |-> FALSE, active |-> FALSE, remaining |-> 0, sale |-> None]
Open == [sale |-> None, awarded |-> 0]

Init ==
    /\ mix \in Mixes
    /\ sales = [s \in SaleId |-> None]
    /\ points = [c \in Customer |-> StartPoints]
    /\ cards = [k \in Card |-> NotIssued]
    /\ referral = [c \in Customer |-> Open]
    /\ stock = 0
    /\ job = [w \in Worker |-> NoJob]
    /\ forgiven = [c \in Customer |-> 0]
    /\ withdrawn = [k \in Card |-> 0]
    /\ manual = 0

----------------------------------------------------------------------------
(* Requests *)

Read(w, op, s, j) ==
    /\ op \in Ops
    /\ job[w].op = "idle"
    /\ SharedSales \/ s = None \/ \A v \in Worker : job[v].sale # s
    /\ job' = [job EXCEPT ![w] = [j EXCEPT !.op = op, !.sale = s]]
    /\ UNCHANGED <<sales, points, cards, referral, stock, ghosts>>

Done(w) == job' = [job EXCEPT ![w] = NoJob]

(* The transaction throws: everything it wrote is undone. *)
Rollback(w) == Done(w) /\ UNCHANGED <<sales, points, cards, referral, stock, ghosts>>

(* The next id of the table's sequence: no row and no request names it. *)
Fresh(s) ==
    /\ sales[s] = None
    /\ \A w \in Worker : job[w].sale # s
    /\ \A c \in Customer : referral[c].sale # s
    /\ \A t \in SaleId : Exists(t) => sales[t].of # s

Least(a, b) == IF a < b THEN a ELSE b
AtLeastZero(n) == IF n < 0 THEN 0 ELSE n
CeilDiv(a, b) == (a + b - 1) \div b

MoneyBase(total, before) == AtLeastZero(total + before)

LoyaltyEarnedFor(status, total, c) ==
    IF status = "PAID" /\ c # None THEN total * PointsPerUnit ELSE 0

----------------------------------------------------------------------------
(* Points *)

(* A change of points: the balances and what was forgiven so far *)
Ledger == [points |-> points, forgiven |-> forgiven]

Credit(l, c, n) == IF c = None THEN l ELSE [l EXCEPT !.points[c] = @ + n]

(* Adds points, or takes them without making the balance negative. *)
AddLoyaltyPoints(l, c, n) ==
    IF c = None \/ n >= 0 THEN Credit(l, c, n)
    ELSE [l EXCEPT !.points[c] = AtLeastZero(@ + n),
                   !.forgiven[c] = @ + AtLeastZero(l.points[c] + n) - (l.points[c] + n)]

(* completeReferralIfPaid: who referred c, when sale s of c completes it *)
Completes(refs, c, money) ==
    /\ c # None /\ money > 0
    /\ Referrer[c] # None /\ refs[c].sale = None

CompleteReferral(refs, c, money, s) ==
    IF Completes(refs, c, money)
    THEN [refs EXCEPT ![c] = [sale |-> s, awarded |-> Bonus]] ELSE refs

PayReferrer(l, refs, c, money) ==
    IF Completes(refs, c, money) THEN Credit(l, Referrer[c], Bonus) ELSE l

(* revertReferralOfSale: the referrals in R that still name s are open again *)
RevertReferral(refs, R, s) == [c \in Customer |-> IF c \in R /\ refs[c].sale = s THEN Open ELSE refs[c]]

(* referredId is unique and a sale has one customer: one referral at most   *)
(* names the sale.                                                          *)
TakeBonus(l, refs, R, s) ==
    IF \E c \in R : refs[c].sale = s
    THEN LET c == CHOOSE c \in R : refs[c].sale = s
         IN  AddLoyaltyPoints(l, Referrer[c], - refs[c].awarded)
    ELSE l

(* Mutant: the sale is deleted and the referral still names it. *)
MutCompletedBy(s) == {}

CompletedBy(s) == {c \in Customer : referral[c].sale = s}

SetPoints(l) == points' = l.points /\ forgiven' = l.forgiven

----------------------------------------------------------------------------
(* createSale *)

ValidCard(k) == cards[k].issued /\ cards[k].active /\ cards[k].remaining > 0

(* What was paid before comes off first; the card and then the points cover *)
(* only what is left.                                                       *)
NewSale(status, c, price, before, k, asked, qty) ==
    LET afterBefore == price - before
        applied == IF k = None THEN 0 ELSE Least(cards[k].remaining, afterBefore)
        afterCard == afterBefore - applied
        redeemed == Least(asked, CeilDiv(afterCard, PointValue))
        discount == Least(redeemed * PointValue, afterCard)
        total == afterCard - discount
    IN  [kind |-> "STAFF", status |-> status, customer |-> c, total |-> total,
         before |-> before, card |-> k, applied |-> applied, redeemed |-> redeemed,
         discount |-> discount, earned |-> LoyaltyEarnedFor(status, MoneyBase(total, before), c),
         qty |-> qty, of |-> None]

Standing == {s \in SaleId : Exists(s)}
Coming == {w \in Worker : job[w].op = "create"}

CreateSale(w) ==
    \E status \in {"PENDING", "PAID"}, c \in mix.customers \cup {None}, price \in Prices,
       before \in PaidBefore, k \in {q \in Card : ValidCard(q)} \cup {None}, qty \in Units :
    \E asked \in 0..(IF c = None \/ forgiven[c] > MaxForgiven THEN 0 ELSE AtLeastZero(points[c])) :
        /\ before <= price
        /\ Cardinality(Standing) + Cardinality(Coming) < mix.most
        /\ Read(w, "create", None,
                [NoJob EXCEPT !.seen = NewSale(status, c, price, before, k, asked, qty)])

(* Mutant: trusts the balance and the points read before the transaction. *)
MutStillCovered(row) == TRUE

(* The conditional debits of the transaction *)
StillCovered(row) ==
    /\ row.card # None => cards[row.card].remaining >= row.applied
    /\ row.redeemed > 0 => points[row.customer] >= row.redeemed

CreateCommit(w, s) ==
    LET row == job[w].seen
        money == MoneyBase(row.total, row.before)
        spent == Credit(Ledger, row.customer, row.earned - row.redeemed)
    IN  /\ job[w].op = "create"
        /\ Fresh(s)
        /\ StillCovered(row)
        /\ sales' = [sales EXCEPT ![s] = row]
        /\ cards' = IF row.card = None THEN cards
                    ELSE [cards EXCEPT ![row.card].remaining = @ - row.applied]
        /\ IF row.status = "PAID"
           THEN /\ referral' = CompleteReferral(referral, row.customer, money, s)
                /\ SetPoints(PayReferrer(spent, referral, row.customer, money))
           ELSE SetPoints(spent) /\ UNCHANGED referral
        /\ stock' = stock - row.qty
        /\ Done(w)
        /\ UNCHANGED <<withdrawn, manual>>

CreateFails(w) ==
    /\ job[w].op = "create"
    /\ ~ StillCovered(job[w].seen) \/ \A s \in SaleId : ~ Fresh(s)
    /\ Rollback(w)

----------------------------------------------------------------------------
(* updateSale *)

Merge(old, new) == IF new = None THEN old ELSE new

(* What the stored total already leaves out *)
AppliedTo(row) == row.before + row.applied + row.discount

(* Mutant: the new total may be below what was already paid. *)
MutBelowApplied(row, edit) ==
    /\ row.kind = "GIFT_CARD" => edit.total = None /\ edit.qty = None
    /\ Merge(row.customer, edit.customer) # row.customer => row.redeemed = 0 /\ row.applied = 0

EditAllowed(row, edit) ==
    /\ row.kind = "GIFT_CARD" => edit.total = None /\ edit.qty = None
    /\ edit.total # None => edit.total >= AppliedTo(row)
    /\ Merge(row.customer, edit.customer) # row.customer => row.redeemed = 0 /\ row.applied = 0

UpdateSale(w, s) ==
    \E edit \in Edits :
        /\ Exists(s) /\ sales[s].kind # "REFUND"
        /\ EditAllowed(sales[s], edit)
        /\ Read(w, "update", s, [NoJob EXCEPT !.seen = sales[s], !.edit = edit])

(* The fields of the request are written; the points, the referral and the  *)
(* next status are computed from the row that was read.                     *)
UpdateCommit(w) ==
    LET s == job[w].sale
        old == job[w].seen
        edit == job[w].edit
        net == IF edit.total = None THEN None ELSE edit.total - AppliedTo(old)
        customer == Merge(old.customer, edit.customer)
        status == Merge(old.status, edit.status)
        moved == customer # old.customer
        money == MoneyBase(Merge(old.total, net), old.before)
        earned == LoyaltyEarnedFor(status, money, customer)
        given == IF moved
                 THEN AddLoyaltyPoints(AddLoyaltyPoints(Ledger, old.customer, - old.earned), customer, earned)
                 ELSE AddLoyaltyPoints(Ledger, customer, earned - old.earned)
        reverts == old.status = "PAID" /\ (status # "PAID" \/ moved)
        refs == IF reverts THEN RevertReferral(referral, Customer, s) ELSE referral
        taken == IF reverts THEN TakeBonus(given, referral, Customer, s) ELSE given
        completes == status = "PAID" /\ (old.status # "PAID" \/ moved)
    IN  /\ job[w].op = "update"
        /\ Exists(s)
        /\ sales' = [sales EXCEPT ![s].customer = Merge(@, edit.customer),
                                  ![s].status = Merge(@, edit.status),
                                  ![s].total = Merge(@, net),
                                  ![s].qty = Merge(@, edit.qty),
                                  ![s].earned = earned]
        /\ stock' = stock + sales[s].qty - Merge(sales[s].qty, edit.qty)
        /\ referral' = IF completes THEN CompleteReferral(refs, customer, money, s) ELSE refs
        /\ SetPoints(IF completes THEN PayReferrer(taken, refs, customer, money) ELSE taken)
        /\ Done(w)
        /\ UNCHANGED <<cards, withdrawn, manual>>

UpdateFails(w) == job[w].op = "update" /\ ~ Exists(job[w].sale) /\ Rollback(w)

----------------------------------------------------------------------------
(* deleteSale *)

DeleteSale(w, s) ==
    /\ Exists(s) /\ sales[s].kind # "REFUND"
    /\ Read(w, "delete", s, [NoJob EXCEPT !.seen = sales[s]])

(* Mutant: the stock stays as the sale left it. *)
MutMovementsOf(s) == 0

MovementsOf(s) == IF Exists(s) THEN sales[s].qty ELSE 0

(* Inside the transaction: the referral it completed and its stock movements *)
DeleteLooks(w) ==
    LET s == job[w].sale
    IN  /\ job[w].op = "delete"
        /\ job' = [job EXCEPT ![w].op = "deleting", ![w].reopen = CompletedBy(s),
                              ![w].amount = MovementsOf(s)]
        /\ UNCHANGED <<sales, points, cards, referral, stock, ghosts>>

IssuedBy(s) == {k \in Card : cards[k].issued /\ cards[k].sale = s}

(* cancelIssuedIfUnused: a card that was used keeps its sale. *)
CardsUnused(s) == \A k \in IssuedBy(s) : cards[k].remaining = CardValue

(* An unused card is cancelled, unless someone switched it off before. *)
CancelledWithSale(card) ==
    IF card.active THEN [card EXCEPT !.active = FALSE, !.remaining = 0, !.sale = None]
    ELSE [card EXCEPT !.sale = None]

(* The card the sale used gets its value back. *)
AfterDelete(k, s, row) ==
    IF k \in IssuedBy(s) THEN CancelledWithSale(cards[k])
    ELSE IF row.card = k THEN [cards[k] EXCEPT !.remaining = @ + row.applied] ELSE cards[k]

(* Mutant: the customer keeps the points the deleted sale gave. *)
MutPointsBack(w) ==
    AddLoyaltyPoints(TakeBonus(Ledger, referral, job[w].reopen, job[w].sale),
                     job[w].seen.customer, job[w].seen.redeemed)

PointsBack(w) ==
    AddLoyaltyPoints(TakeBonus(Ledger, referral, job[w].reopen, job[w].sale),
                     job[w].seen.customer, job[w].seen.redeemed - job[w].seen.earned)

DeleteCommit(w) ==
    LET s == job[w].sale
    IN  /\ job[w].op = "deleting"
        /\ Exists(s) /\ CardsUnused(s)
        /\ cards' = [k \in Card |-> AfterDelete(k, s, job[w].seen)]
        /\ withdrawn' = [k \in Card |-> IF k \in IssuedBy(s) /\ cards[k].active
                                        THEN withdrawn[k] + cards[k].remaining ELSE withdrawn[k]]
        /\ referral' = RevertReferral(referral, job[w].reopen, s)
        /\ SetPoints(PointsBack(w))
        /\ stock' = stock + job[w].amount
        /\ sales' = [sales EXCEPT ![s] = None]
        /\ Done(w)
        /\ UNCHANGED manual

DeleteFails(w) ==
    /\ job[w].op = "deleting"
    /\ ~ Exists(job[w].sale) \/ ~ CardsUnused(job[w].sale)
    /\ Rollback(w)

----------------------------------------------------------------------------
(* Gift cards *)

(* createGiftCard, with the sale of recordStandaloneSale *)
CreateGiftCard(k, s) ==
    /\ "card" \in Ops
    /\ ~ cards[k].issued
    /\ Fresh(s)
    /\ \E status \in {"PENDING", "PAID"} :
          sales' = [sales EXCEPT ![s] = [NoSale EXCEPT !.kind = "GIFT_CARD", !.status = status,
                                                       !.total = CardValue]]
    /\ cards' = [cards EXCEPT ![k] = [issued |-> TRUE, active |-> TRUE, remaining |-> CardValue,
                                      sale |-> s]]
    /\ UNCHANGED <<points, referral, stock, job, ghosts>>

SetGiftCardActive(k) ==
    /\ "switch" \in Ops
    /\ cards[k].issued
    /\ cards' = [cards EXCEPT ![k].active = ~ @]
    /\ UNCHANGED <<sales, points, referral, stock, job, ghosts>>

(* refundIssuedRemainder of a card that was used in part *)
RefundIssuedRemainder(w, k) ==
    LET s == cards[k].sale
    IN  /\ Exists(s)
        /\ cards[k].remaining > 0 /\ cards[k].remaining < CardValue
        /\ Read(w, "refund", s,
                [NoJob EXCEPT !.seen = sales[s], !.card = k, !.amount = cards[k].remaining])

(* Mutant: empties the card whatever it holds by now. *)
MutCardUnchanged(w) == cards[job[w].card].sale = job[w].sale

CardUnchanged(w) ==
    cards[job[w].card].sale = job[w].sale /\ cards[job[w].card].remaining = job[w].amount

(* A paid sale stays as it was and a negative one is written today; a       *)
(* pending one is lowered.                                                  *)
RefundCommit(w) ==
    LET s == job[w].sale
        k == job[w].card
        old == job[w].seen
        total == AtLeastZero(old.total - job[w].amount)
        earned == IF old.earned > 0
                  THEN LoyaltyEarnedFor(old.status, MoneyBase(total, old.before), old.customer) ELSE 0
        reEarned == IF old.earned > 0 THEN [sales EXCEPT ![s].earned = earned] ELSE sales
    IN  /\ job[w].op = "refund"
        /\ CardUnchanged(w)
        /\ cards' = [cards EXCEPT ![k].remaining = 0, ![k].active = FALSE]
        /\ withdrawn' = [withdrawn EXCEPT ![k] = @ + cards[k].remaining]
        /\ IF old.status = "PAID"
           THEN IF old.total > total
                THEN \E r \in SaleId :
                        /\ Fresh(r)
                        /\ sales' = [reEarned EXCEPT ![r] =
                             [NoSale EXCEPT !.kind = "REFUND", !.status = "PAID",
                                            !.customer = old.customer, !.of = s,
                                            !.total = total - old.total]]
                ELSE sales' = reEarned
           ELSE sales' = [reEarned EXCEPT ![s].total = total]
        /\ SetPoints(Credit(Ledger, old.customer, earned - old.earned))
        /\ Done(w)
        /\ UNCHANGED <<referral, stock, manual>>

RefundFails(w) ==
    /\ job[w].op = "refund"
    /\ ~ CardUnchanged(w) \/ \A r \in SaleId : ~ Fresh(r)
    /\ Rollback(w)

----------------------------------------------------------------------------
(* adjustInventory: a change, or a count compared with the quantity read *)
AdjustInventory(w) ==
    \E change \in {-1, 1} \cup {counted - stock : counted \in 0..1} :
        /\ change # 0
        /\ manual + change \in 0..MaxManual
        /\ Read(w, "stock", None, [NoJob EXCEPT !.amount = change])

(* The quantity that came back is the real one; below zero is refused. *)
AdjustCommit(w) ==
    /\ job[w].op = "stock"
    /\ stock + job[w].amount >= 0
    /\ stock' = stock + job[w].amount
    /\ manual' = manual + job[w].amount
    /\ Done(w)
    /\ UNCHANGED <<sales, points, cards, referral, forgiven, withdrawn>>

AdjustFails(w) == job[w].op = "stock" /\ stock + job[w].amount < 0 /\ Rollback(w)

----------------------------------------------------------------------------
Requests ==
    \/ \E w \in Worker :
          \/ CreateSale(w) \/ CreateFails(w) \/ UpdateCommit(w) \/ UpdateFails(w)
          \/ DeleteLooks(w) \/ DeleteCommit(w) \/ DeleteFails(w)
          \/ RefundCommit(w) \/ RefundFails(w)
          \/ AdjustInventory(w) \/ AdjustCommit(w) \/ AdjustFails(w)
          \/ \E s \in SaleId : CreateCommit(w, s) \/ UpdateSale(w, s) \/ DeleteSale(w, s)
          \/ \E k \in Card : RefundIssuedRemainder(w, k)
    \/ \E k \in Card : SetGiftCardActive(k) \/ \E s \in SaleId : CreateGiftCard(k, s)

Next == Requests /\ UNCHANGED mix

Spec == Init /\ [][Next]_vars

----------------------------------------------------------------------------
(* Properties *)

(* Two requests are never at work on one sale that staff can edit. *)
EditsAlone == SharedSales => EditFields = {}

(* What the rows say a customer should have *)
PointsOf(row, c) == IF row # None /\ row.customer = c THEN row.earned - row.redeemed ELSE 0
AwardedTo(refs, c) == [r \in Customer |-> IF Referrer[r] = c THEN refs[r].awarded ELSE 0]
PointsInRows(c) ==
    SumFunctionOnSet([s \in SaleId |-> PointsOf(sales[s], c)], SaleId)
    + SumFunctionOnSet(AwardedTo(referral, c), Customer)

(* Every point a customer has comes from a sale or a referral that still    *)
(* stands: creating, editing, reassigning and deleting sales, in any        *)
(* interleaving, neither grants a point twice nor keeps one whose sale is   *)
(* gone, except those already spent (addLoyaltyPoints).                     *)
PointsExact ==
    EditsAlone => \A c \in Customer : points[c] = StartPoints + PointsInRows(c) + forgiven[c]

(* No request leaves a customer with a negative balance, even when points   *)
(* granted by a sale were spent before the sale was edited or deleted.      *)
PointsNotNegative == \A c \in Customer : points[c] >= 0

(* A completed referral names a sale that exists, is paid and belongs to    *)
(* the referred customer; otherwise it must be open for the next sale       *)
(* (revertReferralOfSale).                                                  *)
ReferralBacked ==
    EditsAlone => \A c \in Customer : LET s == referral[c].sale IN
        s # None => Exists(s) /\ sales[s].status = "PAID" /\ sales[s].customer = c

SpentOf(row, k) == IF row # None /\ row.card = k THEN row.applied ELSE 0

(* The value of a gift card is never spent twice nor lost: it is on the     *)
(* card, in sales that used it, or was withdrawn by the request that        *)
(* cancelled or refunded it.                                                *)
GiftCardHonest ==
    \A k \in Card : cards[k].issued =>
        /\ cards[k].remaining >= 0
        /\ CardValue = cards[k].remaining + withdrawn[k]
             + SumFunctionOnSet([s \in SaleId |-> SpentOf(sales[s], k)], SaleId)

RefundedOf(row, s) == IF row # None /\ row.of = s THEN - row.total ELSE 0
Refunded(s) == SumFunctionOnSet([r \in SaleId |-> RefundedOf(sales[r], s)], SaleId)

(* While no two requests work on one sale and cards are not switched off,   *)
(* what the shop charged for a card, less what it gave back, is the value   *)
(* the card gave or still gives: refundIssuedRemainder and deleteSale take  *)
(* the value out of the card when they take the money out of the books.     *)
CardsPaidFor ==
    ~ SharedSales /\ "switch" \notin Ops => \A k \in Card : cards[k].issued =>
        LET s == cards[k].sale
            charged == IF Exists(s) THEN sales[s].total - Refunded(s) ELSE 0
        IN  charged = CardValue - withdrawn[k]

UnitsOf(row) == IF row # None THEN row.qty ELSE 0

(* While no two requests edit one sale, the quantity in stock is what was   *)
(* put there by hand less the units in the sales that stand (moveStock,     *)
(* applySaleStockDelta, deleteSale).                                        *)
StockKept ==
    EditsAlone => stock = manual - SumFunctionOnSet([s \in SaleId |-> UnitsOf(sales[s])], SaleId)
=============================================================================
