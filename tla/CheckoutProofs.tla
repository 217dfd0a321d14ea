--------------------------- MODULE CheckoutProofs ---------------------------
(***************************************************************************)
(* Proofs about Checkout, for any number of requests, sales, cards and     *)
(* customers.  TInv is the types with what requests remember; EInv adds    *)
(* that an edited sale is read by one request; GInv, UInv, PInv and WInv   *)
(* are the balances of cards, stock, points and charges, proved with the   *)
(* facts of FiniteSums: each step changes one or two terms of a sum.       *)
(***************************************************************************)
EXTENDS Checkout, FiniteSums, TLAPS

(* What a commit finds of the row it read: these fields are never edited.  *)
SameForGood(old, row) ==
    /\ old.kind = row.kind /\ old.before = row.before /\ old.card = row.card
    /\ old.applied = row.applied /\ old.redeemed = row.redeemed
    /\ old.discount = row.discount /\ old.of = row.of

RowOK(row, cs) ==
    /\ row.kind # "REFUND" => row.total >= 0 /\ row.of = None
    /\ row.kind = "REFUND" => row.total <= 0
    /\ row.kind # "STAFF" => row.card = None
    /\ row.card # None => cs[row.card].issued

(* Refunds give back, only staff sales use a card, and it was issued. *)
RowsOK == \A s \in SaleId : Exists(s) => RowOK(sales[s], cards)

(* A card is never overdrawn, starts when it is issued, and names the one   *)
(* sale that issued it while that sale stands.                              *)
CardsOK ==
    /\ \A k \in Card :
          /\ cards[k].remaining >= 0
          /\ ~ cards[k].issued => cards[k].sale = None /\ withdrawn[k] = 0
          /\ cards[k].sale # None => Exists(cards[k].sale) /\ sales[cards[k].sale].kind = "GIFT_CARD"
    /\ \A k, j \in Card : cards[k].sale # None /\ cards[k].sale = cards[j].sale => k = j

Working(w) == job[w].op \in {"update", "delete", "deleting", "refund"}

(* What a request remembers of the row it read holds of the row. *)
JobOK(w) ==
    /\ job[w].op = "create" => job[w].seen.kind = "STAFF" /\ RowOK(job[w].seen, cards)
    /\ Working(w) =>
         /\ job[w].sale # None /\ job[w].seen.kind # "REFUND" /\ RowOK(job[w].seen, cards)
         /\ Exists(job[w].sale) => SameForGood(job[w].seen, sales[job[w].sale])
    /\ job[w].op = "update" => EditAllowed(job[w].seen, job[w].edit)
    /\ job[w].op = "refund" =>
         /\ job[w].card # None /\ cards[job[w].card].issued /\ job[w].amount > 0
         /\ job[w].seen.kind = "GIFT_CARD"

JobsOK == \A w \in Worker : JobOK(w)

TInv == TypeOK /\ RowsOK /\ CardsOK /\ JobsOK

(* Without edits the points of a sale follow from its row. *)
EarnedAsRow(row) ==
    IF row.kind = "GIFT_CARD" THEN row.customer = None /\ row.earned = 0
    ELSE row.earned = LoyaltyEarnedFor(row.status, MoneyBase(row.total, row.before), row.customer)

Unedited ==
    EditFields = {} =>
        /\ \A s \in SaleId : Exists(s) /\ sales[s].kind # "REFUND" => EarnedAsRow(sales[s])
        /\ \A w \in Worker : job[w].op = "create" \/ Working(w) =>
              EarnedAsRow(job[w].seen) /\ job[w].edit = NoEdit

Alone ==
    ~ SharedSales =>
        /\ \A v, w \in Worker : v # w /\ job[v].sale # None => job[v].sale # job[w].sale
        /\ \A w \in Worker : Working(w) /\ Exists(job[w].sale) => job[w].seen = sales[job[w].sale]

(* What the commit takes from the row it read still holds of the row. *)
SeenHolds ==
    EditsAlone => \A w \in Worker : Working(w) /\ Exists(job[w].sale) =>
        LET old == job[w].seen
            row == sales[job[w].sale]
        IN  old.customer = row.customer /\ old.status = row.status
            /\ old.earned = row.earned /\ old.qty = row.qty

LooksHold ==
    EditsAlone => \A w \in Worker : job[w].op = "deleting" /\ Exists(job[w].sale) =>
        job[w].reopen = CompletedBy(job[w].sale) /\ job[w].amount = sales[job[w].sale].qty

OpenIsEmpty == \A c \in Customer : referral[c].sale = None => referral[c].awarded = 0

EInv == Unedited /\ Alone /\ SeenHolds /\ LooksHold /\ OpenIsEmpty /\ ReferralBacked

----------------------------------------------------------------------------
(* Types *)

LEMMA NatTimes == ASSUME NEW a \in Nat, NEW b \in Nat PROVE a * b \in Nat
OBVIOUS

LEMMA CeilDivType == ASSUME NEW a \in Nat, NEW b \in Nat \ {0} PROVE CeilDiv(a, b) \in Nat
BY DEF CeilDiv

LEMMA ConstTypes ==
    /\ CardValue \in Nat /\ CardValue > 0 /\ PointValue \in Nat /\ PointValue > 0
    /\ PointsPerUnit \in Nat /\ Bonus \in Nat /\ StartPoints \in Nat
BY RulesAssumption

LEMMA NoneTypes == NoSale \in Sale /\ NoEdit \in Edit /\ NoJob \in Job
BY DEF NoSale, Sale, NoEdit, Edit, NoJob, Job

LEMMA RowIsRow == \A row \in Sale : row # None
BY NoneAssumption

LEMMA IdIsNotNone == \A s \in SaleId : s # None
BY ReferrerAssumption

LEMMA MixTypes ==
    ASSUME mix \in Mixes
    PROVE  /\ Ops \subseteq AllOps /\ SharedSales \in BOOLEAN /\ EditFields \subseteq AllFields
           /\ mix.customers \subseteq Customer /\ Prices \subseteq Nat /\ PaidBefore \subseteq Nat
           /\ Units \subseteq Nat
BY MixesAssumption DEF Mix, Ops, SharedSales, EditFields, Prices, PaidBefore, Units

LEMMA EarnedType ==
    ASSUME NEW status, NEW total \in Int, NEW before \in Nat, NEW c
    PROVE  /\ MoneyBase(total, before) \in Nat
           /\ LoyaltyEarnedFor(status, MoneyBase(total, before), c) \in Nat
BY ConstTypes, NatTimes DEF MoneyBase, AtLeastZero, LoyaltyEarnedFor

NewRowOK(row, c, k) ==
    /\ row \in Sale /\ row.kind = "STAFF" /\ row.of = None /\ row.card = k
    /\ row.total >= 0 /\ row.customer = c
    /\ row.earned = LoyaltyEarnedFor(row.status, MoneyBase(row.total, row.before), row.customer)

LEMMA NewSaleType ==
    ASSUME cards \in [Card -> GiftCard],
           NEW status \in {"PENDING", "PAID"}, NEW c \in Customer \cup {None}, NEW price \in Nat,
           NEW before \in Nat, before <= price, NEW k \in Card \cup {None},
           k # None => cards[k].remaining > 0, NEW asked \in Nat, NEW qty \in Nat
    PROVE  NewRowOK(NewSale(status, c, price, before, k, asked, qty), c, k)
<1> DEFINE afterBefore == price - before
           applied == IF k = None THEN 0 ELSE Least(cards[k].remaining, afterBefore)
           afterCard == afterBefore - applied
           redeemed == Least(asked, CeilDiv(afterCard, PointValue))
           discount == Least(redeemed * PointValue, afterCard)
           total == afterCard - discount
<1>1. afterBefore \in Nat
  OBVIOUS
<1>2. applied \in Nat /\ applied <= afterBefore
  BY <1>1 DEF GiftCard, Least
<1> HIDE DEF afterBefore, applied
<1>3. afterCard \in Nat
  BY <1>1, <1>2
<1> HIDE DEF afterCard
<1>4. CeilDiv(afterCard, PointValue) \in Nat
  BY <1>3, ConstTypes, CeilDivType
<1>5. redeemed \in Nat
  BY <1>4 DEF Least
<1> HIDE DEF redeemed
<1>6. redeemed * PointValue \in Nat
  BY <1>5, ConstTypes, NatTimes
<1>7. discount \in Nat /\ discount <= afterCard
  BY <1>3, <1>6 DEF Least
<1> HIDE DEF discount
<1>8. total \in Nat
  BY <1>3, <1>7
<1> HIDE DEF total
<1>9. LoyaltyEarnedFor(status, MoneyBase(total, before), c) \in Nat
  BY <1>8, EarnedType
<1>10. NewSale(status, c, price, before, k, asked, qty)
         = [kind |-> "STAFF", status |-> status, customer |-> c, total |-> total,
            before |-> before, card |-> k, applied |-> applied, redeemed |-> redeemed,
            discount |-> discount, earned |-> LoyaltyEarnedFor(status, MoneyBase(total, before), c),
            qty |-> qty, of |-> None]
  BY DEF NewSale, afterBefore, applied, afterCard, redeemed, discount, total
<1>11. PICK row : row = NewSale(status, c, price, before, k, asked, qty)
  OBVIOUS
<1>12. row \in Sale
  BY <1>2, <1>5, <1>7, <1>8, <1>9, <1>10, <1>11 DEF Sale
<1>13. /\ row.kind = "STAFF" /\ row.of = None /\ row.card = k /\ row.total >= 0 /\ row.customer = c
       /\ row.earned = LoyaltyEarnedFor(row.status, MoneyBase(row.total, row.before), row.customer)
  BY <1>8, <1>10, <1>11
<1> QED  BY <1>11, <1>12, <1>13 DEF NewRowOK
----------------------------------------------------------------------------
(* Rows keep their lasting fields, an id is not used again, and a card that *)
(* was issued stays issued.                                                 *)
Keeps ==
    /\ \A k \in Card : cards[k].issued => cards'[k].issued
    /\ \A s \in SaleId : sales'[s] # None =>
          \/ sales[s] # None /\ SameForGood(sales[s], sales'[s])
          \/ Fresh(s)

LEMMA KeepsStays == ASSUME UNCHANGED <<sales, cards>> PROVE Keeps
BY DEF Keeps, SameForGood

LEMMA RowKept ==
    ASSUME Keeps, NEW row \in Sale, RowOK(row, cards) PROVE RowOK(row, cards')
BY DEF Sale, RowOK, Keeps

(* The requests that a step leaves alone *)
LEMMA JobKept ==
    ASSUME TInv, Keeps, NEW w \in Worker, job'[w] = job[w]
    PROVE  JobOK(w)'
<1>1. JobOK(w) /\ job[w] \in Job /\ job[w].seen \in Sale /\ job[w].edit \in Edit
  BY DEF TInv, JobsOK, TypeOK, Job
<1>2. RowOK(job[w].seen, cards) => RowOK(job[w].seen, cards')
  BY <1>1, RowKept
<1>3. ASSUME Working(w), sales'[job[w].sale] # None
      PROVE  SameForGood(job[w].seen, sales'[job[w].sale])
  BY <1>1, <1>3 DEF JobOK, Job, Fresh, Keeps, Exists, SameForGood
<1>4. job[w].op = "refund" => job[w].card \in Card \cup {None}
  BY <1>1 DEF Job
<1>5. Working(w)' <=> Working(w)
  BY DEF Working
<1>6. job[w].op = "create" => job[w].seen.kind = "STAFF" /\ RowOK(job[w].seen, cards')
  BY <1>1, <1>2 DEF JobOK
<1>7. Working(w) =>
         /\ job[w].sale # None /\ job[w].seen.kind # "REFUND" /\ RowOK(job[w].seen, cards')
         /\ sales'[job[w].sale] # None => SameForGood(job[w].seen, sales'[job[w].sale])
  BY <1>1, <1>2, <1>3 DEF JobOK
<1>8. job[w].op = "update" => EditAllowed(job[w].seen, job[w].edit)
  BY <1>1 DEF JobOK
<1>9. job[w].op = "refund" =>
         /\ job[w].card # None /\ cards'[job[w].card].issued /\ job[w].amount > 0
         /\ job[w].seen.kind = "GIFT_CARD"
  BY <1>1, <1>4 DEF JobOK, Keeps
<1> QED  BY <1>5, <1>6, <1>7, <1>8, <1>9 DEF JobOK, Exists

LEMMA JobsKept ==
    ASSUME TInv, Keeps, NEW w \in Worker, \A v \in Worker : v # w => job'[v] = job[v], JobOK(w)'
    PROVE  JobsOK'
BY JobKept DEF JobsOK

LEMMA DoneFacts ==
    ASSUME TInv, NEW w \in Worker, Done(w)
    PROVE  /\ job' \in [Worker -> Job] /\ job'[w] = NoJob
           /\ \A v \in Worker : v # w => job'[v] = job[v]
BY NoneTypes DEF TInv, TypeOK, Done

LEMMA DoneKeeps ==
    ASSUME TInv, Keeps, NEW w \in Worker, Done(w)
    PROVE  JobsOK'
BY DoneFacts, JobsKept DEF JobOK, Working, NoJob

(* A row that was not there before, or that an edit changed, is in order. *)
LEMMA RowsKept ==
    ASSUME TInv, Keeps, sales' \in [SaleId -> Sale \cup {None}],
           \A s \in SaleId : sales'[s] # None =>
              sales'[s] = sales[s] \/ RowOK(sales'[s], cards) \/ RowOK(sales'[s], cards')
    PROVE  RowsOK'
<1> SUFFICES ASSUME NEW s \in SaleId, sales'[s] # None PROVE RowOK(sales'[s], cards')
  BY DEF RowsOK, Exists
<1>1. sales'[s] \in Sale
  OBVIOUS
<1>2. CASE sales'[s] = sales[s]
  BY <1>2, IdIsNotNone, <1>1, RowKept DEF TInv, RowsOK, Exists
<1>3. CASE RowOK(sales'[s], cards)
  BY <1>1, <1>3, RowKept
<1>4. CASE RowOK(sales'[s], cards')
  BY <1>4
<1> QED  BY <1>2, <1>3, <1>4

(* A request reads: nothing but its own memory changes. *)
LEMMA ReadFacts ==
    ASSUME TInv, NEW w \in Worker, NEW op \in AllOps, NEW s \in SaleId \cup {None}, NEW j \in Job,
           Read(w, op, s, j)
    PROVE  /\ job' \in [Worker -> Job]
           /\ \A v \in Worker : v # w => job'[v] = job[v]
           /\ job'[w].op = op /\ job'[w].sale = s /\ job'[w].seen = j.seen /\ job'[w].edit = j.edit
           /\ job'[w].card = j.card /\ job'[w].amount = j.amount /\ job'[w].reopen = j.reopen
           /\ job[w].op = "idle"
           /\ UNCHANGED <<sales, points, cards, referral, stock, forgiven, withdrawn, manual>>
<1>1. job \in [Worker -> Job]
  BY DEF TInv, TypeOK
<1>2. [j EXCEPT !.op = op, !.sale = s] \in Job
  BY DEF Job
<1>3. PICK r : r = [j EXCEPT !.op = op, !.sale = s]
  OBVIOUS
<1>4. r.op = op /\ r.sale = s /\ r.seen = j.seen /\ r.edit = j.edit /\ r.card = j.card
      /\ r.amount = j.amount /\ r.reopen = j.reopen
  BY <1>3 DEF Job
<1>5. job' = [job EXCEPT ![w] = r] /\ job[w].op = "idle"
      /\ UNCHANGED <<sales, points, cards, referral, stock, forgiven, withdrawn, manual>>
  BY <1>3 DEF Read, ghosts
<1> QED  BY <1>1, <1>2, <1>3, <1>4, <1>5

LEMMA ReadKeeps ==
    ASSUME TInv, NEW w \in Worker, NEW op \in AllOps, NEW s \in SaleId \cup {None}, NEW j \in Job,
           Read(w, op, s, j), UNCHANGED mix, JobOK(w)'
    PROVE  TInv'
<1>1. UNCHANGED <<sales, points, cards, referral, stock, ghosts>>
  BY DEF Read
<1>2. Keeps
  BY <1>1, KeepsStays
<1>3. job' \in [Worker -> Job] /\ \A v \in Worker : v # w => job'[v] = job[v]
  BY ReadFacts
<1>4. JobsOK'
  BY <1>2, <1>3, JobsKept
<1>5. TypeOK' /\ RowsOK' /\ CardsOK'
  BY <1>1, <1>3 DEF TInv, TypeOK, RowsOK, CardsOK, ghosts, Exists
<1> QED  BY <1>4, <1>5 DEF TInv

LEMMA RollbackKeeps ==
    ASSUME TInv, NEW w \in Worker, Rollback(w), UNCHANGED mix
    PROVE  TInv'
BY KeepsStays, DoneKeeps, DoneFacts
   DEF Rollback, TInv, TypeOK, RowsOK, CardsOK, ghosts, Exists
----------------------------------------------------------------------------
(* The requests that read *)

LEMMA CreateSaleT == ASSUME TInv, NEW w \in Worker, CreateSale(w), UNCHANGED mix PROVE TInv'
<1>1. /\ mix \in Mixes /\ cards \in [Card -> GiftCard] /\ points \in [Customer -> Int]
  BY DEF TInv, TypeOK
<1>2. PICK status \in {"PENDING", "PAID"}, c \in mix.customers \cup {None}, price \in Prices,
           before \in PaidBefore, k \in {q \in Card : ValidCard(q)} \cup {None}, qty \in Units :
      \E asked \in 0..(IF c = None \/ forgiven[c] > MaxForgiven THEN 0 ELSE AtLeastZero(points[c])) :
        /\ before <= price
        /\ Cardinality(Standing) + Cardinality(Coming) < mix.most
        /\ Read(w, "create", None,
                [NoJob EXCEPT !.seen = NewSale(status, c, price, before, k, asked, qty)])
  BY DEF CreateSale
<1>3. PICK asked \in 0..(IF c = None \/ forgiven[c] > MaxForgiven THEN 0 ELSE AtLeastZero(points[c])) :
        /\ before <= price
        /\ Cardinality(Standing) + Cardinality(Coming) < mix.most
        /\ Read(w, "create", None,
                [NoJob EXCEPT !.seen = NewSale(status, c, price, before, k, asked, qty)])
  BY <1>2
<1>4. /\ c \in Customer \cup {None} /\ price \in Nat /\ before \in Nat /\ qty \in Nat
      /\ k \in Card \cup {None} /\ (k # None => cards[k].remaining > 0 /\ cards[k].issued)
  BY <1>1, MixTypes DEF ValidCard
<1>5. asked \in Nat
  BY <1>1, <1>4 DEF AtLeastZero
<1>6. PICK row : row = NewSale(status, c, price, before, k, asked, qty)
  OBVIOUS
<1>7. row \in Sale /\ row.kind = "STAFF" /\ row.of = None /\ row.card = k /\ row.total >= 0
  <2>1. before <= price /\ (k # None => cards[k].remaining > 0)
    BY <1>3, <1>4
  <2>2. status \in {"PENDING", "PAID"}
    OBVIOUS
  <2>3. NewRowOK(NewSale(status, c, price, before, k, asked, qty), c, k)
    BY ONLY <1>1, <1>4, <1>5, <2>1, <2>2, NewSaleType, Zenon
  <2> QED  BY <1>6, <2>3 DEF NewRowOK
<1>8. PICK j : j = [NoJob EXCEPT !.seen = row]
  OBVIOUS
<1>9. j \in Job /\ j.seen = row
  BY <1>7, <1>8, NoneTypes DEF NoJob, Job
<1>10. Read(w, "create", None, j)
  BY <1>3, <1>6, <1>8
<1>11. job'[w].op = "create" /\ job'[w].seen = row /\ UNCHANGED cards
  BY <1>9, <1>10, ReadFacts DEF AllOps
<1>12. RowOK(row, cards)
  BY <1>4, <1>7 DEF RowOK
<1>13. JobOK(w)'
  BY <1>7, <1>11, <1>12 DEF JobOK, Working
<1> QED  BY <1>9, <1>10, <1>13, ReadKeeps DEF AllOps

LEMMA RowFacts ==
    ASSUME TInv, NEW s \in SaleId, sales[s] # None
    PROVE  sales[s] \in Sale /\ RowOK(sales[s], cards) /\ SameForGood(sales[s], sales[s]) /\ Exists(s)
BY IdIsNotNone DEF TInv, TypeOK, RowsOK, Exists, SameForGood

LEMMA EditType == ASSUME mix \in Mixes, NEW edit \in Edits PROVE edit \in Edit
BY MixTypes DEF Edits, Edit, Named

LEMMA UpdateSaleT ==
    ASSUME TInv, NEW w \in Worker, NEW s \in SaleId, UpdateSale(w, s), UNCHANGED mix PROVE TInv'
<1>1. PICK edit \in Edits :
        /\ Exists(s) /\ sales[s].kind # "REFUND"
        /\ EditAllowed(sales[s], edit)
        /\ Read(w, "update", s, [NoJob EXCEPT !.seen = sales[s], !.edit = edit])
  BY DEF UpdateSale
<1>2. sales[s] \in Sale /\ RowOK(sales[s], cards) /\ SameForGood(sales[s], sales[s])
  BY <1>1, RowFacts DEF Exists
<1>3. edit \in Edit
  BY EditType DEF TInv, TypeOK
<1>4. PICK j : j = [NoJob EXCEPT !.seen = sales[s], !.edit = edit]
  OBVIOUS
<1>5. j \in Job /\ j.seen = sales[s] /\ j.edit = edit
  BY <1>2, <1>3, <1>4, NoneTypes DEF NoJob, Job
<1>6. Read(w, "update", s, j)
  BY <1>1, <1>4
<1>7. job'[w].op = "update" /\ job'[w].seen = sales[s] /\ job'[w].edit = edit /\ job'[w].sale = s
      /\ UNCHANGED <<sales, cards>>
  BY <1>5, <1>6, ReadFacts DEF AllOps
<1>8. JobOK(w)'
  BY <1>1, <1>2, <1>7, IdIsNotNone DEF JobOK, Working, Exists
<1> QED  BY <1>5, <1>6, <1>8, ReadKeeps DEF AllOps

LEMMA DeleteSaleT ==
    ASSUME TInv, NEW w \in Worker, NEW s \in SaleId, DeleteSale(w, s), UNCHANGED mix PROVE TInv'
<1>1. /\ Exists(s) /\ sales[s].kind # "REFUND"
      /\ Read(w, "delete", s, [NoJob EXCEPT !.seen = sales[s]])
  BY DEF DeleteSale
<1>2. sales[s] \in Sale /\ RowOK(sales[s], cards) /\ SameForGood(sales[s], sales[s])
  BY <1>1, RowFacts DEF Exists
<1>4. PICK j : j = [NoJob EXCEPT !.seen = sales[s]]
  OBVIOUS
<1>5. j \in Job /\ j.seen = sales[s]
  BY <1>2, <1>4, NoneTypes DEF NoJob, Job
<1>6. Read(w, "delete", s, j)
  BY <1>1, <1>4
<1>7. job'[w].op = "delete" /\ job'[w].seen = sales[s] /\ job'[w].sale = s /\ UNCHANGED <<sales, cards>>
  BY <1>5, <1>6, ReadFacts DEF AllOps
<1>8. JobOK(w)'
  BY <1>1, <1>2, <1>7, IdIsNotNone DEF JobOK, Working, Exists
<1> QED  BY <1>5, <1>6, <1>8, ReadKeeps DEF AllOps

LEMMA RefundIssuedRemainderT ==
    ASSUME TInv, NEW w \in Worker, NEW k \in Card, RefundIssuedRemainder(w, k), UNCHANGED mix PROVE TInv'
<1> DEFINE s == cards[k].sale
<1>1. /\ Exists(s) /\ cards[k].remaining > 0
      /\ Read(w, "refund", s,
              [NoJob EXCEPT !.seen = sales[s], !.card = k, !.amount = cards[k].remaining])
  BY DEF RefundIssuedRemainder
<1>2. s \in SaleId /\ s # None /\ cards[k].remaining \in Int
  BY <1>1 DEF TInv, TypeOK, GiftCard, Exists
<1>3. sales[s] \in Sale /\ RowOK(sales[s], cards) /\ SameForGood(sales[s], sales[s])
  BY <1>1, <1>2, RowFacts DEF Exists
<1>4. cards[k].issued /\ sales[s].kind = "GIFT_CARD" /\ k # None
  BY <1>2, ReferrerAssumption DEF TInv, CardsOK, TypeOK, GiftCard
<1>5. PICK j : j = [NoJob EXCEPT !.seen = sales[s], !.card = k, !.amount = cards[k].remaining]
  OBVIOUS
<1>6. j \in Job /\ j.seen = sales[s] /\ j.card = k /\ j.amount = cards[k].remaining
  BY <1>2, <1>3, <1>5, NoneTypes DEF NoJob, Job
<1>7. Read(w, "refund", s, j)
  BY <1>1, <1>5
<1>8. job'[w].op = "refund" /\ job'[w].seen = sales[s] /\ job'[w].sale = s /\ job'[w].card = k
      /\ job'[w].amount = cards[k].remaining /\ UNCHANGED <<sales, cards>>
  BY <1>2, <1>6, <1>7, ReadFacts DEF AllOps
<1> HIDE DEF s
<1>9. JobOK(w)'
  BY <1>1, <1>2, <1>3, <1>4, <1>8 DEF JobOK, Working, Exists
<1> QED  BY <1>2, <1>6, <1>7, <1>9, ReadKeeps DEF AllOps

LEMMA AdjustInventoryT ==
    ASSUME TInv, NEW w \in Worker, AdjustInventory(w), UNCHANGED mix PROVE TInv'
<1>1. PICK change \in {-1, 1} \cup {counted - stock : counted \in 0..1} :
        Read(w, "stock", None, [NoJob EXCEPT !.amount = change])
  BY DEF AdjustInventory
<1>2. change \in Int
  BY DEF TInv, TypeOK
<1>3. PICK j : j = [NoJob EXCEPT !.amount = change]
  OBVIOUS
<1>4. j \in Job
  BY <1>2, <1>3, NoneTypes DEF NoJob, Job
<1>5. Read(w, "stock", None, j)
  BY <1>1, <1>3
<1>6. job'[w].op = "stock"
  BY <1>4, <1>5, ReadFacts DEF AllOps
<1>7. JobOK(w)'
  BY <1>6 DEF JobOK, Working
<1> QED  BY <1>4, <1>5, <1>7, ReadKeeps DEF AllOps

LEMMA DeleteLooksT ==
    ASSUME TInv, NEW w \in Worker, DeleteLooks(w), UNCHANGED mix PROVE TInv'
<1> DEFINE s == job[w].sale
<1>1. /\ job[w].op = "delete"
      /\ job' = [job EXCEPT ![w].op = "deleting", ![w].reopen = CompletedBy(s),
                            ![w].amount = MovementsOf(s)]
      /\ UNCHANGED <<sales, points, cards, referral, stock, ghosts>>
  BY DEF DeleteLooks
<1>2. job[w] \in Job /\ JobOK(w) /\ job \in [Worker -> Job] /\ sales \in [SaleId -> Sale \cup {None}]
  BY DEF TInv, JobsOK, TypeOK
<1>3. CompletedBy(s) \subseteq Customer /\ MovementsOf(s) \in Int
  BY <1>2 DEF CompletedBy, MovementsOf, Exists, Job, Sale
<1> HIDE DEF s
<1>4. /\ job' \in [Worker -> Job] /\ \A v \in Worker : v # w => job'[v] = job[v]
      /\ job'[w].op = "deleting" /\ job'[w].sale = job[w].sale /\ job'[w].seen = job[w].seen
  BY <1>1, <1>2, <1>3 DEF Job
<1>5. Keeps
  BY <1>1, KeepsStays
<1>6. JobOK(w)'
  BY <1>1, <1>2, <1>4 DEF JobOK, Working, Exists
<1>7. JobsOK'
  BY <1>4, <1>5, <1>6, JobsKept
<1>8. TypeOK' /\ RowsOK' /\ CardsOK'
  BY <1>1, <1>4 DEF TInv, TypeOK, RowsOK, CardsOK, ghosts, Exists
<1> QED  BY <1>7, <1>8 DEF TInv
----------------------------------------------------------------------------
(* Points *)

LedgerType == [points : [Customer -> Int], forgiven : [Customer -> Nat]]
ReferralType == [Customer -> [sale : SaleId \cup {None}, awarded : Nat]]

(* What a balance is without the points that were forgiven *)
Net(l, c) == l.points[c] - l.forgiven[c]

LEMMA CreditFacts ==
    ASSUME NEW l \in LedgerType, NEW c \in Customer \cup {None}, NEW n \in Int
    PROVE  /\ Credit(l, c, n) \in LedgerType
           /\ \A d \in Customer : Net(Credit(l, c, n), d) = Net(l, d) + (IF d = c THEN n ELSE 0)
<1>1. CASE c = None
  BY <1>1, ReferrerAssumption DEF LedgerType, Net, Credit
<1>2. CASE c # None
  <2>1. PICK r : r = Credit(l, c, n)
    OBVIOUS
  <2>2. r = [l EXCEPT !.points[c] = @ + n]
    BY <1>2, <2>1 DEF Credit
  <2>3. r.points = [l.points EXCEPT ![c] = @ + n] /\ r.forgiven = l.forgiven
        /\ r \in LedgerType
    BY <1>2, <2>2 DEF LedgerType
  <2>4. \A d \in Customer : Net(r, d) = Net(l, d) + (IF d = c THEN n ELSE 0)
    BY <1>2, <2>3 DEF Net, LedgerType
  <2> QED  BY <2>1, <2>3, <2>4
<1> QED  BY <1>1, <1>2

LEMMA AddFacts ==
    ASSUME NEW l \in LedgerType, NEW c \in Customer \cup {None}, NEW n \in Int
    PROVE  /\ AddLoyaltyPoints(l, c, n) \in LedgerType
           /\ \A d \in Customer :
                Net(AddLoyaltyPoints(l, c, n), d) = Net(l, d) + (IF d = c THEN n ELSE 0)
<1>1. CASE c = None \/ n >= 0
  BY <1>1, CreditFacts DEF AddLoyaltyPoints
<1>2. CASE ~ (c = None \/ n >= 0)
  <2>1. PICK r : r = AddLoyaltyPoints(l, c, n)
    OBVIOUS
  <2>2. r = [l EXCEPT !.points[c] = AtLeastZero(@ + n),
                      !.forgiven[c] = @ + AtLeastZero(l.points[c] + n) - (l.points[c] + n)]
    BY <1>2, <2>1 DEF AddLoyaltyPoints
  <2>3. /\ r.points = [l.points EXCEPT ![c] = AtLeastZero(l.points[c] + n)]
        /\ r.forgiven = [l.forgiven EXCEPT ![c] = l.forgiven[c] + AtLeastZero(l.points[c] + n)
                                                   - (l.points[c] + n)]
        /\ DOMAIN r = {"points", "forgiven"}
        /\ r = [points |-> r.points, forgiven |-> r.forgiven]
    BY <1>2, <2>2 DEF LedgerType
  <2>4. PICK m \in Int : m = l.points[c] + n
    BY <1>2 DEF LedgerType
  <2>5. AtLeastZero(m) \in Nat /\ AtLeastZero(m) - m \in Nat
    BY DEF AtLeastZero
  <2>6. c \in Customer /\ l.points \in [Customer -> Int] /\ l.forgiven \in [Customer -> Nat]
    BY <1>2 DEF LedgerType
  <2>7. l.forgiven[c] + AtLeastZero(m) - m \in Nat
    BY <2>5, <2>6
  <2>8. r.points = [l.points EXCEPT ![c] = AtLeastZero(m)]
        /\ r.forgiven = [l.forgiven EXCEPT ![c] = l.forgiven[c] + AtLeastZero(m) - m]
    BY <2>3, <2>4
  <2>9. r.points \in [Customer -> Int] /\ r.forgiven \in [Customer -> Nat]
    BY <2>5, <2>6, <2>7, <2>8
  <2>10. r \in LedgerType
    BY <2>3, <2>9 DEF LedgerType
  <2>11. \A d \in Customer : Net(r, d) = Net(l, d) + (IF d = c THEN n ELSE 0)
    BY <2>4, <2>5, <2>6, <2>8 DEF Net
  <2> QED  BY <2>1, <2>10, <2>11
<1> QED  BY <1>1, <1>2

LEMMA CompleteType ==
    ASSUME NEW l \in LedgerType, NEW refs \in ReferralType, NEW c \in Customer \cup {None},
           NEW money, NEW s \in SaleId
    PROVE  /\ CompleteReferral(refs, c, money, s) \in ReferralType
           /\ PayReferrer(l, refs, c, money) \in LedgerType
<1>1. CompleteReferral(refs, c, money, s) \in ReferralType
  BY ConstTypes DEF CompleteReferral, Completes, ReferralType
<1>2. ASSUME Completes(refs, c, money) PROVE PayReferrer(l, refs, c, money) \in LedgerType
  <2>1. Referrer[c] \in Customer \cup {None}
    BY <1>2, ReferrerAssumption DEF Completes
  <2>2. Bonus \in Int
    BY ConstTypes
  <2>3. Credit(l, Referrer[c], Bonus) \in LedgerType
    BY <2>1, <2>2, CreditFacts, Zenon
  <2> QED  BY <1>2, <2>3 DEF PayReferrer
<1> QED  BY <1>1, <1>2 DEF PayReferrer

LEMMA RevertType ==
    ASSUME NEW l \in LedgerType, NEW refs \in ReferralType, NEW R \in SUBSET Customer, NEW s
    PROVE  /\ RevertReferral(refs, R, s) \in ReferralType
           /\ TakeBonus(l, refs, R, s) \in LedgerType
<1>1. RevertReferral(refs, R, s) \in ReferralType
  BY DEF RevertReferral, ReferralType, Open
<1>2. ASSUME \E c \in R : refs[c].sale = s PROVE TakeBonus(l, refs, R, s) \in LedgerType
  <2>1. PICK c : c = CHOOSE d \in R : refs[d].sale = s
    OBVIOUS
  <2>2. c \in Customer
    BY <1>2, <2>1
  <2>3. Referrer[c] \in Customer \cup {None} /\ - refs[c].awarded \in Int
    BY <2>2, ReferrerAssumption DEF ReferralType
  <2>4. AddLoyaltyPoints(l, Referrer[c], - refs[c].awarded) \in LedgerType
    BY <2>3, AddFacts
  <2> QED  BY <1>2, <2>1, <2>4 DEF TakeBonus
<1> QED  BY <1>1, <1>2 DEF TakeBonus

LEMMA LedgerFacts ==
    ASSUME TInv PROVE Ledger \in LedgerType /\ referral \in ReferralType
BY DEF TInv, TypeOK, Ledger, LedgerType, ReferralType

LEMMA SetFacts ==
    ASSUME NEW l \in LedgerType, SetPoints(l)
    PROVE  points' \in [Customer -> Int] /\ forgiven' \in [Customer -> Nat]
BY DEF LedgerType, SetPoints
----------------------------------------------------------------------------
(* The requests that commit *)

LEMMA JobFacts ==
    ASSUME TInv, NEW w \in Worker
    PROVE  /\ job[w] \in Job /\ JobOK(w) /\ job[w].seen \in Sale /\ job[w].edit \in Edit
           /\ job[w].sale \in SaleId \cup {None} /\ job[w].card \in Card \cup {None}
           /\ job[w].amount \in Int /\ job[w].reopen \subseteq Customer
BY DEF TInv, TypeOK, JobsOK, Job

(* What a new sale does to the rows and to the card it uses *)
LEMMA CreateFacts ==
    ASSUME TInv, NEW w \in Worker, NEW s \in SaleId, CreateCommit(w, s)
    PROVE  LET row == job[w].seen
           IN  /\ job[w].op = "create" /\ Fresh(s) /\ sales[s] = None
               /\ row \in Sale /\ row.kind = "STAFF" /\ RowOK(row, cards)
               /\ sales' \in [SaleId -> Sale \cup {None}] /\ sales'[s] = row
               /\ \A t \in SaleId : t # s => sales'[t] = sales[t]
               /\ cards' \in [Card -> GiftCard]
               /\ \A k \in Card : cards'[k].issued = cards[k].issued /\ cards'[k].sale = cards[k].sale
                                  /\ cards'[k].active = cards[k].active
               /\ \A k \in Card : cards'[k].remaining =
                     IF row.card = k THEN cards[k].remaining - row.applied ELSE cards[k].remaining
               /\ \A k \in Card : row.card = k => cards[k].remaining >= row.applied
               /\ stock' = stock - row.qty /\ Done(w) /\ UNCHANGED <<withdrawn, manual>>
<1> DEFINE row == job[w].seen
<1>1. /\ job[w].op = "create" /\ Fresh(s) /\ StillCovered(row)
      /\ sales' = [sales EXCEPT ![s] = row]
      /\ cards' = IF row.card = None THEN cards
                  ELSE [cards EXCEPT ![row.card].remaining = @ - row.applied]
      /\ stock' = stock - row.qty /\ Done(w) /\ UNCHANGED <<withdrawn, manual>>
  BY DEF CreateCommit
<1>2. /\ row \in Sale /\ row.kind = "STAFF" /\ RowOK(row, cards)
      /\ row.card \in Card \cup {None} /\ row.applied \in Nat
  BY <1>1, JobFacts DEF JobOK, Sale
<1>3. sales \in [SaleId -> Sale \cup {None}] /\ cards \in [Card -> GiftCard]
  BY DEF TInv, TypeOK
<1> HIDE DEF row
<1>4. /\ cards' \in [Card -> GiftCard]
      /\ \A k \in Card : cards'[k].issued = cards[k].issued /\ cards'[k].sale = cards[k].sale
                         /\ cards'[k].active = cards[k].active
      /\ \A k \in Card : cards'[k].remaining = IF row.card = k THEN cards[k].remaining - row.applied
                                               ELSE cards[k].remaining
      /\ \A k \in Card : row.card = k => cards[k].remaining >= row.applied
  BY <1>1, <1>3, ReferrerAssumption, <1>2 DEF StillCovered, GiftCard
<1>5. /\ sales' \in [SaleId -> Sale \cup {None}] /\ sales'[s] = row
      /\ \A t \in SaleId : t # s => sales'[t] = sales[t]
      /\ sales[s] = None
  BY <1>1, <1>2, <1>3 DEF Fresh
<1> QED  BY <1>1, <1>2, <1>4, <1>5 DEF row

LEMMA CreateCommitT ==
    ASSUME TInv, NEW w \in Worker, NEW s \in SaleId, CreateCommit(w, s), UNCHANGED mix PROVE TInv'
<1> DEFINE row == job[w].seen
           money == MoneyBase(row.total, row.before)
           spent == Credit(Ledger, row.customer, row.earned - row.redeemed)
<1>1. IF row.status = "PAID"
      THEN /\ referral' = CompleteReferral(referral, row.customer, money, s)
           /\ SetPoints(PayReferrer(spent, referral, row.customer, money))
      ELSE SetPoints(spent) /\ UNCHANGED referral
  BY DEF CreateCommit
<1>2. /\ job[w].op = "create" /\ Fresh(s) /\ sales[s] = None
      /\ row \in Sale /\ row.kind = "STAFF" /\ RowOK(row, cards)
      /\ sales' \in [SaleId -> Sale \cup {None}] /\ sales'[s] = row
      /\ \A t \in SaleId : t # s => sales'[t] = sales[t]
      /\ cards' \in [Card -> GiftCard]
      /\ \A k \in Card : cards'[k].issued = cards[k].issued /\ cards'[k].sale = cards[k].sale
                         /\ cards'[k].active = cards[k].active
      /\ \A k \in Card : cards'[k].remaining =
            IF row.card = k THEN cards[k].remaining - row.applied ELSE cards[k].remaining
      /\ \A k \in Card : row.card = k => cards[k].remaining >= row.applied
      /\ stock' = stock - row.qty /\ Done(w) /\ UNCHANGED <<withdrawn, manual>>
  BY CreateFacts
<1> HIDE DEF row
<1>3. /\ row.applied \in Nat /\ row.customer \in Customer \cup {None}
      /\ row.earned - row.redeemed \in Int /\ row.qty \in Nat
  BY <1>2 DEF Sale
<1>4. spent \in LedgerType
  BY <1>3, LedgerFacts, CreditFacts
<1> HIDE DEF spent, money
<1>5. /\ referral' \in ReferralType /\ points' \in [Customer -> Int] /\ forgiven' \in [Customer -> Nat]
  BY <1>3, <1>4, LedgerFacts, CompleteType, <1>1, SetFacts
<1>8. Keeps
  BY <1>2 DEF Keeps, SameForGood
<1>9. RowsOK'
  BY <1>2, <1>8, RowsKept
<1>10. CardsOK'
  <2>1. CardsOK /\ cards \in [Card -> GiftCard]
    BY DEF TInv, TypeOK
  <2>2. \A k \in Card : cards[k].remaining \in Int
    BY <2>1 DEF GiftCard
  <2>3. ASSUME NEW k \in Card
        PROVE  /\ cards'[k].remaining >= 0
               /\ ~ cards'[k].issued => cards'[k].sale = None /\ withdrawn'[k] = 0
               /\ cards'[k].sale # None =>
                     Exists(cards[k].sale)' /\ sales'[cards'[k].sale].kind = "GIFT_CARD"
    BY <1>2, <1>3, <2>1, <2>2 DEF CardsOK, GiftCard, Exists
  <2>4. \A k, j \in Card : cards'[k].sale # None /\ cards'[k].sale = cards'[j].sale => k = j
    BY <1>2, <2>1 DEF CardsOK
  <2> QED  BY <2>3, <2>4 DEF CardsOK, Exists
<1>11. JobsOK' /\ job' \in [Worker -> Job]
  BY <1>2, <1>8, DoneKeeps, DoneFacts
<1>12. TypeOK'
  BY <1>9, IdIsNotNone, <1>2, <1>3, <1>5, <1>11
     DEF RowsOK, RowOK, Exists, TInv, TypeOK, ReferralType
<1> QED  BY <1>9, <1>10, <1>11, <1>12 DEF TInv

LEMMA SetGiftCardActiveT ==
    ASSUME TInv, NEW k \in Card, SetGiftCardActive(k), UNCHANGED mix PROVE TInv'
<1>1. /\ cards' = [cards EXCEPT ![k].active = ~ @]
      /\ UNCHANGED <<sales, points, referral, stock, job, forgiven, withdrawn, manual>>
  BY DEF SetGiftCardActive, ghosts
<1>2. cards \in [Card -> GiftCard]
  BY DEF TInv, TypeOK
<1>3. /\ cards' \in [Card -> GiftCard]
      /\ \A j \in Card : cards'[j].issued = cards[j].issued /\ cards'[j].sale = cards[j].sale
                         /\ cards'[j].remaining = cards[j].remaining
  BY <1>1, <1>2 DEF GiftCard
<1>4. Keeps
  BY <1>1, <1>3 DEF Keeps, SameForGood
<1>5. RowsOK'
  BY <1>1, <1>4, RowsKept DEF TInv, TypeOK
<1>6. JobsOK'
  BY <1>1, <1>4, JobKept DEF JobsOK
<1>7. CardsOK'
  BY <1>1, <1>3 DEF TInv, CardsOK, Exists
<1>8. TypeOK'
  BY <1>1, <1>3 DEF TInv, TypeOK, Exists
<1> QED  BY <1>5, <1>6, <1>7, <1>8 DEF TInv

(* What a new card does to the rows and to the cards *)
LEMMA GiftCardFacts ==
    ASSUME TInv, NEW k \in Card, NEW s \in SaleId, CreateGiftCard(k, s)
    PROVE  /\ ~ cards[k].issued /\ Fresh(s) /\ sales[s] = None
           /\ sales' \in [SaleId -> Sale \cup {None}] /\ sales'[s] \in Sale
           /\ sales'[s].kind = "GIFT_CARD" /\ sales'[s].card = None /\ sales'[s].of = None
           /\ sales'[s].total = CardValue /\ sales'[s].customer = None /\ sales'[s].earned = 0
           /\ sales'[s].qty = 0
           /\ \A t \in SaleId : t # s => sales'[t] = sales[t]
           /\ cards' \in [Card -> GiftCard] /\ \A j \in Card : j # k => cards'[j] = cards[j]
           /\ cards'[k].issued /\ cards'[k].remaining = CardValue /\ cards'[k].sale = s
           /\ cards'[k].active
           /\ UNCHANGED <<points, referral, stock, job, forgiven, withdrawn, manual>>
<1>1. PICK status \in {"PENDING", "PAID"} :
          sales' = [sales EXCEPT ![s] = [NoSale EXCEPT !.kind = "GIFT_CARD", !.status = status,
                                                       !.total = CardValue]]
  BY DEF CreateGiftCard
<1>2. /\ ~ cards[k].issued /\ Fresh(s)
      /\ cards' = [cards EXCEPT ![k] = [issued |-> TRUE, active |-> TRUE, remaining |-> CardValue,
                                        sale |-> s]]
      /\ UNCHANGED <<points, referral, stock, job, forgiven, withdrawn, manual>>
  BY DEF CreateGiftCard, ghosts
<1>3. sales \in [SaleId -> Sale \cup {None}] /\ cards \in [Card -> GiftCard]
  BY DEF TInv, TypeOK
<1>4. PICK row : row = [NoSale EXCEPT !.kind = "GIFT_CARD", !.status = status, !.total = CardValue]
  OBVIOUS
<1>5. row = [kind |-> "GIFT_CARD", status |-> status, customer |-> None, total |-> CardValue,
             before |-> 0, card |-> None, applied |-> 0, redeemed |-> 0, discount |-> 0,
             earned |-> 0, qty |-> 0, of |-> None]
  BY <1>4 DEF NoSale
<1>6. CardValue \in Int
  BY ConstTypes
<1>7. row \in Sale
  BY <1>5, <1>6 DEF Sale
<1>8. /\ sales' \in [SaleId -> Sale \cup {None}] /\ sales'[s] = row
      /\ \A t \in SaleId : t # s => sales'[t] = sales[t]
      /\ sales[s] = None
  BY <1>1, <1>2, <1>3, <1>4, <1>7 DEF Fresh
<1>9. /\ cards' \in [Card -> GiftCard] /\ \A j \in Card : j # k => cards'[j] = cards[j]
      /\ cards'[k].issued /\ cards'[k].remaining = CardValue /\ cards'[k].sale = s
      /\ cards'[k].active
  BY <1>2, <1>3, <1>6 DEF GiftCard
<1> QED  BY <1>2, <1>5, <1>7, <1>8, <1>9

LEMMA CreateGiftCardT ==
    ASSUME TInv, NEW k \in Card, NEW s \in SaleId, CreateGiftCard(k, s), UNCHANGED mix PROVE TInv'
<1>1. /\ ~ cards[k].issued /\ Fresh(s) /\ sales[s] = None
      /\ sales' \in [SaleId -> Sale \cup {None}] /\ sales'[s] \in Sale
      /\ sales'[s].kind = "GIFT_CARD" /\ sales'[s].card = None /\ sales'[s].of = None
      /\ sales'[s].total = CardValue
      /\ \A t \in SaleId : t # s => sales'[t] = sales[t]
      /\ cards' \in [Card -> GiftCard] /\ \A j \in Card : j # k => cards'[j] = cards[j]
      /\ cards'[k].issued /\ cards'[k].remaining = CardValue /\ cards'[k].sale = s
      /\ UNCHANGED <<points, referral, stock, job, forgiven, withdrawn, manual>>
  BY GiftCardFacts
<1>2. Keeps
  BY <1>1 DEF Keeps, SameForGood
<1>3. RowsOK'
  BY <1>1, ConstTypes, <1>2, RowsKept DEF RowOK
<1>4. CardsOK'
  <2>1. CardsOK /\ cards \in [Card -> GiftCard]
    BY DEF TInv, TypeOK
  <2>2. \A j \in Card : cards[j].sale # s
    BY <1>1, <2>1, IdIsNotNone DEF CardsOK, Exists
  <2>3. sales'[s] # None
    BY <1>1, RowIsRow
  <2>4. \A j \in Card :
          /\ cards'[j].remaining >= 0
          /\ ~ cards'[j].issued => cards'[j].sale = None /\ withdrawn'[j] = 0
          /\ cards'[j].sale # None =>
               sales'[cards'[j].sale] # None /\ sales'[cards'[j].sale].kind = "GIFT_CARD"
    <3> SUFFICES ASSUME NEW j \in Card
                 PROVE  /\ cards'[j].remaining >= 0
                        /\ ~ cards'[j].issued => cards'[j].sale = None /\ withdrawn'[j] = 0
                        /\ cards'[j].sale # None =>
                             sales'[cards'[j].sale] # None /\ sales'[cards'[j].sale].kind = "GIFT_CARD"
      OBVIOUS
    <3>1. CASE j = k
      BY <1>1, <2>3, <3>1, ConstTypes
    <3>2. CASE j # k
      BY <1>1, <2>1, <2>2, <3>2 DEF GiftCard, CardsOK, Exists
    <3> QED  BY <3>1, <3>2
  <2>5. \A i, j \in Card : cards'[i].sale # None /\ cards'[i].sale = cards'[j].sale => i = j
    BY <1>1, <2>1, <2>2 DEF CardsOK
  <2> QED  BY <2>4, <2>5 DEF CardsOK, Exists
<1>5. JobsOK'
  BY <1>1, <1>2, JobKept DEF JobsOK
<1>6. TypeOK'
  BY <1>3, IdIsNotNone, <1>1 DEF RowsOK, RowOK, Exists, TInv, TypeOK
<1> QED  BY <1>3, <1>4, <1>5, <1>6 DEF TInv

LEMMA AdjustCommitT ==
    ASSUME TInv, NEW w \in Worker, AdjustCommit(w), UNCHANGED mix PROVE TInv'
<1>1. /\ stock' = stock + job[w].amount /\ manual' = manual + job[w].amount /\ Done(w)
      /\ UNCHANGED <<sales, points, cards, referral, forgiven, withdrawn>>
  BY DEF AdjustCommit
<1>2. Keeps
  BY <1>1, KeepsStays
<1>3. JobsOK' /\ job' \in [Worker -> Job]
  BY <1>1, <1>2, DoneKeeps, DoneFacts
<1>4. job[w].amount \in Int
  BY JobFacts
<1>5. TypeOK' /\ RowsOK' /\ CardsOK'
  BY <1>1, <1>3, <1>4 DEF TInv, TypeOK, RowsOK, CardsOK, Exists
<1> QED  BY <1>3, <1>5 DEF TInv
----------------------------------------------------------------------------
(* updateSale *)

NetTotal(old, edit) == IF edit.total = None THEN None ELSE edit.total - AppliedTo(old)
EarnedNow(old, edit) ==
    LoyaltyEarnedFor(Merge(old.status, edit.status),
                     MoneyBase(Merge(old.total, NetTotal(old, edit)), old.before),
                     Merge(old.customer, edit.customer))

(* The row an edit leaves, when the request had read `old` *)
EditedRow(row, old, edit) ==
    [row EXCEPT !.customer = Merge(@, edit.customer), !.status = Merge(@, edit.status),
                !.total = Merge(@, NetTotal(old, edit)), !.qty = Merge(@, edit.qty),
                !.earned = EarnedNow(old, edit)]

LEMMA EditedType ==
    ASSUME NEW row \in Sale, NEW old \in Sale, NEW edit \in Edit, EditAllowed(old, edit),
           row.kind # "REFUND", row.total >= 0
    PROVE  LET r == EditedRow(row, old, edit)
           IN  /\ r \in Sale /\ r.total >= 0 /\ SameForGood(row, r)
               /\ r.customer = Merge(row.customer, edit.customer)
               /\ r.status = Merge(row.status, edit.status)
               /\ r.total = Merge(row.total, NetTotal(old, edit))
               /\ r.qty = Merge(row.qty, edit.qty) /\ r.earned = EarnedNow(old, edit)
<1>1. /\ Merge(row.customer, edit.customer) \in Customer \cup {None}
      /\ Merge(row.status, edit.status) \in {"PENDING", "PAID"}
      /\ Merge(row.qty, edit.qty) \in Nat
  BY DEF Sale, Edit, Merge
<1>2. edit.total # None => NetTotal(old, edit) \in Nat
  BY DEF EditAllowed, NetTotal, AppliedTo, Sale, Edit
<1>3. edit.total = None => NetTotal(old, edit) = None
  BY DEF NetTotal
<1>4. row.total \in Nat /\ old.total \in Int /\ old.before \in Nat
  BY DEF Sale
<1>5. Merge(row.total, NetTotal(old, edit)) \in Nat /\ Merge(old.total, NetTotal(old, edit)) \in Int
  BY <1>2, <1>3, <1>4 DEF Merge
<1>6. EarnedNow(old, edit) \in Nat
  BY <1>4, <1>5, EarnedType DEF EarnedNow
<1> DEFINE r == EditedRow(row, old, edit)
<1>7. r = [row EXCEPT !.customer = Merge(row.customer, edit.customer),
                      !.status = Merge(row.status, edit.status),
                      !.total = Merge(row.total, NetTotal(old, edit)),
                      !.qty = Merge(row.qty, edit.qty), !.earned = EarnedNow(old, edit)]
  BY DEF EditedRow
<1> HIDE DEF r
<1>8. /\ r.kind = row.kind /\ r.before = row.before /\ r.card = row.card /\ r.applied = row.applied
      /\ r.redeemed = row.redeemed /\ r.discount = row.discount /\ r.of = row.of
      /\ r.customer = Merge(row.customer, edit.customer)
      /\ r.status = Merge(row.status, edit.status)
      /\ r.total = Merge(row.total, NetTotal(old, edit))
      /\ r.qty = Merge(row.qty, edit.qty) /\ r.earned = EarnedNow(old, edit)
  BY <1>7 DEF Sale
<1>9. r \in Sale
  <2>1. PICK customer \in Customer \cup {None}, status \in {"PENDING", "PAID"}, total \in Int,
             qty \in Nat, earned \in Nat :
          /\ customer = Merge(row.customer, edit.customer) /\ status = Merge(row.status, edit.status)
          /\ total = Merge(row.total, NetTotal(old, edit)) /\ qty = Merge(row.qty, edit.qty)
          /\ earned = EarnedNow(old, edit)
    BY <1>1, <1>5, <1>6
  <2>2. r = [row EXCEPT !.customer = customer, !.status = status, !.total = total, !.qty = qty,
                        !.earned = earned]
    BY <1>7, <2>1
  <2> QED  BY <2>2 DEF Sale
<1>10. r.total >= 0 /\ SameForGood(row, r)
  BY <1>5, <1>8 DEF SameForGood
<1> QED  BY <1>8, <1>9, <1>10 DEF r

(* What an edit does to the rows *)
LEMMA UpdateFacts ==
    ASSUME TInv, NEW w \in Worker, UpdateCommit(w)
    PROVE  LET s == job[w].sale
               r == EditedRow(sales[s], job[w].seen, job[w].edit)
           IN  /\ job[w].op = "update" /\ s \in SaleId /\ sales[s] # None /\ sales[s] \in Sale
               /\ sales[s].kind # "REFUND" /\ SameForGood(job[w].seen, sales[s])
               /\ EditAllowed(job[w].seen, job[w].edit)
               /\ sales' \in [SaleId -> Sale \cup {None}] /\ sales'[s] = r /\ r \in Sale
               /\ \A t \in SaleId : t # s => sales'[t] = sales[t]
               /\ r.total >= 0 /\ SameForGood(sales[s], r)
               /\ r.customer = Merge(sales[s].customer, job[w].edit.customer)
               /\ r.status = Merge(sales[s].status, job[w].edit.status)
               /\ r.total = Merge(sales[s].total, NetTotal(job[w].seen, job[w].edit))
               /\ r.qty = Merge(sales[s].qty, job[w].edit.qty)
               /\ r.earned = EarnedNow(job[w].seen, job[w].edit)
               /\ stock' = stock + sales[s].qty - Merge(sales[s].qty, job[w].edit.qty)
               /\ Done(w) /\ UNCHANGED <<cards, withdrawn, manual>>
<1> DEFINE s == job[w].sale
           old == job[w].seen
           edit == job[w].edit
           r == EditedRow(sales[s], old, edit)
<1>1. /\ job[w].op = "update" /\ Exists(s) /\ Done(w) /\ UNCHANGED <<cards, withdrawn, manual>>
      /\ stock' = stock + sales[s].qty - Merge(sales[s].qty, edit.qty)
  BY DEF UpdateCommit
<1>2. sales' = [sales EXCEPT ![s] = r]
  BY DEF UpdateCommit, NetTotal, EarnedNow, EditedRow
<1>3. /\ JobOK(w) /\ old \in Sale /\ edit \in Edit /\ s \in SaleId \cup {None}
      /\ sales \in [SaleId -> Sale \cup {None}]
  BY JobFacts DEF TInv, TypeOK
<1>4. s \in SaleId /\ sales[s] # None
  BY <1>1, <1>3 DEF Exists
<1>5. sales[s] \in Sale /\ RowOK(sales[s], cards)
  BY <1>4, RowFacts
<1>6. SameForGood(old, sales[s]) /\ old.kind # "REFUND" /\ EditAllowed(old, edit)
  BY <1>1, <1>3 DEF JobOK, Working
<1>7. sales[s].kind # "REFUND" /\ sales[s].total >= 0
  BY <1>5, <1>6 DEF SameForGood, RowOK
<1>8. /\ r \in Sale /\ r.total >= 0 /\ SameForGood(sales[s], r)
      /\ r.customer = Merge(sales[s].customer, edit.customer)
      /\ r.status = Merge(sales[s].status, edit.status)
      /\ r.total = Merge(sales[s].total, NetTotal(old, edit))
      /\ r.qty = Merge(sales[s].qty, edit.qty) /\ r.earned = EarnedNow(old, edit)
  BY ONLY <1>3, <1>5, <1>6, <1>7, EditedType, ZenonT(60)
<1> HIDE DEF r
<1>9. /\ sales' \in [SaleId -> Sale \cup {None}] /\ sales'[s] = r
      /\ \A t \in SaleId : t # s => sales'[t] = sales[t]
  BY <1>2, <1>3, <1>4, <1>8
<1> QED  BY <1>1, <1>4, <1>5, <1>6, <1>7, <1>8, <1>9 DEF r

LEMMA UpdateCommitT ==
    ASSUME TInv, NEW w \in Worker, UpdateCommit(w), UNCHANGED mix PROVE TInv'
<1> DEFINE s == job[w].sale
           old == job[w].seen
           edit == job[w].edit
           customer == Merge(old.customer, edit.customer)
           status == Merge(old.status, edit.status)
           moved == customer # old.customer
           money == MoneyBase(Merge(old.total, NetTotal(old, edit)), old.before)
           earned == EarnedNow(old, edit)
           given == IF moved
                    THEN AddLoyaltyPoints(AddLoyaltyPoints(Ledger, old.customer, - old.earned), customer, earned)
                    ELSE AddLoyaltyPoints(Ledger, customer, earned - old.earned)
           reverts == old.status = "PAID" /\ (status # "PAID" \/ moved)
           refs == IF reverts THEN RevertReferral(referral, Customer, s) ELSE referral
           taken == IF reverts THEN TakeBonus(given, referral, Customer, s) ELSE given
           completes == status = "PAID" /\ (old.status # "PAID" \/ moved)
<1>1. /\ referral' = (IF completes THEN CompleteReferral(refs, customer, money, s) ELSE refs)
      /\ SetPoints(IF completes THEN PayReferrer(taken, refs, customer, money) ELSE taken)
  BY DEF UpdateCommit, NetTotal, EarnedNow
<1>2. /\ s \in SaleId /\ sales[s] # None
      /\ sales' \in [SaleId -> Sale \cup {None}] /\ sales'[s] \in Sale /\ sales'[s].total >= 0
      /\ \A t \in SaleId : t # s => sales'[t] = sales[t]
      /\ SameForGood(sales[s], sales'[s])
      /\ sales'[s].earned = earned /\ Done(w) /\ UNCHANGED <<cards, withdrawn, manual>>
      /\ stock' = stock + sales[s].qty - Merge(sales[s].qty, edit.qty)
      /\ sales[s] \in Sale /\ sales[s].kind # "REFUND"
  BY UpdateFacts
<1>3. old \in Sale /\ edit \in Edit
  BY JobFacts
<1>4. /\ customer \in Customer \cup {None} /\ old.customer \in Customer \cup {None}
      /\ earned \in Nat /\ old.earned \in Nat
  BY <1>2, <1>3 DEF Sale, Edit, Merge
<1> HIDE DEF s, old, edit, customer, earned, status, money
<1>5. given \in LedgerType
  <2>1. AddLoyaltyPoints(Ledger, old.customer, - old.earned) \in LedgerType
    BY <1>4, LedgerFacts, AddFacts
  <2>2. AddLoyaltyPoints(Ledger, customer, earned - old.earned) \in LedgerType
    BY <1>4, LedgerFacts, AddFacts
  <2>3. AddLoyaltyPoints(AddLoyaltyPoints(Ledger, old.customer, - old.earned), customer, earned)
          \in LedgerType
    BY <1>4, <2>1, AddFacts
  <2> QED  BY <2>2, <2>3
<1> HIDE DEF given
<1>6. refs \in ReferralType /\ taken \in LedgerType
  BY <1>5, LedgerFacts, RevertType
<1> HIDE DEF refs, taken
<1>7. referral' \in ReferralType /\ points' \in [Customer -> Int] /\ forgiven' \in [Customer -> Nat]
  BY <1>2, <1>4, <1>6, CompleteType, <1>1, SetFacts
<1>8. Keeps
  BY <1>2, IdIsNotNone DEF Keeps, SameForGood
<1>9. RowsOK'
  BY <1>2, RowFacts, <1>8, RowsKept DEF RowOK, SameForGood
<1>10. CardsOK'
  BY <1>2, RowIsRow DEF TInv, TypeOK, CardsOK, Exists, SameForGood, GiftCard
<1>11. JobsOK' /\ job' \in [Worker -> Job]
  BY <1>2, <1>8, DoneKeeps, DoneFacts
<1>12. TypeOK'
  BY <1>9, IdIsNotNone, <1>2, <1>3, <1>7, <1>11
     DEF RowsOK, RowOK, Exists, Merge, Sale, Edit, TInv, TypeOK, ReferralType
<1> QED  BY <1>9, <1>10, <1>11, <1>12 DEF TInv
----------------------------------------------------------------------------
(* deleteSale and refundIssuedRemainder *)

LEMMA CancelledFacts ==
    ASSUME NEW card \in GiftCard, NEW c, c = CancelledWithSale(card)
    PROVE  /\ c \in GiftCard /\ c.issued = card.issued /\ c.sale = None
           /\ card.active => c.remaining = 0 /\ ~ c.active
           /\ ~ card.active => c.remaining = card.remaining /\ c.active = card.active
<1>1. CASE card.active
  <2>1. c = [card EXCEPT !.active = FALSE, !.remaining = 0, !.sale = None]
    BY <1>1 DEF CancelledWithSale
  <2>5. c \in GiftCard
    <3>1. \A no \in BOOLEAN, n \in Int :
             [card EXCEPT !.active = no, !.remaining = n, !.sale = None] \in GiftCard
      BY DEF GiftCard
    <3>2. 0 \in Int /\ FALSE \in BOOLEAN
      OBVIOUS
    <3> QED  BY <2>1, <3>1, <3>2, Zenon
  <2>6. c.issued = card.issued /\ c.sale = None /\ c.remaining = 0
    BY <2>1 DEF GiftCard
  <2>7. ~ c.active
    BY <2>1 DEF GiftCard
  <2> QED  BY <1>1, <2>5, <2>6, <2>7
<1>2. CASE ~ card.active
  BY <1>2 DEF CancelledWithSale, GiftCard
<1> QED  BY <1>1, <1>2

LEMMA ToppedUpFacts ==
    ASSUME NEW card \in GiftCard, NEW n \in Nat, NEW c, c = [card EXCEPT !.remaining = @ + n]
    PROVE  /\ c \in GiftCard /\ c.issued = card.issued /\ c.sale = card.sale
           /\ c.active = card.active /\ c.remaining = card.remaining + n
BY DEF GiftCard

(* What a deletion does to the rows and to the cards *)
LEMMA DeleteFacts ==
    ASSUME TInv, NEW w \in Worker, DeleteCommit(w)
    PROVE  LET s == job[w].sale
               old == job[w].seen
           IN  /\ job[w].op = "deleting" /\ s \in SaleId /\ sales[s] # None /\ Exists(s)
               /\ sales[s] \in Sale /\ sales[s].kind # "REFUND" /\ SameForGood(old, sales[s])
               /\ old \in Sale /\ CardsUnused(s)
               /\ sales' \in [SaleId -> Sale \cup {None}] /\ sales'[s] = None
               /\ \A t \in SaleId : t # s => sales'[t] = sales[t]
               /\ cards' \in [Card -> GiftCard]
               /\ \A k \in Card : cards'[k].issued = cards[k].issued
               /\ \A k \in Card : k \in IssuedBy(s) => cards'[k].sale = None
               /\ \A k \in Card : k \in IssuedBy(s) /\ cards[k].active =>
                     /\ cards'[k].remaining = 0 /\ ~ cards'[k].active
                     /\ withdrawn'[k] = withdrawn[k] + cards[k].remaining
               /\ \A k \in Card : k \in IssuedBy(s) /\ ~ cards[k].active =>
                     /\ cards'[k].remaining = cards[k].remaining /\ cards'[k].active = cards[k].active
                     /\ withdrawn'[k] = withdrawn[k]
               /\ \A k \in Card : k \notin IssuedBy(s) =>
                     /\ cards'[k].sale = cards[k].sale /\ cards'[k].active = cards[k].active
                     /\ cards'[k].remaining = cards[k].remaining
                                                + (IF sales[s].card = k THEN sales[s].applied ELSE 0)
                     /\ withdrawn'[k] = withdrawn[k]
               /\ withdrawn' \in [Card -> Nat]
               /\ \A k \in Card : k \in IssuedBy(s) => sales[s].card # k
               /\ Done(w) /\ UNCHANGED manual /\ stock' = stock + job[w].amount
<1> DEFINE s == job[w].sale
           old == job[w].seen
<1>1. /\ job[w].op = "deleting" /\ Exists(s) /\ CardsUnused(s)
      /\ cards' = [k \in Card |-> AfterDelete(k, s, old)]
      /\ withdrawn' = [k \in Card |-> IF k \in IssuedBy(s) /\ cards[k].active
                                      THEN withdrawn[k] + cards[k].remaining ELSE withdrawn[k]]
      /\ stock' = stock + job[w].amount
      /\ sales' = [sales EXCEPT ![s] = None]
      /\ Done(w) /\ UNCHANGED manual
  BY DEF DeleteCommit
<1>2. /\ JobOK(w) /\ old \in Sale /\ s \in SaleId \cup {None}
      /\ sales \in [SaleId -> Sale \cup {None}] /\ cards \in [Card -> GiftCard]
      /\ withdrawn \in [Card -> Nat] /\ CardsOK
  BY JobFacts DEF TInv, TypeOK
<1>3. s \in SaleId /\ sales[s] # None
  BY <1>1, <1>2 DEF Exists
<1>4. /\ sales[s] \in Sale /\ SameForGood(old, sales[s]) /\ old.kind # "REFUND" /\ sales[s].kind # "REFUND"
      /\ RowOK(sales[s], cards)
  BY <1>1, <1>2, <1>3, RowFacts DEF JobOK, Working, SameForGood
<1> HIDE DEF s, old
<1>5. /\ sales' \in [SaleId -> Sale \cup {None}] /\ sales'[s] = None
      /\ \A t \in SaleId : t # s => sales'[t] = sales[t]
  BY <1>1, <1>2, <1>3
<1>6. \A k \in Card : k \in IssuedBy(s) => sales[s].kind = "GIFT_CARD" /\ sales[s].card # k
  <2> SUFFICES ASSUME NEW k \in Card, k \in IssuedBy(s)
               PROVE  sales[s].kind = "GIFT_CARD" /\ sales[s].card # k
    OBVIOUS
  <2>1. cards[k].sale = s
    BY DEF IssuedBy
  <2>2. sales[s].kind = "GIFT_CARD"
    BY <1>2, <1>3, <2>1, IdIsNotNone DEF CardsOK
  <2> QED  BY <1>4, <2>2, ReferrerAssumption DEF RowOK
<1>7. \A k \in Card :
          /\ cards[k] \in GiftCard /\ cards[k].remaining \in Int /\ cards[k].remaining >= 0
          /\ withdrawn[k] \in Nat
  BY <1>2 DEF CardsOK, GiftCard
<1>8. old.applied = sales[s].applied /\ old.card = sales[s].card /\ old.applied \in Nat
  BY <1>2, <1>4 DEF SameForGood, Sale
<1>9. \A k \in Card : k \in IssuedBy(s) => cards'[k] = CancelledWithSale(cards[k])
  BY <1>1 DEF AfterDelete
<1>10. \A k \in Card : k \notin IssuedBy(s) =>
          cards'[k] = IF old.card = k THEN [cards[k] EXCEPT !.remaining = @ + old.applied] ELSE cards[k]
  BY <1>1 DEF AfterDelete
<1>11. \A k \in Card :
          /\ k \in IssuedBy(s) /\ cards[k].active => withdrawn'[k] = withdrawn[k] + cards[k].remaining
          /\ ~ (k \in IssuedBy(s) /\ cards[k].active) => withdrawn'[k] = withdrawn[k]
  BY <1>1
<1>12. \A k \in Card : k \in IssuedBy(s) =>
          /\ cards'[k] \in GiftCard /\ cards'[k].issued = cards[k].issued /\ cards'[k].sale = None
          /\ cards[k].active => cards'[k].remaining = 0 /\ ~ cards'[k].active
          /\ ~ cards[k].active =>
               cards'[k].remaining = cards[k].remaining /\ cards'[k].active = cards[k].active
  BY <1>7, <1>9, CancelledFacts
<1>13. \A k \in Card : k \notin IssuedBy(s) =>
          /\ cards'[k] \in GiftCard /\ cards'[k].issued = cards[k].issued
          /\ cards'[k].sale = cards[k].sale /\ cards'[k].active = cards[k].active
          /\ cards'[k].remaining = cards[k].remaining
                                     + (IF sales[s].card = k THEN sales[s].applied ELSE 0)
  <2> SUFFICES ASSUME NEW k \in Card, k \notin IssuedBy(s)
               PROVE  /\ cards'[k] \in GiftCard /\ cards'[k].issued = cards[k].issued
                      /\ cards'[k].sale = cards[k].sale /\ cards'[k].active = cards[k].active
                      /\ cards'[k].remaining = cards[k].remaining
                                     + (IF sales[s].card = k THEN sales[s].applied ELSE 0)
    OBVIOUS
  <2>1. CASE old.card = k
    <3>1. cards'[k] = [cards[k] EXCEPT !.remaining = @ + old.applied]
      BY <1>10, <2>1
    <3>2. /\ cards'[k] \in GiftCard /\ cards'[k].issued = cards[k].issued
          /\ cards'[k].sale = cards[k].sale /\ cards'[k].active = cards[k].active
          /\ cards'[k].remaining = cards[k].remaining + old.applied
      BY <1>7, <1>8, <3>1, ToppedUpFacts
    <3> QED  BY <1>8, <2>1, <3>2
  <2>2. CASE old.card # k
    <3>1. cards'[k] = cards[k]
      BY <1>10, <2>2
    <3> QED  BY <1>7, <1>8, <2>2, <3>1
  <2> QED  BY <2>1, <2>2
<1>14. cards' \in [Card -> GiftCard]
  BY <1>1, <1>12, <1>13
<1>15. withdrawn' \in [Card -> Nat]
  BY <1>1, <1>7
<1>16. \A k \in Card : cards'[k].issued = cards[k].issued
  BY <1>12, <1>13
<1>17. /\ \A k \in Card : k \in IssuedBy(s) => cards'[k].sale = None
       /\ \A k \in Card : k \in IssuedBy(s) /\ cards[k].active =>
             /\ cards'[k].remaining = 0 /\ ~ cards'[k].active
             /\ withdrawn'[k] = withdrawn[k] + cards[k].remaining
       /\ \A k \in Card : k \in IssuedBy(s) /\ ~ cards[k].active =>
             /\ cards'[k].remaining = cards[k].remaining /\ cards'[k].active = cards[k].active
             /\ withdrawn'[k] = withdrawn[k]
  BY <1>11, <1>12
<1>18. \A k \in Card : k \notin IssuedBy(s) =>
          /\ cards'[k].sale = cards[k].sale /\ cards'[k].active = cards[k].active
          /\ cards'[k].remaining = cards[k].remaining
                                     + (IF sales[s].card = k THEN sales[s].applied ELSE 0)
          /\ withdrawn'[k] = withdrawn[k]
  BY <1>11, <1>13
<1> QED  BY <1>1, <1>2, <1>3, <1>4, <1>5, <1>6, <1>14, <1>15, <1>16, <1>17, <1>18 DEF s, old

LEMMA DeleteCommitT ==
    ASSUME TInv, NEW w \in Worker, DeleteCommit(w), UNCHANGED mix PROVE TInv'
<1> DEFINE s == job[w].sale
<1>1. /\ s \in SaleId /\ sales[s] # None /\ sales[s] \in Sale
      /\ sales' \in [SaleId -> Sale \cup {None}] /\ sales'[s] = None
      /\ \A t \in SaleId : t # s => sales'[t] = sales[t]
      /\ cards' \in [Card -> GiftCard] /\ \A k \in Card : cards'[k].issued = cards[k].issued
      /\ withdrawn' \in [Card -> Nat] /\ Done(w) /\ UNCHANGED manual /\ stock' = stock + job[w].amount
  BY DeleteFacts
<1>0. /\ \A k \in Card : k \in IssuedBy(s) => cards'[k].sale = None
      /\ \A k \in Card : k \in IssuedBy(s) /\ cards[k].active => cards'[k].remaining = 0
      /\ \A k \in Card : k \in IssuedBy(s) /\ ~ cards[k].active =>
            cards'[k].remaining = cards[k].remaining
      /\ \A k \in Card : k \notin IssuedBy(s) =>
            /\ cards'[k].sale = cards[k].sale
            /\ cards'[k].remaining = cards[k].remaining
                                       + (IF sales[s].card = k THEN sales[s].applied ELSE 0)
            /\ withdrawn'[k] = withdrawn[k]
  BY DeleteFacts
<1>2. /\ \A k \in Card : cards[k].sale = s => cards'[k].sale = None
      /\ \A k \in Card : cards[k].sale # s => cards'[k].sale = cards[k].sale
      /\ \A k \in Card : cards'[k].remaining >= 0
      /\ \A k \in Card : ~ cards[k].issued => withdrawn'[k] = withdrawn[k]
  <2> SUFFICES ASSUME NEW k \in Card
               PROVE  /\ cards[k].sale = s => cards'[k].sale = None
                      /\ cards[k].sale # s => cards'[k].sale = cards[k].sale
                      /\ cards'[k].remaining >= 0
                      /\ ~ cards[k].issued => withdrawn'[k] = withdrawn[k]
    OBVIOUS
  <2>1. /\ cards[k].remaining \in Int /\ cards[k].remaining >= 0 /\ sales[s].applied \in Nat
        /\ cards[k].sale = s => cards[k].issued
    BY <1>1, IdIsNotNone DEF TInv, TypeOK, CardsOK, GiftCard, Sale
  <2>2. CASE k \in IssuedBy(s)
    BY <2>2, <1>0, <2>1 DEF IssuedBy
  <2>3. CASE k \notin IssuedBy(s)
    BY <2>3, <1>0, <2>1 DEF IssuedBy
  <2> QED  BY <2>2, <2>3
<1>3. job[w].seen \in Sale /\ job[w].reopen \subseteq Customer /\ job[w].amount \in Int
  BY JobFacts
<1>4. referral' \in ReferralType /\ points' \in [Customer -> Int] /\ forgiven' \in [Customer -> Nat]
  <2>1. /\ RevertReferral(referral, job[w].reopen, s) \in ReferralType
        /\ TakeBonus(Ledger, referral, job[w].reopen, s) \in LedgerType
    BY <1>3, LedgerFacts, RevertType
  <2>2. /\ job[w].seen.customer \in Customer \cup {None}
        /\ job[w].seen.redeemed - job[w].seen.earned \in Int
    BY <1>3 DEF Sale
  <2>3. PointsBack(w) \in LedgerType
    BY <2>1, <2>2, AddFacts DEF PointsBack
  <2>4. referral' = RevertReferral(referral, job[w].reopen, s) /\ SetPoints(PointsBack(w))
    BY DEF DeleteCommit
  <2> QED  BY <2>1, <2>3, <2>4, SetFacts
<1> HIDE DEF s
<1>5. Keeps
  BY <1>1 DEF Keeps, SameForGood
<1>6. RowsOK'
  BY <1>1, <1>5, RowsKept
<1>7. CardsOK'
  BY <1>1, <1>2 DEF TInv, TypeOK, CardsOK, Exists, GiftCard
<1>8. JobsOK' /\ job' \in [Worker -> Job]
  BY <1>1, <1>5, DoneKeeps, DoneFacts
<1>9. TypeOK'
  BY <1>6, IdIsNotNone, <1>1, <1>3, <1>4, <1>8
     DEF RowsOK, RowOK, Exists, TInv, TypeOK, ReferralType
<1> QED  BY <1>6, <1>7, <1>8, <1>9 DEF TInv

RefundTotal(w) == AtLeastZero(job[w].seen.total - job[w].amount)
RefundEarned(w) ==
    IF job[w].seen.earned > 0
    THEN LoyaltyEarnedFor(job[w].seen.status, MoneyBase(RefundTotal(w), job[w].seen.before),
                          job[w].seen.customer)
    ELSE 0

(* A paid sale that is worth more than what is left of it gets a refund row. *)
GivesBack(w) == job[w].seen.status = "PAID" /\ job[w].seen.total > RefundTotal(w)

RefundRow(w) == [NoSale EXCEPT !.kind = "REFUND", !.status = "PAID",
                               !.customer = job[w].seen.customer, !.of = job[w].sale,
                               !.total = RefundTotal(w) - job[w].seen.total]

LEMMA RefundTypes ==
    ASSUME TInv, NEW w \in Worker
    PROVE  /\ RefundTotal(w) \in Nat /\ RefundEarned(w) \in Nat
           /\ LET row == RefundRow(w)
              IN  /\ row \in Sale /\ row.kind = "REFUND" /\ row.status = "PAID"
                  /\ row.customer = job[w].seen.customer /\ row.of = job[w].sale
                  /\ row.total = RefundTotal(w) - job[w].seen.total
                  /\ row.card = None /\ row.applied = 0 /\ row.redeemed = 0
                  /\ row.earned = 0 /\ row.qty = 0
<1> DEFINE old == job[w].seen
<1>1. /\ old \in Sale /\ old.total \in Int /\ old.before \in Nat /\ job[w].amount \in Int
      /\ job[w].sale \in SaleId \cup {None} /\ old.customer \in Customer \cup {None}
  BY JobFacts DEF Sale
<1> HIDE DEF old
<1>2. RefundTotal(w) \in Nat
  BY <1>1 DEF RefundTotal, AtLeastZero, old
<1>3. LoyaltyEarnedFor(old.status, MoneyBase(RefundTotal(w), old.before), old.customer) \in Nat
  BY <1>1, <1>2, EarnedType
<1>4. RefundEarned(w) \in Nat
  BY <1>3 DEF RefundEarned, old
<1>5. PICK total \in Int : total = RefundTotal(w) - old.total
  BY <1>1, <1>2
<1>6. PICK row : row = RefundRow(w)
  OBVIOUS
<1>7. row = [kind |-> "REFUND", status |-> "PAID", customer |-> old.customer, total |-> total,
             before |-> 0, card |-> None, applied |-> 0, redeemed |-> 0, discount |-> 0,
             earned |-> 0, qty |-> 0, of |-> job[w].sale]
  BY <1>5, <1>6 DEF RefundRow, NoSale, old
<1>8. row \in Sale
  BY <1>1, <1>7 DEF Sale
<1> QED  BY <1>2, <1>4, <1>5, <1>6, <1>7, <1>8 DEF old

(* What a refund of a card does to the cards *)
LEMMA RefundCards ==
    ASSUME TInv, NEW w \in Worker, RefundCommit(w)
    PROVE  LET k == job[w].card
               s == job[w].sale
           IN  /\ job[w].op = "refund" /\ k \in Card /\ k # None /\ cards[k].issued
               /\ cards[k].sale = s /\ s \in SaleId /\ sales[s] # None /\ Exists(s)
               /\ sales[s] \in Sale /\ sales[s].kind = "GIFT_CARD" /\ RowOK(sales[s], cards)
               /\ job[w].seen \in Sale /\ job[w].seen.kind = "GIFT_CARD"
               /\ SameForGood(job[w].seen, sales[s])
               /\ cards[k].remaining = job[w].amount /\ cards[k].remaining > 0
               /\ cards[k].remaining \in Nat
               /\ cards' \in [Card -> GiftCard] /\ withdrawn' \in [Card -> Nat]
               /\ cards'[k].remaining = 0 /\ cards'[k].issued /\ cards'[k].sale = s
               /\ ~ cards'[k].active
               /\ \A j \in Card : j # k => cards'[j] = cards[j] /\ withdrawn'[j] = withdrawn[j]
               /\ withdrawn'[k] = withdrawn[k] + cards[k].remaining
               /\ Done(w) /\ UNCHANGED <<referral, stock, manual>>
<1> DEFINE k == job[w].card
           s == job[w].sale
<1>1. /\ job[w].op = "refund" /\ cards[k].sale = s /\ cards[k].remaining = job[w].amount
      /\ cards' = [cards EXCEPT ![k].remaining = 0, ![k].active = FALSE]
      /\ withdrawn' = [withdrawn EXCEPT ![k] = @ + cards[k].remaining]
      /\ Done(w) /\ UNCHANGED <<referral, stock, manual>>
  BY DEF RefundCommit, CardUnchanged
<1>2. /\ JobOK(w) /\ job[w].seen \in Sale /\ k \in Card \cup {None} /\ s \in SaleId \cup {None}
      /\ sales \in [SaleId -> Sale \cup {None}] /\ cards \in [Card -> GiftCard]
      /\ withdrawn \in [Card -> Nat] /\ CardsOK
  BY JobFacts DEF TInv, TypeOK
<1>3. /\ k # None /\ cards[k].issued /\ job[w].amount > 0 /\ job[w].seen.kind = "GIFT_CARD" /\ s # None
  BY <1>1, <1>2 DEF JobOK, Working
<1>4. k \in Card /\ s \in SaleId /\ cards[k] \in GiftCard
  BY <1>2, <1>3
<1>5. Exists(s) /\ sales[s].kind = "GIFT_CARD"
  BY <1>1, <1>2, <1>3, <1>4 DEF CardsOK
<1>6. sales[s] # None /\ sales[s] \in Sale /\ RowOK(sales[s], cards)
  BY <1>4, <1>5, RowFacts DEF Exists
<1>7. SameForGood(job[w].seen, sales[s])
  BY <1>1, <1>2, <1>5 DEF JobOK, Working
<1> HIDE DEF k, s
<1>8. PICK n \in Nat : n = cards[k].remaining
  BY <1>1, <1>2, <1>3, <1>4 DEF CardsOK, GiftCard
<1>9. PICK c : c = cards'[k]
  OBVIOUS
<1>10. c = [cards[k] EXCEPT !.remaining = 0, !.active = FALSE]
  BY <1>1, <1>2, <1>4, <1>9
<1>11. c \in GiftCard
  <2>1. \A m \in Int, no \in BOOLEAN : [cards[k] EXCEPT !.remaining = m, !.active = no] \in GiftCard
    BY <1>4 DEF GiftCard
  <2>2. 0 \in Int /\ FALSE \in BOOLEAN
    OBVIOUS
  <2> QED  BY <1>10, <2>1, <2>2, Zenon
<1>12. c.remaining = 0 /\ c.sale = cards[k].sale
  BY <1>4, <1>10 DEF GiftCard
<1>13. c.issued = cards[k].issued /\ ~ c.active
  BY <1>4, <1>10 DEF GiftCard
<1>14. /\ \A j \in Card : j # k => cards'[j] = cards[j]
       /\ cards' \in [Card -> GiftCard]
  BY <1>1, <1>2, <1>9, <1>11
<1>15. /\ withdrawn' \in [Card -> Nat] /\ withdrawn'[k] = withdrawn[k] + cards[k].remaining
       /\ \A j \in Card : j # k => withdrawn'[j] = withdrawn[j]
  BY <1>1, <1>2, <1>4, <1>8
<1>16. cards[k].remaining > 0 /\ cards[k].remaining \in Nat
  BY <1>1, <1>3, <1>8
<1>17. cards'[k].remaining = 0 /\ cards'[k].sale = s /\ cards'[k].issued /\ ~ cards'[k].active
  BY <1>1, <1>3, <1>9, <1>12, <1>13
<1> QED  BY <1>1, <1>2, <1>3, <1>4, <1>5, <1>6, <1>7, <1>14, <1>15, <1>16, <1>17 DEF k, s

(* What it does to the rows *)
LEMMA RefundRows ==
    ASSUME TInv, NEW w \in Worker, RefundCommit(w)
    PROVE  LET s == job[w].sale
           IN  /\ sales' \in [SaleId -> Sale \cup {None}]
               /\ sales'[s] \in Sale /\ SameForGood(sales[s], sales'[s])
               /\ sales'[s].customer = sales[s].customer /\ sales'[s].status = sales[s].status
               /\ sales'[s].qty = sales[s].qty
               /\ sales'[s].earned = IF job[w].seen.earned > 0 THEN RefundEarned(w) ELSE sales[s].earned
               /\ sales'[s].total = IF job[w].seen.status = "PAID" THEN sales[s].total ELSE RefundTotal(w)
               /\ ~ GivesBack(w) => \A t \in SaleId : t # s => sales'[t] = sales[t]
               /\ GivesBack(w) =>
                    \E r \in SaleId :
                       /\ Fresh(r) /\ r # s /\ sales'[r] = RefundRow(w)
                       /\ \A t \in SaleId : t # s /\ t # r => sales'[t] = sales[t]
<1> DEFINE s == job[w].sale
           old == job[w].seen
           reEarned == IF old.earned > 0 THEN [sales EXCEPT ![s].earned = RefundEarned(w)] ELSE sales
<1>1. IF old.status = "PAID"
      THEN IF old.total > RefundTotal(w)
           THEN \E r \in SaleId : Fresh(r) /\ sales' = [reEarned EXCEPT ![r] = RefundRow(w)]
           ELSE sales' = reEarned
      ELSE sales' = [reEarned EXCEPT ![s].total = RefundTotal(w)]
  BY DEF RefundCommit, RefundTotal, RefundEarned, RefundRow
<1>2. s \in SaleId /\ sales[s] # None /\ sales[s] \in Sale /\ sales \in [SaleId -> Sale \cup {None}]
  BY RefundCards DEF TInv, TypeOK
<1>3. RefundTotal(w) \in Nat /\ RefundEarned(w) \in Nat /\ RefundRow(w) \in Sale
  BY RefundTypes
<1>4. PICK row : row = reEarned[s]
  OBVIOUS
<1>5. /\ row \in Sale /\ SameForGood(sales[s], row) /\ row.customer = sales[s].customer
      /\ row.status = sales[s].status /\ row.qty = sales[s].qty /\ row.total = sales[s].total
      /\ row.earned = IF old.earned > 0 THEN RefundEarned(w) ELSE sales[s].earned
  <2>1. CASE old.earned > 0
    <3>1. row = [sales[s] EXCEPT !.earned = RefundEarned(w)]
      BY <1>2, <1>4, <2>1
    <3> HIDE DEF s, old
    <3> QED  BY <1>2, <1>3, <2>1, <3>1 DEF Sale, SameForGood
  <2>2. CASE ~ (old.earned > 0)
    BY <1>4, <2>2, <1>2 DEF SameForGood
  <2> QED  BY <2>1, <2>2
<1>6. reEarned \in [SaleId -> Sale \cup {None}] /\ \A t \in SaleId : t # s => reEarned[t] = sales[t]
  <2>1. \A t \in SaleId : t # s => reEarned[t] = sales[t]
    BY <1>2
  <2>2. \A t \in SaleId : reEarned[t] \in Sale \cup {None}
    BY <1>2, <1>4, <1>5, <2>1
  <2>3. reEarned = [t \in SaleId |-> reEarned[t]]
    BY <1>2
  <2> HIDE DEF reEarned
  <2> QED  BY <2>1, <2>2, <2>3
<1> HIDE DEF s, old, reEarned
<1>7. CASE old.status = "PAID" /\ old.total > RefundTotal(w)
  <2>1. PICK r \in SaleId : Fresh(r) /\ sales' = [reEarned EXCEPT ![r] = RefundRow(w)]
    BY <1>1, <1>7
  <2>2. r # s
    BY <1>2, <2>1 DEF Fresh
  <2>3. /\ sales' \in [SaleId -> Sale \cup {None}] /\ sales'[s] = row /\ sales'[r] = RefundRow(w)
        /\ \A t \in SaleId : t # s /\ t # r => sales'[t] = sales[t]
    BY <1>2, <1>3, <1>4, <1>6, <2>1, <2>2
  <2>4. GivesBack(w)
    BY <1>7 DEF GivesBack, old
  <2> QED  BY <1>5, <1>7, <2>1, <2>2, <2>3, <2>4 DEF s, old
<1>8. CASE old.status = "PAID" /\ ~ (old.total > RefundTotal(w))
  BY <1>1, <1>8, <1>4, <1>5, <1>6 DEF GivesBack, old, s
<1>9. CASE old.status # "PAID"
  <2>1. sales' = [reEarned EXCEPT ![s].total = RefundTotal(w)]
    BY <1>1, <1>9
  <2>2. PICK r : r = [row EXCEPT !.total = RefundTotal(w)]
    OBVIOUS
  <2>3. /\ r \in Sale /\ SameForGood(row, r) /\ r.customer = row.customer /\ r.status = row.status
        /\ r.qty = row.qty /\ r.earned = row.earned /\ r.total = RefundTotal(w)
    BY <1>3, <1>5, <2>2 DEF Sale, SameForGood
  <2>4. sales'[s] = r
    BY <1>2, <1>4, <1>6, <2>1, <2>2
  <2>5. /\ sales' \in [SaleId -> Sale \cup {None}]
        /\ \A t \in SaleId : t # s => sales'[t] = sales[t]
    BY <1>4, <2>1, <2>2, <1>2, <1>6, <2>3
  <2>6. SameForGood(sales[s], sales'[s])
    BY <1>5, <2>3, <2>4 DEF SameForGood
  <2>7. ~ GivesBack(w)
    BY <1>9 DEF GivesBack, old
  <2> QED  BY <1>5, <1>9, <2>3, <2>4, <2>5, <2>6, <2>7 DEF s, old
<1> QED  BY <1>7, <1>8, <1>9

LEMMA RefundCommitT ==
    ASSUME TInv, NEW w \in Worker, RefundCommit(w), UNCHANGED mix PROVE TInv'
<1> DEFINE s == job[w].sale
           k == job[w].card
<1>1. /\ s \in SaleId /\ sales[s] # None /\ sales[s].kind = "GIFT_CARD" /\ RowOK(sales[s], cards)
      /\ sales[s] \in Sale /\ k \in Card
      /\ cards' \in [Card -> GiftCard] /\ withdrawn' \in [Card -> Nat]
      /\ cards'[k].remaining = 0 /\ cards'[k].issued /\ cards'[k].sale = s
      /\ cards[k].sale = s /\ cards[k].issued
      /\ \A j \in Card : j # k => cards'[j] = cards[j] /\ withdrawn'[j] = withdrawn[j]
      /\ Done(w) /\ UNCHANGED <<referral, stock, manual>>
      /\ job[w].seen \in Sale
  BY RefundCards
<1>2. /\ sales' \in [SaleId -> Sale \cup {None}] /\ sales'[s] \in Sale
      /\ SameForGood(sales[s], sales'[s])
      /\ sales'[s].total = IF job[w].seen.status = "PAID" THEN sales[s].total ELSE RefundTotal(w)
  BY RefundRows
<1>3. \A t \in SaleId : t # s =>
         \/ sales'[t] = sales[t]
         \/ Fresh(t) /\ GivesBack(w) /\ sales'[t] = RefundRow(w)
  BY RefundRows
<1>4. /\ RefundTotal(w) \in Nat /\ RefundRow(w).kind = "REFUND" /\ RefundRow(w).card = None
      /\ RefundRow(w).total = RefundTotal(w) - job[w].seen.total /\ job[w].seen.total \in Int
      /\ RefundEarned(w) \in Nat
  BY <1>1, RefundTypes DEF Sale
<1>5. Keeps
  BY <1>1, <1>2, <1>3 DEF SameForGood, Keeps
<1>6. points' \in [Customer -> Int] /\ forgiven' \in [Customer -> Nat]
  <2>1. SetPoints(Credit(Ledger, job[w].seen.customer, RefundEarned(w) - job[w].seen.earned))
    BY DEF RefundCommit, RefundEarned, RefundTotal
  <2>2. job[w].seen.customer \in Customer \cup {None} /\ RefundEarned(w) - job[w].seen.earned \in Int
    BY <1>1, <1>4 DEF Sale
  <2> QED  BY <2>1, <2>2, LedgerFacts, CreditFacts, SetFacts
<1> HIDE DEF s, k
<1>7. RowsOK'
  BY <1>1, <1>2, <1>4, <1>3, <1>5, RowsKept DEF RowOK, SameForGood, Sale, GivesBack
<1>8. CardsOK'
  <2>1. CardsOK /\ cards \in [Card -> GiftCard]
    BY DEF TInv, TypeOK
  <2>2. \A t \in SaleId : sales[t] # None =>
           sales'[t] # None /\ (sales[t].kind = "GIFT_CARD" => sales'[t].kind = "GIFT_CARD")
    BY <1>1, <1>2, <1>3, RowIsRow DEF Fresh, SameForGood
  <2>3. \A j \in Card :
          /\ cards'[j].remaining >= 0 /\ cards'[j].sale = cards[j].sale
          /\ ~ cards'[j].issued => ~ cards[j].issued /\ withdrawn'[j] = withdrawn[j]
    BY <1>1, <2>1 DEF CardsOK
  <2>4. \A j \in Card : cards[j].sale \in SaleId \cup {None}
    BY <2>1 DEF GiftCard
  <2> QED  BY <2>1, <2>2, <2>3, <2>4 DEF CardsOK, Exists
<1>9. JobsOK' /\ job' \in [Worker -> Job]
  BY <1>1, <1>5, DoneKeeps, DoneFacts
<1>10. TypeOK'
  BY <1>7, IdIsNotNone, <1>1, <1>2, <1>6, <1>9 DEF RowsOK, RowOK, Exists, TInv, TypeOK
<1> QED  BY <1>7, <1>8, <1>9, <1>10 DEF TInv
----------------------------------------------------------------------------
LEMMA InitT == Init => TInv
<1> SUFFICES ASSUME Init PROVE TInv
  OBVIOUS
<1>1. /\ mix \in Mixes /\ sales = [s \in SaleId |-> None]
      /\ points = [c \in Customer |-> StartPoints] /\ cards = [k \in Card |-> NotIssued]
      /\ referral = [c \in Customer |-> Open] /\ stock = 0 /\ job = [w \in Worker |-> NoJob]
      /\ forgiven = [c \in Customer |-> 0] /\ withdrawn = [k \in Card |-> 0] /\ manual = 0
  BY DEF Init
<1>2. NotIssued \in GiftCard
  BY DEF NotIssued, GiftCard
<1>3. Open \in [sale : SaleId \cup {None}, awarded : Nat]
  BY DEF Open
<1>4. \A s \in SaleId : ~ Exists(s)
  BY <1>1 DEF Exists
<1>5. TypeOK
  BY <1>1, <1>2, <1>3, <1>4, NoneTypes, ConstTypes DEF TypeOK
<1>6. RowsOK
  BY <1>4 DEF RowsOK
<1>7. CardsOK
  BY <1>1 DEF CardsOK, NotIssued
<1>8. JobsOK
  BY <1>1 DEF JobsOK, JobOK, Working, NoJob
<1> QED  BY <1>5, <1>6, <1>7, <1>8 DEF TInv

LEMMA StutterT == ASSUME TInv, UNCHANGED vars PROVE TInv'
BY DEF vars, TInv, TypeOK, RowsOK, CardsOK, JobsOK, JobOK, Working, Exists

LEMMA NextT == TInv /\ [Next]_vars => TInv'
<1> SUFFICES ASSUME TInv, [Next]_vars PROVE TInv'
  OBVIOUS
<1>1. CASE UNCHANGED vars
  BY <1>1, StutterT
<1> SUFFICES ASSUME Requests, UNCHANGED mix PROVE TInv'
  BY <1>1 DEF Next
<1>2. ASSUME NEW w \in Worker,
             CreateFails(w) \/ UpdateFails(w) \/ DeleteFails(w) \/ RefundFails(w) \/ AdjustFails(w)
      PROVE  TInv'
  BY <1>2, RollbackKeeps
     DEF CreateFails, UpdateFails, DeleteFails, RefundFails, AdjustFails
<1>3. ASSUME NEW w \in Worker, CreateSale(w) PROVE TInv'
  BY <1>3, CreateSaleT
<1>4. ASSUME NEW w \in Worker, UpdateCommit(w) PROVE TInv'
  BY <1>4, UpdateCommitT
<1>5. ASSUME NEW w \in Worker, DeleteLooks(w) PROVE TInv'
  BY <1>5, DeleteLooksT
<1>6. ASSUME NEW w \in Worker, DeleteCommit(w) PROVE TInv'
  BY <1>6, DeleteCommitT
<1>7. ASSUME NEW w \in Worker, RefundCommit(w) PROVE TInv'
  BY <1>7, RefundCommitT
<1>8. ASSUME NEW w \in Worker, AdjustInventory(w) PROVE TInv'
  BY <1>8, AdjustInventoryT
<1>9. ASSUME NEW w \in Worker, AdjustCommit(w) PROVE TInv'
  BY <1>9, AdjustCommitT
<1>10. ASSUME NEW w \in Worker, NEW s \in SaleId, CreateCommit(w, s) PROVE TInv'
  BY <1>10, CreateCommitT
<1>11. ASSUME NEW w \in Worker, NEW s \in SaleId, UpdateSale(w, s) PROVE TInv'
  BY <1>11, UpdateSaleT
<1>12. ASSUME NEW w \in Worker, NEW s \in SaleId, DeleteSale(w, s) PROVE TInv'
  BY <1>12, DeleteSaleT
<1>13. ASSUME NEW w \in Worker, NEW k \in Card, RefundIssuedRemainder(w, k) PROVE TInv'
  BY <1>13, RefundIssuedRemainderT
<1>14. ASSUME NEW k \in Card, SetGiftCardActive(k) PROVE TInv'
  BY <1>14, SetGiftCardActiveT
<1>15. ASSUME NEW k \in Card, NEW s \in SaleId, CreateGiftCard(k, s) PROVE TInv'
  BY <1>15, CreateGiftCardT
<1> QED  BY <1>2, <1>3, <1>4, <1>5, <1>6, <1>7, <1>8, <1>9, <1>10, <1>11, <1>12, <1>13, <1>14, <1>15
         DEF Requests

(* The rows keep their types, and only a refund has a negative total: an    *)
(* edit never brings the total of a sale below what was already paid for    *)
(* it, whatever other requests do to the sale meanwhile (updateSale).       *)
THEOREM CheckoutTypeOK == Spec => []TypeOK
<1>1. Spec => []TInv
  BY InitT, NextT, PTL DEF Spec
<1>2. TInv => TypeOK
  BY DEF TInv
<1> QED  BY <1>1, <1>2, PTL
----------------------------------------------------------------------------
(* The value of the gift cards *)

Spent(k) == SumFunctionOnSet([s \in SaleId |-> SpentOf(sales[s], k)], SaleId)

CardAddsUp(k) == cards[k].issued => CardValue = cards[k].remaining + withdrawn[k] + Spent(k)

LEMMA SpentType ==
    ASSUME NEW row \in Sale \cup {None}, NEW k \in Card PROVE SpentOf(row, k) \in Nat
BY DEF SpentOf, Sale

LEMMA SpentAll ==
    ASSUME TypeOK, NEW k \in Card
    PROVE  /\ Spent(k) \in Nat
           /\ \A s \in SaleId : SpentOf(sales[s], k) \in Nat
<1> DEFINE f == [s \in SaleId |-> SpentOf(sales[s], k)]
<1>1. \A s \in SaleId : SpentOf(sales[s], k) \in Nat
  BY SpentType DEF TypeOK
<1>2. \A s \in SaleId : f[s] \in Nat
  BY <1>1
<1> HIDE DEF f
<1>3. SumFunctionOnSet(f, SaleId) \in Nat
  BY <1>2, SumNat, TablesAssumption
<1> QED  BY <1>1, <1>3 DEF Spent, f

(* One row changed what it took from the card. *)
LEMMA SpentChange ==
    ASSUME TypeOK, TypeOK', NEW k \in Card, NEW s \in SaleId,
           \A t \in SaleId : t # s => SpentOf(sales'[t], k) = SpentOf(sales[t], k)
    PROVE  Spent(k)' = Spent(k) + SpentOf(sales'[s], k) - SpentOf(sales[s], k)
<1> DEFINE f == [t \in SaleId |-> SpentOf(sales[t], k)]
           g == [t \in SaleId |-> SpentOf(sales'[t], k)]
<1>1. \A t \in SaleId : SpentOf(sales[t], k) \in Nat /\ SpentOf(sales'[t], k) \in Nat
  BY SpentType DEF TypeOK
<1>2. /\ \A t \in SaleId : f[t] \in Int
      /\ \A t \in SaleId : g[t] \in Int
      /\ \A t \in SaleId : t # s => g[t] = f[t]
      /\ f[s] = SpentOf(sales[s], k) /\ g[s] = SpentOf(sales'[s], k)
  BY <1>1
<1> HIDE DEF f, g
<1>3. SumFunctionOnSet(g, SaleId) = SumFunctionOnSet(f, SaleId) + g[s] - f[s]
  BY <1>2, SumChange, TablesAssumption
<1> QED  BY <1>2, <1>3 DEF Spent, f, g

LEMMA SpentSame ==
    ASSUME NEW k \in Card, \A t \in SaleId : SpentOf(sales'[t], k) = SpentOf(sales[t], k)
    PROVE  Spent(k)' = Spent(k)
BY DEF Spent

LEMMA NotIssuedSpent ==
    ASSUME TInv, NEW k \in Card, ~ cards[k].issued
    PROVE  Spent(k) = 0
<1> DEFINE f == [s \in SaleId |-> SpentOf(sales[s], k)]
<1>1. ASSUME NEW s \in SaleId PROVE SpentOf(sales[s], k) = 0
  BY RowFacts, ReferrerAssumption DEF RowOK, SpentOf
<1>2. \A s \in SaleId : f[s] = 0
  BY <1>1
<1> HIDE DEF f
<1>3. SumFunctionOnSet(f, SaleId) = 0
  BY <1>2, SumZero, TablesAssumption
<1> QED  BY <1>3 DEF Spent, f

LEMMA AddsUpType ==
    ASSUME TypeOK, NEW k \in Card
    PROVE  cards[k].remaining \in Int /\ withdrawn[k] \in Int /\ Spent(k) \in Int
BY SpentAll DEF TypeOK, GiftCard

LEMMA CreateAddsUp ==
    ASSUME TInv, TInv', NEW w \in Worker, NEW s \in SaleId, CreateCommit(w, s),
           NEW k \in Card, CardAddsUp(k)
    PROVE  CardAddsUp(k)'
<1> DEFINE row == job[w].seen
<1>1. /\ sales[s] = None /\ sales'[s] = row /\ row \in Sale
      /\ \A t \in SaleId : t # s => sales'[t] = sales[t]
      /\ cards'[k].issued = cards[k].issued
      /\ cards'[k].remaining = IF row.card = k THEN cards[k].remaining - row.applied
                               ELSE cards[k].remaining
      /\ withdrawn' = withdrawn
  BY CreateFacts
<1> HIDE DEF row
<1>2. Spent(k)' = Spent(k) + SpentOf(row, k) - SpentOf(None, k)
  BY <1>1, SpentChange DEF TInv
<1>3. SpentOf(None, k) = 0 /\ SpentOf(row, k) = IF row.card = k THEN row.applied ELSE 0
  BY <1>1, RowIsRow DEF SpentOf
<1>4. row.applied \in Nat
  BY <1>1 DEF Sale
<1>5. cards[k].remaining \in Int /\ withdrawn[k] \in Int /\ Spent(k) \in Int
  BY AddsUpType DEF TInv
<1> QED  BY <1>1, <1>2, <1>3, <1>4, <1>5, ConstTypes DEF CardAddsUp

LEMMA GiftCardAddsUp ==
    ASSUME TInv, TInv', NEW j \in Card, NEW s \in SaleId, CreateGiftCard(j, s),
           NEW k \in Card, CardAddsUp(k)
    PROVE  CardAddsUp(k)'
<1>1. /\ ~ cards[j].issued /\ sales[s] = None /\ sales'[s].card = None
      /\ \A t \in SaleId : t # s => sales'[t] = sales[t]
      /\ k # j => cards'[k] = cards[k]
      /\ cards'[j].remaining = CardValue /\ withdrawn' = withdrawn
  BY GiftCardFacts
<1>2. SpentOf(sales'[s], k) = 0 /\ SpentOf(sales[s], k) = 0
  BY <1>1, ReferrerAssumption DEF SpentOf
<1>3. Spent(k)' = Spent(k)
  BY <1>1, <1>2, SpentSame
<1>4. CASE k = j
  BY <1>1, <1>4, NotIssuedSpent, <1>3, ConstTypes DEF TInv, CardsOK, CardAddsUp
<1>5. CASE k # j
  BY <1>1, <1>3, <1>5 DEF CardAddsUp
<1> QED  BY <1>4, <1>5

LEMMA UpdateAddsUp ==
    ASSUME TInv, NEW w \in Worker, UpdateCommit(w), NEW k \in Card, CardAddsUp(k)
    PROVE  CardAddsUp(k)'
<1> DEFINE s == job[w].sale
<1>1. /\ s \in SaleId /\ sales[s] \in Sale /\ sales'[s] \in Sale
      /\ SameForGood(sales[s], sales'[s])
      /\ \A t \in SaleId : t # s => sales'[t] = sales[t]
      /\ cards' = cards /\ withdrawn' = withdrawn
  BY UpdateFacts
<1> HIDE DEF s
<1>2. SpentOf(sales'[s], k) = SpentOf(sales[s], k)
  BY <1>1, RowIsRow DEF SpentOf, SameForGood
<1>3. Spent(k)' = Spent(k)
  BY <1>1, <1>2, SpentSame
<1> QED  BY <1>1, <1>3 DEF CardAddsUp

LEMMA DeleteAddsUp ==
    ASSUME TInv, TInv', NEW w \in Worker, DeleteCommit(w), NEW k \in Card, CardAddsUp(k)
    PROVE  CardAddsUp(k)'
<1> DEFINE s == job[w].sale
<1>1. /\ s \in SaleId /\ sales[s] \in Sale /\ sales'[s] = None
      /\ \A t \in SaleId : t # s => sales'[t] = sales[t]
      /\ cards'[k].issued = cards[k].issued
      /\ k \in IssuedBy(s) /\ cards[k].active =>
            cards'[k].remaining = 0 /\ withdrawn'[k] = withdrawn[k] + cards[k].remaining
      /\ k \in IssuedBy(s) /\ ~ cards[k].active =>
            cards'[k].remaining = cards[k].remaining /\ withdrawn'[k] = withdrawn[k]
      /\ k \notin IssuedBy(s) =>
            /\ cards'[k].remaining = cards[k].remaining
                                       + (IF sales[s].card = k THEN sales[s].applied ELSE 0)
            /\ withdrawn'[k] = withdrawn[k]
      /\ k \in IssuedBy(s) => sales[s].card # k
  BY DeleteFacts
<1> HIDE DEF s
<1>2. Spent(k)' = Spent(k) + SpentOf(None, k) - SpentOf(sales[s], k)
  BY <1>1, SpentChange DEF TInv
<1>3. /\ SpentOf(None, k) = 0
      /\ SpentOf(sales[s], k) = IF sales[s].card = k THEN sales[s].applied ELSE 0
  BY <1>1, RowIsRow DEF SpentOf
<1>4. sales[s].applied \in Nat
  BY <1>1 DEF Sale
<1>5. cards[k].remaining \in Int /\ withdrawn[k] \in Int /\ Spent(k) \in Int
  BY AddsUpType DEF TInv
<1>6. cards'[k].remaining + withdrawn'[k] + Spent(k)' = cards[k].remaining + withdrawn[k] + Spent(k)
  BY <1>1, <1>2, <1>3, <1>5, <1>4
<1> QED  BY <1>1, <1>6 DEF CardAddsUp

LEMMA RefundAddsUp ==
    ASSUME TInv, TInv', NEW w \in Worker, RefundCommit(w), NEW k \in Card, CardAddsUp(k)
    PROVE  CardAddsUp(k)'
<1> DEFINE s == job[w].sale
           j == job[w].card
<1>1. /\ cards[j].issued /\ cards'[j].issued /\ j \in Card
      /\ k # j => cards'[k] = cards[k] /\ withdrawn'[k] = withdrawn[k]
      /\ cards'[j].remaining = 0 /\ withdrawn'[j] = withdrawn[j] + cards[j].remaining
      /\ s \in SaleId /\ sales[s] \in Sale
  BY RefundCards
<1>2. /\ sales'[s] \in Sale /\ SameForGood(sales[s], sales'[s])
      /\ ~ GivesBack(w) => \A t \in SaleId : t # s => sales'[t] = sales[t]
      /\ GivesBack(w) => \E r \in SaleId :
            /\ Fresh(r) /\ r # s /\ sales'[r] = RefundRow(w)
            /\ \A t \in SaleId : t # s /\ t # r => sales'[t] = sales[t]
  BY RefundRows
<1>3. RefundRow(w).card = None
  BY RefundTypes
<1> HIDE DEF s, j
<1>4. SpentOf(sales'[s], k) = SpentOf(sales[s], k)
  BY <1>1, <1>2, RowIsRow DEF SpentOf, SameForGood
<1>5. \A t \in SaleId : SpentOf(sales'[t], k) = SpentOf(sales[t], k)
  <2>1. CASE ~ GivesBack(w)
    BY <1>2, <1>4, <2>1
  <2>2. CASE GivesBack(w)
    <3>1. PICK r \in SaleId :
             /\ Fresh(r) /\ r # s /\ sales'[r] = RefundRow(w)
             /\ \A t \in SaleId : t # s /\ t # r => sales'[t] = sales[t]
      BY <1>2, <2>2
    <3>2. SpentOf(sales'[r], k) = 0 /\ SpentOf(sales[r], k) = 0
      BY <1>3, <3>1, ReferrerAssumption DEF SpentOf, Fresh
    <3> QED  BY <1>4, <3>1, <3>2
  <2> QED  BY <2>1, <2>2
<1>6. Spent(k)' = Spent(k)
  BY <1>5, SpentSame
<1>7. cards[k].remaining \in Int /\ withdrawn[k] \in Int /\ Spent(k) \in Int
  BY AddsUpType DEF TInv
<1> QED  BY <1>1, <1>6, <1>7 DEF CardAddsUp

(* The steps that leave rows, cards and withdrawals alone *)
Looks(w) ==
    \/ CreateSale(w) \/ DeleteLooks(w) \/ AdjustInventory(w) \/ AdjustCommit(w) \/ AdjustFails(w)
    \/ CreateFails(w) \/ UpdateFails(w) \/ DeleteFails(w) \/ RefundFails(w)
    \/ \E s \in SaleId : UpdateSale(w, s) \/ DeleteSale(w, s)
    \/ \E k \in Card : RefundIssuedRemainder(w, k)

LEMMA LooksAlone ==
    ASSUME NEW w \in Worker, Looks(w)
    PROVE  UNCHANGED <<sales, cards, points, referral, forgiven, withdrawn>>
BY ZenonT(60) DEF Looks, CreateSale, DeleteLooks, AdjustInventory, AdjustCommit, AdjustFails, CreateFails,
       UpdateFails, DeleteFails, RefundFails, UpdateSale, DeleteSale, RefundIssuedRemainder,
       Read, Rollback, ghosts

LEMMA Steps ==
    ASSUME Next
    PROVE  /\ UNCHANGED mix
           /\ \/ \E w \in Worker :
                    \/ Looks(w) \/ UpdateCommit(w) \/ DeleteCommit(w) \/ RefundCommit(w)
                    \/ \E s \in SaleId : CreateCommit(w, s)
              \/ \E k \in Card : SetGiftCardActive(k) \/ \E s \in SaleId : CreateGiftCard(k, s)
BY DEF Next, Requests, Looks

GInv == \A k \in Card : CardAddsUp(k)

LEMMA NextG == TInv /\ TInv' /\ GInv /\ [Next]_vars => GInv'
<1> SUFFICES ASSUME TInv, TInv', GInv, [Next]_vars, NEW k \in Card PROVE CardAddsUp(k)'
  BY DEF GInv
<1>1. CardAddsUp(k)
  BY DEF GInv
<1>2. ASSUME UNCHANGED <<sales, withdrawn>>, UNCHANGED cards \/ \E j \in Card : SetGiftCardActive(j)
      PROVE  CardAddsUp(k)'
  BY <1>2, <1>1 DEF Spent, SetGiftCardActive, TInv, TypeOK, GiftCard, CardAddsUp
<1>3. CASE UNCHANGED vars
  BY <1>2, <1>3 DEF vars
<1>4. ASSUME NEW w \in Worker, Looks(w) PROVE CardAddsUp(k)'
  BY <1>2, <1>4, LooksAlone
<1>5. ASSUME NEW j \in Card, SetGiftCardActive(j) PROVE CardAddsUp(k)'
  BY <1>2, <1>5 DEF SetGiftCardActive, ghosts
<1>6. ASSUME NEW w \in Worker, UpdateCommit(w) PROVE CardAddsUp(k)'
  BY <1>1, <1>6, UpdateAddsUp
<1>7. ASSUME NEW w \in Worker, DeleteCommit(w) PROVE CardAddsUp(k)'
  BY <1>1, <1>7, DeleteAddsUp
<1>8. ASSUME NEW w \in Worker, RefundCommit(w) PROVE CardAddsUp(k)'
  BY <1>1, <1>8, RefundAddsUp
<1>9. ASSUME NEW w \in Worker, NEW s \in SaleId, CreateCommit(w, s) PROVE CardAddsUp(k)'
  BY <1>1, <1>9, CreateAddsUp
<1>10. ASSUME NEW j \in Card, NEW s \in SaleId, CreateGiftCard(j, s) PROVE CardAddsUp(k)'
  BY <1>1, <1>10, GiftCardAddsUp
<1> QED  BY <1>3, <1>4, <1>5, <1>6, <1>7, <1>8, <1>9, <1>10, Steps

(* However requests that create, edit, delete and refund interleave, the    *)
(* value of a gift card is on the card, in the sales that used it, or was   *)
(* taken by the cancellation or the refund of the card (cards are debited   *)
(* conditionally, credited back by deleteSale, and emptied only while they  *)
(* hold what refundIssuedRemainder read).                                   *)
THEOREM CheckoutGiftCardHonest == Spec => []GiftCardHonest
<1>1. Init => GInv
  BY DEF Init, GInv, CardAddsUp, NotIssued
<1>2. Spec => []TInv
  BY InitT, NextT, PTL DEF Spec
<1>3. Spec => []GInv
  BY <1>1, <1>2, NextG, PTL DEF Spec
<1>4. TInv /\ GInv => GiftCardHonest
  BY DEF TInv, CardsOK, GInv, CardAddsUp, Spent, GiftCardHonest
<1> QED  BY <1>2, <1>3, <1>4, PTL
----------------------------------------------------------------------------
(* The requests, the rows they read and the referrals *)

LEMMA MixStays ==
    ASSUME UNCHANGED mix
    PROVE  SharedSales' = SharedSales /\ EditFields' = EditFields /\ EditsAlone' = EditsAlone
           /\ Ops' = Ops
BY DEF SharedSales, EditFields, EditsAlone, Ops

(* A row that stays keeps what the points and the stock come from. *)
Steady ==
    \A t \in SaleId : sales[t] # None /\ sales'[t] # None =>
        /\ sales'[t].customer = sales[t].customer /\ sales'[t].status = sales[t].status
        /\ sales'[t].earned = sales[t].earned /\ sales'[t].qty = sales[t].qty

(* A request that worked on s ends, or s is new: other rows may only be     *)
(* new, and other sales keep their referrals.                               *)
Touches(s) ==
    /\ Keeps
    /\ \A v \in Worker : job'[v] \in {NoJob, job[v]}
    /\ Fresh(s) \/ \E w \in Worker : job'[w] = NoJob /\ job[w].sale = s
    /\ \A t \in SaleId : sales'[t] = sales[t] \/ t = s \/ Fresh(t)
    /\ \A c \in Customer : referral'[c] = referral[c]
                           \/ (referral[c].sale \in {None, s} /\ referral'[c].sale \in {None, s})
    /\ EditFields = {} => Steady /\ (UNCHANGED referral \/ Fresh(s) \/ sales'[s] = None)

NewRowsEarn ==
    EditFields = {} => \A t \in SaleId :
        sales'[t] # None /\ sales'[t].kind # "REFUND" /\ sales'[t] # sales[t] => EarnedAsRow(sales'[t])

Backs(s) ==
    EditsAlone => \A c \in Customer : s # None /\ referral'[c].sale = s =>
        sales'[s] # None /\ sales'[s].status = "PAID" /\ sales'[s].customer = c

(* What a request that goes on found of other rows is still there. *)
LEMMA OtherRow ==
    ASSUME TInv, NEW s \in SaleId \cup {None}, Touches(s), NEW v \in Worker,
           Working(v)', sales'[job'[v].sale] # None
    PROVE  LET t == job[v].sale
           IN  /\ job'[v] = job[v] /\ Working(v) /\ t \in SaleId /\ t # None /\ Exists(t) /\ ~ Fresh(t)
               /\ t # s => sales'[t] = sales[t]
<1> DEFINE t == job[v].sale
<1>1. job'[v] # NoJob
  BY DEF Working, NoJob
<1>2. job'[v] = job[v] /\ Working(v)
  BY <1>1 DEF Touches, Working
<1>3. t \in SaleId /\ t # None
  BY <1>2, JobFacts DEF JobOK
<1>4. ~ Fresh(t)
  BY DEF Fresh
<1>5. sales[t] # None
  BY <1>2, <1>3, <1>4 DEF Touches, Keeps
<1> QED  BY <1>2, <1>3, <1>4, <1>5 DEF Touches, Exists

LEMMA NotAtWork ==
    ASSUME TInv, Alone, ~ SharedSales, NEW s \in SaleId \cup {None}, Touches(s), NEW v \in Worker,
           Working(v)', sales'[job'[v].sale] # None
    PROVE  job[v].sale # s
<1>1. job'[v] = job[v] /\ Working(v) /\ job[v].sale # None /\ ~ Fresh(job[v].sale)
  BY OtherRow
<1>2. CASE Fresh(s)
  BY <1>1, <1>2
<1>3. CASE \E w \in Worker : job'[w] = NoJob /\ job[w].sale = s
  <2>1. PICK w \in Worker : job'[w] = NoJob /\ job[w].sale = s
    BY <1>3
  <2>2. v # w
    BY <1>1, <2>1 DEF Working, NoJob
  <2> QED  BY <1>1, <2>1, <2>2 DEF Alone
<1> QED  BY <1>2, <1>3 DEF Touches

LEMMA AloneKept ==
    ASSUME TInv, Alone, UNCHANGED mix, NEW s \in SaleId \cup {None}, Touches(s)
    PROVE  Alone'
<1> SUFFICES ASSUME ~ SharedSales
             PROVE  /\ \A v, w \in Worker : v # w /\ job'[v].sale # None => job'[v].sale # job'[w].sale
                    /\ \A w \in Worker : Working(w)' /\ Exists(job[w].sale)' =>
                          job'[w].seen = sales'[job'[w].sale]
  BY MixStays DEF Alone
<1>1. ASSUME NEW v \in Worker, NEW w \in Worker, v # w, job'[v].sale # None
      PROVE  job'[v].sale # job'[w].sale
  BY <1>1 DEF Touches, NoJob, Alone
<1>2. ASSUME NEW w \in Worker, Working(w)', Exists(job[w].sale)'
      PROVE  job'[w].seen = sales'[job'[w].sale]
  BY <1>2, NotAtWork, OtherRow DEF Exists, Alone
<1> QED  BY <1>1, <1>2

LEMMA SeenKept ==
    ASSUME TInv, Alone, Alone', SeenHolds, UNCHANGED mix, NEW s \in SaleId \cup {None}, Touches(s)
    PROVE  SeenHolds'
<1> SUFFICES ASSUME EditsAlone, NEW w \in Worker, Working(w)', Exists(job[w].sale)'
             PROVE  LET old == job'[w].seen
                        row == sales'[job'[w].sale]
                    IN  /\ old.customer = row.customer /\ old.status = row.status
                        /\ old.earned = row.earned /\ old.qty = row.qty
  BY MixStays DEF SeenHolds
<1>1. CASE ~ SharedSales
  BY <1>1, MixStays DEF Alone
<1>2. CASE SharedSales
  BY <1>2, OtherRow DEF EditsAlone, Exists, SeenHolds, Touches, Steady
<1> QED  BY <1>1, <1>2

LEMMA LooksKept ==
    ASSUME TInv, Alone, LooksHold, UNCHANGED mix, NEW s \in SaleId \cup {None}, Touches(s)
    PROVE  LooksHold'
<1> SUFFICES ASSUME EditsAlone, NEW w \in Worker, job'[w].op = "deleting", Exists(job[w].sale)'
             PROVE  job'[w].reopen = CompletedBy(job[w].sale)' /\ job'[w].amount = sales'[job'[w].sale].qty
  BY MixStays DEF LooksHold
<1> DEFINE t == job[w].sale
<1>1. Working(w)' /\ sales'[job'[w].sale] # None
  BY DEF Working, Exists
<1>2. /\ job'[w] = job[w] /\ t \in SaleId /\ t # None /\ Exists(t) /\ ~ Fresh(t)
      /\ t # s => sales'[t] = sales[t]
  BY <1>1, OtherRow
<1>3. job[w].reopen = CompletedBy(t) /\ job[w].amount = sales[t].qty
  BY <1>2 DEF LooksHold
<1> HIDE DEF t
<1>4. CASE t # s
  BY <1>2, <1>4, <1>3 DEF Touches, CompletedBy, t
<1>5. CASE t = s
  <2>1. SharedSales
    BY <1>1, <1>5, NotAtWork DEF t
  <2>2. EditFields = {}
    BY <2>1 DEF EditsAlone
  <2>3. Steady /\ UNCHANGED referral
    BY <1>1, <1>2, <1>5, <2>2 DEF Touches, t
  <2>4. sales'[t].qty = sales[t].qty
    BY <1>1, <1>2, <2>3 DEF Steady, Exists, t
  <2>5. CompletedBy(t)' = CompletedBy(t)
    BY <1>2, <2>3 DEF CompletedBy, t
  <2> QED  BY <1>2, <1>3, <2>4, <2>5 DEF t
<1> QED  BY <1>4, <1>5

LEMMA BackedKept ==
    ASSUME TInv, ReferralBacked, UNCHANGED mix, NEW s \in SaleId \cup {None}, Touches(s), Backs(s),
           referral' \in ReferralType
    PROVE  ReferralBacked'
<1> SUFFICES ASSUME EditsAlone, NEW c \in Customer, referral'[c].sale # None
             PROVE  LET t == referral'[c].sale
                    IN  sales'[t] # None /\ sales'[t].status = "PAID" /\ sales'[t].customer = c
  BY MixStays DEF ReferralBacked, Exists
<1> DEFINE t == referral'[c].sale
<1>1. t \in SaleId
  BY DEF ReferralType
<1>2. CASE t = s
  BY <1>2 DEF Backs
<1>3. CASE t # s
  BY <1>3, <1>1 DEF Touches, ReferralBacked, Exists, Fresh
<1> QED  BY <1>2, <1>3

LEMMA EarnedKept ==
    ASSUME TInv, Unedited, UNCHANGED mix, NEW s \in SaleId \cup {None}, Touches(s), NewRowsEarn
    PROVE  Unedited'
<1> SUFFICES ASSUME EditFields = {}
             PROVE  /\ \A t \in SaleId : Exists(t)' /\ sales'[t].kind # "REFUND" => EarnedAsRow(sales'[t])
                    /\ \A w \in Worker : job'[w].op = "create" \/ Working(w)' =>
                          EarnedAsRow(job'[w].seen) /\ job'[w].edit = NoEdit
  BY MixStays DEF Unedited, EarnedAsRow
<1>1. ASSUME NEW t \in SaleId, Exists(t)', sales'[t].kind # "REFUND" PROVE EarnedAsRow(sales'[t])
  BY <1>1 DEF Unedited, Exists, NewRowsEarn
<1>2. ASSUME NEW w \in Worker, job'[w].op = "create" \/ Working(w)'
      PROVE  EarnedAsRow(job'[w].seen) /\ job'[w].edit = NoEdit
  BY <1>2 DEF Touches, Working, NoJob, Unedited
<1> QED  BY <1>1, <1>2

LEMMA TouchesKeeps ==
    ASSUME TInv, TInv', EInv, UNCHANGED mix, NEW s \in SaleId \cup {None}, Touches(s),
           NewRowsEarn, Backs(s), OpenIsEmpty'
    PROVE  EInv'
<1>1. Alone'
  BY AloneKept DEF EInv
<1>2. SeenHolds'
  BY <1>1, SeenKept DEF EInv
<1>3. LooksHold'
  BY LooksKept DEF EInv
<1>4. Unedited'
  BY EarnedKept DEF EInv
<1>5. ReferralBacked'
  BY BackedKept DEF TInv, TypeOK, ReferralType, EInv
<1> QED  BY <1>1, <1>2, <1>3, <1>4, <1>5 DEF EInv
----------------------------------------------------------------------------
(* The steps keep what requests, rows and referrals agree on. *)

LEMMA CompleteFacts ==
    ASSUME NEW refs \in ReferralType, NEW c, NEW money, NEW s \in SaleId, NEW d \in Customer
    PROVE  LET new == CompleteReferral(refs, c, money, s)
           IN  \/ new[d] = refs[d]
               \/ d = c /\ refs[d].sale = None /\ new[d] = [sale |-> s, awarded |-> Bonus]
BY DEF CompleteReferral, Completes, ReferralType

LEMMA RevertFacts ==
    ASSUME NEW refs \in ReferralType, NEW R \in SUBSET Customer, NEW s, NEW d \in Customer
    PROVE  RevertReferral(refs, R, s)[d] = IF d \in R /\ refs[d].sale = s THEN Open ELSE refs[d]
BY DEF RevertReferral

LEMMA CreateE ==
    ASSUME TInv, TInv', EInv, NEW w \in Worker, NEW s \in SaleId, CreateCommit(w, s), UNCHANGED mix
    PROVE  EInv'
<1> DEFINE row == job[w].seen
           money == MoneyBase(row.total, row.before)
<1>1. IF row.status = "PAID" THEN referral' = CompleteReferral(referral, row.customer, money, s)
      ELSE referral' = referral
  BY DEF CreateCommit
<1>2. /\ job[w].op = "create" /\ Fresh(s) /\ sales[s] = None /\ row \in Sale /\ row.kind = "STAFF"
      /\ sales'[s] = row /\ Done(w)
      /\ \A t \in SaleId : t # s => sales'[t] = sales[t]
      /\ \A k \in Card : cards'[k].issued = cards[k].issued
  BY CreateFacts
<1>3. row # None /\ s # None /\ referral \in ReferralType
  BY <1>2, RowIsRow, IdIsNotNone, LedgerFacts
<1>4. EditFields = {} => EarnedAsRow(row)
  BY <1>2 DEF EInv, Unedited
<1> HIDE DEF row, money
<1>5. \A d \in Customer :
         \/ referral'[d] = referral[d]
         \/ /\ d = row.customer /\ row.status = "PAID" /\ referral[d].sale = None
            /\ referral'[d] = [sale |-> s, awarded |-> Bonus]
  BY <1>1, <1>3, CompleteFacts
<1>6. \A d \in Customer : referral[d].sale # s
  BY <1>2 DEF Fresh
<1>7. Steady
  BY <1>2 DEF Steady
<1>8. Touches(s)
  BY <1>2, DoneFacts, <1>5, <1>7 DEF Keeps, SameForGood, Touches
<1>9. NewRowsEarn
  BY <1>2, <1>4 DEF NewRowsEarn
<1>10. Backs(s)
  BY <1>2, <1>3, <1>5, <1>6 DEF Backs
<1>11. OpenIsEmpty'
  BY <1>3, <1>5 DEF EInv, OpenIsEmpty
<1> QED  BY <1>8, <1>9, <1>10, <1>11, TouchesKeeps

LEMMA GiftCardE ==
    ASSUME TInv, TInv', EInv, NEW k \in Card, NEW s \in SaleId, CreateGiftCard(k, s), UNCHANGED mix
    PROVE  EInv'
<1>1. /\ ~ cards[k].issued /\ Fresh(s) /\ sales[s] = None /\ sales'[s] \in Sale
      /\ sales'[s].kind = "GIFT_CARD" /\ sales'[s].customer = None /\ sales'[s].earned = 0
      /\ \A t \in SaleId : t # s => sales'[t] = sales[t]
      /\ \A j \in Card : j # k => cards'[j] = cards[j]
      /\ UNCHANGED <<referral, job>>
  BY GiftCardFacts
<1>2. Steady
  BY <1>1 DEF Steady
<1>3. Keeps
  BY <1>1 DEF Keeps, SameForGood
<1>4. Touches(s)
  BY <1>1, <1>2, <1>3 DEF Touches
<1>5. NewRowsEarn
  BY <1>1 DEF NewRowsEarn, EarnedAsRow
<1>6. Backs(s)
  BY <1>1 DEF Backs, Fresh
<1>7. OpenIsEmpty'
  BY <1>1 DEF EInv, OpenIsEmpty
<1> QED  BY <1>4, <1>5, <1>6, <1>7, TouchesKeeps

(* Without edits an update writes what the row already has. *)
LEMMA EarnsTheSame ==
    ASSUME NEW old \in Sale, EarnedAsRow(old), old.kind \in {"STAFF", "GIFT_CARD"}
    PROVE  EarnedNow(old, NoEdit) = old.earned
BY DEF Merge, NoEdit, NetTotal, EarnedNow, EarnedAsRow, LoyaltyEarnedFor

LEMMA UpdateE ==
    ASSUME TInv, TInv', EInv, NEW w \in Worker, UpdateCommit(w), UNCHANGED mix
    PROVE  EInv'
<1> DEFINE s == job[w].sale
           old == job[w].seen
           edit == job[w].edit
           row == sales[s]
           customer == Merge(old.customer, edit.customer)
           status == Merge(old.status, edit.status)
           moved == customer # old.customer
           money == MoneyBase(Merge(old.total, NetTotal(old, edit)), old.before)
           reverts == old.status = "PAID" /\ (status # "PAID" \/ moved)
           refs == IF reverts THEN RevertReferral(referral, Customer, s) ELSE referral
           completes == status = "PAID" /\ (old.status # "PAID" \/ moved)
<1>1. referral' = IF completes THEN CompleteReferral(refs, customer, money, s) ELSE refs
  BY DEF UpdateCommit, NetTotal
<1>2. /\ job[w].op = "update" /\ s \in SaleId /\ row # None /\ row \in Sale /\ row.kind # "REFUND"
      /\ SameForGood(old, row) /\ sales'[s] \in Sale /\ SameForGood(row, sales'[s]) /\ Done(w)
      /\ \A t \in SaleId : t # s => sales'[t] = sales[t]
      /\ sales'[s].customer = Merge(row.customer, edit.customer)
      /\ sales'[s].status = Merge(row.status, edit.status)
      /\ sales'[s].total = Merge(row.total, NetTotal(old, edit))
      /\ sales'[s].qty = Merge(row.qty, edit.qty)
      /\ sales'[s].earned = EarnedNow(old, edit) /\ UNCHANGED cards
  BY UpdateFacts
<1>3. old \in Sale /\ edit \in Edit /\ referral \in ReferralType /\ s # None /\ sales'[s] # None
  BY <1>2, JobFacts, LedgerFacts, RowIsRow, IdIsNotNone
<1>4. Working(w) /\ Exists(s)
  BY <1>2, <1>3 DEF Working, Exists
<1>5. EditsAlone => old.customer = row.customer /\ old.status = row.status
                    /\ old.earned = row.earned /\ old.qty = row.qty
  BY <1>4 DEF EInv, SeenHolds
<1>6. EditFields = {} => EarnedAsRow(old) /\ EarnedAsRow(row) /\ edit = NoEdit
  BY <1>2, <1>4 DEF EInv, Unedited
<1> HIDE DEF s, old, edit, row, money
<1>7. refs \in ReferralType
  BY <1>3, RevertType, LedgerFacts
<1>8. \A d \in Customer : refs[d] = IF reverts /\ referral[d].sale = s THEN Open ELSE referral[d]
  BY <1>3, RevertFacts
<1>9. \A d \in Customer :
         \/ referral'[d] = refs[d]
         \/ /\ completes /\ d = customer /\ refs[d].sale = None
            /\ referral'[d] = [sale |-> s, awarded |-> Bonus]
  BY <1>1, <1>2, <1>7, CompleteFacts
<1>10. EditFields = {} => customer = old.customer /\ status = old.status
  BY <1>6 DEF Merge, NoEdit
<1>11. EditFields = {} => UNCHANGED referral
  BY <1>1, <1>10
<1>12. EditFields = {} =>
         /\ sales'[s].customer = row.customer /\ sales'[s].status = row.status
         /\ sales'[s].qty = row.qty /\ sales'[s].total = row.total
  BY <1>2, <1>6 DEF Merge, NoEdit, NetTotal
<1>13. EditFields = {} => sales'[s].earned = row.earned
  BY <1>2, <1>3, <1>6, EarnsTheSame, <1>5 DEF Sale, SameForGood, EditsAlone
<1>14. EditFields = {} => Steady
  BY <1>2, <1>12, <1>13 DEF Steady, row
<1> HIDE DEF refs, reverts, completes, moved, customer, status
<1>15. Touches(s)
  <2>1. Keeps
    BY <1>2, <1>3 DEF Keeps, SameForGood, row
  <2>2. /\ \A v \in Worker : job'[v] \in {NoJob, job[v]}
        /\ job'[w] = NoJob
    BY <1>2, DoneFacts
  <2>3. \A c \in Customer : referral'[c] = referral[c]
                            \/ (referral[c].sale \in {None, s} /\ referral'[c].sale \in {None, s})
    <3> SUFFICES ASSUME NEW c \in Customer, referral'[c] # referral[c]
                 PROVE  referral[c].sale \in {None, s} /\ referral'[c].sale \in {None, s}
      OBVIOUS
    <3>1. CASE referral'[c] = refs[c]
      BY <1>8, <3>1 DEF Open
    <3>2. CASE referral'[c] # refs[c]
      BY <1>9, <3>2, <1>8
    <3> QED  BY <3>1, <3>2
  <2>4. job[w].sale = s
    BY DEF s
  <2> QED  BY <1>2, <1>11, <1>14, <2>1, <2>2, <2>3, <2>4 DEF Touches
<1>16. NewRowsEarn
  <2> SUFFICES ASSUME EditFields = {} PROVE EarnedAsRow(sales'[s])
    BY <1>2 DEF NewRowsEarn
  <2> QED  BY <1>2, <1>6, <1>12, <1>13 DEF EarnedAsRow, SameForGood
<1>17. Backs(s)
  <2> SUFFICES ASSUME EditsAlone, NEW c \in Customer, referral'[c].sale = s
               PROVE  sales'[s].status = "PAID" /\ sales'[s].customer = c
    BY <1>3 DEF Backs
  <2>1. sales'[s].status = status /\ sales'[s].customer = customer
    BY <1>2, <1>5 DEF status, customer
  <2>2. CASE completes /\ c = customer
    BY <2>1, <2>2 DEF completes
  <2>3. CASE ~ (completes /\ c = customer)
    BY <1>9, <2>3, <1>3, <1>8, <1>5, <2>1
       DEF Open, EInv, ReferralBacked, row, reverts, moved
  <2> QED  BY <2>2, <2>3
<1>18. OpenIsEmpty'
  BY <1>3, <1>8, <1>9 DEF EInv, OpenIsEmpty, Open
<1> QED  BY <1>2, <1>15, <1>16, <1>17, <1>18, TouchesKeeps

LEMMA DeleteE ==
    ASSUME TInv, TInv', EInv, NEW w \in Worker, DeleteCommit(w), UNCHANGED mix
    PROVE  EInv'
<1> DEFINE s == job[w].sale
<1>1. /\ job[w].op = "deleting" /\ s \in SaleId /\ sales[s] # None /\ Exists(s)
      /\ sales'[s] = None /\ Done(w)
      /\ \A t \in SaleId : t # s => sales'[t] = sales[t]
      /\ \A k \in Card : cards'[k].issued = cards[k].issued
  BY DeleteFacts
<1>2. job[w].reopen \subseteq Customer /\ referral \in ReferralType /\ s # None
  BY <1>1, JobFacts, LedgerFacts, IdIsNotNone
<1>3. referral' = RevertReferral(referral, job[w].reopen, s)
  BY DEF DeleteCommit
<1>4. \A d \in Customer : referral'[d] = IF d \in job[w].reopen /\ referral[d].sale = s THEN Open
                                         ELSE referral[d]
  BY <1>2, <1>3, RevertFacts
<1>5. EditsAlone => job[w].reopen = CompletedBy(s)
  BY <1>1 DEF EInv, LooksHold
<1> HIDE DEF s
<1>6. Steady
  BY <1>1 DEF Steady
<1>7. Touches(s)
  <2>1. Keeps
    BY <1>1 DEF Keeps, SameForGood
  <2>2. /\ \A v \in Worker : job'[v] \in {NoJob, job[v]}
        /\ job'[w] = NoJob
    BY <1>1, DoneFacts
  <2>3. \A c \in Customer : referral'[c] = referral[c]
                            \/ (referral[c].sale \in {None, s} /\ referral'[c].sale \in {None, s})
    <3> SUFFICES ASSUME NEW c \in Customer, referral'[c] # referral[c]
                 PROVE  referral[c].sale \in {None, s} /\ referral'[c].sale \in {None, s}
      OBVIOUS
    <3>1. referral[c].sale = s /\ referral'[c] = Open
      BY <1>4
    <3> QED  BY <3>1 DEF Open
  <2>4. job[w].sale = s
    BY DEF s
  <2> QED  BY <1>1, <1>6, <2>1, <2>2, <2>3, <2>4 DEF Touches
<1>8. NewRowsEarn
  BY <1>1 DEF NewRowsEarn
<1>9. Backs(s)
  BY <1>2, <1>4, <1>5 DEF Backs, CompletedBy, Open
<1>10. OpenIsEmpty'
  BY <1>4 DEF EInv, OpenIsEmpty, Open
<1> QED  BY <1>1, <1>7, <1>8, <1>9, <1>10, TouchesKeeps
LEMMA RefundE ==
    ASSUME TInv, TInv', EInv, NEW w \in Worker, RefundCommit(w), UNCHANGED mix
    PROVE  EInv'
<1> DEFINE s == job[w].sale
           old == job[w].seen
<1>1. /\ job[w].op = "refund" /\ s \in SaleId /\ sales[s] # None /\ Exists(s) /\ sales[s] \in Sale
      /\ sales[s].kind = "GIFT_CARD" /\ old \in Sale /\ old.kind = "GIFT_CARD"
      /\ Done(w) /\ UNCHANGED referral
  BY RefundCards
<1>2. /\ sales'[s] \in Sale /\ SameForGood(sales[s], sales'[s])
      /\ sales'[s].customer = sales[s].customer /\ sales'[s].status = sales[s].status
      /\ sales'[s].qty = sales[s].qty
      /\ sales'[s].earned = IF old.earned > 0 THEN RefundEarned(w) ELSE sales[s].earned
      /\ ~ GivesBack(w) => \A t \in SaleId : t # s => sales'[t] = sales[t]
      /\ GivesBack(w) => \E r \in SaleId :
            /\ Fresh(r) /\ r # s /\ sales'[r] = RefundRow(w)
            /\ \A t \in SaleId : t # s /\ t # r => sales'[t] = sales[t]
  BY RefundRows
<1>3. \A t \in SaleId : t # s => \/ sales'[t] = sales[t]
                                 \/ Fresh(t) /\ sales'[t].kind = "REFUND"
  BY <1>2, RefundTypes
<1>4. s # None /\ sales'[s] # None /\ Working(w)
  BY <1>1, <1>2, RowIsRow, IdIsNotNone DEF Working
<1>5. EditFields = {} => EarnedAsRow(sales[s]) /\ EarnedAsRow(old)
  BY <1>1, <1>4 DEF EInv, Unedited
<1> HIDE DEF s, old
<1>6. EditFields = {} => sales[s].customer = None /\ sales[s].earned = 0 /\ old.earned = 0
  BY <1>1, <1>5 DEF EarnedAsRow
<1>7. EditFields = {} => sales'[s].earned = 0 /\ sales'[s].customer = None
  BY <1>2, <1>6
<1>8. EditFields = {} => Steady
  BY <1>2, <1>3, <1>6, <1>7 DEF Steady, Fresh
<1>9. Touches(s)
  <2>1. Keeps
    BY RefundCards, <1>3, <1>1, <1>2 DEF Keeps, SameForGood
  <2>2. /\ \A v \in Worker : job'[v] \in {NoJob, job[v]}
        /\ job'[w] = NoJob
    BY <1>1, DoneFacts
  <2>3. job[w].sale = s
    BY DEF s
  <2>4. \A t \in SaleId : sales'[t] = sales[t] \/ t = s \/ Fresh(t)
    BY <1>3
  <2> QED  BY <1>1, <1>8, <2>1, <2>2, <2>3, <2>4 DEF Touches
<1>10. NewRowsEarn
  <2> SUFFICES ASSUME EditFields = {}, NEW t \in SaleId, sales'[t] # None,
                      sales'[t].kind # "REFUND", sales'[t] # sales[t]
               PROVE  EarnedAsRow(sales'[t])
    BY DEF NewRowsEarn
  <2>1. t = s
    BY <1>3
  <2> QED  BY <1>1, <1>2, <1>7, <2>1 DEF EarnedAsRow, SameForGood
<1>11. Backs(s)
  BY <1>1, <1>2, <1>4 DEF EInv, ReferralBacked, Backs
<1>12. OpenIsEmpty'
  BY <1>1 DEF EInv, OpenIsEmpty
<1> QED  BY <1>1, <1>9, <1>10, <1>11, <1>12, TouchesKeeps

(* A request ends and leaves rows and referrals as they are. *)
LEMMA EndsE ==
    ASSUME TInv, TInv', EInv, NEW w \in Worker, Done(w), UNCHANGED <<mix, sales, cards, referral>>
    PROVE  EInv'
<1>1. /\ \A v \in Worker : job'[v] \in {NoJob, job[v]}
      /\ job'[w] = NoJob
  BY DoneFacts
<1>2. job[w].sale \in SaleId \cup {None}
  BY JobFacts
<1>3. Touches(job[w].sale)
  BY <1>1, KeepsStays DEF Touches, Steady
<1>4. NewRowsEarn
  BY DEF NewRowsEarn
<1>5. Backs(job[w].sale)
  BY DEF EInv, ReferralBacked, Backs, Exists
<1>6. OpenIsEmpty'
  BY DEF EInv, OpenIsEmpty
<1> QED  BY <1>2, <1>3, <1>4, <1>5, <1>6, TouchesKeeps

(* A request starts and remembers the row it read. *)
LEMMA ReadE ==
    ASSUME TInv, TInv', EInv, UNCHANGED mix, NEW w \in Worker, NEW op \in AllOps,
           NEW s \in SaleId \cup {None}, NEW j \in Job, Read(w, op, s, j),
           op \in {"update", "delete", "refund"} => Exists(s) /\ j.seen = sales[s],
           EditFields = {} /\ op # "stock" => EarnedAsRow(j.seen) /\ j.edit = NoEdit
    PROVE  EInv'
<1>1. /\ \A v \in Worker : v # w => job'[v] = job[v]
      /\ job'[w].op = op /\ job'[w].sale = s /\ job'[w].seen = j.seen /\ job'[w].edit = j.edit
      /\ job[w].op = "idle" /\ UNCHANGED <<sales, referral>>
  BY ReadFacts
<1>2. SharedSales \/ s = None \/ \A v \in Worker : job[v].sale # s
  BY DEF Read
<1>3. SharedSales' = SharedSales /\ EditFields' = EditFields /\ EditsAlone' = EditsAlone
  BY MixStays
<1>4. Working(w)' => op \in {"update", "delete", "refund"}
  BY <1>1 DEF Working, AllOps
<1>5. \A v \in Worker : v # w => (Working(v)' <=> Working(v))
  BY <1>1 DEF Working
<1>6. Alone'
  <2> SUFFICES ASSUME ~ SharedSales
               PROVE  /\ \A u, v \in Worker : u # v /\ job'[u].sale # None => job'[u].sale # job'[v].sale
                      /\ \A v \in Worker : Working(v)' /\ Exists(job[v].sale)' =>
                            job'[v].seen = sales'[job'[v].sale]
    BY <1>3 DEF Alone
  <2>1. \A u, v \in Worker : u # v /\ job'[u].sale # None => job'[u].sale # job'[v].sale
    BY <1>1, <1>2 DEF EInv, Alone
  <2>2. ASSUME NEW v \in Worker, Working(v)', Exists(job[v].sale)'
        PROVE  job'[v].seen = sales'[job'[v].sale]
    BY <1>1, <1>4, <2>2, <1>5 DEF EInv, Alone, Exists
  <2> QED  BY <2>1, <2>2
<1>7. SeenHolds'
  <2> SUFFICES ASSUME EditsAlone, NEW v \in Worker, Working(v)', Exists(job[v].sale)'
               PROVE  LET old == job'[v].seen
                          row == sales'[job'[v].sale]
                      IN  /\ old.customer = row.customer /\ old.status = row.status
                          /\ old.earned = row.earned /\ old.qty = row.qty
    BY <1>3 DEF SeenHolds
  <2>1. CASE v = w
    BY <1>1, <1>4, <2>1
  <2>2. CASE v # w
    BY <1>1, <1>5, <2>2 DEF EInv, SeenHolds, Exists
  <2> QED  BY <2>1, <2>2
<1>8. LooksHold'
  <2> SUFFICES ASSUME EditsAlone, NEW v \in Worker, job'[v].op = "deleting", Exists(job[v].sale)'
               PROVE  /\ job'[v].reopen = CompletedBy(job[v].sale)'
                      /\ job'[v].amount = sales'[job'[v].sale].qty
    BY <1>3 DEF LooksHold
  <2>1. v # w
    BY <1>1 DEF AllOps
  <2>2. job'[v] = job[v] /\ CompletedBy(job[v].sale)' = CompletedBy(job[v].sale)
    BY <1>1, <2>1 DEF CompletedBy
  <2> QED  BY <1>1, <2>2 DEF EInv, LooksHold, Exists
<1>9. Unedited'
  <2> SUFFICES ASSUME EditFields = {}
               PROVE  /\ \A t \in SaleId : Exists(t)' /\ sales'[t].kind # "REFUND" => EarnedAsRow(sales'[t])
                      /\ \A v \in Worker : job'[v].op = "create" \/ Working(v)' =>
                            EarnedAsRow(job'[v].seen) /\ job'[v].edit = NoEdit
    BY <1>3 DEF Unedited, EarnedAsRow
  <2>1. \A t \in SaleId : Exists(t)' /\ sales'[t].kind # "REFUND" => EarnedAsRow(sales'[t])
    BY <1>1 DEF EInv, Unedited, Exists
  <2>2. ASSUME NEW v \in Worker, job'[v].op = "create" \/ Working(v)'
        PROVE  EarnedAsRow(job'[v].seen) /\ job'[v].edit = NoEdit
    BY <1>1, <2>2, <1>5 DEF Working, EInv, Unedited
  <2> QED  BY <2>1, <2>2
<1>10. OpenIsEmpty' /\ ReferralBacked'
  BY <1>1, <1>3 DEF EInv, OpenIsEmpty, ReferralBacked, Exists
<1> QED  BY <1>6, <1>7, <1>8, <1>9, <1>10 DEF EInv

LEMMA CreateSaleE ==
    ASSUME TInv, TInv', EInv, NEW w \in Worker, CreateSale(w), UNCHANGED mix PROVE EInv'
<1>1. /\ mix \in Mixes /\ cards \in [Card -> GiftCard] /\ points \in [Customer -> Int]
  BY DEF TInv, TypeOK
<1>2. PICK status \in {"PENDING", "PAID"}, c \in mix.customers \cup {None}, price \in Prices,
           before \in PaidBefore, k \in {q \in Card : ValidCard(q)} \cup {None}, qty \in Units :
      \E asked \in 0..(IF c = None \/ forgiven[c] > MaxForgiven THEN 0 ELSE AtLeastZero(points[c])) :
        /\ before <= price
        /\ Cardinality(Standing) + Cardinality(Coming) < mix.most
        /\ Read(w, "create", None,
                [NoJob EXCEPT !.seen = NewSale(status, c, price, before, k, asked, qty)])
  BY DEF CreateSale
<1>3. PICK asked \in 0..(IF c = None \/ forgiven[c] > MaxForgiven THEN 0 ELSE AtLeastZero(points[c])) :
        /\ before <= price
        /\ Cardinality(Standing) + Cardinality(Coming) < mix.most
        /\ Read(w, "create", None,
                [NoJob EXCEPT !.seen = NewSale(status, c, price, before, k, asked, qty)])
  BY <1>2
<1>4. /\ c \in Customer \cup {None} /\ price \in Nat /\ before \in Nat /\ qty \in Nat
      /\ k \in Card \cup {None} /\ (k # None => cards[k].remaining > 0)
  BY <1>1, MixTypes DEF ValidCard
<1>5. asked \in Nat
  BY <1>1, <1>4 DEF AtLeastZero
<1>6. PICK row : row = NewSale(status, c, price, before, k, asked, qty)
  OBVIOUS
<1>7. /\ row \in Sale /\ row.kind = "STAFF"
      /\ row.earned = LoyaltyEarnedFor(row.status, MoneyBase(row.total, row.before), row.customer)
  <2>1. before <= price /\ (k # None => cards[k].remaining > 0)
    BY <1>3, <1>4
  <2>2. status \in {"PENDING", "PAID"}
    OBVIOUS
  <2>3. NewRowOK(NewSale(status, c, price, before, k, asked, qty), c, k)
    BY ONLY <1>1, <1>4, <1>5, <2>1, <2>2, NewSaleType, Zenon
  <2> QED  BY <1>6, <2>3 DEF NewRowOK
<1>8. PICK j : j = [NoJob EXCEPT !.seen = row]
  OBVIOUS
<1>9. j \in Job /\ j.seen = row /\ j.edit = NoEdit
  BY <1>7, <1>8, NoneTypes DEF NoJob, Job
<1>10. Read(w, "create", None, j)
  BY <1>3, <1>6, <1>8
<1>11. EarnedAsRow(row)
  BY <1>7 DEF EarnedAsRow
<1> QED  BY <1>9, <1>10, <1>11, ReadE DEF AllOps
LEMMA EarnedRead ==
    ASSUME EInv, NEW s \in SaleId, Exists(s), sales[s].kind # "REFUND", EditFields = {}
    PROVE  EarnedAsRow(sales[s])
BY DEF EInv, Unedited

LEMMA OnlyNoEdit == ASSUME EditFields = {}, NEW edit \in Edits PROVE edit = NoEdit
BY DEF Edits, Named, NoEdit

LEMMA UpdateSaleE ==
    ASSUME TInv, TInv', EInv, NEW w \in Worker, NEW s \in SaleId, UpdateSale(w, s), UNCHANGED mix
    PROVE  EInv'
<1>1. PICK edit \in Edits :
        /\ Exists(s) /\ sales[s].kind # "REFUND"
        /\ Read(w, "update", s, [NoJob EXCEPT !.seen = sales[s], !.edit = edit])
  BY DEF UpdateSale
<1>2. sales[s] \in Sale
  BY <1>1, RowFacts DEF Exists
<1>3. edit \in Edit
  BY EditType DEF TInv, TypeOK
<1>4. PICK j : j = [NoJob EXCEPT !.seen = sales[s], !.edit = edit]
  OBVIOUS
<1>5. j \in Job /\ j.seen = sales[s] /\ j.edit = edit
  BY <1>2, <1>3, <1>4, NoneTypes DEF NoJob, Job
<1>6. Read(w, "update", s, j)
  BY <1>1, <1>4
<1>7. EditFields = {} => EarnedAsRow(j.seen) /\ j.edit = NoEdit
  BY <1>1, <1>5, EarnedRead, OnlyNoEdit
<1> QED  BY <1>1, <1>5, <1>6, <1>7, ReadE DEF AllOps

LEMMA DeleteSaleE ==
    ASSUME TInv, TInv', EInv, NEW w \in Worker, NEW s \in SaleId, DeleteSale(w, s), UNCHANGED mix
    PROVE  EInv'
<1>1. /\ Exists(s) /\ sales[s].kind # "REFUND"
      /\ Read(w, "delete", s, [NoJob EXCEPT !.seen = sales[s]])
  BY DEF DeleteSale
<1>2. sales[s] \in Sale
  BY <1>1, RowFacts DEF Exists
<1>3. PICK j : j = [NoJob EXCEPT !.seen = sales[s]]
  OBVIOUS
<1>4. j \in Job /\ j.seen = sales[s] /\ j.edit = NoEdit
  BY <1>2, <1>3, NoneTypes DEF NoJob, Job
<1>5. Read(w, "delete", s, j)
  BY <1>1, <1>3
<1>6. EditFields = {} => EarnedAsRow(j.seen) /\ j.edit = NoEdit
  BY <1>1, <1>4, EarnedRead
<1> QED  BY <1>1, <1>4, <1>5, <1>6, ReadE DEF AllOps

LEMMA RefundIssuedRemainderE ==
    ASSUME TInv, TInv', EInv, NEW w \in Worker, NEW k \in Card, RefundIssuedRemainder(w, k),
           UNCHANGED mix
    PROVE  EInv'
<1> DEFINE s == cards[k].sale
<1>1. /\ Exists(s)
      /\ Read(w, "refund", s,
              [NoJob EXCEPT !.seen = sales[s], !.card = k, !.amount = cards[k].remaining])
  BY DEF RefundIssuedRemainder
<1>2. s \in SaleId /\ s # None /\ cards[k].remaining \in Int
  BY <1>1 DEF TInv, TypeOK, GiftCard, Exists
<1>3. sales[s] \in Sale /\ sales[s].kind = "GIFT_CARD"
  BY <1>1, <1>2, RowFacts DEF Exists, TInv, CardsOK
<1>4. PICK j : j = [NoJob EXCEPT !.seen = sales[s], !.card = k, !.amount = cards[k].remaining]
  OBVIOUS
<1>5. j \in Job /\ j.seen = sales[s] /\ j.edit = NoEdit
  BY <1>2, <1>3, <1>4, NoneTypes DEF NoJob, Job
<1>6. Read(w, "refund", s, j)
  BY <1>1, <1>4
<1> HIDE DEF s
<1>7. EditFields = {} => EarnedAsRow(j.seen) /\ j.edit = NoEdit
  BY <1>1, <1>2, <1>3, <1>5, EarnedRead
<1> QED  BY <1>1, <1>2, <1>5, <1>6, <1>7, ReadE DEF AllOps

LEMMA AdjustInventoryE ==
    ASSUME TInv, TInv', EInv, NEW w \in Worker, AdjustInventory(w), UNCHANGED mix PROVE EInv'
<1>1. PICK change \in {-1, 1} \cup {counted - stock : counted \in 0..1} :
        Read(w, "stock", None, [NoJob EXCEPT !.amount = change])
  BY DEF AdjustInventory
<1>2. change \in Int
  BY DEF TInv, TypeOK
<1>3. PICK j : j = [NoJob EXCEPT !.amount = change]
  OBVIOUS
<1>4. j \in Job
  BY <1>2, <1>3, NoneTypes DEF NoJob, Job
<1>5. Read(w, "stock", None, j)
  BY <1>1, <1>3
<1> QED  BY <1>4, <1>5, ReadE DEF AllOps

LEMMA DeleteLooksE ==
    ASSUME TInv, TInv', EInv, NEW w \in Worker, DeleteLooks(w), UNCHANGED mix PROVE EInv'
<1> DEFINE s == job[w].sale
<1>1. /\ job[w].op = "delete"
      /\ job' = [job EXCEPT ![w].op = "deleting", ![w].reopen = CompletedBy(s),
                            ![w].amount = MovementsOf(s)]
      /\ UNCHANGED <<sales, referral>>
  BY DEF DeleteLooks
<1>2. job \in [Worker -> Job] /\ job[w] \in Job
  BY DEF TInv, TypeOK
<1> HIDE DEF s
<1>3. /\ \A v \in Worker : v # w => job'[v] = job[v]
      /\ job'[w].op = "deleting" /\ job'[w].sale = job[w].sale /\ job'[w].seen = job[w].seen
      /\ job'[w].edit = job[w].edit /\ job'[w].reopen = CompletedBy(s)
      /\ job'[w].amount = MovementsOf(s)
  BY <1>1, <1>2 DEF Job
<1>4. \A v \in Worker :
        /\ Working(v)' <=> Working(v)
        /\ job'[v].op = "create" <=> job[v].op = "create"
        /\ job'[v].sale = job[v].sale /\ job'[v].seen = job[v].seen /\ job'[v].edit = job[v].edit
  BY <1>1, <1>3 DEF Working
<1>5. SharedSales' = SharedSales /\ EditFields' = EditFields /\ EditsAlone' = EditsAlone
  BY MixStays
<1>6. \A v \in Worker : Exists(job[v].sale)' <=> Exists(job[v].sale)
  BY <1>1, <1>4 DEF Exists
<1>7. Alone' /\ SeenHolds'
  <2>1. ASSUME NEW v \in Worker, Working(v)', Exists(job[v].sale)'
        PROVE  /\ Working(v) /\ Exists(job[v].sale)
               /\ job'[v].seen = job[v].seen /\ sales'[job'[v].sale] = sales[job[v].sale]
    BY <1>1, <1>4, <1>6, <2>1
  <2>2. Alone'
    BY <1>4, <1>5, <2>1 DEF EInv, Alone
  <2>3. SeenHolds'
    BY <1>5, <2>1 DEF EInv, SeenHolds
  <2> QED  BY <2>2, <2>3
<1>8. Unedited'
  <2>1. ASSUME NEW v \in Worker, job'[v].op = "create" \/ Working(v)'
        PROVE  /\ job[v].op = "create" \/ Working(v)
               /\ job'[v].seen = job[v].seen /\ job'[v].edit = job[v].edit
    BY <1>4, <2>1
  <2> QED  BY <1>1, <1>5, <2>1 DEF EInv, Unedited, Exists, EarnedAsRow
<1>9. LooksHold'
  <2> SUFFICES ASSUME EditsAlone, NEW v \in Worker, job'[v].op = "deleting", Exists(job[v].sale)'
               PROVE  /\ job'[v].reopen = CompletedBy(job[v].sale)'
                      /\ job'[v].amount = sales'[job'[v].sale].qty
    BY <1>5 DEF LooksHold
  <2>1. Exists(job[v].sale) /\ CompletedBy(job[v].sale)' = CompletedBy(job[v].sale)
    BY <1>1, <1>4 DEF Exists, CompletedBy
  <2>2. CASE v = w
    BY <1>1, <1>3, <2>1, <2>2 DEF MovementsOf, s
  <2>3. CASE v # w
    BY <1>1, <1>3, <2>1, <2>3 DEF EInv, LooksHold
  <2> QED  BY <2>2, <2>3
<1>10. OpenIsEmpty' /\ ReferralBacked'
  BY <1>1, <1>5 DEF EInv, OpenIsEmpty, ReferralBacked, Exists
<1> QED  BY <1>7, <1>8, <1>9, <1>10 DEF EInv

LEMMA LooksE ==
    ASSUME TInv, TInv', EInv, NEW w \in Worker, Looks(w), UNCHANGED mix PROVE EInv'
BY EndsE, CreateSaleE, UpdateSaleE, DeleteSaleE, RefundIssuedRemainderE,
   AdjustInventoryE, DeleteLooksE
   DEF CreateFails, UpdateFails, DeleteFails, RefundFails, AdjustFails, AdjustCommit,
       Rollback, Looks

LEMMA StutterE ==
    ASSUME TInv, EInv, UNCHANGED <<mix, sales, referral, job>> PROVE EInv'
BY MixStays
   DEF EInv, Unedited, Exists, EarnedAsRow, Working, Alone, SeenHolds, LooksHold,
       OpenIsEmpty, ReferralBacked, CompletedBy

LEMMA InitE == Init => EInv
BY DEF Init, EInv, Unedited, Alone, SeenHolds, LooksHold, OpenIsEmpty, ReferralBacked, Exists, Working,
       NoJob, Open

LEMMA NextE == TInv /\ TInv' /\ EInv /\ [Next]_vars => EInv'
<1> SUFFICES ASSUME TInv, TInv', EInv, [Next]_vars PROVE EInv'
  OBVIOUS
<1>1. CASE UNCHANGED vars
  BY <1>1, StutterE DEF vars
<1>2. CASE Next
  BY <1>2, Steps, StutterE, LooksE, UpdateE, DeleteE, RefundE, CreateE, GiftCardE
     DEF SetGiftCardActive
<1> QED  BY <1>1, <1>2

(* A referral that was paid names a sale that stands, is paid and belongs   *)
(* to the referred customer.  Requests on one sale may overlap when the     *)
(* screens send no edits, and edits may be sent when requests on one sale   *)
(* do not overlap (completeReferralIfPaid, revertReferralOfSale).           *)
THEOREM CheckoutReferralBacked == Spec => []ReferralBacked
<1>1. Spec => []TInv
  BY InitT, NextT, PTL DEF Spec
<1>2. Spec => []EInv
  BY <1>1, InitE, NextE, PTL DEF Spec
<1>3. EInv => ReferralBacked
  BY DEF EInv
<1> QED  BY <1>2, <1>3, PTL
----------------------------------------------------------------------------
(* The stock *)

UnitsOut == SumFunctionOnSet([s \in SaleId |-> UnitsOf(sales[s])], SaleId)

LEMMA UnitsType == ASSUME NEW row \in Sale \cup {None} PROVE UnitsOf(row) \in Nat
BY DEF UnitsOf, Sale

LEMMA UnitsOutType == ASSUME TypeOK PROVE UnitsOut \in Int
<1> DEFINE f == [s \in SaleId |-> UnitsOf(sales[s])]
<1>1. \A s \in SaleId : sales[s] \in Sale \cup {None}
  BY DEF TypeOK
<1>2. \A s \in SaleId : UnitsOf(sales[s]) \in Nat
  BY <1>1, UnitsType
<1>3. \A s \in SaleId : f[s] \in Int
  BY <1>2
<1> HIDE DEF f
<1>4. SumFunctionOnSet(f, SaleId) \in Int
  BY <1>3, SumType, TablesAssumption
<1> QED  BY <1>4 DEF UnitsOut, f

LEMMA UnitsChange ==
    ASSUME TypeOK, TypeOK', NEW s \in SaleId,
           \A t \in SaleId : t # s => UnitsOf(sales'[t]) = UnitsOf(sales[t])
    PROVE  UnitsOut' = UnitsOut + UnitsOf(sales'[s]) - UnitsOf(sales[s])
<1> DEFINE f == [t \in SaleId |-> UnitsOf(sales[t])]
           g == [t \in SaleId |-> UnitsOf(sales'[t])]
<1>1. \A t \in SaleId : UnitsOf(sales[t]) \in Nat /\ UnitsOf(sales'[t]) \in Nat
  BY UnitsType DEF TypeOK
<1>2. /\ \A t \in SaleId : f[t] \in Int
      /\ \A t \in SaleId : g[t] \in Int
      /\ \A t \in SaleId : t # s => g[t] = f[t]
      /\ f[s] = UnitsOf(sales[s]) /\ g[s] = UnitsOf(sales'[s])
  BY <1>1
<1> HIDE DEF f, g
<1>3. SumFunctionOnSet(g, SaleId) = SumFunctionOnSet(f, SaleId) + g[s] - f[s]
  BY <1>2, SumChange, TablesAssumption
<1> QED  BY <1>2, <1>3 DEF UnitsOut, f, g

UInv == EditsAlone => stock = manual - UnitsOut

LEMMA UnitsKept ==
    ASSUME UInv, UNCHANGED <<mix, sales, stock, manual>> PROVE UInv'
BY MixStays DEF UInv, UnitsOut

(* What leaves the stock is in the rows. *)
LEMMA UnitsMoved ==
    ASSUME TInv, UInv, UNCHANGED <<mix, manual>>, NEW d \in Int,
           EditsAlone => UnitsOut' = UnitsOut + d, EditsAlone => stock' = stock - d
    PROVE  UInv'
<1>1. UnitsOut \in Int /\ stock \in Int /\ manual \in Int
  BY UnitsOutType DEF TInv, TypeOK
<1>2. EditsAlone' = EditsAlone /\ manual' = manual
  BY MixStays
<1>3. ASSUME EditsAlone PROVE stock' = manual - UnitsOut'
  BY <1>1, <1>3 DEF UInv
<1> QED  BY <1>2, <1>3 DEF UInv

LEMMA CreateU ==
    ASSUME TInv, TInv', UInv, NEW w \in Worker, NEW s \in SaleId, CreateCommit(w, s), UNCHANGED mix
    PROVE  UInv'
<1> DEFINE row == job[w].seen
<1>1. /\ sales[s] = None /\ row \in Sale /\ sales'[s] = row
      /\ \A t \in SaleId : t # s => sales'[t] = sales[t]
      /\ stock' = stock - row.qty /\ UNCHANGED manual
  BY CreateFacts
<1> HIDE DEF row
<1>2. UnitsOut' = UnitsOut + UnitsOf(row) - UnitsOf(None)
  BY <1>1, UnitsChange DEF TInv
<1>3. UnitsOf(row) = row.qty /\ UnitsOf(None) = 0 /\ row.qty \in Int
  BY <1>1, RowIsRow DEF UnitsOf, Sale
<1>4. UnitsOut' = UnitsOut + (row.qty) /\ stock' = stock - (row.qty) /\ (row.qty) \in Int
  BY <1>1, <1>2, <1>3, UnitsOutType DEF TInv, TypeOK
<1> QED  BY <1>1, <1>4, UnitsMoved

LEMMA GiftCardU ==
    ASSUME TInv, TInv', UInv, NEW k \in Card, NEW s \in SaleId, CreateGiftCard(k, s), UNCHANGED mix
    PROVE  UInv'
BY GiftCardFacts, UnitsChange, UnitsOutType, UnitsMoved DEF TInv, UnitsOf, TypeOK

LEMMA UpdateU ==
    ASSUME TInv, TInv', UInv, NEW w \in Worker, UpdateCommit(w), UNCHANGED mix
    PROVE  UInv'
<1> DEFINE s == job[w].sale
           row == sales[s]
           next == sales'[s]
<1>1. /\ s \in SaleId /\ row \in Sale /\ next \in Sale
      /\ \A t \in SaleId : t # s => sales'[t] = sales[t]
      /\ stock' = stock + row.qty - next.qty /\ UNCHANGED manual
  BY UpdateFacts
<1>2. UnitsOut' = UnitsOut + UnitsOf(next) - UnitsOf(row)
  BY <1>1, UnitsChange DEF TInv
<1> HIDE DEF s, row, next
<1>3. UnitsOf(row) = row.qty /\ UnitsOf(next) = next.qty /\ row.qty \in Int /\ next.qty \in Int
  BY <1>1, RowIsRow DEF UnitsOf, Sale
<1>4. UnitsOut' = UnitsOut + (next.qty - row.qty) /\ stock' = stock - (next.qty - row.qty) /\ (next.qty - row.qty) \in Int
  BY <1>1, <1>2, <1>3, UnitsOutType DEF TInv, TypeOK
<1> QED  BY <1>1, <1>4, UnitsMoved

LEMMA DeleteU ==
    ASSUME TInv, TInv', EInv, UInv, NEW w \in Worker, DeleteCommit(w), UNCHANGED mix
    PROVE  UInv'
<1> DEFINE s == job[w].sale
           row == sales[s]
<1>1. /\ job[w].op = "deleting" /\ s \in SaleId /\ row \in Sale /\ Exists(s) /\ sales'[s] = None
      /\ \A t \in SaleId : t # s => sales'[t] = sales[t]
      /\ stock' = stock + job[w].amount /\ UNCHANGED manual
  BY DeleteFacts
<1>2. EditsAlone => job[w].amount = row.qty
  BY <1>1 DEF EInv, LooksHold
<1>3. UnitsOut' = UnitsOut + UnitsOf(None) - UnitsOf(row)
  BY <1>1, UnitsChange DEF TInv
<1> HIDE DEF s, row
<1>4. UnitsOf(row) = row.qty /\ UnitsOf(None) = 0 /\ row.qty \in Int
  BY <1>1, RowIsRow DEF UnitsOf, Sale
<1>5. /\ UnitsOut' = UnitsOut + (- row.qty) /\ (- row.qty) \in Int
      /\ EditsAlone => stock' = stock - (- row.qty)
  BY <1>1, <1>2, <1>3, <1>4, UnitsOutType DEF TInv, TypeOK
<1> QED  BY <1>1, <1>5, UnitsMoved

LEMMA RefundU ==
    ASSUME TInv, TInv', UInv, NEW w \in Worker, RefundCommit(w), UNCHANGED mix
    PROVE  UInv'
<1> DEFINE s == job[w].sale
<1>1. s \in SaleId /\ sales[s] \in Sale /\ UNCHANGED <<stock, manual>>
  BY RefundCards
<1>2. /\ sales'[s] \in Sale /\ sales'[s].qty = sales[s].qty
      /\ ~ GivesBack(w) => \A t \in SaleId : t # s => sales'[t] = sales[t]
      /\ GivesBack(w) => \E r \in SaleId :
            /\ Fresh(r) /\ r # s /\ sales'[r] = RefundRow(w)
            /\ \A t \in SaleId : t # s /\ t # r => sales'[t] = sales[t]
  BY RefundRows
<1>3. RefundRow(w).qty = 0
  BY RefundTypes
<1> HIDE DEF s
<1>4. UnitsOf(sales'[s]) = UnitsOf(sales[s])
  BY <1>1, <1>2, RowIsRow DEF UnitsOf
<1>5. \A t \in SaleId : UnitsOf(sales'[t]) = UnitsOf(sales[t])
  <2>1. CASE ~ GivesBack(w)
    BY <1>2, <1>4, <2>1
  <2>2. CASE GivesBack(w)
    <3>1. PICK r \in SaleId :
             /\ Fresh(r) /\ r # s /\ sales'[r] = RefundRow(w)
             /\ \A t \in SaleId : t # s /\ t # r => sales'[t] = sales[t]
      BY <1>2, <2>2
    <3>2. UnitsOf(sales'[r]) = 0 /\ UnitsOf(sales[r]) = 0
      BY <1>3, <3>1 DEF UnitsOf, Fresh
    <3> QED  BY <1>4, <3>1, <3>2
  <2> QED  BY <2>1, <2>2
<1>6. [t \in SaleId |-> UnitsOf(sales'[t])] = [t \in SaleId |-> UnitsOf(sales[t])]
  BY <1>5
<1>7. UnitsOut' = UnitsOut
  BY <1>6 DEF UnitsOut
<1> QED  BY <1>1, <1>7, MixStays DEF UInv

LEMMA AdjustU ==
    ASSUME TInv, UInv, NEW w \in Worker, AdjustCommit(w), UNCHANGED mix
    PROVE  UInv'
<1>1. stock' = stock + job[w].amount /\ manual' = manual + job[w].amount /\ UNCHANGED sales
  BY DEF AdjustCommit
<1>2. job[w].amount \in Int /\ UnitsOut \in Int /\ stock \in Int /\ manual \in Int
  BY JobFacts, UnitsOutType DEF TInv, TypeOK
<1>3. UnitsOut' = UnitsOut
  BY <1>1 DEF UnitsOut
<1>4. UInv => (EditsAlone => stock' = manual' - UnitsOut')
  BY <1>1, <1>2, <1>3 DEF UInv
<1> QED  BY <1>4, MixStays DEF UInv

LEMMA NextU == TInv /\ TInv' /\ EInv /\ UInv /\ [Next]_vars => UInv'
<1> SUFFICES ASSUME TInv, TInv', EInv, UInv, [Next]_vars PROVE UInv'
  OBVIOUS
<1>1. CASE UNCHANGED vars
  BY <1>1, UnitsKept DEF vars
<1>2. CASE Next
  <2>1. UNCHANGED mix
    BY <1>2, Steps
  <2>2. ASSUME NEW k \in Card, SetGiftCardActive(k) PROVE UInv'
    BY <2>1, <2>2, UnitsKept DEF SetGiftCardActive, ghosts
  <2>3. ASSUME NEW w \in Worker, Looks(w) PROVE UInv'
    <3>1. CASE AdjustCommit(w)
      BY <2>1, <3>1, AdjustU
    <3>2. CASE ~ AdjustCommit(w)
      <4>1. UNCHANGED <<sales, stock, manual>>
        BY <2>3, <3>2, ZenonT(60) DEF Looks, CreateSale, DeleteLooks, AdjustInventory, AdjustFails, CreateFails,
           UpdateFails, DeleteFails, RefundFails, UpdateSale, DeleteSale, RefundIssuedRemainder,
           Read, Rollback, ghosts
      <4> QED  BY <2>1, <4>1, UnitsKept
    <3> QED  BY <3>1, <3>2
  <2> QED  BY <1>2, <2>1, <2>2, <2>3, Steps, UpdateU, DeleteU, RefundU, CreateU, GiftCardU
<1> QED  BY <1>1, <1>2

(* The quantity in stock is what was put there by hand less the units in    *)
(* the sales that stand: the transaction of deleteSale returns what the     *)
(* sale has when it is deleted, although it looked at its movements before. *)
THEOREM CheckoutStockKept == Spec => []StockKept
<1>1. Init => UInv
  <2> SUFFICES ASSUME Init PROVE UInv
    OBVIOUS
  <2> DEFINE f == [s \in SaleId |-> UnitsOf(sales[s])]
  <2>1. \A s \in SaleId : f[s] = 0
    BY DEF Init, UnitsOf
  <2> HIDE DEF f
  <2>2. SumFunctionOnSet(f, SaleId) = 0
    BY <2>1, SumZero, TablesAssumption
  <2>3. UnitsOut = 0
    BY <2>2 DEF UnitsOut, f
  <2> QED  BY <2>3 DEF Init, UInv
<1>2. Spec => []TInv
  BY InitT, NextT, PTL DEF Spec
<1>3. Spec => []EInv
  BY <1>2, InitE, NextE, PTL DEF Spec
<1>4. Spec => []UInv
  BY <1>1, <1>2, <1>3, NextU, PTL DEF Spec
<1>5. UInv => StockKept
  BY DEF UInv, UnitsOut, StockKept
<1> QED  BY <1>4, <1>5, PTL
----------------------------------------------------------------------------
(* The points *)

Awards(refs, c) == SumFunctionOnSet(AwardedTo(refs, c), Customer)
RowPoints(c) == SumFunctionOnSet([s \in SaleId |-> PointsOf(sales[s], c)], SaleId)

(* What a customer has that no referral gave *)
Own(l, refs, c) == Net(l, c) - Awards(refs, c)

EmptyWhenOpen(refs) == \A c \in Customer : refs[c].sale = None => refs[c].awarded = 0

LEMMA AwardType ==
    ASSUME NEW refs \in ReferralType, NEW c
    PROVE  \A r \in Customer : AwardedTo(refs, c)[r] \in Int
BY DEF AwardedTo, ReferralType

LEMMA AwardsType == ASSUME NEW refs \in ReferralType, NEW c PROVE Awards(refs, c) \in Int
<1> DEFINE f == AwardedTo(refs, c)
<1>1. \A r \in Customer : f[r] \in Int
  BY AwardType
<1> HIDE DEF f
<1>2. SumFunctionOnSet(f, Customer) \in Int
  BY <1>1, SumType, TablesAssumption
<1> QED  BY <1>2 DEF Awards, f

LEMMA NetType == ASSUME NEW l \in LedgerType, NEW c \in Customer PROVE Net(l, c) \in Int
BY DEF LedgerType, Net

(* One referral changes. *)
LEMMA AwardsChange ==
    ASSUME NEW refs \in ReferralType, NEW new \in ReferralType, NEW r \in Customer, NEW c,
           \A d \in Customer : d # r => new[d] = refs[d]
    PROVE  Awards(new, c) = Awards(refs, c)
                              + (IF Referrer[r] = c THEN new[r].awarded - refs[r].awarded ELSE 0)
<1> DEFINE f == AwardedTo(refs, c)
           g == AwardedTo(new, c)
<1>1. /\ \A d \in Customer : f[d] \in Int
      /\ \A d \in Customer : g[d] \in Int
  BY AwardType
<1>0. \A d \in Customer : d # r => g[d] = f[d]
  BY DEF AwardedTo
<1>2. /\ f[r] = IF Referrer[r] = c THEN refs[r].awarded ELSE 0
      /\ g[r] = IF Referrer[r] = c THEN new[r].awarded ELSE 0
  BY DEF AwardedTo
<1>3. refs[r].awarded \in Int /\ new[r].awarded \in Int /\ Awards(refs, c) \in Int
  BY AwardsType DEF ReferralType
<1> HIDE DEF f, g
<1>4. SumFunctionOnSet(g, Customer) = SumFunctionOnSet(f, Customer) + g[r] - f[r]
  BY ONLY <1>0, <1>1, SumChange, TablesAssumption, r \in Customer
<1>5. Awards(new, c) = Awards(refs, c) + g[r] - f[r]
  BY <1>4 DEF Awards, f, g
<1> QED  BY <1>2, <1>3, <1>5

LEMMA PayOwn ==
    ASSUME NEW l \in LedgerType, NEW refs \in ReferralType, NEW r \in Customer \cup {None},
           NEW money, NEW s \in SaleId, EmptyWhenOpen(refs), NEW c \in Customer
    PROVE  Own(PayReferrer(l, refs, r, money), CompleteReferral(refs, r, money, s), c) = Own(l, refs, c)
<1>1. CASE ~ Completes(refs, r, money)
  BY <1>1 DEF PayReferrer, CompleteReferral
<1>2. CASE Completes(refs, r, money)
  <2> DEFINE new == CompleteReferral(refs, r, money, s)
             paid == PayReferrer(l, refs, r, money)
  <2>1. /\ r \in Customer /\ Referrer[r] \in Customer /\ refs[r].sale = None /\ refs[r].awarded = 0
        /\ new = [refs EXCEPT ![r] = [sale |-> s, awarded |-> Bonus]]
        /\ paid = Credit(l, Referrer[r], Bonus)
    BY <1>2, ReferrerAssumption DEF Completes, CompleteReferral, PayReferrer, EmptyWhenOpen
  <2>2. new \in ReferralType
    BY CompleteType
  <2>3. new[r].awarded = Bonus /\ \A d \in Customer : d # r => new[d] = refs[d]
    BY <2>1 DEF ReferralType
  <2>4. Bonus \in Int
    BY ConstTypes
  <2>5. Net(paid, c) = Net(l, c) + (IF c = Referrer[r] THEN Bonus ELSE 0)
    BY <2>1, <2>4, CreditFacts
  <2> HIDE DEF new, paid
  <2>6. Awards(new, c) = Awards(refs, c) + (IF Referrer[r] = c THEN new[r].awarded - refs[r].awarded ELSE 0)
    <3>1. r \in Customer
      BY <2>1
    <3> QED  BY <2>2, <2>3, <3>1, AwardsChange
  <2>7. Net(l, c) \in Int /\ Awards(refs, c) \in Int
    BY NetType, AwardsType
  <2>8. Own(paid, new, c) = Own(l, refs, c)
    BY <2>1, <2>3, <2>4, <2>5, <2>6, <2>7 DEF Own
  <2> QED  BY <2>8 DEF paid, new
<1> QED  BY <1>1, <1>2

LEMMA TakeOwn ==
    ASSUME NEW l \in LedgerType, NEW refs \in ReferralType, NEW R \in SUBSET Customer,
           NEW s \in SaleId, EmptyWhenOpen(refs), NEW c \in Customer,
           \A d, e \in R : refs[d].sale = s /\ refs[e].sale = s => d = e
    PROVE  Own(TakeBonus(l, refs, R, s), RevertReferral(refs, R, s), c) = Own(l, refs, c)
<1> DEFINE new == RevertReferral(refs, R, s)
<1>1. /\ new \in ReferralType
      /\ \A d \in Customer : new[d] = IF d \in R /\ refs[d].sale = s THEN Open ELSE refs[d]
  BY RevertType, RevertFacts
<1>2. CASE ~ \E r \in R : refs[r].sale = s
  BY <1>1, <1>2 DEF ReferralType, TakeBonus
<1>3. CASE \E r \in R : refs[r].sale = s
  <2>1. PICK r : r = CHOOSE d \in R : refs[d].sale = s
    OBVIOUS
  <2>2. r \in R /\ refs[r].sale = s
    BY <1>3, <2>1
  <2>3. r \in Customer /\ \A d \in Customer : d # r => new[d] = refs[d]
    BY <1>1, <2>2
  <2>4. new[r].awarded = 0
    BY <1>1, <2>2, <2>3 DEF Open
  <2>5. Referrer[r] \in Customer \cup {None} /\ - refs[r].awarded \in Int /\ refs[r].awarded \in Int
    BY <2>3, ReferrerAssumption DEF ReferralType
  <2>6. TakeBonus(l, refs, R, s) = AddLoyaltyPoints(l, Referrer[r], - refs[r].awarded)
    BY <1>3, <2>1 DEF TakeBonus
  <2>7. Net(TakeBonus(l, refs, R, s), c)
          = Net(l, c) + (IF c = Referrer[r] THEN - refs[r].awarded ELSE 0)
    BY <2>5, <2>6, AddFacts
  <2> HIDE DEF new
  <2>8. Awards(new, c) = Awards(refs, c) + (IF Referrer[r] = c THEN new[r].awarded - refs[r].awarded ELSE 0)
    BY <1>1, <2>3, AwardsChange
  <2>9. Net(l, c) \in Int /\ Awards(refs, c) \in Int
    BY NetType, AwardsType
  <2>10. Own(TakeBonus(l, refs, R, s), new, c) = Own(l, refs, c)
    BY <2>4, <2>5, <2>7, <2>8, <2>9 DEF Own
  <2> QED  BY <2>10 DEF new
<1> QED  BY <1>2, <1>3

LEMMA PointsOfType ==
    ASSUME NEW row \in Sale \cup {None}, NEW c PROVE PointsOf(row, c) \in Int
BY DEF PointsOf, Sale

LEMMA RowPointsType == ASSUME TypeOK, NEW c PROVE RowPoints(c) \in Int
<1> DEFINE f == [s \in SaleId |-> PointsOf(sales[s], c)]
<1>1. \A s \in SaleId : sales[s] \in Sale \cup {None}
  BY DEF TypeOK
<1>2. \A s \in SaleId : PointsOf(sales[s], c) \in Int
  BY <1>1, PointsOfType
<1>3. \A s \in SaleId : f[s] \in Int
  BY <1>2
<1> HIDE DEF f
<1>4. SumFunctionOnSet(f, SaleId) \in Int
  BY <1>3, SumType, TablesAssumption
<1> QED  BY <1>4 DEF RowPoints, f

LEMMA RowPointsChange ==
    ASSUME TypeOK, TypeOK', NEW c, NEW s \in SaleId,
           \A t \in SaleId : t # s => PointsOf(sales'[t], c) = PointsOf(sales[t], c)
    PROVE  SumFunctionOnSet([t \in SaleId |-> PointsOf(sales'[t], c)], SaleId)
             = RowPoints(c) + PointsOf(sales'[s], c) - PointsOf(sales[s], c)
<1> DEFINE f == [t \in SaleId |-> PointsOf(sales[t], c)]
           g == [t \in SaleId |-> PointsOf(sales'[t], c)]
<1>1. \A t \in SaleId : PointsOf(sales[t], c) \in Int /\ PointsOf(sales'[t], c) \in Int
  BY PointsOfType DEF TypeOK
<1>2. /\ \A t \in SaleId : f[t] \in Int
      /\ \A t \in SaleId : g[t] \in Int
      /\ \A t \in SaleId : t # s => g[t] = f[t]
      /\ f[s] = PointsOf(sales[s], c) /\ g[s] = PointsOf(sales'[s], c)
  BY <1>1
<1> HIDE DEF f, g
<1>3. SumFunctionOnSet(g, SaleId) = SumFunctionOnSet(f, SaleId) + g[s] - f[s]
  BY <1>2, SumChange, TablesAssumption
<1> QED  BY <1>2, <1>3 DEF RowPoints, f, g

PInv == EditsAlone => \A c \in Customer : Own(Ledger, referral, c) = StartPoints + RowPoints(c)

(* A step gives a customer what it writes in the row. *)
LEMMA PointsMoved ==
    ASSUME TInv, TInv', PInv, UNCHANGED mix, NEW l \in LedgerType, SetPoints(l),
           EditsAlone => \E s \in SaleId :
              /\ \A c \in Customer, t \in SaleId :
                    t # s => PointsOf(sales'[t], c) = PointsOf(sales[t], c)
              /\ \A c \in Customer : Own(l, referral', c) = Own(Ledger, referral, c)
                                        + PointsOf(sales'[s], c) - PointsOf(sales[s], c)
    PROVE  PInv'
<1>1. Ledger' = l
  BY DEF SetPoints, Ledger, LedgerType
<1>2. ASSUME EditsAlone, NEW c \in Customer PROVE Own(l, referral', c) = StartPoints + RowPoints(c)'
  <2>1. PICK s \in SaleId :
              /\ \A t \in SaleId : t # s => PointsOf(sales'[t], c) = PointsOf(sales[t], c)
              /\ Own(l, referral', c) = Own(Ledger, referral, c)
                                          + PointsOf(sales'[s], c) - PointsOf(sales[s], c)
    BY <1>2
  <2>2. RowPoints(c)' = RowPoints(c) + PointsOf(sales'[s], c) - PointsOf(sales[s], c)
    BY <2>1, RowPointsChange DEF TInv, RowPoints
  <2>3. Own(Ledger, referral, c) = StartPoints + RowPoints(c)
    BY <1>2 DEF PInv
  <2>4. PointsOf(sales'[s], c) \in Int /\ PointsOf(sales[s], c) \in Int
    BY PointsOfType DEF TInv, TypeOK
  <2>5. RowPoints(c) \in Int /\ StartPoints \in Int
    BY RowPointsType, ConstTypes DEF TInv
  <2> QED  BY <2>1, <2>2, <2>3, <2>4, <2>5
<1>3. EditsAlone' = EditsAlone
  BY MixStays
<1> QED  BY <1>1, <1>2, <1>3 DEF PInv, Own, Awards, AwardedTo, Net
LEMMA OwnOfNet ==
    ASSUME NEW l \in LedgerType, NEW m \in LedgerType, NEW refs \in ReferralType, NEW c \in Customer,
           NEW n \in Int, Net(m, c) = Net(l, c) + n
    PROVE  Own(m, refs, c) = Own(l, refs, c) + n /\ Own(l, refs, c) \in Int
BY NetType, AwardsType DEF Own

LEMMA ReferralsEmpty == ASSUME EInv PROVE EmptyWhenOpen(referral)
BY DEF EInv, OpenIsEmpty, EmptyWhenOpen

LEMMA CreateP ==
    ASSUME TInv, TInv', EInv, PInv, NEW w \in Worker, NEW s \in SaleId, CreateCommit(w, s), UNCHANGED mix
    PROVE  PInv'
<1> DEFINE row == job[w].seen
           money == MoneyBase(row.total, row.before)
           n == row.earned - row.redeemed
           spent == Credit(Ledger, row.customer, n)
           l == IF row.status = "PAID" THEN PayReferrer(spent, referral, row.customer, money) ELSE spent
<1>1. /\ referral' = IF row.status = "PAID" THEN CompleteReferral(referral, row.customer, money, s)
                     ELSE referral
      /\ SetPoints(l)
  BY DEF CreateCommit
<1>2. /\ sales[s] = None /\ row \in Sale /\ sales'[s] = row
      /\ \A t \in SaleId : t # s => sales'[t] = sales[t]
  BY CreateFacts
<1> HIDE DEF row, money
<1>3. row.customer \in Customer \cup {None} /\ n \in Int /\ row # None
  BY <1>2, RowIsRow DEF Sale
<1>4. Ledger \in LedgerType /\ referral \in ReferralType /\ EmptyWhenOpen(referral)
  BY LedgerFacts, ReferralsEmpty
<1> HIDE DEF n
<1>5. /\ spent \in LedgerType
      /\ \A d \in Customer : Net(spent, d) = Net(Ledger, d) + (IF d = row.customer THEN n ELSE 0)
  BY <1>3, <1>4, CreditFacts
<1> HIDE DEF spent
<1>6. l \in LedgerType
  BY <1>3, <1>4, <1>5, CompleteType
<1>7. ASSUME NEW c \in Customer
      PROVE  Own(l, referral', c) = Own(Ledger, referral, c) + PointsOf(sales'[s], c) - PointsOf(sales[s], c)
  <2>1. Own(l, referral', c) = Own(spent, referral, c)
    <3>1. CASE row.status = "PAID"
      <4>1. Own(PayReferrer(spent, referral, row.customer, money),
                CompleteReferral(referral, row.customer, money, s), c) = Own(spent, referral, c)
        <5>1. /\ spent \in LedgerType /\ referral \in ReferralType /\ EmptyWhenOpen(referral)
              /\ row.customer \in Customer \cup {None}
          BY <1>3, <1>4, <1>5
        <5> QED  BY ONLY <5>1, PayOwn, s \in SaleId, c \in Customer, ZenonT(60)
      <4> QED  BY <1>1, <3>1, <4>1
    <3>2. CASE row.status # "PAID"
      BY <1>1, <3>2
    <3> QED  BY <3>1, <3>2
  <2>2. PICK m \in Int : m = IF c = row.customer THEN n ELSE 0
    BY <1>3
  <2>3. Own(spent, referral, c) = Own(Ledger, referral, c) + m /\ Own(Ledger, referral, c) \in Int
    BY <1>4, <1>5, <2>2, OwnOfNet
  <2>4. PointsOf(sales'[s], c) = m /\ PointsOf(sales[s], c) = 0
    BY <1>2, <1>3, <2>2 DEF PointsOf, n
  <2> QED  BY <2>1, <2>3, <2>4
<1> HIDE DEF l
<1>8. \A c \in Customer, t \in SaleId : t # s => PointsOf(sales'[t], c) = PointsOf(sales[t], c)
  BY <1>2
<1> QED  BY <1>1, <1>6, <1>7, <1>8, PointsMoved

LEMMA OneReferral ==
    ASSUME EInv, EditsAlone, NEW s \in SaleId
    PROVE  \A c, d \in Customer : referral[c].sale = s /\ referral[d].sale = s => c = d
BY IdIsNotNone DEF EInv, ReferralBacked

LEMMA RevertedEmpty ==
    ASSUME NEW refs \in ReferralType, NEW R \in SUBSET Customer, NEW s, EmptyWhenOpen(refs)
    PROVE  EmptyWhenOpen(RevertReferral(refs, R, s))
BY RevertFacts DEF EmptyWhenOpen, Open

(* What an edit gives the old and the new customer of a sale is what it     *)
(* changes in the row: a sale with points or a card keeps its customer.     *)
LEMMA EditGives ==
    ASSUME NEW old \in Sale, NEW edit \in Edit, EditAllowed(old, edit), NEW row \in Sale, NEW next \in Sale,
           SameForGood(old, row), SameForGood(row, next),
           old.customer = row.customer, old.earned = row.earned,
           next.customer = Merge(row.customer, edit.customer), NEW c \in Customer
    PROVE  PointsOf(next, c) - PointsOf(row, c)
             = (IF c = next.customer THEN next.earned ELSE 0)
                 - (IF c = old.customer THEN old.earned ELSE 0)
BY RowIsRow DEF SameForGood, Sale, EditAllowed, PointsOf

LEMMA UpdateP ==
    ASSUME TInv, TInv', EInv, PInv, NEW w \in Worker, UpdateCommit(w), UNCHANGED mix
    PROVE  PInv'
<1> DEFINE s == job[w].sale
           old == job[w].seen
           edit == job[w].edit
           row == sales[s]
           next == sales'[s]
           customer == Merge(old.customer, edit.customer)
           status == Merge(old.status, edit.status)
           moved == customer # old.customer
           money == MoneyBase(Merge(old.total, NetTotal(old, edit)), old.before)
           earned == EarnedNow(old, edit)
           once == AddLoyaltyPoints(Ledger, old.customer, - old.earned)
           given == IF moved THEN AddLoyaltyPoints(once, customer, earned)
                    ELSE AddLoyaltyPoints(Ledger, customer, earned - old.earned)
           reverts == old.status = "PAID" /\ (status # "PAID" \/ moved)
           refs == IF reverts THEN RevertReferral(referral, Customer, s) ELSE referral
           taken == IF reverts THEN TakeBonus(given, referral, Customer, s) ELSE given
           completes == status = "PAID" /\ (old.status # "PAID" \/ moved)
           l == IF completes THEN PayReferrer(taken, refs, customer, money) ELSE taken
<1>1. /\ referral' = (IF completes THEN CompleteReferral(refs, customer, money, s) ELSE refs)
      /\ SetPoints(l)
  BY DEF UpdateCommit, NetTotal, EarnedNow
<1>2. /\ job[w].op = "update" /\ s \in SaleId /\ row # None /\ row \in Sale /\ row.kind # "REFUND"
      /\ SameForGood(old, row) /\ next \in Sale /\ SameForGood(row, next)
      /\ EditAllowed(old, edit)
      /\ \A t \in SaleId : t # s => sales'[t] = sales[t]
      /\ next.customer = Merge(row.customer, edit.customer) /\ next.earned = earned
  BY UpdateFacts
<1>3. old \in Sale /\ edit \in Edit /\ s # None
  BY <1>2, JobFacts, IdIsNotNone
<1>4. EditsAlone => old.customer = row.customer /\ old.earned = row.earned
  BY <1>2, <1>3 DEF EInv, SeenHolds, Working, Exists
<1>5. /\ customer \in Customer \cup {None} /\ old.customer \in Customer \cup {None}
      /\ earned \in Int /\ old.earned \in Int
  BY <1>2, <1>3 DEF Sale, Edit, Merge
<1>6. Ledger \in LedgerType /\ referral \in ReferralType /\ EmptyWhenOpen(referral)
  BY LedgerFacts, ReferralsEmpty
<1>7. EditsAlone => next.customer = customer
  BY <1>2, <1>4
<1> HIDE DEF s, old, edit, row, next, customer, earned, status, money
<1>8. /\ given \in LedgerType
      /\ \A c \in Customer : Net(given, c) = Net(Ledger, c) + (IF c = customer THEN earned ELSE 0)
                                               - (IF c = old.customer THEN old.earned ELSE 0)
  <2>1. \A c \in Customer : Net(Ledger, c) \in Int
    BY <1>6, NetType
  <2>2. CASE moved
    <3>1. /\ once \in LedgerType
          /\ \A c \in Customer : Net(once, c) = Net(Ledger, c) + (IF c = old.customer THEN - old.earned ELSE 0)
      <4>1. - old.earned \in Int
        BY <1>5
      <4> QED  BY <1>5, <1>6, <4>1, AddFacts
    <3> HIDE DEF once
    <3>2. /\ AddLoyaltyPoints(once, customer, earned) \in LedgerType
          /\ \A c \in Customer : Net(AddLoyaltyPoints(once, customer, earned), c)
                                   = Net(once, c) + (IF c = customer THEN earned ELSE 0)
      BY <1>5, <3>1, AddFacts
    <3>3. given = AddLoyaltyPoints(once, customer, earned)
      BY <2>2
    <3> HIDE DEF given
    <3> QED  BY <1>5, <2>1, <3>1, <3>2, <3>3
  <2>3. CASE ~ moved
    <3>1. given = AddLoyaltyPoints(Ledger, customer, earned - old.earned) /\ customer = old.customer
      BY <2>3
    <3>2. earned - old.earned \in Int
      BY <1>5
    <3>3. /\ AddLoyaltyPoints(Ledger, customer, earned - old.earned) \in LedgerType
          /\ \A c \in Customer : Net(AddLoyaltyPoints(Ledger, customer, earned - old.earned), c)
                                   = Net(Ledger, c) + (IF c = customer THEN earned - old.earned ELSE 0)
      BY <1>5, <1>6, <3>2, AddFacts
    <3> HIDE DEF given
    <3> QED  BY <1>5, <2>1, <3>1, <3>3
  <2> QED  BY <2>2, <2>3
<1> HIDE DEF given
<1>9. refs \in ReferralType /\ taken \in LedgerType /\ EmptyWhenOpen(refs)
  BY <1>6, <1>8, RevertType, RevertedEmpty
<1>10. ASSUME EditsAlone, NEW c \in Customer PROVE Own(taken, refs, c) = Own(given, referral, c)
  BY <1>2, <1>10, OneReferral, <1>6, <1>8, TakeOwn
<1> HIDE DEF refs, taken
<1>11. l \in LedgerType
  BY <1>2, <1>5, <1>9, CompleteType
<1>12. ASSUME NEW c \in Customer PROVE Own(l, referral', c) = Own(taken, refs, c)
  <2>1. CASE completes
    <3>1. Own(PayReferrer(taken, refs, customer, money), CompleteReferral(refs, customer, money, s), c)
            = Own(taken, refs, c)
      <4>1. /\ taken \in LedgerType /\ refs \in ReferralType /\ EmptyWhenOpen(refs)
            /\ customer \in Customer \cup {None} /\ s \in SaleId
        BY <1>2, <1>5, <1>9
      <4> QED  BY ONLY <4>1, PayOwn, c \in Customer
    <3> QED  BY <1>1, <2>1, <3>1
  <2>2. CASE ~ completes
    BY <1>1, <2>2
  <2> QED  BY <2>1, <2>2
<1> HIDE DEF l, completes, moved, reverts
<1>13. ASSUME EditsAlone, NEW c \in Customer
       PROVE  Own(l, referral', c) = Own(Ledger, referral, c) + PointsOf(next, c) - PointsOf(row, c)
  <2>1. PICK a \in Int, b \in Int : a = (IF c = customer THEN earned ELSE 0)
                                    /\ b = (IF c = old.customer THEN old.earned ELSE 0)
    BY <1>5
  <2>2. Net(given, c) = Net(Ledger, c) + (a - b)
    BY <1>8, <2>1, <1>6, NetType
  <2>3. a - b \in Int
    OBVIOUS
  <2>4. Own(given, referral, c) = Own(Ledger, referral, c) + (a - b) /\ Own(Ledger, referral, c) \in Int
    BY <1>6, <1>8, <2>2, <2>3, OwnOfNet
  <2>5. PointsOf(next, c) - PointsOf(row, c) = a - b
    BY <1>2, <1>3, <1>4, <1>7, <1>13, <2>1, EditGives
  <2>6. PointsOf(next, c) \in Int /\ PointsOf(row, c) \in Int
    BY <1>2, PointsOfType
  <2>7. Own(l, referral', c) = Own(given, referral, c)
    BY <1>10, <1>12, <1>13
  <2> QED  BY <2>4, <2>5, <2>6, <2>7
<1>14. \A c \in Customer, t \in SaleId : t # s => PointsOf(sales'[t], c) = PointsOf(sales[t], c)
  BY <1>2
<1>15. EditsAlone => \E t \in SaleId :
              /\ \A c \in Customer, u \in SaleId :
                    u # t => PointsOf(sales'[u], c) = PointsOf(sales[u], c)
              /\ \A c \in Customer : Own(l, referral', c) = Own(Ledger, referral, c)
                                        + PointsOf(sales'[t], c) - PointsOf(sales[t], c)
  BY <1>2, <1>13, <1>14 DEF next, row
<1> QED  BY <1>1, <1>11, <1>15, PointsMoved

LEMMA DeleteP ==
    ASSUME TInv, TInv', EInv, PInv, NEW w \in Worker, DeleteCommit(w), UNCHANGED mix
    PROVE  PInv'
<1> DEFINE s == job[w].sale
           old == job[w].seen
           row == sales[s]
           R == job[w].reopen
           taken == TakeBonus(Ledger, referral, R, s)
           n == old.redeemed - old.earned
           l == AddLoyaltyPoints(taken, old.customer, n)
<1>1. /\ referral' = RevertReferral(referral, R, s)
      /\ SetPoints(l)
  BY DEF DeleteCommit, PointsBack
<1>2. /\ job[w].op = "deleting" /\ s \in SaleId /\ row # None /\ row \in Sale /\ Exists(s)
      /\ SameForGood(old, row) /\ old \in Sale /\ sales'[s] = None
      /\ \A t \in SaleId : t # s => sales'[t] = sales[t]
  BY DeleteFacts
<1>3. R \subseteq Customer
  BY JobFacts
<1>4. EditsAlone => old.customer = row.customer /\ old.earned = row.earned
  BY <1>2 DEF EInv, SeenHolds, Working
<1>5. Ledger \in LedgerType /\ referral \in ReferralType /\ EmptyWhenOpen(referral)
  BY LedgerFacts, ReferralsEmpty
<1> HIDE DEF s, old, row, R
<1>6. old.customer \in Customer \cup {None} /\ n \in Int
  BY <1>2 DEF Sale
<1>7. taken \in LedgerType
  BY <1>3, <1>5, RevertType
<1> HIDE DEF taken, n
<1>8. /\ l \in LedgerType
      /\ \A c \in Customer : Net(l, c) = Net(taken, c) + (IF c = old.customer THEN n ELSE 0)
  BY <1>6, <1>7, AddFacts
<1> HIDE DEF l
<1>9. referral' \in ReferralType
  BY <1>1, <1>3, <1>5, RevertType
<1>10. ASSUME EditsAlone, NEW c \in Customer
       PROVE  Own(l, referral', c) = Own(Ledger, referral, c) + PointsOf(sales'[s], c) - PointsOf(sales[s], c)
  <2>1. \A d, e \in R : referral[d].sale = s /\ referral[e].sale = s => d = e
    BY <1>2, <1>3, <1>10, OneReferral
  <2>2. Own(taken, referral', c) = Own(Ledger, referral, c)
    BY <1>1, <1>2, <1>3, <1>5, <2>1, TakeOwn DEF taken
  <2>3. PICK m \in Int : m = IF c = old.customer THEN n ELSE 0
    BY <1>6
  <2>4. Own(l, referral', c) = Own(taken, referral', c) + m /\ Own(taken, referral', c) \in Int
    BY <1>7, <1>8, <1>9, <2>3, OwnOfNet
  <2>5. PointsOf(sales'[s], c) = 0 /\ PointsOf(sales[s], c) = - m
    BY <1>2, <1>4, <1>10, <2>3 DEF PointsOf, Sale, SameForGood, n, row
  <2> QED  BY <2>2, <2>3, <2>4, <2>5
<1>11. \A c \in Customer, t \in SaleId : t # s => PointsOf(sales'[t], c) = PointsOf(sales[t], c)
  BY <1>2
<1> QED  BY <1>1, <1>2, <1>8, <1>10, <1>11, PointsMoved

LEMMA RefundP ==
    ASSUME TInv, TInv', EInv, PInv, NEW w \in Worker, RefundCommit(w), UNCHANGED mix
    PROVE  PInv'
<1> DEFINE s == job[w].sale
           old == job[w].seen
           row == sales[s]
           next == sales'[s]
           n == RefundEarned(w) - old.earned
           l == Credit(Ledger, old.customer, n)
<1>1. SetPoints(l)
  BY DEF RefundCommit, RefundEarned, RefundTotal
<1>2. /\ job[w].op = "refund" /\ s \in SaleId /\ row # None /\ row \in Sale /\ Exists(s)
      /\ old \in Sale /\ SameForGood(old, row) /\ referral' = referral
  BY RefundCards
<1>3. /\ next \in Sale /\ SameForGood(row, next) /\ next.customer = row.customer
      /\ next.earned = IF old.earned > 0 THEN RefundEarned(w) ELSE row.earned
      /\ ~ GivesBack(w) => \A t \in SaleId : t # s => sales'[t] = sales[t]
      /\ GivesBack(w) => \E r \in SaleId :
            /\ Fresh(r) /\ r # s /\ sales'[r] = RefundRow(w)
            /\ \A t \in SaleId : t # s /\ t # r => sales'[t] = sales[t]
  BY RefundRows
<1>4. EditsAlone => old.customer = row.customer /\ old.earned = row.earned
  BY <1>2 DEF EInv, SeenHolds, Working
<1>5. Ledger \in LedgerType /\ referral \in ReferralType
  BY LedgerFacts
<1>6. RefundEarned(w) \in Nat /\ (~ (old.earned > 0) => RefundEarned(w) = 0)
  BY RefundTypes DEF RefundEarned
<1>7. RefundRow(w).earned = 0 /\ RefundRow(w).redeemed = 0
  BY RefundTypes
<1> HIDE DEF s, old, row, next
<1>8. old.customer \in Customer \cup {None} /\ old.earned \in Nat /\ n \in Int
  BY <1>2, <1>6 DEF Sale
<1> HIDE DEF n
<1>9. /\ l \in LedgerType
      /\ \A c \in Customer : Net(l, c) = Net(Ledger, c) + (IF c = old.customer THEN n ELSE 0)
  BY <1>5, <1>8, CreditFacts
<1> HIDE DEF l
<1>10. ASSUME EditsAlone, NEW c \in Customer
       PROVE  Own(l, referral', c) = Own(Ledger, referral, c) + PointsOf(next, c) - PointsOf(row, c)
  <2>1. PICK m \in Int : m = IF c = old.customer THEN n ELSE 0
    BY <1>8
  <2>2. Own(l, referral, c) = Own(Ledger, referral, c) + m /\ Own(Ledger, referral, c) \in Int
    BY <1>5, <1>9, <2>1, OwnOfNet
  <2>3. /\ row.earned \in Int /\ row.redeemed \in Int /\ next.redeemed = row.redeemed
        /\ row # None /\ next # None
    BY <1>2, <1>3, RowIsRow DEF Sale, SameForGood
  <2>4. next.earned = row.earned + n /\ next.earned \in Int
    BY <1>3, <1>4, <1>6, <1>8, <1>10, <2>3 DEF n
  <2>5. PointsOf(next, c) - PointsOf(row, c) = m /\ PointsOf(next, c) \in Int /\ PointsOf(row, c) \in Int
    BY <1>3, <1>4, <1>8, <1>10, <2>1, <2>3, <2>4 DEF PointsOf
  <2> QED  BY <1>2, <2>1, <2>2, <2>5
<1>11. \A c \in Customer, t \in SaleId : t # s => PointsOf(sales'[t], c) = PointsOf(sales[t], c)
  <2>1. CASE ~ GivesBack(w)
    BY <1>3, <2>1
  <2>2. CASE GivesBack(w)
    <3>1. PICK r \in SaleId :
             /\ Fresh(r) /\ r # s /\ sales'[r] = RefundRow(w)
             /\ \A t \in SaleId : t # s /\ t # r => sales'[t] = sales[t]
      BY <1>3, <2>2
    <3>2. \A c \in Customer : PointsOf(sales'[r], c) = 0 /\ PointsOf(sales[r], c) = 0
      BY <1>7, <3>1 DEF PointsOf, Fresh
    <3> QED  BY <3>1, <3>2
  <2> QED  BY <2>1, <2>2
<1>12. EditsAlone => \E t \in SaleId :
              /\ \A c \in Customer, u \in SaleId :
                    u # t => PointsOf(sales'[u], c) = PointsOf(sales[u], c)
              /\ \A c \in Customer : Own(l, referral', c) = Own(Ledger, referral, c)
                                        + PointsOf(sales'[t], c) - PointsOf(sales[t], c)
  BY <1>2, <1>10, <1>11 DEF next, row
<1> QED  BY <1>1, <1>9, <1>12, PointsMoved

LEMMA PointsStay ==
    ASSUME PInv, UNCHANGED <<mix, points, forgiven, referral>>,
           \A c \in Customer, t \in SaleId : PointsOf(sales'[t], c) = PointsOf(sales[t], c)
    PROVE  PInv'
BY MixStays DEF Ledger, Own, Net, Awards, AwardedTo, RowPoints, PInv

LEMMA NextP == TInv /\ TInv' /\ EInv /\ PInv /\ [Next]_vars => PInv'
<1> SUFFICES ASSUME TInv, TInv', EInv, PInv, [Next]_vars PROVE PInv'
  OBVIOUS
<1>1. ASSUME UNCHANGED <<mix, points, forgiven, referral, sales>> PROVE PInv'
  BY <1>1, PointsStay
<1>2. CASE UNCHANGED vars
  BY <1>1, <1>2 DEF vars
<1>3. CASE Next
  <2>1. UNCHANGED mix
    BY <1>3, Steps
  <2>2. ASSUME NEW k \in Card, SetGiftCardActive(k) PROVE PInv'
    BY <1>1, <2>1, <2>2 DEF SetGiftCardActive, ghosts
  <2>3. ASSUME NEW w \in Worker, Looks(w) PROVE PInv'
    BY <1>1, <2>1, <2>3, LooksAlone
  <2>4. ASSUME NEW k \in Card, NEW s \in SaleId, CreateGiftCard(k, s) PROVE PInv'
    BY <2>4, GiftCardFacts, ReferrerAssumption, <2>1, PointsStay DEF PointsOf
  <2> QED  BY <1>3, <2>1, <2>2, <2>3, <2>4, Steps, UpdateP, DeleteP, RefundP, CreateP
<1> QED  BY <1>2, <1>3

LEMMA InitP == Init => PInv
<1> SUFFICES ASSUME Init, NEW c \in Customer
             PROVE  Own(Ledger, referral, c) = StartPoints + RowPoints(c)
  BY DEF PInv
<1> DEFINE f == [s \in SaleId |-> PointsOf(sales[s], c)]
           g == AwardedTo(referral, c)
<1>1. \A s \in SaleId : f[s] = 0
  BY DEF Init, PointsOf
<1>2. \A r \in Customer : g[r] = 0
  BY DEF Init, AwardedTo, Open
<1> HIDE DEF f, g
<1>3. SumFunctionOnSet(f, SaleId) = 0 /\ SumFunctionOnSet(g, Customer) = 0
  BY <1>1, <1>2, SumZero, TablesAssumption
<1>4. RowPoints(c) = 0 /\ Awards(referral, c) = 0
  BY <1>3 DEF RowPoints, Awards, f, g
<1>5. Net(Ledger, c) = StartPoints
  BY ConstTypes DEF Init, Net, Ledger
<1> QED  BY <1>4, <1>5, ConstTypes DEF Own

(* Every point of a customer comes from a sale or a referral that still     *)
(* stands, or was forgiven when it had been spent already: addLoyaltyPoints,*)
(* completeReferralIfPaid and revertReferralOfSale neither grant twice nor  *)
(* take twice, in any interleaving of the requests.                         *)
THEOREM CheckoutPointsExact == Spec => []PointsExact
<1>1. Spec => []TInv
  BY InitT, NextT, PTL DEF Spec
<1>2. Spec => []EInv
  BY <1>1, InitE, NextE, PTL DEF Spec
<1>3. Spec => []PInv
  BY <1>1, <1>2, InitP, NextP, PTL DEF Spec
<1>4. TInv /\ PInv => PointsExact
  <2> SUFFICES ASSUME TInv, PInv, EditsAlone, NEW c \in Customer
               PROVE  points[c] = StartPoints + PointsInRows(c) + forgiven[c]
    BY DEF PointsExact
  <2>1. points[c] - forgiven[c] - Awards(referral, c) = StartPoints + RowPoints(c)
    BY DEF PInv, Own, Net, Ledger
  <2>2. points[c] \in Int /\ forgiven[c] \in Int
    BY DEF TInv, TypeOK
  <2>3. Awards(referral, c) \in Int /\ RowPoints(c) \in Int /\ StartPoints \in Int
    BY LedgerFacts, AwardsType, RowPointsType, ConstTypes DEF TInv
  <2>4. PointsInRows(c) = RowPoints(c) + Awards(referral, c)
    BY DEF PointsInRows, RowPoints, Awards
  <2> QED  BY <2>1, <2>2, <2>3, <2>4
<1> QED  BY <1>1, <1>3, <1>4, PTL
----------------------------------------------------------------------------
(* What the shop charged for its gift cards *)

Off(k) == cards[k].issued /\ ~ cards[k].active => withdrawn[k] > 0

Charged(s) == IF Exists(s) THEN sales[s].total - Refunded(s) ELSE 0

PaidFor(k) == cards[k].issued => Charged(cards[k].sale) = CardValue - withdrawn[k]

WInv == ~ SharedSales /\ "switch" \notin Ops => \A k \in Card : Off(k) /\ PaidFor(k)

LEMMA RefundedType ==
    ASSUME TInv, NEW s \in SaleId, NEW t \in SaleId
    PROVE  RefundedOf(sales[t], s) \in Nat
BY RowFacts, IdIsNotNone DEF RefundedOf, RowOK, Sale

LEMMA RefundedNat == ASSUME TInv, NEW s \in SaleId PROVE Refunded(s) \in Nat
<1> DEFINE f == [t \in SaleId |-> RefundedOf(sales[t], s)]
<1>1. \A t \in SaleId : f[t] \in Nat
  BY RefundedType
<1> HIDE DEF f
<1>2. SumFunctionOnSet(f, SaleId) \in Nat
  BY <1>1, SumNat, TablesAssumption
<1> QED  BY <1>2 DEF Refunded, f

LEMMA RefundedChange ==
    ASSUME TInv, TInv', NEW s \in SaleId, NEW r \in SaleId,
           \A t \in SaleId : t # r => RefundedOf(sales'[t], s) = RefundedOf(sales[t], s)
    PROVE  Refunded(s)' = Refunded(s) + RefundedOf(sales'[r], s) - RefundedOf(sales[r], s)
<1> DEFINE f == [t \in SaleId |-> RefundedOf(sales[t], s)]
           g == [t \in SaleId |-> RefundedOf(sales'[t], s)]
<1>1. \A t \in SaleId : sales[t] \in Sale \cup {None} /\ sales'[t] \in Sale \cup {None}
  BY DEF TInv, TypeOK
<1>2. \A t \in SaleId : RefundedOf(sales[t], s) \in Int /\ RefundedOf(sales'[t], s) \in Int
  BY <1>1 DEF RefundedOf, Sale
<1>3. /\ \A t \in SaleId : f[t] \in Int
      /\ \A t \in SaleId : g[t] \in Int
      /\ \A t \in SaleId : t # r => g[t] = f[t]
      /\ f[r] = RefundedOf(sales[r], s) /\ g[r] = RefundedOf(sales'[r], s)
  BY <1>2
<1> HIDE DEF f, g
<1>4. SumFunctionOnSet(g, SaleId) = SumFunctionOnSet(f, SaleId) + g[r] - f[r]
  BY <1>3, SumChange, TablesAssumption
<1> QED  BY <1>3, <1>4 DEF Refunded, f, g

LEMMA RefundedSame ==
    ASSUME NEW s, \A t \in SaleId : RefundedOf(sales'[t], s) = RefundedOf(sales[t], s)
    PROVE  Refunded(s)' = Refunded(s)
BY DEF Refunded

(* A card that none was charged for or refunded: the step does not matter.  *)
LEMMA PaidForKept ==
    ASSUME TInv, NEW k \in Card, PaidFor(k), NEW t, cards[k].sale = t,
           cards'[k].issued = cards[k].issued, cards'[k].sale = t, withdrawn'[k] = withdrawn[k],
           t # None => sales'[t] # None /\ sales'[t].total = sales[t].total,
           t # None => Refunded(t)' = Refunded(t)
    PROVE  PaidFor(k)'
BY DEF TInv, CardsOK, PaidFor, Charged, Exists, Refunded

LEMMA CreateW ==
    ASSUME TInv, TInv', NEW w \in Worker, NEW s \in SaleId, CreateCommit(w, s), NEW k \in Card,
           Off(k), PaidFor(k)
    PROVE  Off(k)' /\ PaidFor(k)'
<1> DEFINE row == job[w].seen
<1>0. PICK t : cards[k].sale = t
  OBVIOUS
<1>1. /\ sales[s] = None /\ row \in Sale /\ row.kind = "STAFF" /\ RowOK(row, cards) /\ sales'[s] = row
      /\ \A u \in SaleId : u # s => sales'[u] = sales[u]
      /\ cards'[k].issued = cards[k].issued /\ cards'[k].sale = cards[k].sale
      /\ cards'[k].active = cards[k].active /\ UNCHANGED withdrawn
  BY CreateFacts
<1> HIDE DEF row
<1>2. row.of = None
  BY <1>1 DEF RowOK
<1>3. t # None => t \in SaleId /\ sales[t] # None
  BY <1>0 DEF TInv, TypeOK, GiftCard, CardsOK, Exists
<1>4. ASSUME t # None PROVE Refunded(t)' = Refunded(t)
  BY <1>1, <1>2, <1>4, RefundedSame DEF RefundedOf
<1>5. t # None => sales'[t] = sales[t]
  BY <1>1, <1>3
<1> QED  BY <1>1, <1>3, <1>4, <1>5, PaidForKept, <1>0 DEF Off

LEMMA UpdateW ==
    ASSUME TInv, NEW w \in Worker, UpdateCommit(w), NEW k \in Card, Off(k), PaidFor(k)
    PROVE  Off(k)' /\ PaidFor(k)'
<1> DEFINE s == job[w].sale
           row == sales[s]
           next == sales'[s]
<1>0. PICK t : cards[k].sale = t
  OBVIOUS
<1>1. /\ s \in SaleId /\ row # None /\ row \in Sale /\ row.kind # "REFUND" /\ next \in Sale
      /\ SameForGood(job[w].seen, row) /\ SameForGood(row, next)
      /\ EditAllowed(job[w].seen, job[w].edit)
      /\ \A u \in SaleId : u # s => sales'[u] = sales[u]
      /\ next.total = Merge(row.total, NetTotal(job[w].seen, job[w].edit))
      /\ UNCHANGED <<cards, withdrawn>>
  BY UpdateFacts
<1>2. row.kind = "GIFT_CARD" => next.total = row.total
  BY <1>1 DEF EditAllowed, SameForGood, Merge, NetTotal
<1>3. row.of = None /\ next.of = None
  BY <1>1, RowFacts DEF RowOK, SameForGood
<1>4. t # None => t \in SaleId /\ sales[t] # None /\ sales[t].kind = "GIFT_CARD"
  BY <1>0 DEF TInv, TypeOK, GiftCard, CardsOK, Exists
<1>5. next # None
  BY <1>1, RowIsRow
<1>6. t # None => sales'[t] # None /\ sales'[t].total = sales[t].total
  BY <1>1, <1>2, <1>4, <1>5
<1>7. ASSUME t # None PROVE Refunded(t)' = Refunded(t)
  BY <1>3, <1>7, <1>1, RefundedSame DEF RefundedOf
<1> QED  BY <1>1, <1>6, <1>7, PaidForKept, <1>0 DEF Off

(* A card that is as it was issued never lost value. *)
LEMMA UnusedIsWhole ==
    ASSUME TInv, GInv, NEW k \in Card, cards[k].issued, cards[k].remaining = CardValue
    PROVE  withdrawn[k] = 0
<1>1. Spent(k) \in Nat
  BY SpentAll DEF TInv
<1>2. withdrawn[k] \in Nat
  BY DEF TInv, TypeOK
<1> QED  BY <1>1, <1>2, ConstTypes DEF GInv, CardAddsUp

LEMMA DeleteW ==
    ASSUME TInv, GInv, NEW w \in Worker, DeleteCommit(w), NEW k \in Card, Off(k), PaidFor(k)
    PROVE  Off(k)' /\ PaidFor(k)'
<1> DEFINE s == job[w].sale
<1>0. PICK t : cards[k].sale = t
  OBVIOUS
<1>1. /\ s \in SaleId /\ sales[s] # None /\ sales[s] \in Sale /\ sales[s].kind # "REFUND"
      /\ CardsUnused(s) /\ sales'[s] = None
      /\ \A u \in SaleId : u # s => sales'[u] = sales[u]
      /\ cards'[k].issued = cards[k].issued
      /\ k \in IssuedBy(s) => cards'[k].sale = None
      /\ k \in IssuedBy(s) /\ cards[k].active => withdrawn'[k] = withdrawn[k] + cards[k].remaining
      /\ k \in IssuedBy(s) /\ ~ cards[k].active =>
            cards'[k].active = cards[k].active /\ withdrawn'[k] = withdrawn[k]
      /\ k \notin IssuedBy(s) =>
            cards'[k].sale = cards[k].sale /\ cards'[k].active = cards[k].active
            /\ withdrawn'[k] = withdrawn[k]
  BY DeleteFacts
<1> HIDE DEF s
<1>2. CASE k \in IssuedBy(s)
  BY <1>1, <1>2, UnusedIsWhole, ConstTypes
     DEF IssuedBy, CardsUnused, Off, PaidFor, Charged, Exists
<1>3. CASE k \notin IssuedBy(s)
  <2>1. t # None => t \in SaleId /\ sales[t] # None
    BY <1>0 DEF TInv, TypeOK, GiftCard, CardsOK, Exists
  <2>2. sales[s].of = None
    BY <1>1, RowFacts DEF RowOK
  <2>3. t # None => cards[k].issued
    BY <1>0 DEF TInv, CardsOK
  <2>4. t # None => t # s
    BY <1>0, <1>3, <2>3 DEF IssuedBy
  <2>5. ASSUME t # None PROVE Refunded(t)' = Refunded(t)
    BY <1>1, <2>2, <2>5, RefundedSame DEF RefundedOf
  <2>6. t # None => sales'[t] = sales[t]
    BY <1>1, <2>1, <2>4
  <2> QED  BY <1>1, <1>3, <2>1, <2>5, <2>6, PaidForKept, <1>0 DEF Off
<1> QED  BY <1>2, <1>3

LEMMA GiftCardW ==
    ASSUME TInv, TInv', NEW j \in Card, NEW s \in SaleId, CreateGiftCard(j, s), NEW k \in Card,
           Off(k), PaidFor(k)
    PROVE  Off(k)' /\ PaidFor(k)'
<1>0. PICK t : cards[k].sale = t
  OBVIOUS
<1>1. /\ ~ cards[j].issued /\ Fresh(s) /\ sales[s] = None /\ sales'[s] \in Sale
      /\ sales'[s].of = None /\ sales'[s].total = CardValue
      /\ \A u \in SaleId : u # s => sales'[u] = sales[u]
      /\ k # j => cards'[k] = cards[k]
      /\ cards'[j].issued /\ cards'[j].sale = s /\ cards'[j].active /\ withdrawn' = withdrawn
  BY GiftCardFacts
<1>2. CASE k = j
  <2>1. withdrawn[k] = 0
    BY <1>1, <1>2 DEF TInv, CardsOK
  <2>2. \A u \in SaleId : RefundedOf(sales'[u], s) = 0
    BY <1>1, IdIsNotNone DEF Fresh, Exists, RefundedOf
  <2>3. Refunded(s)' = 0
    <3> DEFINE g == [u \in SaleId |-> RefundedOf(sales'[u], s)]
    <3>1. \A u \in SaleId : g[u] = 0
      BY <2>2
    <3> HIDE DEF g
    <3>2. SumFunctionOnSet(g, SaleId) = 0
      BY <3>1, SumZero, TablesAssumption
    <3> QED  BY <3>2 DEF Refunded, g
  <2>4. Exists(s)'
    BY <1>1, RowIsRow, IdIsNotNone DEF Exists
  <2>5. Charged(s)' = CardValue
    BY <1>1, <2>3, <2>4, ConstTypes DEF Charged
  <2>6. Charged(cards[k].sale)' = Charged(s)'
    BY <1>1, <1>2 DEF Charged, Exists, Refunded
  <2> QED  BY <1>1, <1>2, <2>1, <2>5, <2>6, ConstTypes DEF Off, PaidFor
<1>3. CASE k # j
  <2>1. t # None => t \in SaleId /\ sales[t] # None
    BY <1>0 DEF TInv, TypeOK, GiftCard, CardsOK, Exists
  <2>2. ASSUME t # None PROVE Refunded(t)' = Refunded(t)
    BY <1>1, <2>2, RefundedSame DEF RefundedOf
  <2>3. t # None => sales'[t] = sales[t]
    BY <1>1, <2>1
  <2> QED  BY <1>1, <1>3, <2>1, <2>2, <2>3, PaidForKept, <1>0 DEF Off
<1> QED  BY <1>2, <1>3

LEMMA RefundW ==
    ASSUME TInv, TInv', EInv, GInv, ~ SharedSales, NEW w \in Worker, RefundCommit(w), NEW k \in Card,
           Off(k), PaidFor(k)
    PROVE  Off(k)' /\ PaidFor(k)'
<1>0. PICK s : job[w].sale = s
  OBVIOUS
<1> DEFINE j == job[w].card
           a == cards[j].remaining
<1>1. /\ job[w].op = "refund" /\ j \in Card /\ cards[j].issued /\ cards[j].sale = s /\ s \in SaleId
      /\ sales[s] # None /\ Exists(s) /\ sales[s] \in Sale /\ RowOK(sales[s], cards)
      /\ sales[s].kind = "GIFT_CARD"
      /\ a = job[w].amount /\ a > 0 /\ a \in Nat
      /\ cards'[j].issued /\ cards'[j].sale = s
      /\ k # j => cards'[k] = cards[k] /\ withdrawn'[k] = withdrawn[k]
      /\ withdrawn'[j] = withdrawn[j] + a
  BY <1>0, RefundCards
<1>2. /\ sales'[s] \in Sale /\ SameForGood(sales[s], sales'[s])
      /\ sales'[s].total = IF job[w].seen.status = "PAID" THEN sales[s].total ELSE RefundTotal(w)
      /\ ~ GivesBack(w) => \A t \in SaleId : t # s => sales'[t] = sales[t]
      /\ GivesBack(w) => \E r \in SaleId :
            /\ Fresh(r) /\ r # s /\ sales'[r] = RefundRow(w)
            /\ \A t \in SaleId : t # s /\ t # r => sales'[t] = sales[t]
  BY <1>0, RefundRows
<1>3. job[w].seen = sales[s]
  BY <1>0, <1>1 DEF EInv, Alone, Working
<1>4. /\ RefundRow(w) \in Sale /\ RefundRow(w).of = s
      /\ RefundRow(w).total = RefundTotal(w) - job[w].seen.total
  BY <1>0, RefundTypes
<1>5. RefundTotal(w) = AtLeastZero(sales[s].total - a)
  BY <1>0, <1>1, <1>3 DEF RefundTotal
<1> HIDE DEF j, a
<1>6. withdrawn[j] \in Nat /\ sales[s].total \in Int /\ Refunded(s) \in Nat /\ Spent(j) \in Nat
  BY <1>1, RefundedNat, SpentAll DEF TInv, TypeOK, Sale
<1>7. sales[s].of = None /\ sales'[s].of = None /\ sales'[s] # None /\ s # None
  BY <1>1, <1>2, RowIsRow, IdIsNotNone DEF RowOK, SameForGood
<1>8. \A t \in SaleId : RefundedOf(sales'[s], t) = 0 /\ RefundedOf(sales[s], t) = 0
  BY <1>7, IdIsNotNone DEF RefundedOf
<1>9. CASE k = j
  <2>1. Off(k)'
    BY <1>1, <1>6, <1>9 DEF Off
  <2>2. sales[s].total - Refunded(s) = CardValue - withdrawn[j]
    BY <1>1, <1>9 DEF PaidFor, Charged
  <2>3. CardValue = a + withdrawn[j] + Spent(j)
    BY <1>1 DEF GInv, CardAddsUp, a
  <2>4. a <= sales[s].total
    BY <1>1, <1>6, <2>2, <2>3, ConstTypes
  <2>5. RefundTotal(w) = sales[s].total - a
    BY <1>1, <1>5, <1>6, <2>4 DEF AtLeastZero
  <2>6. sales'[s].total - Refunded(s)' = sales[s].total - Refunded(s) - a
    <3>1. CASE sales[s].status = "PAID"
      <4>1. GivesBack(w)
        BY <1>1, <1>3, <1>6, <2>5, <3>1 DEF GivesBack
      <4>2. PICK r \in SaleId :
             /\ Fresh(r) /\ r # s /\ sales'[r] = RefundRow(w)
             /\ \A t \in SaleId : t # s /\ t # r => sales'[t] = sales[t]
        BY <1>2, <4>1
      <4>3. RefundedOf(sales'[r], s) = a /\ RefundedOf(sales[r], s) = 0
        BY <1>1, <1>3, <1>4, <1>6, <2>5, RowIsRow, <4>2 DEF RefundedOf, Fresh
      <4>4. \A t \in SaleId : t # r => RefundedOf(sales'[t], s) = RefundedOf(sales[t], s)
        BY <1>1, <1>8, <4>2
      <4>5. Refunded(s)' = Refunded(s) + RefundedOf(sales'[r], s) - RefundedOf(sales[r], s)
        BY <1>1, <4>4, RefundedChange
      <4>6. sales'[s].total = sales[s].total
        BY <1>2, <1>3, <3>1
      <4> QED  BY <1>1, <1>6, <4>3, <4>5, <4>6
    <3>2. CASE sales[s].status # "PAID"
      BY <1>3, <3>2, <1>1, <1>2, <1>8, RefundedSame, <2>5, <1>6 DEF GivesBack
    <3> QED  BY <3>1, <3>2
  <2>7. Charged(s)' = sales'[s].total - Refunded(s)'
    BY <1>7 DEF Charged, Exists
  <2>8. Charged(cards[k].sale)' = Charged(s)'
    BY <1>1, <1>9 DEF Charged, Exists, Refunded
  <2>9. Charged(s)' = CardValue - withdrawn'[k]
    BY <1>1, <1>6, <1>9, <2>2, <2>6, <2>7, ConstTypes
  <2> QED  BY <2>1, <2>8, <2>9 DEF PaidFor
<1>10. CASE k # j
  <2>0. PICK t : cards[k].sale = t
    OBVIOUS
  <2>1. t # None => t \in SaleId /\ sales[t] # None
    BY <2>0 DEF TInv, TypeOK, GiftCard, CardsOK, Exists
  <2>2. t # None => t # s
    BY <2>0, <1>1, <1>10 DEF TInv, CardsOK
  <2>3. ASSUME t # None
        PROVE  /\ sales'[t] = sales[t]
               /\ \A u \in SaleId : RefundedOf(sales'[u], t) = RefundedOf(sales[u], t)
    <3>1. CASE ~ GivesBack(w)
      BY <1>2, <1>8, <2>1, <2>2, <2>3, <3>1
    <3>2. CASE GivesBack(w)
      <4>1. PICK r \in SaleId :
             /\ Fresh(r) /\ r # s /\ sales'[r] = RefundRow(w)
             /\ \A u \in SaleId : u # s /\ u # r => sales'[u] = sales[u]
        BY <1>2, <3>2
      <4>2. RefundedOf(sales'[r], t) = 0 /\ RefundedOf(sales[r], t) = 0
        BY <1>4, <2>2, <2>3, <4>1 DEF RefundedOf, Fresh
      <4>3. t # r
        BY <2>1, <2>3, <4>1 DEF Fresh
      <4> QED  BY <1>8, <2>1, <2>2, <2>3, <4>1, <4>2, <4>3
    <3> QED  BY <3>1, <3>2
  <2>4. t # None => Refunded(t)' = Refunded(t)
    BY <2>3, RefundedSame
  <2> QED  BY <1>1, <1>10, <2>1, <2>3, <2>4, <2>0, PaidForKept DEF Off
<1> QED  BY <1>9, <1>10

LEMMA NextW == TInv /\ TInv' /\ EInv /\ GInv /\ WInv /\ [Next]_vars => WInv'
<1> SUFFICES ASSUME TInv, TInv', EInv, GInv, WInv, [Next]_vars PROVE WInv'
  OBVIOUS
<1>0. UNCHANGED mix
  BY Steps DEF vars
<1> SUFFICES ASSUME ~ SharedSales, "switch" \notin Ops, NEW k \in Card PROVE Off(k)' /\ PaidFor(k)'
  BY <1>0, MixStays DEF WInv
<1>1. Off(k) /\ PaidFor(k)
  BY DEF WInv
<1>2. ASSUME UNCHANGED <<sales, cards, withdrawn>> PROVE Off(k)' /\ PaidFor(k)'
  BY <1>1, <1>2 DEF Off, PaidFor, Charged, Exists, Refunded
<1>3. CASE UNCHANGED vars
  BY <1>2, <1>3 DEF vars
<1>4. CASE Next
  <2>1. \A j \in Card : ~ SetGiftCardActive(j)
    BY DEF SetGiftCardActive
  <2>2. ASSUME NEW w \in Worker, Looks(w) PROVE Off(k)' /\ PaidFor(k)'
    BY <1>2, <2>2, LooksAlone
  <2> QED  BY <1>1, <1>4, <2>1, <2>2, Steps, UpdateW, DeleteW, RefundW, CreateW, GiftCardW
<1> QED  BY <1>3, <1>4

(* What the shop charged for a gift card and did not give back is the value *)
(* the card gave or still gives: deleteSale takes the value of an unused    *)
(* card with its sale, refundIssuedRemainder books the refund of exactly    *)
(* what it takes from the card.  Requests on one sale do not overlap and no *)
(* card is switched off by hand.                                            *)
THEOREM CheckoutCardsPaidFor == Spec => []CardsPaidFor
<1>1. Spec => []TInv
  BY InitT, NextT, PTL DEF Spec
<1>2. Spec => []EInv
  BY <1>1, InitE, NextE, PTL DEF Spec
<1>3. Init => GInv
  BY DEF Init, GInv, CardAddsUp, NotIssued
<1>4. Spec => []GInv
  BY <1>1, <1>3, NextG, PTL DEF Spec
<1>5. Init => WInv
  BY DEF Init, WInv, Off, PaidFor, NotIssued
<1>6. Spec => []WInv
  BY <1>1, <1>2, <1>4, <1>5, NextW, PTL DEF Spec
<1>7. WInv => CardsPaidFor
  BY DEF WInv, PaidFor, Charged, CardsPaidFor
<1> QED  BY <1>6, <1>7, PTL
=============================================================================
