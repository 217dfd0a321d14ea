--------------------------- MODULE ProgramProofs ---------------------------
(***************************************************************************)
(* Proofs about seven components that share no state: the cash drawer, the *)
(* waiting list, the billing of the club, the payroll, the sessions of     *)
(* packages and of the club, the dues of a chair and featured places.      *)
(* Each theorem is about the specification of one of them, for every value *)
(* of its constants: CashDrawer itself, and the others as Wait, Club, Pay, *)
(* Sess, Chair and Feat.  A constant or a variable that two of them name   *)
(* alike and use alike is declared once.                                   *)
(***************************************************************************)
EXTENDS CashDrawer, FiniteSetsExt, FiniteSums

CONSTANTS
    EntryId, Slot, Blocked, MaxFreed, MayCrash, SubId, Reason, CyclePaid,
    PayoutId, Day, Commission, PayTypes, FixedPerDay, Types, Amounts,
    Part, UseId, MaxCrashes, TotalSessions, Limit, LastCycle,
    PriceId, DueId, InvoiceId, Rent, Together, PurchaseId, Offers, FeatWorker

VARIABLES
    entry, slot, booked, job, freed, crashed, row, stripe, key, forgotten,
    crossed, payType, payouts, raced,
    pkg, uses, lost, kept, overlap, SessSub, charged, SessPaid, blurred,
    link, agreed, answers, stranded, today, due, ChairInvoice, paidUntil,
    ChairExpense, told, drawer,
    purchase, charge, offer, daysLeft, tip, dispute, PayJob, FeatJob

Wait == INSTANCE Waitlist
Club == INSTANCE ClubBilling
Pay == INSTANCE Payroll WITH
    job <- PayJob
Sess == INSTANCE SessionsSold WITH
    sub <- SessSub, paid <- SessPaid
Chair == INSTANCE ChairRent WITH
    invoice <- ChairInvoice, expense <- ChairExpense
Feat == INSTANCE Featured WITH
    left <- daysLeft, job <- FeatJob, Worker <- FeatWorker

(* An instance brings its own copy of the operators of the library.  *)
LEMMA WaitCounts == \A S : Wait!Cardinality(S) = Cardinality(S)
BY DEF Cardinality, Wait!Cardinality

LEMMA WaitLeast == \A S : Wait!Min(S) = Min(S)
BY DEF Min, Wait!Min

LEMMA ClubCounts == \A S : Club!Cardinality(S) = Cardinality(S)
BY DEF Cardinality, Club!Cardinality

LEMMA SessCounts == \A S : Sess!Cardinality(S) = Cardinality(S)
BY DEF Cardinality, Sess!Cardinality

LEMMA PaySums == \A f, S : Pay!SumFunctionOnSet(f, S) = SumFunctionOnSet(f, S)
BY DEF SumFunctionOnSet, Pay!SumFunctionOnSet, FoldFunctionOnSet,
       Pay!FoldFunctionOnSet, MapThenFoldSet, Pay!MapThenFoldSet

----------------------------------------------------------------------------
(***************************************************************************)
(* Proofs about CashDrawer, for any number of requests, sessions and rows. *)
(*                                                                         *)
(* SessionInv is about the sessions alone and needs nothing else: while a  *)
(* request holds the lock there is no open session.  DrawerInv is about    *)
(* the rows, when no row is written while a session is being closed: what  *)
(* a close has summed is still so, and a request that will write a row     *)
(* knows that the row is in no closed session, or that it changes nothing. *)
(***************************************************************************)

SoleOpen == \A s, t \in OpenSessions : s = t

OpenerAlone == \A w \in Worker : pc[w] = "open.create" => lock = w /\ OpenSessions = {}

CallTargets ==
    \A w \in Worker :
        /\ pc[w] \in Closing => call[w].session \in Session
        /\ pc[w] \in Writing => call[w].entry \in Entry

SessionInv == TypeOK /\ SoleOpen /\ OpenerAlone /\ CallTargets

(* The row holds no money in a closed session. *)
Loose(e) == entries[e].state = "paid" => ~ IsClosed(entries[e].session)

Pays(w) == call[w].edit.state = "paid" /\ call[w].row.state # "paid"

WriterOK(w) ==
    LET e == call[w].entry
        closed == IsClosed(entries[e].session)
    IN  /\ pc[w] \in {"record.session", "record.write", "undo.write"} => Loose(e)
        /\ pc[w] = "record.write" => ~ IsClosed(call[w].row.session)
        /\ pc[w] = "undo.check" => Loose(e) \/ entries[e].session = call[w].session
        /\ pc[w] = "edit.session" => ~ closed
        /\ pc[w] = "edit.write" =>
              /\ ~ closed \/ (~ Pays(w) /\ ~ MoneyChanged(entries[e], call[w].edit))
              /\ Pays(w) => ~ IsClosed(call[w].session)

CloserOK(w) ==
    pc[w] \in Closing =>
        /\ status[call[w].session] # "none"
        /\ status[call[w].session] = "OPEN" =>
              \A e \in Entry : (\A kinds \in call[w].left : KindOf[e] \notin kinds) =>
                  call[w].terms[e] = TermOf(e, call[w].session)
        /\ pc[w] = "close.write" => call[w].left = {}

Exclusive == \A v, w \in Worker : ~ (pc[v] \in Closing /\ pc[w] \in Writing)

DrawerInv ==
    /\ Exclusive
    /\ \A w \in Worker : WriterOK(w) /\ CloserOK(w)
    /\ Reconciled

----------------------------------------------------------------------------
(* Types *)

(* The constants the requests start from have their types. *)
LEMMA ConstantTypes ==
    /\ Absent \in Row /\ Unpaid \in Row
    /\ \A e \in Entry : NoRow(e) \in Row
    /\ NoEdit \in Edit
    /\ NoTerms \in [Entry -> 0..MaxAmount]
    /\ NoCall \in Call
<1>1. 1 \in Amount
  BY AmountAssumption DEF Amount
<1>2. Absent \in Row
  BY <1>1 DEF Absent, Row
<1>3. Unpaid \in Row
  BY <1>2 DEF Unpaid, Row
<1>4. NoEdit \in Edit
  BY DEF NoEdit, Edit
<1>5. NoTerms \in [Entry -> 0..MaxAmount]
  BY AmountAssumption DEF NoTerms
<1> QED  BY <1>2, <1>3, <1>4, <1>5 DEF NoCall, Call, NoRow

(* Merging a request's field into a row *)
LEMMA MergeType ==
    ASSUME NEW aRow \in Row, NEW edit \in Edit
    PROVE  /\ Merge(aRow.state, edit.state) \in {"absent", "pending", "paid"}
           /\ Merge(aRow.cash, edit.cash) \in BOOLEAN
           /\ Merge(aRow.amount, edit.amount) \in Amount
BY DEF Row, Edit, Merge

(* The open session a request finds *)
LEMMA FoundType ==
    ASSUME NEW s, s \in FoundSession \cup {None} \/ \E cash : s \in CashOnly(cash)
    PROVE  s \in Session \cup {None} /\ ~ IsClosed(s)
BY DEF FoundSession, OpenSessions, CashOnly, IsClosed

----------------------------------------------------------------------------
(* Steps that leave the sessions alone *)

(* A request that neither opens nor closes a session keeps SessionInv when  *)
(* it keeps the types and its own target.                                   *)
LEMMA QuietStep ==
    ASSUME SessionInv, TypeOK', NEW w \in Worker, UNCHANGED <<status, lock>>,
           \A v \in Worker \ {w} : pc'[v] = pc[v] /\ call'[v] = call[v],
           pc'[w] # "open.create",
           pc'[w] \in Closing => call'[w].session \in Session,
           pc'[w] \in Writing => call'[w].entry \in Entry
    PROVE  SessionInv'
BY DEF SessionInv, SoleOpen, OpenSessions, OpenerAlone, CallTargets

(* The answer of a request *)
LEMMA DoneFacts ==
    ASSUME TypeOK, NEW w \in Worker, Done(w)
    PROVE  /\ pc' \in [Worker -> Step] /\ call' \in [Worker -> Call]
           /\ \A v \in Worker \ {w} : pc'[v] = pc[v] /\ call'[v] = call[v]
           /\ pc'[w] = "idle" /\ call'[w] = NoCall
BY ConstantTypes DEF TypeOK, Done, Goto, Step

(* The start of a request *)
LEMMA BeginFacts ==
    ASSUME TypeOK, NEW w \in Worker, NEW step \in Step, NEW c \in Call, Begin(w, step, c)
    PROVE  /\ pc' \in [Worker -> Step] /\ call' \in [Worker -> Call]
           /\ \A v \in Worker \ {w} : pc'[v] = pc[v] /\ call'[v] = call[v]
           /\ pc[w] = "idle" /\ pc'[w] = step /\ call'[w] = c
BY DEF TypeOK, Begin, Goto

(* What the start of a request that will write row e establishes *)
Started(w, e) ==
    /\ MayWrite(w)
    /\ UNCHANGED <<status, expected, entries, lock>>
    /\ pc' \in [Worker -> Step] /\ call' \in [Worker -> Call]
    /\ \A v \in Worker \ {w} : pc'[v] = pc[v] /\ call'[v] = call[v]
    /\ pc'[w] \in Writing /\ call'[w].entry = e
    /\ WriterOK(w)'

(* A request that inserts a row *)
LEMMA InsertStarted ==
    ASSUME SessionInv, NEW w \in Worker, NEW e \in Entry, NEW k, NEW aRow \in Row,
           ~ IsClosed(aRow.session), Insert(w, e, k, aRow)
    PROVE  Started(w, e)
<1> DEFINE c == [NoCall EXCEPT !.entry = e, !.row = aRow]
<1>1. c \in Call /\ c.entry = e /\ c.row = aRow
  BY ConstantTypes DEF Call
<1>2. /\ MayWrite(w) /\ Begin(w, "record.write", c) /\ entries[e].state = "absent"
      /\ UNCHANGED <<status, expected, entries, lock>>
  BY DEF Insert, Fresh
<1> HIDE DEF c
<1>3. /\ pc' \in [Worker -> Step] /\ call' \in [Worker -> Call]
      /\ \A v \in Worker \ {w} : pc'[v] = pc[v] /\ call'[v] = call[v]
      /\ pc'[w] = "record.write" /\ call'[w] = c
  BY <1>1, <1>2, BeginFacts DEF SessionInv, Step
<1>4. WriterOK(w)'
  BY <1>1, <1>2, <1>3 DEF WriterOK, Loose, IsClosed
<1> QED  BY <1>1, <1>2, <1>3, <1>4 DEF Started, Writing

(* A paid row of the open session, or of none *)
LEMMA PaidType ==
    ASSUME NEW cash \in BOOLEAN, NEW n \in Amount, NEW s \in Session \cup {None}
    PROVE  /\ Paid(cash, s, n) \in Row /\ Paid(cash, s, n).session = s
           /\ [Paid(cash, s, n) EXCEPT !.state = "pending"] \in Row
           /\ [Paid(cash, s, n) EXCEPT !.state = "pending"].session = s
BY DEF Paid, Row

(* Every request that writes a row starts as Started says. *)
LEMMA RequestStarted ==
    ASSUME SessionInv, NEW w \in Worker, NEW e \in Entry, Request(w, e)
    PROVE  Started(w, e)
<1>1. 1 \in Amount
  BY AmountAssumption DEF Amount
<1>2. ASSUME NEW k, NEW cash \in BOOLEAN, NEW n \in Amount,
             NEW s, s \in FoundSession \cup {None} \/ s \in CashOnly(cash),
             Insert(w, e, k, Paid(cash, s, n))
      PROVE  Started(w, e)
  <2>1. s \in Session \cup {None} /\ ~ IsClosed(s)
    BY <1>2, FoundType
  <2>2. Paid(cash, s, n) \in Row /\ Paid(cash, s, n).session = s
    BY <2>1, PaidType, ZenonT(60)
  <2> QED  BY <1>2, <2>1, <2>2, InsertStarted
<1>3. CASE CreateSale(w, e)
  <2>1. PICK cash \in BOOLEAN, n \in Amount :
           \/ \E s \in FoundSession : Insert(w, e, "sale", Paid(cash, s, n))
           \/ Insert(w, e, "sale", [Paid(cash, None, n) EXCEPT !.state = "pending"])
    BY <1>3 DEF CreateSale
  <2>2. CASE \E s \in FoundSession : Insert(w, e, "sale", Paid(cash, s, n))
    BY <1>2, <2>2
  <2>3. CASE Insert(w, e, "sale", [Paid(cash, None, n) EXCEPT !.state = "pending"])
    <3> DEFINE aRow == [Paid(cash, None, n) EXCEPT !.state = "pending"]
    <3>1. aRow \in Row /\ aRow.session = None
      BY PaidType
    <3> HIDE DEF aRow
    <3>2. ~ IsClosed(aRow.session)
      BY <3>1 DEF IsClosed
    <3> QED  BY <2>3, <3>1, <3>2, InsertStarted DEF aRow
  <2> QED  BY <2>1, <2>2, <2>3
<1>4. CASE CollectNoShowFee(w, e)
  BY <1>1, <1>2, <1>4 DEF CollectNoShowFee
<1>5. CASE RefundIssuedRemainder(w, e)
  BY <1>1, <1>2, <1>5 DEF RefundIssuedRemainder
<1>6. CASE CreateExpense(w, e)
  BY <1>1, <1>2, <1>6 DEF CreateExpense
<1>7. CASE RecordPay(w, e)
  BY <1>1, <1>2, <1>7 DEF RecordPay
<1>8. CASE AddTip(w, e)
  BY <1>1, <1>2, <1>8 DEF AddTip
<1>9. CASE Receive(w, e)
  <2>1. PICK cash \in BOOLEAN :
           Begin(w, "record.session", [NoCall EXCEPT !.entry = e, !.row = Paid(cash, None, 1)])
    BY <1>9 DEF Receive
  <2> DEFINE c == [NoCall EXCEPT !.entry = e, !.row = Paid(cash, None, 1)]
  <2>2. c \in Call /\ c.entry = e
    BY <1>1, ConstantTypes, PaidType DEF Call
  <2>3. MayWrite(w) /\ entries[e].state = "pending" /\ UNCHANGED <<status, expected, entries, lock>>
    BY <1>9 DEF Receive
  <2> HIDE DEF c
  <2>4. /\ pc' \in [Worker -> Step] /\ call' \in [Worker -> Call]
        /\ \A v \in Worker \ {w} : pc'[v] = pc[v] /\ call'[v] = call[v]
        /\ pc'[w] = "record.session" /\ call'[w] = c
    BY <2>1, <2>2, BeginFacts DEF c, SessionInv, Step
  <2>5. WriterOK(w)'
    BY <2>2, <2>3, <2>4 DEF WriterOK, Loose, IsClosed
  <2> QED  BY <2>2, <2>3, <2>4, <2>5 DEF Started, Writing
<1>10. CASE Delete(w, e)
  <2> DEFINE c == [NoCall EXCEPT !.entry = e]
  <2>1. c \in Call /\ c.entry = e
    BY ConstantTypes DEF Call
  <2>2. /\ MayWrite(w) /\ ~ IsClosed(entries[e].session) /\ Begin(w, "undo.write", c)
        /\ UNCHANGED <<status, expected, entries, lock>>
    BY <1>10 DEF Delete
  <2> HIDE DEF c
  <2>3. /\ pc' \in [Worker -> Step] /\ call' \in [Worker -> Call]
        /\ \A v \in Worker \ {w} : pc'[v] = pc[v] /\ call'[v] = call[v]
        /\ pc'[w] = "undo.write" /\ call'[w] = c
    BY <2>1, <2>2, BeginFacts DEF SessionInv, Step
  <2>4. WriterOK(w)'
    BY <2>1, <2>2, <2>3 DEF WriterOK, Loose, IsClosed
  <2> QED  BY <2>1, <2>2, <2>3, <2>4 DEF Started, Writing
<1>11. CASE Undo(w, e)
  <2> DEFINE c == [NoCall EXCEPT !.entry = e, !.session = entries[e].session]
  <2>1. c \in Call /\ c.entry = e /\ c.session = entries[e].session
    BY ConstantTypes DEF Call, SessionInv, TypeOK, Row
  <2>2. /\ MayWrite(w) /\ Begin(w, "undo.check", c)
        /\ UNCHANGED <<status, expected, entries, lock>>
    BY <1>11 DEF Undo
  <2> HIDE DEF c
  <2>3. /\ pc' \in [Worker -> Step] /\ call' \in [Worker -> Call]
        /\ \A v \in Worker \ {w} : pc'[v] = pc[v] /\ call'[v] = call[v]
        /\ pc'[w] = "undo.check" /\ call'[w] = c
    BY <2>1, <2>2, BeginFacts DEF SessionInv, Step
  <2>4. WriterOK(w)'
    BY <2>1, <2>2, <2>3 DEF WriterOK
  <2> QED  BY <2>1, <2>2, <2>3, <2>4 DEF Started, Writing
<1>12. CASE UpdateSale(w, e)
  <2>1. PICK edit \in Edit :
           /\ EditAllowed(entries[e], edit)
           /\ Begin(w, IF edit.state = "paid" /\ entries[e].state # "paid"
                       THEN "edit.session" ELSE "edit.write",
                    [NoCall EXCEPT !.entry = e, !.edit = edit, !.row = entries[e]])
    BY <1>12 DEF UpdateSale
  <2> DEFINE c == [NoCall EXCEPT !.entry = e, !.edit = edit, !.row = entries[e]]
             step == IF edit.state = "paid" /\ entries[e].state # "paid"
                     THEN "edit.session" ELSE "edit.write"
  <2>2. c \in Call /\ c.entry = e /\ c.edit = edit /\ c.row = entries[e]
    BY ConstantTypes DEF Call, SessionInv, TypeOK
  <2>3. MayWrite(w) /\ UNCHANGED <<status, expected, entries, lock>>
    BY <1>12 DEF UpdateSale
  <2>4. step \in {"edit.session", "edit.write"}
    OBVIOUS
  <2>5. step = "edit.write" => ~ (edit.state = "paid" /\ entries[e].state # "paid")
    OBVIOUS
  <2>6. step = "edit.session" => ~ IsClosed(entries[e].session)
    BY <2>1, NoneAssumption
       DEF EditAllowed, MoneyChanged, Merge, SessionInv, TypeOK, Row
  <2> HIDE DEF c, step
  <2>7. /\ pc' \in [Worker -> Step] /\ call' \in [Worker -> Call]
        /\ \A v \in Worker \ {w} : pc'[v] = pc[v] /\ call'[v] = call[v]
        /\ pc'[w] = step /\ call'[w] = c
    BY <2>1, <2>2, <2>4, BeginFacts DEF c, step, SessionInv, Step
  <2>8. WriterOK(w)'
    BY <2>1, <2>2, <2>3, <2>4, <2>5, <2>6, <2>7
       DEF WriterOK, Pays, EditAllowed, IsClosed, MoneyChanged
  <2> QED  BY <2>2, <2>3, <2>4, <2>7, <2>8 DEF Started, Writing
<1>13. CASE LowerPending(w, e)
  <2>1. PICK n \in Amount :
           Begin(w, "edit.write", [NoCall EXCEPT !.entry = e, !.row = entries[e],
                                                 !.edit = [NoEdit EXCEPT !.amount = n]])
    BY <1>13 DEF LowerPending
  <2> DEFINE edit == [NoEdit EXCEPT !.amount = n]
             c == [NoCall EXCEPT !.entry = e, !.row = entries[e], !.edit = edit]
  <2>2. edit \in Edit /\ edit.state = None
    BY ConstantTypes DEF Edit, NoEdit
  <2> HIDE DEF edit
  <2>3. c \in Call /\ c.entry = e /\ c.edit = edit /\ c.row = entries[e]
    BY <2>2, ConstantTypes DEF Call, SessionInv, TypeOK
  <2>4. /\ MayWrite(w) /\ ~ IsClosed(entries[e].session)
        /\ UNCHANGED <<status, expected, entries, lock>>
    BY <1>13 DEF LowerPending
  <2> HIDE DEF c
  <2>5. /\ pc' \in [Worker -> Step] /\ call' \in [Worker -> Call]
        /\ \A v \in Worker \ {w} : pc'[v] = pc[v] /\ call'[v] = call[v]
        /\ pc'[w] = "edit.write" /\ call'[w] = c
    BY <2>1, <2>3, BeginFacts DEF c, edit, SessionInv, Step
  <2>6. WriterOK(w)'
    BY <2>2, <2>3, <2>4, <2>5, NoneAssumption DEF WriterOK, Pays, IsClosed
  <2> QED  BY <2>3, <2>4, <2>5, <2>6 DEF Started, Writing
<1> QED
  BY <1>3, <1>4, <1>5, <1>6, <1>7, <1>8, <1>9, <1>10, <1>11, <1>12, <1>13
     DEF Request

----------------------------------------------------------------------------
(* The writes *)

(* A step of w that changes no row, or replaces a row that holds no money   *)
(* in a closed session by one that is in no closed session                  *)
Written(w) ==
    /\ pc[w] \in Writing
    /\ UNCHANGED <<status, expected, lock>>
    /\ Done(w)
    /\ entries' \in [Entry -> Row]
    /\ \/ UNCHANGED entries
       \/ \E e \in Entry : /\ Loose(e) /\ ~ IsClosed(entries'[e].session)
                           /\ \A f \in Entry \ {e} : entries'[f] = entries[f]

(* RecordWrite and UndoWrite are such steps. *)
LEMMA RecordWritten ==
    ASSUME SessionInv, NEW w \in Worker, WriterOK(w), RecordWrite(w) \/ UndoWrite(w)
    PROVE  Written(w)
<1> DEFINE e == call[w].entry
           r == IF pc[w] = "record.write" THEN call[w].row ELSE NoRow(e)
<1>1. pc[w] \in {"record.write", "undo.write"} /\ pc[w] \in Writing
  BY DEF RecordWrite, UndoWrite, Writing
<1>2. e \in Entry
  BY <1>1 DEF SessionInv, CallTargets
<1>3. r \in Row /\ ~ IsClosed(r.session) /\ Loose(e)
  BY <1>2, ConstantTypes, <1>1
     DEF SessionInv, TypeOK, Call, WriterOK, NoRow, Absent, Unpaid, IsClosed
<1>4. entries' = entries \/ entries' = [entries EXCEPT ![e] = r]
  BY DEF RecordWrite, UndoWrite
<1> HIDE DEF r
<1>5. entries' \in [Entry -> Row]
  BY <1>3, <1>4 DEF SessionInv, TypeOK
<1>6. entries' = [entries EXCEPT ![e] = r] =>
          entries'[e] = r /\ \A f \in Entry \ {e} : entries'[f] = entries[f]
  BY <1>2 DEF SessionInv, TypeOK
<1>7. UNCHANGED <<status, expected, lock>> /\ Done(w)
  BY DEF RecordWrite, UndoWrite
<1> QED  BY <1>1, <1>2, <1>3, <1>4, <1>5, <1>6, <1>7 DEF Written

(* So is EditWrite: a sale of a closed session is written as it was. *)
LEMMA EditWritten ==
    ASSUME SessionInv, NEW w \in Worker, WriterOK(w), EditWrite(w)
    PROVE  Written(w)
<1> DEFINE e == call[w].entry
           edit == call[w].edit
           old == entries[e]
           r == [state |-> Merge(old.state, edit.state),
                 cash |-> Merge(old.cash, edit.cash),
                 session |-> IF Pays(w) THEN call[w].session ELSE old.session,
                 amount |-> Merge(old.amount, edit.amount)]
<1>1. pc[w] = "edit.write" /\ pc[w] \in Writing
  BY DEF EditWrite, Writing
<1>2. e \in Entry /\ old \in Row /\ edit \in Edit /\ call[w].session \in Session \cup {None}
  BY <1>1 DEF SessionInv, CallTargets, TypeOK, Call
<1>3. old.session \in Session \cup {None}
  BY <1>2 DEF Row
<1>4. r \in Row
  BY <1>2, <1>3, MergeType DEF Row
<1>5. entries' = entries \/ entries' = [entries EXCEPT ![e] = r]
  BY DEF EditWrite, Pays
<1>6. CASE ~ IsClosed(old.session)
  <2>1. Loose(e) /\ ~ IsClosed(r.session)
    BY <1>1, <1>6 DEF WriterOK, Loose
  <2> HIDE DEF r
  <2>2. entries' \in [Entry -> Row]
    BY <1>4, <1>5 DEF SessionInv, TypeOK
  <2>3. entries' = [entries EXCEPT ![e] = r] =>
            entries'[e] = r /\ \A f \in Entry \ {e} : entries'[f] = entries[f]
    BY <1>2 DEF SessionInv, TypeOK
  <2>4. UNCHANGED <<status, expected, lock>> /\ Done(w)
    BY DEF EditWrite
  <2> QED  BY <1>1, <1>2, <1>5, <2>1, <2>2, <2>3, <2>4 DEF Written
<1>7. CASE IsClosed(old.session)
  <2>1. ~ Pays(w) /\ ~ MoneyChanged(old, edit)
    BY <1>1, <1>7 DEF WriterOK
  <2>2. r = old
    BY <1>2, <2>1 DEF MoneyChanged, Row
  <2> HIDE DEF r
  <2>3. UNCHANGED entries
    BY <1>2, <1>5, <2>2 DEF SessionInv, TypeOK
  <2>4. UNCHANGED <<status, expected, lock>> /\ Done(w)
    BY DEF EditWrite
  <2> QED  BY <1>1, <2>3, <2>4 DEF Written, SessionInv, TypeOK
<1> QED  BY <1>6, <1>7

(* A write keeps DrawerInv: no close is under way, and no closed session    *)
(* has the row, before or after.                                            *)
LEMMA WrittenKeeps ==
    ASSUME SessionInv, DrawerInv, NEW w \in Worker, Written(w)
    PROVE  DrawerInv'
<1>1. /\ pc' \in [Worker -> Step] /\ call' \in [Worker -> Call]
      /\ \A v \in Worker \ {w} : pc'[v] = pc[v] /\ call'[v] = call[v]
      /\ pc'[w] = "idle" /\ call'[w] = NoCall
  BY DoneFacts DEF Written, SessionInv
<1>2. Exclusive'
  BY <1>1 DEF DrawerInv, Exclusive, Closing, Writing
<1>3. ASSUME NEW v \in Worker PROVE pc'[v] \notin Closing
  BY <1>1 DEF Written, DrawerInv, Exclusive, Closing
<1>4. \A v \in Worker : CloserOK(v)'
  BY <1>3 DEF CloserOK
<1>5. \A s : IsClosed(s)' <=> IsClosed(s)
  BY DEF Written, IsClosed
<1>6. CASE UNCHANGED entries
  BY <1>6, <1>1, <1>5, <1>2, <1>4
     DEF Written, DrawerInv, Reconciled, TermOf, WriterOK, Loose, Pays, MoneyChanged
<1>7. ASSUME NEW e \in Entry, Loose(e), ~ IsClosed(entries'[e].session),
             \A f \in Entry \ {e} : entries'[f] = entries[f]
      PROVE  DrawerInv'
  <2>1. Reconciled'
    <3> SUFFICES ASSUME NEW s \in Session, status[s] = "CLOSED", NEW f \in Entry
                 PROVE  expected[s][f] = TermOf(f, s)'
      BY DEF Reconciled, Written
    <3>1. expected[s][f] = TermOf(f, s)
      BY DEF DrawerInv, Reconciled
    <3>2. CASE f # e
      BY <1>7, <3>1, <3>2 DEF TermOf
    <3>3. CASE f = e
      BY <1>7, <3>3, NoneAssumption, <3>1 DEF TermOf, Loose, IsClosed
    <3> QED  BY <3>2, <3>3
  <2>2. ASSUME NEW v \in Worker PROVE WriterOK(v)'
    BY <1>1, <1>5, <1>7
       DEF WriterOK, DrawerInv, Loose, Pays, SessionInv, CallTargets, MoneyChanged,
           Writing
  <2> QED  BY <1>2, <1>4, <2>1, <2>2 DEF DrawerInv
<1> QED  BY <1>6, <1>7 DEF Written

----------------------------------------------------------------------------
(* Steps that change no row and no session *)

(* Such a step of w keeps DrawerInv when w's own part holds afterwards. *)
LEMMA NotedKeeps ==
    ASSUME SessionInv, DrawerInv, NEW w \in Worker, UNCHANGED <<status, expected, entries>>,
           \A v \in Worker \ {w} : pc'[v] = pc[v] /\ call'[v] = call[v],
           pc'[w] \in Closing => \A v \in Worker \ {w} : pc[v] \notin Writing,
           pc'[w] \in Writing => \A v \in Worker \ {w} : pc[v] \notin Closing,
           WriterOK(w)', CloserOK(w)'
    PROVE  DrawerInv'
BY DEF DrawerInv, Exclusive, Closing, Writing, IsClosed, Reconciled, TermOf, WriterOK,
       Loose, Pays, MoneyChanged, CloserOK

(* The start of a request that writes a row *)
LEMMA RequestKeeps ==
    ASSUME SessionInv, NEW w \in Worker, NEW e \in Entry, Request(w, e)
    PROVE  SessionInv' /\ (~ Overlap /\ DrawerInv => DrawerInv')
BY RequestStarted, QuietStep, NotedKeeps
   DEF Started, SessionInv, TypeOK, Writing, Closing, CloserOK, MayWrite

(* The look-ups in the middle of a request *)
LEMMA LookUpKeeps ==
    ASSUME SessionInv, NEW w \in Worker, RecordSession(w) \/ EditSession(w) \/ UndoCheck(w)
    PROVE  SessionInv' /\ (DrawerInv => DrawerInv')
<1>1. UNCHANGED <<status, expected, entries, lock>>
  BY DEF RecordSession, EditSession, UndoCheck
<1>2. CASE Done(w)
  BY <1>2, DoneFacts, <1>1, QuietStep, NotedKeeps
     DEF SessionInv, TypeOK, WriterOK, CloserOK, Closing, Writing
<1>3. CASE ~ Done(w)
  <2>1. PICK step \in {"record.write", "edit.write", "undo.write"} :
           Goto(w, step) /\ pc[w] \in Writing
    BY <1>3 DEF RecordSession, EditSession, UndoCheck, Writing
  <2>2. /\ call' \in [Worker -> Call]
        /\ \A v \in Worker \ {w} : call'[v] = call[v]
        /\ call'[w].entry = call[w].entry
    <3>1. CASE RecordSession(w)
      <4>1. PICK s \in CashOnly(call[w].row.cash) : call' = [call EXCEPT ![w].row.session = s]
        BY <3>1 DEF RecordSession
      <4>2. s \in Session \cup {None}
        BY FoundType
      <4>3. call[w] \in Call /\ call[w].row \in Row
        BY DEF SessionInv, TypeOK, Call
      <4>4. [call[w].row EXCEPT !.session = s] \in Row
        BY <4>2, <4>3 DEF Row
      <4>5. [call[w] EXCEPT !.row = [@ EXCEPT !.session = s]] \in Call
        BY <4>3, <4>4 DEF Call
      <4>6. call' = [call EXCEPT ![w] = [call[w] EXCEPT !.row = [@ EXCEPT !.session = s]]]
        BY <4>1
      <4> QED  BY <4>3, <4>5, <4>6 DEF SessionInv, TypeOK, Call
    <3>2. CASE EditSession(w)
      <4>1. PICK s \in FoundSession : call' = [call EXCEPT ![w].session = s]
        BY <3>2 DEF EditSession
      <4>2. s \in Session \cup {None}
        BY FoundType
      <4>3. call[w] \in Call
        BY DEF SessionInv, TypeOK
      <4>4. [call[w] EXCEPT !.session = s] \in Call
        BY <4>2, <4>3 DEF Call
      <4> QED  BY <4>1, <4>4 DEF SessionInv, TypeOK
    <3>3. CASE UndoCheck(w)
      BY <1>3, <3>3 DEF UndoCheck, SessionInv, TypeOK
    <3> QED  BY <3>1, <3>2, <3>3
  <2>3. /\ pc' \in [Worker -> Step] /\ pc'[w] = step
        /\ \A v \in Worker \ {w} : pc'[v] = pc[v]
    BY <2>1 DEF Goto, SessionInv, TypeOK, Step
  <2>4. TypeOK'
    BY <1>1, <2>2, <2>3 DEF SessionInv, TypeOK
  <2>5. SessionInv'
    BY <1>1, <2>1, <2>2, <2>3, <2>4, QuietStep
       DEF SessionInv, CallTargets, Closing
  <2>6. ASSUME DrawerInv PROVE WriterOK(w)'
    <3>1. WriterOK(w) /\ \A s : IsClosed(s)' <=> IsClosed(s)
      BY <1>1, <2>6 DEF DrawerInv, IsClosed
    <3>2. CASE RecordSession(w)
      <4>1. PICK s \in CashOnly(call[w].row.cash) : call' = [call EXCEPT ![w].row.session = s]
        BY <3>2 DEF RecordSession
      <4>2. ~ IsClosed(s) /\ call'[w].row.session = s /\ pc'[w] = "record.write"
        BY <3>2, <4>1, <2>3, FoundType
           DEF SessionInv, TypeOK, Call, Row, RecordSession, Goto
      <4> QED  BY <1>1, <2>2, <3>1, <3>2, <4>2 DEF WriterOK, Loose, RecordSession
    <3>3. CASE EditSession(w)
      <4>1. PICK s \in FoundSession : call' = [call EXCEPT ![w].session = s]
        BY <3>3 DEF EditSession
      <4>2. ~ IsClosed(s) /\ call'[w].session = s /\ pc'[w] = "edit.write"
        BY <3>3, <4>1, <2>3, FoundType
           DEF SessionInv, TypeOK, Call, EditSession, Goto
      <4> QED  BY <1>1, <2>2, <3>1, <3>3, <4>2 DEF WriterOK, Loose, EditSession
    <3>4. CASE UndoCheck(w)
      BY <1>3, <3>4, <2>3, <1>1, <3>1
         DEF UndoCheck, Goto, SessionInv, TypeOK, WriterOK, Loose
    <3> QED  BY <3>2, <3>3, <3>4
  <2>7. CloserOK(w)'
    BY <2>3 DEF CloserOK, Closing
  <2>8. ASSUME DrawerInv PROVE DrawerInv'
    BY <1>1, <2>1, <2>2, <2>3, <2>6, <2>7, <2>8, NotedKeeps
       DEF DrawerInv, Exclusive, Closing
  <2> QED  BY <2>5, <2>8
<1> QED  BY <1>2, <1>3

(* The writes *)
LEMMA WriteKeeps ==
    ASSUME SessionInv, NEW w \in Worker, RecordWrite(w) \/ UndoWrite(w) \/ EditWrite(w)
    PROVE  SessionInv' /\ (DrawerInv => DrawerInv')
<1>1. UNCHANGED <<status, expected, lock>> /\ Done(w) /\ pc[w] \in Writing
  BY DEF RecordWrite, UndoWrite, EditWrite, Writing
<1>2. /\ pc' \in [Worker -> Step] /\ call' \in [Worker -> Call]
      /\ \A v \in Worker \ {w} : pc'[v] = pc[v] /\ call'[v] = call[v]
      /\ pc'[w] = "idle"
  BY <1>1, DoneFacts DEF SessionInv
<1>3. entries' \in [Entry -> Row]
  <2> DEFINE e == call[w].entry
  <2>1. e \in Entry /\ entries[e] \in Row /\ call[w] \in Call
    BY <1>1 DEF SessionInv, CallTargets, TypeOK
  <2>2. CASE RecordWrite(w)
    BY <2>1, <2>2 DEF RecordWrite, SessionInv, TypeOK, Call
  <2>3. CASE UndoWrite(w)
    BY <2>1, <2>3, ConstantTypes DEF UndoWrite, SessionInv, TypeOK
  <2>4. CASE EditWrite(w)
    <3> DEFINE edit == call[w].edit
               old == entries[e]
               pays == edit.state = "paid" /\ call[w].row.state # "paid"
               r == [state |-> Merge(old.state, edit.state),
                     cash |-> Merge(old.cash, edit.cash),
                     session |-> IF pays THEN call[w].session ELSE old.session,
                     amount |-> Merge(old.amount, edit.amount)]
    <3>1. edit \in Edit /\ call[w].session \in Session \cup {None}
      BY <2>1 DEF Call
    <3>2. old.session \in Session \cup {None}
      BY <2>1 DEF Row
    <3>3. r \in Row
      BY <2>1, <3>1, <3>2, MergeType DEF Row
    <3>4. entries' = entries \/ entries' = [entries EXCEPT ![e] = r]
      BY <2>4 DEF EditWrite
    <3> HIDE DEF r
    <3> QED  BY <3>3, <3>4 DEF SessionInv, TypeOK
  <2> QED  BY <2>2, <2>3, <2>4
<1>4. TypeOK'
  BY <1>1, <1>2, <1>3 DEF SessionInv, TypeOK
<1>5. SessionInv'
  BY <1>1, <1>2, <1>4, QuietStep DEF Closing, Writing
<1>6. ASSUME DrawerInv PROVE DrawerInv'
  BY <1>6, RecordWritten, EditWritten, WrittenKeeps DEF DrawerInv
<1> QED  BY <1>5, <1>6

----------------------------------------------------------------------------
(* Opening and closing *)

(* The opener holds the lock from its check to its insert, so two cannot    *)
(* both find the drawer closed.                                             *)
LEMMA OpenCheckKeeps ==
    ASSUME SessionInv, NEW w \in Worker, OpenCheck(w)
    PROVE  SessionInv' /\ (DrawerInv => DrawerInv')
<1>1. /\ lock = None /\ OpenSessions = {} /\ lock' = w /\ Begin(w, "open.create", NoCall)
      /\ UNCHANGED <<status, expected, entries>>
  BY DEF OpenCheck
<1>2. /\ pc' \in [Worker -> Step] /\ call' \in [Worker -> Call]
      /\ \A v \in Worker \ {w} : pc'[v] = pc[v] /\ call'[v] = call[v]
      /\ pc'[w] = "open.create"
  BY <1>1, ConstantTypes, BeginFacts DEF SessionInv, Step
<1>3. TypeOK'
  BY <1>1, <1>2 DEF SessionInv, TypeOK
<1>4. OpenSessions' = {}
  BY <1>1 DEF OpenSessions
<1>5. OpenerAlone'
  <2> SUFFICES ASSUME NEW v \in Worker, pc'[v] = "open.create"
               PROVE  lock' = v /\ OpenSessions' = {}
    BY DEF OpenerAlone
  <2>1. CASE v # w
    BY <1>2, <2>1, <1>1, NoneAssumption DEF SessionInv, OpenerAlone
  <2> QED  BY <1>1, <1>4, <2>1
<1>6. SoleOpen' /\ CallTargets'
  BY <1>2, <1>4 DEF SessionInv, SoleOpen, CallTargets, Closing, Writing
<1>7. WriterOK(w)' /\ CloserOK(w)'
  BY <1>2 DEF WriterOK, CloserOK, Closing
<1>8. ASSUME DrawerInv PROVE DrawerInv'
  BY <1>1, <1>2, <1>7, <1>8, NotedKeeps DEF Closing, Writing
<1> QED  BY <1>3, <1>5, <1>6, <1>8 DEF SessionInv

(* A session that is opened is new: no row and no close knows it. *)
LEMMA OpenCreateKeeps ==
    ASSUME SessionInv, NEW w \in Worker, OpenCreate(w)
    PROVE  SessionInv' /\ (DrawerInv => DrawerInv')
<1>1. /\ pc[w] = "open.create" /\ lock' = None /\ Done(w) /\ UNCHANGED <<expected, entries>>
      /\ OpenSessions = {} /\ lock = w
  BY DEF OpenCreate, SessionInv, OpenerAlone
<1>2. /\ pc' \in [Worker -> Step] /\ call' \in [Worker -> Call]
      /\ \A v \in Worker \ {w} : pc'[v] = pc[v] /\ call'[v] = call[v]
      /\ pc'[w] = "idle"
  BY <1>1, DoneFacts DEF SessionInv
<1>3. \/ UNCHANGED status
      \/ \E s \in Session : status[s] = "none" /\ status' = [status EXCEPT ![s] = "OPEN"]
  BY DEF OpenCreate
<1>4. TypeOK'
  BY <1>1, <1>2, <1>3 DEF SessionInv, TypeOK
<1>5. SoleOpen'
  BY <1>1, <1>3 DEF SoleOpen, OpenSessions, SessionInv, TypeOK
<1>6. OpenerAlone'
  BY <1>1, <1>2 DEF SessionInv, OpenerAlone
<1>7. CallTargets'
  BY <1>2 DEF SessionInv, CallTargets, Closing, Writing
<1>8. /\ \A s \in Session \cup {None} : IsClosed(s)' <=> IsClosed(s)
      /\ \A s \in Session : status[s] # "none" => status'[s] = status[s]
      /\ \A s \in Session : status'[s] = "CLOSED" => status[s] = "CLOSED"
  BY <1>3, NoneAssumption DEF IsClosed, SessionInv, TypeOK
<1>9. ASSUME DrawerInv PROVE DrawerInv'
  <2>1. Exclusive'
    BY <1>2, <1>9 DEF DrawerInv, Exclusive, Closing, Writing
  <2>2. Reconciled'
    BY <1>1, <1>8, <1>9 DEF DrawerInv, Reconciled, TermOf
  <2>3. ASSUME NEW v \in Worker PROVE WriterOK(v)' /\ CloserOK(v)'
    <3>1. CASE v = w \/ pc[v] \notin Closing \cup Writing
      BY <1>2, <3>1 DEF WriterOK, CloserOK, Closing, Writing
    <3>2. CASE v # w /\ pc[v] \in Closing
      BY <1>9, <3>2, <1>8, <1>1, <1>2
         DEF SessionInv, CallTargets, DrawerInv, CloserOK, TermOf, WriterOK, Closing
    <3>3. CASE v # w /\ pc[v] \in Writing
      <4> DEFINE e == call[v].entry
      <4>1. e \in Entry /\ entries[e] \in Row /\ call[v] \in Call
        BY <3>3 DEF SessionInv, CallTargets, TypeOK
      <4>2. /\ entries[e].session \in Session \cup {None}
            /\ call[v].session \in Session \cup {None}
            /\ call[v].row.session \in Session \cup {None}
        BY <4>1 DEF Row, Call
      <4>3. WriterOK(v)
        BY <1>9 DEF DrawerInv
      <4>4. UNCHANGED <<entries, pc[v], call[v]>>
        BY <1>1, <1>2, <3>3
      <4>5. WriterOK(v)'
        BY <1>8, <4>2, <4>3, <4>4 DEF WriterOK, Loose, Pays, MoneyChanged
      <4>6. CloserOK(v)'
        BY <3>3, <4>4 DEF CloserOK, Closing, Writing
      <4> QED  BY <4>5, <4>6
    <3> QED  BY <3>1, <3>2, <3>3
  <2> QED  BY <2>1, <2>2, <2>3 DEF DrawerInv
<1> QED  BY <1>4, <1>5, <1>6, <1>7, <1>9 DEF SessionInv

(* A close starts when no row is being written. *)
LEMMA CloseReadKeeps ==
    ASSUME SessionInv, NEW w \in Worker, CloseRead(w)
    PROVE  SessionInv' /\ (~ Overlap /\ DrawerInv => DrawerInv')
<1>1. PICK s \in OpenSessions :
         Begin(w, "close.sum", [NoCall EXCEPT !.session = s, !.left = Sums])
  BY DEF CloseRead
<1>2. MayClose(w) /\ UNCHANGED <<status, expected, entries, lock>>
  BY DEF CloseRead
<1> DEFINE c == [NoCall EXCEPT !.session = s, !.left = Sums]
<1>3. s \in Session /\ status[s] = "OPEN"
  BY DEF OpenSessions
<1>4. c \in Call /\ c.session = s /\ c.left = Sums
  <2>1. Sums \subseteq SUBSET Kind
    BY DEF Sums, Kind
  <2> QED  BY <1>3, <2>1, ConstantTypes DEF Call
<1> HIDE DEF c
<1>5. /\ pc' \in [Worker -> Step] /\ call' \in [Worker -> Call]
      /\ \A v \in Worker \ {w} : pc'[v] = pc[v] /\ call'[v] = call[v]
      /\ pc'[w] = "close.sum" /\ call'[w] = c
  BY <1>1, <1>4, BeginFacts DEF c, SessionInv, Step
<1>6. TypeOK'
  BY <1>2, <1>5 DEF SessionInv, TypeOK
<1>7. SessionInv'
  BY <1>2, <1>3, <1>4, <1>5, <1>6, QuietStep DEF Writing
<1>8. WriterOK(w)'
  BY <1>5 DEF WriterOK
<1>9. CloserOK(w)'
  <2>1. \A e \in Entry : \E kinds \in Sums : KindOf[e] \in kinds
    BY KindAssumption DEF Sums, Kind
  <2> QED  BY <1>2, <1>3, <1>4, <1>5, <2>1 DEF CloserOK
<1>10. ASSUME ~ Overlap, DrawerInv PROVE DrawerInv'
  BY <1>2, <1>5, <1>8, <1>9, <1>10, NotedKeeps DEF MayClose, Writing
<1> QED  BY <1>7, <1>10

(* An aggregate adds the terms of its own rows. *)
LEMMA CloseSumKeeps ==
    ASSUME SessionInv, NEW w \in Worker, CloseSum(w)
    PROVE  SessionInv' /\ (DrawerInv => DrawerInv')
<1> DEFINE s == call[w].session
           left == call[w].left
<1>1. /\ pc[w] = "close.sum" /\ pc[w] \in Closing
      /\ UNCHANGED <<status, expected, entries, lock>>
  BY DEF CloseSum, Closing
<1>2. PICK kinds \in left :
         /\ call' = [call EXCEPT ![w].terms = Terms(@, kinds, s), ![w].left = @ \ {kinds}]
         /\ Goto(w, IF left = {kinds} THEN "close.write" ELSE "close.sum")
  BY DEF CloseSum
<1>3. s \in Session /\ call[w] \in Call
  BY <1>1 DEF SessionInv, CallTargets, TypeOK
<1>4. \A e \in Entry : TermOf(e, s) \in 0..MaxAmount
  BY AmountAssumption DEF TermOf, SessionInv, TypeOK, Row, Amount
<1>5. Terms(call[w].terms, kinds, s) \in [Entry -> 0..MaxAmount]
  BY <1>3, <1>4 DEF Terms, Call
<1> DEFINE c == [call[w] EXCEPT !.terms = Terms(@, kinds, s), !.left = @ \ {kinds}]
<1>6. /\ c \in Call /\ c.session = s /\ c.left = left \ {kinds}
      /\ c.terms = Terms(call[w].terms, kinds, s)
  BY <1>3, <1>5 DEF Call
<1>7. call' = [call EXCEPT ![w] = c]
  BY <1>2 DEF SessionInv, TypeOK
<1> HIDE DEF c
<1>8. /\ call' \in [Worker -> Call] /\ call'[w] = c
      /\ \A v \in Worker \ {w} : call'[v] = call[v]
  BY <1>6, <1>7 DEF SessionInv, TypeOK
<1>9. /\ pc' \in [Worker -> Step] /\ \A v \in Worker \ {w} : pc'[v] = pc[v]
      /\ pc'[w] = IF left = {kinds} THEN "close.write" ELSE "close.sum"
  BY <1>2 DEF Goto, SessionInv, TypeOK, Step
<1>10. TypeOK'
  BY <1>1, <1>8, <1>9 DEF SessionInv, TypeOK
<1>11. SessionInv'
  BY <1>1, <1>3, <1>6, <1>8, <1>9, <1>10, QuietStep DEF Writing
<1>12. ASSUME DrawerInv PROVE DrawerInv'
  BY <1>9, <1>12, <1>1, <1>6, <1>8, NotedKeeps
     DEF WriterOK, DrawerInv, TermOf, CloserOK, Terms, Exclusive, Writing
<1> QED  BY <1>11, <1>12

(* The first close stores its terms, which are still what the rows say.     *)
LEMMA CloseWriteKeeps ==
    ASSUME SessionInv, NEW w \in Worker, CloseWrite(w)
    PROVE  SessionInv' /\ (DrawerInv => DrawerInv')
<1> DEFINE s == call[w].session
<1>1. /\ pc[w] = "close.write" /\ pc[w] \in Closing /\ Done(w) /\ UNCHANGED <<entries, lock>>
      /\ \/ UNCHANGED <<status, expected>>
         \/ /\ status[s] = "OPEN"
            /\ status' = [status EXCEPT ![s] = "CLOSED"]
            /\ expected' = [expected EXCEPT ![s] = call[w].terms]
  BY DEF CloseWrite, Closing
<1>2. /\ pc' \in [Worker -> Step] /\ call' \in [Worker -> Call]
      /\ \A v \in Worker \ {w} : pc'[v] = pc[v] /\ call'[v] = call[v]
      /\ pc'[w] = "idle"
  BY <1>1, DoneFacts DEF SessionInv
<1>3. s \in Session /\ call[w].terms \in [Entry -> 0..MaxAmount]
  BY <1>1 DEF SessionInv, CallTargets, TypeOK, Call
<1>4. TypeOK'
  BY <1>1, <1>2, <1>3 DEF SessionInv, TypeOK
<1>5. OpenSessions' \subseteq OpenSessions
  BY <1>1, <1>3 DEF OpenSessions, SessionInv, TypeOK
<1>6. SoleOpen'
  BY <1>5 DEF SessionInv, SoleOpen
<1>7. OpenerAlone'
  BY <1>1, <1>2, <1>5 DEF SessionInv, OpenerAlone
<1>8. CallTargets'
  BY <1>2 DEF SessionInv, CallTargets, Closing, Writing
<1>9. ASSUME DrawerInv PROVE DrawerInv'
  <2>1. \A v \in Worker : pc[v] \notin Writing /\ pc'[v] \notin Writing
    BY <1>1, <1>2, <1>9 DEF DrawerInv, Exclusive, Writing
  <2>2. Exclusive'
    BY <2>1 DEF Exclusive
  <2>3. \A v \in Worker : WriterOK(v)'
    BY <2>1 DEF WriterOK, Writing
  <2>4. Reconciled'
    <3> SUFFICES ASSUME NEW t \in Session, status'[t] = "CLOSED", NEW e \in Entry
                 PROVE  expected'[t][e] = TermOf(e, t)
      BY <1>1 DEF Reconciled, TermOf
    <3>1. CASE status[t] = "CLOSED"
      BY <1>1, <3>1, <1>9 DEF SessionInv, TypeOK, DrawerInv, Reconciled
    <3>2. CASE status[t] # "CLOSED"
      BY <1>1, <3>2, <1>9 DEF SessionInv, TypeOK, DrawerInv, CloserOK
    <3> QED  BY <3>1, <3>2
  <2>5. ASSUME NEW v \in Worker PROVE CloserOK(v)'
    BY <1>2, <1>9, <1>1
       DEF CloserOK, Closing, SessionInv, CallTargets, DrawerInv, TypeOK, TermOf
  <2> QED  BY <2>2, <2>3, <2>4, <2>5 DEF DrawerInv
<1> QED  BY <1>4, <1>6, <1>7, <1>8, <1>9 DEF SessionInv

----------------------------------------------------------------------------
(* The theorems *)

(* Both invariants hold at the start. *)
LEMMA InitHolds == Init => SessionInv /\ DrawerInv
<1> SUFFICES ASSUME Init PROVE SessionInv /\ DrawerInv
  OBVIOUS
<1>1. TypeOK
  BY ConstantTypes DEF Init, TypeOK, Step
<1>2. SessionInv
  BY <1>1
     DEF Init, SessionInv, SoleOpen, OpenSessions, OpenerAlone, CallTargets,
         Closing, Writing
<1>3. DrawerInv
  BY DEF Init, DrawerInv, Exclusive, WriterOK, CloserOK, Reconciled, Closing,
         Writing
<1> QED  BY <1>2, <1>3

(* Every step keeps SessionInv, and DrawerInv when no row is written while  *)
(* a session is being closed.                                               *)
LEMMA StepKeeps ==
    ASSUME SessionInv, [Next]_vars
    PROVE  SessionInv' /\ (~ Overlap /\ DrawerInv => DrawerInv')
<1>1. CASE UNCHANGED vars
  BY <1>1
     DEF vars, SessionInv, TypeOK, SoleOpen, OpenSessions, OpenerAlone, CallTargets,
         DrawerInv, Exclusive, WriterOK, Loose, Pays, MoneyChanged, IsClosed, CloserOK,
         Reconciled, TermOf
<1>2. CASE Next
  <2>1. PICK w \in Worker :
           OpenCheck(w) \/ CloseRead(w) \/ Advance(w) \/ \E e \in Entry : Request(w, e)
    BY <1>2 DEF Next
  <2>2. CASE Advance(w)
    BY <2>2, OpenCreateKeeps, CloseSumKeeps, CloseWriteKeeps, LookUpKeeps, WriteKeeps
       DEF Advance
  <2> QED  BY <2>1, <2>2, OpenCheckKeeps, CloseReadKeeps, RequestKeeps
<1> QED  BY <1>1, <1>2

(* The sessions' invariant holds in every behaviour. *)
THEOREM CashDrawerSessions == Spec => []SessionInv
<1>1. Init => SessionInv
  BY InitHolds
<1>2. SessionInv /\ [Next]_vars => SessionInv'
  BY StepKeeps
<1> QED  BY <1>1, <1>2, PTL DEF Spec

(* Every request and every row keeps its type. *)
THEOREM CashDrawerTypeOK == Spec => []TypeOK
<1>1. SessionInv => TypeOK
  BY DEF SessionInv
<1> QED  BY <1>1, CashDrawerSessions, PTL

(* However many people open the drawer at once, one session is open at most *)
(* (openCashSession).                                                       *)
THEOREM CashDrawerOneOpen == Spec => []OneOpen
<1>1. SessionInv => OneOpen
  <2> SUFFICES ASSUME SessionInv PROVE Cardinality(OpenSessions) <= 1
    BY DEF OneOpen
  <2>1. CASE OpenSessions = {}
    BY <2>1, FS_EmptySet
  <2>2. CASE OpenSessions # {}
    <3>1. PICK s \in OpenSessions : OpenSessions = {s}
      BY <2>2 DEF SessionInv, SoleOpen
    <3>2. Cardinality({s}) = 1
      BY FS_Singleton
    <3> QED  BY <3>1, <3>2
  <2> QED  BY <2>1, <2>2
<1> QED  BY <1>1, CashDrawerSessions, PTL

(* No request reopens a session that was closed or stores another balance   *)
(* for it (closeCashSession).                                               *)
THEOREM CashDrawerCloseIsFinal == Spec => CloseIsFinal
<1> DEFINE Final == \A s \in Session : status[s] = "CLOSED" =>
                       status'[s] = "CLOSED" /\ expected'[s] = expected[s]
<1>1. ASSUME SessionInv, [Next]_vars PROVE [Final]_vars
  BY <1>1, RequestStarted
     DEF OpenCreate, SessionInv, TypeOK, CloseWrite, Started, OpenCheck, CloseRead,
         CloseSum, RecordSession, RecordWrite, UndoCheck, UndoWrite, EditSession,
         EditWrite, Next, Advance
<1>2. [Final]_vars => [ClosedStays]_vars
  BY DEF ClosedStays
<1> QED  BY <1>1, <1>2, CashDrawerSessions, PTL DEF Spec, CloseIsFinal

(* When no row is written while a session is being closed, the balance      *)
(* stored with a session is what its rows say from then on                  *)
(* (closeCashSession, updateSale, deleteSale, deleteExpense, undoPayout).   *)
THEOREM CashDrawerReconciled == ~ Overlap /\ Spec => []Reconciled
<1> DEFINE Inv == ~ Overlap /\ SessionInv /\ DrawerInv
<1>1. ~ Overlap /\ Init => Inv
  BY InitHolds
<1>2. Inv /\ [Next]_vars => Inv'
  BY StepKeeps
<1>3. Inv => Reconciled
  BY DEF DrawerInv
<1> QED  BY <1>1, <1>2, <1>3, PTL DEF Spec

----------------------------------------------------------------------------
(***************************************************************************)
(* Proofs about Waitlist, for any number of entries, slots, requests and   *)
(* runs of the job: a slot that became free is in one pair of hands, who   *)
(* was told is not forgotten, and who leaves is out.                       *)
(*                                                                         *)
(* OfferedOnce counts, for every slot, the entries it is offered to and    *)
(* the requests that carry it, and is inductive once it is known that a    *)
(* request which passes an offer on names an entry and a slot (WaitJobOK): *)
(* every step either gives the slot from one to the other or drops it.     *)
(***************************************************************************)

(* Entries and slots are finitely many numbers, requests are finitely many. *)
WaitTables ==
    /\ EntryId \subseteq Nat /\ IsFiniteSet(EntryId)
    /\ Slot \subseteq Nat
    /\ IsFiniteSet(Worker)
    /\ None \notin EntryId \cup Slot

(* What a request remembers fits what it does. *)
WaitJobOK(j) ==
    /\ j.op \in {"pass", "back", "drop", "leave", "left"} => j.of # None
    /\ j.op \in {"pass", "passing"} => j.offer # None
    /\ j.op # "walk" => j.slots = {}

JobsOK == \A w \in Worker : WaitJobOK(job[w])

WaitTInv == Wait!TypeOK /\ JobsOK

LEMMA MinIn == ASSUME NEW T, T \subseteq Nat, T # {} PROVE Min(T) \in T
<1>1. PICK R : IsWellFoundedOn(R, Nat) /\ \A x, y \in Nat : <<y, x>> \in R <=> y < x
  BY NatLessThanWellFounded DEF OpToRel
<1>2. PICK x \in T : \A y \in T : ~ (<<y, x>> \in R)
  BY <1>1, WFMin
<1>3. \A y \in T : x <= y
  <2> SUFFICES ASSUME NEW y \in T PROVE x <= y
    OBVIOUS
  <2>1. ~ (y < x)
    BY <1>1, <1>2
  <2> QED  BY <2>1
<1> QED  BY <1>3 DEF Min

(* One hand takes what another gives, or one takes what just became free.   *)
LEMMA HandsCount ==
    ASSUME NEW X, IsFiniteSet(X), NEW Y, IsFiniteSet(Y),
           NEW H \in SUBSET X, NEW H2 \in SUBSET X, NEW C \in SUBSET Y, NEW C2 \in SUBSET Y,
           NEW n \in Nat, NEW m \in Nat, Cardinality(H) + Cardinality(C) <= n, n <= m,
           \/ H2 \subseteq H /\ C2 \subseteq C
           \/ \E w \in Y, e \in H : H2 \subseteq H \ {e} /\ C2 \subseteq C \cup {w}
           \/ \E w \in C, e \in X : H2 \subseteq H \cup {e} /\ C2 \subseteq C \ {w}
           \/ \E w \in Y : H2 \subseteq H /\ C2 \subseteq C \cup {w} /\ m = n + 1
    PROVE  Cardinality(H2) + Cardinality(C2) <= m
<1>1. \A A : (A \subseteq X \/ A \subseteq Y) => IsFiniteSet(A) /\ Cardinality(A) \in Nat
  BY FS_Subset, FS_CardinalityType
<1>2. ASSUME NEW A, NEW B, IsFiniteSet(A), B \subseteq A
      PROVE  Cardinality(B) <= Cardinality(A)
  BY <1>2, FS_Subset
<1>3. ASSUME NEW A, NEW B, NEW x, IsFiniteSet(A), B \subseteq A \cup {x}
      PROVE  Cardinality(B) <= Cardinality(A) + 1
  <2>1. IsFiniteSet(A \cup {x}) /\ Cardinality(A \cup {x}) \in Nat /\ Cardinality(A) \in Nat
        /\ (Cardinality(A \cup {x}) = Cardinality(A) \/ Cardinality(A \cup {x}) = Cardinality(A) + 1)
    BY <1>3, FS_AddElement, FS_CardinalityType
  <2>2. Cardinality(B) \in Nat /\ Cardinality(B) <= Cardinality(A \cup {x})
    BY <1>2, <1>3, <2>1, FS_Subset, FS_CardinalityType
  <2> QED  BY <2>1, <2>2
<1>4. ASSUME NEW A, NEW B, NEW x \in A, IsFiniteSet(A), B \subseteq A \ {x}
      PROVE  Cardinality(B) <= Cardinality(A) - 1
  <2>1. IsFiniteSet(A \ {x}) /\ Cardinality(A \ {x}) = Cardinality(A) - 1
    BY <1>4, FS_RemoveElement
  <2> QED  BY <1>2, <1>4, <2>1
<1>5. IsFiniteSet(H) /\ IsFiniteSet(C)
  BY <1>1
<1>6. Cardinality(H) \in Nat /\ Cardinality(C) \in Nat /\ Cardinality(H2) \in Nat /\ Cardinality(C2) \in Nat
  BY <1>1
<1>7. CASE H2 \subseteq H /\ C2 \subseteq C
  BY <1>2, <1>5, <1>7, <1>6
<1>8. CASE \E w \in Y, e \in H : H2 \subseteq H \ {e} /\ C2 \subseteq C \cup {w}
  <2>1. Cardinality(H2) <= Cardinality(H) - 1 /\ Cardinality(C2) <= Cardinality(C) + 1
    BY <1>3, <1>4, <1>5, <1>8
  <2> QED  BY <1>6, <2>1
<1>9. CASE \E w \in C, e \in X : H2 \subseteq H \cup {e} /\ C2 \subseteq C \ {w}
  <2>1. PICK w \in C, e \in X : H2 \subseteq H \cup {e} /\ C2 \subseteq C \ {w}
    BY <1>9
  <2>2. Cardinality(H2) <= Cardinality(H) + 1 /\ Cardinality(C2) <= Cardinality(C) - 1
    BY <1>3, <1>4, <1>5, <2>1
  <2> QED  BY <1>6, <2>2
<1>10. CASE \E w \in Y : H2 \subseteq H /\ C2 \subseteq C \cup {w} /\ m = n + 1
  <2>1. Cardinality(H2) <= Cardinality(H) /\ Cardinality(C2) <= Cardinality(C) + 1
    BY <1>2, <1>3, <1>5, <1>10
  <2> QED  BY <1>6, <1>10, <2>1
<1> QED  BY <1>7, <1>8, <1>9, <1>10

----------------------------------------------------------------------------
(* Types, and what requests remember *)

LEMMA RowTypes ==
    /\ \A s \in {"none", "BOOKED", "EXPIRED", "CANCELLED"} : Wait!Closed(s) \in Wait!Entry
    /\ Wait!WaitsAgain \in Wait!Entry
    /\ \A t \in Slot : Wait!Offered(t) \in Wait!Entry
BY DEF Wait!Entry, Wait!Closed, Wait!WaitsAgain, Wait!Offered

LEMMA WaitIdleOK == Wait!Idle \in Wait!Job /\ WaitJobOK(Wait!Idle)
BY DEF Wait!Idle, Wait!Job, WaitJobOK

LEMMA WalkOK ==
    ASSUME NEW ts \in SUBSET Slot, NEW of \in EntryId \cup {None}
    PROVE  Wait!Walk(ts, of) \in Wait!Job /\ WaitJobOK(Wait!Walk(ts, of))
BY DEF Wait!Walk, Wait!Job, WaitJobOK, Wait!Waiting

LEMMA AfterWalkOK == ASSUME NEW j \in Wait!Job PROVE Wait!AfterWalk(j) \in Wait!Job /\ WaitJobOK(Wait!AfterWalk(j))
BY WaitIdleOK DEF Wait!AfterWalk, Wait!Job, WaitJobOK, Wait!Idle

(* What one step of a request leaves in its place *)
LEMMA BecomesOK ==
    ASSUME WaitTInv, NEW w \in Worker, NEW j \in Wait!Job, WaitJobOK(j), Wait!Becomes(w, j)
    PROVE  job' \in [Worker -> Wait!Job] /\ JobsOK'
BY DEF WaitTInv, Wait!TypeOK, Wait!Becomes, JobsOK

LEMMA EndsBecomes == ASSUME NEW w PROVE Wait!Ends(w) <=> Wait!Becomes(w, Wait!Idle)
BY DEF Wait!Ends, Wait!Becomes

LEMMA WaitTypesOf ==
    ASSUME WaitTInv
    PROVE  /\ entry \in [EntryId -> Wait!Entry] /\ slot \in [Slot -> {"closed", "busy", "free", "past"}]
           /\ booked \subseteq EntryId /\ job \in [Worker -> Wait!Job] /\ freed \in [Slot -> Nat]
           /\ \A w \in Worker : job[w] \in Wait!Job /\ WaitJobOK(job[w])
           /\ \A w \in Worker : job[w].slots \subseteq Slot /\ job[w].rest \subseteq EntryId
                /\ job[w].of \in EntryId \cup {None} /\ job[w].offer \in Slot \cup {None}
           /\ \A e \in EntryId : entry[e] \in Wait!Entry /\ entry[e].offer \in Slot \cup {None}
BY DEF WaitTInv, Wait!TypeOK, JobsOK, Wait!Job, Wait!Entry

(* The agenda and the clock *)
LEMMA AgendaT ==
    ASSUME WaitTInv, WaitTables,
           \/ \E t \in Slot : Wait!Book(t) \/ Wait!SlotPasses(t)
           \/ \E e \in EntryId : Wait!Join(e) \/ Wait!OfferLapses(e)
           \/ Wait!CloseStaleWaitlistEntries
    PROVE  WaitTInv'
<1>1. Wait!TypeOK /\ JobsOK
  BY DEF WaitTInv
<1>2. ASSUME NEW t \in Slot, Wait!Book(t) \/ Wait!SlotPasses(t) PROVE WaitTInv'
  BY <1>1, <1>2 DEF WaitTInv, Wait!TypeOK, JobsOK, Wait!Book, Wait!SlotPasses
<1>3. ASSUME NEW e \in EntryId, Wait!Join(e) PROVE WaitTInv'
  BY <1>1, <1>3, RowTypes DEF WaitTInv, Wait!TypeOK, JobsOK, Wait!Join
<1>4. ASSUME NEW e \in EntryId, Wait!OfferLapses(e) PROVE WaitTInv'
  BY WaitTypesOf, <1>1, <1>4
     DEF Wait!Entry, WaitTInv, Wait!TypeOK, JobsOK, Wait!OfferLapses
<1>5. CASE Wait!CloseStaleWaitlistEntries
  BY <1>1, <1>5, RowTypes
     DEF WaitTInv, Wait!TypeOK, JobsOK, Wait!CloseStaleWaitlistEntries
<1> QED  BY <1>2, <1>3, <1>4, <1>5

LEMMA OpensT ==
    ASSUME WaitTInv, WaitTables, NEW w \in Worker,
           Wait!ScheduleOpens(w) \/ \E t \in Slot : Wait!SlotFreed(w, t)
    PROVE  WaitTInv'
<1>1. CASE Wait!ScheduleOpens(w)
  <2> DEFINE opened == {t \in Slot : slot[t] = "closed"}
  <2>1. Wait!Walk(opened, None) \in Wait!Job /\ WaitJobOK(Wait!Walk(opened, None))
    BY WalkOK
  <2>2. Wait!Becomes(w, Wait!Walk(opened, None))
    BY <1>1 DEF Wait!ScheduleOpens
  <2>3. job' \in [Worker -> Wait!Job] /\ JobsOK'
    BY <2>1, <2>2, BecomesOK
  <2>4. slot' \in [Slot -> {"closed", "busy", "free", "past"}] /\ freed' \in [Slot -> Nat]
    BY <1>1, WaitTypesOf DEF Wait!ScheduleOpens
  <2> QED  BY <1>1, <2>3, <2>4 DEF Wait!ScheduleOpens, WaitTInv, Wait!TypeOK
<1>2. ASSUME NEW t \in Slot, Wait!SlotFreed(w, t) PROVE WaitTInv'
  BY WalkOK, <1>2, BecomesOK, WaitTypesOf DEF Wait!SlotFreed, WaitTInv, Wait!TypeOK
<1> QED  BY <1>1, <1>2

(* What the first candidate and the first slot of a walk are *)
LEMMA WalkFacts ==
    ASSUME WaitTInv, WaitTables, NEW w \in Worker, job[w].rest # {}, job[w].slots # {}
    PROVE  Min(job[w].rest) \in job[w].rest /\ Min(job[w].rest) \in EntryId
           /\ Min(job[w].slots) \in job[w].slots /\ Min(job[w].slots) \in Slot
BY WaitTypesOf, MinIn DEF WaitTables

LEMMA WalkT == ASSUME WaitTInv, WaitTables, NEW w \in Worker, Wait!WalkStep(w) PROVE WaitTInv'
<1> DEFINE j == job[w]
           e == Min(j.rest)
           t == Min(j.slots)
           claims == e \notin booked /\ Wait!CanBook(e) /\ entry[e].status = "WAITING"
           next == [j EXCEPT !.rest = @ \ {e}, !.slots = IF claims THEN @ \ {t} ELSE @]
<1>1. j \in Wait!Job /\ WaitJobOK(j) /\ j.op = "walk"
  BY WaitTypesOf DEF Wait!WalkStep
<1>2. next \in Wait!Job /\ WaitJobOK(next)
  BY <1>1 DEF Wait!Job, WaitJobOK
<1>3. CASE j.rest = {} \/ j.slots = {} \/ slot[t] = "past"
  BY <1>3, WaitLeast, <1>1, AfterWalkOK, BecomesOK
     DEF Wait!WalkStep, WaitTInv, Wait!TypeOK
<1>4. CASE ~ (j.rest = {} \/ j.slots = {} \/ slot[t] = "past")
  <2>1. /\ entry' = IF e \in booked /\ entry[e].status \in Wait!InList
                    THEN [entry EXCEPT ![e] = Wait!Closed("BOOKED")]
                    ELSE IF claims THEN [entry EXCEPT ![e] = Wait!Offered(t)] ELSE entry
        /\ Wait!Becomes(w, next)
    BY <1>4, WaitLeast DEF Wait!WalkStep
  <2>2. e \in EntryId /\ t \in Slot
    BY <1>4, WalkFacts
  <2>3. job' \in [Worker -> Wait!Job] /\ JobsOK'
    BY <1>2, <2>1, BecomesOK
  <2>4. entry' \in [EntryId -> Wait!Entry]
    BY <2>1, <2>2, RowTypes, WaitTypesOf
  <2> QED  BY <2>3, <2>4 DEF Wait!WalkStep, WaitTInv, Wait!TypeOK
<1> QED  BY <1>3, <1>4

LEMMA WaitStepsT ==
    ASSUME WaitTInv, WaitTables, NEW w \in Worker,
           \/ Wait!PassReads(w) \/ Wait!PassClaims(w) \/ Wait!PassWaitlistOffer(w) \/ Wait!BackToWaiting(w)
           \/ Wait!SweepPastOffers(w) \/ Wait!LeaveClaims(w) \/ Wait!LeaveAnyway(w) \/ Wait!Crash(w)
           \/ \E e \in EntryId : Wait!LeaveReads(w, e, "drop") \/ Wait!LeaveReads(w, e, "leave")
    PROVE  WaitTInv'
<1> DEFINE j == job[w]
<1>1. j \in Wait!Job /\ WaitJobOK(j) /\ j.of \in EntryId \cup {None} /\ j.offer \in Slot \cup {None}
  BY WaitTypesOf
<1>2. ASSUME NEW next, Wait!Becomes(w, next), next \in Wait!Job, WaitJobOK(next), entry' \in [EntryId -> Wait!Entry],
             UNCHANGED <<slot, booked, freed>>, crashed' \in BOOLEAN
      PROVE  WaitTInv'
  BY <1>2, BecomesOK DEF WaitTInv, Wait!TypeOK
<1>3. crashed \in BOOLEAN /\ entry \in [EntryId -> Wait!Entry]
  BY DEF WaitTInv, Wait!TypeOK
<1>4. \A op \in {"sweep"} : [Wait!Idle EXCEPT !.op = op] \in Wait!Job /\ WaitJobOK([Wait!Idle EXCEPT !.op = op])
  BY DEF Wait!Idle, Wait!Job, WaitJobOK
<1>5. ASSUME Wait!PassReads(w) PROVE WaitTInv'
  <2>1. ASSUME NEW e \in Wait!LapsedOffers,
               Wait!Becomes(w, [Wait!Idle EXCEPT !.op = "pass", !.of = e, !.offer = entry[e].offer])
        PROVE  WaitTInv'
    <3>1. e \in EntryId /\ e # None /\ entry[e].offer \in Slot /\ entry[e].offer # None
      BY <2>1, WaitTypesOf DEF Wait!LapsedOffers, WaitTables
    <3>2. /\ [Wait!Idle EXCEPT !.op = "pass", !.of = e, !.offer = entry[e].offer] \in Wait!Job
          /\ WaitJobOK([Wait!Idle EXCEPT !.op = "pass", !.of = e, !.offer = entry[e].offer])
      BY <3>1 DEF Wait!Idle, Wait!Job, WaitJobOK
    <3> QED  BY <1>2, <1>3, <1>5, <2>1, <3>2 DEF Wait!PassReads
  <2>2. ASSUME Wait!Becomes(w, [Wait!Idle EXCEPT !.op = "sweep"]) PROVE WaitTInv'
    BY <1>2, <1>3, <1>4, <1>5, <2>2 DEF Wait!PassReads
  <2> QED  BY <1>5, <2>1, <2>2 DEF Wait!PassReads
<1>6. ASSUME Wait!PassClaims(w) PROVE WaitTInv'
  <2>1. [j EXCEPT !.op = "passing"] \in Wait!Job /\ WaitJobOK([j EXCEPT !.op = "passing"])
    BY <1>1, <1>6 DEF Wait!Job, WaitJobOK, Wait!PassClaims
  <2>2. [entry EXCEPT ![j.of].offer = None] \in [EntryId -> Wait!Entry]
    BY <1>3, WaitTypesOf DEF Wait!Entry
  <2>3. Wait!Becomes(w, [j EXCEPT !.op = "passing"]) \/ Wait!Becomes(w, [Wait!Idle EXCEPT !.op = "sweep"])
    BY <1>6 DEF Wait!PassClaims
  <2>4. entry' \in [EntryId -> Wait!Entry] /\ UNCHANGED <<slot, booked, freed, crashed>>
    BY <1>3, <1>6, <2>2 DEF Wait!PassClaims
  <2> QED  BY <1>2, <1>3, <1>4, <2>1, <2>3, <2>4
<1>7. ASSUME Wait!PassWaitlistOffer(w) PROVE WaitTInv'
  BY <1>1, <1>7, WalkOK, AfterWalkOK, <1>2, <1>3 DEF Wait!PassWaitlistOffer, WaitJobOK
<1>8. ASSUME Wait!BackToWaiting(w) PROVE WaitTInv'
  BY <1>2, <1>3, <1>4, <1>8, RowTypes DEF Wait!BackToWaiting
<1>9. ASSUME Wait!SweepPastOffers(w) PROVE WaitTInv'
  BY <1>3, <1>9, RowTypes, EndsBecomes, <1>2, WaitIdleOK DEF Wait!SweepPastOffers
<1>10. ASSUME NEW e \in EntryId, NEW op \in {"drop", "leave"}, Wait!LeaveReads(w, e, op) PROVE WaitTInv'
  <2>1. Wait!StandingOffer(e) \in Slot \cup {None}
    BY WaitTypesOf DEF Wait!StandingOffer
  <2>2. /\ [Wait!Idle EXCEPT !.op = op, !.of = e, !.offer = Wait!StandingOffer(e)] \in Wait!Job
        /\ WaitJobOK([Wait!Idle EXCEPT !.op = op, !.of = e, !.offer = Wait!StandingOffer(e)])
    BY <2>1 DEF Wait!Idle, Wait!Job, WaitJobOK, WaitTables
  <2> QED  BY <1>2, <1>3, <1>10, <2>2 DEF Wait!LeaveReads
<1>11. ASSUME Wait!LeaveClaims(w) PROVE WaitTInv'
  <2>1. /\ [j EXCEPT !.op = "left"] \in Wait!Job /\ WaitJobOK([j EXCEPT !.op = "left"])
    BY <1>1, <1>11 DEF Wait!Job, WaitJobOK, Wait!LeaveClaims
  <2>2. j.offer # None => /\ [Wait!Idle EXCEPT !.op = "passing", !.offer = j.offer] \in Wait!Job
                          /\ WaitJobOK([Wait!Idle EXCEPT !.op = "passing", !.offer = j.offer])
    BY <1>1 DEF Wait!Idle, Wait!Job, WaitJobOK
  <2>3. PICK next : Wait!Becomes(w, next) /\ next \in Wait!Job /\ WaitJobOK(next)
    BY <1>11, <2>1, <2>2, WaitIdleOK DEF Wait!LeaveClaims
  <2>4. entry' \in [EntryId -> Wait!Entry] /\ UNCHANGED <<slot, booked, freed, crashed>>
    BY <1>3, <1>11, RowTypes DEF Wait!LeaveClaims
  <2> QED  BY <1>2, <1>3, <2>3, <2>4
<1>12. ASSUME Wait!LeaveAnyway(w) PROVE WaitTInv'
  BY <1>3, <1>12, RowTypes, EndsBecomes, <1>2, WaitIdleOK DEF Wait!LeaveAnyway
<1>13. ASSUME Wait!Crash(w) PROVE WaitTInv'
  BY <1>13, EndsBecomes, <1>2, <1>3, WaitIdleOK DEF Wait!Crash
<1> QED  BY <1>5, <1>6, <1>7, <1>8, <1>9, <1>10, <1>11, <1>12, <1>13

LEMMA WaitInitT == Wait!Init => WaitTInv
<1> SUFFICES ASSUME Wait!Init PROVE WaitTInv
  OBVIOUS
<1>1. entry \in [EntryId -> Wait!Entry] /\ job \in [Worker -> Wait!Job] /\ JobsOK
  BY RowTypes, WaitIdleOK DEF Wait!Init, JobsOK
<1>2. slot \in [Slot -> {"closed", "busy", "free", "past"}] /\ freed \in [Slot -> Nat]
      /\ booked \subseteq EntryId /\ crashed \in BOOLEAN
  BY DEF Wait!Init
<1> QED  BY <1>1, <1>2 DEF WaitTInv, Wait!TypeOK

LEMMA WaitNextT == WaitTInv /\ WaitTables /\ [Wait!Next]_(Wait!vars) => WaitTInv'
<1> SUFFICES ASSUME WaitTInv, WaitTables, [Wait!Next]_(Wait!vars) PROVE WaitTInv'
  OBVIOUS
<1>1. CASE UNCHANGED Wait!vars
  BY <1>1 DEF Wait!vars, WaitTInv, Wait!TypeOK, JobsOK
<1>2. CASE Wait!Next
  BY <1>2, AgendaT, OpensT, WalkT, WaitStepsT DEF Wait!Next, Wait!Goes
<1> QED  BY <1>1, <1>2

(* Entries, slots, requests and runs of the job keep their types.           *)
THEOREM WaitlistTypeOK == WaitTables => (Wait!Spec => []Wait!TypeOK)
<1> SUFFICES ASSUME WaitTables PROVE Wait!Spec => []Wait!TypeOK
  OBVIOUS
<1>1. WaitTInv /\ [Wait!Next]_(Wait!vars) => WaitTInv'
  BY WaitNextT
<1>2. WaitTInv => Wait!TypeOK
  BY DEF WaitTInv
<1> QED  BY <1>1, <1>2, WaitInitT, PTL DEF Wait!Spec

----------------------------------------------------------------------------
(* Whose hands a slot is in *)

(* What a step may do with slot t: drop it, give it from an entry to a      *)
(* request or back, or hand out one that just became free.                  *)
Handed(t) ==
    \/ /\ Wait!Holders(t)' \subseteq Wait!Holders(t) /\ Wait!Carriers(t)' \subseteq Wait!Carriers(t)
       /\ freed'[t] = freed[t]
    \/ /\ \E w \in Worker, e \in Wait!Holders(t) :
            Wait!Holders(t)' \subseteq Wait!Holders(t) \ {e} /\ Wait!Carriers(t)' \subseteq Wait!Carriers(t) \cup {w}
       /\ freed'[t] = freed[t]
    \/ /\ \E w \in Wait!Carriers(t), e \in EntryId :
            Wait!Holders(t)' \subseteq Wait!Holders(t) \cup {e} /\ Wait!Carriers(t)' \subseteq Wait!Carriers(t) \ {w}
       /\ freed'[t] = freed[t]
    \/ /\ \E w \in Worker :
            Wait!Holders(t)' \subseteq Wait!Holders(t) /\ Wait!Carriers(t)' \subseteq Wait!Carriers(t) \cup {w}
       /\ freed'[t] = freed[t] + 1

LEMMA HandedKeeps ==
    ASSUME WaitTInv, WaitTInv', WaitTables, Wait!OfferedOnce, \A t \in Slot : Handed(t)
    PROVE  Wait!OfferedOnce'
<1> SUFFICES ASSUME NEW t \in Slot
             PROVE  Cardinality(Wait!Holders(t)') + Cardinality(Wait!Carriers(t)') <= freed'[t]
  BY WaitCounts DEF Wait!OfferedOnce
<1>1. PICK H, H2, C, C2 : H = Wait!Holders(t) /\ H2 = Wait!Holders(t)' /\ C = Wait!Carriers(t) /\ C2 = Wait!Carriers(t)'
  OBVIOUS
<1>2. /\ H \in SUBSET EntryId /\ H2 \in SUBSET EntryId
      /\ C \in SUBSET Worker /\ C2 \in SUBSET Worker
  BY <1>1 DEF Wait!Holders, Wait!Carriers
<1>3. PICK n, m : n = freed[t] /\ m = freed'[t] /\ n \in Nat /\ m \in Nat
  BY DEF WaitTInv, Wait!TypeOK
<1>4. Cardinality(H) + Cardinality(C) <= n
  BY <1>1, <1>3, WaitCounts DEF Wait!OfferedOnce
<1>5. n <= m
  BY <1>3 DEF Handed
<1>6. \/ H2 \subseteq H /\ C2 \subseteq C
      \/ \E w \in Worker, e \in H : H2 \subseteq H \ {e} /\ C2 \subseteq C \cup {w}
      \/ \E w \in C, e \in EntryId : H2 \subseteq H \cup {e} /\ C2 \subseteq C \ {w}
      \/ \E w \in Worker : H2 \subseteq H /\ C2 \subseteq C \cup {w} /\ m = n + 1
  BY <1>1, <1>3 DEF Handed
<1>7. IsFiniteSet(EntryId) /\ IsFiniteSet(Worker)
  BY DEF WaitTables
<1>8. Cardinality(H2) + Cardinality(C2) <= m
  <2>1. CASE H2 \subseteq H /\ C2 \subseteq C
    BY ONLY <1>2, <1>3, <1>4, <1>5, <1>7, <2>1, HandsCount
  <2>2. CASE \E w \in Worker, e \in H : H2 \subseteq H \ {e} /\ C2 \subseteq C \cup {w}
    BY ONLY <1>2, <1>3, <1>4, <1>5, <1>7, <2>2, HandsCount
  <2>3. CASE \E w \in C, e \in EntryId : H2 \subseteq H \cup {e} /\ C2 \subseteq C \ {w}
    BY ONLY <1>2, <1>3, <1>4, <1>5, <1>7, <2>3, HandsCount
  <2>4. CASE \E w \in Worker : H2 \subseteq H /\ C2 \subseteq C \cup {w} /\ m = n + 1
    BY ONLY <1>2, <1>3, <1>4, <1>5, <1>7, <2>4, HandsCount
  <2> QED  BY <1>6, <2>1, <2>2, <2>3, <2>4
<1> QED  BY <1>1, <1>3, <1>8

(* Offers are only dropped, and no request changes what it carries. *)
LEMMA Drops ==
    ASSUME WaitTInv, UNCHANGED freed,
           \A e \in EntryId : entry'[e].offer = entry[e].offer \/ entry'[e].offer = None,
           \A w \in Worker : \/ job'[w] = job[w]
                             \/ job'[w].slots = {} /\ job'[w].op # "passing",
           WaitTables
    PROVE  \A t \in Slot : Handed(t)
BY DEF Handed, Wait!Holders, Wait!Carriers, WaitTables

LEMMA WalkH == ASSUME WaitTInv, WaitTables, NEW w \in Worker, Wait!WalkStep(w) PROVE \A t \in Slot : Handed(t)
<1> DEFINE j == job[w]
           e == Min(j.rest)
           s == Min(j.slots)
           claims == e \notin booked /\ Wait!CanBook(e) /\ entry[e].status = "WAITING"
           next == [j EXCEPT !.rest = @ \ {e}, !.slots = IF claims THEN @ \ {s} ELSE @]
<1>1. j \in Wait!Job /\ WaitJobOK(j) /\ j.op = "walk" /\ UNCHANGED freed
      /\ job \in [Worker -> Wait!Job] /\ entry \in [EntryId -> Wait!Entry]
  BY WaitTypesOf DEF Wait!WalkStep
<1>2. CASE j.rest = {} \/ j.slots = {} \/ slot[s] = "past"
  <2>1. Wait!Becomes(w, Wait!AfterWalk(j)) /\ UNCHANGED entry
    BY <1>2, WaitLeast DEF Wait!WalkStep
  <2>2. Wait!AfterWalk(j).slots = {} /\ Wait!AfterWalk(j).op # "passing"
    BY DEF Wait!AfterWalk, Wait!Idle
  <2>3. \A v \in Worker : job'[v] = job[v] \/ (job'[v].slots = {} /\ job'[v].op # "passing")
    BY <1>1, <2>1, <2>2 DEF Wait!Becomes
  <2> QED  BY <1>1, <2>1, <2>3, Drops
<1>3. CASE ~ (j.rest = {} \/ j.slots = {} \/ slot[s] = "past")
  <2>1. /\ entry' = IF e \in booked /\ entry[e].status \in Wait!InList
                    THEN [entry EXCEPT ![e] = Wait!Closed("BOOKED")]
                    ELSE IF claims THEN [entry EXCEPT ![e] = Wait!Offered(s)] ELSE entry
        /\ Wait!Becomes(w, next)
    BY <1>3, WaitLeast DEF Wait!WalkStep
  <2>2. e \in EntryId /\ s \in Slot /\ s \in j.slots
    BY <1>3, WalkFacts
  <2>3. /\ \A v \in Worker : v # w => job'[v] = job[v]
        /\ job'[w] = next /\ next.op = "walk" /\ next.slots = IF claims THEN j.slots \ {s} ELSE j.slots
    BY <1>1, <2>1 DEF Wait!Becomes, Wait!Job
  <2> HIDE DEF j, e, s, next
  <2>4. CASE claims
    <3>1. entry' = [entry EXCEPT ![e] = Wait!Offered(s)] /\ next.slots = j.slots \ {s}
      BY <2>1, <2>3, <2>4
    <3>2. \A d \in EntryId : d # e => entry'[d] = entry[d]
      BY <1>1, <3>1
    <3>3. entry'[e].offer = s
      BY <1>1, <2>2, <3>1 DEF Wait!Offered
    <3> HIDE DEF claims
    <3> SUFFICES ASSUME NEW t \in Slot PROVE Handed(t)
      OBVIOUS
    <3>4. CASE t = s
      BY <2>2, <3>4, <3>2, <2>3, <3>1, <1>1 DEF Wait!Carriers, j, Wait!Holders, Handed
    <3>5. CASE t # s
      BY <3>2, <3>3, <3>5, <1>1, <2>3, <3>1 DEF Wait!Holders, Wait!Carriers, j, Handed
    <3> QED  BY <3>4, <3>5
  <2>5. CASE ~ claims
    <3>1. next.slots = j.slots
      BY <2>3, <2>5
    <3>2. \A d \in EntryId : entry'[d].offer = entry[d].offer \/ entry'[d].offer = None
      BY <1>1, <2>1, <2>2, <2>5 DEF Wait!Closed
    <3> HIDE DEF claims
    <3> SUFFICES ASSUME NEW t \in Slot PROVE Handed(t)
      OBVIOUS
    <3>3. Wait!Holders(t)' \subseteq Wait!Holders(t)
      BY <3>2 DEF Wait!Holders, WaitTables
    <3>4. Wait!Carriers(t)' \subseteq Wait!Carriers(t)
      BY <1>1, <2>3, <3>1 DEF Wait!Carriers, j
    <3> QED  BY <1>1, <3>3, <3>4 DEF Handed
  <2> QED  BY <2>4, <2>5
<1> QED  BY <1>2, <1>3

(* An offer is cleared by the request that will pass it on, or is gone. *)
LEMMA ClaimsH ==
    ASSUME WaitTInv, WaitTables, NEW w \in Worker, Wait!PassClaims(w) \/ Wait!LeaveClaims(w)
    PROVE  \A t \in Slot : Handed(t)
<1> DEFINE j == job[w]
<1>1. /\ j \in Wait!Job /\ WaitJobOK(j) /\ job \in [Worker -> Wait!Job] /\ entry \in [EntryId -> Wait!Entry]
      /\ j.of \in EntryId /\ j.op # "passing" /\ j.slots = {} /\ UNCHANGED freed
  BY WaitTypesOf DEF Wait!PassClaims, Wait!LeaveClaims, WaitJobOK
<1>2. \A v \in Worker : v # w => job'[v] = job[v]
  BY <1>1 DEF Wait!PassClaims, Wait!LeaveClaims, Wait!Becomes
<1>3. \A e \in EntryId : e # j.of => entry'[e] = entry[e]
  BY <1>1 DEF Wait!PassClaims, Wait!LeaveClaims
<1>4. entry'[j.of] = entry[j.of] \/ entry'[j.of].offer = None
  BY <1>1, WaitTypesOf DEF Wait!PassClaims, Wait!Entry, Wait!LeaveClaims, Wait!Closed
<1>5. job'[w].slots = {} /\ (job'[w].op = "passing" =>
          /\ job'[w].offer = j.offer /\ entry[j.of].offer = j.offer /\ entry'[j.of].offer = None)
  <2>1. CASE Wait!PassClaims(w)
    BY <1>1, <2>1, WaitTypesOf
       DEF Wait!PassClaims, Wait!Becomes, Wait!Idle, Wait!Job, Wait!Entry
  <2>2. CASE Wait!LeaveClaims(w)
    <3>1. CASE Wait!StillAsRead(j) /\ j.offer # None
      <4>1. /\ Wait!Becomes(w, [Wait!Idle EXCEPT !.op = "passing", !.offer = j.offer])
            /\ entry' = [entry EXCEPT ![j.of] = Wait!Closed("CANCELLED")]
        BY <2>2, <3>1 DEF Wait!LeaveClaims
      <4>2. job'[w] = [Wait!Idle EXCEPT !.op = "passing", !.offer = j.offer]
        BY <1>1, <4>1 DEF Wait!Becomes
      <4>3. entry'[j.of].offer = None
        BY <1>1, <4>1 DEF Wait!Closed
      <4> QED  BY <3>1, <4>2, <4>3 DEF Wait!Idle, Wait!StillAsRead
    <3>2. CASE ~ (Wait!StillAsRead(j) /\ j.offer # None)
      BY <2>2, <3>2, <1>1 DEF Wait!LeaveClaims, Wait!Becomes, Wait!Idle, Wait!Job
    <3> QED  BY <3>1, <3>2
  <2> QED  BY <2>1, <2>2
<1> HIDE DEF j
<1>6. CASE job'[w].op = "passing"
  <2> SUFFICES ASSUME NEW t \in Slot PROVE Handed(t)
    OBVIOUS
  <2>1. Wait!Holders(t)' \subseteq Wait!Holders(t) \ {j.of}
    BY <1>3, <1>5, <1>6 DEF Wait!Holders, WaitTables
  <2>2. CASE t = j.offer
    BY <1>1, <1>5, <1>6, <2>2, <1>2, <2>1 DEF Wait!Holders, Wait!Carriers, Handed
  <2>3. CASE t # j.offer
    BY <1>2, <1>5, <1>6, <2>3, <1>1, <2>1 DEF Wait!Carriers, Handed
  <2> QED  BY <2>2, <2>3
<1>7. CASE job'[w].op # "passing"
  BY <1>2, <1>5, <1>7, <1>3, <1>4, <1>1, Drops
<1> QED  BY <1>6, <1>7

(* The slot passed on is walked along the list, or nobody carries it. *)
LEMMA PassH ==
    ASSUME WaitTInv, WaitTables, NEW w \in Worker, Wait!PassWaitlistOffer(w)
    PROVE  \A t \in Slot : Handed(t)
<1> DEFINE j == job[w]
<1>1. j.op = "passing" /\ UNCHANGED <<entry, freed>> /\ job \in [Worker -> Wait!Job]
  BY WaitTypesOf DEF Wait!PassWaitlistOffer
<1>2. /\ \A v \in Worker : v # w => job'[v] = job[v]
      /\ job'[w].slots \subseteq {j.offer} /\ job'[w].op # "passing"
  BY <1>1
     DEF Wait!PassWaitlistOffer, Wait!Becomes, Wait!Walk, Wait!AfterWalk,
         Wait!Idle
<1> SUFFICES ASSUME NEW t \in Slot PROVE Handed(t)
  OBVIOUS
<1>3. Wait!Holders(t)' \subseteq Wait!Holders(t)
  BY <1>1 DEF Wait!Holders
<1>4. Wait!Carriers(t)' \subseteq Wait!Carriers(t)
  BY <1>1, <1>2 DEF Wait!Carriers
<1> QED  BY <1>1, <1>3, <1>4 DEF Handed

LEMMA OpensH ==
    ASSUME WaitTInv, WaitTables, NEW w \in Worker,
           Wait!ScheduleOpens(w) \/ \E t \in Slot : Wait!SlotFreed(w, t)
    PROVE  \A t \in Slot : Handed(t)
<1> SUFFICES ASSUME NEW t \in Slot PROVE Handed(t)
  OBVIOUS
<1>1. /\ job[w] = Wait!Idle /\ job \in [Worker -> Wait!Job] /\ freed \in [Slot -> Nat] /\ UNCHANGED entry
  BY WaitTypesOf DEF Wait!ScheduleOpens, Wait!SlotFreed
<1>2. /\ \A v \in Worker : v # w => job'[v] = job[v]
      /\ job'[w].op = "walk"
      /\ t \in job'[w].slots => freed'[t] = freed[t] + 1
      /\ t \notin job'[w].slots => freed'[t] = freed[t]
  BY <1>1 DEF Wait!ScheduleOpens, Wait!Becomes, Wait!Walk, Wait!SlotFreed
<1>3. Wait!Holders(t)' \subseteq Wait!Holders(t)
  BY <1>1 DEF Wait!Holders
<1>4. CASE t \in job'[w].slots
  BY <1>2, <1>3, <1>4 DEF Wait!Carriers, Handed
<1>5. CASE t \notin job'[w].slots
  BY <1>2, <1>5, <1>3 DEF Wait!Carriers, Handed
<1> QED  BY <1>4, <1>5

LEMMA OthersH ==
    ASSUME WaitTInv, WaitTables,
           \/ Wait!CloseStaleWaitlistEntries
           \/ \E t \in Slot : Wait!Book(t) \/ Wait!SlotPasses(t)
           \/ \E e \in EntryId : Wait!Join(e) \/ Wait!OfferLapses(e)
           \/ \E w \in Worker :
                \/ Wait!BackToWaiting(w) \/ Wait!SweepPastOffers(w) \/ Wait!LeaveAnyway(w) \/ Wait!PassReads(w)
                \/ Wait!Crash(w)
                \/ \E e \in EntryId : Wait!LeaveReads(w, e, "drop") \/ Wait!LeaveReads(w, e, "leave")
    PROVE  \A t \in Slot : Handed(t)
<1>1. entry \in [EntryId -> Wait!Entry] /\ job \in [Worker -> Wait!Job]
  BY WaitTypesOf
<1>2. UNCHANGED freed
  BY DEF Wait!CloseStaleWaitlistEntries, Wait!Book, Wait!SlotPasses, Wait!Join,
         Wait!OfferLapses, Wait!BackToWaiting,
         Wait!SweepPastOffers, Wait!LeaveAnyway, Wait!PassReads, Wait!Crash, Wait!LeaveReads
<1>3. \A e \in EntryId : entry'[e].offer = entry[e].offer \/ entry'[e].offer = None
  <2>1. ASSUME NEW d \in EntryId, Wait!OfferLapses(d) PROVE <1>3!:
    BY <1>1, <2>1 DEF Wait!OfferLapses, Wait!Entry
  <2>2. ASSUME NEW d \in EntryId, Wait!Join(d) PROVE <1>3!:
    BY <1>1, <2>2 DEF Wait!Join, Wait!WaitsAgain
  <2>3. ASSUME Wait!CloseStaleWaitlistEntries PROVE <1>3!:
    BY <2>3 DEF Wait!CloseStaleWaitlistEntries, Wait!Closed
  <2>4. ASSUME NEW w \in Worker, Wait!BackToWaiting(w) PROVE <1>3!:
    BY <1>1, <2>4 DEF Wait!BackToWaiting, Wait!WaitsAgain
  <2>5. ASSUME NEW w \in Worker, Wait!SweepPastOffers(w) PROVE <1>3!:
    BY <2>5 DEF Wait!SweepPastOffers, Wait!WaitsAgain
  <2>6. ASSUME NEW w \in Worker, Wait!LeaveAnyway(w) PROVE <1>3!:
    BY <1>1, <2>6 DEF Wait!LeaveAnyway, Wait!Closed
  <2>7. ASSUME UNCHANGED entry PROVE <1>3!:
    BY <2>7
  <2> QED  BY <2>1, <2>2, <2>3, <2>4, <2>5, <2>6, <2>7
              DEF Wait!Book, Wait!SlotPasses, Wait!PassReads, Wait!Crash,
                  Wait!LeaveReads
<1>4. \A v \in Worker : job'[v] = job[v] \/ (job'[v].slots = {} /\ job'[v].op # "passing")
  <2>1. ASSUME UNCHANGED job PROVE <1>4!:
    BY <2>1
  <2>2. ASSUME NEW w \in Worker, NEW j, Wait!Becomes(w, j), j.slots = {}, j.op # "passing" PROVE <1>4!:
    BY <1>1, <2>2 DEF Wait!Becomes
  <2>3. ASSUME NEW w \in Worker, Wait!Becomes(w, Wait!Idle) PROVE <1>4!:
    BY <2>2, <2>3 DEF Wait!Idle
  <2>4. ASSUME NEW w \in Worker, Wait!BackToWaiting(w) \/ Wait!PassReads(w) PROVE <1>4!:
    BY <2>2, <2>4 DEF Wait!BackToWaiting, Wait!PassReads, Wait!Idle
  <2>5. ASSUME NEW w \in Worker, NEW e \in EntryId,
               Wait!LeaveReads(w, e, "drop") \/ Wait!LeaveReads(w, e, "leave") PROVE <1>4!:
    BY <2>2, <2>5 DEF Wait!LeaveReads, Wait!Idle
  <2>6. ASSUME NEW w \in Worker, Wait!SweepPastOffers(w) \/ Wait!LeaveAnyway(w) \/ Wait!Crash(w) PROVE <1>4!:
    BY <2>3, <2>6, EndsBecomes
       DEF Wait!SweepPastOffers, Wait!LeaveAnyway, Wait!Crash
  <2> QED  BY <2>1, <2>4, <2>5, <2>6
              DEF Wait!CloseStaleWaitlistEntries, Wait!Book, Wait!SlotPasses,
                  Wait!Join, Wait!OfferLapses
<1> QED  BY <1>2, <1>3, <1>4, Drops

LEMMA NextH == WaitTInv /\ WaitTInv' /\ WaitTables /\ Wait!OfferedOnce /\ [Wait!Next]_(Wait!vars) => Wait!OfferedOnce'
<1> SUFFICES ASSUME WaitTInv, WaitTInv', WaitTables, Wait!OfferedOnce, [Wait!Next]_(Wait!vars) PROVE Wait!OfferedOnce'
  OBVIOUS
<1>1. CASE UNCHANGED Wait!vars
  BY <1>1 DEF Wait!vars, Wait!OfferedOnce, Wait!Holders, Wait!Carriers
<1>2. CASE Wait!Next
  BY <1>2, WalkH, ClaimsH, PassH, OpensH, OthersH, HandedKeeps DEF Wait!Next, Wait!Goes
<1> QED  BY <1>1, <1>2

(* However the expiry job, people who leave, staff who cancel and customers *)
(* who book race for an offer, a slot is in as many hands as it became free *)
(* times: the walk claims an entry on the condition that it waits, and who  *)
(* passes an offer on first clears it (offeredStartAt) conditionally.       *)
THEOREM WaitlistOfferedOnce == WaitTables => (Wait!Spec => []Wait!OfferedOnce)
<1> SUFFICES ASSUME WaitTables PROVE Wait!Spec => []Wait!OfferedOnce
  OBVIOUS
<1>1. WaitTInv /\ [Wait!Next]_(Wait!vars) => WaitTInv'
  BY WaitNextT
<1>2. Wait!Init => Wait!OfferedOnce
  <2> SUFFICES ASSUME Wait!Init, NEW t \in Slot
               PROVE  Cardinality(Wait!Holders(t)) + Cardinality(Wait!Carriers(t)) <= freed[t]
    BY WaitCounts DEF Wait!OfferedOnce
  <2>1. Wait!Holders(t) = {} /\ Wait!Carriers(t) = {}
    BY DEF Wait!Init, Wait!Holders, Wait!Carriers, Wait!Closed, Wait!Idle,
           WaitTables
  <2>2. freed[t] = 0
    BY DEF Wait!Init
  <2> QED  BY <2>1, <2>2, FS_EmptySet
<1>3. WaitTInv /\ WaitTInv' /\ Wait!OfferedOnce /\ [Wait!Next]_(Wait!vars) => Wait!OfferedOnce'
  BY NextH
<1> QED  BY <1>1, <1>2, <1>3, WaitInitT, PTL DEF Wait!Spec

----------------------------------------------------------------------------
(* Who was told, and who leaves *)

Keeping == {"passing", "walk", "back"}

Forgotten(e) == entry[e].status = "NOTIFIED" /\ entry[e].offer = None

(* Whoever took the offer of e will put e back in the list. *)
WaitKept ==
    ~ crashed => \A e \in EntryId :
        Forgotten(e) => \E w \in Worker : job[w].of = e /\ job[w].op \in Keeping

(* No entry loses its offer in the step, and whoever keeps one goes on. *)
LEMMA KeepsOn ==
    ASSUME WaitKept, crashed' = crashed,
           \A e \in EntryId : Forgotten(e)' => Forgotten(e),
           \A e \in EntryId, w \in Worker :
                Forgotten(e)' /\ job[w].of = e /\ job[w].op \in Keeping
                => job'[w].of = e /\ job'[w].op \in Keeping
    PROVE  WaitKept'
<1> SUFFICES ASSUME ~ crashed', NEW e \in EntryId, Forgotten(e)'
             PROVE  \E w \in Worker : job'[w].of = e /\ job'[w].op \in Keeping
  BY DEF WaitKept
<1> QED  BY DEF WaitKept

(* The request is at none of the steps that keep an entry. *)
LEMMA NotKeeping ==
    ASSUME WaitTInv, WaitKept, crashed' = crashed, NEW w \in Worker, NEW j, Wait!Becomes(w, j),
           job[w].op \notin Keeping, \A e \in EntryId : Forgotten(e)' => Forgotten(e)
    PROVE  WaitKept'
BY WaitTypesOf, KeepsOn DEF Wait!Becomes

LEMMA WalkK == ASSUME WaitTInv, WaitTables, WaitKept, NEW w \in Worker, Wait!WalkStep(w) PROVE WaitKept'
<1> DEFINE j == job[w]
           e == Min(j.rest)
           t == Min(j.slots)
           claims == e \notin booked /\ Wait!CanBook(e) /\ entry[e].status = "WAITING"
           next == [j EXCEPT !.rest = @ \ {e}, !.slots = IF claims THEN @ \ {t} ELSE @]
<1>1. j \in Wait!Job /\ j.op = "walk" /\ crashed' = crashed /\ job \in [Worker -> Wait!Job]
      /\ entry \in [EntryId -> Wait!Entry]
  BY WaitTypesOf DEF Wait!WalkStep
<1>2. CASE j.rest = {} \/ j.slots = {} \/ slot[t] = "past"
  <2>1. Wait!Becomes(w, Wait!AfterWalk(j)) /\ UNCHANGED entry
    BY <1>2, WaitLeast DEF Wait!WalkStep
  <2>2. \A d \in EntryId : j.of = d => Wait!AfterWalk(j).of = d /\ Wait!AfterWalk(j).op \in Keeping
    BY DEF Wait!AfterWalk, Wait!Idle, Keeping, WaitTables
  <2>3. \A v \in Worker : job'[v] = IF v = w THEN Wait!AfterWalk(j) ELSE job[v]
    BY <1>1, <2>1 DEF Wait!Becomes
  <2> QED  BY <1>1, <2>1, <2>2, <2>3, KeepsOn DEF Forgotten
<1>3. CASE ~ (j.rest = {} \/ j.slots = {} \/ slot[t] = "past")
  <2>1. /\ entry' = IF e \in booked /\ entry[e].status \in Wait!InList
                    THEN [entry EXCEPT ![e] = Wait!Closed("BOOKED")]
                    ELSE IF claims THEN [entry EXCEPT ![e] = Wait!Offered(t)] ELSE entry
        /\ Wait!Becomes(w, next)
    BY <1>3, WaitLeast DEF Wait!WalkStep
  <2>2. e \in EntryId /\ t \in Slot /\ t # None
    BY <1>3, WalkFacts DEF WaitTables
  <2>3. \A v \in Worker : job'[v].of = job[v].of /\ job'[v].op = job[v].op
    BY <1>1, <2>1 DEF Wait!Becomes, Wait!Job
  <2>4. \A d \in EntryId : Forgotten(d)' => Forgotten(d)
    BY <1>1, <2>1, <2>2 DEF Forgotten, Wait!Closed, Wait!Offered
  <2> QED  BY <1>1, <2>3, <2>4, KeepsOn
<1> QED  BY <1>2, <1>3

LEMMA ClaimsK ==
    ASSUME WaitTInv, WaitTables, WaitKept, NEW w \in Worker,
           \/ Wait!PassClaims(w) \/ Wait!PassWaitlistOffer(w) \/ Wait!BackToWaiting(w)
           \/ Wait!LeaveClaims(w) \/ Wait!LeaveAnyway(w)
    PROVE  WaitKept'
<1> DEFINE j == job[w]
<1>1. j \in Wait!Job /\ WaitJobOK(j) /\ job \in [Worker -> Wait!Job] /\ entry \in [EntryId -> Wait!Entry]
  BY WaitTypesOf
<1>2. CASE Wait!PassClaims(w)
  <2>1. crashed' = crashed /\ j.op = "pass" /\ j.of \in EntryId
    BY <1>1, <1>2, WaitTypesOf DEF Wait!PassClaims, WaitJobOK
  <2>2. CASE UNCHANGED entry
    <3>1. PICK next : Wait!Becomes(w, next)
      BY <1>2 DEF Wait!PassClaims
    <3> QED  BY <2>1, <2>2, <3>1, NotKeeping DEF Keeping, Forgotten
  <2>3. CASE entry' # entry
    <3>1. /\ entry' = [entry EXCEPT ![j.of].offer = None]
          /\ Wait!Becomes(w, [j EXCEPT !.op = "passing"])
      BY <1>2, <2>3 DEF Wait!PassClaims
    <3>2. /\ \A v \in Worker : v # w => job'[v] = job[v]
          /\ job'[w].of = j.of /\ job'[w].op = "passing"
      BY <1>1, <3>1 DEF Wait!Becomes, Wait!Job
    <3>3. \A e \in EntryId : e # j.of => (Forgotten(e)' <=> Forgotten(e))
      BY <1>1, <3>1 DEF Forgotten
    <3> SUFFICES ASSUME ~ crashed', NEW e \in EntryId, Forgotten(e)'
                 PROVE  \E v \in Worker : job'[v].of = e /\ job'[v].op \in Keeping
      BY DEF WaitKept
    <3>4. CASE e = j.of
      BY <3>2, <3>4 DEF Keeping
    <3>5. CASE e # j.of
      <4>1. PICK v \in Worker : job[v].of = e /\ job[v].op \in Keeping
        BY <2>1, <3>3, <3>5 DEF WaitKept
      <4> QED  BY <2>1, <3>2, <4>1 DEF Keeping
    <3> QED  BY <3>4, <3>5
  <2> QED  BY <2>2, <2>3
<1>3. CASE Wait!PassWaitlistOffer(w)
  BY <1>3, <1>1, KeepsOn
     DEF Wait!PassWaitlistOffer, Wait!Walk, Wait!AfterWalk, Wait!Idle, Keeping,
         WaitTables, Wait!Becomes, Forgotten
<1>4. CASE Wait!BackToWaiting(w)
  BY <1>1, <1>4, WaitTypesOf, KeepsOn
     DEF Wait!BackToWaiting, WaitJobOK, Forgotten, Wait!WaitsAgain, Wait!Becomes
<1>5. CASE Wait!LeaveClaims(w) \/ Wait!LeaveAnyway(w)
  <2>1. crashed' = crashed /\ j.op \in {"drop", "leave", "left"} /\ j.of \in EntryId
    BY <1>1, <1>5, WaitTypesOf DEF Wait!LeaveClaims, Wait!LeaveAnyway, WaitJobOK
  <2>2. \A e \in EntryId : Forgotten(e)' => Forgotten(e)
    BY <1>1, <1>5 DEF Wait!LeaveClaims, Wait!LeaveAnyway, Forgotten, Wait!Closed
  <2>3. PICK next : Wait!Becomes(w, next)
    BY <1>5, EndsBecomes DEF Wait!LeaveClaims, Wait!LeaveAnyway
  <2> QED  BY <2>1, <2>2, <2>3, NotKeeping DEF Keeping
<1> QED  BY <1>2, <1>3, <1>4, <1>5

LEMMA OthersK ==
    ASSUME WaitTInv, WaitTables, WaitKept,
           \/ Wait!CloseStaleWaitlistEntries
           \/ \E t \in Slot : Wait!Book(t) \/ Wait!SlotPasses(t)
           \/ \E e \in EntryId : Wait!Join(e) \/ Wait!OfferLapses(e)
           \/ \E w \in Worker :
                \/ Wait!SweepPastOffers(w) \/ Wait!PassReads(w) \/ Wait!ScheduleOpens(w) \/ Wait!Crash(w)
                \/ \E t \in Slot : Wait!SlotFreed(w, t)
                \/ \E e \in EntryId : Wait!LeaveReads(w, e, "drop") \/ Wait!LeaveReads(w, e, "leave")
    PROVE  WaitKept'
<1>1. entry \in [EntryId -> Wait!Entry]
  BY WaitTypesOf
<1>2. ASSUME Wait!CloseStaleWaitlistEntries PROVE WaitKept'
  BY <1>2, KeepsOn DEF Wait!CloseStaleWaitlistEntries, Forgotten, Wait!Closed
<1>3. ASSUME NEW t \in Slot, Wait!Book(t) \/ Wait!SlotPasses(t) PROVE WaitKept'
  BY <1>3, KeepsOn DEF Wait!Book, Wait!SlotPasses, Forgotten
<1>4. ASSUME NEW e \in EntryId, Wait!Join(e) PROVE WaitKept'
  BY <1>1, <1>4, KeepsOn DEF Wait!Join, Forgotten, Wait!WaitsAgain
<1>5. ASSUME NEW e \in EntryId, Wait!OfferLapses(e) PROVE WaitKept'
  BY <1>1, <1>5, KeepsOn DEF Wait!OfferLapses, Forgotten, Wait!Entry
<1>6. ASSUME NEW w \in Worker, NEW j, Wait!Becomes(w, j), UNCHANGED <<entry, crashed>>, job[w] = Wait!Idle
      PROVE  WaitKept'
  BY <1>6, NotKeeping DEF Forgotten, Keeping, Wait!Idle
<1>7. ASSUME NEW w \in Worker, Wait!SweepPastOffers(w) PROVE WaitKept'
  BY <1>7, NotKeeping, EndsBecomes
     DEF Wait!SweepPastOffers, Forgotten, Wait!WaitsAgain, Keeping
<1>8. ASSUME NEW w \in Worker, Wait!PassReads(w) PROVE WaitKept'
  BY <1>6, <1>8 DEF Wait!PassReads
<1>9. ASSUME NEW w \in Worker, Wait!ScheduleOpens(w) \/ \E t \in Slot : Wait!SlotFreed(w, t) PROVE WaitKept'
  BY <1>6, <1>9 DEF Wait!ScheduleOpens, Wait!SlotFreed
<1>10. ASSUME NEW w \in Worker, NEW e \in EntryId, NEW op, Wait!LeaveReads(w, e, op) PROVE WaitKept'
  BY <1>6, <1>10 DEF Wait!LeaveReads
<1>11. ASSUME NEW w \in Worker, Wait!Crash(w) PROVE WaitKept'
  BY <1>11 DEF Wait!Crash, WaitKept
<1> QED  BY <1>2, <1>3, <1>4, <1>5, <1>7, <1>8, <1>9, <1>10, <1>11

LEMMA WaitNextK == WaitTInv /\ WaitTables /\ WaitKept /\ [Wait!Next]_(Wait!vars) => WaitKept'
<1> SUFFICES ASSUME WaitTInv, WaitTables, WaitKept, [Wait!Next]_(Wait!vars) PROVE WaitKept'
  OBVIOUS
<1>1. CASE UNCHANGED Wait!vars
  BY <1>1 DEF Wait!vars, WaitKept, Forgotten
<1>2. CASE Wait!Next
  BY <1>2, WalkK, ClaimsK, OthersK DEF Wait!Next, Wait!Goes
<1> QED  BY <1>1, <1>2

(* An entry that was told and whose offer is gone is about to wait again:   *)
(* the request that cleared the offer holds on to the entry until it puts   *)
(* it back (passWaitlistOffer, backToWaiting), unless its process stops.    *)
THEOREM WaitlistNoticeNotForgotten == WaitTables => (Wait!Spec => []Wait!NoticeNotForgotten)
<1> SUFFICES ASSUME WaitTables PROVE Wait!Spec => []Wait!NoticeNotForgotten
  OBVIOUS
<1>1. WaitTInv /\ [Wait!Next]_(Wait!vars) => WaitTInv'
  BY WaitNextT
<1>2. Wait!Init => WaitKept
  BY DEF Wait!Init, WaitKept, Forgotten, Wait!Closed
<1>3. WaitTInv /\ WaitKept /\ [Wait!Next]_(Wait!vars) => WaitKept'
  BY WaitNextK
<1>4. WaitKept => Wait!NoticeNotForgotten
  BY DEF WaitKept, Forgotten, Wait!NoticeNotForgotten
<1> QED  BY <1>1, <1>2, <1>3, <1>4, WaitInitT, PTL DEF Wait!Spec

LEMMA WaitNextL == WaitTInv /\ [Wait!Next]_(Wait!vars) => Wait!LeavingIsHonoured
<1> SUFFICES ASSUME WaitTInv, [Wait!Next]_(Wait!vars), NEW w \in Worker,
                    job[w].op \in {"leave", "left"}, job'[w].op \in {"idle", "passing"},
                    crashed' = crashed
             PROVE  entry'[job[w].of].status \notin Wait!InList
  BY DEF Wait!LeavingIsHonoured
<1> DEFINE j == job[w]
<1>1. /\ job \in [Worker -> Wait!Job] /\ entry \in [EntryId -> Wait!Entry] /\ j.of \in EntryId
      /\ j \in Wait!Job
  BY WaitTypesOf DEF WaitJobOK
<1>2. job' # job
  OBVIOUS
<1>3. ASSUME NEW v \in Worker, NEW next, Wait!Becomes(v, next) PROVE v = w
  BY <1>1, <1>3 DEF Wait!Becomes
<1>4. Wait!LeaveClaims(w) \/ Wait!LeaveAnyway(w)
  <2>1. ASSUME NEW v \in Worker, NEW next, Wait!Becomes(v, next), job[v].op \notin {"leave", "left"}
        PROVE  FALSE
    BY <1>3, <2>1
  <2>2. Wait!Idle.op \notin {"leave", "left"}
    BY DEF Wait!Idle
  <2>3. ~ Wait!CloseStaleWaitlistEntries /\ (\A t \in Slot : ~ Wait!Book(t) /\ ~ Wait!SlotPasses(t))
        /\ (\A e \in EntryId : ~ Wait!Join(e) /\ ~ Wait!OfferLapses(e)) /\ ~ UNCHANGED Wait!vars
    BY <1>2
       DEF Wait!CloseStaleWaitlistEntries, Wait!Book, Wait!SlotPasses,
           Wait!Join, Wait!OfferLapses, Wait!vars
  <2>4. ASSUME NEW v \in Worker PROVE ~ Wait!Crash(v)
    BY DEF Wait!Crash
  <2>5. ASSUME NEW v \in Worker,
               \/ Wait!ScheduleOpens(v) \/ Wait!PassReads(v) \/ \E t \in Slot : Wait!SlotFreed(v, t)
               \/ \E e \in EntryId : Wait!LeaveReads(v, e, "drop") \/ Wait!LeaveReads(v, e, "leave")
        PROVE  FALSE
    BY <2>1, <2>2, <2>5
       DEF Wait!ScheduleOpens, Wait!PassReads, Wait!SlotFreed, Wait!LeaveReads
  <2>6. ASSUME NEW v \in Worker, Wait!WalkStep(v) PROVE FALSE
    BY <2>1, <2>6 DEF Wait!WalkStep
  <2>7. ASSUME NEW v \in Worker, Wait!PassClaims(v) \/ Wait!PassWaitlistOffer(v) \/ Wait!BackToWaiting(v) PROVE FALSE
    BY <2>1, <2>7 DEF Wait!PassClaims, Wait!PassWaitlistOffer, Wait!BackToWaiting
  <2>8. ASSUME NEW v \in Worker, Wait!SweepPastOffers(v) PROVE FALSE
    BY <2>1, <2>8, EndsBecomes DEF Wait!SweepPastOffers
  <2>9. ASSUME NEW v \in Worker, Wait!LeaveClaims(v) \/ Wait!LeaveAnyway(v) PROVE v = w
    BY <1>3, <2>9, EndsBecomes DEF Wait!LeaveClaims, Wait!LeaveAnyway
  <2> QED  BY <2>3, <2>4, <2>5, <2>6, <2>7, <2>8, <2>9 DEF Wait!Next, Wait!Goes
<1>5. CASE Wait!LeaveClaims(w)
  BY <1>5, <1>1 DEF Wait!LeaveClaims, Wait!Closed, Wait!InList, Wait!Becomes, Wait!Job
<1>6. CASE Wait!LeaveAnyway(w)
  BY <1>1, <1>6 DEF Wait!LeaveAnyway, Wait!Closed, Wait!InList
<1> QED  BY <1>4, <1>5, <1>6

(* A request to leave by the link of the e-mail that was not cut short ends *)
(* with its entry out of the list, though the job took the offer between    *)
(* the read and the claim (leaveWaitlist, LeaveAnyway).                     *)
THEOREM WaitlistLeavingIsHonoured == WaitTables => (Wait!Spec => [][Wait!LeavingIsHonoured]_(Wait!vars))
<1> SUFFICES ASSUME WaitTables PROVE Wait!Spec => [][Wait!LeavingIsHonoured]_(Wait!vars)
  OBVIOUS
<1>1. WaitTInv /\ [Wait!Next]_(Wait!vars) => WaitTInv'
  BY WaitNextT
<1>2. WaitTInv /\ [Wait!Next]_(Wait!vars) => [Wait!LeavingIsHonoured]_(Wait!vars)
  BY WaitNextL
<1> QED  BY <1>1, <1>2, WaitInitT, PTL DEF Wait!Spec

----------------------------------------------------------------------------
(***************************************************************************)
(* Proofs about ClubBilling, for any number of requests, subscriptions and *)
(* reasons to pause.                                                       *)
(*                                                                         *)
(* The client is charged by one subscription because a live one is either  *)
(* on the row that exists or is what Stripe remembers under the key of the *)
(* attempt that would come next (LInv).  The rest of a cycle is returned   *)
(* once because who closes the club read a row nobody returned from, and   *)
(* the mark it leaves is conditional (RInv).  The pause is right because   *)
(* what a request read is still on the row when it writes (QInv).          *)
(***************************************************************************)

(* There are finitely many subscriptions, and None is none of them. *)
ClubTables == IsFiniteSet(SubId) /\ None \notin SubId /\ CyclePaid \in Nat

(* A request under way is about a subscription and remembers its row, and   *)
(* gives back no more than what that row had left.                          *)
ClubJobOK(j) ==
    /\ j.op # "idle" => j.sub \in SubId /\ j.seen \in Club!Row
    /\ j.op \in {"hold", "release"} => j.reason \in Reason
    /\ j.op \in {"close", "refund"} => j.amount <= CyclePaid - j.seen.refunded
    /\ j.op = "close" => j.step = "stripe"

ClubTInv == Club!TypeOK /\ \A w \in Worker : ClubJobOK(job[w])

LEMMA AttemptsFinite ==
    ASSUME ClubTables
    PROVE  /\ Cardinality(SubId) \in Nat
           /\ \A A \in SUBSET SubId : IsFiniteSet(A) /\ Cardinality(A) \in Nat
BY FS_CardinalityType, FS_Subset DEF ClubTables

LEMMA ClubTypesOf ==
    ASSUME ClubTInv
    PROVE  /\ row \in [SubId -> Club!Row] /\ stripe \in [SubId -> Club!Subscription]
           /\ key \in [Club!Attempt -> SubId \cup {None}] /\ job \in [Worker -> Club!Job]
           /\ \A s \in SubId : row[s] \in Club!Row /\ stripe[s] \in Club!Subscription
           /\ \A w \in Worker : job[w] \in Club!Job /\ ClubJobOK(job[w])
           /\ \A n \in Club!Attempt : key[n] \in SubId \cup {None}
BY DEF ClubTInv, Club!TypeOK

LEMMA ClubIdleOK == CyclePaid \in Nat => Club!Idle \in Club!Job /\ ClubJobOK(Club!Idle)
BY DEF Club!Idle, Club!Job, ClubJobOK

LEMMA ClubJobStep ==
    ASSUME ClubTInv, NEW w \in Worker, NEW j \in Club!Job, ClubJobOK(j), job' = [job EXCEPT ![w] = j]
    PROVE  job' \in [Worker -> Club!Job] /\ \A v \in Worker : ClubJobOK(job'[v])
BY ClubTypesOf

LEMMA SubscribeT == ASSUME ClubTInv, ClubTables, Club!SubscribeToPlan PROVE ClubTInv'
<1> DEFINE n == Club!Cardinality(Club!Rows) + 1
<1>1. PICK new \in Club!Keyed(n), aStatus \in {"INCOMPLETE", "ACTIVE"}, committed \in BOOLEAN :
         /\ key' = [key EXCEPT ![n] = new]
         /\ stripe' = [s \in SubId |->
                        IF s = new /\ key[n] # new THEN [stripe[s] EXCEPT !.live = TRUE]
                        ELSE IF s \in Club!Existing THEN [stripe[s] EXCEPT !.live = FALSE]
                        ELSE stripe[s]]
         /\ row' = IF committed
                   THEN [s \in SubId |->
                          IF s = new THEN [row[s] EXCEPT !.status = aStatus]
                          ELSE IF s \in Club!Existing THEN [row[s] EXCEPT !.status = "CANCELED"]
                          ELSE row[s]]
                   ELSE row
  BY DEF Club!SubscribeToPlan
<1>2. n \in Club!Attempt /\ UNCHANGED <<job, forgotten, crossed>>
  BY DEF Club!SubscribeToPlan
<1>3. new \in SubId
  BY <1>2, ClubTypesOf DEF Club!Keyed, Club!Fresh
<1>4. key' \in [Club!Attempt -> SubId \cup {None}]
  BY <1>1, <1>3, ClubTypesOf
<1>5. stripe' \in [SubId -> Club!Subscription]
  BY ClubTypesOf, <1>1 DEF Club!Subscription
<1>6. row' \in [SubId -> Club!Row]
  BY ClubTypesOf, <1>1 DEF Club!Row
<1> QED  BY <1>2, <1>4, <1>5, <1>6 DEF ClubTInv, Club!TypeOK

LEMMA EventsT ==
    ASSUME ClubTInv, ClubTables,
           \/ \E n \in Club!Attempt : Club!StripeForgetsKey(n)
           \/ \E s \in SubId : Club!StatusEvent(s)
    PROVE  ClubTInv'
<1>1. ASSUME NEW n \in Club!Attempt, Club!StripeForgetsKey(n) PROVE ClubTInv'
  BY <1>1, ClubTypesOf DEF Club!StripeForgetsKey, ClubTInv, Club!TypeOK
<1>2. ASSUME NEW s \in SubId, Club!StatusEvent(s) PROVE ClubTInv'
  <2>1. row' \in [SubId -> Club!Row]
    BY <1>2, ClubTypesOf DEF Club!StatusEvent, Club!Row
  <2>2. stripe' \in [SubId -> Club!Subscription]
    <3>1. [stripe[s] EXCEPT !.live = FALSE] \in Club!Subscription
      BY ClubTypesOf DEF Club!Subscription
    <3> QED  BY <1>2, <3>1, ClubTypesOf DEF Club!StatusEvent
  <2> QED  BY <1>2, <2>1, <2>2 DEF Club!StatusEvent, ClubTInv, Club!TypeOK
<1> QED  BY <1>1, <1>2

LEMMA ClubReadsT ==
    ASSUME ClubTInv, ClubTables, NEW w \in Worker, NEW s \in SubId,
           \/ Club!CloseReads(w, s)
           \/ \E op \in {"pause", "resume"} : Club!PauseReads(w, op, s, None)
           \/ \E op \in {"hold", "release"}, r \in Reason : Club!PauseReads(w, op, s, r)
    PROVE  ClubTInv'
<1>1. UNCHANGED <<row, stripe, key, forgotten>> /\ crossed' \in BOOLEAN
  BY DEF Club!CloseReads, Club!PauseReads, ClubTInv, Club!TypeOK
<1>2. ASSUME NEW amount \in Club!Unused(s),
             job' = [job EXCEPT ![w] = [Club!Idle EXCEPT !.op = "close", !.sub = s, !.seen = row[s],
                                                         !.amount = amount]]
      PROVE  job' \in [Worker -> Club!Job] /\ \A v \in Worker : ClubJobOK(job'[v])
  <2> DEFINE j == [Club!Idle EXCEPT !.op = "close", !.sub = s, !.seen = row[s], !.amount = amount]
  <2>1. amount \in 0 .. CyclePaid /\ amount <= CyclePaid - row[s].refunded
    BY ClubTypesOf DEF Club!Unused, ClubTables, Club!Row
  <2>2. j \in Club!Job /\ ClubJobOK(j)
    BY <2>1, ClubTypesOf DEF Club!Idle, Club!Job, ClubJobOK
  <2> QED  BY <1>2, <2>2, ClubJobStep
<1>3. ASSUME NEW op \in Club!Pausing, NEW r \in Reason \cup {None}, op \in {"hold", "release"} => r \in Reason,
             Club!PauseReads(w, op, s, r)
      PROVE  job' \in [Worker -> Club!Job] /\ \A v \in Worker : ClubJobOK(job'[v])
  <2> DEFINE j == [op |-> op, step |-> "stripe", sub |-> s, reason |-> r, seen |-> row[s], amount |-> 0]
  <2>1. j \in Club!Job /\ ClubJobOK(j)
    BY <1>3, ClubTypesOf DEF Club!Job, ClubJobOK, Club!Pausing, ClubTables
  <2> QED  BY <1>3, <2>1, ClubJobStep DEF Club!PauseReads
<1>4. job' \in [Worker -> Club!Job] /\ \A v \in Worker : ClubJobOK(job'[v])
  BY <1>2, <1>3 DEF Club!CloseReads, Club!Pausing
<1> QED  BY <1>1, <1>4 DEF ClubTInv, Club!TypeOK

LEMMA ClubStepsT ==
    ASSUME ClubTInv, ClubTables, NEW w \in Worker,
           \/ Club!PauseCallsStripe(w) \/ Club!PauseWrites(w)
           \/ Club!CloseCancels(w) \/ Club!RefundClaims(w) \/ Club!RefundAtStripe(w)
    PROVE  ClubTInv'
<1> DEFINE j == job[w]
           ToStep == [j EXCEPT !.step = "write"]
           ToRefund == [j EXCEPT !.op = "refund"]
<1>1. /\ j \in Club!Job /\ j.sub \in SubId /\ j.seen \in Club!Row /\ j.op # "idle" /\ ClubJobOK(j)
      /\ row[j.sub] \in Club!Row /\ stripe[j.sub] \in Club!Subscription
  BY ClubTypesOf
     DEF ClubJobOK, Club!PauseCallsStripe, Club!PauseWrites, Club!CloseCancels,
         Club!RefundClaims, Club!RefundAtStripe, Club!Pausing
<1>2. job' \in [Worker -> Club!Job] /\ \A v \in Worker : ClubJobOK(job'[v])
  <2>1. /\ j.op # "close" => ToStep \in Club!Job /\ ClubJobOK(ToStep)
        /\ Club!Idle \in Club!Job /\ ClubJobOK(Club!Idle)
    BY <1>1, ClubIdleOK DEF Club!Job, ClubJobOK, ClubTables
  <2>2. ASSUME job' = [job EXCEPT ![w] = Club!Idle] \/ (j.op # "close" /\ job' = [job EXCEPT ![w] = ToStep])
        PROVE  <1>2!:
    BY <2>1, <2>2, ClubJobStep
  <2>3. ASSUME j.op = "close", job' = [job EXCEPT ![w] = ToRefund] PROVE <1>2!:
    BY <1>1, <2>3, ClubJobStep DEF Club!Job, ClubJobOK
  <2>4. CASE Club!CloseCancels(w)
    BY <2>2, <2>3, <2>4 DEF Club!CloseCancels, Club!Ends
  <2>5. CASE Club!RefundClaims(w) \/ Club!PauseCallsStripe(w)
    BY <2>2, <2>5 DEF Club!RefundClaims, Club!PauseCallsStripe, Club!Ends, Club!Pausing
  <2>6. CASE Club!PauseWrites(w) \/ Club!RefundAtStripe(w)
    BY <2>2, <2>6 DEF Club!PauseWrites, Club!RefundAtStripe, Club!Ends
  <2> QED  BY <2>4, <2>5, <2>6
<1>3. UNCHANGED <<key, forgotten, crossed>>
  BY DEF Club!PauseCallsStripe, Club!PauseWrites, Club!CloseCancels,
         Club!RefundClaims, Club!RefundAtStripe
<1>4. row' \in [SubId -> Club!Row]
  <2>1. ASSUME NEW x, x \in Club!Row, row' = [row EXCEPT ![j.sub] = x] PROVE row' \in [SubId -> Club!Row]
    BY <2>1, ClubTypesOf
  <2>2. CASE Club!PauseWrites(w)
    BY <1>1, <2>2, <2>1 DEF ClubJobOK, Club!PauseWrites, Club!Row, Club!Pausing
  <2>3. CASE Club!CloseCancels(w)
    BY <1>1, <2>1, <2>3, ClubTypesOf DEF Club!Row, Club!CloseCancels
  <2>4. CASE Club!RefundClaims(w) \/ Club!RefundAtStripe(w)
    <3>1. j.amount <= CyclePaid - j.seen.refunded
      BY <1>1, <2>4 DEF Club!RefundClaims, Club!RefundAtStripe, ClubJobOK
    <3>2. j.seen.refunded + j.amount \in 0 .. CyclePaid /\ j.seen.refunded \in 0 .. CyclePaid
      BY <1>1, <3>1 DEF Club!Job, Club!Row, ClubTables
    <3>3. \A a \in 0 .. CyclePaid : [row[j.sub] EXCEPT !.refunded = a] \in Club!Row
      BY <1>1 DEF Club!Row
    <3>4. \/ row' = row
          \/ row' = [row EXCEPT ![j.sub] = [row[j.sub] EXCEPT !.refunded = j.seen.refunded + j.amount]]
          \/ row' = [row EXCEPT ![j.sub] = [row[j.sub] EXCEPT !.refunded = j.seen.refunded]]
      BY <2>4 DEF Club!RefundClaims, Club!RefundAtStripe
    <3> QED  BY <2>1, <3>2, <3>3, <3>4, ClubTypesOf
  <2>5. CASE Club!PauseCallsStripe(w)
    BY <2>5, ClubTypesOf DEF Club!PauseCallsStripe
  <2> QED  BY <2>2, <2>3, <2>4, <2>5
<1>5. stripe' \in [SubId -> Club!Subscription]
  <2>1. ASSUME NEW x, x \in Club!Subscription, stripe' = [stripe EXCEPT ![j.sub] = x]
        PROVE  stripe' \in [SubId -> Club!Subscription]
    BY <2>1, ClubTypesOf
  <2>2. CASE Club!RefundAtStripe(w)
    BY <1>1, <2>1, <2>2, ClubTypesOf
       DEF Club!Subscription, Club!Job, ClubTables, Club!RefundAtStripe
  <2>3. CASE Club!PauseCallsStripe(w)
    <3> DEFINE x == [stripe[j.sub] EXCEPT !.paused = (j.op \in {"hold", "pause"})]
    <3>1. x \in Club!Subscription
      <4>1. \A b \in BOOLEAN : [stripe[j.sub] EXCEPT !.paused = b] \in Club!Subscription
        BY <1>1 DEF Club!Subscription
      <4>2. (j.op \in {"hold", "pause"}) \in BOOLEAN
        OBVIOUS
      <4> QED  BY <4>1, <4>2, Zenon
    <3>2. stripe' = [stripe EXCEPT ![j.sub] = x] \/ stripe' = stripe
      BY <2>3 DEF Club!PauseCallsStripe
    <3> QED  BY <2>1, <3>1, <3>2, ClubTypesOf
  <2>4. CASE Club!CloseCancels(w)
    BY <1>1, <2>1, <2>4, ClubTypesOf DEF Club!Subscription, Club!CloseCancels
  <2>5. CASE Club!PauseWrites(w) \/ Club!RefundClaims(w)
    BY <2>5, ClubTypesOf DEF Club!PauseWrites, Club!RefundClaims
  <2> QED  BY <2>2, <2>3, <2>4, <2>5
<1> QED  BY <1>2, <1>3, <1>4, <1>5 DEF ClubTInv, Club!TypeOK

LEMMA ClubInitT == ClubTables /\ Club!Init => ClubTInv
<1> SUFFICES ASSUME ClubTables, Club!Init PROVE ClubTInv
  OBVIOUS
<1>1. row \in [SubId -> Club!Row] /\ stripe \in [SubId -> Club!Subscription]
  BY DEF Club!Init, Club!Row, Club!Subscription, ClubTables
<1>2. job \in [Worker -> Club!Job] /\ \A w \in Worker : ClubJobOK(job[w])
  BY ClubIdleOK DEF Club!Init, ClubTables
<1> QED  BY <1>1, <1>2 DEF Club!Init, ClubTInv, Club!TypeOK

LEMMA ClubNextT == ClubTInv /\ ClubTables /\ [Club!Next]_(Club!vars) => ClubTInv'
<1> SUFFICES ASSUME ClubTInv, ClubTables, [Club!Next]_(Club!vars) PROVE ClubTInv'
  OBVIOUS
<1>1. CASE UNCHANGED Club!vars
  BY <1>1 DEF Club!vars, ClubTInv, Club!TypeOK
<1>2. CASE Club!Next
  BY <1>2, SubscribeT, EventsT, ClubReadsT, ClubStepsT DEF Club!Next
<1> QED  BY <1>1, <1>2

(* Rows, subscriptions, keys and requests keep their types: no row says     *)
(* that more was returned than was paid for its cycle.                      *)
THEOREM ClubBillingTypeOK == ClubTables => (Club!Spec => []Club!TypeOK)
<1> SUFFICES ASSUME ClubTables PROVE Club!Spec => []Club!TypeOK
  OBVIOUS
<1>1. Club!Init => ClubTInv
  BY ClubInitT
<1>2. ClubTInv /\ [Club!Next]_(Club!vars) => ClubTInv'
  BY ClubNextT
<1>3. ClubTInv => Club!TypeOK
  BY DEF ClubTInv
<1> QED  BY <1>1, <1>2, <1>3, PTL DEF Club!Spec

----------------------------------------------------------------------------
(* Attempts and their keys *)

(* The keys of the attempts up to the last committed one are of rows; the   *)
(* key of the attempt that would come next is of a subscription no row has. *)
KeysOK ==
    /\ \A n, m \in Club!Attempt : key[n] # None /\ key[n] = key[m] => n = m
    /\ \A n \in Club!Attempt : key[n] # None =>
          /\ n <= Cardinality(Club!Rows) + 1
          /\ key[n] \in Club!Rows <=> n <= Cardinality(Club!Rows)

ClubClosing(j) == j.op \in {"close", "refund"}

ClosesRows == \A w \in Worker : ClubClosing(job[w]) => job[w].sub \in Club!Rows

KInv == KeysOK /\ ClosesRows

LEMMA RowsType == ASSUME ClubTables PROVE /\ Club!Rows \in SUBSET SubId /\ Cardinality(Club!Rows) \in Nat
                                          /\ Cardinality(SubId) \in Nat
BY AttemptsFinite DEF Club!Rows

LEMMA SubscribeFacts ==
    ASSUME ClubTInv, ClubTables, KeysOK, Club!SubscribeToPlan
    PROVE  \E new \in SubId, n \in Club!Attempt, aStatus \in {"INCOMPLETE", "ACTIVE"}, committed \in BOOLEAN :
             /\ n = Cardinality(Club!Rows) + 1 /\ n \in Nat /\ new \notin Club!Rows
             /\ \/ key[n] = new
                \/ key[n] = None /\ ~ stripe[new].live /\ \A m \in Club!Attempt : key[m] # new
             /\ key' = [key EXCEPT ![n] = new]
             /\ stripe' = [s \in SubId |->
                        IF s = new /\ key[n] # new THEN [stripe[s] EXCEPT !.live = TRUE]
                        ELSE IF s \in Club!Existing THEN [stripe[s] EXCEPT !.live = FALSE]
                        ELSE stripe[s]]
             /\ row' = IF committed
                       THEN [s \in SubId |->
                          IF s = new THEN [row[s] EXCEPT !.status = aStatus]
                          ELSE IF s \in Club!Existing THEN [row[s] EXCEPT !.status = "CANCELED"]
                          ELSE row[s]]
                       ELSE row
             /\ ~ committed => Club!Rows' = Club!Rows
             /\ committed => Club!Rows' = Club!Rows \cup {new} /\ Cardinality(Club!Rows') = n
             /\ UNCHANGED <<job, forgotten, crossed>>
<1> DEFINE n == Club!Cardinality(Club!Rows) + 1
<1>1. PICK new \in Club!Keyed(n), aStatus \in {"INCOMPLETE", "ACTIVE"}, committed \in BOOLEAN :
         /\ key' = [key EXCEPT ![n] = new]
         /\ stripe' = [s \in SubId |->
                        IF s = new /\ key[n] # new THEN [stripe[s] EXCEPT !.live = TRUE]
                        ELSE IF s \in Club!Existing THEN [stripe[s] EXCEPT !.live = FALSE]
                        ELSE stripe[s]]
         /\ row' = IF committed
                   THEN [s \in SubId |->
                          IF s = new THEN [row[s] EXCEPT !.status = aStatus]
                          ELSE IF s \in Club!Existing THEN [row[s] EXCEPT !.status = "CANCELED"]
                          ELSE row[s]]
                   ELSE row
  BY DEF Club!SubscribeToPlan
<1>2. n \in Club!Attempt /\ n \in Nat /\ UNCHANGED <<job, forgotten, crossed>>
  BY RowsType, ClubCounts DEF Club!SubscribeToPlan
<1>3. /\ new \in SubId /\ new \notin Club!Rows
      /\ \/ key[n] = new
         \/ key[n] = None /\ ~ stripe[new].live /\ \A m \in Club!Attempt : key[m] # new
  BY RowsType, ClubCounts, <1>2, ClubTypesOf DEF Club!Keyed, KeysOK, Club!Fresh
<1>4. ~ committed => Club!Rows' = Club!Rows
  BY <1>1 DEF Club!Rows
<1>5. committed => Club!Rows' = Club!Rows \cup {new} /\ Cardinality(Club!Rows') = n
  <2> SUFFICES ASSUME committed PROVE Club!Rows' = Club!Rows \cup {new} /\ Cardinality(Club!Rows') = n
    OBVIOUS
  <2>1. \A s \in SubId : row[s] \in Club!Row
    BY ClubTypesOf
  <2>2. /\ row'[new].status = aStatus
        /\ \A s \in SubId \ {new} : IF s \in Club!Existing THEN row'[s].status = "CANCELED" ELSE row'[s] = row[s]
    BY <1>1, <1>3, <2>1 DEF Club!Row
  <2>3. Club!Existing \subseteq Club!Rows
    BY DEF Club!Existing
  <2>4. Club!Rows' = Club!Rows \cup {new}
    BY <1>3, <2>2, <2>3 DEF Club!Rows
  <2>5. Cardinality(Club!Rows \cup {new}) = Cardinality(Club!Rows) + 1
    BY <1>3, RowsType, AttemptsFinite, FS_AddElement
  <2> QED  BY <2>4, <2>5, ClubCounts
<1>6. n = Cardinality(Club!Rows) + 1
  BY ClubCounts
<1> HIDE DEF n
<1> QED  BY <1>1, <1>2, <1>3, <1>4, <1>5, <1>6

(* What steps other than subscribeToPlan do to the status of a row and to   *)
(* the life of a subscription                                               *)
LEMMA StatusFacts ==
    ASSUME ClubTInv, ClubTables, ClosesRows, Club!Next, ~ Club!SubscribeToPlan
    PROVE  /\ Club!Rows' = Club!Rows
           /\ \A s \in SubId :
                \/ row'[s].status = row[s].status /\ stripe'[s].live = stripe[s].live
                \/ /\ s \in Club!Existing /\ row'[s].status \in {"ACTIVE", "PAST_DUE"}
                   /\ stripe'[s].live = stripe[s].live
                \/ s \in Club!Rows /\ row'[s].status = "CANCELED" /\ ~ stripe'[s].live
<1> DEFINE Kept(s) == row'[s].status = row[s].status /\ stripe'[s].live = stripe[s].live
           Renewed(s) == /\ s \in Club!Existing /\ row'[s].status \in {"ACTIVE", "PAST_DUE"}
                         /\ stripe'[s].live = stripe[s].live
           Ended(s) == s \in Club!Rows /\ row'[s].status = "CANCELED" /\ ~ stripe'[s].live
<1>1. \A s \in SubId : row[s] \in Club!Row /\ stripe[s] \in Club!Subscription
  BY ClubTypesOf
<1>2. ASSUME NEW s \in SubId PROVE Kept(s) \/ Renewed(s) \/ Ended(s)
  <2>1. ASSUME NEW n \in Club!Attempt, Club!StripeForgetsKey(n) PROVE Kept(s)
    BY <2>1 DEF Club!StripeForgetsKey
  <2>2. ASSUME NEW t \in SubId, Club!StatusEvent(t) PROVE Kept(s) \/ Renewed(s) \/ Ended(s)
    <3>1. CASE s # t
      BY <2>2, <3>1, ClubTypesOf DEF Club!StatusEvent
    <3>2. CASE s = t
      <4>1. PICK aStatus \in {"ACTIVE", "PAST_DUE", "CANCELED"} :
              /\ row' = [row EXCEPT ![s].status = aStatus]
              /\ stripe' = IF aStatus = "CANCELED" THEN [stripe EXCEPT ![s].live = FALSE] ELSE stripe
        BY <2>2, <3>2 DEF Club!StatusEvent
      <4>2. s \in Club!Existing /\ s \in Club!Rows
        BY <2>2, <3>2 DEF Club!StatusEvent, Club!Existing
      <4>3. row'[s].status = aStatus
        BY <1>1, <4>1, ClubTypesOf DEF Club!Row
      <4>4. CASE aStatus = "CANCELED"
        BY <1>1, <4>1, <4>4, ClubTypesOf, <4>2, <4>3 DEF Club!Subscription
      <4>5. CASE aStatus # "CANCELED"
        BY <4>1, <4>5, <4>2, <4>3
      <4> QED  BY <4>4, <4>5
    <3> QED  BY <3>1, <3>2
  <2>3. ASSUME UNCHANGED <<row, stripe>> PROVE Kept(s)
    BY <2>3
  <2>4. ASSUME NEW w \in Worker, Club!PauseCallsStripe(w) PROVE Kept(s)
    BY <2>4, <1>1, ClubTypesOf DEF Club!PauseCallsStripe, Club!Subscription
  <2>5. ASSUME NEW w \in Worker, Club!PauseWrites(w) PROVE Kept(s)
    <3> DEFINE j == job[w]
    <3>1. stripe' = stripe /\ j.op \in Club!Pausing
      BY <2>5 DEF Club!PauseWrites
    <3>2. \/ row' = [row EXCEPT ![j.sub] = [row[j.sub] EXCEPT !.reasons = row[j.sub].reasons \cup {j.reason}]]
          \/ row' = [row EXCEPT ![j.sub] = [row[j.sub] EXCEPT !.reasons = j.seen.reasons \ {j.reason}]]
          \/ row' = [row EXCEPT ![j.sub] = [row[j.sub] EXCEPT !.shopPaused = TRUE]]
          \/ row' = [row EXCEPT ![j.sub] = [row[j.sub] EXCEPT !.shopPaused = FALSE]]
      BY <2>5, <3>1 DEF Club!PauseWrites, Club!Pausing
    <3> QED  BY <1>1, <3>1, <3>2, ClubTypesOf DEF Club!Row
  <2>6. ASSUME NEW w \in Worker, Club!CloseCancels(w) PROVE Kept(s) \/ Ended(s)
    <3>1. job[w].sub \in Club!Rows
      BY <2>6 DEF Club!CloseCancels, ClosesRows, ClubClosing
    <3> QED  BY <1>1, <2>6, <3>1, ClubTypesOf
                DEF Club!CloseCancels, Club!Row, Club!Subscription
  <2>7. ASSUME NEW w \in Worker, Club!RefundClaims(w) PROVE Kept(s)
    BY <1>1, <2>7, ClubTypesOf DEF Club!RefundClaims, Club!Row
  <2>8. ASSUME NEW w \in Worker, Club!RefundAtStripe(w) PROVE Kept(s)
    <3> DEFINE j == job[w]
    <3>1. row' = row \/ row' = [row EXCEPT ![j.sub].refunded = j.seen.refunded]
      BY <2>8 DEF Club!RefundAtStripe
    <3>2. stripe' = stripe \/ stripe' = [stripe EXCEPT ![j.sub].returned = @ + j.amount]
      BY <2>8 DEF Club!RefundAtStripe
    <3>3. row'[s].status = row[s].status
      BY <1>1, <3>1, ClubTypesOf DEF Club!Row
    <3>4. stripe'[s].live = stripe[s].live
      BY <1>1, <3>2, ClubTypesOf DEF Club!Subscription
    <3> QED  BY <3>3, <3>4
  <2> HIDE DEF Kept, Renewed, Ended
  <2> QED  BY <2>1, <2>2, <2>3, <2>4, <2>5, <2>6, <2>7, <2>8
              DEF Club!Next, Club!CloseReads, Club!PauseReads
<1>3. Club!Rows' = Club!Rows
  BY <1>2 DEF Club!Rows, Club!Existing
<1> QED  BY <1>2, <1>3

(* Only closing makes a request one that closes. *)
LEMMA ClosingFacts ==
    ASSUME ClubTInv, Club!Next, NEW w \in Worker, ClubClosing(job'[w])
    PROVE  \/ ClubClosing(job[w]) /\ job'[w].sub = job[w].sub /\ job'[w].seen = job[w].seen
              /\ job'[w].amount = job[w].amount
           \/ \E s \in Club!Existing : /\ Club!CloseReads(w, s) /\ job'[w].sub = s /\ job'[w].seen = row[s]
                                       /\ job'[w].op = "close" /\ job'[w].amount \in Club!Unused(s)
<1>1. job \in [Worker -> Club!Job] /\ \A v \in Worker : job[v] \in Club!Job
  BY ClubTypesOf
<1> DEFINE Kept == ClubClosing(job[w]) /\ job'[w].sub = job[w].sub /\ job'[w].seen = job[w].seen
                   /\ job'[w].amount = job[w].amount
<1>2. ASSUME UNCHANGED job PROVE Kept
  BY <1>2
<1>3. ASSUME NEW v \in Worker, v # w, NEW x, job' = [job EXCEPT ![v] = x] PROVE Kept
  BY <1>1, <1>3
<1>4. ASSUME NEW v \in Worker, NEW s \in SubId, Club!CloseReads(v, s)
      PROVE  Kept \/ (v = w /\ s \in Club!Existing /\ job'[w].sub = s /\ job'[w].seen = row[s]
                      /\ job'[w].op = "close" /\ job'[w].amount \in Club!Unused(s))
  BY <1>1, <1>4 DEF Club!CloseReads, Club!Idle
<1>5. ASSUME NEW v \in Worker, NEW op \in Club!Pausing, NEW s \in SubId, NEW r, Club!PauseReads(v, op, s, r)
      PROVE  Kept
  BY <1>1, <1>5 DEF Club!PauseReads, Club!Pausing, ClubClosing
<1>6. ASSUME NEW v \in Worker,
             Club!PauseCallsStripe(v) \/ Club!PauseWrites(v) \/ Club!RefundClaims(v) \/ Club!RefundAtStripe(v)
      PROVE  Kept
  BY <1>1, <1>6
     DEF Club!PauseCallsStripe, Club!PauseWrites, Club!RefundClaims,
         Club!RefundAtStripe, Club!Ends, Club!Idle, ClubClosing, Club!Pausing,
         Club!Job
<1>7. ASSUME NEW v \in Worker, Club!CloseCancels(v) PROVE Kept
  BY <1>1, <1>7 DEF Club!CloseCancels, Club!Ends, Club!Idle, ClubClosing, Club!Job
<1> HIDE DEF Kept
<1>8. ASSUME Club!SubscribeToPlan \/ (\E n \in Club!Attempt : Club!StripeForgetsKey(n)) \/ (\E s \in SubId : Club!StatusEvent(s))
      PROVE  Kept
  BY <1>2, <1>8 DEF Club!SubscribeToPlan, Club!StripeForgetsKey, Club!StatusEvent
<1> QED  BY <1>4, <1>5, <1>6, <1>7, <1>8 DEF Club!Next, Kept, Club!Pausing

LEMMA InitK == ClubTables /\ Club!Init => KInv
BY DEF Club!Init, KInv, KeysOK, ClosesRows, ClubClosing, Club!Idle

LEMMA ClubNextK == ClubTInv /\ ClubTables /\ KInv /\ [Club!Next]_(Club!vars) => KInv'
<1> SUFFICES ASSUME ClubTInv, ClubTables, KInv, [Club!Next]_(Club!vars) PROVE KInv'
  OBVIOUS
<1>1. CASE UNCHANGED Club!vars
  BY <1>1 DEF Club!vars, KInv, KeysOK, ClosesRows, Club!Rows
<1>2. CASE Club!Next /\ Club!SubscribeToPlan
  <2>1. PICK new \in SubId, n \in Club!Attempt, aStatus \in {"INCOMPLETE", "ACTIVE"}, committed \in BOOLEAN :
          /\ n = Cardinality(Club!Rows) + 1 /\ n \in Nat /\ new \notin Club!Rows
          /\ \/ key[n] = new
             \/ key[n] = None /\ ~ stripe[new].live /\ \A m \in Club!Attempt : key[m] # new
          /\ key' = [key EXCEPT ![n] = new]
          /\ ~ committed => Club!Rows' = Club!Rows
          /\ committed => Club!Rows' = Club!Rows \cup {new} /\ Cardinality(Club!Rows') = n
          /\ UNCHANGED <<job, forgotten, crossed>>
    BY <1>2, SubscribeFacts DEF KInv
  <2>2. /\ key'[n] = new /\ new # None
        /\ \A m \in Club!Attempt : m # n => key'[m] = key[m]
        /\ Cardinality(Club!Rows) \in Nat
    BY <2>1, ClubTypesOf, RowsType DEF ClubTables
  <2>3. \A m, k \in Club!Attempt : key'[m] # None /\ key'[m] = key'[k] => m = k
    BY <2>1, <2>2 DEF KInv, KeysOK
  <2>4. ASSUME NEW m \in Club!Attempt, key'[m] # None
        PROVE  m <= Cardinality(Club!Rows') + 1 /\ (key'[m] \in Club!Rows' <=> m <= Cardinality(Club!Rows'))
    BY <2>2, <2>1, <2>3, <2>4 DEF Club!Attempt, KInv, KeysOK
  <2>5. ClosesRows'
    BY <2>1 DEF KInv, ClosesRows
  <2>6. UNCHANGED Club!Attempt
    BY DEF Club!Attempt
  <2> QED  BY <2>3, <2>4, <2>5, <2>6 DEF KInv, KeysOK
<1>3. CASE Club!Next /\ ~ Club!SubscribeToPlan
  <2>1. Club!Rows' = Club!Rows
    BY <1>3, StatusFacts DEF KInv
  <2>2. \A m \in Club!Attempt : key'[m] = key[m] \/ key'[m] = None
    <3>1. ASSUME NEW n \in Club!Attempt, Club!StripeForgetsKey(n) PROVE <2>2!:
      BY <3>1, ClubTypesOf DEF Club!StripeForgetsKey
    <3>2. ASSUME UNCHANGED key PROVE <2>2!:
      BY <3>2
    <3> QED  BY <1>3, <3>1, <3>2
                DEF Club!Next, Club!StatusEvent, Club!PauseCallsStripe,
                    Club!PauseWrites, Club!CloseCancels,
               Club!RefundClaims, Club!RefundAtStripe, Club!CloseReads, Club!PauseReads
  <2>3. KeysOK'
    BY <2>2, <2>1 DEF KInv, KeysOK, Club!Attempt
  <2>4. ClosesRows'
    <3> SUFFICES ASSUME NEW w \in Worker, ClubClosing(job'[w]) PROVE job'[w].sub \in Club!Rows'
      BY DEF ClosesRows, ClubClosing
    <3>1. Club!Existing \subseteq Club!Rows
      BY DEF Club!Existing
    <3> QED  BY <1>3, <2>1, <3>1, ClosingFacts DEF KInv, ClosesRows
  <2> QED  BY <2>3, <2>4 DEF KInv
<1> QED  BY <1>1, <1>2, <1>3

----------------------------------------------------------------------------
(* The rest of a cycle is returned once *)

(* A request that has marked the row and not yet heard from Stripe *)
Marked(j) == j.op = "refund" /\ j.step = "write"

(* Nothing was returned from a row that may still be closed, so whoever     *)
(* closes read that; one request at a time has marked a row, and while it   *)
(* waits Stripe returned nothing.                                           *)
RInv ==
    /\ \A s \in SubId : row[s].status # "CANCELED" => row[s].refunded = 0
    /\ \A s \in SubId : stripe[s].returned <= row[s].refunded
    /\ \A w \in Worker : ClubClosing(job[w]) => job[w].seen.refunded = 0
    /\ \A w \in Worker : job[w].op = "refund" => row[job[w].sub].status = "CANCELED" /\ job[w].amount > 0
    /\ \A w \in Worker : Marked(job[w]) => /\ row[job[w].sub].refunded = job[w].amount
                                           /\ stripe[job[w].sub].returned = 0
    /\ \A v, w \in Worker : Marked(job[v]) /\ Marked(job[w]) /\ job[v].sub = job[w].sub => v = w

LEMMA CanceledForEver ==
    ASSUME ClubTInv, ClubTables, KInv, Club!Next, NEW s \in SubId, row[s].status = "CANCELED"
    PROVE  row'[s].status = "CANCELED"
<1>1. s \in Club!Rows /\ s \notin Club!Existing /\ row[s] \in Club!Row
  BY ClubTypesOf DEF Club!Rows, Club!Existing
<1>2. CASE Club!SubscribeToPlan
  <2>1. PICK new \in SubId, aStatus \in {"INCOMPLETE", "ACTIVE"}, committed \in BOOLEAN :
          /\ new \notin Club!Rows
          /\ row' = IF committed
                    THEN [t \in SubId |->
                            IF t = new THEN [row[t] EXCEPT !.status = aStatus]
                            ELSE IF t \in Club!Existing THEN [row[t] EXCEPT !.status = "CANCELED"]
                            ELSE row[t]]
                    ELSE row
    BY <1>2, SubscribeFacts DEF KInv
  <2> QED  BY <1>1, <2>1
<1>3. CASE ~ Club!SubscribeToPlan
  BY <1>1, <1>3, StatusFacts DEF KInv
<1> QED  BY <1>2, <1>3

(* Only the two steps of a refund touch what was returned. *)
LEMMA MoneyKept ==
    ASSUME ClubTInv, ClubTables, KInv, Club!Next,
           \A w \in Worker : ~ Club!RefundClaims(w) /\ ~ Club!RefundAtStripe(w)
    PROVE  /\ \A s \in SubId : row'[s].refunded = row[s].refunded /\ stripe'[s].returned = stripe[s].returned
           /\ \A w \in Worker : job'[w].op = "refund" =>
                \/ job'[w] = job[w]
                \/ /\ job[w].op = "close" /\ job[w].sub \in SubId /\ row'[job[w].sub].status = "CANCELED"
                   /\ job[w].amount > 0 /\ job'[w] = [job[w] EXCEPT !.op = "refund"]
           /\ \A w \in Worker : Marked(job'[w]) => job'[w] = job[w]
<1>1. /\ \A s \in SubId : row[s] \in Club!Row /\ stripe[s] \in Club!Subscription
      /\ job \in [Worker -> Club!Job] /\ \A w \in Worker : job[w] \in Club!Job /\ ClubJobOK(job[w])
  BY ClubTypesOf
<1> DEFINE Same == \A s \in SubId : row'[s].refunded = row[s].refunded /\ stripe'[s].returned = stripe[s].returned
           Quiet == \A w \in Worker : job'[w].op = "refund" => job'[w] = job[w]
           Goal == \A w \in Worker : job'[w].op = "refund" =>
                        \/ job'[w] = job[w]
                        \/ /\ job[w].op = "close" /\ job[w].step = "stripe" /\ job[w].sub \in SubId
                           /\ row'[job[w].sub].status = "CANCELED" /\ job[w].amount > 0
                           /\ job'[w] = [job[w] EXCEPT !.op = "refund"]
<1>2. ASSUME Club!SubscribeToPlan PROVE Same /\ Quiet
  <2>1. PICK new \in SubId, n \in Club!Attempt, aStatus \in {"INCOMPLETE", "ACTIVE"}, committed \in BOOLEAN :
             /\ stripe' = [s \in SubId |->
                        IF s = new /\ key[n] # new THEN [stripe[s] EXCEPT !.live = TRUE]
                        ELSE IF s \in Club!Existing THEN [stripe[s] EXCEPT !.live = FALSE]
                        ELSE stripe[s]]
             /\ row' = IF committed
                       THEN [s \in SubId |->
                          IF s = new THEN [row[s] EXCEPT !.status = aStatus]
                          ELSE IF s \in Club!Existing THEN [row[s] EXCEPT !.status = "CANCELED"]
                          ELSE row[s]]
                       ELSE row
             /\ UNCHANGED <<job, forgotten, crossed>>
    BY <1>2, SubscribeFacts DEF KInv
  <2>2. ASSUME NEW s \in SubId PROVE row'[s].refunded = row[s].refunded
    BY <1>1, <2>1 DEF Club!Row
  <2>3. ASSUME NEW s \in SubId PROVE stripe'[s].returned = stripe[s].returned
    BY <1>1, <2>1 DEF Club!Subscription
  <2> QED  BY <2>1, <2>2, <2>3
<1>3. ASSUME NEW n \in Club!Attempt, Club!StripeForgetsKey(n) PROVE Same /\ Quiet
  BY <1>3 DEF Club!StripeForgetsKey
<1>4. ASSUME NEW t \in SubId, Club!StatusEvent(t) PROVE Same /\ Quiet
  <2>1. PICK aStatus \in {"ACTIVE", "PAST_DUE", "CANCELED"} :
              /\ row' = [row EXCEPT ![t].status = aStatus]
              /\ stripe' = IF aStatus = "CANCELED" THEN [stripe EXCEPT ![t].live = FALSE] ELSE stripe
              /\ UNCHANGED job
    BY <1>4 DEF Club!StatusEvent
  <2>2. ASSUME NEW s \in SubId PROVE row'[s].refunded = row[s].refunded
    BY <1>1, <2>1, ClubTypesOf DEF Club!Row
  <2>3. ASSUME NEW s \in SubId PROVE stripe'[s].returned = stripe[s].returned
    BY <1>1, <2>1, ClubTypesOf DEF Club!Subscription
  <2> QED  BY <2>1, <2>2, <2>3
<1>5. ASSUME NEW v \in Worker, NEW s \in SubId, Club!CloseReads(v, s) PROVE Same /\ Quiet
  BY <1>5, <1>1 DEF Club!CloseReads, Club!Idle
<1>6. ASSUME NEW v \in Worker, NEW op \in Club!Pausing, NEW s \in SubId, NEW r, Club!PauseReads(v, op, s, r)
      PROVE  Same /\ Quiet
  BY <1>6, <1>1 DEF Club!PauseReads, Club!Pausing
<1>7. ASSUME NEW v \in Worker, Club!PauseCallsStripe(v) PROVE Same /\ Quiet
  <2>1. row' = row /\ \/ stripe' = stripe
                      \/ stripe' = [stripe EXCEPT ![job[v].sub].paused = (job[v].op \in {"hold", "pause"})]
    BY <1>7 DEF Club!PauseCallsStripe
  <2>2. Same
    BY <1>1, <2>1, ClubTypesOf DEF Club!Subscription
  <2>3. Quiet
    BY <1>1, <1>7
       DEF Club!PauseCallsStripe, Club!Ends, Club!Idle, Club!Pausing, Club!Job
  <2> QED  BY <2>2, <2>3
<1>8. ASSUME NEW v \in Worker, Club!PauseWrites(v) PROVE Same /\ Quiet
  <2> DEFINE j == job[v]
  <2>1. stripe' = stripe /\ j.op \in Club!Pausing
    BY <1>8 DEF Club!PauseWrites
  <2>2. \/ row' = [row EXCEPT ![j.sub] = [row[j.sub] EXCEPT !.reasons = row[j.sub].reasons \cup {j.reason}]]
        \/ row' = [row EXCEPT ![j.sub] = [row[j.sub] EXCEPT !.reasons = j.seen.reasons \ {j.reason}]]
        \/ row' = [row EXCEPT ![j.sub] = [row[j.sub] EXCEPT !.shopPaused = TRUE]]
        \/ row' = [row EXCEPT ![j.sub] = [row[j.sub] EXCEPT !.shopPaused = FALSE]]
    BY <1>8, <2>1 DEF Club!PauseWrites, Club!Pausing
  <2>3. Same
    BY <1>1, <2>1, <2>2, ClubTypesOf DEF Club!Row
  <2>4. Quiet
    BY <1>1, <1>8 DEF Club!PauseWrites, Club!Ends, Club!Idle
  <2> QED  BY <2>3, <2>4
<1>9. ASSUME NEW v \in Worker, Club!CloseCancels(v) PROVE Same /\ Goal
  <2> DEFINE j == job[v]
  <2>1. j.op = "close" /\ j.step = "stripe" /\ j.sub \in SubId
    BY <1>1, <1>9 DEF Club!CloseCancels, ClubJobOK
  <2>2. Same
    <3>1. ASSUME NEW s \in SubId PROVE row'[s].refunded = row[s].refunded
      BY <1>1, <1>9, ClubTypesOf DEF Club!Row, Club!CloseCancels
    <3>2. ASSUME NEW s \in SubId PROVE stripe'[s].returned = stripe[s].returned
      BY <1>1, <1>9, ClubTypesOf DEF Club!Subscription, Club!CloseCancels
    <3> QED  BY <3>1, <3>2
  <2>3. ASSUME NEW w \in Worker, w # v PROVE job'[w] = job[w]
    BY <1>1, <1>9, <2>3 DEF Club!CloseCancels, Club!Ends
  <2>4. job'[v].op = "refund" =>
          /\ row'[j.sub].status = "CANCELED" /\ j.amount > 0 /\ job'[v] = [j EXCEPT !.op = "refund"]
    <3>1. CASE Club!Ends(v)
      BY <1>1, <3>1 DEF Club!Ends, Club!Idle
    <3>2. CASE ~ Club!Ends(v)
      <4>1. /\ row' = [row EXCEPT ![j.sub].status = "CANCELED"]
            /\ job' = [job EXCEPT ![v] = IF j.amount > 0 THEN [j EXCEPT !.op = "refund"] ELSE Club!Idle]
        BY <1>9, <3>2 DEF Club!CloseCancels
      <4>2. row'[j.sub].status = "CANCELED"
        BY <1>1, <2>1, <4>1, ClubTypesOf DEF Club!Row
      <4>3. job'[v] = IF j.amount > 0 THEN [j EXCEPT !.op = "refund"] ELSE Club!Idle
        BY <1>1, <4>1
      <4> QED  BY <4>2, <4>3 DEF Club!Idle
    <3> QED  BY <3>1, <3>2
  <2> QED  BY <2>1, <2>2, <2>3, <2>4
<1>10. Quiet => Goal
  OBVIOUS
<1> HIDE DEF Same, Quiet, Goal
<1>11. Same /\ Goal
  BY <1>2, <1>3, <1>4, <1>5, <1>6, <1>7, <1>8, <1>9, <1>10
     DEF Club!Next, Club!Pausing
<1>12. ASSUME NEW w \in Worker, Marked(job'[w]) PROVE job'[w] = job[w]
  BY <1>1, <1>11, <1>12 DEF Club!Job, Marked, Goal
<1> QED  BY <1>11, <1>12 DEF Same, Goal

LEMMA ClaimsR == ASSUME ClubTInv, ClubTables, KInv, RInv, NEW w \in Worker, Club!RefundClaims(w) PROVE RInv'
<1> DEFINE j == job[w]
<1>1. /\ \A s \in SubId : row[s] \in Club!Row /\ stripe[s] \in Club!Subscription
      /\ job \in [Worker -> Club!Job] /\ \A v \in Worker : job[v] \in Club!Job /\ ClubJobOK(job[v])
  BY ClubTypesOf
<1>2. /\ j.op = "refund" /\ j.step = "stripe" /\ j.sub \in SubId /\ stripe' = stripe
      /\ j.seen.refunded = 0 /\ row[j.sub].status = "CANCELED" /\ j.amount > 0
  BY <1>1 DEF Club!RefundClaims, ClubJobOK, RInv, ClubClosing
<1>3. CASE row[j.sub].refunded = 0
  <2>1. row' = [row EXCEPT ![j.sub].refunded = j.amount] /\ job' = [job EXCEPT ![w].step = "write"]
    BY <1>1, <1>2, <1>3 DEF Club!RefundClaims, Club!Job
  <2>2. /\ \A s \in SubId : row'[s].status = row[s].status
        /\ \A s \in SubId \ {j.sub} : row'[s] = row[s]
        /\ row'[j.sub].refunded = j.amount
    BY <1>1, <1>2, <2>1, ClubTypesOf DEF Club!Row
  <2>3. /\ \A v \in Worker : /\ job'[v].op = job[v].op /\ job'[v].sub = job[v].sub
                             /\ job'[v].seen = job[v].seen /\ job'[v].amount = job[v].amount
                             /\ v # w => job'[v] = job[v]
        /\ job'[w].step = "write"
    BY <1>1, <2>1 DEF Club!Job
  <2>4. stripe[j.sub].returned = 0
    BY <1>1, <1>2, <1>3 DEF RInv, Club!Subscription
  <2>5. \A v \in Worker : Marked(job[v]) => job[v].sub # j.sub
    BY <1>3 DEF RInv, Marked
  <2>6. \A v \in Worker : Marked(job[v]) => job[v].sub \in SubId
    BY <1>1 DEF Marked, ClubJobOK
  <2>7. j.amount \in Nat
    BY <1>1, <1>2 DEF Club!Job
  <2>8. \A s \in SubId : row'[s].status # "CANCELED" => row'[s].refunded = 0
    BY <1>2, <2>2 DEF RInv
  <2>9. \A s \in SubId : stripe'[s].returned <= row'[s].refunded
    BY <1>2, <2>2, <2>4, <2>7 DEF RInv
  <2>10. \A v \in Worker : ClubClosing(job'[v]) => job'[v].seen.refunded = 0
    BY <2>3 DEF RInv, ClubClosing
  <2>11. \A v \in Worker : job'[v].op = "refund" => row'[job'[v].sub].status = "CANCELED" /\ job'[v].amount > 0
    BY <1>1, <2>2, <2>3 DEF ClubJobOK, RInv
  <2>12. ASSUME NEW v \in Worker, Marked(job'[v])
         PROVE  row'[job'[v].sub].refunded = job'[v].amount /\ stripe'[job'[v].sub].returned = 0
    BY <1>2, <2>2, <2>3, <2>4, <2>12, <2>5, <2>6 DEF RInv
  <2>13. ASSUME NEW u \in Worker, NEW v \in Worker, Marked(job'[u]), Marked(job'[v]), job'[u].sub = job'[v].sub
         PROVE  u = v
    BY <2>3, <2>5, <2>13 DEF RInv
  <2> QED  BY <2>8, <2>9, <2>10, <2>11, <2>12, <2>13 DEF RInv, ClubClosing, Marked
<1>4. CASE row[j.sub].refunded # 0
  BY <1>2, <1>4, <1>1
     DEF Club!RefundClaims, Club!Ends, Club!Idle, RInv, ClubClosing, Marked
<1> QED  BY <1>3, <1>4

LEMMA AtStripeR == ASSUME ClubTInv, ClubTables, KInv, RInv, NEW w \in Worker, Club!RefundAtStripe(w) PROVE RInv'
<1> DEFINE j == job[w]
<1>1. /\ \A s \in SubId : row[s] \in Club!Row /\ stripe[s] \in Club!Subscription
      /\ job \in [Worker -> Club!Job] /\ \A v \in Worker : job[v] \in Club!Job /\ ClubJobOK(job[v])
  BY ClubTypesOf
<1>2. /\ Marked(j) /\ j.sub \in SubId /\ j.seen.refunded = 0 /\ row[j.sub].status = "CANCELED"
      /\ row[j.sub].refunded = j.amount /\ stripe[j.sub].returned = 0 /\ j.amount \in Nat
      /\ job' = [job EXCEPT ![w] = Club!Idle]
  BY <1>1
     DEF Club!RefundAtStripe, ClubJobOK, RInv, ClubClosing, Marked, Club!Ends,
         Club!Job
<1>3. /\ \A v \in Worker : v # w => job'[v] = job[v]
      /\ job'[w].op = "idle"
  BY <1>1, <1>2 DEF Club!Idle
<1>4. /\ \A s \in SubId : row'[s].status = row[s].status
      /\ \A s \in SubId \ {j.sub} : row'[s] = row[s] /\ stripe'[s] = stripe[s]
      /\ row'[j.sub].refunded = 0 => stripe'[j.sub].returned = 0
      /\ stripe'[j.sub].returned <= row'[j.sub].refunded
  <2>1. CASE stripe' = [stripe EXCEPT ![j.sub].returned = @ + j.amount] /\ row' = row
    BY <1>1, <1>2, <2>1, ClubTypesOf DEF Club!Subscription
  <2>2. CASE stripe' = stripe /\ row' = [row EXCEPT ![j.sub].refunded = 0]
    BY <1>1, <1>2, <2>2, ClubTypesOf DEF Club!Row
  <2>3. j.seen.refunded + j.amount = j.amount
    BY <1>2
  <2>4. \/ stripe' = [stripe EXCEPT ![j.sub].returned = @ + j.amount] /\ row' = row
        \/ stripe' = stripe /\ row' = [row EXCEPT ![j.sub].refunded = 0]
    BY <1>2, <2>3 DEF Club!RefundAtStripe
  <2> QED  BY <2>1, <2>2, <2>4
<1>5. \A v \in Worker \ {w} : Marked(job[v]) => job[v].sub # j.sub
  BY <1>2 DEF RInv
<1>6. \A v \in Worker : job[v].op = "refund" => job[v].sub \in SubId
  BY <1>1 DEF ClubJobOK
<1>7. \A s \in SubId : row'[s].status # "CANCELED" => row'[s].refunded = 0
  BY <1>2, <1>4 DEF RInv
<1>8. \A s \in SubId : stripe'[s].returned <= row'[s].refunded
  BY <1>4 DEF RInv
<1>9. \A v \in Worker : ClubClosing(job'[v]) => job'[v].seen.refunded = 0
  BY <1>3 DEF RInv, ClubClosing
<1>10. \A v \in Worker : job'[v].op = "refund" => row'[job'[v].sub].status = "CANCELED" /\ job'[v].amount > 0
  BY <1>3, <1>4, <1>6 DEF RInv
<1>11. \A v \in Worker : Marked(job'[v]) => /\ row'[job'[v].sub].refunded = job'[v].amount
                                            /\ stripe'[job'[v].sub].returned = 0
  BY <1>3, <1>4, <1>5, <1>6 DEF RInv, Marked
<1>12. \A u, v \in Worker : Marked(job'[u]) /\ Marked(job'[v]) /\ job'[u].sub = job'[v].sub => u = v
  BY <1>3 DEF RInv, Marked
<1> QED  BY <1>7, <1>8, <1>9, <1>10, <1>11, <1>12 DEF RInv, ClubClosing, Marked

LEMMA InitR == ClubTables /\ Club!Init => RInv
<1> SUFFICES ASSUME ClubTables, Club!Init PROVE RInv
  OBVIOUS
<1>1. \A w \in Worker : job[w].op = "idle"
  BY DEF Club!Init, Club!Idle
<1>2. \A s \in SubId : row[s].refunded = 0 /\ stripe[s].returned = 0
  BY DEF Club!Init
<1> QED  BY <1>1, <1>2 DEF RInv, ClubClosing, Marked

LEMMA NextR == ClubTInv /\ ClubTables /\ KInv /\ RInv /\ [Club!Next]_(Club!vars) => RInv'
<1> SUFFICES ASSUME ClubTInv, ClubTables, KInv, RInv, [Club!Next]_(Club!vars) PROVE RInv'
  OBVIOUS
<1>1. CASE UNCHANGED Club!vars
  BY <1>1 DEF Club!vars, RInv, ClubClosing, Marked
<1>2. CASE \E w \in Worker : Club!RefundClaims(w) \/ Club!RefundAtStripe(w)
  BY <1>2, ClaimsR, AtStripeR
<1>3. CASE Club!Next /\ \A w \in Worker : ~ Club!RefundClaims(w) /\ ~ Club!RefundAtStripe(w)
  <2>1. /\ \A s \in SubId : row'[s].refunded = row[s].refunded /\ stripe'[s].returned = stripe[s].returned
        /\ \A w \in Worker : job'[w].op = "refund" =>
                \/ job'[w] = job[w]
                \/ /\ job[w].op = "close" /\ job[w].sub \in SubId /\ row'[job[w].sub].status = "CANCELED"
                   /\ job[w].amount > 0 /\ job'[w] = [job[w] EXCEPT !.op = "refund"]
        /\ \A w \in Worker : Marked(job'[w]) => job'[w] = job[w]
    BY <1>3, MoneyKept
  <2>2. \A s \in SubId : row'[s].status # "CANCELED" => row[s].status # "CANCELED"
    BY <1>3, CanceledForEver
  <2>3. \A w \in Worker : job[w] \in Club!Job /\ ClubJobOK(job[w])
    BY ClubTypesOf
  <2>4. \A s \in SubId : row'[s].status # "CANCELED" => row'[s].refunded = 0
    BY <2>1, <2>2 DEF RInv
  <2>5. \A s \in SubId : stripe'[s].returned <= row'[s].refunded
    BY <2>1 DEF RInv
  <2>6. ASSUME NEW w \in Worker, ClubClosing(job'[w]) PROVE job'[w].seen.refunded = 0
    BY <1>3, <2>6, ClosingFacts DEF Club!Existing, Club!Rows, RInv
  <2>7. ASSUME NEW w \in Worker, job'[w].op = "refund"
        PROVE  row'[job'[w].sub].status = "CANCELED" /\ job'[w].amount > 0
    <3>1. CASE job'[w] = job[w]
      BY <1>3, <2>3, <2>7, <3>1, CanceledForEver DEF RInv, ClubJobOK
    <3>2. CASE job'[w] # job[w]
      BY <2>1, <2>7, <3>2, <2>3 DEF Club!Job
    <3> QED  BY <3>1, <3>2
  <2>8. ASSUME NEW w \in Worker, Marked(job'[w])
        PROVE  row'[job'[w].sub].refunded = job'[w].amount /\ stripe'[job'[w].sub].returned = 0
    BY <2>1, <2>3, <2>8 DEF Marked, ClubJobOK, RInv
  <2>9. \A u, v \in Worker : Marked(job'[u]) /\ Marked(job'[v]) /\ job'[u].sub = job'[v].sub => u = v
    BY <2>1 DEF RInv
  <2> QED  BY <2>4, <2>5, <2>6, <2>7, <2>8, <2>9 DEF RInv, ClubClosing, Marked
<1> QED  BY <1>1, <1>2, <1>3

(* Closing the club twice, or while a refund is under way, gives the rest   *)
(* of a cycle back once: Stripe never returns more than the row says        *)
(* (refundUnusedClubCycle marks the amount on the condition that nobody     *)
(* marked since it was read, and only a row that can still be closed is     *)
(* read).                                                                   *)
THEOREM ClubBillingCycleReturnedOnce == ClubTables => (Club!Spec => []Club!CycleReturnedOnce)
<1> SUFFICES ASSUME ClubTables PROVE Club!Spec => []Club!CycleReturnedOnce
  OBVIOUS
<1> DEFINE I == ClubTInv /\ KInv /\ RInv
<1>1. Club!Init => I
  BY ClubInitT, InitK, InitR
<1>2. I /\ [Club!Next]_(Club!vars) => I'
  BY ClubNextT, ClubNextK, NextR
<1>3. I => Club!CycleReturnedOnce
  BY DEF RInv, Club!CycleReturnedOnce
<1> QED  BY <1>1, <1>2, <1>3, PTL DEF Club!Spec

----------------------------------------------------------------------------
(* One subscription is charged *)

(* Stripe answered the attempt that comes next, and its row was lost. *)
Lost(s) == \E n \in Club!Attempt : n = Cardinality(Club!Rows) + 1 /\ key[n] = s

(* One row exists at a time; a subscription Stripe charges is on it, or was *)
(* lost, and then it is the only one.                                       *)
LInv ==
    /\ \A s, t \in Club!Existing : s = t
    /\ \A s \in Club!Rows : stripe[s].live => s \in Club!Existing
    /\ ~ forgotten => \A s \in SubId \ Club!Rows : stripe[s].live => Lost(s)
    /\ ~ forgotten => \A s, t \in SubId : Lost(s) /\ stripe[t].live => t = s

LEMMA SubscribeL == ASSUME ClubTInv, ClubTables, KInv, LInv, Club!SubscribeToPlan PROVE LInv'
<1>1. PICK new \in SubId, n \in Club!Attempt, aStatus \in {"INCOMPLETE", "ACTIVE"}, committed \in BOOLEAN :
         /\ n = Cardinality(Club!Rows) + 1 /\ n \in Nat /\ new \notin Club!Rows
         /\ \/ key[n] = new
            \/ key[n] = None /\ ~ stripe[new].live /\ \A m \in Club!Attempt : key[m] # new
         /\ key' = [key EXCEPT ![n] = new]
         /\ stripe' = [s \in SubId |->
                        IF s = new /\ key[n] # new THEN [stripe[s] EXCEPT !.live = TRUE]
                        ELSE IF s \in Club!Existing THEN [stripe[s] EXCEPT !.live = FALSE]
                        ELSE stripe[s]]
         /\ row' = IF committed
                   THEN [s \in SubId |->
                          IF s = new THEN [row[s] EXCEPT !.status = aStatus]
                          ELSE IF s \in Club!Existing THEN [row[s] EXCEPT !.status = "CANCELED"]
                          ELSE row[s]]
                   ELSE row
         /\ ~ committed => Club!Rows' = Club!Rows
         /\ committed => Club!Rows' = Club!Rows \cup {new} /\ Cardinality(Club!Rows') = n
         /\ UNCHANGED <<job, forgotten, crossed>>
  BY SubscribeFacts DEF KInv
<1>2. /\ \A s \in SubId : row[s] \in Club!Row /\ stripe[s] \in Club!Subscription
      /\ key'[n] = new /\ new # None
      /\ \A m \in Club!Attempt : m # n => key'[m] = key[m]
      /\ Club!Rows \subseteq SubId /\ Club!Existing \subseteq Club!Rows
  BY <1>1, ClubTypesOf DEF ClubTables, Club!Existing, Club!Rows
<1>3. ASSUME NEW s \in SubId, s # new, stripe'[s].live PROVE stripe[s].live /\ s \notin Club!Rows
  BY <1>1, <1>2, <1>3 DEF Club!Subscription, LInv
<1>4. ASSUME NEW s \in SubId, s # new, stripe'[s].live PROVE forgotten
  BY <1>3, <1>4, <1>1, <1>2 DEF LInv, Lost, ClubTables
<1>5. UNCHANGED Club!Attempt
  BY DEF Club!Attempt
<1>6. CASE committed
  <2>1. Club!Existing' = {new}
    BY <1>1, <1>2, <1>6 DEF Club!Row, Club!Existing, Club!Rows
  <2>2. ~ forgotten' => \A s \in SubId \ Club!Rows' : stripe'[s].live => Lost(s)'
    BY <1>1, <1>4, <1>6
  <2>3. \A s \in SubId : ~ Lost(s)'
    <3> SUFFICES ASSUME NEW s \in SubId, NEW m \in Club!Attempt, m = Cardinality(Club!Rows') + 1, key'[m] = s
                 PROVE  FALSE
      BY <1>5 DEF Lost
    <3>1. m = n + 1 /\ m # n
      BY <1>1, <1>6
    <3>2. key[m] = s /\ key[m] # None
      BY <1>2, <3>1 DEF ClubTables
    <3>3. m <= Cardinality(Club!Rows) + 1
      BY <3>2 DEF KInv, KeysOK
    <3> QED  BY <1>1, <3>1, <3>3
  <2>4. \A s \in Club!Rows' : stripe'[s].live => s \in Club!Existing'
    BY <1>1, <1>2, <1>3, <1>6, <2>1
  <2> QED  BY <2>1, <2>2, <2>3, <2>4 DEF LInv
<1>7. CASE ~ committed
  <2>1. row' = row /\ Club!Rows' = Club!Rows /\ Club!Existing' = Club!Existing
    BY <1>1, <1>7 DEF Club!Existing, Club!Rows
  <2>2. Lost(new)'
    BY <1>1, <1>2, <1>5, <2>1 DEF Lost
  <2>3. \A s \in SubId : Lost(s)' => s = new
    BY <1>1, <1>2, <1>5, <2>1 DEF Lost
  <2>4. \A s \in Club!Rows' : stripe'[s].live => s \in Club!Existing'
    BY <1>1, <1>2, <1>3, <2>1
  <2> QED  BY <1>1, <1>4, <2>1, <2>2, <2>3, <2>4 DEF LInv
<1> QED  BY <1>6, <1>7

LEMMA InitL == ClubTables /\ Club!Init => LInv
<1> SUFFICES ASSUME ClubTables, Club!Init PROVE LInv
  OBVIOUS
<1>1. Club!Rows = {} /\ \A s \in SubId : ~ stripe[s].live
  BY DEF Club!Init, Club!Rows
<1> QED  BY <1>1 DEF LInv, Club!Existing

LEMMA ClubNextL == ClubTInv /\ ClubTables /\ KInv /\ LInv /\ [Club!Next]_(Club!vars) => LInv'
<1> SUFFICES ASSUME ClubTInv, ClubTables, KInv, LInv, [Club!Next]_(Club!vars) PROVE LInv'
  OBVIOUS
<1>1. CASE UNCHANGED Club!vars
  BY <1>1, ClubCounts
     DEF Club!vars, LInv, Club!Existing, Club!Rows, Lost, Club!Attempt
<1>2. CASE Club!SubscribeToPlan
  BY <1>2, SubscribeL
<1>3. ASSUME NEW m \in Club!Attempt, Club!StripeForgetsKey(m) PROVE LInv'
  <2>1. Club!Rows' = Club!Rows /\ Club!Existing' = Club!Existing /\ stripe' = stripe /\ (forgotten => forgotten')
    BY <1>3 DEF Club!StripeForgetsKey, Club!Rows, Club!Existing
  <2>2. ASSUME ~ forgotten' PROVE \A s \in SubId : Lost(s)' <=> Lost(s)
    <3>1. key[m] # None /\ key[m] \in SubId /\ row[key[m]].status # "none"
      BY <1>3, <2>2, ClubTypesOf DEF Club!StripeForgetsKey
    <3>2. m <= Cardinality(Club!Rows) /\ m \in Nat /\ Cardinality(Club!Rows) \in Nat
      BY <3>1, RowsType DEF KInv, KeysOK, Club!Rows, Club!Attempt
    <3>3. \A k \in Club!Attempt : k = Cardinality(Club!Rows) + 1 => key'[k] = key[k]
      BY <1>3, <3>2, ClubTypesOf DEF Club!StripeForgetsKey
    <3>4. UNCHANGED Club!Attempt
      BY DEF Club!Attempt
    <3> QED  BY <2>1, <3>3, <3>4 DEF Lost
  <2> QED  BY <2>1, <2>2 DEF LInv
<1>4. CASE Club!Next /\ ~ Club!SubscribeToPlan /\ \A m \in Club!Attempt : ~ Club!StripeForgetsKey(m)
  <2>1. /\ Club!Rows' = Club!Rows
        /\ \A s \in SubId :
                \/ row'[s].status = row[s].status /\ stripe'[s].live = stripe[s].live
                \/ /\ s \in Club!Existing /\ row'[s].status \in {"ACTIVE", "PAST_DUE"}
                   /\ stripe'[s].live = stripe[s].live
                \/ s \in Club!Rows /\ row'[s].status = "CANCELED" /\ ~ stripe'[s].live
    BY <1>4, StatusFacts DEF KInv
  <2>2. UNCHANGED <<key, forgotten>>
    BY <1>4
       DEF Club!Next, Club!StatusEvent, Club!PauseCallsStripe, Club!PauseWrites,
           Club!CloseCancels, Club!RefundClaims,
                Club!RefundAtStripe, Club!CloseReads, Club!PauseReads
  <2>3. \A s \in SubId : Lost(s)' <=> Lost(s)
    BY <2>1, <2>2 DEF Lost, Club!Attempt
  <2>4. \A s \in SubId : stripe'[s].live => stripe[s].live
    BY <2>1
  <2>5. Club!Existing' \subseteq Club!Existing /\ Club!Rows \subseteq SubId
    BY <2>1 DEF Club!Existing, Club!Rows
  <2>6. \A s \in Club!Rows' : stripe'[s].live => s \in Club!Existing'
    BY <2>1, <2>5 DEF LInv, Club!Existing
  <2> QED  BY <2>1, <2>2, <2>3, <2>4, <2>5, <2>6 DEF LInv
<1> QED  BY <1>1, <1>2, <1>3, <1>4

(* However often the client asks and whatever is lost, Stripe charges one   *)
(* subscription of the plan, unless a lost attempt is repeated after Stripe *)
(* forgot its key: the lock admits one row that exists, and the key that    *)
(* subscribeToPlan derives from the number of rows finds the lost one.      *)
THEOREM ClubBillingOneLiveSubscription == ClubTables => (Club!Spec => []Club!OneLiveSubscription)
<1> SUFFICES ASSUME ClubTables PROVE Club!Spec => []Club!OneLiveSubscription
  OBVIOUS
<1> DEFINE I == ClubTInv /\ KInv /\ LInv
<1>1. Club!Init => I
  BY ClubInitT, InitK, InitL
<1>2. I /\ [Club!Next]_(Club!vars) => I'
  BY ClubNextT, ClubNextK, ClubNextL
<1>3. I => Club!OneLiveSubscription
  <2> SUFFICES ASSUME I, ~ forgotten PROVE Cardinality({s \in SubId : stripe[s].live}) <= 1
    BY ClubCounts DEF Club!OneLiveSubscription
  <2> DEFINE Live == {s \in SubId : stripe[s].live}
  <2>1. \A s, t \in SubId : Lost(s) /\ Lost(t) => s = t
    BY DEF Lost
  <2>2. \A s, t \in Live : s = t
    BY <2>1 DEF LInv
  <2>3. CASE Live = {}
    BY <2>3, FS_EmptySet
  <2>4. CASE Live # {}
    <3>1. PICK s : Live = {s}
      BY <2>2, <2>4
    <3>2. Cardinality({s}) = 1
      BY FS_Singleton
    <3>3. Cardinality(Live) = 1
      BY <3>1, <3>2
    <3> QED  BY <3>3
  <2> QED  BY <2>3, <2>4
<1> QED  BY <1>1, <1>2, <1>3, PTL DEF Club!Spec

----------------------------------------------------------------------------
(* The charge is paused exactly while somebody holds it *)

ClubStarted(s) == row[s].status \notin {"none", "INCOMPLETE"}
ClubHeld(s) == row[s].reasons # {} \/ row[s].shopPaused
Changes(w, s) == job[w].op \in Club!Pausing /\ job[w].sub = s

(* Whether the charge is paused at Stripe once the call of a change is made *)
Paused(j) == j.op \in {"hold", "pause"} \/ Club!HeldByOther(j)

(* Only a row that started is paused or held.  While changes do not         *)
(* overlap, the one under way read what the row still says, and Stripe      *)
(* pauses the charge for that, or already for what the change makes of it.  *)
QInv ==
    /\ \A s \in SubId : ClubStarted(s) \/ (~ ClubHeld(s) /\ ~ stripe[s].paused)
    /\ \A w \in Worker, s \in SubId : Changes(w, s) =>
          ClubStarted(s) /\ (job[w].seen.status \in Club!Billable \/ row[s].status = "CANCELED")
    /\ ~ crossed => \A v, w \in Worker, s \in SubId : Changes(v, s) /\ Changes(w, s) => v = w
    /\ ~ crossed => \A w \in Worker, s \in SubId : Changes(w, s) =>
          job[w].seen.reasons = row[s].reasons /\ (job[w].seen.shopPaused <=> row[s].shopPaused)
    /\ ~ crossed => \A w \in Worker, s \in SubId : Changes(w, s) /\ stripe[s].live =>
          (stripe[s].paused <=> IF job[w].step = "stripe" THEN ClubHeld(s) ELSE Paused(job[w]))
    /\ ~ crossed => \A s \in SubId : stripe[s].live /\ (\A w \in Worker : ~ Changes(w, s)) =>
          (stripe[s].paused <=> ClubHeld(s))

PauseStep(w) ==
    \/ Club!PauseCallsStripe(w) \/ Club!PauseWrites(w)
    \/ \E s \in SubId : \/ \E op \in {"pause", "resume"} : Club!PauseReads(w, op, s, None)
                        \/ \E op \in {"hold", "release"}, r \in Reason : Club!PauseReads(w, op, s, r)

(* What every step but those of a change keeps *)
LEMMA PauseKept ==
    ASSUME ClubTInv, ClubTables, KInv, Club!Next, \A w \in Worker : ~ PauseStep(w)
    PROVE  /\ \A s \in SubId : /\ row'[s].reasons = row[s].reasons /\ row'[s].shopPaused = row[s].shopPaused
                               /\ stripe'[s].paused = stripe[s].paused
                               /\ (row[s].status \notin {"none", "INCOMPLETE"} =>
                                         row'[s].status \notin {"none", "INCOMPLETE"})
                               /\ (stripe'[s].live => stripe[s].live \/ row[s].status = "none")
           /\ crossed' = crossed
           /\ \A w \in Worker : \/ job'[w] = job[w]
                                \/ job'[w].op \notin Club!Pausing /\ job[w].op \notin Club!Pausing
<1>1. /\ \A s \in SubId : row[s] \in Club!Row /\ stripe[s] \in Club!Subscription
      /\ row \in [SubId -> Club!Row] /\ stripe \in [SubId -> Club!Subscription]
      /\ job \in [Worker -> Club!Job] /\ \A w \in Worker : job[w] \in Club!Job /\ ClubJobOK(job[w])
  BY ClubTypesOf
<1> DEFINE Same == \A s \in SubId : /\ row'[s].reasons = row[s].reasons
                                    /\ row'[s].shopPaused = row[s].shopPaused
                                    /\ stripe'[s].paused = stripe[s].paused
           Jobs == \A w \in Worker : \/ job'[w] = job[w]
                                     \/ job'[w].op \notin Club!Pausing /\ job[w].op \notin Club!Pausing
           Life == \A s \in SubId : /\ (row[s].status \notin {"none", "INCOMPLETE"} =>
                                         row'[s].status \notin {"none", "INCOMPLETE"})
                                    /\ (stripe'[s].live => stripe[s].live \/ row[s].status = "none")
<1>2. crossed' = crossed
  BY DEF Club!Next, Club!SubscribeToPlan, Club!StripeForgetsKey,
         Club!StatusEvent, PauseStep, Club!CloseCancels, Club!RefundClaims,
         Club!RefundAtStripe, Club!CloseReads
<1>3. ASSUME Club!SubscribeToPlan PROVE Same /\ Jobs /\ Life
  <2>1. PICK new \in SubId, n \in Club!Attempt, aStatus \in {"INCOMPLETE", "ACTIVE"}, committed \in BOOLEAN :
             /\ new \notin Club!Rows
             /\ stripe' = [s \in SubId |->
                        IF s = new /\ key[n] # new THEN [stripe[s] EXCEPT !.live = TRUE]
                        ELSE IF s \in Club!Existing THEN [stripe[s] EXCEPT !.live = FALSE]
                        ELSE stripe[s]]
             /\ row' = IF committed
                       THEN [s \in SubId |->
                          IF s = new THEN [row[s] EXCEPT !.status = aStatus]
                          ELSE IF s \in Club!Existing THEN [row[s] EXCEPT !.status = "CANCELED"]
                          ELSE row[s]]
                       ELSE row
             /\ UNCHANGED <<job, forgotten, crossed>>
    BY <1>3, SubscribeFacts DEF KInv
  <2>2. ASSUME NEW s \in SubId PROVE row'[s].reasons = row[s].reasons /\ row'[s].shopPaused = row[s].shopPaused
    BY <1>1, <2>1 DEF Club!Row
  <2>3. ASSUME NEW s \in SubId PROVE stripe'[s].paused = stripe[s].paused
    BY <1>1, <2>1 DEF Club!Subscription
  <2>4. ASSUME NEW s \in SubId, row[s].status \notin {"none", "INCOMPLETE"}
        PROVE  row'[s].status \notin {"none", "INCOMPLETE"}
    BY <2>1, <2>4, <1>1 DEF Club!Rows, Club!Row
  <2>5. ASSUME NEW s \in SubId, stripe'[s].live PROVE stripe[s].live \/ row[s].status = "none"
    BY <2>1, <1>1, <2>5 DEF Club!Rows, Club!Subscription
  <2> QED  BY <2>1, <2>2, <2>3, <2>4, <2>5
<1>4. ASSUME ~ Club!SubscribeToPlan PROVE Life
  BY <1>4, StatusFacts DEF KInv, Club!Rows
<1>5. ASSUME NEW n \in Club!Attempt, Club!StripeForgetsKey(n) PROVE Same /\ Jobs
  BY <1>5 DEF Club!StripeForgetsKey
<1>6. ASSUME NEW t \in SubId, Club!StatusEvent(t) PROVE Same /\ Jobs
  <2>1. PICK aStatus \in {"ACTIVE", "PAST_DUE", "CANCELED"} :
              /\ row' = [row EXCEPT ![t].status = aStatus]
              /\ stripe' = IF aStatus = "CANCELED" THEN [stripe EXCEPT ![t].live = FALSE] ELSE stripe
              /\ UNCHANGED job
    BY <1>6 DEF Club!StatusEvent
  <2>2. ASSUME NEW s \in SubId PROVE row'[s].reasons = row[s].reasons /\ row'[s].shopPaused = row[s].shopPaused
    BY <1>1, <2>1 DEF Club!Row
  <2>3. ASSUME NEW s \in SubId PROVE stripe'[s].paused = stripe[s].paused
    BY <1>1, <2>1 DEF Club!Subscription
  <2> QED  BY <2>1, <2>2, <2>3
<1>7. ASSUME NEW v \in Worker, NEW s \in SubId, Club!CloseReads(v, s) PROVE Same /\ Jobs
  BY <1>7, <1>1 DEF Club!CloseReads, Club!Idle, Club!Pausing
<1>8. ASSUME NEW v \in Worker, Club!CloseCancels(v) PROVE Same /\ Jobs
  <2> DEFINE j == job[v]
  <2>1. j.op = "close"
    BY <1>8 DEF Club!CloseCancels
  <2>2. Same
    BY <1>1, <1>8 DEF Club!Row, Club!CloseCancels, Club!Subscription
  <2>3. Jobs
    <3>1. [j EXCEPT !.op = "refund"].op = "refund"
      BY <1>1 DEF Club!Job
    <3>2. PICK x : (x = Club!Idle \/ x = [j EXCEPT !.op = "refund"]) /\ job' = [job EXCEPT ![v] = x]
      BY <1>8 DEF Club!CloseCancels, Club!Ends
    <3>3. x.op \in {"refund", "idle"}
      <4>1. Club!Idle.op = "idle"
        BY DEF Club!Idle
      <4>2. x = Club!Idle \/ x = [j EXCEPT !.op = "refund"]
        BY <3>2
      <4> QED  BY ONLY <3>1, <4>1, <4>2
    <3>4. \A w \in Worker : job'[w] = job[w] \/ (w = v /\ job'[w].op \in {"refund", "idle"})
      BY <1>1, <3>2, <3>3
    <3> QED  BY <2>1, <3>4 DEF Club!Pausing
  <2> QED  BY <2>2, <2>3
<1>9. ASSUME NEW v \in Worker, Club!RefundClaims(v) PROVE Same /\ Jobs
  <2>1. Same
    BY <1>1, <1>9 DEF Club!RefundClaims, Club!Row
  <2>2. Jobs
    BY <1>1, <1>9
       DEF Club!RefundClaims, Club!Ends, Club!Idle, Club!Pausing, Club!Job
  <2> QED  BY <2>1, <2>2
<1>10. ASSUME NEW v \in Worker, Club!RefundAtStripe(v) PROVE Same /\ Jobs
  <2> DEFINE j == job[v]
  <2>1. row' = row \/ row' = [row EXCEPT ![j.sub].refunded = j.seen.refunded]
    BY <1>10 DEF Club!RefundAtStripe
  <2>2. stripe' = stripe \/ stripe' = [stripe EXCEPT ![j.sub].returned = @ + j.amount]
    BY <1>10 DEF Club!RefundAtStripe
  <2>3. ASSUME NEW s \in SubId PROVE row'[s].reasons = row[s].reasons /\ row'[s].shopPaused = row[s].shopPaused
    BY <1>1, <2>1 DEF Club!Row
  <2>4. ASSUME NEW s \in SubId PROVE stripe'[s].paused = stripe[s].paused
    BY <1>1, <2>2 DEF Club!Subscription
  <2>5. Jobs
    BY <1>1, <1>10 DEF Club!RefundAtStripe, Club!Ends, Club!Idle, Club!Pausing
  <2> QED  BY <2>3, <2>4, <2>5
<1> HIDE DEF Same, Jobs, Life
<1>11. Same /\ Jobs
  BY <1>3, <1>5, <1>6, <1>7, <1>8, <1>9, <1>10 DEF Club!Next, PauseStep
<1>12. Life
  BY <1>3, <1>4
<1> QED  BY <1>2, <1>11, <1>12 DEF Same, Jobs, Life

LEMMA QuietQ ==
    ASSUME ClubTInv, ClubTables, KInv, QInv, Club!Next, \A w \in Worker : ~ PauseStep(w)
    PROVE  QInv'
<1>1. /\ \A s \in SubId : /\ row'[s].reasons = row[s].reasons /\ row'[s].shopPaused = row[s].shopPaused
                               /\ stripe'[s].paused = stripe[s].paused
                               /\ (row[s].status \notin {"none", "INCOMPLETE"} =>
                                         row'[s].status \notin {"none", "INCOMPLETE"})
                               /\ (stripe'[s].live => stripe[s].live \/ row[s].status = "none")
      /\ crossed' = crossed
      /\ \A w \in Worker : \/ job'[w] = job[w]
                           \/ job'[w].op \notin Club!Pausing /\ job[w].op \notin Club!Pausing
  BY PauseKept
<1>2. \A w \in Worker, s \in SubId : Changes(w, s)' <=> Changes(w, s)
  BY <1>1 DEF Changes, Club!Pausing
<1>3. \A w \in Worker, s \in SubId : Changes(w, s) => job'[w] = job[w]
  BY <1>1 DEF Changes
<1>4. \A s \in SubId : ClubHeld(s)' <=> ClubHeld(s)
  BY <1>1 DEF ClubHeld
<1>5. \A s \in SubId : ClubStarted(s) => ClubStarted(s)'
  BY <1>1 DEF ClubStarted
<1>6. \A w \in Worker, s \in SubId : Changes(w, s) => (Paused(job[w])' <=> Paused(job[w]))
  BY <1>3 DEF Paused, Club!HeldByOther
<1>7. \A s \in SubId : ClubStarted(s)' \/ (~ ClubHeld(s)' /\ ~ stripe'[s].paused)
  BY <1>1, <1>4, <1>5 DEF QInv
<1>8. \A s \in SubId : row[s].status = "none" => ~ ClubStarted(s)
  BY DEF ClubStarted
<1>9. \A w \in Worker, s \in SubId : Changes(w, s)' =>
          ClubStarted(s)' /\ (job'[w].seen.status \in Club!Billable \/ row'[s].status = "CANCELED")
  BY <1>2, <1>3, <1>5, CanceledForEver DEF QInv
<1>10. ~ crossed' => \A v, w \in Worker, s \in SubId : Changes(v, s)' /\ Changes(w, s)' => v = w
  BY <1>1, <1>2 DEF QInv
<1>11. ~ crossed' => \A w \in Worker, s \in SubId : Changes(w, s)' =>
          job'[w].seen.reasons = row'[s].reasons /\ (job'[w].seen.shopPaused <=> row'[s].shopPaused)
  BY <1>1, <1>2, <1>3 DEF QInv
<1>12. ~ crossed' => \A w \in Worker, s \in SubId : Changes(w, s)' /\ stripe'[s].live =>
          (stripe'[s].paused <=> IF job'[w].step = "stripe" THEN ClubHeld(s)' ELSE Paused(job[w])')
  BY <1>1, <1>2, <1>3, <1>4, <1>6, <1>8 DEF QInv
<1>13. ~ crossed' => \A s \in SubId : stripe'[s].live /\ (\A w \in Worker : ~ Changes(w, s)') =>
          (stripe'[s].paused <=> ClubHeld(s)')
  BY <1>1, <1>2, <1>4, <1>8 DEF QInv
<1> QED  BY <1>7, <1>9, <1>10, <1>11, <1>12, <1>13 DEF QInv, Club!Billable

LEMMA ReadsQ ==
    ASSUME ClubTInv, ClubTables, QInv, NEW w \in Worker, NEW s \in SubId, NEW op \in Club!Pausing, NEW r,
           Club!PauseReads(w, op, s, r)
    PROVE  QInv'
<1>1. /\ row' = row /\ stripe' = stripe /\ job[w] = Club!Idle /\ Club!Selected(op, s, r)
      /\ job \in [Worker -> Club!Job] /\ row[s] \in Club!Row
      /\ crossed' = (crossed \/ \E v \in Worker : job[v].sub = s)
      /\ job' = [job EXCEPT ![w] = [op |-> op, step |-> "stripe", sub |-> s, reason |-> r,
                                    seen |-> row[s], amount |-> 0]]
  BY ClubTypesOf DEF Club!PauseReads
<1>2. /\ job'[w].op = op /\ job'[w].step = "stripe" /\ job'[w].sub = s /\ job'[w].seen = row[s]
      /\ \A v \in Worker : v # w => job'[v] = job[v]
  BY <1>1
<1>3. ClubStarted(s)
  BY <1>1 DEF Club!Selected, ClubHeld, Club!Pausing, QInv, ClubStarted, Club!Billable
<1>4. row[s].status \in Club!Billable \/ row[s].status = "CANCELED"
  BY <1>1, <1>3 DEF ClubStarted, Club!Billable, Club!Row
<1>5. /\ \A t \in SubId : ~ Changes(w, t)
      /\ \A t \in SubId : Changes(w, t)' <=> t = s
      /\ \A v \in Worker, t \in SubId : v # w => (Changes(v, t)' <=> Changes(v, t))
      /\ ~ crossed' => ~ crossed /\ \A v \in Worker : ~ Changes(v, s)
  <2>1. \A t \in SubId : ~ Changes(w, t)
    BY <1>1 DEF Changes, Club!Pausing, Club!Idle
  <2>2. \A t \in SubId : Changes(w, t)' <=> t = s
    BY <1>2 DEF Changes, Club!Pausing
  <2>3. \A v \in Worker, t \in SubId : v # w => (Changes(v, t)' <=> Changes(v, t))
    BY <1>2 DEF Changes, Club!Pausing
  <2>4. ~ crossed' => ~ crossed /\ \A v \in Worker : job[v].sub # s
    BY <1>1
  <2> QED  BY <2>1, <2>2, <2>3, <2>4 DEF Changes
<1>6. \A t \in SubId : (ClubHeld(t)' <=> ClubHeld(t)) /\ (ClubStarted(t)' <=> ClubStarted(t))
  BY <1>1 DEF ClubHeld, ClubStarted
<1>7. \A v \in Worker, t \in SubId : v # w => (Paused(job[v])' <=> Paused(job[v]))
  BY <1>2 DEF Paused, Club!HeldByOther
<1>8. \A t \in SubId : ClubStarted(t)' \/ (~ ClubHeld(t)' /\ ~ stripe'[t].paused)
  BY <1>1, <1>6 DEF QInv
<1>9. ASSUME NEW v \in Worker, NEW t \in SubId, Changes(v, t)'
      PROVE  ClubStarted(t)' /\ (job'[v].seen.status \in Club!Billable \/ row'[t].status = "CANCELED")
  BY <1>1, <1>2, <1>3, <1>4, <1>5, <1>6, <1>9 DEF QInv
<1>10. ~ crossed' => \A u, v \in Worker, t \in SubId : Changes(u, t)' /\ Changes(v, t)' => u = v
  BY <1>5 DEF QInv
<1>11. ASSUME ~ crossed', NEW v \in Worker, NEW t \in SubId, Changes(v, t)'
       PROVE  job'[v].seen.reasons = row'[t].reasons /\ (job'[v].seen.shopPaused <=> row'[t].shopPaused)
  BY <1>1, <1>2, <1>5, <1>11 DEF QInv
<1>12. ASSUME ~ crossed', NEW v \in Worker, NEW t \in SubId, Changes(v, t)', stripe'[t].live
       PROVE  stripe'[t].paused <=> IF job'[v].step = "stripe" THEN ClubHeld(t)' ELSE Paused(job[v])'
  BY <1>5, <1>12, <1>1, <1>2, <1>6, <1>7 DEF QInv
<1>13. ASSUME ~ crossed', NEW t \in SubId, stripe'[t].live, \A v \in Worker : ~ Changes(v, t)'
       PROVE  stripe'[t].paused <=> ClubHeld(t)'
  BY <1>5, <1>13, <1>1, <1>6 DEF QInv
<1> QED  BY <1>8, <1>9, <1>10, <1>11, <1>12, <1>13 DEF QInv, Club!Billable

(* The call at Stripe: the change goes on to its write, or ends with nothing *)
(* done.                                                                     *)
LEMMA CallQ ==
    ASSUME ClubTInv, ClubTables, LInv, QInv, NEW w \in Worker, Club!PauseCallsStripe(w) PROVE QInv'
<1> DEFINE j == job[w]
           s == job[w].sub
<1>1. /\ \A t \in SubId : row[t] \in Club!Row /\ stripe[t] \in Club!Subscription
      /\ stripe \in [SubId -> Club!Subscription] /\ job \in [Worker -> Club!Job] /\ j \in Club!Job /\ ClubJobOK(j)
  BY ClubTypesOf
<1>2. /\ j.op \in Club!Pausing /\ j.step = "stripe" /\ s \in SubId /\ Changes(w, s)
      /\ row' = row /\ crossed' = crossed
  BY <1>1 DEF Club!PauseCallsStripe, Changes, ClubJobOK, Club!Pausing
<1>3. \A t \in SubId : (ClubHeld(t)' <=> ClubHeld(t)) /\ (ClubStarted(t)' <=> ClubStarted(t))
  BY <1>2 DEF ClubHeld, ClubStarted
<1>4. row[s].status = "CANCELED" => ~ stripe[s].live
  BY <1>1, <1>2 DEF LInv, Club!Rows, Club!Existing
<1>5. CASE Club!Ends(w) /\ stripe' = stripe
  <2>1. /\ \A v \in Worker : v # w => job'[v] = job[v]
        /\ \A t \in SubId : ~ Changes(w, t)'
    BY <1>1, <1>5 DEF Club!Ends, Club!Idle, Changes, Club!Pausing
  <2>2. \A v \in Worker, t \in SubId : v # w => (Changes(v, t)' <=> Changes(v, t))
    BY <2>1 DEF Changes, Club!Pausing
  <2>3. \A v \in Worker : v # w => (Paused(job[v])' <=> Paused(job[v]))
    BY <2>1 DEF Paused, Club!HeldByOther
  <2>4. \A t \in SubId : ClubStarted(t)' \/ (~ ClubHeld(t)' /\ ~ stripe'[t].paused)
    BY <1>3, <1>5 DEF QInv
  <2>5. \A v \in Worker, t \in SubId : Changes(v, t)' =>
          ClubStarted(t)' /\ (job'[v].seen.status \in Club!Billable \/ row'[t].status = "CANCELED")
    BY <1>2, <1>3, <2>1, <2>2 DEF QInv
  <2>6. ~ crossed' => \A u, v \in Worker, t \in SubId : Changes(u, t)' /\ Changes(v, t)' => u = v
    BY <1>2, <2>1, <2>2 DEF QInv
  <2>7. ~ crossed' => \A v \in Worker, t \in SubId : Changes(v, t)' =>
          job'[v].seen.reasons = row'[t].reasons /\ (job'[v].seen.shopPaused <=> row'[t].shopPaused)
    BY <1>2, <2>1, <2>2 DEF QInv
  <2>8. ASSUME ~ crossed', NEW v \in Worker, NEW t \in SubId, Changes(v, t)', stripe'[t].live
        PROVE  stripe'[t].paused <=> IF job'[v].step = "stripe" THEN ClubHeld(t)' ELSE Paused(job[v])'
    BY <2>1, <2>8, <1>2, <1>3, <2>2, <2>3, <1>5 DEF QInv
  <2>9. ASSUME ~ crossed', NEW t \in SubId, stripe'[t].live, \A v \in Worker : ~ Changes(v, t)'
        PROVE  stripe'[t].paused <=> ClubHeld(t)'
    BY <1>2, <1>3, <1>5, <2>9, <2>2 DEF QInv, Changes
  <2> QED  BY <2>4, <2>5, <2>6, <2>7, <2>8, <2>9 DEF QInv, Club!Billable
<1>6. CASE /\ job' = [job EXCEPT ![w].step = "write"]
           /\ stripe' = IF Club!TellsStripe(j) THEN [stripe EXCEPT ![s].paused = (j.op \in {"hold", "pause"})]
                        ELSE stripe
  <2>1. /\ \A v \in Worker : /\ job'[v].op = job[v].op /\ job'[v].sub = job[v].sub
                             /\ job'[v].seen = job[v].seen /\ job'[v].reason = job[v].reason
                             /\ v # w => job'[v] = job[v]
        /\ job'[w].step = "write"
    BY <1>1, <1>6 DEF Club!Job
  <2>2. \A v \in Worker, t \in SubId : Changes(v, t)' <=> Changes(v, t)
    BY <2>1 DEF Changes, Club!Pausing
  <2>3. \A v \in Worker : Paused(job[v])' <=> Paused(job[v])
    BY <2>1 DEF Paused, Club!HeldByOther
  <2>4. /\ \A t \in SubId : stripe'[t].live = stripe[t].live
        /\ \A t \in SubId \ {s} : stripe'[t] = stripe[t]
    BY <1>1, <1>6 DEF Club!Subscription
  <2>5. Club!TellsStripe(j) => (stripe'[s].paused <=> j.op \in {"hold", "pause"})
    <3> SUFFICES ASSUME Club!TellsStripe(j) PROVE stripe'[s].paused <=> j.op \in {"hold", "pause"}
      OBVIOUS
    <3>1. \A b : stripe' = [stripe EXCEPT ![s].paused = b] => stripe'[s].paused = b
      BY <1>1, <1>2 DEF Club!Subscription
    <3>2. stripe' = [stripe EXCEPT ![s].paused = (j.op \in {"hold", "pause"})]
      BY <1>6
    <3>3. stripe'[s].paused = (j.op \in {"hold", "pause"})
      BY <3>1, <3>2, Zenon
    <3> QED  BY <3>3, Zenon
  <2>6. ~ Club!TellsStripe(j) => stripe' = stripe
    BY <1>6
  <2>7. \A t \in SubId : ClubStarted(t)' \/ (~ ClubHeld(t)' /\ ~ stripe'[t].paused)
    BY <1>2, <1>3, <2>4 DEF QInv
  <2>8. \A v \in Worker, t \in SubId : Changes(v, t)' =>
          ClubStarted(t)' /\ (job'[v].seen.status \in Club!Billable \/ row'[t].status = "CANCELED")
    BY <1>2, <1>3, <2>1, <2>2 DEF QInv
  <2>9. ~ crossed' => \A u, v \in Worker, t \in SubId : Changes(u, t)' /\ Changes(v, t)' => u = v
    BY <1>2, <2>2 DEF QInv
  <2>10. ~ crossed' => \A v \in Worker, t \in SubId : Changes(v, t)' =>
          job'[v].seen.reasons = row'[t].reasons /\ (job'[v].seen.shopPaused <=> row'[t].shopPaused)
    BY <1>2, <2>1, <2>2 DEF QInv
  <2>11. ASSUME ~ crossed', stripe'[s].live PROVE stripe'[s].paused <=> Paused(j)
    <3>1. /\ j.seen.reasons = row[s].reasons /\ (j.seen.shopPaused <=> row[s].shopPaused)
          /\ (stripe[s].paused <=> ClubHeld(s)) /\ j.seen.status \in Club!Billable
      BY <1>2, <1>4, <2>4, <2>11 DEF QInv
    <3>2. CASE Club!HeldByOther(j)
      BY <1>2, <3>1, <3>2, <2>6
         DEF Club!HeldByOther, ClubHeld, Club!Pausing, Club!TellsStripe, Paused
    <3>3. CASE ~ Club!HeldByOther(j)
      BY <3>1, <3>3, <2>5 DEF Club!TellsStripe, Paused
    <3> QED  BY <3>2, <3>3
  <2>12. ASSUME ~ crossed', NEW v \in Worker, NEW t \in SubId, Changes(v, t)', stripe'[t].live
         PROVE  stripe'[t].paused <=> IF job'[v].step = "stripe" THEN ClubHeld(t)' ELSE Paused(job[v])'
    BY <2>1, <2>12, <2>3, <2>11, <1>2, <2>2, <1>3, <2>4 DEF Changes, QInv
  <2>13. ASSUME ~ crossed', NEW t \in SubId, stripe'[t].live, \A v \in Worker : ~ Changes(v, t)'
         PROVE  stripe'[t].paused <=> ClubHeld(t)'
    BY <1>2, <2>2, <2>13, <1>3, <2>4 DEF QInv
  <2> QED  BY <2>7, <2>8, <2>9, <2>10, <2>12, <2>13 DEF QInv, Club!Billable
<1> QED  BY <1>5, <1>6 DEF Club!PauseCallsStripe

(* The write: a change leaves the row held exactly when it left Stripe       *)
(* paused.                                                                   *)
LEMMA WriteQ == ASSUME ClubTInv, ClubTables, QInv, NEW w \in Worker, Club!PauseWrites(w) PROVE QInv'
<1>1. /\ \A t \in SubId : row[t] \in Club!Row /\ row \in [SubId -> Club!Row]
      /\ job \in [Worker -> Club!Job] /\ job[w] \in Club!Job /\ ClubJobOK(job[w])
  BY ClubTypesOf
<1>0. PICK j \in Club!Job, s \in SubId : j = job[w] /\ s = job[w].sub
  BY <1>1 DEF Club!PauseWrites, ClubJobOK, Club!Pausing
<1>2. /\ j.op \in Club!Pausing /\ j.step = "write" /\ Changes(w, s)
      /\ stripe' = stripe /\ crossed' = crossed /\ job' = [job EXCEPT ![w] = Club!Idle]
  BY <1>0, <1>1 DEF Club!PauseWrites, Changes, Club!Ends
<1>3. /\ \A t \in SubId : row'[t].status = row[t].status
      /\ \A t \in SubId \ {s} : row'[t] = row[t]
      /\ ~ crossed => (ClubHeld(s)' <=> Paused(j))
  <2>0. ~ crossed => j.seen.reasons = row[s].reasons /\ (j.seen.shopPaused <=> row[s].shopPaused)
    BY <1>0, <1>2 DEF QInv
  <2>1. ASSUME NEW x, row' = [row EXCEPT ![s] = x]
        PROVE  row'[s] = x /\ \A t \in SubId \ {s} : row'[t] = row[t]
    BY <1>1, <1>2, <2>1
  <2>2. CASE j.op = "hold"
    <3> DEFINE x == [row[s] EXCEPT !.reasons = row[s].reasons \cup {j.reason}]
    <3>1. row' = [row EXCEPT ![s] = x]
      BY <1>0, <2>2 DEF Club!PauseWrites
    <3>2. x.status = row[s].status /\ x.reasons # {}
      BY <1>1, <1>2 DEF Club!Row
    <3> HIDE DEF x
    <3> QED  BY <2>1, <2>2, <3>1, <3>2 DEF ClubHeld, Paused
  <2>3. CASE j.op = "release"
    <3> DEFINE x == [row[s] EXCEPT !.reasons = j.seen.reasons \ {j.reason}]
    <3>1. row' = [row EXCEPT ![s] = x]
      BY <1>0, <2>3 DEF Club!PauseWrites
    <3>2. /\ x.status = row[s].status /\ x.reasons = j.seen.reasons \ {j.reason}
          /\ (x.shopPaused <=> row[s].shopPaused)
      BY <1>1, <1>2 DEF Club!Row
    <3> HIDE DEF x
    <3> QED  BY <2>0, <2>1, <2>3, <3>1, <3>2 DEF ClubHeld, Paused, Club!HeldByOther
  <2>4. CASE j.op = "pause"
    <3> DEFINE x == [row[s] EXCEPT !.shopPaused = TRUE]
    <3>1. row' = [row EXCEPT ![s] = x]
      BY <1>0, <2>4 DEF Club!PauseWrites
    <3>2. x.status = row[s].status /\ x.shopPaused
      BY <1>1, <1>2 DEF Club!Row
    <3> HIDE DEF x
    <3> QED  BY <2>1, <2>4, <3>1, <3>2 DEF ClubHeld, Paused
  <2>5. CASE j.op = "resume"
    <3> DEFINE x == [row[s] EXCEPT !.shopPaused = FALSE]
    <3>1. row' = [row EXCEPT ![s] = x]
      BY <1>0, <2>5 DEF Club!PauseWrites
    <3>2. x.status = row[s].status /\ ~ x.shopPaused /\ x.reasons = row[s].reasons
      BY <1>1, <1>2 DEF Club!Row
    <3> HIDE DEF x
    <3> QED  BY <2>0, <2>1, <2>5, <3>1, <3>2 DEF ClubHeld, Paused, Club!HeldByOther
  <2> QED  BY <1>2, <2>2, <2>3, <2>4, <2>5 DEF Club!Pausing
<1>4. /\ \A v \in Worker : v # w => job'[v] = job[v]
      /\ \A t \in SubId : ~ Changes(w, t)'
  BY <1>1, <1>2 DEF Club!Idle, Changes, Club!Pausing
<1>5. \A v \in Worker, t \in SubId : v # w => (Changes(v, t)' <=> Changes(v, t))
  BY <1>4 DEF Changes, Club!Pausing
<1>6. \A v \in Worker : v # w => (Paused(job[v])' <=> Paused(job[v]))
  BY <1>4 DEF Paused, Club!HeldByOther
<1>7. \A t \in SubId : (ClubStarted(t)' <=> ClubStarted(t)) /\ (t # s => (ClubHeld(t)' <=> ClubHeld(t)))
  BY <1>3 DEF ClubStarted, ClubHeld
<1>8. ~ crossed => \A v \in Worker : v # w => ~ Changes(v, s)
  BY <1>2 DEF QInv
<1>9. \A t \in SubId : ClubStarted(t)' \/ (~ ClubHeld(t)' /\ ~ stripe'[t].paused)
  BY <1>2, <1>7 DEF QInv
<1>10. \A v \in Worker, t \in SubId : Changes(v, t)' =>
          ClubStarted(t)' /\ (job'[v].seen.status \in Club!Billable \/ row'[t].status = "CANCELED")
  BY <1>3, <1>4, <1>5, <1>7 DEF QInv
<1>11. ~ crossed' => \A u, v \in Worker, t \in SubId : Changes(u, t)' /\ Changes(v, t)' => u = v
  BY <1>2, <1>4, <1>5 DEF QInv
<1>12. ASSUME ~ crossed', NEW v \in Worker, NEW t \in SubId, Changes(v, t)'
       PROVE  /\ job'[v].seen.reasons = row'[t].reasons /\ (job'[v].seen.shopPaused <=> row'[t].shopPaused)
              /\ stripe'[t].live =>
                   (stripe'[t].paused <=> IF job'[v].step = "stripe" THEN ClubHeld(t)' ELSE Paused(job[v])')
  BY <1>2, <1>4, <1>5, <1>8, <1>12, <1>3, <1>6, <1>7 DEF QInv
<1>13. ASSUME ~ crossed', NEW t \in SubId, stripe'[t].live, \A v \in Worker : ~ Changes(v, t)'
       PROVE  stripe'[t].paused <=> ClubHeld(t)'
  BY <1>0, <1>2, <1>3, <1>13, <1>5, <1>7 DEF QInv, Changes
<1> QED  BY <1>9, <1>10, <1>11, <1>12, <1>13 DEF QInv, Club!Billable

LEMMA InitQ == ClubTables /\ Club!Init => QInv
<1> SUFFICES ASSUME ClubTables, Club!Init PROVE QInv
  OBVIOUS
<1>1. \A s \in SubId : row[s].reasons = {} /\ ~ row[s].shopPaused /\ ~ stripe[s].paused /\ ~ stripe[s].live
  BY DEF Club!Init
<1>2. \A w \in Worker, s \in SubId : ~ Changes(w, s)
  BY DEF Club!Init, Club!Idle, Changes, Club!Pausing
<1> QED  BY <1>1, <1>2 DEF QInv, ClubHeld

LEMMA NextQ == ClubTInv /\ ClubTables /\ KInv /\ LInv /\ QInv /\ [Club!Next]_(Club!vars) => QInv'
<1> SUFFICES ASSUME ClubTInv, ClubTables, KInv, LInv, QInv, [Club!Next]_(Club!vars) PROVE QInv'
  OBVIOUS
<1>1. CASE UNCHANGED Club!vars
  <2>1. UNCHANGED <<row, stripe, job, crossed>>
    BY <1>1 DEF Club!vars
  <2>2. \A s \in SubId : (ClubStarted(s)' <=> ClubStarted(s)) /\ (ClubHeld(s)' <=> ClubHeld(s))
    BY <2>1 DEF ClubStarted, ClubHeld
  <2>3. \A w \in Worker, s \in SubId : Changes(w, s)' <=> Changes(w, s)
    BY <2>1 DEF Changes, Club!Pausing
  <2>4. \A w \in Worker : Paused(job[w])' <=> Paused(job[w])
    BY <2>1 DEF Paused, Club!HeldByOther
  <2> QED  BY <2>1, <2>2, <2>3, <2>4 DEF QInv, Club!Billable
<1>2. ASSUME NEW w \in Worker, PauseStep(w) PROVE QInv'
  BY <1>2, ReadsQ, CallQ, WriteQ DEF PauseStep, Club!Pausing
<1>3. CASE Club!Next /\ \A w \in Worker : ~ PauseStep(w)
  BY <1>3, QuietQ
<1> QED  BY <1>1, <1>2, <1>3

(* While the changes of the pause do not overlap, a subscription that is    *)
(* being charged is paused at Stripe exactly while the shop, its network or *)
(* its owner holds it, whatever fails on the way (ClubBillingPauseService   *)
(* .apply calls Stripe first and writes the row after).                     *)
THEOREM ClubBillingPausedWhileHeld == ClubTables => (Club!Spec => []Club!PausedWhileHeld)
<1> SUFFICES ASSUME ClubTables PROVE Club!Spec => []Club!PausedWhileHeld
  OBVIOUS
<1> DEFINE I == ClubTInv /\ KInv /\ LInv /\ QInv
<1>1. Club!Init => I
  BY ClubInitT, InitK, InitL, InitQ
<1>2. I /\ [Club!Next]_(Club!vars) => I'
  BY ClubNextT, ClubNextK, ClubNextL, NextQ
<1>3. I => Club!PausedWhileHeld
  BY DEF QInv, Club!PausedWhileHeld, Changes, ClubHeld
<1> QED  BY <1>1, <1>2, <1>3, PTL DEF Club!Spec

----------------------------------------------------------------------------
(***************************************************************************)
(* Proofs about Payroll, for any number of requests, entries and payouts,  *)
(* any days, amounts and commissions.                                      *)
(*                                                                         *)
(* No day is paid twice because one request pays at a time and its period  *)
(* was checked under the lock (DInv).  A payout adds up because what it    *)
(* read waits, untouched, outside every payout until it is committed, and  *)
(* an entry in a payout changes only when the payout is undone (EInv).     *)
(***************************************************************************)

(* Days, amounts and what is earned on a day are natural numbers, and there *)
(* are finitely many entries.                                               *)
PayTables ==
    /\ IsFiniteSet(EntryId) /\ None \notin EntryId /\ None \notin PayoutId
    /\ Day \subseteq Nat /\ Amounts \subseteq Nat /\ FixedPerDay \in Nat
    /\ Types \subseteq Pay!EntryType
    /\ PayTypes \subseteq {"COMMISSION", "FIXED", "FIXED_PLUS_COMMISSION", "GREATER_OF"}
    /\ \A from, to \in Day : \A d \in from .. to : Commission[d] \in Nat

(* A request under way names rows that are there to name. *)
PayJobOK(j) ==
    /\ j.op = "pay" => j.from \in Day /\ j.to \in Day /\ j.from <= j.to
    /\ j.op = "undo" => j.payout \in PayoutId
    /\ j.op = "delete" => j.entry \in EntryId

PayTInv == Pay!TypeOK /\ \A w \in Worker : PayJobOK(PayJob[w])

Paying(w) == PayJob[w].op = "pay"

(* One request pays at a time, for a period no payout that stands touches,  *)
(* and payouts that stand do not touch each other.                          *)
DInv ==
    /\ \A v, w \in Worker : Paying(v) /\ Paying(w) => v = w
    /\ \A w \in Worker : Paying(w) => ~ Pay!Overlapping(PayJob[w].from, PayJob[w].to)
    /\ \A p, q \in Pay!Standing : p # q => payouts[p].to < payouts[q].from \/ payouts[q].to < payouts[p].from

PayHeld(p) == {e \in EntryId : entries[e].payout = p}
PayDue(p) == payouts[p].base + Pay!SumOf(PayHeld(p))

AddsUp(p) ==
    /\ payouts[p].total = Pay!MaxOf(PayDue(p), 0)
    /\ PayDue(p) < 0 => payouts[p].carry # None
    /\ payouts[p].carry # None /\ entries[payouts[p].carry].exists =>
          entries[payouts[p].carry].amount = -PayDue(p)

(* What a payout took waits outside every payout, worth what was read.      *)
TakenWaits(j) ==
    /\ \A e \in j.taken : entries[e].exists /\ entries[e].payout = None
    /\ j.sum = Pay!SumOf(j.taken)

(* Entries are in payouts that stand; a carried advance is never a row that *)
(* is free to use again.                                                    *)
EInv ==
    /\ \A e \in EntryId : entries[e].payout # None => entries[e].payout \in Pay!Standing
    /\ \A p \in PayoutId : payouts[p].carry # None => entries[payouts[p].carry].type = "ADVANCE"
    /\ ~ raced => \A w \in Worker : Paying(w) => TakenWaits(PayJob[w])
    /\ ~ raced => \A p \in Pay!Standing : AddsUp(p)

LEMMA PayTypesOf ==
    ASSUME PayTInv
    PROVE  /\ entries \in [EntryId -> Pay!Entry] /\ payouts \in [PayoutId -> Pay!Payout]
           /\ PayJob \in [Worker -> Pay!Job]
           /\ \A e \in EntryId : entries[e] \in Pay!Entry
           /\ \A p \in PayoutId : payouts[p] \in Pay!Payout
           /\ \A w \in Worker : PayJob[w] \in Pay!Job /\ PayJobOK(PayJob[w])
BY DEF PayTInv, Pay!TypeOK

LEMMA SumOfType == ASSUME PayTInv, PayTables, NEW es \in SUBSET EntryId PROVE Pay!SumOf(es) \in Int
<1> DEFINE f == [e \in es |-> Pay!Signed(e)]
<1>1. IsFiniteSet(es)
  BY FS_Subset DEF PayTables
<1>2. ASSUME NEW e \in es PROVE f[e] \in Int
  BY PayTypesOf DEF Pay!Signed, Pay!Entry
<1>3. SumFunctionOnSet(f, es) \in Int
  BY <1>1, <1>2, SumType
<1> QED  BY <1>3, PaySums DEF Pay!SumOf

(* A sum of entries keeps its value while they keep type and amount. *)
LEMMA SumOfSame ==
    ASSUME PayTables, NEW es \in SUBSET EntryId,
           \A e \in es : entries'[e].type = entries[e].type /\ entries'[e].amount = entries[e].amount
    PROVE  Pay!SumOf(es)' = Pay!SumOf(es)
<1> DEFINE f == [e \in es |-> Pay!Signed(e)]
           g == [e \in es |-> IF entries'[e].type \in {"TIP", "BONUS"} THEN entries'[e].amount
                              ELSE -entries'[e].amount]
<1>1. IsFiniteSet(es)
  BY FS_Subset DEF PayTables
<1>2. \A e \in es : f[e] = g[e]
  BY DEF Pay!Signed
<1>3. SumFunctionOnSet(f, es) = SumFunctionOnSet(g, es)
  BY <1>1, <1>2, SumSame
<1> QED  BY <1>3 DEF Pay!SumOf, Pay!Signed

LEMMA BaseType ==
    ASSUME PayTInv, PayTables, NEW from \in Day, NEW to \in Day, from <= to
    PROVE  Pay!BaseAmount(from, to) \in Nat
<1>1. IsFiniteSet(from .. to)
  BY FS_Interval DEF PayTables
<1>2. Pay!CommissionOf(from, to) \in Nat
  BY <1>1, SumNat, PaySums DEF Pay!CommissionOf, PayTables
<1>3. from \in Nat /\ to \in Nat /\ FixedPerDay \in Nat
  BY DEF PayTables
<1>4. to - from + 1 \in Nat
  BY <1>3
<1>5. FixedPerDay * (to - from + 1) \in Nat
  BY <1>3, <1>4
<1>6. payType \in {"COMMISSION", "FIXED", "FIXED_PLUS_COMMISSION", "GREATER_OF"}
  BY DEF PayTInv, Pay!TypeOK, PayTables
<1> QED  BY <1>2, <1>5, <1>6 DEF Pay!BaseAmount, Pay!MaxOf

(* What Pay(w) does, its choices named *)
PayFacts(w, p, c, base, total) ==
    LET j == PayJob[w] IN
    /\ j.op = "pay" /\ base = Pay!BaseAmount(j.from, j.to) /\ total = base + j.sum
    /\ (c = None /\ total >= 0) \/ (c \in EntryId /\ entries[c] = Pay!NoEntry /\ total < 0)
    /\ payouts[p] = Pay!NoPayout
    /\ payouts' = [payouts EXCEPT ![p] = [exists |-> TRUE, from |-> j.from, to |-> j.to, base |-> base,
                                          total |-> Pay!MaxOf(total, 0), carry |-> c]]
    /\ entries' = [e \in EntryId |->
                          IF e = c THEN [exists |-> TRUE, type |-> "ADVANCE", amount |-> -total,
                                         date |-> j.to + 1, payout |-> None]
                          ELSE IF e \in j.taken /\ entries[e].exists /\ entries[e].payout = None
                          THEN [entries[e] EXCEPT !.payout = p] ELSE entries[e]]
    /\ PayJob' = [PayJob EXCEPT ![w] = Pay!Idle]
    /\ UNCHANGED <<payType, raced>>

LEMMA PayDoes ==
    ASSUME PayTInv, PayTables, NEW w \in Worker, Pay!Pay(w)
    PROVE  \E p \in PayoutId, c \in EntryId \cup {None}, base \in Nat, total \in Int : PayFacts(w, p, c, base, total)
<1> DEFINE j == PayJob[w]
           base == Pay!BaseAmount(j.from, j.to)
           total == base + j.sum
           carry == Pay!CarryOf(total)
<1>1. j \in Pay!Job /\ PayJobOK(j) /\ j.op = "pay"
  BY PayTypesOf DEF Pay!Pay
<1>2. base \in Nat
  BY <1>1, BaseType DEF PayJobOK
<1>3. total \in Int
  BY <1>1, <1>2 DEF Pay!Job
<1>4. PICK p \in PayoutId, c \in IF carry > 0 THEN Pay!Unused ELSE {None} :
         /\ payouts[p] = Pay!NoPayout
         /\ payouts' = [payouts EXCEPT ![p] =
                          [exists |-> TRUE, from |-> j.from, to |-> j.to, base |-> base,
                           total |-> Pay!MaxOf(total, 0), carry |-> c]]
         /\ entries' = [e \in EntryId |->
                          IF e = c THEN [exists |-> TRUE, type |-> "ADVANCE", amount |-> carry,
                                         date |-> j.to + 1, payout |-> None]
                          ELSE IF e \in j.taken /\ entries[e].exists /\ entries[e].payout = None
                          THEN [entries[e] EXCEPT !.payout = p] ELSE entries[e]]
  BY DEF Pay!Pay
<1> HIDE DEF base, total
<1>5. /\ (c = None /\ total >= 0) \/ (c \in EntryId /\ entries[c] = Pay!NoEntry /\ total < 0)
      /\ total < 0 => carry = -total
  BY <1>3, <1>4 DEF Pay!CarryOf, Pay!MaxOf, Pay!Unused
<1>6. \A e \in EntryId : e = c => carry = -total
  BY <1>5 DEF PayTables
<1>7. entries' = [e \in EntryId |->
                          IF e = c THEN [exists |-> TRUE, type |-> "ADVANCE", amount |-> -total,
                                         date |-> j.to + 1, payout |-> None]
                          ELSE IF e \in j.taken /\ entries[e].exists /\ entries[e].payout = None
                          THEN [entries[e] EXCEPT !.payout = p] ELSE entries[e]]
  BY <1>4, <1>6
<1>8. PayJob' = [PayJob EXCEPT ![w] = Pay!Idle] /\ UNCHANGED <<payType, raced>>
  BY DEF Pay!Pay, Pay!Ends
<1>9. PayFacts(w, p, c, base, total)
  BY <1>1, <1>4, <1>5, <1>7, <1>8 DEF PayFacts, base, total
<1> QED  BY <1>2, <1>3, <1>5, <1>9

----------------------------------------------------------------------------
(* Types *)

LEMMA PayIdleOK == Pay!Idle \in Pay!Job /\ PayJobOK(Pay!Idle)
BY DEF Pay!Idle, Pay!Job, PayJobOK

LEMMA PayJobStep ==
    ASSUME PayTInv, NEW w \in Worker, NEW j \in Pay!Job, PayJobOK(j), PayJob' = [PayJob EXCEPT ![w] = j]
    PROVE  PayJob' \in [Worker -> Pay!Job] /\ \A v \in Worker : PayJobOK(PayJob'[v])
BY PayTypesOf

LEMMA PayReadsT ==
    ASSUME PayTInv, PayTables, NEW w \in Worker,
           \/ \E e \in EntryId : Pay!DeleteReads(w, e)
           \/ \E p \in PayoutId : Pay!UndoReads(w, p)
           \/ \E from, to \in Day : from <= to /\ Pay!PayComputes(w, from, to)
    PROVE  PayTInv'
<1> DEFINE Goal == PayJob' \in [Worker -> Pay!Job] /\ \A v \in Worker : PayJobOK(PayJob'[v])
<1>1. UNCHANGED <<payType, entries, payouts, raced>>
  BY DEF Pay!DeleteReads, Pay!UndoReads, Pay!PayComputes
<1>2. ASSUME NEW e \in EntryId, Pay!DeleteReads(w, e) PROVE Goal
  <2> DEFINE j == [Pay!Idle EXCEPT !.op = "delete", !.entry = e]
  <2>1. j \in Pay!Job /\ PayJobOK(j)
    BY PayIdleOK DEF Pay!Job, PayJobOK
  <2>2. PayJob' = [PayJob EXCEPT ![w] = j]
    BY <1>2, PayTypesOf DEF Pay!DeleteReads
  <2> QED  BY <2>1, <2>2, PayJobStep
<1>3. ASSUME NEW p \in PayoutId, Pay!UndoReads(w, p) PROVE Goal
  <2> DEFINE j == [Pay!Idle EXCEPT !.op = "undo", !.payout = p]
  <2>1. j \in Pay!Job /\ PayJobOK(j)
    BY PayIdleOK DEF Pay!Job, PayJobOK
  <2>2. PayJob' = [PayJob EXCEPT ![w] = j]
    BY <1>3, PayTypesOf DEF Pay!UndoReads
  <2> QED  BY <2>1, <2>2, PayJobStep
<1>4. ASSUME NEW from \in Day, NEW to \in Day, from <= to, Pay!PayComputes(w, from, to) PROVE Goal
  <2> DEFINE open == Pay!OpenUntil(to)
             j == [op |-> "pay", entry |-> None, payout |-> None, from |-> from, to |-> to,
                   taken |-> open, sum |-> Pay!SumOf(open)]
  <2>1. open \in SUBSET EntryId
    BY DEF Pay!OpenUntil
  <2>2. Pay!SumOf(open) \in Int
    BY <2>1, SumOfType
  <2>3. j \in Pay!Job /\ PayJobOK(j)
    BY <1>4, <2>1, <2>2 DEF Pay!Job, PayJobOK, PayTables
  <2>4. PayJob' = [PayJob EXCEPT ![w] = j]
    BY <1>4 DEF Pay!PayComputes
  <2> QED  BY <2>3, <2>4, PayJobStep
<1> QED  BY <1>1, <1>2, <1>3, <1>4 DEF PayTInv, Pay!TypeOK

LEMMA PayT == ASSUME PayTInv, PayTables, NEW w \in Worker, Pay!Pay(w) PROVE PayTInv'
<1>1. PICK p \in PayoutId, c \in EntryId \cup {None}, base \in Nat, total \in Int : PayFacts(w, p, c, base, total)
  BY PayDoes
<1>2. PICK j \in Pay!Job : j = PayJob[w] /\ PayJobOK(j) /\ j.op = "pay"
  BY <1>1, PayTypesOf DEF PayFacts
<1>3. j.from \in Nat /\ j.to \in Nat /\ Pay!MaxOf(total, 0) \in Nat
  BY <1>2 DEF Pay!Job, Pay!MaxOf
<1>4. payouts' \in [PayoutId -> Pay!Payout]
  BY <1>1, <1>2, <1>3, PayTypesOf DEF PayFacts, Pay!Payout
<1>5. entries' \in [EntryId -> Pay!Entry]
  BY <1>1, <1>2, <1>3, PayTypesOf DEF PayFacts, PayTables, Pay!Entry, Pay!EntryType
<1>6. PayJob' \in [Worker -> Pay!Job] /\ \A v \in Worker : PayJobOK(PayJob'[v])
  BY <1>1, PayIdleOK, PayJobStep DEF PayFacts
<1> QED  BY <1>1, <1>4, <1>5, <1>6 DEF PayFacts, PayTInv, Pay!TypeOK

LEMMA UndoT == ASSUME PayTInv, PayTables, NEW w \in Worker, Pay!UndoPayout(w) PROVE PayTInv'
<1>1. PICK p \in PayoutId : p = PayJob[w].payout
  BY PayTypesOf DEF Pay!UndoPayout, PayJobOK
<1>2. payouts' \in [PayoutId -> Pay!Payout]
  <2>1. [payouts[p] EXCEPT !.exists = FALSE] \in Pay!Payout
    BY PayTypesOf DEF Pay!Payout
  <2> QED  BY <1>1, <2>1, PayTypesOf DEF Pay!UndoPayout
<1>3. entries' \in [EntryId -> Pay!Entry]
  <2>1. \A e \in EntryId : /\ [entries[e] EXCEPT !.exists = FALSE, !.payout = None] \in Pay!Entry
                           /\ [entries[e] EXCEPT !.payout = None] \in Pay!Entry
    BY PayTypesOf DEF Pay!Entry
  <2> QED  BY <2>1, PayTypesOf, ZenonT(60) DEF Pay!UndoPayout
<1>4. PayJob' \in [Worker -> Pay!Job] /\ \A v \in Worker : PayJobOK(PayJob'[v])
  BY PayIdleOK, PayJobStep DEF Pay!UndoPayout, Pay!Ends
<1>5. raced' \in BOOLEAN
  BY DEF Pay!UndoPayout, PayTInv, Pay!TypeOK
<1> QED  BY <1>2, <1>3, <1>4, <1>5 DEF Pay!UndoPayout, PayTInv, Pay!TypeOK

LEMMA EntriesT ==
    ASSUME PayTInv, PayTables,
           \/ \E type \in PayTypes : Pay!SetConfig(type)
           \/ \E type \in Types, amount \in Amounts, day \in Day : Pay!AddEntry(type, amount, day)
           \/ \E w \in Worker : Pay!DeleteEntry(w)
    PROVE  PayTInv'
<1>1. ASSUME NEW type \in PayTypes, Pay!SetConfig(type) PROVE PayTInv'
  BY <1>1 DEF Pay!SetConfig, PayTInv, Pay!TypeOK
<1>2. ASSUME NEW type \in Types, NEW amount \in Amounts, NEW day \in Day, Pay!AddEntry(type, amount, day)
      PROVE  PayTInv'
  <2>1. [exists |-> TRUE, type |-> type, amount |-> amount, date |-> day, payout |-> None] \in Pay!Entry
    BY DEF Pay!Entry, PayTables
  <2>2. entries' \in [EntryId -> Pay!Entry]
    BY <1>2, <2>1, PayTypesOf DEF Pay!AddEntry
  <2> QED  BY <1>2, <2>2 DEF Pay!AddEntry, PayTInv, Pay!TypeOK
<1>3. ASSUME NEW w \in Worker, Pay!DeleteEntry(w) PROVE PayTInv'
  <2>1. PICK e \in EntryId : e = PayJob[w].entry
    BY <1>3, PayTypesOf DEF Pay!DeleteEntry, PayJobOK
  <2>2. [entries[e] EXCEPT !.exists = FALSE, !.payout = None] \in Pay!Entry
    BY PayTypesOf DEF Pay!Entry
  <2>3. entries' = [entries EXCEPT ![e] = [entries[e] EXCEPT !.exists = FALSE, !.payout = None]]
    BY <1>3, <2>1, PayTypesOf DEF Pay!DeleteEntry
  <2>4. entries' \in [EntryId -> Pay!Entry]
    BY <2>2, <2>3, PayTypesOf
  <2>5. PayJob' \in [Worker -> Pay!Job] /\ \A v \in Worker : PayJobOK(PayJob'[v])
    BY <1>3, PayIdleOK, PayJobStep DEF Pay!DeleteEntry, Pay!Ends
  <2>6. raced' \in BOOLEAN
    BY <1>3 DEF Pay!DeleteEntry, PayTInv, Pay!TypeOK
  <2> QED  BY <1>3, <2>4, <2>5, <2>6 DEF Pay!DeleteEntry, PayTInv, Pay!TypeOK
<1> QED  BY <1>1, <1>2, <1>3

LEMMA PayInitT == PayTables /\ Pay!Init => PayTInv
<1> SUFFICES ASSUME PayTables, Pay!Init PROVE PayTInv
  OBVIOUS
<1>1. Pay!NoEntry \in Pay!Entry /\ Pay!NoPayout \in Pay!Payout
  BY DEF Pay!NoEntry, Pay!NoPayout, Pay!Entry, Pay!Payout, Pay!EntryType
<1> QED  BY <1>1, PayIdleOK DEF Pay!Init, PayTInv, Pay!TypeOK

LEMMA PayNextT == PayTInv /\ PayTables /\ [Pay!Next]_(Pay!vars) => PayTInv'
<1> SUFFICES ASSUME PayTInv, PayTables, [Pay!Next]_(Pay!vars) PROVE PayTInv'
  OBVIOUS
<1>1. CASE UNCHANGED Pay!vars
  BY <1>1 DEF Pay!vars, PayTInv, Pay!TypeOK
<1>2. CASE Pay!Next
  BY <1>2, EntriesT, PayReadsT, PayT, UndoT DEF Pay!Next
<1> QED  BY <1>1, <1>2

(* Entries, payouts and requests keep their types: a payout is never below  *)
(* zero, whatever is deducted.                                              *)
THEOREM PayrollTypeOK == PayTables => (Pay!Spec => []Pay!TypeOK)
<1> SUFFICES ASSUME PayTables PROVE Pay!Spec => []Pay!TypeOK
  OBVIOUS
<1>1. Pay!Init => PayTInv
  BY PayInitT
<1>2. PayTInv /\ [Pay!Next]_(Pay!vars) => PayTInv'
  BY PayNextT
<1>3. PayTInv => Pay!TypeOK
  BY DEF PayTInv
<1> QED  BY <1>1, <1>2, <1>3, PTL DEF Pay!Spec

----------------------------------------------------------------------------
(* No day is paid twice *)

LEMMA InitD == PayTables /\ Pay!Init => DInv
BY DEF Pay!Init, DInv, Paying, Pay!Idle, Pay!Standing, Pay!NoPayout

(* Nothing but Pay adds a payout; nothing but PayComputes adds a payer. *)
LEMMA OthersD ==
    ASSUME PayTInv, PayTables, DInv,
           \A p \in Pay!Standing' : p \in Pay!Standing /\ payouts'[p].from = payouts[p].from /\ payouts'[p].to = payouts[p].to,
           \A w \in Worker : Paying(w)' => Paying(w) /\ PayJob'[w].from = PayJob[w].from /\ PayJob'[w].to = PayJob[w].to
    PROVE  DInv'
BY DEF DInv, Pay!Overlapping, Pay!Standing

LEMMA ComputesD ==
    ASSUME PayTInv, PayTables, DInv, NEW w \in Worker, NEW from \in Day, NEW to \in Day, Pay!PayComputes(w, from, to)
    PROVE  DInv'
BY PayTypesOf DEF Pay!PayComputes, Pay!Locked, Paying, Pay!Overlapping, DInv, Pay!Standing

LEMMA PayD == ASSUME PayTInv, PayTables, DInv, NEW w \in Worker, Pay!Pay(w) PROVE DInv'
<1>1. PICK p \in PayoutId, c \in EntryId \cup {None}, base \in Nat, total \in Int : PayFacts(w, p, c, base, total)
  BY PayDoes
<1>2. PICK j \in Pay!Job : j = PayJob[w] /\ j.op = "pay" /\ PayJobOK(j)
  BY <1>1, PayTypesOf DEF PayFacts
<1>3. /\ p \notin Pay!Standing /\ payouts'[p].from = j.from /\ payouts'[p].to = j.to
      /\ \A q \in PayoutId : q # p => payouts'[q] = payouts[q]
  BY <1>1, <1>2, PayTypesOf DEF PayFacts, Pay!NoPayout, Pay!Standing
<1>4. \A v \in Worker : ~ Paying(v)'
  BY <1>1, <1>2, PayTypesOf DEF PayFacts, Paying, Pay!Idle, DInv
<1>5. \A q \in Pay!Standing : payouts[q].to < j.from \/ j.to < payouts[q].from
  <2>1. ~ Pay!Overlapping(j.from, j.to)
    BY <1>2 DEF DInv, Paying
  <2>2. \A q \in Pay!Standing : ~ (payouts[q].from <= j.to /\ payouts[q].to >= j.from)
    BY <2>1 DEF Pay!Overlapping, Pay!Standing
  <2>3. \A q \in Pay!Standing : payouts[q].from \in Int /\ payouts[q].to \in Int /\ j.from \in Int /\ j.to \in Int
    BY PayTypesOf DEF Pay!Standing, Pay!Payout, Pay!Job
  <2> QED  BY <2>2, <2>3
<1>6. \A q, r \in Pay!Standing' : q # r => payouts'[q].to < payouts'[r].from \/ payouts'[r].to < payouts'[q].from
  BY <1>3, <1>5 DEF Pay!Standing, DInv
<1> QED  BY <1>4, <1>6 DEF DInv

LEMMA NextD == PayTInv /\ PayTables /\ DInv /\ [Pay!Next]_(Pay!vars) => DInv'
<1> SUFFICES ASSUME PayTInv, PayTables, DInv, [Pay!Next]_(Pay!vars) PROVE DInv'
  OBVIOUS
<1> DEFINE Less == \A p \in Pay!Standing' : /\ p \in Pay!Standing
                                            /\ payouts'[p].from = payouts[p].from /\ payouts'[p].to = payouts[p].to
           Fewer == \A w \in Worker : Paying(w)' => /\ Paying(w)
                                                    /\ PayJob'[w].from = PayJob[w].from /\ PayJob'[w].to = PayJob[w].to
<1>1. UNCHANGED payouts => Less
  BY DEF Pay!Standing
<1>2. UNCHANGED PayJob => Fewer
  BY DEF Paying
<1>3. ASSUME NEW w \in Worker, NEW x, x.op # "pay", PayJob' = [PayJob EXCEPT ![w] = x] PROVE Fewer
  BY <1>3, PayTypesOf DEF Paying
<1>4. Pay!Idle.op # "pay"
  BY DEF Pay!Idle
<1>5. ASSUME UNCHANGED Pay!vars PROVE DInv'
  BY <1>1, <1>2, <1>5, OthersD DEF Pay!vars
<1>6. ASSUME NEW type \in PayTypes, Pay!SetConfig(type) PROVE DInv'
  BY <1>1, <1>2, <1>6, OthersD DEF Pay!SetConfig
<1>7. ASSUME NEW type, NEW amount, NEW day, Pay!AddEntry(type, amount, day) PROVE DInv'
  BY <1>1, <1>2, <1>7, OthersD DEF Pay!AddEntry
<1>8. ASSUME NEW w \in Worker, Pay!DeleteEntry(w) PROVE DInv'
  BY <1>1, <1>3, <1>4, <1>8, OthersD DEF Pay!DeleteEntry, Pay!Ends
<1>9. ASSUME NEW w \in Worker, Pay!UndoPayout(w) PROVE DInv'
  <2>1. Fewer
    BY <1>3, <1>4, <1>9 DEF Pay!UndoPayout, Pay!Ends
  <2>2. PICK p \in PayoutId : p = PayJob[w].payout
    BY <1>9, PayTypesOf DEF Pay!UndoPayout, PayJobOK
  <2>3. payouts' = payouts \/ payouts' = [payouts EXCEPT ![p].exists = FALSE]
    BY <1>9, <2>2 DEF Pay!UndoPayout
  <2>4. \A q \in PayoutId : /\ payouts'[q].exists => payouts[q].exists
                            /\ payouts'[q].from = payouts[q].from /\ payouts'[q].to = payouts[q].to
    BY <2>3, PayTypesOf DEF Pay!Payout
  <2> QED  BY <2>1, <2>4, OthersD DEF Pay!Standing
<1>10. ASSUME NEW w \in Worker, NEW e \in EntryId, Pay!DeleteReads(w, e) PROVE DInv'
  BY <1>10, PayTypesOf, <1>1, OthersD DEF Pay!DeleteReads, Pay!Idle, Paying
<1>11. ASSUME NEW w \in Worker, NEW p \in PayoutId, Pay!UndoReads(w, p) PROVE DInv'
  BY <1>11, PayTypesOf, <1>1, OthersD DEF Pay!UndoReads, Pay!Idle, Paying
<1> QED  BY <1>5, <1>6, <1>7, <1>8, <1>9, <1>10, <1>11, ComputesD, PayD DEF Pay!Next

(* No day of a professional is paid by two payouts, however clicks, edits   *)
(* and undos overlap: one request at a time holds the lock of the           *)
(* professional, and it pays the period it found free under that lock       *)
(* (pg_advisory_xact_lock(4), overlapping).                                 *)
THEOREM PayrollDayPaidOnce == PayTables => (Pay!Spec => []Pay!DayPaidOnce)
<1> SUFFICES ASSUME PayTables PROVE Pay!Spec => []Pay!DayPaidOnce
  OBVIOUS
<1> DEFINE I == PayTInv /\ DInv
<1>1. Pay!Init => I
  BY PayInitT, InitD
<1>2. I /\ [Pay!Next]_(Pay!vars) => I'
  BY PayNextT, NextD
<1>3. I => Pay!DayPaidOnce
  <2> SUFFICES ASSUME I, NEW p \in Pay!Standing, NEW q \in Pay!Standing, p # q, NEW day \in Day,
                      Pay!Covers(p, day), Pay!Covers(q, day)
               PROVE  FALSE
    BY DEF Pay!DayPaidOnce
  <2>1. /\ payouts[p].from \in Nat /\ payouts[p].to \in Nat /\ payouts[q].from \in Nat
        /\ payouts[q].to \in Nat /\ day \in Nat
    BY PayTypesOf DEF Pay!Standing, Pay!Payout, PayTables
  <2> QED  BY <2>1 DEF DInv, Pay!Covers
<1> QED  BY <1>1, <1>2, <1>3, PTL DEF Pay!Spec

----------------------------------------------------------------------------
(* A payout is the sum of what it took *)

(* What a payout says stays true while the entries it holds keep type and   *)
(* amount, and the advance it carried keeps its amount or goes.             *)
LEMMA AddsUpKept ==
    ASSUME PayTInv, PayTables, NEW p \in PayoutId, AddsUp(p),
           payouts'[p] = payouts[p], PayHeld(p)' = PayHeld(p),
           \A e \in PayHeld(p) : entries'[e].type = entries[e].type /\ entries'[e].amount = entries[e].amount,
           LET c == payouts[p].carry IN
           c # None /\ entries'[c].exists => entries[c].exists /\ entries'[c].amount = entries[c].amount
    PROVE  AddsUp(p)'
<1>1. PICK es \in SUBSET EntryId : es = PayHeld(p)
  BY DEF PayHeld
<1>2. Pay!SumOf(es)' = Pay!SumOf(es)
  BY <1>1, SumOfSame
<1>3. PayDue(p) = payouts[p].base + Pay!SumOf(es)
  BY <1>1 DEF PayDue
<1>4. PayDue(p)' = payouts'[p].base + Pay!SumOf(es)'
  BY <1>1 DEF PayDue
<1>5. PayDue(p)' = PayDue(p)
  BY <1>2, <1>3, <1>4
<1> QED  BY <1>5 DEF AddsUp, Pay!MaxOf

LEMMA TakenKept ==
    ASSUME PayTInv, PayTables, NEW w \in Worker, Paying(w), TakenWaits(PayJob[w]), PayJob'[w] = PayJob[w],
           \A e \in PayJob[w].taken : entries'[e] = entries[e]
    PROVE  TakenWaits(PayJob[w])'
<1>1. PICK es \in SUBSET EntryId : es = PayJob[w].taken
  BY PayTypesOf DEF Pay!Job
<1>2. Pay!SumOf(es)' = Pay!SumOf(es)
  BY <1>1, SumOfSame
<1>3. PayJob'[w].sum = Pay!SumOf(es)'
  BY <1>1, <1>2 DEF TakenWaits
<1>4. \A e \in es : entries'[e].exists /\ entries'[e].payout = None
  BY <1>1 DEF TakenWaits
<1> QED  BY <1>1, <1>3, <1>4 DEF TakenWaits

LEMMA ComputesE ==
    ASSUME PayTInv, PayTables, EInv, NEW w \in Worker, NEW from \in Day, NEW to \in Day, Pay!PayComputes(w, from, to)
    PROVE  EInv'
<1>1. UNCHANGED <<payType, entries, payouts, raced>> /\ \A v \in Worker : v # w => PayJob'[v] = PayJob[v]
  BY PayTypesOf DEF Pay!PayComputes
<1>2. TakenWaits(PayJob[w])'
  <2>1. PICK es \in SUBSET EntryId : es = Pay!OpenUntil(to)
    BY DEF Pay!OpenUntil
  <2>2. PayJob'[w].taken = es /\ PayJob'[w].sum = Pay!SumOf(es)
    BY <2>1, PayTypesOf DEF Pay!PayComputes
  <2>3. Pay!SumOf(es)' = Pay!SumOf(es)
    BY <1>1, SumOfSame
  <2>4. \A e \in es : entries'[e].exists /\ entries'[e].payout = None
    BY <1>1, <2>1 DEF Pay!OpenUntil
  <2> QED  BY <2>2, <2>3, <2>4 DEF TakenWaits
<1>3. ASSUME ~ raced, NEW v \in Worker, Paying(v)' PROVE TakenWaits(PayJob[v])'
  BY <1>2, <1>1, <1>3, TakenKept DEF EInv, Paying
<1>4. ASSUME ~ raced, NEW p \in Pay!Standing PROVE AddsUp(p)'
  BY <1>1, <1>4, AddsUpKept DEF PayHeld, EInv, Pay!Standing
<1>5. Pay!Standing' = Pay!Standing
  BY <1>1 DEF Pay!Standing
<1> QED  BY <1>1, <1>3, <1>4, <1>5 DEF EInv

(* The requests that only read, or only change the way of paying *)
LEMMA ReadsE ==
    ASSUME PayTInv, PayTables, EInv, UNCHANGED <<entries, payouts, raced>>,
           \A w \in Worker : Paying(w)' => Paying(w) /\ PayJob'[w] = PayJob[w]
    PROVE  EInv'
BY TakenKept, AddsUpKept DEF EInv, PayHeld, Pay!Standing

LEMMA AddE ==
    ASSUME PayTInv, PayTables, EInv, NEW type, NEW amount, NEW day, Pay!AddEntry(type, amount, day)
    PROVE  EInv'
<1>1. PICK e \in EntryId :
         /\ entries[e] = Pay!NoEntry
         /\ entries' = [entries EXCEPT ![e] = [exists |-> TRUE, type |-> type, amount |-> amount,
                                               date |-> day, payout |-> None]]
  BY DEF Pay!AddEntry, Pay!Unused
<1>2. UNCHANGED <<payouts, PayJob, raced>>
  BY DEF Pay!AddEntry
<1>3. /\ ~ entries[e].exists /\ entries[e].payout = None /\ entries[e].type # "ADVANCE"
      /\ entries'[e].payout = None
      /\ \A x \in EntryId : x # e => entries'[x] = entries[x]
  BY <1>1, PayTypesOf DEF Pay!NoEntry
<1>4. \A p \in PayoutId : payouts[p].carry # e /\ payouts[p].carry \in EntryId \cup {None}
  BY <1>3, PayTypesOf DEF EInv, Pay!Payout, PayTables
<1>5. ASSUME ~ raced, NEW v \in Worker, Paying(v) PROVE TakenWaits(PayJob[v])'
  BY <1>5, PayTypesOf, <1>3, <1>2, TakenKept DEF EInv, Pay!Job, TakenWaits
<1>6. ASSUME ~ raced, NEW p \in Pay!Standing PROVE AddsUp(p)'
  BY <1>6, <1>3, <1>4, <1>2, AddsUpKept DEF EInv, Pay!Standing, PayTables, PayHeld
<1>7. \A x \in EntryId : entries'[x].payout # None => entries'[x].payout \in Pay!Standing
  BY <1>3 DEF EInv
<1>8. \A p \in PayoutId : payouts[p].carry # None => entries'[payouts[p].carry].type = "ADVANCE"
  BY <1>3, <1>4 DEF EInv
<1>9. Pay!Standing' = Pay!Standing
  BY <1>2 DEF Pay!Standing
<1> QED  BY <1>2, <1>5, <1>6, <1>7, <1>8, <1>9 DEF EInv, Paying

LEMMA DeleteE == ASSUME PayTInv, PayTables, EInv, NEW w \in Worker, Pay!DeleteEntry(w) PROVE EInv'
<1>1. PICK e \in EntryId : e = PayJob[w].entry /\ ~ Paying(w)
  BY PayTypesOf DEF Pay!DeleteEntry, PayJobOK, Paying
<1>2. /\ payouts' = payouts /\ PayJob' = [PayJob EXCEPT ![w] = Pay!Idle]
      /\ raced' = (raced \/ entries[e].payout # None \/ \E v \in Worker : e \in PayJob[v].taken)
      /\ entries' = [entries EXCEPT ![e].exists = FALSE, ![e].payout = None]
  BY <1>1 DEF Pay!DeleteEntry, Pay!Ends
<1>3. /\ \A x \in EntryId : x # e => entries'[x] = entries[x]
      /\ entries'[e].type = entries[e].type /\ entries'[e].amount = entries[e].amount
      /\ ~ entries'[e].exists /\ entries'[e].payout = None
  BY <1>2, PayTypesOf DEF Pay!Entry
<1>4. \A v \in Worker : Paying(v)' => Paying(v) /\ PayJob'[v] = PayJob[v]
  BY <1>2, PayTypesOf DEF Paying, Pay!Idle
<1>5. ASSUME ~ raced', NEW v \in Worker, Paying(v)' PROVE TakenWaits(PayJob[v])'
  <2>1. ~ raced /\ e \notin PayJob[v].taken /\ PayJob[v].taken \subseteq EntryId
    BY <1>2, <1>5, PayTypesOf DEF Pay!Job
  <2> QED  BY <1>3, <1>4, <1>5, <2>1, TakenKept DEF EInv
<1>6. ASSUME ~ raced', NEW p \in Pay!Standing PROVE AddsUp(p)'
  BY <1>2, <1>6, <1>3, PayTypesOf, AddsUpKept
     DEF EInv, Pay!Standing, PayTables, PayHeld, Pay!Payout
<1>7. \A x \in EntryId : entries'[x].payout # None => entries'[x].payout \in Pay!Standing
  BY <1>3 DEF EInv
<1>8. \A p \in PayoutId : payouts[p].carry # None => entries'[payouts[p].carry].type = "ADVANCE"
  BY <1>3, PayTypesOf DEF EInv, Pay!Payout
<1>9. Pay!Standing' = Pay!Standing
  BY <1>2 DEF Pay!Standing
<1> QED  BY <1>2, <1>5, <1>6, <1>7, <1>8, <1>9 DEF EInv

LEMMA PayE == ASSUME PayTInv, PayTables, DInv, EInv, NEW w \in Worker, Pay!Pay(w) PROVE EInv'
<1>1. PICK p \in PayoutId, c \in EntryId \cup {None}, base \in Nat, total \in Int : PayFacts(w, p, c, base, total)
  BY PayDoes
<1>2. PICK j \in Pay!Job, es \in SUBSET EntryId : j = PayJob[w] /\ Paying(w) /\ es = j.taken
  BY <1>1, PayTypesOf DEF PayFacts, Paying, Pay!Job
<1>3. /\ p \notin Pay!Standing /\ p # None /\ raced' = raced
      /\ payouts'[p].exists /\ payouts'[p].base = base /\ payouts'[p].total = Pay!MaxOf(total, 0)
      /\ payouts'[p].carry = c /\ \A q \in PayoutId : q # p => payouts'[q] = payouts[q]
      /\ (c = None /\ total >= 0) \/ (c \in EntryId /\ entries[c] = Pay!NoEntry /\ total < 0)
      /\ total = base + j.sum
  BY <1>1, <1>2, PayTypesOf DEF PayFacts, Pay!NoPayout, Pay!Standing, PayTables
<1>4. /\ c \in EntryId => /\ entries'[c].exists /\ entries'[c].type = "ADVANCE"
                          /\ entries'[c].amount = -total /\ entries'[c].payout = None
      /\ \A x \in EntryId \ {c} : x \in es /\ entries[x].exists /\ entries[x].payout = None
                                  => entries'[x] = [entries[x] EXCEPT !.payout = p]
      /\ \A x \in EntryId \ {c} : ~ (x \in es /\ entries[x].exists /\ entries[x].payout = None)
                                  => entries'[x] = entries[x]
  BY <1>1, <1>2 DEF PayFacts
<1>5. \A x \in EntryId \ {c} : /\ entries'[x].type = entries[x].type /\ entries'[x].amount = entries[x].amount
                               /\ entries'[x].exists = entries[x].exists
                               /\ entries'[x].payout = IF x \in es /\ entries[x].exists /\ entries[x].payout = None
                                                       THEN p ELSE entries[x].payout
  <2>1. \A x \in EntryId : /\ [entries[x] EXCEPT !.payout = p].type = entries[x].type
                           /\ [entries[x] EXCEPT !.payout = p].amount = entries[x].amount
                           /\ [entries[x] EXCEPT !.payout = p].exists = entries[x].exists
                           /\ [entries[x] EXCEPT !.payout = p].payout = p
    BY PayTypesOf DEF Pay!Entry
  <2> QED  BY <1>4, <2>1, ZenonT(60)
<1>6. c \in EntryId => ~ entries[c].exists /\ entries[c].type # "ADVANCE" /\ entries[c].payout = None
  BY <1>3 DEF Pay!NoEntry, PayTables
<1>7. Pay!Standing' = Pay!Standing \cup {p}
  BY <1>3 DEF Pay!Standing
<1>8. \A v \in Worker : ~ Paying(v)'
  BY <1>1, <1>2, PayTypesOf DEF PayFacts, Paying, Pay!Idle, DInv
<1>9. \A x \in EntryId : entries'[x].payout # None => entries'[x].payout \in Pay!Standing'
  BY <1>4, <1>5, <1>7 DEF EInv
<1>10. ASSUME NEW q \in PayoutId, payouts'[q].carry # None PROVE entries'[payouts'[q].carry].type = "ADVANCE"
  BY <1>3, <1>4, <1>10, PayTypesOf, <1>5, <1>6 DEF EInv, Pay!Payout
<1>11. ASSUME ~ raced, NEW q \in Pay!Standing PROVE AddsUp(q)'
  BY <1>3, <1>11, <1>4, <1>5, <1>6, PayTypesOf, AddsUpKept
     DEF EInv, Pay!Standing, PayTables, PayHeld, Pay!Payout
<1>12. ASSUME ~ raced PROVE AddsUp(p)'
  <2>1. /\ \A x \in es : entries[x].exists /\ entries[x].payout = None
        /\ j.sum = Pay!SumOf(es)
    BY <1>2, <1>12 DEF EInv, TakenWaits
  <2>2. c \notin es
    BY <1>6, <2>1
  <2>3. \A x \in EntryId : entries[x].payout # p
    BY <1>3 DEF EInv
  <2>4. PayHeld(p)' = es
    BY <1>5, <2>1, <2>2, <1>3, <1>4, <2>3 DEF PayHeld
  <2>5. Pay!SumOf(es)' = Pay!SumOf(es)
    BY <1>5, <2>2, SumOfSame
  <2>6. PayDue(p)' = payouts'[p].base + Pay!SumOf(es)'
    BY <2>4 DEF PayDue
  <2>7. PayDue(p)' = total
    BY <1>3, <2>1, <2>5, <2>6
  <2>8. payouts'[p].total = Pay!MaxOf(PayDue(p), 0)'
    BY <1>3, <2>7 DEF Pay!MaxOf
  <2>9. (PayDue(p) < 0)' => payouts'[p].carry # None
    BY <1>3, <2>7 DEF PayTables
  <2>10. payouts'[p].carry # None => entries'[payouts'[p].carry].amount = -total
    BY <1>3, <1>4
  <2> QED  BY <2>7, <2>8, <2>9, <2>10 DEF AddsUp
<1> QED  BY <1>3, <1>7, <1>8, <1>9, <1>10, <1>11, <1>12 DEF EInv

LEMMA UndoE == ASSUME PayTInv, PayTables, EInv, NEW w \in Worker, Pay!UndoPayout(w) PROVE EInv'
<1>1. PICK p \in PayoutId, c \in EntryId \cup {None} : p = PayJob[w].payout /\ c = payouts[p].carry
  BY PayTypesOf DEF Pay!UndoPayout, PayJobOK, Pay!Payout
<1>2. \A v \in Worker : Paying(v)' => Paying(v) /\ PayJob'[v] = PayJob[v]
  BY PayTypesOf DEF Pay!UndoPayout, Pay!Ends, Paying, Pay!Idle
<1>3. CASE UNCHANGED <<payouts, entries, raced>>
  BY <1>2, <1>3, ReadsE
<1>4. CASE /\ payouts[p].exists /\ payouts' = [payouts EXCEPT ![p].exists = FALSE]
           /\ entries' = [e \in EntryId |->
                           IF e = c THEN [entries[e] EXCEPT !.exists = FALSE, !.payout = None]
                           ELSE IF entries[e].payout = p THEN [entries[e] EXCEPT !.payout = None]
                           ELSE entries[e]]
           /\ raced' = (raced \/ (c # None /\ (\/ entries[c].payout # None
                                               \/ \E v \in Worker : c \in PayJob[v].taken)))
  <2>1. \A x \in EntryId :
          /\ entries'[x].type = entries[x].type /\ entries'[x].amount = entries[x].amount
          /\ entries'[x].exists => entries[x].exists
          /\ x = c \/ entries[x].payout = p => entries'[x].payout = None
          /\ x # c /\ entries[x].payout # p => entries'[x] = entries[x]
    BY PayTypesOf, <1>4 DEF Pay!Entry
  <2>2. /\ \A q \in PayoutId : q # p => payouts'[q] = payouts[q]
        /\ ~ payouts'[p].exists /\ payouts'[p].carry = c
    BY <1>1, <1>4, PayTypesOf DEF Pay!Payout
  <2>3. Pay!Standing' = Pay!Standing \ {p}
    BY <2>2 DEF Pay!Standing
  <2>4. \A x \in EntryId : entries'[x].payout # None => entries'[x].payout \in Pay!Standing'
    BY <2>1, <2>3 DEF EInv
  <2>5. \A q \in PayoutId : payouts'[q].carry # None => entries'[payouts'[q].carry].type = "ADVANCE"
    BY <1>1, <2>2, PayTypesOf, <2>1 DEF Pay!Payout, EInv
  <2>6. ~ raced' => ~ raced /\ (c \in EntryId => /\ entries[c].payout = None
                                                 /\ \A v \in Worker : c \notin PayJob[v].taken)
    BY <1>4 DEF PayTables
  <2>7. ASSUME ~ raced', NEW v \in Worker, Paying(v)' PROVE TakenWaits(PayJob[v])'
    BY <1>2, <2>6, <2>7, PayTypesOf, <2>1, TakenKept
       DEF EInv, Pay!Job, TakenWaits, PayTables
  <2>8. ASSUME ~ raced', NEW q \in Pay!Standing' PROVE AddsUp(q)'
    BY <2>2, <2>3, <2>6, <2>8, <2>1, PayTypesOf, AddsUpKept
       DEF EInv, Pay!Standing, PayTables, PayHeld, Pay!Payout
  <2> QED  BY <2>4, <2>5, <2>7, <2>8 DEF EInv
<1> QED  BY <1>1, <1>3, <1>4 DEF Pay!UndoPayout

LEMMA InitE == PayTables /\ Pay!Init => EInv
<1> SUFFICES ASSUME PayTables, Pay!Init PROVE EInv
  OBVIOUS
<1>1. /\ \A e \in EntryId : entries[e].payout = None
      /\ \A p \in PayoutId : ~ payouts[p].exists /\ payouts[p].carry = None
      /\ \A w \in Worker : ~ Paying(w)
  BY DEF Pay!Init, Pay!NoEntry, Pay!NoPayout, Pay!Idle, Paying
<1> QED  BY <1>1 DEF EInv, Pay!Standing

LEMMA NextE == PayTInv /\ PayTables /\ DInv /\ EInv /\ [Pay!Next]_(Pay!vars) => EInv'
<1> SUFFICES ASSUME PayTInv, PayTables, DInv, EInv, [Pay!Next]_(Pay!vars) PROVE EInv'
  OBVIOUS
<1>1. ASSUME UNCHANGED PayJob, UNCHANGED <<entries, payouts, raced>> PROVE EInv'
  BY <1>1, ReadsE DEF Paying
<1>2. ASSUME UNCHANGED Pay!vars PROVE EInv'
  BY <1>1, <1>2 DEF Pay!vars
<1>3. ASSUME NEW type \in PayTypes, Pay!SetConfig(type) PROVE EInv'
  BY <1>1, <1>3 DEF Pay!SetConfig
<1>4. ASSUME NEW w \in Worker, NEW e \in EntryId, Pay!DeleteReads(w, e) PROVE EInv'
  BY <1>4, PayTypesOf, ReadsE DEF Pay!DeleteReads, Pay!Idle, Paying
<1>5. ASSUME NEW w \in Worker, NEW p \in PayoutId, Pay!UndoReads(w, p) PROVE EInv'
  BY <1>5, PayTypesOf, ReadsE DEF Pay!UndoReads, Pay!Idle, Paying
<1> QED  BY <1>2, <1>3, <1>4, <1>5, AddE, DeleteE, ComputesE, PayE, UndoE
            DEF Pay!Next

(* While no entry is deleted behind a payout that took it, what a payout    *)
(* paid is its base plus the entries it holds, never below zero, and the    *)
(* advance it carries over is what was missing (pay, undoPayout).  The      *)
(* condition is needed: deleteEntry and undoPayout take no lock.            *)
THEOREM PayrollAddsUp == PayTables => (Pay!Spec => []Pay!PayoutAddsUp)
<1> SUFFICES ASSUME PayTables PROVE Pay!Spec => []Pay!PayoutAddsUp
  OBVIOUS
<1> DEFINE I == PayTInv /\ DInv /\ EInv
<1>1. Pay!Init => I
  BY PayInitT, InitD, InitE
<1>2. I /\ [Pay!Next]_(Pay!vars) => I'
  BY PayNextT, NextD, NextE
<1>3. I => Pay!PayoutAddsUp
  BY DEF EInv, AddsUp, PayDue, PayHeld, Pay!PayoutAddsUp
<1> QED  BY <1>1, <1>2, <1>3, PTL DEF Pay!Spec

----------------------------------------------------------------------------
(***************************************************************************)
(* Proofs about SessionsSold, for any number of requests and uses: the     *)
(* sessions of a package and of a cycle of the club are given once.        *)
(*                                                                         *)
(* The counter of a package is the number of the uses that stand because,  *)
(* while no two undos work on one use, every running undo names a use of   *)
(* its own that still stands (PInv).  The counter of the club is the       *)
(* number of the uses of the cycle because a use is never created before   *)
(* the cycle it belongs to (CInv), so that a deleted sale of the current   *)
(* cycle is recognised.                                                    *)
(***************************************************************************)

(* Finitely many requests and uses; a package has a session.                *)
OfPackage ==
    /\ Part = "package"
    /\ IsFiniteSet(Worker) /\ IsFiniteSet(UseId) /\ None \notin UseId
    /\ TotalSessions \in Nat \ {0}

(* Finitely many uses, a limit of sessions, a cycle at least. *)
OfClub ==
    /\ Part = "club"
    /\ IsFiniteSet(UseId) /\ Limit \in Nat /\ LastCycle \in Nat \ {0}

(* Two sets that differ in one element at most. *)
LEMMA OneDiffers ==
    ASSUME NEW S, IsFiniteSet(S), NEW A \in SUBSET S, NEW B \in SUBSET S, NEW x \in S,
           \A y \in S : y # x => (y \in A <=> y \in B)
    PROVE  /\ Cardinality(A) \in Nat /\ Cardinality(B) \in Nat
           /\ (x \in A <=> x \in B) => Cardinality(B) = Cardinality(A)
           /\ x \notin A /\ x \in B => Cardinality(B) = Cardinality(A) + 1
           /\ x \in A /\ x \notin B => Cardinality(B) = Cardinality(A) - 1
BY FS_Subset, FS_CardinalityType, FS_AddElement

----------------------------------------------------------------------------
(* The package *)

Undoing == {"undo", "mark"}

PTypes ==
    /\ Sess!PackageTypeOK
    /\ \A w \in Worker : job[w].use \in UseId <=> job[w].op \in Undoing
    /\ pkg.status = "none" => pkg.used = 0 /\ pkg.total = TotalSessions
    /\ pkg.refunded => pkg.status = "COMPLETED"

Apart ==
    ~ overlap =>
        /\ \A w \in Worker : job[w].op \in Undoing =>
             uses[job[w].use] = [state |-> "standing", inSale |-> FALSE]
        /\ \A v, w \in Worker :
             job[v].op \in Undoing /\ job[w].op \in Undoing /\ job[v].use = job[w].use => v = w

PInv == PTypes /\ Sess!SessionsWithinTotal /\ Apart /\ Sess!SessionsAccounted

LEMMA InitP == OfPackage /\ Sess!Init => PInv
<1> SUFFICES ASSUME OfPackage, Sess!Init PROVE PInv
  OBVIOUS
<1>1. Sess!PackageInit
  BY DEF OfPackage, Sess!Init
<1>2. /\ pkg.status = "none" /\ pkg.used = 0 /\ pkg.total = TotalSessions /\ pkg.refunded = FALSE
      /\ pkg \in Sess!Package
  BY <1>1 DEF Sess!PackageInit, Sess!Package, OfPackage
<1>3. uses \in [UseId -> Sess!PackageUse] /\ \A u \in UseId : uses[u].state = "absent"
  BY <1>1 DEF Sess!PackageInit, Sess!PackageUse
<1>4. /\ job \in [Worker -> Sess!PackageJob]
      /\ \A w \in Worker : job[w].op = "idle" /\ job[w].use = None
  BY <1>1 DEF Sess!PackageInit, Sess!PackageIdle, Sess!PackageJob
<1>5. PTypes
  BY <1>1, <1>2, <1>3, <1>4
     DEF PTypes, Sess!PackageTypeOK, Sess!PackageInit, OfPackage, Undoing
<1>6. {u \in UseId : uses[u].state = "standing"} = {} /\ \A op \in {"record", "mark"} :
        {w \in Worker : job[w].op = op} = {}
  BY <1>3, <1>4
<1>7. Sess!SessionsAccounted
  <2>1. /\ Cardinality({u \in UseId : uses[u].state = "standing"}) = 0
        /\ Sess!InFlight("record") = 0 /\ Sess!InFlight("mark") = 0
    BY SessCounts, <1>6, FS_EmptySet DEF Sess!InFlight
  <2>2. lost = 0 /\ kept = 0
    BY <1>1 DEF Sess!PackageInit
  <2> QED  BY SessCounts, <1>2, <2>1, <2>2 DEF Sess!SessionsAccounted
<1> QED  BY <1>2, <1>4, <1>5, <1>7 DEF PInv, Sess!SessionsWithinTotal, Apart, Undoing

(* What one request does to the counts *)
LEMMA Counted ==
    ASSUME OfPackage, job \in [Worker -> Sess!PackageJob], NEW w \in Worker, NEW op,
           NEW j, job' = [job EXCEPT ![w] = j]
    PROVE  /\ Sess!InFlight(op) \in Nat /\ Sess!InFlight(op)' \in Nat
           /\ (job[w].op = op <=> j.op = op) => Sess!InFlight(op)' = Sess!InFlight(op)
           /\ job[w].op # op /\ j.op = op => Sess!InFlight(op)' = Sess!InFlight(op) + 1
           /\ job[w].op = op /\ j.op # op => Sess!InFlight(op)' = Sess!InFlight(op) - 1
<1> DEFINE A == {v \in Worker : job[v].op = op}
<1>1. PICK B : B = {v \in Worker : job'[v].op = op}
  OBVIOUS
<1>2. \A v \in Worker : v # w => (v \in A <=> v \in B)
  BY <1>1
<1>3. (w \in A <=> job[w].op = op) /\ (w \in B <=> j.op = op)
  BY <1>1
<1>4. A \in SUBSET Worker /\ B \in SUBSET Worker /\ IsFiniteSet(Worker)
  BY <1>1 DEF OfPackage
<1>5. Sess!InFlight(op) = Cardinality(A) /\ Sess!InFlight(op)' = Cardinality(B)
  BY SessCounts, <1>1 DEF Sess!InFlight
<1> HIDE DEF A
<1> QED  BY <1>2, <1>3, <1>4, <1>5, OneDiffers

Standings == Cardinality({u \in UseId : uses[u].state = "standing"})

LEMMA StandingsCounted ==
    ASSUME OfPackage, uses \in [UseId -> Sess!PackageUse], NEW u \in UseId,
           NEW r, uses' = [uses EXCEPT ![u] = r]
    PROVE  /\ Standings \in Nat /\ Standings' \in Nat
           /\ uses[u].state # "standing" /\ r.state = "standing" => Standings' = Standings + 1
           /\ uses[u].state = "standing" /\ r.state # "standing" => Standings' = Standings - 1
<1> DEFINE A == {v \in UseId : uses[v].state = "standing"}
<1>1. PICK B : B = {v \in UseId : uses'[v].state = "standing"}
  OBVIOUS
<1>2. \A v \in UseId : v # u => (v \in A <=> v \in B)
  BY <1>1
<1>3. (u \in A <=> uses[u].state = "standing") /\ (u \in B <=> r.state = "standing")
  BY <1>1
<1>4. A \in SUBSET UseId /\ B \in SUBSET UseId /\ IsFiniteSet(UseId)
  BY <1>1 DEF OfPackage
<1>5. Standings = Cardinality(A) /\ Standings' = Cardinality(B)
  BY <1>1 DEF Standings
<1> HIDE DEF A
<1> QED  BY <1>2, <1>3, <1>4, <1>5, OneDiffers

(* The two conditional updates keep the row well formed. *)
PkgOK ==
    /\ pkg \in Sess!Package
    /\ pkg.status = "none" => pkg.used = 0 /\ pkg.total = TotalSessions
    /\ pkg.refunded => pkg.status = "COMPLETED"
    /\ Sess!SessionsWithinTotal

LEMMA DebitKeeps ==
    ASSUME PkgOK, Sess!CanDebit, pkg' = Sess!Debited
    PROVE  PkgOK' /\ pkg'.used = pkg.used + 1
<1>1. /\ pkg \in Sess!Package /\ pkg.used \in Nat /\ pkg.total \in Nat /\ pkg.used < pkg.total
      /\ pkg.status = "ACTIVE" /\ ~ pkg.refunded
  BY DEF PkgOK, Sess!CanDebit, Sess!Usable, Sess!Package
<1>2. /\ pkg' \in Sess!Package /\ pkg'.used = pkg.used + 1 /\ pkg'.total = pkg.total
      /\ pkg'.status = IF pkg.used + 1 >= pkg.total THEN "COMPLETED" ELSE "ACTIVE"
      /\ ~ pkg'.refunded
  <2>1. PICK n \in Nat, s \in {"ACTIVE", "COMPLETED"} :
          /\ n = pkg.used + 1
          /\ s = IF pkg.used + 1 >= pkg.total THEN "COMPLETED" ELSE "ACTIVE"
    BY <1>1
  <2>2. pkg' = [pkg EXCEPT !.used = n, !.status = s]
    BY <2>1 DEF Sess!Debited
  <2>3. /\ pkg' \in Sess!Package /\ pkg'.used = n /\ pkg'.status = s /\ pkg'.total = pkg.total
        /\ pkg'.refunded => pkg.refunded
    BY <1>1, <2>1, <2>2 DEF Sess!Package
  <2> QED  BY <1>1, <2>1, <2>3
<1> QED  BY <1>1, <1>2 DEF PkgOK, Sess!SessionsWithinTotal

LEMMA RestoreKeeps ==
    ASSUME PkgOK, Sess!CanRestore, pkg' = Sess!Restored(1)
    PROVE  PkgOK' /\ pkg'.used = pkg.used - 1
<1>1. /\ pkg \in Sess!Package /\ pkg.used \in Nat /\ pkg.total \in Nat /\ pkg.used > 0
      /\ pkg.status \in {"ACTIVE", "COMPLETED"} /\ ~ pkg.refunded
      /\ pkg.used <= pkg.total
  BY DEF PkgOK, Sess!CanRestore, Sess!Package, Sess!SessionsWithinTotal
<1>2. /\ pkg' \in Sess!Package /\ pkg'.used = pkg.used - 1 /\ pkg'.total = pkg.total
      /\ pkg'.status = "ACTIVE" /\ ~ pkg'.refunded
  <2>1. PICK n \in Nat : n = pkg.used - 1
    BY <1>1
  <2>2. pkg' = [pkg EXCEPT !.used = n, !.status = "ACTIVE"]
    BY <2>1 DEF Sess!Restored
  <2>3. /\ pkg' \in Sess!Package /\ pkg'.used = n /\ pkg'.status = "ACTIVE" /\ pkg'.total = pkg.total
        /\ pkg'.refunded => pkg.refunded
    BY <1>1, <2>1, <2>2 DEF Sess!Package
  <2> QED  BY <1>1, <2>1, <2>3
<1> QED  BY <1>1, <1>2 DEF PkgOK, Sess!SessionsWithinTotal

SessJobsOK ==
    /\ job \in [Worker -> Sess!PackageJob]
    /\ \A w \in Worker : job[w].use \in UseId <=> job[w].op \in Undoing

LEMMA JobKeeps ==
    ASSUME SessJobsOK, NEW w \in Worker, NEW j \in Sess!PackageJob, j.use \in UseId <=> j.op \in Undoing,
           job' = [job EXCEPT ![w] = j]
    PROVE  SessJobsOK' /\ job'[w] = j /\ \A v \in Worker : v # w => job'[v] = job[v]
BY DEF SessJobsOK

LEMMA PackageJobs ==
    ASSUME OfPackage
    PROVE  /\ Sess!PackageIdle \in Sess!PackageJob /\ Sess!PackageIdle.use = None /\ Sess!PackageIdle.op = "idle"
           /\ \A op \in {"debit", "record", "sell"} :
                /\ Sess!Doing(op, None) \in Sess!PackageJob
                /\ Sess!Doing(op, None).use = None /\ Sess!Doing(op, None).op = op
           /\ \A u \in UseId : /\ Sess!Doing("undo", u) \in Sess!PackageJob
                               /\ Sess!Doing("undo", u).use = u /\ Sess!Doing("undo", u).op = "undo"
BY DEF Sess!PackageIdle, Sess!PackageJob, Sess!Doing

(* What one step of a request does, and what it may do to the undos *)
LEMMA ApartKeeps ==
    ASSUME OfPackage, SessJobsOK, Apart, NEW w \in Worker, NEW j, job' = [job EXCEPT ![w] = j],
           \/ j.op \notin Undoing
           \/ j.op \in Undoing /\ job[w].op \in Undoing /\ j.use = job[w].use,
           overlap' = overlap,
           \A u \in UseId : \/ uses'[u] = uses[u]
                            \/ uses[u] # [state |-> "standing", inSale |-> FALSE]
                            \/ j.op \notin Undoing /\ job[w].op \in Undoing /\ job[w].use = u
    PROVE  Apart'
BY DEF SessJobsOK, Apart

(***************************************************************************)
(* The steps of the package                                                *)
(***************************************************************************)

SessRest == uses \in [UseId -> Sess!PackageUse] /\ lost \in Nat /\ kept \in Nat /\ overlap \in BOOLEAN

Accounted ==
    ~ overlap => pkg.used = Standings + lost + Sess!InFlight("record") - kept - Sess!InFlight("mark")

LEMMA Parts == PInv <=> PkgOK /\ SessJobsOK /\ SessRest /\ Apart /\ Accounted
BY SessCounts
   DEF PInv, PTypes, Sess!PackageTypeOK, PkgOK, SessJobsOK, SessRest, Accounted,
       Sess!SessionsAccounted, Standings

LEMMA PartsNext == PInv' <=> PkgOK' /\ SessJobsOK' /\ SessRest' /\ Apart' /\ Accounted'
BY SessCounts
   DEF PInv, PTypes, Sess!PackageTypeOK, PkgOK, SessJobsOK, SessRest, Accounted,
       Sess!SessionsAccounted, Standings

LEMMA OnlyPkg ==
    ASSUME PInv, PkgOK', pkg'.used = pkg.used, UNCHANGED <<uses, job, lost, kept, overlap>>
    PROVE  PInv'
BY Parts, PartsNext DEF SessJobsOK, SessRest, Apart, Accounted, Standings, Sess!InFlight

LEMMA PackageAlone ==
    ASSUME OfPackage, PInv,
           \/ Sess!PurchaseClientPackage \/ Sess!Expire \/ Sess!CancelIssuedIfUnused
           \/ Sess!RefundIssuedRemainder \/ Sess!DeleteBarbershop
    PROVE  PInv'
<1>1. PkgOK /\ pkg \in Sess!Package /\ TotalSessions \in Nat \ {0}
  BY Parts DEF PkgOK, OfPackage
<1>2. CASE Sess!PurchaseClientPackage
  BY <1>1, <1>2, OnlyPkg
     DEF Sess!PurchaseClientPackage, PkgOK, Sess!Package, Sess!SessionsWithinTotal
<1>3. CASE Sess!Expire
  BY <1>1, <1>3, OnlyPkg DEF Sess!Expire, Sess!Package, PkgOK, Sess!SessionsWithinTotal
<1>4. CASE Sess!CancelIssuedIfUnused \/ Sess!DeleteBarbershop
  BY <1>4, <1>1, OnlyPkg
     DEF Sess!CancelIssuedIfUnused, Sess!DeleteBarbershop, Sess!Package, PkgOK,
         Sess!SessionsWithinTotal
<1>5. CASE Sess!RefundIssuedRemainder
  BY <1>1, <1>5, OnlyPkg
     DEF Sess!RefundIssuedRemainder, Sess!Package, PkgOK, Sess!SessionsWithinTotal
<1> QED  BY <1>2, <1>3, <1>4, <1>5

LEMMA Undone ==
    \A r \in Sess!PackageUse : /\ [r EXCEPT !.state = "undone"] \in Sess!PackageUse
                               /\ [r EXCEPT !.state = "undone"].state = "undone"
BY DEF Sess!PackageUse

LEMMA NewUse ==
    \A b \in BOOLEAN : /\ [state |-> "standing", inSale |-> b] \in Sess!PackageUse
                       /\ [state |-> "standing", inSale |-> b].state = "standing"
BY DEF Sess!PackageUse

LEMMA RestorePackageUsesP ==
    ASSUME OfPackage, PInv, NEW u \in UseId, Sess!RestorePackageUses(u)
    PROVE  PInv'
<1>1. PkgOK' /\ pkg'.used = pkg.used - 1 /\ pkg.used \in Nat
  BY Parts, RestoreKeeps DEF Sess!RestorePackageUses, PkgOK, Sess!Package
<1>2. /\ uses \in [UseId -> Sess!PackageUse] /\ uses[u] = [state |-> "standing", inSale |-> TRUE]
      /\ uses' = [uses EXCEPT ![u].state = "undone"]
  BY Parts DEF Sess!RestorePackageUses, SessRest
<1>3. PICK r \in Sess!PackageUse : r = [uses[u] EXCEPT !.state = "undone"] /\ r.state = "undone"
  BY <1>2, Undone
<1>4. uses' = [uses EXCEPT ![u] = r]
  BY <1>2, <1>3
<1>5. Standings \in Nat /\ Standings' = Standings - 1
  <2>1. uses[u].state = "standing" /\ r.state # "standing"
    BY <1>2, <1>3
  <2> QED  BY <1>2, <1>4, <2>1, StandingsCounted
<1>6. UNCHANGED <<job, lost, kept, overlap>> /\ SessJobsOK' /\ SessRest'
  BY <1>2, <1>4, Parts DEF Sess!RestorePackageUses, SessJobsOK, SessRest
<1>7. Apart'
  BY <1>2, <1>4, <1>6, Parts DEF Apart, SessJobsOK
<1>8. /\ Sess!InFlight("record") \in Nat /\ Sess!InFlight("mark") \in Nat
      /\ Sess!InFlight("record")' = Sess!InFlight("record") /\ Sess!InFlight("mark")' = Sess!InFlight("mark")
  BY SessCounts, <1>6, FS_Subset, FS_CardinalityType DEF Sess!InFlight, OfPackage
<1>9. Accounted'
  BY <1>1, <1>5, <1>6, <1>8, Parts DEF Accounted, SessRest
<1> QED  BY <1>1, <1>6, <1>7, <1>9, PartsNext

LEMMA IdleOf == ASSUME OfPackage, SessJobsOK, NEW w \in Worker, job[w] = Sess!PackageIdle
                PROVE  job[w].op = "idle" /\ job[w].use = None
BY PackageJobs

(* A request that starts to debit or to sell changes nothing else. *)
LEMMA DebitStartsP ==
    ASSUME OfPackage, PInv, NEW w \in Worker, Sess!DebitReads(w) \/ Sess!PreparePackageSession(w)
    PROVE  PInv'
<1>1. PICK op \in {"debit", "sell"} :
        /\ job[w] = Sess!PackageIdle /\ job' = [job EXCEPT ![w] = Sess!Doing(op, None)]
        /\ UNCHANGED <<pkg, uses, lost, kept, overlap>>
  BY DEF Sess!DebitReads, Sess!PreparePackageSession
<1>2. PICK j \in Sess!PackageJob : j = Sess!Doing(op, None) /\ j.op = op /\ j.use = None
  BY <1>1, PackageJobs
<1>3. job' = [job EXCEPT ![w] = j] /\ job[w].op = "idle" /\ j.op \notin Undoing
  BY <1>1, <1>2, IdleOf, Parts DEF Undoing
<1>4. SessJobsOK'
  BY <1>2, <1>3, JobKeeps, Parts DEF OfPackage
<1>5. Apart'
  BY <1>1, <1>3, ApartKeeps, Parts
<1>6. Sess!InFlight("record")' = Sess!InFlight("record") /\ Sess!InFlight("mark")' = Sess!InFlight("mark")
  <2>1. job \in [Worker -> Sess!PackageJob]
    BY Parts DEF SessJobsOK
  <2>2. (job[w].op = "record" <=> j.op = "record") /\ (job[w].op = "mark" <=> j.op = "mark")
    BY <1>2, <1>3
  <2>3. Sess!InFlight("record")' = Sess!InFlight("record")
    BY <1>3, <2>1, <2>2, Counted
  <2>4. Sess!InFlight("mark")' = Sess!InFlight("mark")
    BY <1>3, <2>1, <2>2, Counted
  <2> QED  BY <2>3, <2>4
<1>7. Accounted' /\ PkgOK' /\ SessRest'
  BY <1>1, <1>6, Parts DEF Accounted, Standings, PkgOK, SessRest, Sess!SessionsWithinTotal
<1> QED  BY <1>4, <1>5, <1>7, PartsNext

LEMMA DebitP ==
    ASSUME OfPackage, PInv, NEW w \in Worker, Sess!DebitClientPackageSession(w)
    PROVE  PInv'
<1>1. job[w].op = "debit" /\ UNCHANGED <<uses, lost, kept, overlap>>
  BY DEF Sess!DebitClientPackageSession
<1>2. CASE Sess!CanDebit /\ pkg' = Sess!Debited /\ job' = [job EXCEPT ![w] = Sess!Doing("record", None)]
  <2>1. PICK j \in Sess!PackageJob : j = Sess!Doing("record", None) /\ j.op = "record" /\ j.use = None
    BY PackageJobs
  <2>2. job' = [job EXCEPT ![w] = j] /\ j.op \notin Undoing
    BY <1>2, <2>1 DEF Undoing
  <2>3. SessJobsOK'
    BY <2>1, <2>2, JobKeeps, Parts DEF OfPackage
  <2>4. Apart'
    BY <1>1, <2>2, ApartKeeps, Parts
  <2>5. /\ Sess!InFlight("record")' = Sess!InFlight("record") + 1 /\ Sess!InFlight("mark")' = Sess!InFlight("mark")
        /\ Sess!InFlight("record") \in Nat /\ Sess!InFlight("mark") \in Nat
    BY <1>1, <2>1, <2>2, Counted, Parts DEF SessJobsOK
  <2>6. PkgOK' /\ pkg'.used = pkg.used + 1 /\ pkg.used \in Nat
    BY <1>2, DebitKeeps, Parts DEF PkgOK, Sess!Package
  <2>7. Standings \in Nat
    BY FS_Subset, FS_CardinalityType DEF Standings, OfPackage
  <2>8. Standings' = Standings
    BY <1>1 DEF Standings
  <2>9. Accounted' /\ SessRest'
    BY <1>1, <2>5, <2>6, <2>7, <2>8, Parts DEF Accounted, SessRest
  <2> QED  BY <2>3, <2>4, <2>6, <2>9, PartsNext
<1>3. CASE pkg' = pkg /\ Sess!PackageEnds(w)
  <2>1. PICK j \in Sess!PackageJob : j = Sess!PackageIdle /\ j.op = "idle" /\ j.use = None
    BY PackageJobs
  <2>2. job' = [job EXCEPT ![w] = j] /\ j.op \notin Undoing
    BY <1>3, <2>1 DEF Undoing, Sess!PackageEnds
  <2>3. SessJobsOK'
    BY <2>1, <2>2, JobKeeps, Parts DEF OfPackage
  <2>4. Apart'
    BY <1>1, <2>2, ApartKeeps, Parts
  <2>5. Sess!InFlight("record")' = Sess!InFlight("record") /\ Sess!InFlight("mark")' = Sess!InFlight("mark")
    BY <1>1, <2>1, <2>2, Counted, Parts DEF SessJobsOK
  <2>6. Accounted' /\ PkgOK' /\ SessRest'
    BY <1>1, <1>3, <2>5, Parts
       DEF Accounted, Standings, PkgOK, SessRest, Sess!SessionsWithinTotal
  <2> QED  BY <2>3, <2>4, <2>6, PartsNext
<1> QED  BY <1>2, <1>3 DEF Sess!DebitClientPackageSession

LEMMA RecordUseP ==
    ASSUME OfPackage, PInv, NEW w \in Worker, NEW u \in UseId, Sess!RecordUse(w, u)
    PROVE  PInv'
<1>1. /\ job[w].op = "record" /\ uses[u].state = "absent" /\ UNCHANGED <<pkg, lost, kept, overlap>>
      /\ uses' = [uses EXCEPT ![u] = [state |-> "standing", inSale |-> FALSE]]
  BY DEF Sess!RecordUse
<1>2. PICK j \in Sess!PackageJob : j = Sess!PackageIdle /\ j.op = "idle" /\ j.use = None
  BY PackageJobs
<1>3. job' = [job EXCEPT ![w] = j] /\ j.op \notin Undoing
  BY <1>2 DEF Undoing, Sess!PackageEnds, Sess!RecordUse
<1>4. SessJobsOK'
  BY <1>2, <1>3, JobKeeps, Parts DEF OfPackage
<1>5. PICK r \in Sess!PackageUse : r = [state |-> "standing", inSale |-> FALSE] /\ r.state = "standing"
  BY NewUse
<1>6. uses \in [UseId -> Sess!PackageUse] /\ uses' = [uses EXCEPT ![u] = r]
  BY <1>1, <1>5, Parts DEF SessRest
<1>7. Apart'
  BY <1>6, <1>1, <1>3, ApartKeeps, Parts
<1>8. /\ Sess!InFlight("record")' = Sess!InFlight("record") - 1 /\ Sess!InFlight("mark")' = Sess!InFlight("mark")
      /\ Sess!InFlight("record") \in Nat /\ Sess!InFlight("mark") \in Nat
  BY <1>1, <1>2, <1>3, Counted, Parts DEF SessJobsOK
<1>9. Standings' = Standings + 1 /\ Standings \in Nat
  BY <1>1, <1>5, <1>6, StandingsCounted
<1>10. Accounted'
  BY <1>1, <1>8, <1>9, Parts DEF Accounted, SessRest
<1>11. PkgOK' /\ SessRest'
  BY <1>1, <1>6, Parts DEF PkgOK, SessRest, Sess!SessionsWithinTotal
<1> QED  BY <1>4, <1>7, <1>10, <1>11, PartsNext

LEMMA SaleWithSessionP ==
    ASSUME OfPackage, PInv, NEW w \in Worker, NEW u \in UseId, Sess!SaleWithSession(w, u)
    PROVE  PInv'
<1>1. job[w].op = "sell" /\ uses[u].state = "absent" /\ UNCHANGED <<lost, kept, overlap>>
  BY DEF Sess!SaleWithSession
<1>2. PICK j \in Sess!PackageJob : j = Sess!PackageIdle /\ j.op = "idle" /\ j.use = None
  BY PackageJobs
<1>3. job' = [job EXCEPT ![w] = j] /\ j.op \notin Undoing
  BY <1>2 DEF Undoing, Sess!PackageEnds, Sess!SaleWithSession
<1>4. SessJobsOK'
  BY <1>2, <1>3, JobKeeps, Parts DEF OfPackage
<1>5. /\ Sess!InFlight("record")' = Sess!InFlight("record") /\ Sess!InFlight("mark")' = Sess!InFlight("mark")
      /\ Sess!InFlight("record") \in Nat /\ Sess!InFlight("mark") \in Nat
  BY <1>1, <1>2, <1>3, Counted, Parts DEF SessJobsOK
<1>6. CASE UNCHANGED <<pkg, uses>>
  BY <1>1, <1>3, <1>6, ApartKeeps, Parts, <1>5, <1>4, PartsNext
     DEF Accounted, Standings, PkgOK, SessRest, Sess!SessionsWithinTotal
<1>7. CASE /\ Sess!CanDebit /\ pkg' = Sess!Debited
           /\ uses' = [uses EXCEPT ![u] = [state |-> "standing", inSale |-> TRUE]]
  <2>1. PICK r \in Sess!PackageUse : r = [state |-> "standing", inSale |-> TRUE] /\ r.state = "standing"
    BY NewUse
  <2>2. uses \in [UseId -> Sess!PackageUse] /\ uses' = [uses EXCEPT ![u] = r]
    BY <1>7, <2>1, Parts DEF SessRest
  <2>3. Apart'
    <3>1. \A v \in UseId : v # u => uses'[v] = uses[v]
      BY <2>2
    <3>2. uses[u] # [state |-> "standing", inSale |-> FALSE]
      BY <1>1
    <3> QED  BY <1>1, <1>3, <3>1, <3>2, ApartKeeps, Parts
  <2>4. Standings' = Standings + 1 /\ Standings \in Nat
    BY <1>1, <2>1, <2>2, StandingsCounted
  <2>5. PkgOK' /\ pkg'.used = pkg.used + 1 /\ pkg.used \in Nat
    BY <1>7, DebitKeeps, Parts DEF PkgOK, Sess!Package
  <2>6. Accounted' /\ SessRest'
    BY <1>1, <1>5, <2>2, <2>4, <2>5, Parts DEF Accounted, SessRest
  <2> QED  BY <1>4, <2>3, <2>5, <2>6, PartsNext
<1> QED  BY <1>6, <1>7 DEF Sess!SaleWithSession

LEMMA PackageUndoReadsP ==
    ASSUME OfPackage, PInv, NEW w \in Worker, NEW u \in UseId, Sess!PackageUndoReads(w, u)
    PROVE  PInv'
<1>1. /\ job[w] = Sess!PackageIdle /\ uses[u] = [state |-> "standing", inSale |-> FALSE]
      /\ UNCHANGED <<pkg, uses, lost, kept>>
      /\ overlap' = (overlap \/ \E v \in Worker : job[v].use = u)
  BY DEF Sess!PackageUndoReads
<1>2. PICK j \in Sess!PackageJob : j = Sess!Doing("undo", u) /\ j.op = "undo" /\ j.use = u
  BY PackageJobs
<1>3. job' = [job EXCEPT ![w] = j] /\ j.op \in Undoing /\ job[w].op = "idle"
  BY <1>1, <1>2, IdleOf, Parts DEF Undoing, Sess!PackageUndoReads
<1>4. SessJobsOK' /\ job'[w] = j /\ \A v \in Worker : v # w => job'[v] = job[v]
  BY <1>2, <1>3, JobKeeps, Parts
<1>5. overlap' \in BOOLEAN /\ (~ overlap' => ~ overlap /\ \A v \in Worker : job[v].use # u)
  BY <1>1, Parts DEF SessRest
<1>6. Apart'
  <2> SUFFICES ASSUME ~ overlap' PROVE
        /\ \A v \in Worker : job'[v].op \in Undoing =>
             uses'[job'[v].use] = [state |-> "standing", inSale |-> FALSE]
        /\ \A v, x \in Worker :
             job'[v].op \in Undoing /\ job'[x].op \in Undoing /\ job'[v].use = job'[x].use => v = x
    BY DEF Apart
  <2>1. ~ overlap /\ \A v \in Worker : job[v].use # u
    BY <1>5
  <2>2. \A v \in Worker : job'[v].op \in Undoing =>
             uses'[job'[v].use] = [state |-> "standing", inSale |-> FALSE]
    BY <1>1, <1>2, <1>4, <2>1, Parts DEF Apart
  <2>3. \A v, x \in Worker :
             job'[v].op \in Undoing /\ job'[x].op \in Undoing /\ job'[v].use = job'[x].use => v = x
    BY <1>2, <1>4, <2>1, Parts DEF Apart
  <2> QED  BY <2>2, <2>3
<1>7. Sess!InFlight("record")' = Sess!InFlight("record") /\ Sess!InFlight("mark")' = Sess!InFlight("mark")
  BY <1>2, <1>3, Counted, Parts DEF SessJobsOK
<1>8. Accounted' /\ PkgOK' /\ SessRest'
  BY <1>1, <1>5, <1>7, Parts
     DEF Accounted, Standings, PkgOK, SessRest, Sess!SessionsWithinTotal
<1> QED  BY <1>4, <1>6, <1>8, PartsNext

LEMMA Marks ==
    ASSUME NEW j \in Sess!PackageJob, j.use \in UseId
    PROVE  /\ [j EXCEPT !.op = "mark"] \in Sess!PackageJob
           /\ [j EXCEPT !.op = "mark"].op = "mark" /\ [j EXCEPT !.op = "mark"].use = j.use
BY DEF Sess!PackageJob

LEMMA UndoP ==
    ASSUME OfPackage, PInv, NEW w \in Worker, Sess!UndoClientPackageUse(w)
    PROVE  PInv'
<1>1. job[w].op = "undo" /\ UNCHANGED <<uses, lost, kept, overlap>>
  BY DEF Sess!UndoClientPackageUse
<1>2. CASE Sess!CanRestore /\ pkg' = Sess!Restored(1) /\ job' = [job EXCEPT ![w].op = "mark"]
  <2>1. job[w] \in Sess!PackageJob /\ job[w].use \in UseId
    BY <1>1, Parts DEF SessJobsOK, Undoing
  <2>2. PICK j \in Sess!PackageJob : /\ j = [job[w] EXCEPT !.op = "mark"]
                                     /\ j.op = "mark" /\ j.use = job[w].use
    BY <2>1, Marks
  <2>3. job' = [job EXCEPT ![w] = j] /\ j.op \in Undoing /\ job[w].op \in Undoing
    BY <1>1, <1>2, <2>2 DEF Undoing
  <2>4. SessJobsOK'
    BY <2>1, <2>2, <2>3, JobKeeps, Parts
  <2>5. Apart'
    BY <1>1, <2>2, <2>3, ApartKeeps, Parts
  <2>6. /\ Sess!InFlight("record")' = Sess!InFlight("record") /\ Sess!InFlight("mark")' = Sess!InFlight("mark") + 1
        /\ Sess!InFlight("record") \in Nat /\ Sess!InFlight("mark") \in Nat
    BY <1>1, <2>2, <2>3, Counted, Parts DEF SessJobsOK
  <2>7. PkgOK' /\ pkg'.used = pkg.used - 1 /\ pkg.used \in Nat
    BY <1>2, RestoreKeeps, Parts DEF PkgOK, Sess!Package
  <2>8. Standings \in Nat
    BY FS_Subset, FS_CardinalityType DEF Standings, OfPackage
  <2>9. Standings' = Standings
    BY <1>1 DEF Standings
  <2>10. Accounted' /\ SessRest'
    BY <1>1, <2>6, <2>7, <2>8, <2>9, Parts DEF Accounted, SessRest
  <2> QED  BY <2>4, <2>5, <2>7, <2>10, PartsNext
<1>3. CASE pkg' = pkg /\ Sess!PackageEnds(w)
  <2>1. PICK j \in Sess!PackageJob : j = Sess!PackageIdle /\ j.op = "idle" /\ j.use = None
    BY PackageJobs
  <2>2. job' = [job EXCEPT ![w] = j] /\ j.op \notin Undoing
    BY <1>3, <2>1 DEF Undoing, Sess!PackageEnds
  <2>3. SessJobsOK'
    BY <2>1, <2>2, JobKeeps, Parts DEF OfPackage
  <2>4. Apart'
    BY <1>1, <2>2, ApartKeeps, Parts
  <2>5. Sess!InFlight("record")' = Sess!InFlight("record") /\ Sess!InFlight("mark")' = Sess!InFlight("mark")
    BY <1>1, <2>1, <2>2, Counted, Parts DEF SessJobsOK
  <2>6. Accounted' /\ PkgOK' /\ SessRest'
    BY <1>1, <1>3, <2>5, Parts
       DEF Accounted, Standings, PkgOK, SessRest, Sess!SessionsWithinTotal
  <2> QED  BY <2>3, <2>4, <2>6, PartsNext
<1> QED  BY <1>2, <1>3 DEF Sess!UndoClientPackageUse

LEMMA UndoMarksP ==
    ASSUME OfPackage, PInv, NEW w \in Worker, Sess!UndoMarks(w)
    PROVE  PInv'
<1>1. /\ job[w].op = "mark" /\ UNCHANGED <<pkg, lost, kept, overlap>>
      /\ uses' = [uses EXCEPT ![job[w].use].state = "undone"]
  BY DEF Sess!UndoMarks
<1>2. PICK j \in Sess!PackageJob : j = Sess!PackageIdle /\ j.op = "idle" /\ j.use = None
  BY PackageJobs
<1>3. job' = [job EXCEPT ![w] = j] /\ j.op \notin Undoing /\ job[w].op \in Undoing
  BY <1>1, <1>2 DEF Undoing, Sess!PackageEnds, Sess!UndoMarks
<1>4. SessJobsOK'
  BY <1>2, <1>3, JobKeeps, Parts DEF OfPackage
<1>5. PICK u \in UseId : u = job[w].use
  BY <1>1, Parts DEF SessJobsOK, Undoing
<1>6. PICK r \in Sess!PackageUse : r = [uses[u] EXCEPT !.state = "undone"] /\ r.state = "undone"
  BY Undone, Parts DEF SessRest
<1>7. uses \in [UseId -> Sess!PackageUse] /\ uses' = [uses EXCEPT ![u] = r]
  BY <1>1, <1>5, <1>6, Parts DEF SessRest
<1>8. Apart'
  BY <1>7, <1>1, <1>3, <1>5, ApartKeeps, Parts
<1>9. /\ Sess!InFlight("record")' = Sess!InFlight("record") /\ Sess!InFlight("mark")' = Sess!InFlight("mark") - 1
      /\ Sess!InFlight("record") \in Nat /\ Sess!InFlight("mark") \in Nat
  BY <1>1, <1>2, <1>3, Counted, Parts DEF SessJobsOK
<1>10. Standings \in Nat /\ (~ overlap => Standings' = Standings - 1)
  <2>1. ~ overlap => uses[u].state = "standing"
    BY <1>3, <1>5, Parts DEF Apart
  <2> QED  BY <1>6, <1>7, <2>1, StandingsCounted
<1>11. Accounted'
  BY <1>1, <1>9, <1>10, Parts DEF Accounted, SessRest
<1>12. PkgOK' /\ SessRest'
  BY <1>1, <1>7, Parts DEF PkgOK, SessRest, Sess!SessionsWithinTotal
<1> QED  BY <1>4, <1>8, <1>11, <1>12, PartsNext

LEMMA CrashP ==
    ASSUME OfPackage, PInv, NEW w \in Worker, Sess!Crash(w)
    PROVE  PInv'
<1>1. /\ UNCHANGED <<pkg, uses, overlap>>
      /\ lost' = lost + (IF job[w].op = "record" THEN 1 ELSE 0)
      /\ kept' = kept + (IF job[w].op = "mark" THEN 1 ELSE 0)
  BY DEF Sess!Crash
<1>2. PICK j \in Sess!PackageJob : j = Sess!PackageIdle /\ j.op = "idle" /\ j.use = None
  BY PackageJobs
<1>3. job' = [job EXCEPT ![w] = j] /\ j.op \notin Undoing
  BY <1>1, <1>2 DEF Undoing, Sess!PackageEnds, Sess!Crash
<1>4. SessJobsOK'
  BY <1>2, <1>3, JobKeeps, Parts DEF OfPackage
<1>5. Apart'
  BY <1>1, <1>3, ApartKeeps, Parts
<1>6. /\ Sess!InFlight("record")' = Sess!InFlight("record") - (IF job[w].op = "record" THEN 1 ELSE 0)
      /\ Sess!InFlight("record") \in Nat
  <2>1. /\ Sess!InFlight("record") \in Nat /\ Sess!InFlight("record")' \in Nat
        /\ (job[w].op = "record" <=> j.op = "record") => Sess!InFlight("record")' = Sess!InFlight("record")
        /\ job[w].op = "record" /\ j.op # "record" => Sess!InFlight("record")' = Sess!InFlight("record") - 1
    BY <1>3, Counted, Parts DEF SessJobsOK
  <2> QED  BY <1>2, <2>1
<1>7. /\ Sess!InFlight("mark")' = Sess!InFlight("mark") - (IF job[w].op = "mark" THEN 1 ELSE 0)
      /\ Sess!InFlight("mark") \in Nat
  <2>1. /\ Sess!InFlight("mark") \in Nat /\ Sess!InFlight("mark")' \in Nat
        /\ (job[w].op = "mark" <=> j.op = "mark") => Sess!InFlight("mark")' = Sess!InFlight("mark")
        /\ job[w].op = "mark" /\ j.op # "mark" => Sess!InFlight("mark")' = Sess!InFlight("mark") - 1
    BY <1>3, Counted, Parts DEF SessJobsOK
  <2> QED  BY <1>2, <2>1
<1>8. Standings \in Nat /\ Standings' = Standings
  BY <1>1, FS_Subset, FS_CardinalityType DEF Standings, OfPackage
<1>9. SessRest'
  BY <1>1, Parts DEF SessRest
<1>10. Accounted'
  BY Parts, <1>1, <1>6, <1>7, <1>8 DEF PkgOK, Sess!Package, SessRest, Accounted
<1>11. PkgOK'
  BY <1>1, Parts DEF PkgOK, Sess!SessionsWithinTotal
<1> QED  BY <1>4, <1>5, <1>9, <1>10, <1>11, PartsNext

LEMMA NextP == OfPackage /\ PInv /\ [Sess!Next]_(Sess!vars) => PInv'
<1> SUFFICES ASSUME OfPackage, PInv, [Sess!Next]_(Sess!vars) PROVE PInv'
  OBVIOUS
<1>1. CASE Sess!PackageNext
  BY <1>1, PackageAlone, RestorePackageUsesP, DebitStartsP, DebitP, UndoP, UndoMarksP,
     CrashP,
     RecordUseP, SaleWithSessionP, PackageUndoReadsP DEF Sess!PackageNext
<1>2. CASE UNCHANGED Sess!vars
  BY <1>2, Parts, OnlyPkg DEF Sess!vars, PkgOK, Sess!SessionsWithinTotal
<1>3. Sess!PackageNext \/ UNCHANGED Sess!vars
  BY DEF Sess!Next, OfPackage
<1> QED  BY <1>1, <1>2, <1>3

LEMMA SessClosedStays ==
    OfPackage /\ PInv /\ [Sess!Next]_(Sess!vars) => Sess!ClosedIsFinal
<1> SUFFICES ASSUME OfPackage, PInv, [Sess!Next]_(Sess!vars), pkg.status = "CANCELLED" \/ pkg.refunded
             PROVE  pkg'.status = pkg.status /\ pkg'.used = pkg.used /\ pkg'.total = pkg.total
  BY DEF Sess!ClosedIsFinal
<1>1. /\ pkg \in Sess!Package /\ pkg.status \notin {"none", "ACTIVE"} /\ ~ Sess!CanRestore /\ ~ Sess!Usable
      /\ ~ Sess!CanDebit
  BY Parts DEF PkgOK, Sess!CanRestore, Sess!Usable, Sess!CanDebit
<1>2. pkg' = pkg \/ pkg' = [pkg EXCEPT !.expired = TRUE]
  BY <1>1
     DEF Sess!Next, OfPackage, Sess!PackageNext, Sess!vars, Sess!PurchaseClientPackage,
         Sess!Expire, Sess!CancelIssuedIfUnused,
     Sess!RefundIssuedRemainder, Sess!DeleteBarbershop, Sess!RestorePackageUses, Sess!DebitReads, Sess!PreparePackageSession,
     Sess!DebitClientPackageSession, Sess!RecordUse, Sess!SaleWithSession, Sess!PackageUndoReads, Sess!UndoClientPackageUse,
     Sess!UndoMarks, Sess!Crash
<1> QED  BY <1>1, <1>2 DEF Sess!Package

LEMMA PackageInvariant == OfPackage => (Sess!Spec => []PInv)
<1> SUFFICES ASSUME OfPackage PROVE Sess!Spec => []PInv
  OBVIOUS
<1>1. Sess!Init => PInv
  BY InitP
<1>2. PInv /\ [Sess!Next]_(Sess!vars) => PInv'
  BY NextP
<1> QED  BY <1>1, <1>2, PTL DEF Sess!Spec

(* However debits, undos, refunds and sales overlap, a package is in use    *)
(* exactly while it has sessions left.                                      *)
THEOREM PackageSessionsWithinTotal == OfPackage => (Sess!Spec => []Sess!SessionsWithinTotal)
<1>1. PInv => Sess!SessionsWithinTotal
  BY DEF PInv
<1> QED  BY <1>1, PackageInvariant, PTL

(* While no two undos work on one use, the sessions used are the uses that  *)
(* stand, but for what a crash or a running request still owes, for any     *)
(* number of requests, uses and crashes.                                    *)
THEOREM PackageSessionsAccounted == OfPackage => (Sess!Spec => []Sess!SessionsAccounted)
<1>1. PInv => Sess!SessionsAccounted
  BY DEF PInv
<1> QED  BY <1>1, PackageInvariant, PTL

(* No request changes the sessions of a package that was cancelled or whose *)
(* remainder was paid back.                                                 *)
THEOREM PackageClosedIsFinal == OfPackage => (Sess!Spec => [][Sess!ClosedIsFinal]_(Sess!vars))
<1> SUFFICES ASSUME OfPackage PROVE Sess!Spec => [][Sess!ClosedIsFinal]_(Sess!vars)
  OBVIOUS
<1>1. PInv /\ [Sess!Next]_(Sess!vars) => Sess!ClosedIsFinal
  BY SessClosedStays
<1> QED  BY <1>1, PackageInvariant, PTL DEF Sess!Spec

----------------------------------------------------------------------------
(* The club *)

(* A use is not older than the cycle it belongs to, and the row is never    *)
(* ahead of Stripe.                                                         *)
CInv ==
    /\ Sess!ClubTypeOK
    /\ Sess!WithinLimit
    /\ SessSub.cycle <= charged
    /\ \A u \in UseId : uses[u].periodStart <= uses[u].createdAt
    /\ \A w \in Worker : /\ job[w].current <= charged
                         /\ job[w].op = "undo" => job[w].use \in UseId
    /\ Sess!SessionsCounted

LEMMA InitClub == OfClub /\ Sess!Init => CInv
<1> SUFFICES ASSUME OfClub, Sess!Init PROVE CInv
  OBVIOUS
<1>1. Sess!ClubInit /\ 1 \in Sess!Cycle
  BY DEF OfClub, Sess!Init, Sess!Cycle
<1>2. SessSub \in Sess!Subscription /\ SessSub.used = 0 /\ SessSub.cycle = 1
  BY <1>1 DEF Sess!ClubInit, Sess!Subscription, Sess!Status
<1>3. /\ uses \in [UseId -> Sess!ClubUse]
      /\ \A u \in UseId : uses[u].state = "absent" /\ uses[u].periodStart = 1 /\ uses[u].createdAt = 1
  BY <1>1 DEF Sess!ClubInit, Sess!ClubUse
<1>4. Sess!ClubIdle \in Sess!ClubJob /\ Sess!ClubIdle.op = "idle" /\ Sess!ClubIdle.current = 1
  BY <1>1 DEF Sess!ClubIdle, Sess!ClubJob
<1>5. /\ job \in [Worker -> Sess!ClubJob]
      /\ \A w \in Worker : job[w].op = "idle" /\ job[w].current = 1
  BY <1>1, <1>4 DEF Sess!ClubInit
<1>6. Sess!ClubTypeOK /\ charged = 1
  BY <1>1, <1>2, <1>3, <1>5 DEF Sess!ClubTypeOK, Sess!ClubInit
<1>7. Sess!WithinLimit
  BY <1>2 DEF Sess!WithinLimit, OfClub
<1>8. Sess!SessionsCounted
  BY <1>3, SessCounts, <1>2, FS_EmptySet DEF Sess!UsedIn, Sess!SessionsCounted
<1> QED  BY <1>2, <1>3, <1>5, <1>6, <1>7, <1>8 DEF CInv

LEMMA UsesCounted ==
    ASSUME OfClub, uses \in [UseId -> Sess!ClubUse], NEW u \in UseId, NEW r,
           uses' = [uses EXCEPT ![u] = r], SessSub'.cycle = SessSub.cycle
    PROVE  LET before == uses[u].state = "standing" /\ uses[u].periodStart = SessSub.cycle
               after == r.state = "standing" /\ r.periodStart = SessSub.cycle
               counted == Cardinality(Sess!UsedIn(SessSub.cycle))
           IN  /\ counted \in Nat
               /\ (before <=> after) => counted' = counted
               /\ ~ before /\ after => counted' = counted + 1
               /\ before /\ ~ after => counted' = counted - 1 /\ counted > 0
<1> DEFINE A == {v \in UseId : uses[v].state = "standing" /\ uses[v].periodStart = SessSub.cycle}
<1>1. PICK B : B = {v \in UseId : uses'[v].state = "standing" /\ uses'[v].periodStart = SessSub.cycle}
  OBVIOUS
<1>2. \A v \in UseId : v # u => (v \in A <=> v \in B)
  BY <1>1
<1>3. /\ u \in A <=> uses[u].state = "standing" /\ uses[u].periodStart = SessSub.cycle
      /\ u \in B <=> r.state = "standing" /\ r.periodStart = SessSub.cycle
  BY <1>1
<1>4. A \in SUBSET UseId /\ B \in SUBSET UseId /\ IsFiniteSet(UseId)
  BY <1>1 DEF OfClub
<1>5. Sess!UsedIn(SessSub.cycle) = A /\ Sess!UsedIn(SessSub.cycle)' = B
  BY <1>1 DEF Sess!UsedIn
<1> HIDE DEF A
<1>6. /\ Cardinality(A) \in Nat /\ Cardinality(B) \in Nat
      /\ (u \in A <=> u \in B) => Cardinality(B) = Cardinality(A)
      /\ u \notin A /\ u \in B => Cardinality(B) = Cardinality(A) + 1
      /\ u \in A /\ u \notin B => Cardinality(B) = Cardinality(A) - 1
  BY <1>2, <1>4, OneDiffers
<1>7. Cardinality(Sess!UsedIn(SessSub.cycle)) = Cardinality(A) /\ Cardinality(Sess!UsedIn(SessSub.cycle))' = Cardinality(B)
  BY <1>5
<1>8. u \in A /\ u \notin B => Cardinality(A) > 0
  BY <1>6
<1> QED  BY <1>3, <1>6, <1>7, <1>8

LEMMA SessClubIdleOK == OfClub => Sess!ClubIdle \in Sess!ClubJob /\ Sess!ClubIdle.op = "idle" /\ Sess!ClubIdle.current = 1
BY DEF Sess!ClubIdle, Sess!ClubJob, OfClub, Sess!Cycle

ClubRest ==
    /\ uses \in [UseId -> Sess!ClubUse]
    /\ charged \in Sess!Cycle /\ SessPaid \subseteq Sess!Cycle /\ blurred \in BOOLEAN
    /\ \A u \in UseId : uses[u].periodStart <= uses[u].createdAt

ClubJobs ==
    /\ job \in [Worker -> Sess!ClubJob]
    /\ \A w \in Worker : /\ job[w].current <= charged
                         /\ job[w].op = "undo" => job[w].use \in UseId

SubOK == SessSub \in Sess!Subscription /\ Sess!WithinLimit /\ SessSub.cycle <= charged

LEMMA ClubParts == CInv <=> SubOK /\ ClubRest /\ ClubJobs /\ Sess!SessionsCounted
BY DEF CInv, Sess!ClubTypeOK, SubOK, ClubRest, ClubJobs

LEMMA ClubPartsNext == CInv' <=> SubOK' /\ ClubRest' /\ ClubJobs' /\ Sess!SessionsCounted'
BY DEF CInv, Sess!ClubTypeOK, SubOK, ClubRest, ClubJobs

LEMMA ClubJobKeeps ==
    ASSUME OfClub, ClubJobs, charged' = charged, NEW w \in Worker, NEW j \in Sess!ClubJob,
           j.current <= charged, j.op = "undo" => j.use \in UseId,
           job' = [job EXCEPT ![w] = j]
    PROVE  ClubJobs'
BY DEF ClubJobs

LEMMA ClubEndsKeeps ==
    ASSUME OfClub, ClubJobs, ClubRest, charged' = charged, NEW w \in Worker, Sess!ClubEnds(w)
    PROVE  ClubJobs'
<1>1. 1 <= charged
  BY DEF ClubRest, Sess!Cycle
<1>2. PICK j \in Sess!ClubJob : j = Sess!ClubIdle /\ j.op = "idle" /\ j.current = 1
  BY SessClubIdleOK
<1>3. job' = [job EXCEPT ![w] = j]
  BY <1>2 DEF Sess!ClubEnds
<1> QED  BY <1>1, <1>2, <1>3, ClubJobKeeps

LEMMA SubRecord ==
    ASSUME NEW s \in Sess!Subscription
    PROVE  /\ s.used \in Int /\ s.cycle \in Sess!Cycle /\ s.status \in Sess!Status
           /\ \A n \in Int : /\ [s EXCEPT !.used = n] \in Sess!Subscription
                             /\ [s EXCEPT !.used = n].used = n
                             /\ [s EXCEPT !.used = n].cycle = s.cycle
                             /\ [s EXCEPT !.used = n].status = s.status
           /\ \A t \in Sess!Status : /\ [s EXCEPT !.status = t] \in Sess!Subscription
                                     /\ [s EXCEPT !.status = t].used = s.used
                                     /\ [s EXCEPT !.status = t].cycle = s.cycle
BY DEF Sess!Subscription

LEMMA UseRecord ==
    ASSUME NEW r \in Sess!ClubUse
    PROVE  /\ r.periodStart \in Sess!Cycle /\ r.createdAt \in Sess!Cycle
           /\ [r EXCEPT !.state = "undone"] \in Sess!ClubUse
           /\ [r EXCEPT !.state = "undone"].state = "undone"
           /\ [r EXCEPT !.state = "undone"].periodStart = r.periodStart
           /\ [r EXCEPT !.state = "undone"].createdAt = r.createdAt
BY DEF Sess!ClubUse

(* A step that leaves uses and counter alone *)
LEMMA CounterKept ==
    ASSUME OfClub, CInv, SubOK', ClubJobs', UNCHANGED <<uses, SessPaid, blurred>>, charged' \in Sess!Cycle,
           SessSub'.used = SessSub.used, SessSub'.cycle = SessSub.cycle
    PROVE  CInv'
BY ClubParts, ClubPartsNext DEF ClubRest, Sess!SessionsCounted, Sess!UsedIn

LEMMA ClubQuiet ==
    ASSUME OfClub, CInv,
           Sess!StripeTurnsCycle \/ Sess!InvoiceFailed \/ Sess!SyncClientClub \/ Sess!SubscriptionDeleted
    PROVE  CInv'
<1>1. SessSub \in Sess!Subscription /\ SessSub.cycle \in Nat /\ charged \in Sess!Cycle /\ charged \in Nat
  BY ClubParts, SubRecord DEF SubOK, ClubRest, Sess!Cycle
<1>2. CASE Sess!StripeTurnsCycle
  BY <1>1, <1>2, ClubParts, CounterKept
     DEF Sess!StripeTurnsCycle, Sess!Cycle, OfClub, SubOK, Sess!WithinLimit, ClubJobs,
         Sess!ClubJob
<1>3. CASE \E aStatus \in Sess!Status : Sess!StatusEvent(aStatus)
  <2>1. PICK aStatus \in Sess!Status : Sess!StatusEvent(aStatus)
    BY <1>3
  <2>2. /\ UNCHANGED <<uses, charged, SessPaid, job, blurred>>
        /\ SessSub' \in Sess!Subscription /\ SessSub'.used = SessSub.used /\ SessSub'.cycle = SessSub.cycle
    BY <1>1, <2>1, SubRecord DEF Sess!StatusEvent
  <2>3. SubOK' /\ ClubJobs'
    BY <2>2, ClubParts DEF SubOK, Sess!WithinLimit, ClubJobs
  <2> QED  BY <1>1, <2>2, <2>3, CounterKept
<1> QED  BY <1>2, <1>3
            DEF Sess!InvoiceFailed, Sess!SyncClientClub, Sess!SubscriptionDeleted,
                Sess!Status

LEMMA ClubReads ==
    ASSUME OfClub, CInv, NEW w \in Worker,
           \/ Sess!RedeemReads(w) \/ Sess!PrepareClubSession(w)
           \/ \E u \in UseId : Sess!ClubUndoReads(w, u)
           \/ \E invoice \in Sess!Cycle : Sess!InvoiceReads(w, invoice)
    PROVE  CInv'
<1>1. /\ UNCHANGED <<SessSub, uses, charged, SessPaid, blurred>> /\ job[w] = Sess!ClubIdle
      /\ \E j : /\ job' = [job EXCEPT ![w] = j] /\ j \in Sess!ClubJob
                /\ j.current <= charged /\ (j.op = "undo" => j.use \in UseId)
  <2>1. /\ ClubJobs /\ charged \in Sess!Cycle /\ 1 <= charged /\ job \in [Worker -> Sess!ClubJob]
        /\ Sess!ClubIdle \in Sess!ClubJob /\ Sess!ClubIdle.current = 1
    BY ClubParts, SessClubIdleOK DEF ClubRest, Sess!Cycle, ClubJobs
  <2>2. CASE Sess!RedeemReads(w) \/ Sess!PrepareClubSession(w)
    <3>1. PICK op \in {"redeem", "sell"} :
            /\ job[w] = Sess!ClubIdle /\ job' = [job EXCEPT ![w].op = op]
            /\ UNCHANGED <<SessSub, uses, charged, SessPaid, blurred>>
      BY <2>2 DEF Sess!RedeemReads, Sess!PrepareClubSession
    <3> DEFINE j == [Sess!ClubIdle EXCEPT !.op = op]
    <3>2. job' = [job EXCEPT ![w] = j]
      BY <2>1, <3>1
    <3>3. j \in Sess!ClubJob /\ j.current = 1 /\ j.op = op
      BY <2>1 DEF Sess!ClubIdle, Sess!ClubJob
    <3> HIDE DEF j
    <3> QED  BY <2>1, <3>1, <3>2, <3>3
  <2>3. CASE \E u \in UseId : Sess!ClubUndoReads(w, u)
    <3>1. PICK u \in UseId : Sess!ClubUndoReads(w, u)
      BY <2>3
    <3> DEFINE j == [Sess!ClubIdle EXCEPT !.op = "undo", !.use = u]
    <3>2. job' = [job EXCEPT ![w] = j]
      BY <2>1, <3>1 DEF Sess!ClubUndoReads
    <3>3. j \in Sess!ClubJob /\ j.current = 1 /\ j.use = u
      BY <2>1 DEF Sess!ClubIdle, Sess!ClubJob
    <3>4. UNCHANGED <<SessSub, uses, charged, SessPaid, blurred>> /\ job[w] = Sess!ClubIdle
      BY <3>1 DEF Sess!ClubUndoReads
    <3> HIDE DEF j
    <3> QED  BY <2>1, <3>2, <3>3, <3>4
  <2>4. CASE \E invoice \in Sess!Cycle : Sess!InvoiceReads(w, invoice)
    <3>1. PICK invoice \in Sess!Cycle : Sess!InvoiceReads(w, invoice)
      BY <2>4
    <3>2. Sess!AdvancesCycle(invoice) \in BOOLEAN
      BY DEF Sess!AdvancesCycle
    <3>3. PICK b \in BOOLEAN : b = Sess!AdvancesCycle(invoice)
      BY <3>2, Zenon
    <3> DEFINE j == [op |-> "invoice", use |-> None, invoice |-> invoice,
                     advances |-> b, current |-> charged]
    <3>4. j \in Sess!ClubJob /\ j.current = charged /\ j.op = "invoice"
      BY <2>1, <3>3 DEF Sess!ClubJob
    <3>5. /\ job' = [job EXCEPT ![w] = j] /\ job[w] = Sess!ClubIdle
          /\ UNCHANGED <<SessSub, uses, charged, SessPaid, blurred>>
      BY <3>1, <3>3 DEF Sess!InvoiceReads
    <3> HIDE DEF j
    <3>6. charged <= charged
      BY <2>1 DEF Sess!Cycle
    <3> QED  BY <3>4, <3>5, <3>6
  <2> QED  BY <2>2, <2>3, <2>4
<1>2. PICK j \in Sess!ClubJob : /\ job' = [job EXCEPT ![w] = j]
                                /\ j.current <= charged /\ (j.op = "undo" => j.use \in UseId)
  BY <1>1
<1>3. ClubJobs'
  BY <1>1, <1>2, ClubJobKeeps, ClubParts
<1>4. SubOK' /\ charged' \in Sess!Cycle
  BY <1>1, ClubParts DEF SubOK, Sess!WithinLimit, ClubRest
<1> QED  BY <1>1, <1>3, <1>4, CounterKept

LEMMA UseSessionC ==
    ASSUME OfClub, CInv, NEW w \in Worker, NEW u \in UseId, Sess!UseSession(w, u)
    PROVE  CInv'
<1>1. Sess!ClubEnds(w) /\ UNCHANGED <<charged, SessPaid, blurred>> /\ uses[u].state = "absent"
  BY DEF Sess!UseSession
<1>2. ClubJobs'
  BY <1>1, ClubParts, ClubEndsKeeps
<1>3. CASE UNCHANGED <<SessSub, uses>>
  BY <1>1, <1>3, ClubParts, <1>2, CounterKept DEF SubOK, Sess!WithinLimit, ClubRest
<1>4. CASE /\ Sess!HasSession
           /\ SessSub' = [SessSub EXCEPT !.used = @ + 1]
           /\ uses' = [uses EXCEPT ![u] = Sess!Standing(job[w].op = "sell")]
  <2>1. SessSub \in Sess!Subscription /\ SessSub.used \in Int /\ SessSub.cycle \in Sess!Cycle /\ charged \in Sess!Cycle
    BY ClubParts, SubRecord DEF SubOK, ClubRest
  <2>2. /\ SessSub' \in Sess!Subscription /\ SessSub'.used = SessSub.used + 1 /\ SessSub'.cycle = SessSub.cycle
        /\ SessSub'.status = SessSub.status
    <3>1. PICK n \in Int : n = SessSub.used + 1
      BY <2>1
    <3>2. SessSub' = [SessSub EXCEPT !.used = n]
      BY <1>4, <3>1
    <3> QED  BY <2>1, <3>1, <3>2, SubRecord
  <2>3. SubOK'
    BY <1>1, <1>4, <2>1, <2>2, ClubParts
       DEF SubOK, Sess!WithinLimit, Sess!HasSession, OfClub
  <2>4. PICK b \in BOOLEAN : b = (job[w].op = "sell")
    <3>1. (job[w].op = "sell") \in BOOLEAN
      OBVIOUS
    <3> QED  BY <3>1, Zenon
  <2> DEFINE r == Sess!Standing(b)
  <2>5. /\ r \in Sess!ClubUse /\ r.state = "standing" /\ r.periodStart = SessSub.cycle
        /\ r.createdAt = charged
    BY <2>1, <2>4 DEF Sess!ClubUse, Sess!Standing
  <2>6. uses' = [uses EXCEPT ![u] = r]
    BY <1>4, <2>4
  <2> HIDE DEF r
  <2>7. ClubRest'
    BY <2>6, ClubParts, <2>5, <1>1 DEF ClubRest, SubOK
  <2>8. /\ Cardinality(Sess!UsedIn(SessSub.cycle))' = Cardinality(Sess!UsedIn(SessSub.cycle)) + 1
        /\ Cardinality(Sess!UsedIn(SessSub.cycle)) \in Nat
    BY <1>1, <2>2, <2>5, <2>6, UsesCounted, ClubParts DEF ClubRest
  <2>9. Sess!SessionsCounted'
    BY SessCounts, <1>1, <2>1, <2>2, <2>8, ClubParts DEF Sess!SessionsCounted
  <2> QED  BY <1>2, <2>3, <2>7, <2>9, ClubPartsNext
<1> QED  BY <1>3, <1>4 DEF Sess!UseSession

(* A use that is undone, and the counter that gains its session or not *)
LEMMA UndoneC ==
    ASSUME OfClub, CInv, ClubJobs', NEW u \in UseId, NEW gives \in BOOLEAN,
           uses[u].state = "standing",
           uses' = [uses EXCEPT ![u].state = "undone"],
           SessSub' = [SessSub EXCEPT !.used = IF @ > 0 /\ gives THEN @ - 1 ELSE @],
           blurred' = (blurred \/ (gives /\ uses[u].periodStart # SessSub.cycle)),
           ~ gives => uses[u].periodStart # SessSub.cycle,
           UNCHANGED <<charged, SessPaid>>
    PROVE  CInv'
<1>1. SessSub \in Sess!Subscription /\ SessSub.used \in Int /\ SessSub.cycle \in Sess!Cycle /\ SessSub.used \in 0 .. Limit
  BY ClubParts, SubRecord DEF SubOK, Sess!WithinLimit
<1>2. PICK n \in Int : n = IF SessSub.used > 0 /\ gives THEN SessSub.used - 1 ELSE SessSub.used
  BY <1>1
<1>3. SessSub' \in Sess!Subscription /\ SessSub'.used = n /\ SessSub'.cycle = SessSub.cycle
  BY <1>2, <1>1, SubRecord
<1>4. SubOK'
  BY <1>1, <1>2, <1>3, ClubParts DEF SubOK, Sess!WithinLimit, OfClub
<1>5. PICK r \in Sess!ClubUse : /\ r = [uses[u] EXCEPT !.state = "undone"] /\ r.state = "undone"
                                /\ r.periodStart = uses[u].periodStart /\ r.createdAt = uses[u].createdAt
  BY UseRecord, ClubParts DEF ClubRest
<1>6. uses' = [uses EXCEPT ![u] = r]
  BY <1>5
<1>7. ClubRest'
  BY <1>6, ClubParts, <1>5 DEF ClubRest
<1>8. Sess!SessionsCounted'
  <2> SUFFICES ASSUME ~ blurred' PROVE SessSub'.used = Cardinality(Sess!UsedIn(SessSub.cycle))'
    BY SessCounts DEF Sess!SessionsCounted
  <2>1. ~ blurred /\ SessSub.used = Cardinality(Sess!UsedIn(SessSub.cycle))
    BY SessCounts, ClubParts DEF Sess!SessionsCounted
  <2>2. uses \in [UseId -> Sess!ClubUse]
    BY ClubParts DEF ClubRest
  <2>3. CASE gives
    BY <2>3, <1>3, <1>5, <1>6, <2>2, UsesCounted, <1>2, <2>1
  <2>4. CASE ~ gives
    BY <1>3, <1>5, <1>6, <2>2, <2>4, UsesCounted, <1>2, <2>1
  <2> QED  BY <2>3, <2>4
<1> QED  BY <1>4, <1>7, <1>8, ClubPartsNext

LEMMA UndoC ==
    ASSUME OfClub, CInv, NEW w \in Worker, Sess!UndoClientSubscriptionUse(w)
    PROVE  CInv'
<1>1. /\ Sess!ClubEnds(w) /\ UNCHANGED <<charged, SessPaid>>
      /\ job[w].use \in UseId
  BY ClubParts DEF Sess!UndoClientSubscriptionUse, ClubJobs
<1>2. ClubJobs'
  BY <1>1, ClubParts, ClubEndsKeeps
<1>3. PICK u \in UseId : u = job[w].use
  BY <1>1
<1>4. CASE UNCHANGED <<SessSub, uses, blurred>>
  BY <1>1, <1>4, ClubParts, <1>2, CounterKept DEF SubOK, Sess!WithinLimit, ClubRest
<1>5. CASE /\ uses[u].state = "standing"
           /\ uses' = [uses EXCEPT ![u].state = "undone"]
           /\ SessSub' = [SessSub EXCEPT !.used = IF @ > 0 THEN @ - 1 ELSE @]
           /\ Sess!Blurs(uses[u].periodStart # SessSub.cycle)
  BY <1>5, <1>1, <1>2, UndoneC DEF Sess!Blurs
<1> QED  BY <1>3, <1>4, <1>5 DEF Sess!UndoClientSubscriptionUse

LEMMA DeleteSaleC ==
    ASSUME OfClub, CInv, NEW u \in UseId, Sess!DeleteSale(u)
    PROVE  CInv'
<1>1. PICK gives \in BOOLEAN : gives = Sess!SameCycle(u)
  <2>1. Sess!SameCycle(u) \in BOOLEAN
    BY DEF Sess!SameCycle
  <2> QED  BY <2>1, Zenon
<1>2. /\ uses[u].state = "standing" /\ uses' = [uses EXCEPT ![u].state = "undone"]
      /\ UNCHANGED <<charged, SessPaid, job>>
  BY DEF Sess!DeleteSale
<1>3. SessSub' = [SessSub EXCEPT !.used = IF @ > 0 /\ gives THEN @ - 1 ELSE @]
  BY <1>1 DEF Sess!DeleteSale
<1>4. blurred' = (blurred \/ (gives /\ uses[u].periodStart # SessSub.cycle))
  BY <1>1 DEF Sess!DeleteSale, Sess!Blurs
<1>5. ~ gives => uses[u].periodStart # SessSub.cycle
  BY <1>1, ClubParts DEF Sess!SameCycle, ClubRest
<1>6. ClubJobs'
  BY <1>2, ClubParts DEF ClubJobs
<1> QED  BY <1>2, <1>3, <1>4, <1>5, <1>6, UndoneC

LEMMA InvoiceC ==
    ASSUME OfClub, CInv, NEW w \in Worker, Sess!InvoiceSucceeded(w)
    PROVE  CInv'
<1>1. Sess!ClubEnds(w) /\ UNCHANGED <<uses, charged>> /\ job[w] \in Sess!ClubJob /\ job[w].current <= charged
  BY ClubParts DEF Sess!InvoiceSucceeded, ClubJobs
<1>2. ClubJobs'
  BY <1>1, ClubParts, ClubEndsKeeps
<1>3. charged' \in Sess!Cycle
  BY <1>1, ClubParts DEF ClubRest
<1>4. CASE UNCHANGED <<SessSub, SessPaid, blurred>>
  BY <1>1, <1>4, ClubParts, <1>2, <1>3, CounterKept DEF SubOK, Sess!WithinLimit
<1>5. CASE /\ SessPaid' = SessPaid \cup {job[w].invoice}
           /\ SessSub' = IF job[w].advances
                         THEN [status |-> "ACTIVE", used |-> 0, cycle |-> job[w].current] ELSE SessSub
           /\ Sess!Blurs(job[w].advances /\ Sess!UsedIn(job[w].current) # {})
  <2>1. blurred' = (blurred \/ (job[w].advances /\ Sess!UsedIn(job[w].current) # {}))
    BY <1>5 DEF Sess!Blurs
  <2>2. job[w].invoice \in Sess!Cycle /\ job[w].current \in Sess!Cycle
    BY <1>1 DEF Sess!ClubJob
  <2>3. ClubRest'
    BY <2>1, <1>5, <2>2, ClubParts, <1>1 DEF ClubRest
  <2>4. CASE job[w].advances
    <3>1. /\ SessSub' \in Sess!Subscription /\ SessSub'.used = 0 /\ SessSub'.cycle = job[w].current
      BY <1>5, <2>2, <2>4 DEF Sess!Subscription, Sess!Status
    <3>2. SubOK'
      BY <1>1, <3>1 DEF SubOK, Sess!WithinLimit, OfClub
    <3>3. Sess!SessionsCounted'
      <4> SUFFICES ASSUME ~ blurred' PROVE SessSub'.used = Cardinality(Sess!UsedIn(SessSub.cycle))'
        BY SessCounts DEF Sess!SessionsCounted
      <4>1. Sess!UsedIn(job[w].current) = {}
        BY <2>1, <2>4
      <4>2. Sess!UsedIn(SessSub.cycle)' = {}
        BY <1>1, <3>1, <4>1 DEF Sess!UsedIn
      <4> QED  BY <3>1, <4>2, FS_EmptySet
    <3> QED  BY <1>2, <2>3, <3>2, <3>3, ClubPartsNext
  <2>5. CASE ~ job[w].advances
    BY <1>5, <2>5, <1>1, ClubParts, <2>1, <1>2, <2>3, ClubPartsNext
       DEF SubOK, Sess!WithinLimit, Sess!SessionsCounted, Sess!UsedIn
  <2> QED  BY <2>4, <2>5
<1> QED  BY <1>4, <1>5 DEF Sess!InvoiceSucceeded

LEMMA NextC == OfClub /\ CInv /\ [Sess!Next]_(Sess!vars) => CInv'
<1> SUFFICES ASSUME OfClub, CInv, [Sess!Next]_(Sess!vars) PROVE CInv'
  OBVIOUS
<1>1. CASE Sess!ClubNext
  BY <1>1, ClubQuiet, ClubReads, UseSessionC, UndoC, DeleteSaleC, InvoiceC DEF Sess!ClubNext
<1>2. CASE UNCHANGED Sess!vars
  BY <1>2, ClubParts, CounterKept
     DEF Sess!vars, SubOK, Sess!WithinLimit, ClubJobs, ClubRest
<1>3. Sess!ClubNext \/ UNCHANGED Sess!vars
  BY DEF Sess!Next, OfClub
<1> QED  BY <1>1, <1>2, <1>3

LEMMA ClubInvariant == OfClub => (Sess!Spec => []CInv)
<1> SUFFICES ASSUME OfClub PROVE Sess!Spec => []CInv
  OBVIOUS
<1>1. Sess!Init => CInv
  BY InitClub
<1>2. CInv /\ [Sess!Next]_(Sess!vars) => CInv'
  BY NextC
<1> QED  BY <1>1, <1>2, PTL DEF Sess!Spec

(* The sessions used in a cycle never pass the limit of the plan nor fall   *)
(* below zero, whatever overlaps: each update asks for its own condition.   *)
THEOREM ClubWithinLimit == OfClub => (Sess!Spec => []Sess!WithinLimit)
<1>1. CInv => Sess!WithinLimit
  BY DEF CInv
<1> QED  BY <1>1, ClubInvariant, PTL

(* While every step saw one cycle, the counter is the number of uses that   *)
(* stand in the cycle: invoices that are repeated or late free nothing, and *)
(* undone sessions and deleted sales come back once.                        *)
THEOREM ClubSessionsCounted == OfClub => (Sess!Spec => []Sess!SessionsCounted)
<1>1. CInv => Sess!SessionsCounted
  BY DEF CInv
<1> QED  BY <1>1, ClubInvariant, PTL

(* The rows of packages, cycles and uses, and what requests remember, keep  *)
(* their types, in the package and in the club.                             *)
THEOREM SessionsSoldTypeOK == OfPackage \/ OfClub => (Sess!Spec => []Sess!TypeOK)
<1>1. OfPackage /\ PInv => Sess!TypeOK
  BY DEF PInv, PTypes, Sess!TypeOK, OfPackage
<1>2. OfClub /\ CInv => Sess!TypeOK
  BY DEF CInv, Sess!TypeOK, OfClub
<1>3. CASE OfPackage
  <2>1. PInv => Sess!TypeOK
    BY <1>1, <1>3
  <2>2. Sess!Spec => []PInv
    BY <1>3, PackageInvariant
  <2> QED  BY <2>1, <2>2, PTL
<1>4. CASE OfClub
  <2>1. CInv => Sess!TypeOK
    BY <1>2, <1>4
  <2>2. Sess!Spec => []CInv
    BY <1>4, ClubInvariant
  <2> QED  BY <2>1, <2>2, PTL
<1> QED  BY <1>3, <1>4

----------------------------------------------------------------------------
(***************************************************************************)
(* Proofs about the dues of ChairRent, for any number of requests, months  *)
(* and invoices.                                                           *)
(*                                                                         *)
(* A payment is claimed before its expense is written, so between the two  *)
(* one request owes the expense (Expensing).  What a payment says and what *)
(* the books say are related by whether somebody owes it (DueOK, InvoiceOK)*)
(* and whoever undoes or refunds is alone and saw what is still so (JobOK).*)
(***************************************************************************)

(* Months are numbers, from the first; what runs together is at most what   *)
(* the screens and the daily job may run together.                          *)
OfDues ==
    /\ Part = "dues"
    /\ DueId \subseteq Nat /\ 1 \in DueId /\ Rent \in Nat
    /\ DueId \cap InvoiceId = {} /\ None \notin DueId /\ None \notin InvoiceId
    /\ Together \subseteq {"dues", "record", "expense", "overdue"}

Expensing(p) == \E w \in Worker : job[w].op = "expense" /\ job[w].of = p

DueOK(d) ==
    /\ due[d].rows <= 1 /\ (due[d].rows = 0 <=> due[d].status = "none")
    /\ told[d] = (IF due[d].noticed THEN 1 ELSE 0)
    /\ due[d].status = "SUCCEEDED" /\ ~ Expensing(d) => ChairExpense[d] = Rent /\ due[d].linked
    /\ due[d].status # "SUCCEEDED" => ChairExpense[d] = 0 /\ ~ Expensing(d)
    /\ Expensing(d) => ChairExpense[d] = 0

InvoiceOK(i) ==
    /\ ChairInvoice[i].status = "SUCCEEDED" /\ ~ Expensing(i) =>
         /\ ChairExpense[i] = Rent - ChairInvoice[i].back
         /\ ChairInvoice[i].back < Rent => ChairInvoice[i].linked
    /\ ChairInvoice[i].status # "SUCCEEDED" => ChairExpense[i] = 0 /\ ~ Expensing(i) /\ ChairInvoice[i].back = 0
    /\ Expensing(i) => ChairExpense[i] = 0 /\ ChairInvoice[i].back = 0

Alone == {"undo", "invoice", "refund"}

JobOK(w) ==
    /\ job[w].op \in {"record", "undo", "overdue"} => job[w].of \in DueId
    /\ job[w].op = "expense" => job[w].of \in Chair!Payment
    /\ job[w].op = "refund" => job[w].of \in InvoiceId
    /\ job[w].op \in Alone => \A v \in Worker : v # w => job[v] = Chair!Idle
    /\ job[w].op = "undo" => due[job[w].of].status = "SUCCEEDED" /\ job[w].seen
    /\ job[w].op = "refund" => /\ ChairInvoice[job[w].of].status = "SUCCEEDED"
                               /\ job[w].seen <=> ChairInvoice[job[w].of].linked
    /\ job[w].op = "expense" => \A v \in Worker :
         job[v].op = "expense" /\ job[v].of = job[w].of => v = w

ChairDInv ==
    /\ Chair!DuesTypeOK
    /\ \A d \in DueId : DueOK(d)
    /\ \A i \in InvoiceId : InvoiceOK(i)
    /\ \A w \in Worker : JobOK(w)

LEMMA ChairInitD == OfDues /\ Chair!Init => ChairDInv
<1> SUFFICES ASSUME OfDues, Chair!Init PROVE ChairDInv
  OBVIOUS
<1>1. Chair!DuesInit
  BY DEF OfDues, Chair!Init
<1>2. Chair!Idle \in Chair!Job /\ Chair!Idle.op = "idle" /\ Chair!Idle.of = None
  BY DEF Chair!Idle, Chair!Job, OfDues
<1>3. job \in [Worker -> Chair!Job] /\ \A w \in Worker : job[w] = Chair!Idle
  BY <1>1, <1>2 DEF Chair!DuesInit
<1>4. due \in [DueId -> Chair!Due] /\ \A d \in DueId : due[d].rows = 0 /\ due[d].status = "none" /\ ~ due[d].noticed
  BY <1>1 DEF Chair!DuesInit, Chair!Due
<1>5. ChairInvoice \in [InvoiceId -> Chair!Invoice] /\ \A i \in InvoiceId : ChairInvoice[i].status = "none" /\ ChairInvoice[i].back = 0
  BY <1>1 DEF Chair!DuesInit, Chair!Invoice, OfDues
<1>6. /\ ChairExpense \in [Chair!Payment -> Nat] /\ told \in [DueId -> Nat]
      /\ \A p \in Chair!Payment : ChairExpense[p] = 0
      /\ \A d \in DueId : told[d] = 0
  BY <1>1 DEF Chair!DuesInit
<1>7. Chair!DuesTypeOK
  BY <1>1, <1>3, <1>4, <1>5, <1>6 DEF Chair!DuesTypeOK, Chair!DuesInit, OfDues
<1>8. \A p : ~ Expensing(p)
  BY <1>2, <1>3 DEF Expensing
<1>9. \A d \in DueId : DueOK(d)
  BY <1>4, <1>6, <1>8 DEF DueOK, Chair!Payment
<1>10. \A i \in InvoiceId : InvoiceOK(i)
  BY <1>5, <1>6, <1>8 DEF InvoiceOK, Chair!Payment
<1>11. \A w \in Worker : JobOK(w)
  BY <1>2, <1>3 DEF JobOK, Alone
<1> QED  BY <1>7, <1>9, <1>10, <1>11 DEF ChairDInv

(* Jobs *)
LEMMA IdleFields == OfDues => /\ Chair!Idle \in Chair!Job /\ Chair!Idle.op = "idle" /\ Chair!Idle.of = None
                              /\ Chair!Idle.months = {} /\ Chair!Idle.value = 0
BY DEF Chair!Idle, Chair!Job, OfDues

LEMMA NewJob ==
    ASSUME OfDues, NEW p \in Chair!Payment, NEW op \in {"record", "expense", "undo", "overdue"}
    PROVE  LET j == [Chair!Idle EXCEPT !.op = op, !.of = p] IN j \in Chair!Job /\ j.op = op /\ j.of = p
BY IdleFields DEF Chair!Job

LEMMA ExpenseJob ==
    ASSUME OfDues, NEW p \in Chair!Payment
    PROVE  LET j == [Chair!Idle EXCEPT !.op = "expense", !.of = p] IN
           j \in Chair!Job /\ j.op = "expense" /\ j.of = p
BY IdleFields DEF Chair!Job

LEMMA RecordJob ==
    ASSUME OfDues, NEW p \in Chair!Payment, NEW b \in BOOLEAN
    PROVE  LET j == [Chair!Idle EXCEPT !.op = "record", !.of = p, !.seen = b] IN
           j \in Chair!Job /\ j.op = "record" /\ j.of = p
BY IdleFields DEF Chair!Job

LEMMA UndoJob ==
    ASSUME OfDues, NEW p \in Chair!Payment, NEW b \in BOOLEAN
    PROVE  LET j == [Chair!Idle EXCEPT !.op = "undo", !.of = p, !.seen = b] IN
           j \in Chair!Job /\ j.op = "undo" /\ j.of = p /\ (j.seen <=> b)
BY IdleFields DEF Chair!Job

LEMMA RefundJob ==
    ASSUME OfDues, NEW p \in Chair!Payment, NEW b \in BOOLEAN, NEW n \in 0 .. Rent
    PROVE  LET j == [Chair!Idle EXCEPT !.op = "refund", !.of = p, !.seen = b, !.value = n] IN
           j \in Chair!Job /\ j.op = "refund" /\ j.of = p /\ (j.seen <=> b)
BY IdleFields DEF Chair!Job

LEMMA DuesJob ==
    ASSUME OfDues, NEW ms \in SUBSET DueId
    PROVE  LET j == [Chair!Idle EXCEPT !.op = "dues", !.months = ms] IN j \in Chair!Job /\ j.op = "dues"
BY IdleFields DEF Chair!Job

LEMMA JobsKept ==
    ASSUME job \in [Worker -> Chair!Job], NEW w \in Worker, NEW j \in Chair!Job, job' = [job EXCEPT ![w] = j]
    PROVE  /\ job' \in [Worker -> Chair!Job]
           /\ job'[w] = j /\ \A v \in Worker : v # w => job'[v] = job[v]
OBVIOUS

(* What one request does to who owes an expense *)
LEMMA ExpensingKept ==
    ASSUME job \in [Worker -> Chair!Job], NEW w \in Worker, NEW j \in Chair!Job, job' = [job EXCEPT ![w] = j],
           NEW p
    PROVE  /\ (job[w].op # "expense" \/ job[w].of # p) /\ (j.op # "expense" \/ j.of # p)
                => (Expensing(p)' <=> Expensing(p))
           /\ j.op = "expense" /\ j.of = p => Expensing(p)'
           /\ /\ job[w].op = "expense" /\ JobOK(w) /\ job[w].of = p
              /\ j.op # "expense" \/ j.of # p
              => ~ Expensing(p)'
BY JobsKept DEF Expensing, JobOK

(* Whoever is alone is the only one that acts. *)
LEMMA NobodyAlone ==
    ASSUME OfDues, ChairDInv, NEW w \in Worker,
           job[w].op # "idle" \/ \E op : Chair!Free(w, op)
    PROVE  \A v \in Worker : v # w => job[v].op \notin Alone
<1>1. CASE job[w].op # "idle"
  BY <1>1, IdleFields DEF ChairDInv, JobOK
<1>2. CASE \E op : Chair!Free(w, op)
  <2>1. PICK op : Chair!Free(w, op)
    BY <1>2
  <2> QED  BY <2>1, IdleFields DEF Chair!Free, Alone, OfDues
<1> QED  BY <1>1, <1>2

LEMMA FreeAlone ==
    ASSUME OfDues, NEW op \in Alone, NEW w \in Worker, Chair!Free(w, op)
    PROVE  \A v \in Worker : job[v] = Chair!Idle
BY DEF Chair!Free, Alone, OfDues

LEMMA OthersOK ==
    ASSUME ChairDInv, NEW w \in Worker, NEW j \in Chair!Job, job' = [job EXCEPT ![w] = j],
           \A v \in Worker : v # w => job[v].op \notin Alone,
           j.op = "expense" => ~ Expensing(j.of)
    PROVE  \A v \in Worker : v # w => JobOK(v)'
<1>1. job \in [Worker -> Chair!Job]
  BY DEF ChairDInv, Chair!DuesTypeOK
<1>2. job'[w] = j /\ \A v \in Worker : v # w => job'[v] = job[v]
  BY <1>1, JobsKept
<1> SUFFICES ASSUME NEW v \in Worker, v # w PROVE JobOK(v)'
  OBVIOUS
<1>3. job'[v] = job[v] /\ JobOK(v) /\ job[v].op \notin Alone
  BY <1>2 DEF ChairDInv
<1>4. job[v].op = "expense" => \A x \in Worker :
        job'[x].op = "expense" /\ job'[x].of = job[v].of => x = v
  BY <1>2, <1>3 DEF JobOK, Expensing
<1> QED  BY <1>3, <1>4 DEF JobOK, Alone

(* A step that starts or ends a request and writes nothing else *)
LEMMA OnlyJob ==
    ASSUME OfDues, ChairDInv, NEW w \in Worker, NEW j \in Chair!Job, job' = [job EXCEPT ![w] = j],
           j.op # "expense", job[w].op # "expense", JobOK(w)',
           \A v \in Worker : v # w => job[v].op \notin Alone,
           UNCHANGED <<today, due, ChairInvoice, paidUntil, ChairExpense, told, drawer>>
    PROVE  ChairDInv'
<1>1. job \in [Worker -> Chair!Job]
  BY DEF ChairDInv, Chair!DuesTypeOK
<1>2. Chair!DuesTypeOK'
  BY <1>1, JobsKept DEF ChairDInv, Chair!DuesTypeOK
<1>3. \A p : Expensing(p)' <=> Expensing(p)
  BY <1>1, ExpensingKept
<1>4. \A d \in DueId : DueOK(d)'
  BY <1>3 DEF ChairDInv, DueOK
<1>5. \A i \in InvoiceId : InvoiceOK(i)'
  BY <1>3 DEF ChairDInv, InvoiceOK
<1>6. \A v \in Worker : JobOK(v)'
  BY OthersOK
<1> QED  BY <1>2, <1>4, <1>5, <1>6 DEF ChairDInv

LEMMA EndsOnly ==
    ASSUME OfDues, ChairDInv, NEW w \in Worker, Chair!Ends(w), job[w].op \notin {"idle", "expense"},
           UNCHANGED <<today, due, ChairInvoice, paidUntil, ChairExpense, told, drawer>>
    PROVE  ChairDInv'
<1>1. PICK j \in Chair!Job : j = Chair!Idle /\ j.op = "idle"
  BY IdleFields
<1>2. job' = [job EXCEPT ![w] = j]
  BY <1>1 DEF Chair!Ends
<1>3. \A v \in Worker : v # w => job[v].op \notin Alone
  BY NobodyAlone
<1>4. JobOK(w)'
  BY <1>2, JobsKept, <1>1 DEF ChairDInv, Chair!DuesTypeOK, JobOK, Alone
<1> QED  BY <1>1, <1>2, <1>3, <1>4, OnlyJob

(***************************************************************************)
(* The steps                                                               *)
(***************************************************************************)

LEMMA ClockD ==
    ASSUME OfDues, ChairDInv, Chair!MonthBegins \/ Chair!CashClosing PROVE ChairDInv'
BY DEF Chair!MonthBegins, Chair!CashClosing, ChairDInv, Chair!DuesTypeOK, Expensing,
       DueOK, InvoiceOK, JobOK

LEMMA ReadsD ==
    ASSUME OfDues, ChairDInv, NEW w \in Worker,
           \/ Chair!DuesReads(w)
           \/ \E d \in DueId : Chair!RecordReads(w, d) \/ Chair!UndoReads(w, d) \/ Chair!OverdueReads(w, d)
           \/ \E i \in InvoiceId : Chair!RefundReads(w, i)
    PROVE  ChairDInv'
<1>1. UNCHANGED <<today, due, ChairInvoice, paidUntil, ChairExpense, told, drawer>> /\ job[w] = Chair!Idle
  BY DEF Chair!DuesReads, Chair!RecordReads, Chair!UndoReads, Chair!OverdueReads,
         Chair!RefundReads, Chair!Free
<1>2. \E op : Chair!Free(w, op)
  BY DEF Chair!DuesReads, Chair!RecordReads, Chair!UndoReads, Chair!OverdueReads,
         Chair!RefundReads
<1>3. \A v \in Worker : v # w => job[v].op \notin Alone
  BY <1>2, NobodyAlone
<1>4. job \in [Worker -> Chair!Job] /\ job[w].op = "idle"
  BY <1>1, IdleFields DEF ChairDInv, Chair!DuesTypeOK
<1>5. CASE Chair!DuesReads(w)
  <2>1. PICK ms \in SUBSET DueId : job' = [job EXCEPT ![w] = [Chair!Idle EXCEPT !.op = "dues", !.months = ms]]
    BY <1>5 DEF Chair!DuesReads
  <2>2. PICK j \in Chair!Job : j = [Chair!Idle EXCEPT !.op = "dues", !.months = ms] /\ j.op = "dues"
    BY DuesJob
  <2>3. job' = [job EXCEPT ![w] = j]
    BY <2>1, <2>2
  <2>4. JobOK(w)'
    BY <1>4, <2>2, <2>3 DEF JobOK, Alone
  <2> QED  BY <1>1, <1>3, <1>4, <2>2, <2>3, <2>4, OnlyJob
<1>6. CASE \E d \in DueId : Chair!RecordReads(w, d) \/ Chair!OverdueReads(w, d)
  <2>1. PICK d \in DueId : Chair!RecordReads(w, d) \/ Chair!OverdueReads(w, d)
    BY <1>6
  <2>2. PICK j \in Chair!Job : /\ j.op \in {"record", "overdue"} /\ j.of = d
                               /\ job' = [job EXCEPT ![w] = j]
    <3>1. d \in Chair!Payment
      BY DEF Chair!Payment
    <3>2. CASE Chair!RecordReads(w, d)
      <4>1. PICK b \in BOOLEAN : job' = [job EXCEPT ![w] =
              [Chair!Idle EXCEPT !.op = "record", !.of = d, !.seen = b]]
        <5>1. PICK cash \in BOOLEAN : job' = [job EXCEPT ![w] =
                [Chair!Idle EXCEPT !.op = "record", !.of = d, !.seen = (cash /\ drawer = "open")]]
          BY <3>2 DEF Chair!RecordReads
        <5>2. (cash /\ drawer = "open") \in BOOLEAN
          OBVIOUS
        <5> QED  BY <5>1, <5>2, Zenon
      <4>2. /\ [Chair!Idle EXCEPT !.op = "record", !.of = d, !.seen = b] \in Chair!Job
            /\ [Chair!Idle EXCEPT !.op = "record", !.of = d, !.seen = b].op = "record"
            /\ [Chair!Idle EXCEPT !.op = "record", !.of = d, !.seen = b].of = d
        BY <3>1, RecordJob
      <4> QED  BY <4>1, <4>2
    <3>3. CASE Chair!OverdueReads(w, d)
      BY <3>1, <3>3, NewJob DEF Chair!OverdueReads, Chair!Doing
    <3> QED  BY <2>1, <3>2, <3>3
  <2>3. JobOK(w)'
    BY <1>4, <2>2 DEF JobOK, Alone
  <2> QED  BY <1>1, <1>3, <1>4, <2>2, <2>3, OnlyJob
<1>7. CASE \E d \in DueId : Chair!UndoReads(w, d)
  <2>1. PICK d \in DueId : Chair!UndoReads(w, d)
    BY <1>7
  <2>2. \A v \in Worker : job[v] = Chair!Idle
    BY <2>1, FreeAlone DEF Chair!UndoReads, Alone
  <2>3. due[d].status = "SUCCEEDED" /\ due[d].linked
    BY <2>1, <2>2, IdleFields DEF Chair!UndoReads, Expensing, ChairDInv, DueOK
  <2>4. PICK b \in BOOLEAN : b = due[d].linked
    <3>1. due[d].linked \in BOOLEAN
      BY DEF ChairDInv, Chair!DuesTypeOK, Chair!Due
    <3> QED  BY <3>1, Zenon
  <2>5. PICK j \in Chair!Job : /\ j = [Chair!Idle EXCEPT !.op = "undo", !.of = d, !.seen = b]
                               /\ j.op = "undo" /\ j.of = d /\ (j.seen <=> b)
    BY UndoJob DEF Chair!Payment
  <2>6. job' = [job EXCEPT ![w] = j]
    BY <2>1, <2>4, <2>5 DEF Chair!UndoReads
  <2>7. job'[w] = j /\ \A v \in Worker : v # w => job'[v] = Chair!Idle
    BY <1>4, <2>2, <2>6, JobsKept
  <2>8. JobOK(w)'
    BY <1>1, <2>3, <2>4, <2>5, <2>7 DEF JobOK
  <2> QED  BY <1>1, <1>3, <1>4, <2>5, <2>6, <2>8, OnlyJob
<1>8. CASE \E i \in InvoiceId : Chair!RefundReads(w, i)
  <2>1. PICK i \in InvoiceId : Chair!RefundReads(w, i)
    BY <1>8
  <2>2. \A v \in Worker : job[v] = Chair!Idle
    BY <2>1, FreeAlone DEF Chair!RefundReads, Alone
  <2>3. ChairInvoice[i].status = "SUCCEEDED"
    BY <2>1 DEF Chair!RefundReads
  <2>4. PICK b \in BOOLEAN : b = ChairInvoice[i].linked
    <3>1. ChairInvoice[i].linked \in BOOLEAN
      BY DEF ChairDInv, Chair!DuesTypeOK, Chair!Invoice
    <3> QED  BY <3>1, Zenon
  <2>5. PICK n \in 1 .. Rent : job' =
          [job EXCEPT ![w] = [Chair!Idle EXCEPT !.op = "refund", !.of = i, !.seen = b, !.value = n]]
    BY <2>1, <2>4 DEF Chair!RefundReads
  <2>6. n \in 0 .. Rent
    BY <2>5 DEF OfDues
  <2>7. PICK j \in Chair!Job : /\ j = [Chair!Idle EXCEPT !.op = "refund", !.of = i, !.seen = b, !.value = n]
                               /\ j.op = "refund" /\ j.of = i /\ (j.seen <=> b)
    <3>1. i \in Chair!Payment
      BY DEF Chair!Payment
    <3> QED  BY <2>6, <3>1, RefundJob
  <2>8. job' = [job EXCEPT ![w] = j]
    BY <2>5, <2>7
  <2>9. job'[w] = j /\ \A v \in Worker : v # w => job'[v] = Chair!Idle
    BY <1>4, <2>2, <2>8, JobsKept
  <2>10. JobOK(w)'
    BY <1>1, <2>3, <2>4, <2>7, <2>9 DEF JobOK
  <2> QED  BY <1>1, <1>3, <1>4, <2>7, <2>8, <2>10, OnlyJob
<1> QED  BY <1>5, <1>6, <1>7, <1>8

LEMMA OwedRecord ==
    ASSUME NEW r \in Chair!Due
    PROVE  LET q == [r EXCEPT !.rows = 1, !.status = "DUE"] IN
           /\ q \in Chair!Due /\ q.rows = 1 /\ q.status = "DUE" /\ (q.noticed <=> r.noticed)
<1>1. 1 \in 0 .. 2
  OBVIOUS
<1> QED  BY <1>1 DEF Chair!Due

LEMMA LinkedRecord ==
    ASSUME NEW r \in Chair!Due
    PROVE  LET q == [r EXCEPT !.linked = TRUE] IN
           /\ q \in Chair!Due /\ q.rows = r.rows /\ q.status = r.status /\ (q.noticed <=> r.noticed)
           /\ q.linked
BY DEF Chair!Due

LEMMA UndoneRecord ==
    ASSUME NEW r \in Chair!Due
    PROVE  LET q == [r EXCEPT !.status = "DUE", !.cash = FALSE, !.linked = FALSE] IN
           /\ q \in Chair!Due /\ q.rows = r.rows /\ q.status = "DUE" /\ (q.noticed <=> r.noticed)
BY DEF Chair!Due

LEMMA NoticedRecord ==
    ASSUME NEW r \in Chair!Due
    PROVE  LET q == [r EXCEPT !.noticed = TRUE] IN
           /\ q \in Chair!Due /\ q.rows = r.rows /\ q.status = r.status /\ q.noticed
           /\ q.linked <=> r.linked
BY DEF Chair!Due

LEMMA PaidRecord ==
    ASSUME NEW r \in Chair!Due, NEW b \in BOOLEAN
    PROVE  LET q == [r EXCEPT !.status = "SUCCEEDED", !.cash = b] IN
           /\ q \in Chair!Due /\ q.rows = r.rows /\ q.status = "SUCCEEDED" /\ (q.noticed <=> r.noticed)
BY DEF Chair!Due

(* What a request leaves behind when it ends *)
LEMMA EndsOK ==
    ASSUME OfDues, ChairDInv, NEW w \in Worker, Chair!Ends(w), job[w].op # "idle"
    PROVE  /\ job' \in [Worker -> Chair!Job] /\ \A v \in Worker : JobOK(v)'
           /\ job[w].op # "expense" => \A p : Expensing(p)' <=> Expensing(p)
           /\ job[w].op = "expense" =>
                /\ \A p : p = job[w].of => ~ Expensing(p)'
                /\ \A p : p # job[w].of => (Expensing(p)' <=> Expensing(p))
<1>1. PICK j \in Chair!Job : j = Chair!Idle /\ j.op = "idle" /\ j.of = None
  BY IdleFields
<1>2. job' = [job EXCEPT ![w] = j] /\ job \in [Worker -> Chair!Job] /\ JobOK(w)
  BY <1>1 DEF Chair!Ends, ChairDInv, Chair!DuesTypeOK
<1>3. \A v \in Worker : v # w => job[v].op \notin Alone
  BY NobodyAlone
<1>4. job' \in [Worker -> Chair!Job] /\ job'[w] = j
  BY <1>2, JobsKept
<1>5. \A v \in Worker : JobOK(v)'
  <2>1. JobOK(w)'
    BY <1>1, <1>4 DEF JobOK, Alone
  <2>2. \A v \in Worker : v # w => JobOK(v)'
    BY <1>1, <1>2, <1>3, OthersOK
  <2> QED  BY <2>1, <2>2
<1>6. job[w].op # "expense" => \A p : Expensing(p)' <=> Expensing(p)
  BY <1>1, <1>2, ExpensingKept
<1>7. job[w].op = "expense" => \A p : p = job[w].of => ~ Expensing(p)'
  BY <1>1, <1>2, ExpensingKept
<1>8. \A p : p # job[w].of => (Expensing(p)' <=> Expensing(p))
  BY <1>1, <1>2, ExpensingKept
<1> QED  BY <1>4, <1>5, <1>6, <1>7, <1>8

LEMMA ChairRows ==
    ChairDInv => /\ due \in [DueId -> Chair!Due] /\ ChairInvoice \in [InvoiceId -> Chair!Invoice]
                 /\ ChairExpense \in [Chair!Payment -> Nat] /\ told \in [DueId -> Nat]
                 /\ job \in [Worker -> Chair!Job]
BY DEF ChairDInv, Chair!DuesTypeOK

LEMMA EnsureDuesD ==
    ASSUME OfDues, ChairDInv, NEW w \in Worker, Chair!EnsureDues(w) PROVE ChairDInv'
<1>1. /\ Chair!Ends(w) /\ job[w].op = "dues" /\ UNCHANGED <<today, ChairInvoice, paidUntil, ChairExpense, told, drawer>>
      /\ due' = [d \in DueId |->
                  IF d \in job[w].months /\ Chair!Created(d)
                  THEN [due[d] EXCEPT !.rows = @ + 1, !.status = "DUE"] ELSE due[d]]
  BY DEF Chair!EnsureDues
<1>2. /\ job' \in [Worker -> Chair!Job] /\ (\A v \in Worker : JobOK(v)')
      /\ \A p : Expensing(p)' <=> Expensing(p)
  BY <1>1, EndsOK
<1>3. \A d \in DueId : /\ due'[d] \in Chair!Due
                       /\ \/ due'[d] = due[d]
                          \/ /\ due[d].rows = 0 /\ due'[d].rows = 1 /\ due'[d].status = "DUE"
                             /\ due'[d].noticed <=> due[d].noticed
  <2> SUFFICES ASSUME NEW d \in DueId
               PROVE  /\ due'[d] \in Chair!Due
                      /\ \/ due'[d] = due[d]
                         \/ /\ due[d].rows = 0 /\ due'[d].rows = 1 /\ due'[d].status = "DUE"
                            /\ due'[d].noticed <=> due[d].noticed
    OBVIOUS
  <2>1. due[d] \in Chair!Due
    BY ChairRows
  <2>2. CASE d \in job[w].months /\ Chair!Created(d)
    <3>1. due[d].rows = 0
      BY <2>2 DEF Chair!Created
    <3>2. due'[d] = [due[d] EXCEPT !.rows = due[d].rows + 1, !.status = "DUE"]
      BY <1>1, <2>2
    <3>3. due'[d] = [due[d] EXCEPT !.rows = 1, !.status = "DUE"]
      BY <3>1, <3>2
    <3>4. PICK q \in Chair!Due : /\ q = [due[d] EXCEPT !.rows = 1, !.status = "DUE"]
                                 /\ q.rows = 1 /\ q.status = "DUE" /\ (q.noticed <=> due[d].noticed)
      BY <2>1, OwedRecord
    <3> QED  BY <3>1, <3>3, <3>4
  <2>3. CASE ~ (d \in job[w].months /\ Chair!Created(d))
    BY <1>1, <2>1, <2>3
  <2> QED  BY <2>2, <2>3
<1>4. Chair!DuesTypeOK'
  BY <1>1, <1>2, <1>3 DEF ChairDInv, Chair!DuesTypeOK
<1>5. \A d \in DueId : DueOK(d)'
  <2> SUFFICES ASSUME NEW d \in DueId PROVE DueOK(d)'
    OBVIOUS
  <2>1. DueOK(d)
    BY DEF ChairDInv
  <2>2. CASE due'[d] = due[d]
    BY <1>1, <1>2, <2>1, <2>2 DEF DueOK
  <2>3. CASE /\ due[d].rows = 0 /\ due'[d].rows = 1 /\ due'[d].status = "DUE"
             /\ due'[d].noticed <=> due[d].noticed
    <3>1. UNCHANGED <<ChairExpense, told>> /\ (Expensing(d)' <=> Expensing(d))
      BY <1>1, <1>2
    <3> QED  BY <2>1, <2>3, <3>1 DEF DueOK
  <2> QED  BY <1>3, <2>2, <2>3
<1>6. \A i \in InvoiceId : InvoiceOK(i)'
  BY <1>1, <1>2 DEF ChairDInv, InvoiceOK
<1> QED  BY <1>2, <1>4, <1>5, <1>6 DEF ChairDInv

LEMMA RecordPaymentD ==
    ASSUME OfDues, ChairDInv, NEW w \in Worker, Chair!RecordPayment(w) PROVE ChairDInv'
<1>1. /\ job[w].op = "record" /\ UNCHANGED <<today, ChairInvoice, paidUntil, ChairExpense, told, drawer>>
      /\ job[w].of \in DueId /\ job[w] \in Chair!Job
  BY ChairRows DEF Chair!RecordPayment, ChairDInv, JobOK
<1>2. PICK d \in DueId : d = job[w].of
  BY <1>1
<1>3. CASE UNCHANGED due /\ Chair!Ends(w)
  BY <1>1, <1>3, EndsOnly
<1>4. CASE /\ Chair!ClaimsDue(d)
           /\ due' = [due EXCEPT ![d].status = "SUCCEEDED", ![d].cash = job[w].seen]
           /\ Chair!Doing(w, "expense", d)
  <2>1. d \in Chair!Payment
    BY DEF Chair!Payment
  <2>2. PICK j \in Chair!Job : j = [Chair!Idle EXCEPT !.op = "expense", !.of = d] /\ j.op = "expense" /\ j.of = d
    BY <2>1, ExpenseJob
  <2>3. job' = [job EXCEPT ![w] = j] /\ job \in [Worker -> Chair!Job]
    BY <1>4, <2>2, ChairRows DEF Chair!Doing
  <2>4. PICK b \in BOOLEAN : b = job[w].seen
    <3>1. job[w].seen \in BOOLEAN
      BY <1>1 DEF Chair!Job
    <3> QED  BY <3>1, Zenon
  <2>5. due[d] \in Chair!Due /\ DueOK(d) /\ due[d].status = "DUE"
    BY <1>4, ChairRows DEF ChairDInv, Chair!ClaimsDue
  <2>6. PICK q \in Chair!Due : /\ q = [due[d] EXCEPT !.status = "SUCCEEDED", !.cash = b]
                               /\ q.rows = due[d].rows /\ q.status = "SUCCEEDED"
                               /\ q.noticed <=> due[d].noticed
    BY <2>5, PaidRecord
  <2>7. due' = [due EXCEPT ![d] = q]
    BY <1>4, <2>4, ChairRows, <2>6
  <2>8. due' \in [DueId -> Chair!Due] /\ due'[d] = q /\ \A x \in DueId : x # d => due'[x] = due[x]
    BY <2>7, ChairRows
  <2>9. ChairExpense[d] = 0 /\ ~ Expensing(d)
    BY <2>5 DEF DueOK
  <2>10. Expensing(d)' /\ \A p : p # d => (Expensing(p)' <=> Expensing(p))
    BY <1>1, <2>2, <2>3, ExpensingKept
  <2>11. job' \in [Worker -> Chair!Job] /\ job'[w] = j
    BY <2>3, JobsKept
  <2>12. Chair!DuesTypeOK'
    BY <1>1, <2>8, <2>11 DEF ChairDInv, Chair!DuesTypeOK
  <2>13. \A x \in DueId : DueOK(x)'
    <3> SUFFICES ASSUME NEW x \in DueId PROVE DueOK(x)'
      OBVIOUS
    <3>1. CASE x = d
      BY <1>1, <2>5, <2>6, <2>8, <2>9, <2>10, <3>1 DEF DueOK
    <3>2. CASE x # d
      BY <2>8, <2>10, <3>2, <1>1 DEF ChairDInv, DueOK
    <3> QED  BY <3>1, <3>2
  <2>14. \A i \in InvoiceId : InvoiceOK(i)'
    <3> SUFFICES ASSUME NEW i \in InvoiceId PROVE InvoiceOK(i)'
      OBVIOUS
    <3>1. InvoiceOK(i) /\ (Expensing(i)' <=> Expensing(i))
      BY <2>10 DEF ChairDInv, OfDues
    <3> QED  BY <1>1, <3>1 DEF InvoiceOK
  <2>15. \A v \in Worker : JobOK(v)'
    <3>1. \A v \in Worker : v # w => job[v].op \notin Alone
      BY <1>1, NobodyAlone
    <3>2. \A v \in Worker : v # w => JobOK(v)'
      BY <2>2, <2>3, <2>9, <3>1, OthersOK
    <3>3. \A v \in Worker : v # w => ~ (job'[v].op = "expense" /\ job'[v].of = d)
      BY <2>3, <2>9, JobsKept DEF Expensing
    <3>4. JobOK(w)'
      BY <2>1, <2>2, <2>11, <3>3 DEF JobOK, Alone
    <3> QED  BY <3>2, <3>4
  <2> QED  BY <2>12, <2>13, <2>14, <2>15 DEF ChairDInv
<1> QED  BY <1>2, <1>3, <1>4 DEF Chair!RecordPayment

LEMMA RecordsExpenseD ==
    ASSUME OfDues, ChairDInv, NEW w \in Worker, Chair!RecordsExpense(w) PROVE ChairDInv'
<1>1. /\ job[w].op = "expense" /\ Chair!Ends(w) /\ UNCHANGED <<today, paidUntil, told, drawer>>
      /\ job[w].of \in Chair!Payment
  BY DEF Chair!RecordsExpense, ChairDInv, JobOK
<1>2. PICK p \in Chair!Payment : p = job[w].of
  BY <1>1
<1>3. Expensing(p) /\ ChairExpense[p] \in Nat
  BY <1>1, <1>2, ChairRows DEF Expensing
<1>4. ChairExpense[p] = 0
  BY <1>3 DEF ChairDInv, DueOK, InvoiceOK, Chair!Payment
<1>5. /\ ChairExpense' \in [Chair!Payment -> Nat] /\ ChairExpense'[p] = Rent
      /\ \A q \in Chair!Payment : q # p => ChairExpense'[q] = ChairExpense[q]
  BY <1>2, <1>4, ChairRows DEF Chair!RecordsExpense, OfDues
<1>6. /\ job' \in [Worker -> Chair!Job] /\ (\A v \in Worker : JobOK(v)')
      /\ ~ Expensing(p)' /\ \A q : q # p => (Expensing(q)' <=> Expensing(q))
  BY <1>1, <1>2, EndsOK
<1>7. /\ due' \in [DueId -> Chair!Due]
      /\ \A d \in DueId :
            IF d = p
            THEN /\ due'[d].rows = due[d].rows /\ due'[d].status = due[d].status
                 /\ due'[d].noticed <=> due[d].noticed
                 /\ due'[d].linked
            ELSE due'[d] = due[d]
  <2>1. CASE p \in DueId
    <3>1. PICK q \in Chair!Due : /\ q = [due[p] EXCEPT !.linked = TRUE]
                                 /\ q.rows = due[p].rows /\ q.status = due[p].status
                                 /\ q.noticed <=> due[p].noticed
                                 /\ q.linked
      BY <2>1, LinkedRecord, ChairRows
    <3>2. due' = [due EXCEPT ![p] = q]
      BY <1>2, <2>1, <3>1 DEF Chair!RecordsExpense
    <3> QED  BY <2>1, <3>1, <3>2, ChairRows
  <2>2. CASE p \notin DueId
    BY <1>2, <2>2, ChairRows DEF Chair!RecordsExpense
  <2> QED  BY <2>1, <2>2
<1>8. /\ ChairInvoice' \in [InvoiceId -> Chair!Invoice]
      /\ \A i \in InvoiceId :
            IF i = p
            THEN /\ ChairInvoice'[i].status = ChairInvoice[i].status /\ ChairInvoice'[i].back = ChairInvoice[i].back
                 /\ ChairInvoice'[i].linked
            ELSE ChairInvoice'[i] = ChairInvoice[i]
  <2>1. CASE p \in InvoiceId
    <3>1. PICK q \in Chair!Invoice : /\ q = [ChairInvoice[p] EXCEPT !.linked = TRUE]
                                     /\ q.status = ChairInvoice[p].status /\ q.back = ChairInvoice[p].back
                                     /\ q.linked
      <4>1. \A r \in Chair!Invoice : /\ [r EXCEPT !.linked = TRUE] \in Chair!Invoice
                                     /\ [r EXCEPT !.linked = TRUE].status = r.status
                                     /\ [r EXCEPT !.linked = TRUE].back = r.back
                                     /\ [r EXCEPT !.linked = TRUE].linked
        BY DEF Chair!Invoice
      <4> QED  BY <2>1, <4>1, ChairRows
    <3>2. ChairInvoice' = [ChairInvoice EXCEPT ![p] = q]
      BY <1>2, <2>1, <3>1 DEF Chair!RecordsExpense
    <3> QED  BY <2>1, <3>1, <3>2, ChairRows
  <2>2. CASE p \notin InvoiceId
    BY <1>2, <2>2, ChairRows DEF Chair!RecordsExpense
  <2> QED  BY <2>1, <2>2
<1>9. Chair!DuesTypeOK'
  BY <1>1, <1>5, <1>6, <1>7, <1>8 DEF ChairDInv, Chair!DuesTypeOK
<1>10. \A d \in DueId : DueOK(d)'
  <2> SUFFICES ASSUME NEW d \in DueId PROVE DueOK(d)'
    OBVIOUS
  <2>1. DueOK(d) /\ d \in Chair!Payment
    BY DEF ChairDInv, Chair!Payment
  <2>2. CASE d = p
    BY <1>3, <2>1, <2>2, <1>1, <1>5, <1>6, <1>7 DEF DueOK
  <2>3. CASE d # p
    BY <1>1, <1>5, <1>6, <1>7, <2>1, <2>3 DEF DueOK
  <2> QED  BY <2>2, <2>3
<1>11. \A i \in InvoiceId : InvoiceOK(i)'
  <2> SUFFICES ASSUME NEW i \in InvoiceId PROVE InvoiceOK(i)'
    OBVIOUS
  <2>1. InvoiceOK(i) /\ i \in Chair!Payment /\ ChairInvoice[i].back \in Int /\ Rent \in Int
    BY ChairRows DEF ChairDInv, Chair!Payment, Chair!Invoice, OfDues
  <2>2. CASE i = p
    BY <1>3, <2>1, <2>2, <1>5, <1>6, <1>8 DEF InvoiceOK
  <2>3. CASE i # p
    BY <1>5, <1>6, <1>8, <2>1, <2>3 DEF InvoiceOK
  <2> QED  BY <2>2, <2>3
<1> QED  BY <1>6, <1>9, <1>10, <1>11 DEF ChairDInv

LEMMA UndoPaymentD ==
    ASSUME OfDues, ChairDInv, NEW w \in Worker, Chair!UndoPayment(w) PROVE ChairDInv'
<1>1. /\ job[w].op = "undo" /\ Chair!Ends(w) /\ UNCHANGED <<today, ChairInvoice, paidUntil, told, drawer>>
      /\ job[w].of \in DueId /\ job[w].seen /\ due[job[w].of].status = "SUCCEEDED"
      /\ \A v \in Worker : v # w => job[v] = Chair!Idle
  BY DEF Chair!UndoPayment, ChairDInv, JobOK, Alone
<1>2. PICK d \in DueId : d = job[w].of /\ due[d].status = "SUCCEEDED"
  BY <1>1
<1>3. d \in Chair!Payment /\ DueOK(d) /\ due[d] \in Chair!Due /\ ~ Expensing(d)
  BY <1>1, IdleFields, ChairRows DEF Chair!Payment, ChairDInv, Expensing
<1>4. ChairExpense[d] = Rent /\ Rent \in Nat
  BY <1>2, <1>3 DEF DueOK, OfDues
<1>5. /\ ChairExpense' \in [Chair!Payment -> Nat] /\ ChairExpense'[d] = 0
      /\ \A p \in Chair!Payment : p # d => ChairExpense'[p] = ChairExpense[p]
  <2>1. CASE Rent > 0
    <3>1. ChairExpense' = [ChairExpense EXCEPT ![d] = 0]
      <4>1. ChairExpense' = [ChairExpense EXCEPT ![d] = ChairExpense[d] - Rent]
        BY <1>1, <1>2, <1>4, <2>1 DEF Chair!UndoPayment, Chair!Undone
      <4> QED  BY <1>4, <4>1
    <3> QED  BY <1>3, <3>1, ChairRows
  <2>2. CASE ~ (Rent > 0)
    BY <1>1, <1>2, <1>4, <2>2, <1>3, ChairRows DEF Chair!UndoPayment
  <2> QED  BY <2>1, <2>2
<1>6. /\ job' \in [Worker -> Chair!Job] /\ (\A v \in Worker : JobOK(v)')
      /\ \A p : Expensing(p)' <=> Expensing(p)
  BY <1>1, EndsOK
<1>7. PICK q \in Chair!Due : /\ q = [due[d] EXCEPT !.status = "DUE", !.cash = FALSE, !.linked = FALSE]
                             /\ q.rows = due[d].rows /\ q.status = "DUE" /\ (q.noticed <=> due[d].noticed)
  BY <1>3, UndoneRecord
<1>8. due' \in [DueId -> Chair!Due] /\ due'[d] = q /\ \A x \in DueId : x # d => due'[x] = due[x]
  BY <1>2, ChairRows, <1>7 DEF Chair!UndoPayment
<1>9. Chair!DuesTypeOK'
  BY <1>1, <1>5, <1>6, <1>8 DEF ChairDInv, Chair!DuesTypeOK
<1>10. \A x \in DueId : DueOK(x)'
  <2> SUFFICES ASSUME NEW x \in DueId PROVE DueOK(x)'
    OBVIOUS
  <2>1. CASE x = d
    BY <1>1, <1>2, <1>3, <1>5, <1>6, <1>7, <1>8, <2>1 DEF DueOK
  <2>2. CASE x # d
    BY <1>5, <1>6, <1>8, <2>2, <1>1 DEF ChairDInv, Chair!Payment, DueOK
  <2> QED  BY <2>1, <2>2
<1>11. \A i \in InvoiceId : InvoiceOK(i)'
  <2> SUFFICES ASSUME NEW i \in InvoiceId PROVE InvoiceOK(i)'
    OBVIOUS
  <2>1. InvoiceOK(i) /\ (Expensing(i)' <=> Expensing(i)) /\ ChairExpense'[i] = ChairExpense[i]
    BY <1>5, <1>6 DEF ChairDInv, OfDues, Chair!Payment
  <2> QED  BY <1>1, <2>1 DEF InvoiceOK
<1> QED  BY <1>6, <1>9, <1>10, <1>11 DEF ChairDInv

LEMMA InvoiceRecord ==
    ASSUME OfDues, NEW r \in Chair!Invoice
    PROVE  /\ r.back \in Nat /\ r.back <= Rent /\ r.linked \in BOOLEAN
           /\ \A st \in {"FAILED", "SUCCEEDED"} :
                 LET q == [r EXCEPT !.status = st] IN q \in Chair!Invoice /\ q.status = st /\ q.back = r.back
BY DEF Chair!Invoice, OfDues

LEMMA BackRecord ==
    ASSUME OfDues, NEW r \in Chair!Invoice, NEW n \in 0 .. Rent, NEW b \in BOOLEAN
    PROVE  LET q == [r EXCEPT !.back = n, !.linked = b] IN
           q \in Chair!Invoice /\ q.status = r.status /\ q.back = n /\ (q.linked <=> b)
BY DEF Chair!Invoice, OfDues

LEMMA HandleInvoiceD ==
    ASSUME OfDues, ChairDInv, NEW w \in Worker, NEW i \in InvoiceId, Chair!HandleInvoice(w, i) PROVE ChairDInv'
<1>1. /\ Chair!Free(w, "invoice") /\ UNCHANGED <<today, due, ChairExpense, told, drawer>>
      /\ i \in Chair!Payment
  BY DEF Chair!HandleInvoice, Chair!Payment
<1>2. \A v \in Worker : job[v] = Chair!Idle
  BY <1>1, FreeAlone DEF Alone
<1>3. ChairInvoice[i] \in Chair!Invoice /\ InvoiceOK(i) /\ \A p : ~ Expensing(p)
  BY <1>2, IdleFields, ChairRows DEF ChairDInv, Expensing
<1>4. PICK paid \in BOOLEAN :
         /\ ~ Chair!Keeps(i, paid)
         /\ ChairInvoice' = [ChairInvoice EXCEPT ![i].status = IF paid THEN "SUCCEEDED" ELSE "FAILED"]
         /\ paidUntil' = IF paid THEN i ELSE paidUntil
         /\ IF paid THEN Chair!Doing(w, "expense", i) ELSE UNCHANGED job
  BY DEF Chair!HandleInvoice
<1>5. PICK st \in {"FAILED", "SUCCEEDED"} : st = IF paid THEN "SUCCEEDED" ELSE "FAILED"
  BY <1>4
<1>6. PICK q \in Chair!Invoice : q = [ChairInvoice[i] EXCEPT !.status = st] /\ q.status = st /\ q.back = ChairInvoice[i].back
  BY <1>3, InvoiceRecord
<1>7. /\ ChairInvoice' \in [InvoiceId -> Chair!Invoice] /\ ChairInvoice'[i] = q
      /\ \A x \in InvoiceId : x # i => ChairInvoice'[x] = ChairInvoice[x]
  BY <1>4, <1>5, <1>6, ChairRows
<1>8. ChairInvoice[i].status # "SUCCEEDED" /\ ChairExpense[i] = 0 /\ ChairInvoice[i].back = 0
  BY <1>3, <1>4 DEF Chair!Keeps, InvoiceOK
<1>9. paidUntil' \in InvoiceId \cup {None}
  BY <1>4 DEF ChairDInv, Chair!DuesTypeOK
<1>10. CASE paid
  <2>1. PICK j \in Chair!Job : j = [Chair!Idle EXCEPT !.op = "expense", !.of = i] /\ j.op = "expense" /\ j.of = i
    BY <1>1, ExpenseJob
  <2>2. job' = [job EXCEPT ![w] = j] /\ job \in [Worker -> Chair!Job]
    BY <1>4, <1>10, <2>1, ChairRows DEF Chair!Doing
  <2>3. job' \in [Worker -> Chair!Job] /\ job'[w] = j /\ \A v \in Worker : v # w => job'[v] = job[v]
    BY <2>2, JobsKept
  <2>4. Expensing(i)' /\ \A p : p # i => ~ Expensing(p)'
    BY <1>2, <1>3, <2>1, <2>2, IdleFields, ExpensingKept
  <2>5. Chair!DuesTypeOK'
    BY <1>1, <1>7, <1>9, <2>3 DEF ChairDInv, Chair!DuesTypeOK
  <2>6. \A d \in DueId : DueOK(d)'
    <3> SUFFICES ASSUME NEW d \in DueId PROVE DueOK(d)'
      OBVIOUS
    <3>1. DueOK(d) /\ (Expensing(d)' <=> Expensing(d))
      BY <1>3, <2>4 DEF ChairDInv, OfDues
    <3> QED  BY <1>1, <3>1 DEF DueOK
  <2>7. \A x \in InvoiceId : InvoiceOK(x)'
    <3> SUFFICES ASSUME NEW x \in InvoiceId PROVE InvoiceOK(x)'
      OBVIOUS
    <3>1. CASE x = i
      BY <1>1, <1>5, <1>6, <1>7, <1>8, <1>10, <2>4, <3>1 DEF InvoiceOK
    <3>2. CASE x # i
      BY <1>3, <1>7, <2>4, <3>2, <1>1 DEF ChairDInv, InvoiceOK
    <3> QED  BY <3>1, <3>2
  <2>8. \A v \in Worker : JobOK(v)'
    BY <1>2, <1>3, <2>1, <2>2, IdleFields, OthersOK, <1>1, <2>3 DEF Alone, JobOK
  <2> QED  BY <2>5, <2>6, <2>7, <2>8 DEF ChairDInv
<1>11. CASE ~ paid
  <2>1. job' = job
    BY <1>4, <1>11
  <2>2. \A p : ~ Expensing(p)'
    BY <1>3, <2>1 DEF Expensing
  <2>3. Chair!DuesTypeOK'
    BY <1>1, <1>7, <1>9, <2>1 DEF ChairDInv, Chair!DuesTypeOK
  <2>4. \A d \in DueId : DueOK(d)'
    <3> SUFFICES ASSUME NEW d \in DueId PROVE DueOK(d)'
      OBVIOUS
    <3>1. DueOK(d) /\ (Expensing(d)' <=> Expensing(d))
      BY <1>3, <2>2 DEF ChairDInv
    <3> QED  BY <1>1, <3>1 DEF DueOK
  <2>5. \A x \in InvoiceId : InvoiceOK(x)'
    <3> SUFFICES ASSUME NEW x \in InvoiceId PROVE InvoiceOK(x)'
      OBVIOUS
    <3>1. CASE x = i
      BY <1>1, <1>5, <1>6, <1>7, <1>8, <1>11, <2>2, <3>1 DEF InvoiceOK
    <3>2. CASE x # i
      BY <1>3, <1>7, <2>2, <3>2, <1>1 DEF ChairDInv, InvoiceOK
    <3> QED  BY <3>1, <3>2
  <2>6. \A v \in Worker : JobOK(v)'
    BY <1>2, <2>1, IdleFields DEF JobOK, Alone
  <2> QED  BY <2>3, <2>4, <2>5, <2>6 DEF ChairDInv
<1> QED  BY <1>10, <1>11

LEMMA SyncRefundD ==
    ASSUME OfDues, ChairDInv, NEW w \in Worker, Chair!SyncRefund(w) PROVE ChairDInv'
<1>1. /\ job[w].op = "refund" /\ Chair!Ends(w) /\ UNCHANGED <<today, due, told, drawer>>
      /\ job[w].of \in InvoiceId /\ ChairInvoice[job[w].of].status = "SUCCEEDED"
      /\ job[w].seen <=> ChairInvoice[job[w].of].linked
      /\ \A v \in Worker : v # w => job[v] = Chair!Idle
  BY DEF Chair!SyncRefund, ChairDInv, JobOK, Alone
<1>2. PICK i \in InvoiceId : i = job[w].of
  BY <1>1
<1>3. PICK value \in 0 .. Rent : value = job[w].value
  BY ChairRows DEF Chair!Job
<1>4. /\ i \in Chair!Payment /\ InvoiceOK(i) /\ ChairInvoice[i] \in Chair!Invoice /\ ~ Expensing(i)
      /\ ChairInvoice[i].status = "SUCCEEDED"
  BY <1>1, <1>2, IdleFields, ChairRows DEF Chair!Payment, ChairDInv, Expensing
<1>5. /\ ChairExpense[i] = Rent - ChairInvoice[i].back
      /\ ChairInvoice[i].back < Rent => ChairInvoice[i].linked
  BY <1>4 DEF InvoiceOK
<1>6. CASE ~ Chair!Grows(i, value)
  BY <1>2, <1>3, <1>6, <1>1, EndsOnly DEF Chair!SyncRefund
<1>7. CASE Chair!Grows(i, value)
  <2>1. /\ ChairInvoice' = [ChairInvoice EXCEPT ![i].back = value,
                                                ![i].linked = IF value = Rent THEN FALSE ELSE @]
        /\ ChairExpense' = IF job[w].seen THEN [ChairExpense EXCEPT ![i] = Rent - value] ELSE ChairExpense
        /\ paidUntil' = IF value = Rent /\ paidUntil = i THEN None ELSE paidUntil
    BY <1>2, <1>3, <1>7 DEF Chair!SyncRefund
  <2>2. ChairInvoice[i].back < Rent /\ ChairInvoice[i].linked /\ Rent - value \in Nat
    <3>1. ChairInvoice[i].back \in Nat /\ Rent \in Nat /\ value \in Nat /\ value <= Rent
      <4>1. ChairInvoice[i].back \in Nat
        BY <1>4, InvoiceRecord
      <4>2. Rent \in Nat
        BY DEF OfDues
      <4> QED  BY <4>1, <4>2
    <3>2. ChairInvoice[i].back < Rent
      BY <1>7, <3>1 DEF Chair!Grows
    <3>3. Rent - value \in Nat
      BY <3>1
    <3> QED  BY <1>5, <3>2, <3>3
  <2>3. ChairExpense' = [ChairExpense EXCEPT ![i] = Rent - value]
    BY <1>1, <1>2, <2>1, <2>2
  <2>4. /\ ChairExpense' \in [Chair!Payment -> Nat] /\ ChairExpense'[i] = Rent - value
        /\ \A p \in Chair!Payment : p # i => ChairExpense'[p] = ChairExpense[p]
    BY <1>4, <2>2, <2>3, ChairRows
  <2>5. PICK b \in BOOLEAN : b = IF value = Rent THEN FALSE ELSE ChairInvoice[i].linked
    <3>1. ChairInvoice[i].linked \in BOOLEAN
      BY <1>4, InvoiceRecord
    <3>2. (IF value = Rent THEN FALSE ELSE ChairInvoice[i].linked) \in BOOLEAN
      BY <3>1, Zenon
    <3> QED  BY <3>2, Zenon
  <2>6. PICK q \in Chair!Invoice : /\ q = [ChairInvoice[i] EXCEPT !.back = value, !.linked = b]
                                   /\ q.status = ChairInvoice[i].status /\ q.back = value /\ (q.linked <=> b)
    BY <1>4, BackRecord
  <2>7. ChairInvoice' = [ChairInvoice EXCEPT ![i] = q]
    BY <2>1, <2>5, ChairRows, <2>6
  <2>8. /\ ChairInvoice' \in [InvoiceId -> Chair!Invoice] /\ ChairInvoice'[i] = q
        /\ \A x \in InvoiceId : x # i => ChairInvoice'[x] = ChairInvoice[x]
    BY <2>7, ChairRows
  <2>9. /\ job' \in [Worker -> Chair!Job] /\ (\A v \in Worker : JobOK(v)')
        /\ \A p : Expensing(p)' <=> Expensing(p)
    BY <1>1, EndsOK
  <2>10. paidUntil' \in InvoiceId \cup {None}
    BY <2>1 DEF ChairDInv, Chair!DuesTypeOK
  <2>11. Chair!DuesTypeOK'
    BY <1>1, <2>4, <2>8, <2>9, <2>10 DEF ChairDInv, Chair!DuesTypeOK
  <2>12. \A d \in DueId : DueOK(d)'
    <3> SUFFICES ASSUME NEW d \in DueId PROVE DueOK(d)'
      OBVIOUS
    <3>1. DueOK(d) /\ (Expensing(d)' <=> Expensing(d)) /\ ChairExpense'[d] = ChairExpense[d]
      BY <2>4, <2>9 DEF ChairDInv, OfDues, Chair!Payment
    <3> QED  BY <1>1, <3>1 DEF DueOK
  <2>13. \A x \in InvoiceId : InvoiceOK(x)'
    <3> SUFFICES ASSUME NEW x \in InvoiceId PROVE InvoiceOK(x)'
      OBVIOUS
    <3>1. CASE x = i
      <4>1. value < Rent => q.linked
        BY <1>3, <2>2, <2>5, <2>6 DEF OfDues
      <4>2. ~ Expensing(i)' /\ ChairInvoice'[i].status = "SUCCEEDED" /\ ChairInvoice'[i].back = value
        BY <1>4, <2>6, <2>8, <2>9
      <4> QED  BY <2>4, <2>8, <3>1, <4>1, <4>2 DEF InvoiceOK
    <3>2. CASE x # i
      BY <2>4, <2>8, <2>9, <3>2 DEF ChairDInv, Chair!Payment, InvoiceOK
    <3> QED  BY <3>1, <3>2
  <2> QED  BY <2>9, <2>11, <2>12, <2>13 DEF ChairDInv
<1> QED  BY <1>6, <1>7

LEMMA ProcessManualDuesD ==
    ASSUME OfDues, ChairDInv, NEW w \in Worker, Chair!ProcessManualDues(w) PROVE ChairDInv'
<1>1. /\ job[w].op = "overdue" /\ Chair!Ends(w)
      /\ UNCHANGED <<today, ChairInvoice, paidUntil, ChairExpense, drawer>> /\ job[w].of \in DueId
  BY DEF Chair!ProcessManualDues, ChairDInv, JobOK
<1>2. PICK d \in DueId : d = job[w].of
  BY <1>1
<1>3. due[d] \in Chair!Due /\ DueOK(d) /\ told[d] \in Nat
  BY ChairRows DEF ChairDInv
<1>4. PICK q \in Chair!Due : /\ q = [due[d] EXCEPT !.noticed = TRUE]
                             /\ q.rows = due[d].rows /\ q.status = due[d].status /\ q.noticed
                             /\ q.linked <=> due[d].linked
  BY <1>3, NoticedRecord
<1>5. /\ due' \in [DueId -> Chair!Due] /\ due'[d] = q
      /\ \A x \in DueId : x # d => due'[x] = due[x]
  BY <1>2, <1>4, ChairRows DEF Chair!ProcessManualDues
<1>6. /\ told' \in [DueId -> Nat] /\ told'[d] = 1
      /\ \A x \in DueId : x # d => told'[x] = told[x]
  BY <1>3, <1>2, ChairRows DEF DueOK, Chair!Notices, Chair!ProcessManualDues
<1>7. /\ job' \in [Worker -> Chair!Job] /\ (\A v \in Worker : JobOK(v)')
      /\ \A p : Expensing(p)' <=> Expensing(p)
  BY <1>1, EndsOK
<1>8. Chair!DuesTypeOK'
  BY <1>1, <1>5, <1>6, <1>7 DEF ChairDInv, Chair!DuesTypeOK
<1>9. \A x \in DueId : DueOK(x)'
  <2> SUFFICES ASSUME NEW x \in DueId PROVE DueOK(x)'
    OBVIOUS
  <2>1. CASE x = d
    BY <1>1, <1>3, <1>4, <1>5, <1>6, <1>7, <2>1 DEF DueOK
  <2>2. CASE x # d
    BY <1>5, <1>6, <1>7, <2>2, <1>1 DEF ChairDInv, DueOK
  <2> QED  BY <2>1, <2>2
<1>10. \A i \in InvoiceId : InvoiceOK(i)'
  BY <1>1, <1>7 DEF ChairDInv, InvoiceOK
<1> QED  BY <1>7, <1>8, <1>9, <1>10 DEF ChairDInv

LEMMA ChairNextD == OfDues /\ ChairDInv /\ [Chair!Next]_(Chair!vars) => ChairDInv'
<1> SUFFICES ASSUME OfDues, ChairDInv, [Chair!Next]_(Chair!vars) PROVE ChairDInv'
  OBVIOUS
<1>1. CASE UNCHANGED Chair!vars
  BY <1>1 DEF Chair!vars, Expensing, ChairDInv, Chair!DuesTypeOK, DueOK, InvoiceOK, JobOK
<1>2. CASE Chair!DuesNext
  BY ClockD, ReadsD, HandleInvoiceD, EnsureDuesD, RecordPaymentD, RecordsExpenseD,
     UndoPaymentD, SyncRefundD, ProcessManualDuesD, <1>2 DEF Chair!DuesNext
<1> QED  BY <1>1, <1>2 DEF Chair!Next, OfDues

LEMMA DuesSpecInv == OfDues => (Chair!Spec => []ChairDInv)
<1> SUFFICES ASSUME OfDues PROVE Chair!Spec => []ChairDInv
  OBVIOUS
<1>1. Chair!Init => ChairDInv
  BY ChairInitD
<1>2. ChairDInv /\ [Chair!Next]_(Chair!vars) => ChairDInv'
  BY ChairNextD
<1> QED  BY <1>1, <1>2, PTL DEF Chair!Spec

(***************************************************************************)
(* The theorems                                                            *)
(***************************************************************************)

(* The dues of a chair keep their types: a month has no third row, an       *)
(* expense is never negative, and what was given back of an invoice is      *)
(* never more than the rent (ensureDues, undoPayment, syncRefund).          *)
THEOREM DuesTypes == OfDues => (Chair!Spec => []Chair!TypeOK)
<1> SUFFICES ASSUME OfDues PROVE Chair!Spec => []Chair!TypeOK
  OBVIOUS
<1>1. ChairDInv => Chair!TypeOK
  BY DEF ChairDInv, Chair!TypeOK, OfDues
<1>2. Chair!Spec => []ChairDInv
  BY DuesSpecInv
<1> QED  BY <1>1, <1>2, PTL

(* Each month is owed once, however many screens and jobs write the dues   *)
(* of a chair together (ensureDues).                                       *)
THEOREM DuesOwedOnce == OfDues => (Chair!Spec => []Chair!MonthOwedOnce)
<1> SUFFICES ASSUME OfDues PROVE Chair!Spec => []Chair!MonthOwedOnce
  OBVIOUS
<1>1. ChairDInv => Chair!MonthOwedOnce
  BY DEF ChairDInv, DueOK, Chair!MonthOwedOnce
<1>2. Chair!Spec => []ChairDInv
  BY DuesSpecInv
<1> QED  BY <1>1, <1>2, PTL

(* An overdue month is told once, however many runs of the daily job meet  *)
(* (processManualDues).                                                    *)
THEOREM DuesToldOnce == OfDues => (Chair!Spec => []Chair!OverdueToldOnce)
<1> SUFFICES ASSUME OfDues PROVE Chair!Spec => []Chair!OverdueToldOnce
  OBVIOUS
<1>1. ChairDInv => Chair!OverdueToldOnce
  BY DEF ChairDInv, DueOK, Chair!OverdueToldOnce
<1>2. Chair!Spec => []ChairDInv
  BY DuesSpecInv
<1> QED  BY <1>1, <1>2, PTL

(* The expenses of the professional are the rent that was paid and not     *)
(* given back, whatever requests and events ran before (recordPayment,     *)
(* undoPayment, handleInvoice, syncRefund, createMemberExpense).           *)
THEOREM RentIsBooked == OfDues => (Chair!Spec => []Chair!ExpensesMatchPayments)
<1> SUFFICES ASSUME OfDues PROVE Chair!Spec => []Chair!ExpensesMatchPayments
  OBVIOUS
<1>1. ChairDInv => Chair!ExpensesMatchPayments
  BY DEF Chair!Touching, Expensing, ChairDInv, DueOK, InvoiceOK,
         Chair!ExpensesMatchPayments
<1>2. Chair!Spec => []ChairDInv
  BY DuesSpecInv
<1> QED  BY <1>1, <1>2, PTL

(* No event un-pays an invoice or shrinks what was given back of it,       *)
(* however late or often it is delivered (handleInvoice, syncRefund).      *)
THEOREM InvoiceStaysPaid == OfDues => (Chair!Spec => [][Chair!PaidStaysPaid]_(Chair!vars))
<1> SUFFICES ASSUME OfDues PROVE Chair!Spec => [][Chair!PaidStaysPaid]_(Chair!vars)
  OBVIOUS
<1>1. ChairDInv /\ [Chair!Next]_(Chair!vars) => [Chair!PaidStaysPaid]_(Chair!vars)
  <2> SUFFICES ASSUME ChairDInv, Chair!Next PROVE Chair!PaidStaysPaid
    OBVIOUS
  <2>1. Chair!DuesNext
    BY DEF Chair!Next, OfDues
  <2> SUFFICES ASSUME NEW i \in InvoiceId, ChairInvoice[i].status = "SUCCEEDED"
               PROVE  ChairInvoice'[i].status = "SUCCEEDED" /\ ChairInvoice'[i].back >= ChairInvoice[i].back
    BY DEF Chair!PaidStaysPaid
  <2>2. ChairInvoice[i] \in Chair!Invoice /\ ChairInvoice[i].back \in Nat
    BY ChairRows, InvoiceRecord
  <2>3. CASE ChairInvoice'[i] = ChairInvoice[i]
    BY <2>2, <2>3
  <2>4. ASSUME NEW w \in Worker, Chair!RecordsExpense(w) PROVE
          ChairInvoice'[i].status = ChairInvoice[i].status /\ ChairInvoice'[i].back = ChairInvoice[i].back
    BY <2>4, ChairRows, <2>2 DEF Chair!RecordsExpense, Chair!Invoice
  <2>5. ASSUME NEW w \in Worker, NEW x \in InvoiceId, Chair!HandleInvoice(w, x) PROVE
          ChairInvoice'[i].status = ChairInvoice[i].status /\ ChairInvoice'[i].back = ChairInvoice[i].back
    <3>1. PICK st \in {"FAILED", "SUCCEEDED"} : /\ ChairInvoice' = [ChairInvoice EXCEPT ![x].status = st]
                                               /\ ChairInvoice[x].status # "SUCCEEDED"
      BY <2>5 DEF Chair!HandleInvoice, Chair!Keeps
    <3>2. x # i
      BY <3>1
    <3> QED  BY <3>1, <3>2, ChairRows
  <2>6. ASSUME NEW w \in Worker, Chair!SyncRefund(w) PROVE
          ChairInvoice'[i].status = "SUCCEEDED" /\ ChairInvoice'[i].back >= ChairInvoice[i].back
    <3>1. PICK x \in InvoiceId : x = job[w].of
      BY <2>6 DEF Chair!SyncRefund, ChairDInv, JobOK
    <3>2. PICK value \in 0 .. Rent : value = job[w].value
      BY ChairRows DEF Chair!Job
    <3>3. CASE x = i /\ Chair!Grows(x, value)
      <4>1. PICK b : ChairInvoice' = [ChairInvoice EXCEPT ![i].back = value, ![i].linked = b]
        BY <2>6, <3>1, <3>2, <3>3 DEF Chair!SyncRefund
      <4>2. ChairInvoice'[i] = [ChairInvoice[i] EXCEPT !.back = value, !.linked = b]
        BY <4>1, ChairRows
      <4>3. ChairInvoice'[i].back = value /\ ChairInvoice'[i].status = ChairInvoice[i].status
        BY <2>2, <4>2 DEF Chair!Invoice
      <4>4. ChairInvoice[i].back < value /\ value \in Nat
        BY <3>3 DEF Chair!Grows, OfDues
      <4> QED  BY <2>2, <4>3, <4>4
    <3>4. CASE ~ (x = i /\ Chair!Grows(x, value))
      BY <2>6, <3>1, <3>2, <3>4, ChairRows, <2>2 DEF Chair!SyncRefund
    <3> QED  BY <3>3, <3>4
  <2>7. \/ ChairInvoice'[i] = ChairInvoice[i]
        \/ \E w \in Worker : Chair!RecordsExpense(w) \/ Chair!SyncRefund(w)
        \/ \E w \in Worker, x \in InvoiceId : Chair!HandleInvoice(w, x)
    BY <2>1
       DEF Chair!DuesNext, Chair!MonthBegins, Chair!CashClosing, Chair!DuesReads,
           Chair!EnsureDues, Chair!RecordPayment,
                Chair!UndoPayment, Chair!ProcessManualDues, Chair!RecordReads, Chair!UndoReads, Chair!OverdueReads, Chair!RefundReads
  <2> QED  BY <2>2, <2>3, <2>4, <2>5, <2>6, <2>7
<1>2. Chair!Spec => []ChairDInv
  BY DuesSpecInv
<1> QED  BY <1>1, <1>2, PTL DEF Chair!Spec

----------------------------------------------------------------------------
(***************************************************************************)
(* Proofs about the disputes of Featured, when events are handled one at a *)
(* time.  A request that will write what it read of a dispute is the only  *)
(* one under way, and the dispute is still as open as it read it.          *)
(***************************************************************************)

JobShape == FeatJob = [w \in FeatWorker |-> FeatJob[w]]

HandledAlone ==
    \A v, w \in FeatWorker : FeatJob[v].op # "idle" /\ FeatJob[w].op # "idle" => v = w

StillOpen ==
    \A w \in FeatWorker : FeatJob[w].op = "dispute" =>
        /\ dispute.stored \notin Feat!Closed /\ dispute.of \in PurchaseId
        /\ FeatJob[w].status \in {"none", "open"} \cup Feat!Closed

DisputeInv ==
    /\ dispute \in Feat!Dispute
    /\ JobShape
    /\ HandledAlone
    /\ StillOpen

LEMMA DisputeStarts == Feat!Init => DisputeInv
BY DEF Feat!Init, DisputeInv, JobShape, HandledAlone, StillOpen, Feat!Dispute,
   Feat!Idle, Feat!Closed

(* A request that is under way and is not about a dispute. *)
LEMMA DisputeBegins ==
    ASSUME DisputeInv, NEW w \in FeatWorker, NEW op, NEW p, NEW s, Feat!Free(w), ~ Overlap,
           Feat!Doing(w, op, p, s), UNCHANGED dispute,
           op = "dispute" => /\ dispute.stored \notin Feat!Closed /\ dispute.of \in PurchaseId
                             /\ s \in {"none", "open"} \cup Feat!Closed
    PROVE  DisputeInv'
BY DEF DisputeInv, JobShape, HandledAlone, StillOpen, Feat!Free, Feat!Doing, Feat!Idle

LEMMA DisputeGoesOn ==
    ASSUME DisputeInv, NEW w \in FeatWorker, NEW op, NEW p, NEW s, FeatJob[w].op # "idle",
           Feat!Doing(w, op, p, s), op # "dispute", dispute' \in Feat!Dispute,
           FeatJob[w].op = "dispute" \/ dispute' = dispute
    PROVE  DisputeInv'
BY DEF DisputeInv, JobShape, HandledAlone, StillOpen, Feat!Doing

LEMMA DisputeEnds ==
    ASSUME DisputeInv, NEW w \in FeatWorker, Feat!Ends(w), dispute' \in Feat!Dispute, FeatJob[w].op # "idle",
           FeatJob[w].op = "dispute" \/ dispute' = dispute
    PROVE  DisputeInv'
BY DEF DisputeInv, JobShape, HandledAlone, StillOpen, Feat!Ends, Feat!Idle

LEMMA DisputeApart ==
    ASSUME DisputeInv, UNCHANGED FeatJob, dispute' \in Feat!Dispute, dispute'.stored = dispute.stored,
           dispute.of \in PurchaseId => dispute'.of = dispute.of
    PROVE  DisputeInv'
BY DEF DisputeInv, JobShape, HandledAlone, StillOpen

(* Every step keeps DisputeInv, and what is stored as closed. *)
LEMMA DisputeStep ==
    ASSUME DisputeInv, [Feat!Next]_(Feat!vars), ~ Overlap, None \notin PurchaseId
    PROVE  DisputeInv' /\ Feat!DisputeNotReopened
<1> USE DEF Feat!DisputeNotReopened
<1>1. CASE UNCHANGED Feat!vars
  BY <1>1, DisputeApart DEF Feat!vars, DisputeInv
<1>2. ASSUME NEW w \in FeatWorker, Feat!RecordDispute(w) PROVE DisputeInv' /\ Feat!DisputeNotReopened
  <2>1. dispute' \in Feat!Dispute /\ dispute.stored \notin Feat!Closed
    BY <1>2 DEF Feat!RecordDispute, DisputeInv, StillOpen, Feat!Dispute
  <2> QED  BY <1>2, <2>1, DisputeGoesOn, DisputeEnds DEF Feat!RecordDispute
<1>3. ASSUME Feat!DisputeMoves PROVE DisputeInv' /\ Feat!DisputeNotReopened
  <2>1. dispute' \in Feat!Dispute /\ dispute'.stored = dispute.stored
    BY <1>3 DEF Feat!DisputeMoves, DisputeInv, Feat!Dispute, Feat!Closed
  <2>2. dispute.of \in PurchaseId => dispute'.of = dispute.of
    BY <1>3 DEF Feat!DisputeMoves, DisputeInv, Feat!Dispute
  <2> QED  BY <1>3, <2>1, <2>2, DisputeApart DEF Feat!DisputeMoves
<1>4. ASSUME NEW w \in FeatWorker, Feat!DisputeReads(w) PROVE DisputeInv'
  <2>1. dispute.of \in PurchaseId
    BY <1>4 DEF Feat!DisputeReads, DisputeInv, Feat!Dispute
  <2>2. ASSUME UNCHANGED FeatJob PROVE DisputeInv'
    BY <1>4, <2>2, DisputeApart DEF Feat!DisputeReads, DisputeInv
  <2> QED  BY <1>4, <2>1, <2>2, DisputeBegins
           DEF Feat!DisputeReads, Feat!KeepsClosed, DisputeInv, Feat!Dispute
<1>5. ASSUME UNCHANGED dispute, UNCHANGED FeatJob PROVE DisputeInv'
  BY <1>5, DisputeApart DEF DisputeInv
<1>6. ASSUME UNCHANGED dispute,
             \E w \in FeatWorker : \E op, p, s : Feat!Doing(w, op, p, s) /\ op # "dispute" /\
                                         (Feat!Free(w) \/ FeatJob[w].op # "idle")
      PROVE  DisputeInv'
  BY <1>6, DisputeBegins, DisputeGoesOn DEF DisputeInv
<1>7. ASSUME UNCHANGED dispute, \E w \in FeatWorker : Feat!Ends(w) /\ FeatJob[w].op # "idle"
      PROVE  DisputeInv'
  BY <1>7, DisputeEnds DEF DisputeInv
<1>8. ASSUME Feat!Next, ~ UNCHANGED dispute
      PROVE  Feat!DisputeMoves \/ \E w \in FeatWorker : Feat!RecordDispute(w)
  BY <1>8 DEF Feat!Next, Feat!Start, Feat!StartDrops, Feat!StartCreates, Feat!Finalize, Feat!FinalizeAdds,
     Feat!DisputeReads, Feat!RevokeClaims, Feat!RevokeTakes, Feat!RefundTip, Feat!RefundTipCalls, Feat!RefundTipUndoes,
     Feat!FinalizeReads, Feat!RevokeReads, Feat!CustomerPays, Feat!MoneyReturned, Feat!OfferChanges, Feat!StartAppTip,
     Feat!TipPaid, Feat!FinalizeAppTip, Feat!TipReturnedAtStripe, Feat!SyncTipRefund
<1>9. ASSUME NEW w \in FeatWorker, Feat!Start(w) \/ Feat!StartDrops(w) \/ Feat!StartCreates(w)
      PROVE  DisputeInv'
  BY <1>9, <1>5, <1>6, <1>7 DEF Feat!Start, Feat!StartDrops, Feat!StartCreates
<1>10. ASSUME NEW w \in FeatWorker, Feat!Finalize(w) \/ Feat!FinalizeAdds(w) \/ Feat!RevokeClaims(w) \/ Feat!RevokeTakes(w)
       PROVE  DisputeInv'
  BY <1>10, <1>6, <1>7 DEF Feat!Finalize, Feat!FinalizeAdds, Feat!RevokeClaims, Feat!RevokeTakes
<1>11. ASSUME NEW w \in FeatWorker, Feat!RefundTip(w) \/ Feat!RefundTipCalls(w) \/ Feat!RefundTipUndoes(w)
       PROVE  DisputeInv'
  BY <1>11, <1>6, <1>7 DEF Feat!RefundTip, Feat!RefundTipCalls, Feat!RefundTipUndoes
<1>12. ASSUME NEW w \in FeatWorker, NEW p \in PurchaseId, Feat!FinalizeReads(w, p) \/ Feat!RevokeReads(w, p)
       PROVE  DisputeInv'
  BY <1>12, <1>6 DEF Feat!FinalizeReads, Feat!RevokeReads
<1>13. ASSUME \/ \E p \in PurchaseId : Feat!CustomerPays(p) \/ Feat!MoneyReturned(p)
              \/ Feat!OfferChanges \/ Feat!StartAppTip \/ Feat!TipPaid \/ Feat!FinalizeAppTip
              \/ Feat!TipReturnedAtStripe \/ Feat!SyncTipRefund
       PROVE  DisputeInv'
  BY <1>13, <1>5 DEF Feat!CustomerPays, Feat!MoneyReturned, Feat!OfferChanges, Feat!StartAppTip,
     Feat!TipPaid, Feat!FinalizeAppTip, Feat!TipReturnedAtStripe, Feat!SyncTipRefund
<1> QED  BY <1>1, <1>2, <1>3, <1>4, <1>8, <1>9, <1>10, <1>11, <1>12, <1>13 DEF Feat!Next

(* The dispute of a purchase that Stripe closed is not open again because  *)
(* an older event arrives late, when events are handled one at a time      *)
(* (recordDispute).                                                        *)
THEOREM FeaturedDisputeNotReopened ==
    ~ Overlap /\ None \notin PurchaseId => (Feat!Spec => [][Feat!DisputeNotReopened]_(Feat!vars))
<1> SUFFICES ASSUME ~ Overlap, None \notin PurchaseId
             PROVE  Feat!Spec => [][Feat!DisputeNotReopened]_(Feat!vars)
  OBVIOUS
<1>1. DisputeInv /\ [Feat!Next]_(Feat!vars) => DisputeInv'
  BY DisputeStep
<1>2. DisputeInv /\ [Feat!Next]_(Feat!vars) => [Feat!DisputeNotReopened]_(Feat!vars)
  BY DisputeStep
<1> QED  BY <1>1, <1>2, DisputeStarts, PTL DEF Feat!Spec
=============================================================================
