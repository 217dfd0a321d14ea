----------------------------- MODULE CashDrawer -----------------------------
(***************************************************************************)
(* The cash drawer of one shop: the cash sessions of BarbershopService and *)
(* every row that names the session its cash went into: sales, no-show     *)
(* fees, the refund of a remainder, expenses, the team's pay, tips, rent   *)
(* of a chair and deposits received at the counter.                        *)
(*                                                                         *)
(* A request looks up the open session with one statement and writes its   *)
(* row with another; nothing locks the session in between.                 *)
(*                                                                         *)
(* The balance a close stores is a sum over the rows; the model keeps its  *)
(* terms, as a function from rows to amounts.  Left out: the counted       *)
(* money, the opening balance, and refusals that depend on who asks.       *)
(***************************************************************************)
EXTENDS Integers, FiniteSets

CONSTANTS
    Worker,        \* concurrent requests
    Session,       \* cash session ids, taken from the table's sequence
    Entry,         \* ids of the rows that may hold cash
    KindOf,        \* the table each row is in
    MaxAmount,     \* bound on the amount of a row
    None,
    Overlap        \* may a row be written while a session is being closed?

(* "refund" is the negative sale of refundIssuedRemainder, which cannot be  *)
(* changed; "pay" is an expense of PayrollService.                          *)
Kind == {"sale", "refund", "expense", "pay", "tip", "rent", "deposit"}

(* The rows that exist before anything is received: a rent that is due, the *)
(* appointment whose deposit was not paid                                   *)
Due == {"rent", "deposit"}

(* The aggregates of closeCashSession, of the tables that have rows *)
Sums == {kinds \in {{"sale", "refund"}, {"expense", "pay"}, {"rent"}, {"tip"}, {"deposit"}} :
            \E e \in Entry : KindOf[e] \in kinds}

ASSUME KindAssumption == KindOf \in [Entry -> Kind]
ASSUME AmountAssumption == MaxAmount \in Nat \ {0}
ASSUME NoneAssumption == None \notin Session \cup Entry \cup Worker /\ None # "paid"
ASSUME OverlapAssumption == Overlap \in BOOLEAN

Amount == 1..MaxAmount

(* cash: paid in cash; session: cashSessionId *)
Row == [state : {"absent", "pending", "paid"}, cash : BOOLEAN,
        session : Session \cup {None}, amount : Amount]

(* The fields updateSale was called with; None is a field left alone. *)
Edit == [state : {"pending", "paid", None}, cash : BOOLEAN \cup {None},
         amount : Amount \cup {None}]

NoEdit == [state |-> None, cash |-> None, amount |-> None]

Absent == [state |-> "absent", cash |-> FALSE, session |-> None, amount |-> 1]
Unpaid == [Absent EXCEPT !.state = "pending"]

NoRow(e) == IF KindOf[e] \in Due THEN Unpaid ELSE Absent

VARIABLES
    status,     \* status of each session
    expected,   \* the terms of expectedBalance of a closed session
    entries,    \* the rows
    lock,       \* the holder of the advisory lock "cash:shop"
    pc,
    call        \* what each request remembers

vars == <<status, expected, entries, lock, pc, call>>

NoTerms == [e \in Entry |-> 0]

NoCall == [entry |-> None, session |-> None, row |-> Absent, edit |-> NoEdit,
           terms |-> NoTerms, left |-> {}]

Call == [entry : Entry \cup {None}, session : Session \cup {None}, row : Row, edit : Edit,
         terms : [Entry -> 0..MaxAmount], left : SUBSET (SUBSET Kind)]

Step == {"idle", "open.create", "close.sum", "close.write", "record.session", "record.write",
         "undo.check", "undo.write", "edit.session", "edit.write"}

(* The steps of a request that writes a row *)
Writing == {"record.session", "record.write", "undo.check", "undo.write",
            "edit.session", "edit.write"}
Closing == {"close.sum", "close.write"}

TypeOK ==
    /\ status \in [Session -> {"none", "OPEN", "CLOSED"}]
    /\ expected \in [Session -> [Entry -> 0..MaxAmount]]
    /\ entries \in [Entry -> Row]
    /\ lock \in Worker \cup {None}
    /\ pc \in [Worker -> Step]
    /\ call \in [Worker -> Call]

Init ==
    /\ status = [s \in Session |-> "none"]
    /\ expected = [s \in Session |-> NoTerms]
    /\ entries = [e \in Entry |-> NoRow(e)]
    /\ lock = None
    /\ pc = [w \in Worker |-> "idle"]
    /\ call = [w \in Worker |-> NoCall]

----------------------------------------------------------------------------
(* Requests *)

Goto(w, step) == pc' = [pc EXCEPT ![w] = step]
Done(w) == Goto(w, "idle") /\ call' = [call EXCEPT ![w] = NoCall]

Begin(w, step, c) ==
    /\ pc[w] = "idle"
    /\ Goto(w, step)
    /\ call' = [call EXCEPT ![w] = c]

MayWrite(w) == Overlap \/ \A v \in Worker : pc[v] \notin Closing
MayClose(w) == Overlap \/ \A v \in Worker : pc[v] \notin Writing

OpenSessions == {s \in Session : status[s] = "OPEN"}

(* cashSession.findFirst, status OPEN *)
FoundSession == IF OpenSessions = {} THEN {None} ELSE OpenSessions

IsClosed(s) == s # None /\ status[s] = "CLOSED"

(* What the row adds to, or takes from, the drawer in session s *)
TermOf(e, s) ==
    IF entries[e].state = "paid" /\ entries[e].cash /\ entries[e].session = s
    THEN entries[e].amount ELSE 0

----------------------------------------------------------------------------
(* openCashSession *)

(* Mutant: two clicks check at once. *)
MutOpenCheck(w) ==
    /\ OpenSessions = {}
    /\ Begin(w, "open.create", NoCall)
    /\ UNCHANGED <<status, expected, entries, lock>>

(* The transaction takes the lock, then looks for an open session. *)
OpenCheck(w) ==
    /\ lock = None
    /\ OpenSessions = {}
    /\ Begin(w, "open.create", NoCall)
    /\ lock' = w
    /\ UNCHANGED <<status, expected, entries>>

(* Mutant: takes up a session of before. *)
MutOpenCreate(w) ==
    /\ pc[w] = "open.create"
    /\ \E s \in Session : status[s] # "OPEN" /\ status' = [status EXCEPT ![s] = "OPEN"]
    /\ lock' = None
    /\ Done(w)
    /\ UNCHANGED <<expected, entries>>

(* The bound on Session: with none left the request fails. *)
OpenCreate(w) ==
    /\ pc[w] = "open.create"
    /\ \/ \E s \in Session :
             status[s] = "none" /\ status' = [status EXCEPT ![s] = "OPEN"]
       \/ (\A s \in Session : status[s] # "none") /\ UNCHANGED status
    /\ lock' = None
    /\ Done(w)
    /\ UNCHANGED <<expected, entries>>

----------------------------------------------------------------------------
(* closeCashSession *)

CloseRead(w) ==
    /\ MayClose(w)
    /\ \E s \in OpenSessions :
          Begin(w, "close.sum", [NoCall EXCEPT !.session = s, !.left = Sums])
    /\ UNCHANGED <<status, expected, entries, lock>>

Terms(terms, kinds, s) ==
    [e \in Entry |-> IF KindOf[e] \in kinds THEN TermOf(e, s) ELSE terms[e]]

(* The five aggregates run together, each its own statement. *)
CloseSum(w) ==
    /\ pc[w] = "close.sum"
    /\ \E kinds \in call[w].left :
          /\ call' = [call EXCEPT ![w].terms = Terms(@, kinds, call[w].session),
                                  ![w].left = @ \ {kinds}]
          /\ Goto(w, IF call[w].left = {kinds} THEN "close.write" ELSE "close.sum")
    /\ UNCHANGED <<status, expected, entries, lock>>

(* Closes only if it is still open: of two closes the first one counts. *)
CloseWrite(w) ==
    LET s == call[w].session
    IN  /\ pc[w] = "close.write"
        /\ IF status[s] = "OPEN"
           THEN /\ status' = [status EXCEPT ![s] = "CLOSED"]
                /\ expected' = [expected EXCEPT ![s] = call[w].terms]
           ELSE UNCHANGED <<status, expected>>
        /\ Done(w)
        /\ UNCHANGED <<entries, lock>>

----------------------------------------------------------------------------
(* Requests that record money *)

(* An id of kind k that the table's sequence has not given yet *)
Fresh(e, k) ==
    KindOf[e] = k /\ entries[e].state = "absent" /\ \A v \in Worker : call[v].entry # e

Insert(w, e, k, row) ==
    /\ MayWrite(w)
    /\ Fresh(e, k)
    /\ Begin(w, "record.write", [NoCall EXCEPT !.entry = e, !.row = row])
    /\ UNCHANGED <<status, expected, entries, lock>>

Paid(cash, s, amount) == [state |-> "paid", cash |-> cash, session |-> s, amount |-> amount]

(* A sale that enters paid goes into the session open now; a pending one    *)
(* goes into the session in which it is paid (updateSale).                  *)
CreateSale(w, e) ==
    \E cash \in BOOLEAN, n \in Amount :
        \/ \E s \in FoundSession : Insert(w, e, "sale", Paid(cash, s, n))
        \/ Insert(w, e, "sale", [Paid(cash, None, n) EXCEPT !.state = "pending"])

CollectNoShowFee(w, e) ==
    \E cash \in BOOLEAN, s \in FoundSession : Insert(w, e, "sale", Paid(cash, s, 1))

(* refundIssuedRemainder of a sale that was paid *)
RefundIssuedRemainder(w, e) ==
    \E cash \in BOOLEAN, s \in FoundSession : Insert(w, e, "refund", Paid(cash, s, 1))

(* An expense of another day does not touch the drawer. *)
CreateExpense(w, e) ==
    \E cash \in BOOLEAN, s \in FoundSession \cup {None} : Insert(w, e, "expense", Paid(cash, s, 1))

(* Only cash names the session: PayrollService.openCashSessionId, and       *)
(* TipService.add for the cash that stays with the shop.                    *)
CashOnly(cash) == IF cash THEN FoundSession ELSE {None}

RecordPay(w, e) ==
    \E cash \in BOOLEAN : \E s \in CashOnly(cash) : Insert(w, e, "pay", Paid(cash, s, 1))

AddTip(w, e) ==
    \E cash \in BOOLEAN : \E s \in CashOnly(cash) : Insert(w, e, "tip", Paid(cash, s, 1))

(* ChairRentService.recordPayment and setAppointmentDepositPaid read the    *)
(* row first, then the open session.                                        *)
Receive(w, e) ==
    /\ MayWrite(w)
    /\ KindOf[e] \in Due
    /\ entries[e].state = "pending"
    /\ \E cash \in BOOLEAN :
          Begin(w, "record.session", [NoCall EXCEPT !.entry = e, !.row = Paid(cash, None, 1)])
    /\ UNCHANGED <<status, expected, entries, lock>>

RecordSession(w) ==
    /\ pc[w] = "record.session"
    /\ \E s \in CashOnly(call[w].row.cash) : call' = [call EXCEPT ![w].row.session = s]
    /\ Goto(w, "record.write")
    /\ UNCHANGED <<status, expected, entries, lock>>

(* The rent is written only if it is still due. *)
RecordWrite(w) ==
    LET e == call[w].entry
    IN  /\ pc[w] = "record.write"
        /\ entries' = IF KindOf[e] = "rent" /\ entries[e].state # "pending" THEN entries
                      ELSE [entries EXCEPT ![e] = call[w].row]
        /\ Done(w)
        /\ UNCHANGED <<status, expected, lock>>

----------------------------------------------------------------------------
(* Requests that take it back *)

(* deleteSale and deleteExpense read the row with its session. *)
Delete(w, e) ==
    /\ MayWrite(w)
    /\ KindOf[e] \in {"sale", "expense"} /\ entries[e].state # "absent"
    /\ ~ IsClosed(entries[e].session)
    /\ Begin(w, "undo.write", [NoCall EXCEPT !.entry = e])
    /\ UNCHANGED <<status, expected, entries, lock>>

(* deleteEntry, undoPayout, TipService.remove, undoPayment and              *)
(* setAppointmentDepositPaid read the row, then its session.                *)
Undo(w, e) ==
    /\ MayWrite(w)
    /\ KindOf[e] \in {"pay", "tip"} \cup Due
    /\ entries[e].state = "paid"
    /\ Begin(w, "undo.check", [NoCall EXCEPT !.entry = e, !.session = entries[e].session])
    /\ UNCHANGED <<status, expected, entries, lock>>

UndoCheck(w) ==
    /\ pc[w] = "undo.check"
    /\ IF IsClosed(call[w].session) THEN Done(w) ELSE Goto(w, "undo.write") /\ UNCHANGED call
    /\ UNCHANGED <<status, expected, entries, lock>>

(* Mutant: keeps a status of its own for what was taken back. *)
MutUndoWrite(w) ==
    /\ pc[w] = "undo.write"
    /\ entries' = [entries EXCEPT ![call[w].entry].state = "undone"]
    /\ Done(w)
    /\ UNCHANGED <<status, expected, lock>>

UndoWrite(w) ==
    /\ pc[w] = "undo.write"
    /\ entries' = [entries EXCEPT ![call[w].entry] = NoRow(call[w].entry)]
    /\ Done(w)
    /\ UNCHANGED <<status, expected, lock>>

----------------------------------------------------------------------------
(* updateSale *)

Merge(old, new) == IF new = None THEN old ELSE new

MoneyChanged(row, edit) ==
    \/ Merge(row.state, edit.state) # row.state
    \/ Merge(row.cash, edit.cash) # row.cash
    \/ Merge(row.amount, edit.amount) # row.amount

(* Mutant: only the amount of a sale in a closed session is protected. *)
MutEditAllowed(row, edit) == ~ (IsClosed(row.session) /\ edit.amount # None)

EditAllowed(row, edit) == ~ (IsClosed(row.session) /\ MoneyChanged(row, edit))

UpdateSale(w, e) ==
    /\ MayWrite(w)
    /\ KindOf[e] = "sale" /\ entries[e].state # "absent"
    /\ \E edit \in Edit :
          /\ EditAllowed(entries[e], edit)
          /\ Begin(w, IF edit.state = "paid" /\ entries[e].state # "paid"
                      THEN "edit.session" ELSE "edit.write",
                   [NoCall EXCEPT !.entry = e, !.edit = edit, !.row = entries[e]])
    /\ UNCHANGED <<status, expected, entries, lock>>

(* refundIssuedRemainder of a sale that is still to be paid lowers its      *)
(* total.                                                                   *)
LowerPending(w, e) ==
    /\ MayWrite(w)
    /\ KindOf[e] = "sale" /\ entries[e].state = "pending"
    /\ ~ IsClosed(entries[e].session)
    /\ \E n \in Amount :
          Begin(w, "edit.write", [NoCall EXCEPT !.entry = e, !.row = entries[e],
                                                !.edit = [NoEdit EXCEPT !.amount = n]])
    /\ UNCHANGED <<status, expected, entries, lock>>

(* Paid now: it enters the session open now. *)
EditSession(w) ==
    /\ pc[w] = "edit.session"
    /\ \E s \in FoundSession : call' = [call EXCEPT ![w].session = s]
    /\ Goto(w, "edit.write")
    /\ UNCHANGED <<status, expected, entries, lock>>

(* Only the fields of the request are written.  The update of a row that    *)
(* was deleted fails.                                                       *)
EditWrite(w) ==
    LET e == call[w].entry
        edit == call[w].edit
        pays == edit.state = "paid" /\ call[w].row.state # "paid"
    IN  /\ pc[w] = "edit.write"
        /\ entries' =
              IF entries[e].state = "absent" THEN entries
              ELSE [entries EXCEPT ![e] =
                      [state |-> Merge(@.state, edit.state),
                       cash |-> Merge(@.cash, edit.cash),
                       session |-> IF pays THEN call[w].session ELSE @.session,
                       amount |-> Merge(@.amount, edit.amount)]]
        /\ Done(w)
        /\ UNCHANGED <<status, expected, lock>>

----------------------------------------------------------------------------

Request(w, e) ==
    \/ CreateSale(w, e) \/ CollectNoShowFee(w, e) \/ RefundIssuedRemainder(w, e)
    \/ CreateExpense(w, e) \/ RecordPay(w, e) \/ AddTip(w, e) \/ Receive(w, e)
    \/ Delete(w, e) \/ Undo(w, e) \/ UpdateSale(w, e) \/ LowerPending(w, e)

Advance(w) ==
    \/ OpenCreate(w) \/ CloseSum(w) \/ CloseWrite(w)
    \/ RecordSession(w) \/ RecordWrite(w)
    \/ UndoCheck(w) \/ UndoWrite(w)
    \/ EditSession(w) \/ EditWrite(w)

Next ==
    \E w \in Worker :
        OpenCheck(w) \/ CloseRead(w) \/ Advance(w) \/ \E e \in Entry : Request(w, e)

Spec == Init /\ [][Next]_vars

----------------------------------------------------------------------------
(* Properties *)

(* A shop has one open session at most, however many people open it at once *)
(* (openCashSession, "dois cliques juntos abriam dois").                    *)
OneOpen == Cardinality(OpenSessions) <= 1

(* A close is final: a session that was closed stays closed with the        *)
(* balance it was closed with, even when two people close it at once        *)
(* (closeCashSession, "vale o primeiro").                                   *)
ClosedStays ==
    \A s \in Session : status[s] = "CLOSED" => status'[s] = "CLOSED" /\ expected'[s] = expected[s]

(* No step changes a closed session (closeCashSession). *)
CloseIsFinal == [][ClosedStays]_vars

(* The balance a session was closed with is what its rows still say: no     *)
(* row that was counted changes or leaves, and none joins afterwards        *)
(* (closeCashSession, updateSale, deleteSale).                              *)
Reconciled ==
    \A s \in Session : status[s] = "CLOSED" => \A e \in Entry : expected[s][e] = TermOf(e, s)
=============================================================================
