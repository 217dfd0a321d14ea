----------------------------- MODULE NoShowFees -----------------------------
(***************************************************************************)
(* The fee of who does not come or cancels too late: what was paid ahead   *)
(* covers it first, the rest is owed, and the shop receives or waives it.  *)
(* One appointment of a service that is worth Pre.                         *)
(***************************************************************************)
EXTENDS Integers, FiniteSets

CONSTANTS
    Worker, None,
    Fee,      \* the fee, at most the price of the service
    Dep,      \* the deposit
    Pre,      \* what is paid ahead by the app
    Changes,  \* bound on the changes of the appointment
    Faults    \* "overlap": requests run together; "stripe": a refund fails;
              \* "undo": a fee that was received is a sale that is deleted

VARIABLES
    status,   \* of the appointment
    deposit,  \* kept by the shop or not
    prepaid,  \* what the shop has of what was paid ahead
    fee,      \* the row of the fee
    sales,    \* number of sales of the fee
    changes,
    req

vars == <<status, deposit, prepaid, fee, sales, changes, req>>

Status == {"CONFIRMED", "CANCELLED", "NO_SHOW"}
FeeRow == [status : {"none", "PENDING", "COLLECTED", "WAIVED"}, amount : 0 .. Fee]
NoFee == [status |-> "none", amount |-> 0]
Free == [op |-> "free", was |-> "CONFIRMED", to |-> "CONFIRMED", late |-> FALSE, back |-> FALSE,
         deposit |-> FALSE, prepaid |-> 0, kept |-> None]
Idle == \A w \in Worker : req[w] = Free
May(w) == req[w] = Free /\ (Idle \/ "overlap" \in Faults)
Min2(a, b) == IF a < b THEN a ELSE b

Init ==
    /\ status = "CONFIRMED" /\ deposit \in BOOLEAN /\ prepaid \in {0, Pre}
    /\ fee = NoFee /\ sales = 0 /\ changes = 0
    /\ req = [w \in Worker |-> Free]

(***************************************************************************)
(* updateAppointment                                                       *)
(***************************************************************************)

(* the row that is read; late: within the window of late cancellations, or *)
(* by the shop, which never owes itself a fee                              *)
Begin(w, to) ==
    /\ May(w) /\ changes < Changes /\ changes' = changes + 1 /\ to # status
    /\ \E late, back \in BOOLEAN :
          req' = [req EXCEPT ![w] = [Free EXCEPT !.op = "write", !.was = status, !.to = to, !.back = back,
                                                 !.late = late \/ to = "NO_SHOW", !.prepaid = prepaid]]
    /\ UNCHANGED <<status, deposit, prepaid, fee, sales>>

WriteStatus(w) ==
    /\ req[w].op = "write" /\ status' = req[w].to
    /\ req' = [req EXCEPT ![w].op = IF req[w].to = "CONFIRMED" THEN "undone" ELSE "retain",
                          ![w].deposit = deposit, ![w].prepaid = IF @ = 0 THEN 0 ELSE prepaid]
    /\ UNCHANGED <<deposit, prepaid, fee, sales, changes>>

(* noShowFeeFor: what the deposit does not cover *)
FeeFor(r) == IF r.late /\ Fee > (IF r.deposit THEN Dep ELSE 0) THEN Fee - (IF r.deposit THEN Dep ELSE 0) ELSE 0

(* retainFeeFromPrepayment, and refundPrepayment of the rest, which checks *)
(* it against the row                                                      *)
RetainFee(w) ==
    /\ req[w].op = "retain"
    /\ LET r == req[w]
           retained == Min2(FeeFor(r), r.prepaid)
           rest == r.prepaid - retained IN
       IF FeeFor(r) = 0 \/ r.prepaid = 0 THEN UNCHANGED prepaid /\ req' = [req EXCEPT ![w].op = "deposit"]
       ELSE \E fails \in {rest > prepaid} \cup (IF "stripe" \in Faults THEN {TRUE} ELSE {}) :
               /\ prepaid' = IF fails \/ rest = 0 THEN prepaid ELSE prepaid - rest
               /\ req' = [req EXCEPT ![w].op = "deposit", ![w].kept = IF fails /\ rest > 0 THEN None ELSE retained]
    /\ UNCHANGED <<status, deposit, fee, sales, changes>>

(* refundOnlineDeposit; an error is only logged *)
RefundDeposit(w) ==
    /\ req[w].op = "deposit"
    /\ LET due == req[w].to = "CANCELLED" /\ req[w].back IN
       \E done \in {due} \cup (IF "stripe" \in Faults THEN {FALSE} ELSE {}) :
          /\ deposit' = (deposit /\ ~done)
          /\ req' = [req EXCEPT ![w].op = "prepaid", ![w].deposit = @ /\ ~done]
    /\ UNCHANGED <<status, prepaid, fee, sales, changes>>

(* refundPrepayment, when no fee was kept of it *)
RefundPrepaid(w) ==
    /\ req[w].op = "prepaid"
    /\ LET due == req[w].to = "CANCELLED" /\ req[w].prepaid > 0 /\ req[w].kept = None IN
       \E done \in {due} \cup (IF "stripe" \in Faults THEN {FALSE} ELSE {}) :
          prepaid' = IF done THEN 0 ELSE prepaid
    /\ req' = [req EXCEPT ![w].op = "record"]
    /\ UNCHANGED <<status, deposit, fee, sales, changes>>

Owed(r) == FeeFor(r) - (IF r.kept = None THEN 0 ELSE r.kept)

(* recordNoShowFee, after the answer went out: once per appointment *)
RecordFee(w) ==
    /\ req[w].op = "record"
    /\ fee' = IF fee.status = "none" /\ Owed(req[w]) > 0 THEN [status |-> "PENDING", amount |-> Owed(req[w])] ELSE fee
    /\ req' = [req EXCEPT ![w] = Free]
    /\ UNCHANGED <<status, deposit, prepaid, sales, changes>>

Dropped == IF fee.status = "PENDING" THEN NoFee ELSE fee

DropFee(w) ==
    /\ req[w].op = "undone" /\ fee' = Dropped
    /\ req' = [req EXCEPT ![w] = Free]
    /\ UNCHANGED <<status, deposit, prepaid, sales, changes>>

(***************************************************************************)
(* The fee                                                                 *)
(***************************************************************************)

ReadFee(w, op) ==
    /\ May(w) /\ fee.status = "PENDING" /\ req' = [req EXCEPT ![w] = [Free EXCEPT !.op = op]]
    /\ UNCHANGED <<status, deposit, prepaid, fee, sales, changes>>

Claims == fee.status = "PENDING"

(* markNoShowFeeCollected: the claim and the sale in one transaction *)
Collect(w) ==
    /\ req[w].op = "collect"
    /\ IF Claims THEN fee' = [fee EXCEPT !.status = "COLLECTED"] /\ sales' = sales + 1 ELSE UNCHANGED <<fee, sales>>
    /\ req' = [req EXCEPT ![w] = Free]
    /\ UNCHANGED <<status, deposit, prepaid, changes>>

(* waiveNoShowFee *)
Waive(w) ==
    /\ req[w].op = "waive"
    /\ fee' = IF Claims THEN [fee EXCEPT !.status = "WAIVED"] ELSE fee
    /\ req' = [req EXCEPT ![w] = Free]
    /\ UNCHANGED <<status, deposit, prepaid, sales, changes>>

(* deleteSale *)
DeleteSale ==
    /\ "undo" \in Faults /\ sales > 0 /\ sales' = sales - 1
    /\ fee' = IF fee.status = "COLLECTED" THEN [fee EXCEPT !.status = "PENDING"] ELSE fee
    /\ UNCHANGED <<status, deposit, prepaid, changes, req>>

Next ==
    \/ DeleteSale
    \/ \E w \in Worker :
          \/ \E to \in Status : Begin(w, to)
          \/ WriteStatus(w) \/ RetainFee(w) \/ RefundDeposit(w) \/ RefundPrepaid(w) \/ RecordFee(w) \/ DropFee(w)
          \/ ReadFee(w, "collect") \/ ReadFee(w, "waive") \/ Collect(w) \/ Waive(w)

Spec == Init /\ [][Next]_vars

(***************************************************************************)
(* Properties                                                              *)
(***************************************************************************)

TypeOK ==
    /\ status \in Status /\ deposit \in BOOLEAN /\ prepaid \in 0 .. Pre /\ fee \in FeeRow
    /\ sales \in 0 .. 2 /\ changes \in 0 .. Changes
    /\ \A w \in Worker : req[w].op \in {"free", "write", "retain", "deposit", "prepaid", "record", "undone", "collect", "waive"}

(* Whoever owes a fee never pays more than it, counted with the deposit    *)
(* and with what was paid ahead that the shop keeps (noShowFeeFor,         *)
(* retainFeeFromPrepayment, recordNoShowFee). Two changes together, or a   *)
(* refund that Stripe refuses, charge it twice.                            *)
NeverAboveFee ==
    Faults \cap {"overlap", "stripe"} = {} /\ fee.status = "PENDING"
    => fee.amount + prepaid + (IF deposit THEN Dep ELSE 0) <= Fee

(* A fee that was received is one sale, however many clicks, and a fee     *)
(* that is owed or was waived is none (markNoShowFeeCollected).            *)
CollectedOnce == sales = IF fee.status = "COLLECTED" THEN 1 ELSE 0

(* Who came after all, or whose cancellation was undone, owes nothing. The *)
(* fee is recorded after the answer, so a quick undo loses against it, and *)
(* the sale of a fee that was received before the undo brings it back.     *)
UndoneOwesNothing == Idle /\ Faults = {} /\ status = "CONFIRMED" => fee.status # "PENDING"

=============================================================================
