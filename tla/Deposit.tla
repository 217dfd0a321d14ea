------------------------------- MODULE Deposit -------------------------------
(***************************************************************************)
(* The online deposit of one public reservation: DepositPaymentService,    *)
(* the parts of BarbershopService that settle, cancel, refund or delete a  *)
(* reservation, and Stripe as they use it.                                 *)
(*                                                                         *)
(* Deposits of different appointments do not interact, so the module has   *)
(* one row.  Every call is a worker: an HTTP request, a webhook delivery   *)
(* or a run of a scheduled job.  A worker's step is one database statement *)
(* or one Stripe call; between two steps other workers, the customer's     *)
(* card and the clock move.                                                *)
(*                                                                         *)
(* Left out: amounts, fees, e-mails, the waiting list that is told of a    *)
(* freed slot and the sale that closes the account.                        *)
(***************************************************************************)
EXTENDS Integers, FiniteSets

CONSTANTS
    Worker,         \* concurrent calls
    Intent,         \* bound: the PaymentIntents Stripe creates
    None,
    Mixes           \* the mixes of calls a behaviour may consist of

(* "close" releases the hold; "closeCancel" is the same closure (or the end *)
(* of a series) cancelling a confirmed row.  In "staffKeep" the staff       *)
(* cancels and retains the deposit.                                         *)
Op == {"start", "confirm", "webhook", "expire", "close", "closeCancel", "clientCancel",
       "staffCancel", "staffKeep", "staffConfirm", "delete", "manualRefund", "receive"}

StaffOp == {"staffCancel", "staffKeep", "staffConfirm", "delete"}

RowStatus == {"PENDING_PAYMENT", "CONFIRMED", "CANCELLED", "DELETED"}

(* The deposit columns: depositPaid, depositPaidAt, depositPaymentIntentId  *)
(* and depositRefundedAt, the two dates as "is it set"; link: linkVersion is  *)
(* still the one of the link the customer was sent.                         *)
Row == [status : RowStatus, paid : BOOLEAN, online : BOOLEAN,
        intent : Intent \cup {None}, refunded : BOOLEAN, link : BOOLEAN]

Step == {"idle", "start.read", "start.retrieve", "start.create", "start.save",
         "confirm.read", "confirm.retrieve",
         "finalize.read", "finalize.confirm", "finalize.claim", "finalize.refund",
         "release.read", "release.retrieve", "release.cancel", "release.write",
         "staff.read", "settle.read", "settle.retrieve", "settle.cancel", "staff.reread",
         "staff.write", "delete.write",
         "cancel", "manual.read",
         "refund.read", "refund.claim", "refund.stripe", "refund.undo",
         "receive.read", "receive.write"}

NewRow == [status |-> "PENDING_PAYMENT", paid |-> FALSE, online |-> FALSE,
           intent |-> None, refunded |-> FALSE, link |-> TRUE]

NoCall == [op |-> "none", snap |-> NewRow, seen |-> NewRow, intent |-> None]

ASSUME NoneAssumption == None \notin Intent
ASSUME MixesAssumption ==
    Mixes \subseteq [ops : SUBSET Op, serial : SUBSET SUBSET Op, faults : BOOLEAN]

VARIABLES
    mix,       \* the calls of this behaviour: it never changes
    row,       \* the appointment's row
    intents,   \* Stripe: the status of each PaymentIntent
    repaid,    \* Stripe: the intents whose charge was refunded
    handed,    \* the intents whose client secret reached the customer
    events,    \* succeeded intents whose webhook was not acknowledged yet
    expired,   \* holdExpiresAt has passed
    pc,
    call       \* what each worker remembers: the operation, the row it read, the row
               \* finalize read for it and the intent it is about

stripe == <<intents, repaid>>
vars == <<mix, row, intents, repaid, handed, events, expired, pc, call>>

Ops == mix.ops                (* the operations in use *)
Serial == mix.serial          (* sets of operations that never overlap in time *)
StripeFaults == mix.faults    (* may Stripe be unreachable or refuse a refund? *)

StateOK ==
    /\ row \in Row
    /\ intents \in [Intent -> {"none", "open", "succeeded", "canceled"}]
    /\ repaid \subseteq Intent
    /\ handed \subseteq Intent
    /\ events \subseteq Intent
    /\ expired \in BOOLEAN
    /\ pc \in [Worker -> Step]
    /\ call \in [Worker -> [op : Op \cup {"none"}, snap : Row, seen : Row,
                            intent : Intent \cup {None}]]

TypeOK == StateOK /\ mix \in Mixes

Init ==
    /\ mix \in Mixes
    /\ row = NewRow
    /\ intents = [i \in Intent |-> "none"]
    /\ repaid = {}
    /\ handed = {}
    /\ events = {}
    /\ expired = FALSE
    /\ pc = [w \in Worker |-> "idle"]
    /\ call = [w \in Worker |-> NoCall]

----------------------------------------------------------------------------
(* Workers *)

Goto(w, step) == pc' = [pc EXCEPT ![w] = step]

(* Answer the request or acknowledge the webhook. *)
Done(w) == Goto(w, "idle") /\ call' = [call EXCEPT ![w] = NoCall]

Read(w) == call' = [call EXCEPT ![w].snap = row]

MayBegin(w, op) ==
    /\ pc[w] = "idle"
    /\ op \in Ops
    /\ \A v \in Worker : pc[v] # "idle" => {op, call[v].op} \notin Serial

Begin(w, op, step, i) ==
    /\ MayBegin(w, op)
    /\ Goto(w, step)
    /\ call' = [call EXCEPT ![w] = [NoCall EXCEPT !.op = op, !.intent = i]]
    /\ UNCHANGED <<mix, row, stripe, handed, events, expired>>

CallStart(w) == Begin(w, "start", "start.read", None)
CallConfirm(w) == Begin(w, "confirm", "confirm.read", None)
(* Stripe delivers an event at least once. *)
Deliver(w, i) == intents[i] = "succeeded" /\ Begin(w, "webhook", "finalize.read", i)
(* expireHolds runs every minute over the holds that ran out. *)
Expire(w) == expired /\ row.status = "PENDING_PAYMENT" /\ Begin(w, "expire", "release.read", None)
(* A closure or a time off releases the holds that fall on it. *)
Close(w) == row.status = "PENDING_PAYMENT" /\ Begin(w, "close", "release.read", None)
CallStaff(w) == \E op \in StaffOp : Begin(w, op, "staff.read", None)
CallCancel(w) == \E op \in {"clientCancel", "closeCancel"} : Begin(w, op, "cancel", None)
CallManualRefund(w) == Begin(w, "manualRefund", "manual.read", None)
CallReceive(w) == Begin(w, "receive", "receive.read", None)

----------------------------------------------------------------------------
(* Stripe *)

(* The customer confirms the card on a secret they were given. *)
Pay(i) ==
    /\ i \in handed
    /\ intents[i] = "open"
    /\ intents' = [intents EXCEPT ![i] = "succeeded"]
    /\ events' = events \cup {i}
    /\ UNCHANGED <<mix, row, repaid, handed, expired, pc, call>>

(* paymentIntents.cancel: only an intent that was not paid can be cancelled *)
CancelIntent(i) == intents' = [intents EXCEPT ![i] = IF @ = "open" THEN "canceled" ELSE @]

TimeOut ==
    /\ ~ expired
    /\ expired' = TRUE
    /\ UNCHANGED <<mix, row, stripe, handed, events, pc, call>>

----------------------------------------------------------------------------
(* finalize: applies a succeeded intent, or gives the money back *)

(* A staff request whose deposit turned out not to be paid goes on;         *)
(* deleteAppointment refuses a row it had read with the deposit received    *)
(* by hand.                                                                 *)
Unpaid(w) ==
    CASE call[w].op = "delete" /\ call[w].snap.paid -> Done(w)
      [] call[w].op = "delete" /\ ~ call[w].snap.paid -> Goto(w, "delete.write") /\ UNCHANGED call
      [] OTHER -> Goto(w, "staff.write") /\ UNCHANGED call

(* The result of finalize, for the caller that waits for it.  A row that    *)
(* was paid meanwhile cannot be deleted.                                    *)
Return(w, result) ==
    IF call[w].op \in StaffOp
    THEN /\ CASE result # "CONFIRMED" -> Unpaid(w)
              [] result = "CONFIRMED" /\ call[w].op = "delete" -> Done(w)
              [] OTHER -> Goto(w, "staff.reread") /\ UNCHANGED call
         /\ UNCHANGED events
    ELSE /\ Done(w)
         /\ events' = IF call[w].op = "webhook" THEN events \ {call[w].intent} ELSE events

FinalizeRead(w) ==
    /\ pc[w] = "finalize.read"
    /\ IF row.status = "DELETED"
       THEN Goto(w, "finalize.refund") /\ UNCHANGED call
       ELSE Goto(w, "finalize.confirm") /\ call' = [call EXCEPT ![w].seen = row]
    /\ UNCHANGED <<row, stripe, handed, events, expired>>

(* The late payment of a hold that was released *)
Late(seen) == seen.status = "CANCELLED" /\ ~ seen.paid

(* Mutant: forgets that the intent may already be applied or given back. *)
MutAlreadyApplied(seen, i) == FALSE

(* Mutant: a row that names the intent counts as paid with it. *)
MutSameIntent(seen, i) == seen.intent = i

AlreadyApplied(seen, i) == seen.intent = i /\ (seen.paid \/ seen.refunded)

FinalizeConfirm(w) ==
    LET i == call[w].intent
        seen == call[w].seen
    IN  /\ pc[w] = "finalize.confirm"
        /\ IF row.status = "PENDING_PAYMENT"
           THEN /\ row' = [row EXCEPT !.status = "CONFIRMED", !.paid = TRUE,
                                      !.online = TRUE, !.intent = i]
                /\ Return(w, "CONFIRMED")
           ELSE /\ UNCHANGED row
                /\ CASE Late(seen) -> Goto(w, "finalize.claim") /\ UNCHANGED <<call, events>>
                     [] ~ Late(seen) /\ AlreadyApplied(seen, i) -> Return(w, seen.status)
                     [] OTHER -> Goto(w, "finalize.refund") /\ UNCHANGED <<call, events>>
        /\ UNCHANGED <<stripe, handed, expired>>

(* Late payment: whoever marks the refund first makes it. *)
FinalizeClaim(w) ==
    /\ pc[w] = "finalize.claim"
    /\ IF row.status # "DELETED" /\ ~ row.refunded
       THEN /\ row' = [row EXCEPT !.intent = call[w].intent, !.refunded = TRUE]
            /\ Goto(w, "finalize.refund")
            /\ UNCHANGED <<call, events>>
       ELSE /\ UNCHANGED row
            /\ Return(w, "REFUNDED")
    /\ UNCHANGED <<stripe, handed, expired>>

(* The refund's idempotency key names the intent; an error is only logged.  *)
FinalizeRefund(w) ==
    /\ pc[w] = "finalize.refund"
    /\ \/ repaid' = repaid \cup {call[w].intent}
       \/ StripeFaults /\ UNCHANGED repaid
    /\ Return(w, "REFUNDED")
    /\ UNCHANGED <<row, intents, handed, expired>>

----------------------------------------------------------------------------
(* start and confirm, from the customer's screen *)

StartRead(w) ==
    /\ pc[w] = "start.read"
    /\ IF row.status = "PENDING_PAYMENT" /\ ~ expired
       THEN /\ Goto(w, IF row.intent = None THEN "start.create" ELSE "start.retrieve")
            /\ call' = [call EXCEPT ![w].snap = row, ![w].intent = row.intent]
       ELSE Done(w)
    /\ UNCHANGED <<row, stripe, handed, events, expired>>

(* An open intent is resumed, a paid one is applied, a cancelled one is     *)
(* replaced; with Stripe unreachable the request fails.                     *)
StartRetrieve(w) ==
    LET i == call[w].intent
    IN  /\ pc[w] = "start.retrieve"
        /\ \/ intents[i] = "succeeded" /\ Goto(w, "finalize.read") /\ UNCHANGED <<call, handed>>
           \/ intents[i] = "canceled" /\ Goto(w, "start.create") /\ UNCHANGED <<call, handed>>
           \/ intents[i] = "open" /\ Done(w) /\ handed' = handed \cup {i}
           \/ StripeFaults /\ Done(w) /\ UNCHANGED handed
        /\ UNCHANGED <<row, stripe, events, expired>>

(* The bound on Intent: with none left the request fails, as it does when   *)
(* Stripe is unreachable.                                                   *)
StartCreate(w) ==
    /\ pc[w] = "start.create"
    /\ \/ \E i \in Intent :
             /\ intents[i] = "none"
             /\ intents' = [intents EXCEPT ![i] = "open"]
             /\ call' = [call EXCEPT ![w].intent = i]
             /\ Goto(w, "start.save")
       \/ /\ StripeFaults \/ \A i \in Intent : intents[i] # "none"
          /\ Done(w)
          /\ UNCHANGED intents
    /\ UNCHANGED <<row, repaid, handed, events, expired>>

(* Mutant: saves the new intent whatever the other tab saved meanwhile. *)
MutStartSave(w) ==
    /\ pc[w] = "start.save"
    /\ row' = [row EXCEPT !.intent = call[w].intent]
    /\ handed' = handed \cup {call[w].intent}
    /\ Done(w)
    /\ UNCHANGED <<stripe, events, expired>>

(* The first tab to save its intent wins; the other cancels its own and     *)
(* starts over.                                                             *)
StartSave(w) ==
    /\ pc[w] = "start.save"
    /\ IF row.status # "DELETED" /\ row.intent = call[w].snap.intent
       THEN /\ row' = [row EXCEPT !.intent = call[w].intent]
            /\ handed' = handed \cup {call[w].intent}
            /\ Done(w)
            /\ UNCHANGED intents
       ELSE /\ CancelIntent(call[w].intent) \/ (StripeFaults /\ UNCHANGED intents)
            /\ Goto(w, "start.read")
            /\ UNCHANGED <<row, handed, call>>
    /\ UNCHANGED <<repaid, events, expired>>

(* The account page hands out a current link of a confirmed reservation. *)
ConfirmRead(w) ==
    /\ pc[w] = "confirm.read"
    /\ IF \/ row.status = "CONFIRMED" /\ row.paid
          \/ row.status = "DELETED" \/ (row.status = "CANCELLED" /\ ~ row.link)
          \/ row.intent = None
       THEN Done(w)
       ELSE /\ Goto(w, "confirm.retrieve")
            /\ call' = [call EXCEPT ![w].intent = row.intent]
    /\ UNCHANGED <<row, stripe, handed, events, expired>>

ConfirmRetrieve(w) ==
    /\ pc[w] = "confirm.retrieve"
    /\ \/ intents[call[w].intent] = "succeeded" /\ Goto(w, "finalize.read") /\ UNCHANGED call
       \/ (StripeFaults \/ intents[call[w].intent] # "succeeded") /\ Done(w)
    /\ UNCHANGED <<row, stripe, handed, events, expired>>

----------------------------------------------------------------------------
(* releaseUnpaidHold *)

(* Mutant: only looks at the holds whose payment was started. *)
MutReleaseRead(w) ==
    /\ pc[w] = "release.read"
    /\ IF row.status # "PENDING_PAYMENT" \/ row.intent = None THEN Done(w)
       ELSE Goto(w, "release.retrieve") /\ call' = [call EXCEPT ![w].intent = row.intent]
    /\ UNCHANGED <<row, stripe, handed, events, expired>>

ReleaseRead(w) ==
    /\ pc[w] = "release.read"
    /\ IF row.status # "PENDING_PAYMENT" THEN Done(w)
       ELSE /\ Goto(w, IF row.intent = None THEN "release.write" ELSE "release.retrieve")
            /\ call' = [call EXCEPT ![w].intent = row.intent]
    /\ UNCHANGED <<row, stripe, handed, events, expired>>

(* Stripe unreachable: the hold stays, since the payment may have passed. *)
ReleaseRetrieve(w) ==
    LET status == intents[call[w].intent]
    IN  /\ pc[w] = "release.retrieve"
        /\ \/ status = "succeeded" /\ Goto(w, "finalize.read") /\ UNCHANGED call
           \/ status = "canceled" /\ Goto(w, "release.write") /\ UNCHANGED call
           \/ status = "open" /\ Goto(w, "release.cancel") /\ UNCHANGED call
           \/ StripeFaults /\ Done(w)
        /\ UNCHANGED <<row, stripe, handed, events, expired>>

(* An error of this cancellation (paid meanwhile, unreachable) is ignored. *)
ReleaseCancel(w) ==
    /\ pc[w] = "release.cancel"
    /\ CancelIntent(call[w].intent) \/ (StripeFaults /\ UNCHANGED intents)
    /\ Goto(w, "release.write")
    /\ UNCHANGED <<row, repaid, handed, events, expired, call>>

(* Mutant: writes a status of its own. *)
MutReleaseWrite(w) ==
    /\ pc[w] = "release.write"
    /\ row' = IF row.status = "PENDING_PAYMENT" THEN [row EXCEPT !.status = "EXPIRED"] ELSE row
    /\ Done(w)
    /\ UNCHANGED <<stripe, handed, events, expired>>

ReleaseWrite(w) ==
    /\ pc[w] = "release.write"
    /\ row' = IF row.status = "PENDING_PAYMENT" THEN [row EXCEPT !.status = "CANCELLED"] ELSE row
    /\ Done(w)
    /\ UNCHANGED <<stripe, handed, events, expired>>

----------------------------------------------------------------------------
(* Staff: updateAppointment to CANCELLED or CONFIRMED, deleteAppointment *)

StaffRead(w) ==
    /\ pc[w] = "staff.read"
    /\ CASE row.status = "DELETED" -> Done(w)
         [] row.status = "PENDING_PAYMENT" -> Goto(w, "settle.read") /\ Read(w)
         [] OTHER -> IF call[w].op = "delete"
                     THEN IF row.paid THEN Done(w) ELSE Goto(w, "delete.write") /\ Read(w)
                     ELSE Goto(w, "staff.write") /\ Read(w)
    /\ UNCHANGED <<row, stripe, handed, events, expired>>

(* settleForStaff *)
SettleRead(w) ==
    /\ pc[w] = "settle.read"
    /\ IF row.status = "PENDING_PAYMENT" /\ row.intent # None
       THEN /\ Goto(w, "settle.retrieve")
            /\ call' = [call EXCEPT ![w].intent = row.intent]
       ELSE Unpaid(w)
    /\ UNCHANGED <<row, stripe, handed, events, expired>>

SettleRetrieve(w) ==
    LET status == intents[call[w].intent]
    IN  /\ pc[w] = "settle.retrieve"
        /\ \/ status = "succeeded" /\ Goto(w, "finalize.read") /\ UNCHANGED call
           \/ status = "canceled" /\ Unpaid(w)
           \/ status = "open" /\ Goto(w, "settle.cancel") /\ UNCHANGED call
           \/ StripeFaults /\ Done(w)
        /\ UNCHANGED <<row, stripe, handed, events, expired>>

(* Paid between the two calls, or unreachable: the request is refused. *)
SettleCancel(w) ==
    /\ pc[w] = "settle.cancel"
    /\ \/ intents[call[w].intent] # "succeeded" /\ CancelIntent(call[w].intent) /\ Unpaid(w)
       \/ (StripeFaults \/ intents[call[w].intent] = "succeeded") /\ Done(w) /\ UNCHANGED intents
    /\ UNCHANGED <<row, repaid, handed, events, expired>>

(* Mutant: goes on with the row it had read before the payment. *)
MutStaffReread(w) ==
    /\ pc[w] = "staff.reread"
    /\ call' = [call EXCEPT ![w].snap.paid = FALSE, ![w].snap.status = "PENDING_PAYMENT"]
    /\ Goto(w, "staff.write")
    /\ UNCHANGED <<row, stripe, handed, events, expired>>

(* The deposit was paid: the request goes on with the row as it is now. *)
StaffReread(w) ==
    /\ pc[w] = "staff.reread"
    /\ Read(w)
    /\ Goto(w, "staff.write")
    /\ UNCHANGED <<row, stripe, handed, events, expired>>

(* The update is not conditional on the status.  A cancellation returns the *)
(* deposit that the row it had read shows as paid online.  Reactivating a   *)
(* cancelled reservation is refused when its slot was taken.                *)
StaffWrite(w) ==
    LET snap == call[w].snap
        cancels == call[w].op # "staffConfirm"
        closes == cancels /\ snap.status # "CANCELLED"
    IN  /\ pc[w] = "staff.write"
        /\ \/ /\ row.status # "DELETED"
              /\ row' = [row EXCEPT !.status = IF cancels THEN "CANCELLED" ELSE "CONFIRMED",
                                    !.link = @ /\ ~ closes]
              /\ IF closes /\ call[w].op = "staffCancel" /\ snap.paid /\ snap.online
                 THEN Goto(w, "refund.read") /\ UNCHANGED call
                 ELSE Done(w)
           \/ /\ row.status = "DELETED" \/ (row.status = "CANCELLED" /\ ~ cancels)
              /\ Done(w)
              /\ UNCHANGED row
        /\ UNCHANGED <<stripe, handed, events, expired>>

DeleteWrite(w) ==
    /\ pc[w] = "delete.write"
    /\ row' = [row EXCEPT !.status = "DELETED"]
    /\ Done(w)
    /\ UNCHANGED <<stripe, handed, events, expired>>

(* setAppointmentDepositPaid: received, or unmarked, at the counter *)
ReceiveRead(w) ==
    /\ pc[w] = "receive.read"
    /\ IF row.status = "DELETED" \/ row.online \/ row.refunded THEN Done(w)
       ELSE Goto(w, "receive.write") /\ Read(w)
    /\ UNCHANGED <<row, stripe, handed, events, expired>>

ReceiveWrite(w) ==
    /\ pc[w] = "receive.write"
    /\ row' = IF row.status = "DELETED" THEN row ELSE [row EXCEPT !.paid = ~ call[w].snap.paid]
    /\ Done(w)
    /\ UNCHANGED <<stripe, handed, events, expired>>

----------------------------------------------------------------------------
(* Refunds: a cancellation of a confirmed reservation, a manager by hand *)

(* cancelManagedAppointment, whose resolver then calls refundOnClientCancel; *)
(* ClosureService.set also makes the old link stale.                        *)
Cancel(w) ==
    /\ pc[w] = "cancel"
    /\ IF row.status = "CONFIRMED"
       THEN /\ row' = [row EXCEPT !.status = "CANCELLED", !.link = @ /\ call[w].op = "clientCancel"]
            /\ Goto(w, "refund.read")
            /\ UNCHANGED call
       ELSE Done(w) /\ UNCHANGED row
    /\ UNCHANGED <<stripe, handed, events, expired>>

(* refundAppointmentDeposit *)
ManualRead(w) ==
    /\ pc[w] = "manual.read"
    /\ IF row.status # "DELETED" /\ row.paid /\ row.online /\ ~ row.refunded
       THEN Goto(w, "refund.read") /\ UNCHANGED call
       ELSE Done(w)
    /\ UNCHANGED <<row, stripe, handed, events, expired>>

(* refundOnlineDeposit *)
RefundRead(w) ==
    /\ pc[w] = "refund.read"
    /\ IF row.status # "DELETED" /\ row.intent # None /\ row.online
       THEN /\ Goto(w, "refund.claim")
            /\ call' = [call EXCEPT ![w].intent = row.intent]
       ELSE Done(w)
    /\ UNCHANGED <<row, stripe, handed, events, expired>>

RefundClaim(w) ==
    /\ pc[w] = "refund.claim"
    /\ IF row.status # "DELETED" /\ row.paid /\ ~ row.refunded /\ row.intent = call[w].intent
       THEN /\ row' = [row EXCEPT !.paid = FALSE, !.refunded = TRUE]
            /\ Goto(w, "refund.stripe")
            /\ UNCHANGED call
       ELSE Done(w) /\ UNCHANGED row
    /\ UNCHANGED <<stripe, handed, events, expired>>

RefundStripe(w) ==
    /\ pc[w] = "refund.stripe"
    /\ \/ repaid' = repaid \cup {call[w].intent} /\ Done(w)
       \/ StripeFaults /\ Goto(w, "refund.undo") /\ UNCHANGED <<repaid, call>>
    /\ UNCHANGED <<row, intents, handed, events, expired>>

(* Mutant: leaves the mark of a refund that Stripe refused. *)
MutRefundUndo(w) ==
    /\ pc[w] = "refund.undo"
    /\ Done(w)
    /\ UNCHANGED <<row, stripe, handed, events, expired>>

(* Stripe refused: the mark is taken back. *)
RefundUndo(w) ==
    /\ pc[w] = "refund.undo"
    /\ row' = IF row.status # "DELETED" /\ row.refunded
              THEN [row EXCEPT !.paid = TRUE, !.refunded = FALSE] ELSE row
    /\ Done(w)
    /\ UNCHANGED <<stripe, handed, events, expired>>

----------------------------------------------------------------------------

Arrive(w) ==
    \/ CallStart(w) \/ CallConfirm(w) \/ Close(w) \/ CallStaff(w)
    \/ CallCancel(w) \/ CallManualRefund(w) \/ CallReceive(w)

AdvanceCall(w) ==
    \/ FinalizeRead(w) \/ FinalizeConfirm(w) \/ FinalizeClaim(w) \/ FinalizeRefund(w)
    \/ StartRead(w) \/ StartRetrieve(w) \/ StartCreate(w) \/ StartSave(w)
    \/ ConfirmRead(w) \/ ConfirmRetrieve(w)
    \/ ReleaseRead(w) \/ ReleaseRetrieve(w) \/ ReleaseCancel(w) \/ ReleaseWrite(w)
    \/ StaffRead(w) \/ SettleRead(w) \/ SettleRetrieve(w) \/ SettleCancel(w)
    \/ StaffReread(w) \/ StaffWrite(w) \/ DeleteWrite(w)
    \/ ReceiveRead(w) \/ ReceiveWrite(w)
    \/ Cancel(w) \/ ManualRead(w)
    \/ RefundRead(w) \/ RefundClaim(w) \/ RefundStripe(w) \/ RefundUndo(w)

Advance(w) == AdvanceCall(w) /\ UNCHANGED mix

Next ==
    \/ \E w \in Worker : Arrive(w) \/ Expire(w) \/ Advance(w) \/ \E i \in Intent : Deliver(w, i)
    \/ \E i \in Intent : Pay(i)
    \/ TimeOut

Spec == Init /\ [][Next]_vars

(* A call runs to its end; the clock moves.  Strong fairness stands for the *)
(* repetition of what finds every worker busy: Stripe delivers a webhook    *)
(* until it is acknowledged, and expireHolds runs again every minute.       *)
Fairness ==
    /\ \A w \in Worker : WF_vars(Advance(w))
    /\ \A i \in Intent : SF_vars(\E w \in Worker : Deliver(w, i))
    /\ SF_vars(\E w \in Worker : Expire(w))
    /\ WF_vars(TimeOut)

FairSpec == Spec /\ Fairness

----------------------------------------------------------------------------
(* Properties *)

Captured(i) == intents[i] = "succeeded" /\ i \notin repaid

AllIdle == \A w \in Worker : pc[w] = "idle"

Quiet == events = {} /\ AllIdle

(* However many tabs start the payment, at most one PaymentIntent can still *)
(* take the customer's money or holds it ("Um PaymentIntent por             *)
(* agendamento", start).                                                    *)
OneCharge == Cardinality({i \in handed : intents[i] = "open" \/ Captured(i)}) <= 1

(* When nothing is under way, money taken from the customer is on the row   *)
(* as an online deposit; what was not applied went back (finalize).         *)
NothingStranded ==
    Quiet => \A i \in Intent :
        Captured(i) => row.status # "DELETED" /\ row.paid /\ row.online /\ row.intent = i

(* A deposit recorded as paid online is money the platform still holds: the *)
(* screen and the webhook, arriving together, apply it once (finalize).     *)
PaidMeansHeld ==
    row.status # "DELETED" /\ row.paid /\ row.online => Captured(row.intent)

(* When nothing is under way, a cancelled reservation keeps no deposit paid *)
(* online (releaseUnpaidHold, updateAppointment, refundOnClientCancel).     *)
CancelledKeepsNothing ==
    Quiet /\ row.status = "CANCELLED" => \A i \in Intent : ~ Captured(i)

(* When no call is under way, a deposit marked as refunded was refunded,    *)
(* even when Stripe refuses some refunds (refundOnlineDeposit).             *)
RefundMarkTrue == AllIdle /\ row.status # "DELETED" /\ row.refunded => row.intent \in repaid

(* The operations that apply a payment, or write the deposit with no        *)
(* condition on the row they had read                                       *)
Finalizers == {"start", "confirm", "webhook", "expire", "close", "receive"} \cup StaffOp

OneFinalizer == {{a, b} : a, b \in Finalizers}
StaffAlone == {{a, b} : a \in StaffOp, b \in Finalizers}

(* Money taken from the customer is on the row or went back, whatever calls *)
(* overlap, unless the row is deleted or paid in cash meanwhile (finalize). *)
OverlapStrandsNothing ==
    Ops \cap {"delete", "receive"} = {} /\ ~ StripeFaults => NothingStranded

(* One finalizer at a time: a deposit recorded as paid online is money the  *)
(* platform still holds (finalize, refundOnlineDeposit).                    *)
SerialPaidMeansHeld == OneFinalizer \subseteq Serial /\ ~ StripeFaults => PaidMeansHeld

(* While no staff edit overlaps a finalizer, a cancelled reservation keeps  *)
(* no deposit, whoever cancels it and whenever the customer pays            *)
(* (releaseUnpaidHold, updateAppointment, refundOnClientCancel).            *)
ReturningKeepsNothing ==
    /\ Ops \cap {"staffKeep", "receive"} = {}
    /\ StaffAlone \subseteq Serial /\ ~ StripeFaults
    => CancelledKeepsNothing

(* Stripe may refuse any refund: while the payment is applied only by the   *)
(* screen that resumes it, and never late, the mark of a refund is left on  *)
(* the row only when the money went back (refundOnlineDeposit).             *)
FaultyRefundMarkTrue ==
    /\ Ops \subseteq {"start", "staffCancel", "clientCancel", "closeCancel", "manualRefund"}
    /\ OneFinalizer \subseteq Serial
    => RefundMarkTrue

(* The payment is on the row or went back. *)
Settled(i) == i \in repaid \/ (row.paid /\ row.online /\ row.intent = i)
=============================================================================
