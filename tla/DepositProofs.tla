---------------------------- MODULE DepositProofs ----------------------------
(***************************************************************************)
(* Proofs about Deposit, for any number of calls and PaymentIntents: one   *)
(* charge at most (IInv), and the four promises, each under the condition  *)
(* on the mix that the property names. MInv says that the mix is kept to;  *)
(* SInv, HInv, KInv and DInv are what each promise needs besides.          *)
(***************************************************************************)
EXTENDS Deposit, FiniteSetTheorems, TLAPS

Holding == {"start.retrieve", "confirm.retrieve", "release.retrieve", "release.cancel",
            "settle.retrieve", "settle.cancel", "refund.claim", "refund.stripe"}

Applying == {"finalize.read", "finalize.confirm", "finalize.claim", "finalize.refund"}

(* What a call knows of the intent it holds: it was handed out; or it       *)
(* succeeded; or it was just created, to replace none or a cancelled one.   *)
CallOK(w) ==
    /\ pc[w] \in Holding => call[w].intent \in handed
    /\ pc[w] \in Applying => call[w].intent \in Intent /\ intents[call[w].intent] = "succeeded"
    /\ pc[w] = "start.retrieve" => call[w].snap.intent = call[w].intent
    /\ pc[w] \in {"start.create", "start.save"} =>
          call[w].snap.intent = None \/ intents[call[w].snap.intent] = "canceled"
    /\ pc[w] = "start.save" =>
          call[w].intent \in Intent \ handed /\ intents[call[w].intent] = "open"

CallsOK == \A w \in Worker : CallOK(w)

SavesApart ==
    \A v, w \in Worker :
        v # w /\ pc[v] = "start.save" /\ pc[w] = "start.save" => call[v].intent # call[w].intent

ChargeableOnRow ==
    \A i \in handed : intents[i] # "none" /\ (intents[i] # "canceled" => row.intent = i)

PaidWasHanded == \A i \in Intent : intents[i] = "succeeded" => i \in handed

RowWasHanded == row.intent # None => row.intent \in handed

IInv ==
    /\ StateOK
    /\ ChargeableOnRow
    /\ PaidWasHanded
    /\ RowWasHanded
    /\ SavesApart
    /\ CallsOK

----------------------------------------------------------------------------
(* Lemmas *)

(* A step of call w that leaves Stripe, the handed intents and the intent   *)
(* of the row alone *)
Local(w) ==
    /\ UNCHANGED <<intents, handed>>
    /\ row'.intent = row.intent
    /\ \A v \in Worker \ {w} : pc'[v] = pc[v] /\ call'[v] = call[v]
    /\ pc'[w] # "start.save"
    /\ CallOK(w)'

(* Such a step keeps the invariant. *)
LEMMA LocalStep ==
    ASSUME IInv, StateOK', NEW w \in Worker, Local(w)
    PROVE  IInv'
BY DEF IInv, Local, ChargeableOnRow, PaidWasHanded, RowWasHanded, SavesApart, CallsOK,
       CallOK

(* The row a call starts with is a row. *)
LEMMA NoCallType == NoCall \in [op : Op \cup {"none"}, snap : Row, seen : Row,
                                 intent : Intent \cup {None}]
BY DEF NoCall, NewRow, Row, RowStatus

(* The answer of a request: w is idle and remembers nothing. *)
LEMMA DoneStep ==
    ASSUME IInv, NEW w \in Worker, Done(w), UNCHANGED <<intents, handed>>,
           row'.intent = row.intent
    PROVE  /\ Local(w)
           /\ pc' \in [Worker -> Step]
           /\ call' \in [Worker -> [op : Op \cup {"none"}, snap : Row, seen : Row,
                                    intent : Intent \cup {None}]]
BY NoCallType DEF IInv, StateOK, Done, Goto, Local, CallOK, Step, Holding, Applying

(* A new call keeps the invariant. *)
LEMMA BeginStep ==
    ASSUME IInv, NEW w \in Worker, NEW op \in Op, NEW step \in Step,
           NEW i \in Intent \cup {None}, Begin(w, op, step, i),
           step \notin Holding \cup {"start.create", "start.save"},
           step \in Applying => i \in Intent /\ intents[i] = "succeeded"
    PROVE  IInv'
BY NoCallType, LocalStep DEF IInv, StateOK, Begin, Goto, stripe, Local, CallOK, Holding

(* Going to a step that knows nothing of the intent *)
LEMMA GotoStep ==
    ASSUME IInv, NEW w \in Worker, NEW step \in Step,
           step \notin Holding \cup Applying \cup {"start.create", "start.save"},
           Goto(w, step), UNCHANGED <<call, intents, handed>>, row'.intent = row.intent
    PROVE  Local(w) /\ pc' \in [Worker -> Step]
BY DEF IInv, StateOK, Goto, Local, CallOK, Holding

----------------------------------------------------------------------------
(* finalize *)

(* After an unpaid settlement the request only answers or writes. *)
LEMMA UnpaidStep ==
    ASSUME IInv, NEW w \in Worker, Unpaid(w), UNCHANGED <<intents, handed>>,
           row'.intent = row.intent
    PROVE  /\ Local(w)
           /\ pc' \in [Worker -> Step]
           /\ call' \in [Worker -> [op : Op \cup {"none"}, snap : Row, seen : Row,
                                    intent : Intent \cup {None}]]
BY DoneStep, GotoStep DEF IInv, StateOK, Step, Holding, Applying, Unpaid

(* Returning from finalize *)
LEMMA ReturnStep ==
    ASSUME IInv, NEW w \in Worker, NEW result, Return(w, result),
           UNCHANGED <<intents, handed>>, row'.intent = row.intent
    PROVE  /\ Local(w)
           /\ pc' \in [Worker -> Step]
           /\ call' \in [Worker -> [op : Op \cup {"none"}, snap : Row, seen : Row,
                                    intent : Intent \cup {None}]]
           /\ events' \subseteq Intent
BY DoneStep, UnpaidStep, GotoStep DEF Return, IInv, StateOK, Step, Holding, Applying

(* FinalizeRead keeps the invariant. *)
LEMMA FinalizeReadStep ==
    ASSUME IInv, NEW w \in Worker, FinalizeRead(w)
    PROVE  IInv'
<1>1. StateOK'
  BY DEF IInv, StateOK, FinalizeRead, Goto, stripe, Step
<1>2. Local(w)
  BY DEF IInv, StateOK, FinalizeRead, Goto, stripe, Local, CallsOK, CallOK, Holding, Applying
<1> QED  BY <1>1, <1>2, LocalStep

(* The intent being applied is the one on the row. *)
LEMMA AppliedOnRow ==
    ASSUME IInv, NEW w \in Worker, pc[w] \in Applying
    PROVE  call[w].intent \in Intent /\ row.intent = call[w].intent
BY DEF IInv, CallsOK, CallOK, PaidWasHanded, ChargeableOnRow

(* FinalizeConfirm keeps the invariant: it writes the intent the row already has. *)
LEMMA FinalizeConfirmStep ==
    ASSUME IInv, NEW w \in Worker, FinalizeConfirm(w)
    PROVE  IInv'
<1> USE DEF FinalizeConfirm
<1>1. pc[w] = "finalize.confirm" /\ UNCHANGED <<intents, repaid, handed, expired>>
  BY DEF stripe
<1>2. call[w].intent \in Intent /\ row.intent = call[w].intent
  BY <1>1, AppliedOnRow DEF Applying
<1>3. row' \in Row /\ row'.intent = row.intent
  <2>1. CASE row.status = "PENDING_PAYMENT"
    <3>1. row' = [row EXCEPT !.status = "CONFIRMED", !.paid = TRUE, !.online = TRUE,
                             !.intent = call[w].intent]
      BY <2>1
    <3> QED  BY <1>2, <3>1 DEF IInv, StateOK, Row, RowStatus
  <2>2. CASE row.status # "PENDING_PAYMENT"
    BY <2>2 DEF IInv, StateOK
  <2> QED  BY <2>1, <2>2
<1>4. \/ \E result : Return(w, result)
      \/ \E step \in {"finalize.claim", "finalize.refund"} :
            Goto(w, step) /\ UNCHANGED <<call, events>>
  OBVIOUS
<1>5. CASE \E result : Return(w, result)
  BY <1>1, <1>3, <1>5, ReturnStep, LocalStep DEF IInv, StateOK
<1>6. CASE \E step \in {"finalize.claim", "finalize.refund"} :
             Goto(w, step) /\ UNCHANGED <<call, events>>
  BY <1>1, <1>3, <1>6, LocalStep
     DEF IInv, StateOK, Goto, Step, Local, CallsOK, CallOK, Holding, Applying
<1> QED  BY <1>4, <1>5, <1>6

(* So does FinalizeClaim, for the same reason. *)
LEMMA FinalizeClaimStep ==
    ASSUME IInv, NEW w \in Worker, FinalizeClaim(w)
    PROVE  IInv'
<1> USE DEF FinalizeClaim
<1>1. pc[w] = "finalize.claim" /\ UNCHANGED <<intents, repaid, handed, expired>>
  BY DEF stripe
<1>2. call[w].intent \in Intent /\ row.intent = call[w].intent
  BY <1>1, AppliedOnRow DEF Applying
<1>3. row' \in Row /\ row'.intent = row.intent
  BY <1>2 DEF IInv, StateOK, Row
<1>4. CASE Return(w, "REFUNDED")
  BY <1>1, <1>3, <1>4, ReturnStep, LocalStep DEF IInv, StateOK
<1>5. CASE Goto(w, "finalize.refund") /\ UNCHANGED <<call, events>>
  BY <1>1, <1>3, <1>5, LocalStep
     DEF IInv, StateOK, Goto, Step, Local, CallsOK, CallOK, Holding, Applying
<1> QED  BY <1>4, <1>5

(* FinalizeRefund keeps the invariant. *)
LEMMA FinalizeRefundStep ==
    ASSUME IInv, NEW w \in Worker, FinalizeRefund(w)
    PROVE  IInv'
BY AppliedOnRow, ReturnStep, LocalStep DEF FinalizeRefund, Applying, IInv, StateOK

----------------------------------------------------------------------------
(* The steps that create, hand out, pay or cancel an intent *)

(* Cancelling an intent that no other call is about to save *)
LEMMA CancelStep ==
    ASSUME IInv, StateOK', NEW w \in Worker, NEW i \in Intent, CancelIntent(i),
           UNCHANGED handed, row'.intent = row.intent,
           \A v \in Worker \ {w} : pc'[v] = pc[v] /\ call'[v] = call[v],
           \A v \in Worker \ {w} : pc[v] = "start.save" => call[v].intent # i,
           pc'[w] # "start.save", CallOK(w)'
    PROVE  IInv'
<1>1. \A j \in Intent : \/ intents'[j] = intents[j]
                        \/ j = i /\ intents[j] = "open" /\ intents'[j] = "canceled"
  BY DEF IInv, StateOK, CancelIntent
<1>2. ChargeableOnRow' /\ PaidWasHanded' /\ RowWasHanded'
  BY <1>1 DEF IInv, StateOK, ChargeableOnRow, PaidWasHanded, RowWasHanded
<1>3. SavesApart'
  BY DEF IInv, SavesApart
<1>4. ASSUME NEW v \in Worker PROVE CallOK(v)'
  BY <1>1 DEF IInv, StateOK, Row, CallsOK, CallOK
<1> QED  BY <1>2, <1>3, <1>4 DEF IInv, CallsOK

(* The cancellation of releaseUnpaidHold keeps the invariant. *)
LEMMA ReleaseCancelStep ==
    ASSUME IInv, NEW w \in Worker, ReleaseCancel(w)
    PROVE  IInv'
<1> DEFINE i == call[w].intent
<1> USE DEF ReleaseCancel
<1>1. i \in handed /\ i \in Intent
  BY DEF IInv, StateOK, CallsOK, CallOK, Holding
<1>2. \A v \in Worker : pc[v] = "start.save" => call[v].intent # i
  BY <1>1 DEF IInv, CallsOK, CallOK
<1>3. StateOK'
  BY DEF IInv, StateOK, Goto, CancelIntent, Step
<1>4. pc'[w] = "release.write" /\ CallOK(w)'
  BY DEF IInv, StateOK, Goto, CallOK, Holding, Applying
<1>5. \A v \in Worker \ {w} : pc'[v] = pc[v] /\ call'[v] = call[v]
  BY DEF IInv, StateOK, Goto
<1>6. CASE CancelIntent(i)
  BY <1>1, <1>2, <1>3, <1>4, <1>5, <1>6, CancelStep
<1>7. CASE UNCHANGED intents
  BY <1>3, <1>4, <1>5, <1>7, LocalStep DEF Local
<1> QED  BY <1>6, <1>7

(* The cancellation of settleForStaff keeps the invariant. *)
LEMMA SettleCancelStep ==
    ASSUME IInv, NEW w \in Worker, SettleCancel(w)
    PROVE  IInv'
<1> DEFINE i == call[w].intent
<1> USE DEF SettleCancel
<1>1. i \in handed /\ i \in Intent
  BY DEF IInv, StateOK, CallsOK, CallOK, Holding
<1>2. \A v \in Worker : pc[v] = "start.save" => call[v].intent # i
  BY <1>1 DEF IInv, CallsOK, CallOK
<1>3. CASE CancelIntent(i) /\ Unpaid(w)
  <2>1. /\ pc' \in [Worker -> Step]
        /\ call' \in [Worker -> [op : Op \cup {"none"}, snap : Row, seen : Row,
                                 intent : Intent \cup {None}]]
        /\ \A v \in Worker \ {w} : pc'[v] = pc[v] /\ call'[v] = call[v]
        /\ pc'[w] \in {"idle", "delete.write", "staff.write"}
    BY NoCallType, <1>3 DEF IInv, StateOK, Done, Goto, Step, Unpaid
  <2>2. StateOK'
    BY <1>3, <2>1 DEF IInv, StateOK, CancelIntent
  <2>3. CallOK(w)'
    BY <2>1 DEF CallOK, Holding, Applying
  <2> QED  BY <1>1, <1>2, <1>3, <2>1, <2>2, <2>3, CancelStep
<1>4. CASE Done(w) /\ UNCHANGED intents
  BY <1>4, DoneStep, LocalStep DEF IInv, StateOK
<1> QED  BY <1>3, <1>4

(* A new intent is not handed out yet, and no other call is about to save it. *)
LEMMA StartCreateStep ==
    ASSUME IInv, NEW w \in Worker, StartCreate(w)
    PROVE  IInv'
<1> USE DEF StartCreate
<1>1. CASE Done(w) /\ UNCHANGED intents
  BY <1>1, DoneStep, LocalStep DEF IInv, StateOK
<1>2. ASSUME NEW i \in Intent, intents[i] = "none",
             intents' = [intents EXCEPT ![i] = "open"],
             call' = [call EXCEPT ![w].intent = i],
             Goto(w, "start.save")
      PROVE  IInv'
  <2>1. StateOK'
    BY <1>2 DEF IInv, StateOK, Goto, Step
  <2>2. i \notin handed
    BY <1>2 DEF IInv, ChargeableOnRow
  <2>3. \A j \in Intent : j # i => intents'[j] = intents[j]
    BY <1>2 DEF IInv, StateOK
  <2>4. intents'[i] = "open" /\ UNCHANGED <<row, handed>>
    BY <1>2 DEF IInv, StateOK
  <2>5. ChargeableOnRow' /\ PaidWasHanded' /\ RowWasHanded'
    BY <2>2, <2>3, <2>4 DEF IInv, StateOK, ChargeableOnRow, PaidWasHanded, RowWasHanded
  <2>6. \A v \in Worker \ {w} : pc'[v] = pc[v] /\ call'[v] = call[v]
    BY <1>2 DEF IInv, StateOK, Goto
  <2>7. /\ pc'[w] = "start.save" /\ call'[w].intent = i
        /\ call'[w].snap = call[w].snap
    BY <1>2 DEF IInv, StateOK, Goto
  <2>8. SavesApart'
    BY <1>2, <2>6, <2>7 DEF IInv, SavesApart, CallsOK, CallOK
  <2>9. ASSUME NEW v \in Worker PROVE CallOK(v)'
    BY <1>2, <2>2, <2>3, <2>4, <2>7, <2>6
       DEF IInv, StateOK, Row, CallsOK, CallOK, Holding, Applying
  <2> QED  BY <2>1, <2>5, <2>8, <2>9 DEF IInv, CallsOK
<1> QED  BY <1>1, <1>2

(* The conditional save: the intents handed before are all cancelled. *)
LEMMA StartSaveStep ==
    ASSUME IInv, NEW w \in Worker, StartSave(w)
    PROVE  IInv'
<1> DEFINE i == call[w].intent
<1> USE DEF StartSave
<1>1. /\ pc[w] = "start.save" /\ i \in Intent \ handed /\ intents[i] = "open"
      /\ call[w].snap.intent = None \/ intents[call[w].snap.intent] = "canceled"
  BY DEF IInv, CallsOK, CallOK
<1>2. \A v \in Worker \ {w} : pc[v] = "start.save" => call[v].intent # i
  BY <1>1 DEF IInv, SavesApart
<1>3. CASE row.status # "DELETED" /\ row.intent = call[w].snap.intent
  <2>1. /\ row' = [row EXCEPT !.intent = i] /\ handed' = handed \cup {i}
        /\ Done(w) /\ UNCHANGED <<intents, repaid, events, expired>>
    BY <1>3
  <2>2. row'.intent = i /\ row' \in Row
    BY <1>1, <2>1 DEF IInv, StateOK, Row
  <2>3. /\ pc' \in [Worker -> Step] /\ pc'[w] = "idle"
        /\ call' \in [Worker -> [op : Op \cup {"none"}, snap : Row, seen : Row,
                                 intent : Intent \cup {None}]]
        /\ \A v \in Worker \ {w} : pc'[v] = pc[v] /\ call'[v] = call[v]
    BY <2>1, NoCallType DEF IInv, StateOK, Done, Goto, Step
  <2>4. StateOK'
    BY <1>1, <2>1, <2>2, <2>3 DEF IInv, StateOK
  <2>5. \A j \in handed : intents[j] = "canceled"
    BY <1>1, <1>3, NoneAssumption DEF IInv, StateOK, ChargeableOnRow
  <2>6. ChargeableOnRow' /\ PaidWasHanded' /\ RowWasHanded'
    BY <1>1, <2>1, <2>2, <2>5 DEF IInv, ChargeableOnRow, PaidWasHanded, RowWasHanded
  <2>7. SavesApart'
    BY <2>3 DEF IInv, SavesApart
  <2>8. ASSUME NEW v \in Worker PROVE CallOK(v)'
    BY <2>3, <1>2, <2>1 DEF CallOK, Holding, Applying, IInv, CallsOK
  <2> QED  BY <2>4, <2>6, <2>7, <2>8 DEF IInv, CallsOK
<1>4. CASE ~ (row.status # "DELETED" /\ row.intent = call[w].snap.intent)
  <2>1. /\ CancelIntent(i) \/ UNCHANGED intents
        /\ Goto(w, "start.read") /\ UNCHANGED <<row, handed, call, repaid, events, expired>>
    BY <1>4
  <2>2. StateOK'
    BY <2>1 DEF IInv, StateOK, Goto, CancelIntent, Step
  <2>3. pc'[w] = "start.read" /\ CallOK(w)'
    BY <2>1 DEF IInv, StateOK, Goto, CallOK, Holding, Applying
  <2>4. \A v \in Worker \ {w} : pc'[v] = pc[v] /\ call'[v] = call[v]
    BY <2>1 DEF IInv, StateOK, Goto
  <2>5. CASE CancelIntent(i)
    BY <1>1, <1>2, <2>1, <2>2, <2>3, <2>4, <2>5, CancelStep
  <2>6. CASE UNCHANGED intents
    BY <2>1, <2>2, <2>3, <2>4, <2>6, LocalStep DEF Local
  <2> QED  BY <2>1, <2>5, <2>6
<1> QED  BY <1>3, <1>4

(* The customer pays a handed intent. *)
LEMMA PayStep ==
    ASSUME IInv, NEW i \in Intent, Pay(i)
    PROVE  IInv'
<1> USE DEF Pay
<1>1. StateOK'
  BY DEF IInv, StateOK
<1>2. /\ intents'[i] = "succeeded" /\ \A j \in Intent : j # i => intents'[j] = intents[j]
      /\ UNCHANGED <<row, handed, pc, call>>
  BY DEF IInv, StateOK
<1>3. ChargeableOnRow' /\ PaidWasHanded' /\ RowWasHanded'
  BY <1>2 DEF IInv, StateOK, ChargeableOnRow, PaidWasHanded, RowWasHanded
<1>4. SavesApart'
  BY DEF IInv, SavesApart
<1>5. ASSUME NEW v \in Worker PROVE CallOK(v)'
  BY <1>2 DEF IInv, StateOK, Row, CallsOK, CallOK
<1> QED  BY <1>1, <1>3, <1>4, <1>5 DEF IInv, CallsOK

(* The intent of the row is resumed, applied or replaced. *)
LEMMA StartRetrieveStep ==
    ASSUME IInv, NEW w \in Worker, StartRetrieve(w)
    PROVE  IInv'
<1> DEFINE i == call[w].intent
<1> USE DEF StartRetrieve
<1>1. i \in handed /\ i \in Intent /\ call[w].snap.intent = i
  BY DEF IInv, StateOK, CallsOK, CallOK, Holding
<1>2. UNCHANGED <<row, intents, repaid, handed, events, expired>>
  BY <1>1 DEF stripe
<1>3. CASE Done(w)
  BY <1>2, <1>3, DoneStep, LocalStep DEF IInv, StateOK
<1>4. CASE intents[i] = "succeeded" /\ Goto(w, "finalize.read") /\ UNCHANGED call
  BY <1>2, <1>4, <1>1, LocalStep
     DEF IInv, StateOK, Goto, Step, Local, CallOK, Holding, Applying
<1>5. CASE intents[i] = "canceled" /\ Goto(w, "start.create") /\ UNCHANGED call
  BY <1>2, <1>5, <1>1, LocalStep
     DEF IInv, StateOK, Goto, Step, Local, CallOK, Holding, Applying
<1> QED  BY <1>3, <1>4, <1>5

----------------------------------------------------------------------------
(* The other steps *)

(* An answer that leaves the row its intent *)
LEMMA AnswerStep ==
    ASSUME IInv, NEW w \in Worker, Done(w), UNCHANGED <<intents, handed, events, expired>>,
           row' \in Row, row'.intent = row.intent, repaid' \subseteq Intent
    PROVE  IInv'
BY DoneStep, LocalStep DEF IInv, StateOK

(* Going to a step that knows nothing of the intent; the call may have read *)
(* the row.                                                                 *)
LEMMA MoveStep ==
    ASSUME IInv, NEW w \in Worker, NEW step \in Step,
           step \notin Holding \cup Applying \cup {"start.create", "start.save"},
           Goto(w, step), UNCHANGED call \/ Read(w),
           UNCHANGED <<intents, handed, repaid, events, expired>>,
           row' \in Row, row'.intent = row.intent
    PROVE  IInv'
BY GotoStep, LocalStep DEF IInv, StateOK, Goto, Read, Local, CallOK, Holding

(* A call takes the intent of the row. *)
LEMMA TakeStep ==
    ASSUME IInv, NEW w \in Worker, NEW step \in Step,
           step \notin Applying \cup {"start.retrieve", "start.create", "start.save"},
           step \in Holding => row.intent # None,
           Goto(w, step), call' = [call EXCEPT ![w].intent = row.intent],
           UNCHANGED <<row, intents, handed, repaid, events, expired>>
    PROVE  IInv'
BY LocalStep DEF IInv, StateOK, Row, Goto, RowWasHanded, Local, CallOK

(* A call applies the intent it found succeeded. *)
LEMMA ApplyStep ==
    ASSUME IInv, NEW w \in Worker, pc[w] \in Holding,
           intents[call[w].intent] = "succeeded", Goto(w, "finalize.read"),
           UNCHANGED <<row, intents, handed, repaid, events, expired, call>>
    PROVE  IInv'
BY LocalStep DEF IInv, StateOK, Goto, Step, CallsOK, CallOK, Local, Holding, Applying

(* Going on after an unpaid settlement keeps the invariant. *)
LEMMA GoOnStep ==
    ASSUME IInv, NEW w \in Worker, Unpaid(w),
           UNCHANGED <<row, intents, handed, repaid, events, expired>>
    PROVE  IInv'
BY UnpaidStep, LocalStep DEF IInv, StateOK

(* The customer's screen: start reads the row, confirm reads it and asks    *)
(* Stripe.                                                                  *)
LEMMA ScreenSteps ==
    ASSUME IInv, NEW w \in Worker,
           StartRead(w) \/ ConfirmRead(w) \/ ConfirmRetrieve(w)
    PROVE  IInv'
<1>1. UNCHANGED <<row, intents, repaid, handed, events, expired>> /\ row' \in Row
  BY DEF StartRead, ConfirmRead, ConfirmRetrieve, stripe, IInv, StateOK
<1>2. CASE Done(w)
  BY <1>1, <1>2, AnswerStep DEF IInv, StateOK
<1>3. ASSUME StartRead(w), ~ Done(w) PROVE IInv'
  <2> DEFINE step == IF row.intent = None THEN "start.create" ELSE "start.retrieve"
  <2>1. /\ Goto(w, step)
        /\ call' = [call EXCEPT ![w].snap = row, ![w].intent = row.intent]
    BY <1>3 DEF StartRead
  <2>2. row.intent \in Intent \cup {None}
    BY DEF IInv, StateOK, Row
  <2>3. step \in Step
    BY DEF Step
  <2> HIDE DEF step
  <2>4. pc' \in [Worker -> Step] /\ pc'[w] = step
    BY <2>1, <2>3 DEF IInv, StateOK, Goto
  <2>5. /\ call' \in [Worker -> [op : Op \cup {"none"}, snap : Row, seen : Row,
                                 intent : Intent \cup {None}]]
        /\ call'[w].snap = row /\ call'[w].intent = row.intent
    BY <2>1, <2>2 DEF IInv, StateOK
  <2>6. StateOK'
    BY <1>1, <2>4, <2>5 DEF IInv, StateOK
  <2>7. CallOK(w)'
    BY <1>1, <2>4, <2>5 DEF step, IInv, RowWasHanded, CallOK, Holding, Applying
  <2>8. \A v \in Worker \ {w} : pc'[v] = pc[v] /\ call'[v] = call[v]
    BY <2>1 DEF IInv, StateOK, Goto
  <2>9. pc'[w] # "start.save"
    BY <2>4 DEF step
  <2> QED  BY <1>1, <2>6, <2>7, <2>8, <2>9, LocalStep DEF Local
<1>4. ASSUME ConfirmRead(w), ~ Done(w) PROVE IInv'
  BY <1>1, <1>4, TakeStep DEF ConfirmRead, Step, Applying
<1>5. ASSUME ConfirmRetrieve(w), ~ Done(w) PROVE IInv'
  BY <1>1, <1>5, ApplyStep DEF ConfirmRetrieve, Holding
<1> QED  BY <1>2, <1>3, <1>4, <1>5

(* releaseUnpaidHold *)
LEMMA ReleaseSteps ==
    ASSUME IInv, NEW w \in Worker,
           ReleaseRead(w) \/ ReleaseRetrieve(w) \/ ReleaseWrite(w)
    PROVE  IInv'
<1>1. /\ UNCHANGED <<intents, repaid, handed, events, expired>>
      /\ row' \in Row /\ row'.intent = row.intent
  BY DEF ReleaseRead, ReleaseRetrieve, ReleaseWrite, stripe, IInv, StateOK, Row, RowStatus
<1>2. CASE Done(w)
  BY <1>1, <1>2, AnswerStep DEF IInv, StateOK
<1>3. ASSUME ReleaseRead(w), ~ Done(w) PROVE IInv'
  <2> DEFINE step == IF row.intent = None THEN "release.write" ELSE "release.retrieve"
  <2>1. /\ Goto(w, step) /\ call' = [call EXCEPT ![w].intent = row.intent]
        /\ UNCHANGED row
    BY <1>3 DEF ReleaseRead
  <2>2. /\ step \in Step
        /\ step \notin Applying \cup {"start.retrieve", "start.create", "start.save"}
        /\ step \in Holding => row.intent # None
    BY DEF Step, Applying, Holding
  <2> HIDE DEF step
  <2> QED  BY <1>1, <2>1, <2>2, TakeStep
<1>4. ASSUME ReleaseRetrieve(w), ~ Done(w) PROVE IInv'
  <2>1. pc[w] = "release.retrieve" /\ UNCHANGED <<row, call>>
    BY <1>4 DEF ReleaseRetrieve
  <2>2. CASE intents[call[w].intent] = "succeeded" /\ Goto(w, "finalize.read")
    BY <1>1, <2>1, <2>2, ApplyStep DEF Holding
  <2>3. CASE Goto(w, "release.write")
    BY <1>1, <2>1, <2>3, MoveStep DEF Step, Holding, Applying
  <2>4. CASE Goto(w, "release.cancel")
    BY <1>1, <2>1, <2>4, LocalStep
       DEF IInv, StateOK, Goto, Step, CallsOK, Local, CallOK, Holding, Applying
  <2> QED  BY <1>4, <2>2, <2>3, <2>4 DEF ReleaseRetrieve
<1>5. ASSUME ReleaseWrite(w), ~ Done(w) PROVE IInv'
  BY <1>5 DEF ReleaseWrite
<1> QED  BY <1>2, <1>3, <1>4, <1>5

(* updateAppointment and deleteAppointment up to their write: the row is    *)
(* read, the payment settled, the row read again.                           *)
LEMMA StaffReadSteps ==
    ASSUME IInv, NEW w \in Worker,
           StaffRead(w) \/ SettleRead(w) \/ SettleRetrieve(w) \/ StaffReread(w) \/ ReceiveRead(w)
    PROVE  IInv'
<1>1. UNCHANGED <<row, intents, repaid, handed, events, expired>> /\ row' \in Row
  BY DEF StaffRead, SettleRead, SettleRetrieve, StaffReread, ReceiveRead, stripe, IInv, StateOK
<1>2. CASE Done(w)
  BY <1>1, <1>2, AnswerStep DEF IInv, StateOK
<1>3. CASE \E step \in {"settle.read", "delete.write", "staff.write", "receive.write"} :
             Goto(w, step) /\ Read(w)
  BY <1>1, <1>3, MoveStep DEF Step, Holding, Applying
<1>4. CASE Unpaid(w)
  BY <1>1, <1>4, GoOnStep
<1>5. CASE /\ row.intent # None /\ Goto(w, "settle.retrieve")
           /\ call' = [call EXCEPT ![w].intent = row.intent]
  BY <1>1, <1>5, TakeStep DEF Step, Applying
<1>6. ASSUME SettleRetrieve(w), ~ Done(w), ~ Unpaid(w) PROVE IInv'
  <2>1. pc[w] = "settle.retrieve" /\ UNCHANGED call
    BY <1>6 DEF SettleRetrieve
  <2>2. CASE intents[call[w].intent] = "succeeded" /\ Goto(w, "finalize.read")
    BY <1>1, <2>1, <2>2, ApplyStep DEF Holding
  <2>3. CASE Goto(w, "settle.cancel")
    BY <1>1, <2>1, <2>3, LocalStep
       DEF IInv, StateOK, Goto, Step, CallsOK, Local, CallOK, Holding, Applying
  <2> QED  BY <1>6, <2>2, <2>3 DEF SettleRetrieve
<1> QED
  BY <1>2, <1>3, <1>4, <1>5, <1>6 DEF StaffRead, SettleRead, StaffReread, ReceiveRead

(* The writes of the staff and of a cancellation leave the row its intent. *)
LEMMA WriteSteps ==
    ASSUME IInv, NEW w \in Worker,
           StaffWrite(w) \/ DeleteWrite(w) \/ ReceiveWrite(w) \/ Cancel(w)
    PROVE  IInv'
<1>1. /\ UNCHANGED <<intents, repaid, handed, events, expired>>
      /\ Done(w) \/ (Goto(w, "refund.read") /\ UNCHANGED call)
  BY DEF StaffWrite, DeleteWrite, ReceiveWrite, Cancel, stripe
<1>2. row' \in Row /\ row'.intent = row.intent
  <2>1. CASE StaffWrite(w)
    <3>1. CASE UNCHANGED row
      BY <3>1 DEF IInv, StateOK
    <3>2. CASE \E s \in {"CANCELLED", "CONFIRMED"}, l \in BOOLEAN :
                 row' = [row EXCEPT !.status = s, !.link = l]
      BY <3>2 DEF IInv, StateOK, Row, RowStatus
    <3> DEFINE cancels == call[w].op # "staffConfirm"
               closes == cancels /\ call[w].snap.status # "CANCELLED"
               s == IF cancels THEN "CANCELLED" ELSE "CONFIRMED"
               l == row.link /\ ~ closes
    <3>3. UNCHANGED row \/ row' = [row EXCEPT !.status = s, !.link = l]
      BY <2>1 DEF StaffWrite, IInv, StateOK, Row
    <3>4. s \in {"CANCELLED", "CONFIRMED"} /\ l \in BOOLEAN
      BY DEF IInv, StateOK, Row
    <3> QED  BY <3>1, <3>2, <3>3, <3>4
  <2>2. CASE DeleteWrite(w)
    BY <2>2 DEF DeleteWrite, IInv, StateOK, Row, RowStatus
  <2>3. CASE ReceiveWrite(w)
    BY <2>3 DEF ReceiveWrite, IInv, StateOK, Row
  <2>4. CASE Cancel(w)
    BY <2>4, ZenonT(60) DEF Cancel, IInv, StateOK, Row, RowStatus
  <2> QED  BY <2>1, <2>2, <2>3, <2>4
<1>3. CASE Done(w)
  BY <1>1, <1>2, <1>3, AnswerStep DEF IInv, StateOK
<1>4. CASE Goto(w, "refund.read") /\ UNCHANGED call
  BY <1>1, <1>2, <1>4, MoveStep DEF Step, Holding, Applying
<1> QED  BY <1>1, <1>3, <1>4

(* refundOnlineDeposit and its callers: a refund is of a handed intent. *)
LEMMA RefundSteps ==
    ASSUME IInv, NEW w \in Worker,
           ManualRead(w) \/ RefundRead(w) \/ RefundClaim(w) \/ RefundStripe(w) \/ RefundUndo(w)
    PROVE  IInv'
<1>1. /\ UNCHANGED <<intents, handed, events, expired>>
      /\ row' \in Row /\ row'.intent = row.intent
  BY ZenonT(60) DEF ManualRead, RefundRead, RefundClaim, RefundStripe, RefundUndo, stripe, IInv, StateOK, Row
<1>2. repaid' \subseteq Intent
  BY DEF ManualRead, RefundRead, RefundClaim, RefundStripe, RefundUndo, stripe, IInv, StateOK,
         CallsOK, CallOK, Holding
<1>3. CASE Done(w)
  BY <1>1, <1>2, <1>3, AnswerStep
<1>4. CASE Goto(w, "refund.read") /\ UNCHANGED <<call, repaid>>
  BY <1>1, <1>4, MoveStep DEF Step, Holding, Applying
<1>5. CASE Goto(w, "refund.undo") /\ UNCHANGED <<call, repaid>>
  BY <1>1, <1>5, MoveStep DEF Step, Holding, Applying
<1>6. CASE /\ row.intent # None /\ Goto(w, "refund.claim") /\ UNCHANGED <<row, repaid>>
           /\ call' = [call EXCEPT ![w].intent = row.intent]
  BY <1>1, <1>6, TakeStep DEF Step, Applying
<1>7. CASE pc[w] = "refund.claim" /\ Goto(w, "refund.stripe") /\ UNCHANGED <<call, repaid>>
  BY <1>1, <1>7, LocalStep
     DEF IInv, StateOK, Goto, Step, CallsOK, Local, CallOK, Holding, Applying
<1> QED
  BY <1>3, <1>4, <1>5, <1>6, <1>7
     DEF ManualRead, RefundRead, RefundClaim, RefundStripe, RefundUndo, stripe

(* Every call that begins, and every delivery of a webhook *)
LEMMA ArriveSteps ==
    ASSUME IInv, NEW w \in Worker,
           Arrive(w) \/ Expire(w) \/ \E i \in Intent : Deliver(w, i)
    PROVE  IInv'
BY BeginStep
   DEF Step, Holding, Applying, Deliver, Op, StaffOp, Expire, CallStart, CallConfirm,
       Close, CallStaff, CallCancel, CallManualRefund, CallReceive, Arrive

----------------------------------------------------------------------------
(* The theorems *)

(* The invariant holds at first. *)
LEMMA InitIInv == Init => IInv
<1> SUFFICES ASSUME Init PROVE IInv
  OBVIOUS
<1>1. NewRow \in Row /\ NewRow.intent = None
  BY DEF NewRow, Row, RowStatus
<1>2. StateOK
  BY <1>1, NoCallType DEF Init, StateOK, Step
<1>3. ChargeableOnRow /\ PaidWasHanded /\ RowWasHanded
  BY <1>1 DEF Init, ChargeableOnRow, PaidWasHanded, RowWasHanded
<1>4. SavesApart /\ CallsOK
  BY DEF Init, SavesApart, CallsOK, CallOK, Holding, Applying
<1> QED  BY <1>2, <1>3, <1>4 DEF IInv

(* Every step keeps the invariant. *)
LEMMA NextIInv == IInv /\ [Next]_vars => IInv'
<1> SUFFICES ASSUME IInv, [Next]_vars PROVE IInv'
  OBVIOUS
<1>1. CASE UNCHANGED vars
  BY <1>1
     DEF vars, IInv, StateOK, ChargeableOnRow, PaidWasHanded, RowWasHanded, SavesApart,
         CallsOK, CallOK
<1>2. CASE TimeOut
  BY <1>2
     DEF TimeOut, stripe, IInv, StateOK, ChargeableOnRow, PaidWasHanded, RowWasHanded,
         SavesApart, CallsOK, CallOK
<1>3. ASSUME NEW i \in Intent, Pay(i) PROVE IInv'
  BY <1>3, PayStep
<1>4. ASSUME NEW w \in Worker, Advance(w) PROVE IInv'
  BY <1>4, FinalizeReadStep, FinalizeConfirmStep, FinalizeClaimStep, FinalizeRefundStep,
     StartRetrieveStep, StartCreateStep, StartSaveStep, ReleaseCancelStep, SettleCancelStep,
     ScreenSteps, ReleaseSteps, StaffReadSteps, WriteSteps, RefundSteps
     DEF Advance, AdvanceCall
<1>5. ASSUME NEW w \in Worker, Arrive(w) \/ Expire(w) \/ \E i \in Intent : Deliver(w, i)
      PROVE  IInv'
  BY <1>5, ArriveSteps
<1> QED  BY <1>1, <1>2, <1>3, <1>4, <1>5 DEF Next

(* The intents that can take or hold the customer's money are the row's.    *)
LEMMA IInvOneCharge == IInv => OneCharge
<1> SUFFICES ASSUME IInv PROVE OneCharge
  OBVIOUS
<1> DEFINE S == {i \in handed : intents[i] = "open" \/ Captured(i)}
<1>1. S \subseteq {row.intent}
  BY DEF IInv, ChargeableOnRow, Captured
<1>2. IsFiniteSet({row.intent}) /\ Cardinality({row.intent}) = 1
  BY FS_Singleton
<1>3. Cardinality(S) <= Cardinality({row.intent})
  BY <1>1, <1>2, FS_Subset
<1> QED  BY <1>2, <1>3 DEF OneCharge

(* No step changes the mix of calls. *)
LEMMA MixSame == ASSUME [Next]_vars PROVE mix' = mix
BY DEF Arrive, CallStart, CallConfirm, Close, CallStaff, CallCancel, CallManualRefund,
       CallReceive, Begin, Next, vars, Advance, Expire, Deliver, Pay, TimeOut

(* The inductive invariant of the deposit *)
THEOREM DepositInvariant == Spec => []IInv
BY InitIInv, NextIInv, PTL DEF Spec

(* Type correctness of the row, of Stripe and of every call in progress *)
THEOREM DepositTypeOK == Spec => []TypeOK
<1>1. Init => mix \in Mixes
  BY DEF Init
<1>2. mix \in Mixes /\ [Next]_vars => (mix \in Mixes)'
  <2> SUFFICES ASSUME [Next]_vars PROVE mix' = mix
    OBVIOUS
  <2> QED  BY MixSame
<1>3. IInv /\ mix \in Mixes => TypeOK
  BY DEF IInv, TypeOK
<1> QED  BY <1>1, <1>2, <1>3, DepositInvariant, PTL DEF Spec

(* Whatever the tabs, the jobs, the staff and Stripe's failures do, at most *)
(* one PaymentIntent can take or holds the customer's money (start).        *)
THEOREM DepositOneCharge == Spec => []OneCharge
BY IInvOneCharge, DepositInvariant, PTL

-----------------------------------------------------------------------------
(***************************************************************************)

StartSteps == {"start.read", "start.retrieve", "start.create", "start.save"}
HoldSteps == {"release.read", "release.retrieve", "release.cancel", "release.write"}
StaffSteps == {"staff.read", "settle.read", "settle.retrieve", "settle.cancel",
               "staff.reread", "staff.write", "delete.write"}

(* The operation a step belongs to *)
OpAt(step, op) ==
    /\ step = "idle" <=> op = "none"
    /\ step \in StartSteps => op = "start"
    /\ step \in {"confirm.read", "confirm.retrieve"} => op = "confirm"
    /\ step \in HoldSteps => op \in {"expire", "close"}
    /\ step \in Applying => op \in Finalizers \ {"receive"}
    /\ step \in StaffSteps => op \in StaffOp
    /\ step = "delete.write" => op = "delete"
    /\ step \in {"staff.reread", "staff.write"} => op # "delete"
    /\ step \in {"receive.read", "receive.write"} => op = "receive"
    /\ step = "refund.undo" => StripeFaults

OpsOK == \A w \in Worker : call[w].op \in Ops \cup {"none"} /\ OpAt(pc[w], call[w].op)

(* The calls in progress may overlap. *)
Exclusive ==
    \A v, w \in Worker :
        v # w /\ pc[v] # "idle" /\ pc[w] # "idle" => {call[v].op, call[w].op} \notin Serial

Succeeded(i) == i \in Intent /\ intents[i] = "succeeded"

RowSucceeded == row.online \/ row.refunded => Succeeded(row.intent)

(* What a refund, or an application, in progress knows *)
KnownOK(w) ==
    /\ pc[w] \in {"refund.claim", "refund.stripe"} => row.online /\ Succeeded(call[w].intent)
    /\ pc[w] = "finalize.confirm" => call[w].seen.intent = call[w].intent

MInv == mix \in Mixes /\ OpsOK /\ Exclusive /\ RowSucceeded /\ \A w \in Worker : KnownOK(w)

(* The money of i is on the row, went back or is about to. *)
Returned(i) ==
    \/ i \in repaid
    \/ row.paid /\ row.online /\ row.intent = i
    \/ \E w \in Worker : pc[w] \in {"finalize.refund", "refund.stripe"} /\ call[w].intent = i

SInv ==
    row.status # "DELETED" =>
        /\ row.paid => row.online
        /\ \A i \in Intent : Succeeded(i) => i \in events \/ Returned(i)
        /\ row.refunded => Returned(row.intent)
        /\ \A w \in Worker :
              pc[w] = "finalize.confirm" /\ (call[w].seen.paid \/ call[w].seen.refunded)
              => Returned(call[w].intent)

Refunding == {"finalize.claim", "finalize.refund", "refund.stripe"}

HInv ==
    row.status # "DELETED" =>
        /\ row.status = "PENDING_PAYMENT" => ~ row.online /\ repaid = {}
        /\ row.status = "PENDING_PAYMENT" \/ (row.paid /\ row.online) =>
              row.intent \notin repaid /\ \A w \in Worker : pc[w] \notin Refunding
        /\ \A w \in Worker :
              /\ pc[w] = "finalize.confirm" /\ row.paid => call[w].seen.paid
              /\ pc[w] = "receive.write" => ~ row.online

KnowsRow(w) ==
    LET snap == call[w].snap
        seen == call[w].seen
        staff == call[w].op \in StaffOp
    IN  /\ pc[w] = "finalize.confirm" /\ seen.status = "CANCELLED" =>
              row.status # "PENDING_PAYMENT" /\ (row.paid => seen.paid)
        /\ pc[w] = "finalize.claim" => row.status # "PENDING_PAYMENT" /\ ~ row.paid
        /\ pc[w] \in {"settle.read", "settle.retrieve", "settle.cancel"} =>
              row.status = "PENDING_PAYMENT"
        /\ staff /\ pc[w] \in {"finalize.read", "finalize.confirm"} =>
              row.status = "PENDING_PAYMENT"
        /\ staff => pc[w] \notin {"finalize.claim", "finalize.refund"}
        /\ pc[w] = "staff.write" /\ row.status # "PENDING_PAYMENT" =>
              /\ row.paid => snap.paid /\ snap.online
              /\ snap.status = "CANCELLED" => row.status = "CANCELLED"

KInv ==
    row.status # "DELETED" =>
        /\ row.status = "PENDING_PAYMENT" => ~ row.paid /\ ~ row.refunded
        /\ row.paid => row.online /\ ~ row.refunded
        /\ row.status = "CANCELLED" /\ row.paid =>
              \E w \in Worker : pc[w] \in {"refund.read", "refund.claim"}
        /\ \A w \in Worker : KnowsRow(w)

PendingSteps == {"start.retrieve", "start.create", "start.save", "settle.read",
                 "settle.retrieve", "settle.cancel", "finalize.read", "finalize.confirm"}

DInv ==
    /\ row.status # "DELETED"
    /\ row.status = "PENDING_PAYMENT" => ~ row.paid /\ ~ row.refunded
    /\ row.refunded =>
          \/ row.intent \in repaid
          \/ \E w \in Worker : pc[w] \in {"refund.stripe", "refund.undo"}
    /\ \A w \in Worker :
          /\ pc[w] \in PendingSteps => row.status = "PENDING_PAYMENT"
          /\ pc[w] \notin {"finalize.claim", "finalize.refund"}

(* The conditions of the promises *)
NoCash == "receive" \notin Ops /\ ~ StripeFaults
OneAtATime == OneFinalizer \subseteq Serial
Apart == StaffAlone \subseteq Serial
NeverLate == Ops \subseteq {"start", "staffCancel", "clientCancel", "closeCancel", "manualRefund"}

----------------------------------------------------------------------------
(* Lemmas: what a step leaves alone *)

(* Only call w moves. *)
Others(w) == \A v \in Worker \ {w} : pc'[v] = pc[v] /\ call'[v] = call[v]

(* Going somewhere moves only the call that goes. *)
LEMMA GotoFacts ==
    ASSUME StateOK, NEW w \in Worker, NEW step, Goto(w, step)
    PROVE  pc'[w] = step /\ \A v \in Worker \ {w} : pc'[v] = pc[v]
BY DEF StateOK, Goto

(* A call that answers is idle and forgets what it knew. *)
LEMMA DoneFacts ==
    ASSUME StateOK, NEW w \in Worker, Done(w)
    PROVE  Others(w) /\ pc'[w] = "idle" /\ call'[w] = NoCall
BY DEF StateOK, Done, Goto, Others

(* A staff request goes on after an unpaid settlement, or is refused. *)
LEMMA UnpaidFacts ==
    ASSUME StateOK, NEW w \in Worker, Unpaid(w)
    PROVE  /\ Others(w)
           /\ \/ pc'[w] = "idle" /\ call'[w] = NoCall
              \/ pc'[w] = "delete.write" /\ call'[w] = call[w] /\ call[w].op = "delete"
              \/ pc'[w] = "staff.write" /\ call'[w] = call[w] /\ call[w].op # "delete"
BY DoneFacts, GotoFacts DEF Others, StateOK, Row, Unpaid

(* Where a call is after finalize *)
LEMMA ReturnFacts ==
    ASSUME StateOK, NEW w \in Worker, NEW result, Return(w, result)
    PROVE  /\ Others(w)
           /\ \/ pc'[w] = "idle" /\ call'[w] = NoCall
              \/ /\ pc'[w] = "delete.write" /\ call'[w] = call[w] /\ call[w].op = "delete"
                 /\ result # "CONFIRMED"
              \/ /\ pc'[w] = "staff.write" /\ call'[w] = call[w]
                 /\ call[w].op \in StaffOp \ {"delete"} /\ result # "CONFIRMED"
              \/ /\ pc'[w] = "staff.reread" /\ call'[w] = call[w]
                 /\ call[w].op \in StaffOp \ {"delete"}
           /\ events' \in {events, events \ {call[w].intent}}
BY DoneFacts, UnpaidFacts, GotoFacts DEF Return, Others

(* A step that loses no payment and moves only call w, within its operation *)
Within(w) ==
    /\ Others(w) /\ mix' = mix /\ pc[w] # "idle"
    /\ \A i : Succeeded(i) => Succeeded(i)'
    /\ row.online => row'.online
    /\ \/ pc'[w] = "idle" /\ call'[w] = NoCall
       \/ /\ call'[w].op = call[w].op /\ pc'[w] # "idle"
          /\ OpAt(pc'[w], call[w].op)

(* keeps MInv, if the row and the call know the payments they name. *)
LEMMA WithinStep ==
    ASSUME MInv, NEW w \in Worker, Within(w), RowSucceeded', KnownOK(w)'
    PROVE  MInv'
<1>1. mix' \in Mixes
  BY DEF MInv, Within
<1>2. OpsOK'
  <2> SUFFICES ASSUME NEW v \in Worker
               PROVE  (call[v].op \in Ops \cup {"none"} /\ OpAt(pc[v], call[v].op))'
    BY DEF OpsOK
  <2>1. CASE v # w
    BY <2>1 DEF MInv, OpsOK, OpAt, Within, Others, Ops, StripeFaults
  <2>2. CASE v = w /\ pc'[w] = "idle" /\ call'[w] = NoCall
    BY <2>2 DEF OpAt, NoCall, StartSteps, Applying, HoldSteps, StaffSteps
  <2>3. CASE v = w /\ call'[w].op = call[w].op /\ OpAt(pc'[w], call[w].op)
    BY <2>3 DEF MInv, OpsOK, OpAt, Within, Ops, StripeFaults
  <2> QED  BY <2>1, <2>2, <2>3 DEF Within
<1>3. Exclusive'
  BY DEF MInv, Exclusive, Within, Others, Serial
<1>4. ASSUME NEW v \in Worker PROVE KnownOK(v)'
  BY DEF MInv, KnownOK, Within, Others
<1> QED  BY <1>1, <1>2, <1>3, <1>4 DEF MInv

(* A call that begins keeps MInv. *)
LEMMA MBegin ==
    ASSUME IInv, MInv, NEW w \in Worker, NEW op, NEW step, NEW i, Begin(w, op, step, i),
           op # "none", OpAt(step, op), step \notin {"refund.claim", "refund.stripe", "finalize.confirm"}
    PROVE  MInv'
<1>1. /\ Others(w) /\ pc'[w] = step /\ call'[w].op = op
      /\ UNCHANGED <<mix, row, intents>> /\ op \in Ops
  BY DEF IInv, StateOK, Begin, Goto, Others, MayBegin, stripe, NoCall
<1>2. OpsOK'
  <2> SUFFICES ASSUME NEW v \in Worker
               PROVE  (call[v].op \in Ops \cup {"none"} /\ OpAt(pc[v], call[v].op))'
    BY DEF OpsOK
  <2>1. CASE v # w
    BY <1>1, <2>1 DEF MInv, OpsOK, OpAt, Others, Ops, StripeFaults
  <2>2. CASE v = w
    BY <1>1, <2>2 DEF OpAt, Ops, StripeFaults
  <2> QED  BY <2>1, <2>2
<1>3. Exclusive'
  <2> SUFFICES ASSUME NEW u \in Worker, NEW v \in Worker, u # v,
                      pc'[u] # "idle", pc'[v] # "idle"
               PROVE  {call'[u].op, call'[v].op} \notin Serial
    BY <1>1 DEF Exclusive, Serial
  <2>1. ASSUME NEW x \in Worker \ {w}, pc[x] # "idle"
        PROVE  {op, call[x].op} \notin Serial /\ {call[x].op, op} \notin Serial
    BY <2>1 DEF Begin, MayBegin
  <2>2. CASE u = w
    BY <1>1, <2>1, <2>2 DEF Others
  <2>3. CASE v = w
    BY <1>1, <2>1, <2>3 DEF Others
  <2>4. CASE u # w /\ v # w
    BY <1>1, <2>4 DEF Others, MInv, Exclusive
  <2> QED  BY <2>2, <2>3, <2>4
<1>4. RowSucceeded' /\ \A v \in Worker : KnownOK(v)'
  BY <1>1 DEF MInv, RowSucceeded, Succeeded, KnownOK, Others
<1> QED  BY <1>1, <1>2, <1>3, <1>4 DEF MInv

(* The payments that succeeded do not change when an intent is cancelled. *)
LEMMA CancelFacts ==
    ASSUME StateOK, NEW i, CancelIntent(i)
    PROVE  \A j : Succeeded(j)' <=> Succeeded(j)
BY DEF StateOK, CancelIntent, Succeeded

----------------------------------------------------------------------------
(* The steps that neither apply, refund nor take back a payment *)

Critical == {"refund.claim", "finalize.claim", "finalize.refund", "refund.stripe", "refund.undo"}

Calm(w) ==
    /\ Others(w) /\ UNCHANGED <<mix, repaid, events>>
    /\ pc[w] \notin Critical \cup {"idle"}
    /\ pc'[w] \notin Refunding \cup {"finalize.confirm"}
    /\ \/ pc'[w] = "idle" /\ call'[w] = NoCall
       \/ call'[w].op = call[w].op /\ pc'[w] # "idle" /\ OpAt(pc'[w], call[w].op)
    /\ pc'[w] = "receive.write" => ~ row.online
    /\ pc'[w] = "refund.claim" => pc[w] = "refund.read" /\ row.online /\ call'[w].intent = row.intent
    /\ \A i : Succeeded(i)' <=> Succeeded(i)
    /\ row'.paid = row.paid /\ row'.online = row.online
    /\ row'.intent = row.intent /\ row'.refunded = row.refunded
    /\ row'.status = "PENDING_PAYMENT" => row.status = "PENDING_PAYMENT"
    /\ row.status = "DELETED" => row'.status = "DELETED"

(* Such a step keeps MInv. *)
LEMMA MCalm ==
    ASSUME MInv, NEW w \in Worker, Calm(w)
    PROVE  MInv'
BY WithinStep DEF Calm, Within, MInv, RowSucceeded, KnownOK, Refunding

(* An answer that only changes the status is such a step. *)
LEMMA CalmDone ==
    ASSUME IInv, NEW w \in Worker, Done(w), UNCHANGED <<mix, repaid, events>>,
           pc[w] \notin Critical \cup {"idle"}, \A i : Succeeded(i)' <=> Succeeded(i),
           row'.paid = row.paid, row'.online = row.online,
           row'.intent = row.intent, row'.refunded = row.refunded,
           row'.status = "PENDING_PAYMENT" => row.status = "PENDING_PAYMENT",
           row.status = "DELETED" => row'.status = "DELETED"
    PROVE  Calm(w)
BY DoneFacts DEF IInv, Calm, Refunding

(* A step that goes on, for reads and for settlements *)
LEMMA CalmGoto ==
    ASSUME IInv, MInv, NEW w \in Worker, NEW step, Goto(w, step), UNCHANGED <<mix, repaid, events>>,
           \A v \in Worker : (v = w => call'[v].op = call[v].op) /\ (v # w => call'[v] = call[v]),
           pc[w] \notin Critical \cup {"idle"}, step \notin Refunding \cup {"finalize.confirm", "idle"},
           OpAt(step, call[w].op), \A i : Succeeded(i)' <=> Succeeded(i),
           step = "receive.write" => ~ row.online,
           step = "refund.claim" => pc[w] = "refund.read" /\ row.online /\ call'[w].intent = row.intent,
           row'.paid = row.paid, row'.online = row.online,
           row'.intent = row.intent, row'.refunded = row.refunded,
           row'.status = "PENDING_PAYMENT" => row.status = "PENDING_PAYMENT",
           row.status = "DELETED" => row'.status = "DELETED"
    PROVE  Calm(w)
BY GotoFacts DEF IInv, Calm, Others

(* The customer's screen *)
LEMMA CalmScreen ==
    ASSUME IInv, MInv, UNCHANGED mix, NEW w \in Worker,
           StartRead(w) \/ StartRetrieve(w) \/ StartCreate(w) \/ ConfirmRead(w) \/ ConfirmRetrieve(w)
    PROVE  Calm(w)
<1>1. /\ pc[w] \in StartSteps \cup {"confirm.read", "confirm.retrieve"}
      /\ UNCHANGED <<row, repaid, events>>
  BY DEF StartRead, StartRetrieve, StartCreate, ConfirmRead, ConfirmRetrieve, stripe, StartSteps
<1>2. \A i : Succeeded(i)' <=> Succeeded(i)
  BY DEF StartRead, StartRetrieve, StartCreate, ConfirmRead, ConfirmRetrieve, stripe, Succeeded,
         IInv, StateOK
<1>3. OpAt(pc[w], call[w].op)
  BY DEF MInv, OpsOK
<1>4. CASE Done(w)
  BY <1>1, <1>2, <1>4, CalmDone DEF StartSteps, Critical
<1>5. CASE \E step \in {"start.retrieve", "start.create", "start.save", "confirm.retrieve",
                        "finalize.read"} :
             /\ Goto(w, step) /\ OpAt(step, call[w].op)
             /\ \/ UNCHANGED call
                \/ \E i : call' = [call EXCEPT ![w].intent = i]
                \/ \E i : call' = [call EXCEPT ![w].snap = row, ![w].intent = i]
  BY <1>5, <1>1, <1>2, CalmGoto DEF IInv, StateOK, StartSteps, Critical, Refunding
<1>6. \E step \in {"start.retrieve", "start.create", "start.save", "confirm.retrieve",
                   "finalize.read"} : Goto(w, step) \/ Done(w)
  BY DEF StartRead, StartRetrieve, StartCreate, ConfirmRead, ConfirmRetrieve
<1>7. ASSUME ~ Done(w) PROVE Calm(w)
  <2> USE DEF OpAt, StartSteps, HoldSteps, StaffSteps, Applying, Finalizers, StaffOp
  <2>1. CASE StartRead(w)
    BY <1>3, <1>5, <1>7, <2>1 DEF StartRead
  <2>2. CASE StartRetrieve(w)
    BY <1>3, <1>5, <1>7, <2>2 DEF StartRetrieve
  <2>3. CASE StartCreate(w)
    BY <1>3, <1>5, <1>7, <2>3 DEF StartCreate
  <2>4. CASE ConfirmRead(w)
    BY <1>3, <1>5, <1>7, <2>4 DEF ConfirmRead
  <2>5. CASE ConfirmRetrieve(w)
    BY <1>3, <1>5, <1>7, <2>5 DEF ConfirmRetrieve
  <2> QED  BY <2>1, <2>2, <2>3, <2>4, <2>5
<1> QED  BY <1>4, <1>7

(* releaseUnpaidHold *)
LEMMA CalmRelease ==
    ASSUME IInv, MInv, UNCHANGED mix, NEW w \in Worker,
           ReleaseRead(w) \/ ReleaseRetrieve(w) \/ ReleaseCancel(w) \/ ReleaseWrite(w)
    PROVE  Calm(w)
<1>1. pc[w] \in HoldSteps /\ UNCHANGED <<repaid, events>>
  BY DEF ReleaseRead, ReleaseRetrieve, ReleaseCancel, ReleaseWrite, stripe, HoldSteps
<1>2. \A i : Succeeded(i)' <=> Succeeded(i)
  BY CancelFacts
     DEF ReleaseRead, ReleaseRetrieve, ReleaseCancel, ReleaseWrite, stripe, Succeeded, IInv
<1>3. OpAt(pc[w], call[w].op)
  BY DEF MInv, OpsOK
<1>4. /\ row'.paid = row.paid /\ row'.online = row.online
      /\ row'.intent = row.intent /\ row'.refunded = row.refunded
      /\ row'.status = "PENDING_PAYMENT" => row.status = "PENDING_PAYMENT"
      /\ row.status = "DELETED" => row'.status = "DELETED"
  BY DEF ReleaseRead, ReleaseRetrieve, ReleaseCancel, ReleaseWrite, IInv, StateOK, Row
<1>5. CASE Done(w)
  BY <1>1, <1>2, <1>4, <1>5, CalmDone DEF HoldSteps, Critical
<1>6. ASSUME ~ Done(w) PROVE Calm(w)
  <2>1. \E step \in {"release.retrieve", "release.cancel", "release.write", "finalize.read"} :
           Goto(w, step)
    BY <1>6 DEF ReleaseRead, ReleaseRetrieve, ReleaseCancel, ReleaseWrite
  <2>2. \A v \in Worker : (v = w => call'[v].op = call[v].op) /\ (v # w => call'[v] = call[v])
    BY <1>6 DEF ReleaseRead, ReleaseRetrieve, ReleaseCancel, ReleaseWrite, IInv, StateOK
  <2>3. \A step \in {"release.retrieve", "release.cancel", "release.write", "finalize.read"} :
           OpAt(step, call[w].op)
    BY <1>1, <1>3 DEF OpAt, StartSteps, HoldSteps, StaffSteps, Applying, Finalizers, StaffOp
  <2> QED  BY <1>1, <1>2, <1>4, <2>1, <2>2, <2>3, CalmGoto DEF HoldSteps, Critical, Refunding
<1> QED  BY <1>5, <1>6

(* An unpaid settlement *)
LEMMA CalmUnpaid ==
    ASSUME IInv, MInv, NEW w \in Worker, Unpaid(w), UNCHANGED <<mix, row, repaid, events>>,
           pc[w] \in StaffSteps, \A i : Succeeded(i)' <=> Succeeded(i)
    PROVE  Calm(w)
BY UnpaidFacts
   DEF MInv, OpsOK, OpAt, StartSteps, HoldSteps, StaffSteps, Applying, StaffOp, IInv,
       Calm, Critical, Refunding

(* updateAppointment, deleteAppointment and setAppointmentDepositPaid before they write *)
LEMMA CalmStaffReads ==
    ASSUME IInv, MInv, UNCHANGED mix, NEW w \in Worker,
           StaffRead(w) \/ SettleRead(w) \/ SettleRetrieve(w) \/ SettleCancel(w)
           \/ StaffReread(w) \/ ReceiveRead(w)
    PROVE  Calm(w)
<1> USE DEF StaffRead, SettleRead, SettleRetrieve, SettleCancel, StaffReread, ReceiveRead
<1>1. pc[w] \in StaffSteps \cup {"receive.read"} /\ UNCHANGED <<row, repaid, events>>
  BY DEF stripe, StaffSteps
<1>2. \A i : Succeeded(i)' <=> Succeeded(i)
  BY CancelFacts DEF stripe, Succeeded, IInv
<1>3. OpAt(pc[w], call[w].op)
  BY DEF MInv, OpsOK
<1>4. CASE Done(w)
  BY <1>1, <1>2, <1>4, CalmDone DEF StaffSteps, Critical
<1>5. CASE Unpaid(w) /\ pc[w] \in StaffSteps
  BY <1>1, <1>2, <1>5, CalmUnpaid
<1>6. ASSUME ~ Done(w), ~ (Unpaid(w) /\ pc[w] \in StaffSteps) PROVE Calm(w)
  <2> DEFINE Steps == {"settle.read", "delete.write", "staff.write", "settle.retrieve",
                       "settle.cancel", "finalize.read", "receive.write"}
  <2>1. UNCHANGED call \/ Read(w) \/ \E i : call' = [call EXCEPT ![w].intent = i]
    BY <1>6 DEF StaffSteps
  <2>2. \A v \in Worker : (v = w => call'[v].op = call[v].op) /\ (v # w => call'[v] = call[v])
    BY <2>1 DEF Read, IInv, StateOK
  <2>3. \E step \in Steps :
           /\ Goto(w, step)
           /\ pc[w] = "receive.read" <=> step = "receive.write"
           /\ step = "receive.write" => ~ row.online
           /\ step = "delete.write" => call[w].op = "delete"
           /\ step = "staff.write" => call[w].op # "delete"
    BY <1>6, <1>3 DEF StaffSteps, OpAt, IInv, StateOK, Row
  <2>4. PICK step \in Steps :
           /\ Goto(w, step)
           /\ pc[w] = "receive.read" <=> step = "receive.write"
           /\ step = "receive.write" => ~ row.online
           /\ step = "delete.write" => call[w].op = "delete"
           /\ step = "staff.write" => call[w].op # "delete"
    BY <2>3
  <2>5. OpAt(step, call[w].op)
    BY <1>1, <1>3, <2>4
       DEF OpAt, StartSteps, HoldSteps, StaffSteps, Applying, Finalizers, StaffOp
  <2>6. step \notin Refunding \cup {"finalize.confirm", "idle", "refund.claim"}
    BY DEF Refunding
  <2>7. pc[w] \notin Critical \cup {"idle"}
    BY <1>1 DEF StaffSteps, Critical
  <2> HIDE DEF Steps
  <2> QED  BY <1>1, <1>2, <2>2, <2>4, <2>5, <2>6, <2>7, CalmGoto
<1> QED  BY <1>4, <1>5, <1>6

(* The writes of the staff and of a cancellation, and the reads of a refund *)
LEMMA CalmWrites ==
    ASSUME IInv, MInv, UNCHANGED mix, NEW w \in Worker,
           StaffWrite(w) \/ DeleteWrite(w) \/ Cancel(w) \/ ManualRead(w) \/ RefundRead(w)
    PROVE  Calm(w)
<1>1. /\ pc[w] \in {"staff.write", "delete.write", "cancel", "manual.read", "refund.read"}
      /\ UNCHANGED <<intents, repaid, events>>
  BY DEF StaffWrite, DeleteWrite, Cancel, ManualRead, RefundRead, stripe
<1>2. \A i : Succeeded(i)' <=> Succeeded(i)
  BY <1>1 DEF Succeeded
<1>3. OpAt(pc[w], call[w].op)
  BY DEF MInv, OpsOK
<1>4. /\ row'.paid = row.paid /\ row'.online = row.online
      /\ row'.intent = row.intent /\ row'.refunded = row.refunded
      /\ row'.status = "PENDING_PAYMENT" => row.status = "PENDING_PAYMENT"
      /\ row.status = "DELETED" => row'.status = "DELETED"
  BY DEF StaffWrite, DeleteWrite, Cancel, ManualRead, RefundRead, IInv, StateOK, Row
<1>5. CASE Done(w)
  BY <1>1, <1>2, <1>4, <1>5, CalmDone DEF Critical
<1>6. CASE Goto(w, "refund.read") /\ UNCHANGED call
  BY <1>1, <1>3, <1>2, <1>4, <1>6, CalmGoto
     DEF OpAt, StartSteps, HoldSteps, StaffSteps, Applying, Critical, Refunding
<1>7. CASE /\ pc[w] = "refund.read" /\ row.online /\ Goto(w, "refund.claim")
           /\ call' = [call EXCEPT ![w].intent = row.intent]
  BY <1>1, <1>3, <1>7, <1>2, <1>4, CalmGoto
     DEF OpAt, StartSteps, HoldSteps, StaffSteps, Applying, IInv, StateOK, Critical,
         Refunding
<1> QED
  BY <1>5, <1>6, <1>7 DEF StaffWrite, DeleteWrite, Cancel, ManualRead, RefundRead

----------------------------------------------------------------------------
(* The other steps keep MInv *)

(* After finalize a call answers or goes on within its operation. *)
LEMMA ReturnWithin ==
    ASSUME IInv, NEW w \in Worker, NEW result, Return(w, result)
    PROVE  /\ Others(w)
           /\ \/ pc'[w] = "idle" /\ call'[w] = NoCall
              \/ call'[w].op = call[w].op /\ pc'[w] # "idle" /\ OpAt(pc'[w], call[w].op)
           /\ pc'[w] \in {"idle", "delete.write", "staff.write", "staff.reread"}
BY ReturnFacts DEF IInv, OpAt, StartSteps, HoldSteps, StaffSteps, Applying, StaffOp

(* finalize looks at the row. *)
LEMMA MFinalizeRead ==
    ASSUME IInv, MInv, UNCHANGED mix, NEW w \in Worker, FinalizeRead(w)
    PROVE  MInv'
BY AppliedOnRow, WithinStep
   DEF FinalizeRead, stripe, IInv, StateOK, Goto, Others, MInv, OpsOK, OpAt, StartSteps,
       HoldSteps, StaffSteps, Applying, Within, Succeeded, RowSucceeded, KnownOK

(* finalize applies the payment to the row, or decides to give it back. *)
LEMMA MFinalizeConfirm ==
    ASSUME IInv, MInv, UNCHANGED mix, NEW w \in Worker, FinalizeConfirm(w) \/ FinalizeClaim(w)
    PROVE  MInv'
<1> DEFINE i == call[w].intent
<1>1. /\ pc[w] \in {"finalize.confirm", "finalize.claim"} /\ UNCHANGED <<intents, repaid>>
      /\ OpAt(pc[w], call[w].op)
  BY DEF FinalizeConfirm, FinalizeClaim, stripe, MInv, OpsOK
<1>2. Succeeded(i) /\ row.intent = i
  BY <1>1, AppliedOnRow DEF IInv, CallsOK, CallOK, Applying, Succeeded
<1> DEFINE GoesOn ==
              /\ Others(w)
              /\ \/ pc'[w] = "idle" /\ call'[w] = NoCall
                 \/ call'[w].op = call[w].op /\ pc'[w] # "idle" /\ OpAt(pc'[w], call[w].op)
              /\ pc'[w] \notin {"refund.claim", "refund.stripe", "finalize.confirm"}
<1>3. GoesOn
  BY ReturnWithin, <1>1, GotoFacts
     DEF IInv, Others, OpAt, StartSteps, HoldSteps, StaffSteps, Applying,
         FinalizeConfirm, FinalizeClaim
<1>4. row.online => row'.online
  BY DEF FinalizeConfirm, FinalizeClaim, IInv, StateOK, Row
<1>5. row'.intent = row.intent
  BY <1>2 DEF FinalizeConfirm, FinalizeClaim, IInv, StateOK, Row
<1>6. Within(w)
  BY <1>1, <1>3, <1>4 DEF Within, Succeeded
<1>7. RowSucceeded' /\ KnownOK(w)'
  BY <1>1, <1>2, <1>3, <1>5 DEF RowSucceeded, Succeeded, KnownOK
<1> QED  BY <1>6, <1>7, WithinStep

(* finalize gives the payment back. *)
LEMMA MFinalizeRefund ==
    ASSUME IInv, MInv, UNCHANGED mix, NEW w \in Worker, FinalizeRefund(w)
    PROVE  MInv'
BY ReturnWithin, WithinStep
   DEF FinalizeRefund, Within, Succeeded, MInv, RowSucceeded, KnownOK

(* The screen saves its intent: on a row that names no payment that succeeded. *)
LEMMA StartSaveFacts ==
    ASSUME IInv, MInv, UNCHANGED mix, NEW w \in Worker, StartSave(w)
    PROVE  /\ pc[w] = "start.save" /\ Others(w) /\ UNCHANGED <<repaid, events>>
           /\ \A i : Succeeded(i)' <=> Succeeded(i)
           /\ \/ pc'[w] = "idle" /\ call'[w] = NoCall
              \/ pc'[w] = "start.read" /\ call'[w] = call[w]
           /\ row' = row \/ (~ row.online /\ ~ row.refunded /\ row.status # "DELETED"
                             /\ row' = [row EXCEPT !.intent = call[w].intent])
BY NoneAssumption, DoneFacts, GotoFacts, CancelFacts
   DEF StartSave, IInv, CallsOK, CallOK, MInv, RowSucceeded, Succeeded, Others

(* So does saving the intent keep MInv. *)
LEMMA MStartSave ==
    ASSUME IInv, MInv, UNCHANGED mix, NEW w \in Worker, StartSave(w)
    PROVE  MInv'
<1>1. row' = row \/ (~ row'.online /\ ~ row'.refunded /\ row.online = row'.online)
  BY StartSaveFacts DEF IInv, StateOK, Row
<1>2. OpAt(pc[w], call[w].op)
  BY DEF MInv, OpsOK
<1>3. Within(w)
  BY <1>1, <1>2, StartSaveFacts
     DEF Within, OpAt, StartSteps, HoldSteps, StaffSteps, Applying
<1>4. RowSucceeded' /\ KnownOK(w)'
  BY <1>1, StartSaveFacts DEF MInv, RowSucceeded, KnownOK
<1> QED  BY <1>3, <1>4, WithinStep

(* A receipt in cash, and the refund of a deposit, keep MInv. *)
LEMMA MRefund ==
    ASSUME IInv, MInv, UNCHANGED mix, NEW w \in Worker,
           ReceiveWrite(w) \/ RefundClaim(w) \/ RefundStripe(w) \/ RefundUndo(w)
    PROVE  MInv'
<1>1. /\ pc[w] \in {"receive.write", "refund.claim", "refund.stripe", "refund.undo"}
      /\ UNCHANGED intents
  BY DEF ReceiveWrite, RefundClaim, RefundStripe, RefundUndo, stripe
<1>2. OpAt(pc[w], call[w].op) /\ KnownOK(w)
  BY DEF MInv, OpsOK
<1>3. /\ row'.online = row.online /\ row'.intent = row.intent
      /\ row'.refunded => row.refunded \/ (row.online /\ row'.online)
  BY <1>2, ZenonT(60) DEF ReceiveWrite, RefundClaim, RefundStripe, RefundUndo, IInv, StateOK, Row, KnownOK
<1>4. RowSucceeded'
  BY <1>1, <1>3 DEF MInv, RowSucceeded, Succeeded
<1>5. CASE Done(w)
  BY <1>1, <1>3, <1>5, DoneFacts, <1>4, WithinStep DEF IInv, Within, Succeeded, KnownOK
<1>6. CASE RefundClaim(w) /\ ~ Done(w)
  BY <1>6, GotoFacts, <1>2, <1>1, <1>3, <1>4, WithinStep
     DEF RefundClaim, IInv, Others, OpAt, StartSteps, HoldSteps, StaffSteps, Applying,
         Within, Succeeded, KnownOK
<1>7. CASE RefundStripe(w) /\ ~ Done(w)
  BY <1>7, GotoFacts, <1>2, <1>1, <1>3, <1>4, WithinStep
     DEF RefundStripe, IInv, Others, OpAt, StartSteps, HoldSteps, StaffSteps, Applying,
         Within, Succeeded, KnownOK
<1> QED
  BY <1>5, <1>6, <1>7 DEF ReceiveWrite, RefundUndo

(* A call that begins, with the step it begins at *)
LEMMA ArriveFacts ==
    ASSUME NEW w \in Worker, Arrive(w) \/ Expire(w) \/ \E i \in Intent : Deliver(w, i)
    PROVE  \E op \in Op, step \in {"start.read", "confirm.read", "release.read", "staff.read",
                                   "cancel", "manual.read", "receive.read", "finalize.read"},
              i \in Intent \cup {None} :
              Begin(w, op, step, i) /\ OpAt(step, op)
<1> USE DEF OpAt, StartSteps, HoldSteps, StaffSteps, Applying, Finalizers, StaffOp, Op
<1>1. CASE CallStart(w) \/ CallConfirm(w) \/ Close(w) \/ Expire(w)
  BY <1>1 DEF CallStart, CallConfirm, Close, Expire
<1>2. CASE CallStaff(w)
  BY <1>2 DEF CallStaff
<1>3. CASE CallCancel(w) \/ CallManualRefund(w) \/ CallReceive(w)
  BY <1>3 DEF CallCancel, CallManualRefund, CallReceive
<1>4. CASE \E i \in Intent : Deliver(w, i)
  BY <1>4 DEF Deliver
<1> QED  BY <1>1, <1>2, <1>3, <1>4 DEF Arrive

(* What a call that begins leaves alone *)
LEMMA BeginFacts ==
    ASSUME StateOK, NEW w \in Worker, NEW op, NEW step, NEW i, Begin(w, op, step, i)
    PROVE  /\ Others(w) /\ pc[w] = "idle" /\ pc'[w] = step /\ call'[w].op = op
           /\ UNCHANGED <<mix, row, intents, repaid, handed, events>> /\ op \in Ops
           /\ \A v \in Worker : pc[v] # "idle" => {op, call[v].op} \notin Serial
BY DEF StateOK, Begin, MayBegin, Goto, Others, stripe, NoCall

Calmly(w) ==
    \/ StartRead(w) \/ StartRetrieve(w) \/ StartCreate(w) \/ ConfirmRead(w) \/ ConfirmRetrieve(w)
    \/ ReleaseRead(w) \/ ReleaseRetrieve(w) \/ ReleaseCancel(w) \/ ReleaseWrite(w)
    \/ StaffRead(w) \/ SettleRead(w) \/ SettleRetrieve(w) \/ SettleCancel(w) \/ StaffReread(w)
    \/ ReceiveRead(w)
    \/ StaffWrite(w) \/ DeleteWrite(w) \/ Cancel(w) \/ ManualRead(w) \/ RefundRead(w)

(* The steps that read, or write no more than the status *)
LEMMA CalmSteps ==
    ASSUME IInv, MInv, UNCHANGED mix, NEW w \in Worker, Calmly(w)
    PROVE  Calm(w)
BY CalmScreen, CalmRelease, CalmStaffReads, CalmWrites DEF Calmly

(* The steps of a call, by what they do to the payment *)
LEMMA AdvanceCases ==
    ASSUME NEW w \in Worker, Advance(w)
    PROVE  /\ UNCHANGED mix
           /\ \/ Calmly(w)
              \/ FinalizeRead(w) \/ FinalizeConfirm(w) \/ FinalizeClaim(w) \/ FinalizeRefund(w)
              \/ StartSave(w) \/ ReceiveWrite(w)
              \/ RefundClaim(w) \/ RefundStripe(w) \/ RefundUndo(w)
BY DEF Advance, AdvanceCall, Calmly

(* Every step keeps what any mix keeps. *)
LEMMA MNext == IInv /\ MInv /\ [Next]_vars => MInv'
<1> SUFFICES ASSUME IInv, MInv, [Next]_vars PROVE MInv'
  OBVIOUS
<1> USE DEF MInv, OpsOK, OpAt, Exclusive, RowSucceeded, KnownOK, Succeeded, Ops, Serial,
            StripeFaults
<1>1. CASE UNCHANGED vars
  BY <1>1 DEF vars
<1>2. CASE TimeOut
  BY <1>2 DEF TimeOut, stripe
<1>3. ASSUME NEW i \in Intent, Pay(i) PROVE MInv'
  BY <1>3, ZenonT(60) DEF Pay, IInv, StateOK
<1> HIDE DEF MInv, OpsOK, OpAt, Exclusive, RowSucceeded, KnownOK, Succeeded, Ops, Serial,
             StripeFaults
<1>4. ASSUME NEW w \in Worker, Arrive(w) \/ Expire(w) \/ \E i \in Intent : Deliver(w, i)
      PROVE  MInv'
  BY <1>4, ArriveFacts, MBegin DEF Op
<1>5. ASSUME NEW w \in Worker, Advance(w) PROVE MInv'
  BY <1>5, AdvanceCases, CalmSteps, MCalm, MFinalizeRead, MFinalizeConfirm, MFinalizeRefund,
     MStartSave, MRefund
<1> QED  BY <1>1, <1>2, <1>3, <1>4, <1>5 DEF Next

(* It holds at first. *)
LEMMA MInit == Init => MInv
BY DEF Init, MInv, OpsOK, OpAt, Exclusive, RowSucceeded, KnownOK, NoCall, NewRow,
       StartSteps, HoldSteps, StaffSteps, Applying

----------------------------------------------------------------------------
(* SInv: what Stripe took is accounted for *)

(* A payment that is returned stays so, unless the step forgets it. *)
LEMMA ReturnedKept ==
    ASSUME NEW w \in Worker, Others(w), NEW i, Returned(i), repaid \subseteq repaid',
           row.paid /\ row.online /\ row.intent = i =>
              \/ row'.paid /\ row'.online /\ row'.intent = i
              \/ pc'[w] \in {"finalize.refund", "refund.stripe"} /\ call'[w].intent = i,
           pc[w] \in {"finalize.refund", "refund.stripe"} /\ call[w].intent = i => i \in repaid'
    PROVE  Returned(i)'
BY DEF Returned, Others

(* A step of call w that forgets no payment keeps SInv. *)
LEMMA SKept ==
    ASSUME SInv, NEW w \in Worker, Others(w),
           row.status = "DELETED" => row'.status = "DELETED",
           \A i : Succeeded(i)' <=> Succeeded(i),
           \A i : Returned(i) => Returned(i)',
           row'.status # "DELETED" =>
              /\ row.paid => row.online
              /\ row'.paid => row'.online
              /\ \A i \in Intent : i \in events => i \in events' \/ Returned(i)'
              /\ row'.refunded => Returned(row.intent)'
              /\ pc'[w] = "finalize.confirm" /\ (call'[w].seen.paid \/ call'[w].seen.refunded)
                 => Returned(call[w].intent)'
    PROVE  SInv'
<1> SUFFICES ASSUME row'.status # "DELETED" PROVE SInv'
  BY DEF SInv
<1>1. \A i \in Intent : Succeeded(i)' => i \in events' \/ Returned(i)'
  BY DEF SInv
<1>2. ASSUME NEW v \in Worker, pc'[v] = "finalize.confirm",
             call'[v].seen.paid \/ call'[v].seen.refunded
      PROVE  Returned(call[v].intent)'
  BY <1>2 DEF SInv, Others
<1> QED  BY <1>1, <1>2 DEF SInv

(* Reading, and writing a status, keep SInv. *)
LEMMA SCalm ==
    ASSUME SInv, NEW w \in Worker, Calm(w)
    PROVE  SInv'
BY ReturnedKept, SKept DEF Calm, Critical, SInv

(* The row a call sees is accounted for when it reads it. *)
LEMMA SFinalizeRead ==
    ASSUME IInv, MInv, SInv, NEW w \in Worker, FinalizeRead(w)
    PROVE  SInv'
<1>1. /\ pc[w] = "finalize.read" /\ UNCHANGED <<row, intents, repaid, events>> /\ Others(w)
  BY DEF FinalizeRead, stripe, IInv, StateOK, Goto, Others
<1>2. /\ call'[w].intent = call[w].intent
      /\ pc'[w] = "finalize.confirm" => call'[w].seen = row
      /\ row.intent = call[w].intent
  BY <1>1, AppliedOnRow DEF FinalizeRead, IInv, StateOK, Goto, Applying
<1>3. ASSUME NEW i, Returned(i) PROVE Returned(i)'
  BY <1>1, <1>3, ReturnedKept
<1>4. row.status # "DELETED" /\ (row.paid \/ row.refunded) => Returned(row.intent)
  BY DEF SInv, Returned
<1>5. row.paid \in BOOLEAN /\ row.refunded \in BOOLEAN
  BY DEF IInv, StateOK, Row
<1>6. row' = row /\ events' = events
  BY <1>1
<1>7. \A i : Succeeded(i)' <=> Succeeded(i)
  BY <1>1 DEF Succeeded
<1>8. row'.status # "DELETED" =>
            /\ row.paid => row.online
            /\ row'.paid => row'.online
            /\ row'.refunded => Returned(row.intent)'
            /\ pc'[w] = "finalize.confirm" /\ (call'[w].seen.paid \/ call'[w].seen.refunded)
               => Returned(call[w].intent)'
  BY <1>2, <1>3, <1>4, <1>6 DEF SInv
<1> QED  BY <1>1, <1>3, <1>6, <1>7, <1>8, SKept

(* An acknowledged payment is on the row, or goes back. *)
LEMMA SFinalizeConfirm ==
    ASSUME IInv, MInv, SInv, NEW w \in Worker, FinalizeConfirm(w)
    PROVE  SInv'
<1>0. PICK i : i = call[w].intent
  OBVIOUS
<1>1. pc[w] = "finalize.confirm" /\ UNCHANGED <<intents, repaid>>
  BY DEF FinalizeConfirm, stripe
<1>2. i \in Intent /\ row.intent = i /\ call[w].seen.intent = i
  BY <1>0, <1>1, AppliedOnRow DEF Applying, MInv, KnownOK
<1>3. \A j : Succeeded(j)' <=> Succeeded(j)
  BY <1>1 DEF Succeeded
<1>4. CASE row.status = "PENDING_PAYMENT"
  <2>1. /\ row' = [row EXCEPT !.status = "CONFIRMED", !.paid = TRUE, !.online = TRUE,
                              !.intent = i]
        /\ Return(w, "CONFIRMED")
    BY <1>0, <1>4 DEF FinalizeConfirm
  <2>2. row'.paid /\ row'.online /\ row'.intent = i
    BY <2>1 DEF IInv, StateOK, Row
  <2>3. Others(w) /\ pc'[w] # "finalize.confirm" /\ events \subseteq events' \cup {i}
    BY <1>0, <2>1, ReturnFacts DEF IInv
  <2>4. Returned(i)'
    BY <1>0, <2>2 DEF Returned
  <2>5. ASSUME NEW j, Returned(j) PROVE Returned(j)'
    BY <1>1, <1>2, <2>2, <2>3, <2>5, ReturnedKept
  <2>6. row'.status # "DELETED" =>
            /\ row.paid => row.online
            /\ row'.paid => row'.online
            /\ \A j \in Intent : j \in events => j \in events' \/ Returned(j)'
            /\ row'.refunded => Returned(row.intent)'
    BY <1>4, <2>2, <2>3, <2>4 DEF SInv
  <2> QED  BY <1>3, <1>4, <2>3, <2>5, <2>6, SKept
<1>5. CASE row.status # "PENDING_PAYMENT"
  BY <1>0, <1>5, GotoFacts, ReturnFacts, <1>1, ReturnedKept, <1>3, SKept
     DEF FinalizeConfirm, IInv, Others, AlreadyApplied, SInv
<1> QED  BY <1>4, <1>5

(* A late payment is given back by who marks it, or was by who did. *)
LEMMA SFinalizeClaim ==
    ASSUME IInv, MInv, SInv, NEW w \in Worker, FinalizeClaim(w)
    PROVE  SInv'
<1>0. PICK i : i = call[w].intent
  OBVIOUS
<1>1. pc[w] = "finalize.claim" /\ UNCHANGED <<intents, repaid>>
  BY DEF FinalizeClaim, stripe
<1>2. i \in Intent /\ row.intent = i
  BY <1>0, <1>1, AppliedOnRow DEF Applying
<1>3. \A j : Succeeded(j)' <=> Succeeded(j)
  BY <1>1 DEF Succeeded
<1>4. CASE /\ row.status # "DELETED"
           /\ row' = [row EXCEPT !.intent = i, !.refunded = TRUE]
           /\ Goto(w, "finalize.refund") /\ UNCHANGED <<call, events>>
  <2>1. row'.paid = row.paid /\ row'.online = row.online /\ row'.intent = i
    BY <1>4 DEF IInv, StateOK, Row
  <2>2. Others(w) /\ pc'[w] = "finalize.refund" /\ call' = call
    BY <1>4, GotoFacts DEF IInv, Others
  <2>3. ASSUME NEW j, Returned(j) PROVE Returned(j)'
    BY <1>1, <1>2, <2>1, <2>2, <2>3, ReturnedKept
  <2>4. Returned(i)'
    BY <1>0, <2>2 DEF Returned
  <2>5. row'.status # "DELETED" =>
            /\ row.paid => row.online
            /\ row'.paid => row'.online
            /\ row'.refunded => Returned(row.intent)'
    BY <1>4, <2>1, <2>4 DEF SInv
  <2> QED  BY <1>3, <1>4, <2>2, <2>3, <2>5, SKept
<1>5. CASE (row.status = "DELETED" \/ row.refunded) /\ UNCHANGED row /\ Return(w, "REFUNDED")
  BY <1>0, <1>5, ReturnFacts, <1>1, ReturnedKept, <1>2, <1>3, SKept DEF IInv, SInv
<1>6. row.refunded \in BOOLEAN
  BY DEF IInv, StateOK, Row
<1> QED  BY <1>0, <1>4, <1>5, <1>6 DEF FinalizeClaim

(* finalize gives the money back; without failures it arrives. *)
LEMMA SFinalizeRefund ==
    ASSUME IInv, MInv, SInv, ~ StripeFaults, NEW w \in Worker, FinalizeRefund(w)
    PROVE  SInv'
<1>0. PICK i : i = call[w].intent
  OBVIOUS
<1>1. /\ pc[w] = "finalize.refund" /\ UNCHANGED <<intents, row>>
      /\ repaid' = repaid \cup {i} /\ Return(w, "REFUNDED")
  BY <1>0 DEF FinalizeRefund
<1>2. Others(w) /\ pc'[w] # "finalize.confirm" /\ events \subseteq events' \cup {i}
  BY <1>0, <1>1, ReturnFacts DEF IInv
<1>3. ASSUME NEW j, Returned(j) PROVE Returned(j)'
  BY <1>0, <1>1, <1>2, <1>3, ReturnedKept
<1>4. Returned(i)'
  BY <1>1 DEF Returned
<1>5. row'.status # "DELETED" =>
          /\ row.paid => row.online
          /\ row'.paid => row'.online
          /\ \A j \in Intent : j \in events => j \in events' \/ Returned(j)'
          /\ row'.refunded => Returned(row.intent)'
  BY <1>1, <1>2, <1>3, <1>4 DEF SInv
<1>6. \A j : Succeeded(j)' <=> Succeeded(j)
  BY <1>1 DEF Succeeded
<1>7. row.status = "DELETED" => row'.status = "DELETED"
  BY <1>1
<1> QED  BY <1>2, <1>3, <1>5, <1>6, <1>7, SKept

(* The screen saves its intent on a row without payment. *)
LEMMA SStartSave ==
    ASSUME IInv, MInv, SInv, UNCHANGED mix, NEW w \in Worker, StartSave(w)
    PROVE  SInv'
<1>1. \/ row' = row
      \/ /\ ~ row.online /\ ~ row'.online /\ ~ row'.refunded
         /\ row'.paid = row.paid /\ row'.status = row.status
  BY StartSaveFacts DEF IInv, StateOK, Row
<1>2. ASSUME NEW i, Returned(i) PROVE Returned(i)'
  BY <1>1, <1>2, StartSaveFacts, ReturnedKept
<1>3. row'.status # "DELETED" =>
          /\ row.paid => row.online
          /\ row'.paid => row'.online
          /\ row'.refunded => Returned(row.intent)'
  BY <1>1, <1>2 DEF SInv
<1>4. pc'[w] # "finalize.confirm" /\ events' = events
  BY StartSaveFacts
<1> QED  BY <1>1, <1>2, <1>3, <1>4, StartSaveFacts, SKept

(* A refund takes the payment off the row and gives it back. *)
LEMMA SRefund ==
    ASSUME IInv, MInv, SInv, ~ StripeFaults, UNCHANGED mix, NEW w \in Worker,
           RefundClaim(w) \/ RefundStripe(w)
    PROVE  SInv'
<1>0. PICK i : i = call[w].intent
  OBVIOUS
<1>1. UNCHANGED <<intents, events>> /\ pc[w] \in {"refund.claim", "refund.stripe"}
  BY DEF RefundClaim, RefundStripe, stripe
<1>2. \A j : Succeeded(j)' <=> Succeeded(j)
  BY <1>1 DEF Succeeded
<1>3. CASE /\ pc[w] = "refund.claim" /\ row.status # "DELETED" /\ row.intent = i
           /\ row' = [row EXCEPT !.paid = FALSE, !.refunded = TRUE]
           /\ Goto(w, "refund.stripe") /\ UNCHANGED <<call, repaid>>
  <2>1. ~ row'.paid /\ row'.intent = i /\ row'.status = row.status
    BY <1>3 DEF IInv, StateOK, Row
  <2>2. Others(w) /\ pc'[w] = "refund.stripe" /\ call'[w].intent = i
    BY <1>0, <1>3, GotoFacts DEF IInv, Others
  <2>3. ASSUME NEW j, Returned(j) PROVE Returned(j)'
    BY <1>3, <2>1, <2>2, <2>3, ReturnedKept
  <2>4. Returned(i)'
    BY <2>2 DEF Returned
  <2>5. row'.status # "DELETED" =>
            /\ row.paid => row.online
            /\ row'.paid => row'.online
            /\ row'.refunded => Returned(row.intent)'
    BY <1>3, <2>1, <2>4 DEF SInv
  <2> QED  BY <1>1, <1>2, <2>1, <2>2, <2>3, <2>5, SKept
<1>4. CASE pc[w] = "refund.claim" /\ Done(w) /\ UNCHANGED <<row, repaid>>
  BY <1>4, DoneFacts, ReturnedKept, <1>1, <1>2, SKept DEF IInv, SInv
<1>5. CASE pc[w] = "refund.stripe" /\ Done(w) /\ repaid' = repaid \cup {i} /\ UNCHANGED row
  BY <1>5, DoneFacts, <1>0, ReturnedKept, <1>1, <1>2, SKept DEF IInv, SInv
<1> QED  BY <1>0, <1>3, <1>4, <1>5 DEF RefundClaim, RefundStripe, stripe

(* The customer pays: the webhook is owed. *)
LEMMA SPay ==
    ASSUME IInv, SInv, NEW i \in Intent, Pay(i)
    PROVE  SInv'
BY DEF Pay, IInv, StateOK, Succeeded, Returned, SInv

(* A call that begins returns what was returned. *)
LEMMA SBegin ==
    ASSUME IInv, SInv, NEW w \in Worker, Arrive(w) \/ Expire(w) \/ \E i \in Intent : Deliver(w, i)
    PROVE  SInv'
BY ArriveFacts, BeginFacts, ReturnedKept, SKept DEF IInv, Succeeded, SInv

(* Without receipts in cash, and with Stripe at work, no payment is lost.   *)
LEMMA SNext == IInv /\ MInv /\ SInv /\ NoCash /\ [Next]_vars => SInv' /\ NoCash'
<1> SUFFICES ASSUME IInv, MInv, SInv, NoCash, [Next]_vars PROVE SInv' /\ NoCash'
  OBVIOUS
<1>1. UNCHANGED mix /\ NoCash'
  BY MixSame DEF NoCash, Ops, StripeFaults
<1>2. CASE UNCHANGED vars \/ TimeOut
  BY <1>2, <1>1 DEF vars, TimeOut, stripe, SInv, Returned, Succeeded
<1>3. ASSUME NEW i \in Intent, Pay(i) PROVE SInv'
  BY <1>3, SPay
<1>4. ASSUME NEW w \in Worker, Arrive(w) \/ Expire(w) \/ \E i \in Intent : Deliver(w, i)
      PROVE  SInv'
  BY <1>4, SBegin
<1>5. ASSUME NEW w \in Worker, Advance(w) PROVE SInv'
  BY <1>1, <1>5, AdvanceCases, CalmSteps, SCalm, SFinalizeRead, SFinalizeConfirm,
     SFinalizeClaim, SFinalizeRefund, SStartSave, SRefund
     DEF MInv, OpsOK, OpAt, NoCash, ReceiveWrite, RefundUndo
<1> QED  BY <1>1, <1>2, <1>3, <1>4, <1>5 DEF Next

(* A row stays until a delete, which needs the operation. *)
LEMMA NoDelete ==
    IInv /\ MInv /\ "delete" \notin Ops /\ row.status # "DELETED" /\ [Next]_vars
    => row'.status # "DELETED" /\ "delete" \notin Ops'
<1> SUFFICES ASSUME IInv, MInv, "delete" \notin Ops, row.status # "DELETED", [Next]_vars
             PROVE  row'.status # "DELETED" /\ "delete" \notin Ops'
  OBVIOUS
<1>1. "delete" \notin Ops'
  BY MixSame DEF Ops
<1>2. CASE UNCHANGED row
  BY <1>1, <1>2
<1>3. ASSUME NEW w \in Worker, Advance(w) PROVE row'.status # "DELETED"
  <2>1. call[w].op \in Ops \cup {"none"} /\ OpAt(pc[w], call[w].op)
    BY DEF MInv, OpsOK
  <2>2. ~ DeleteWrite(w)
    BY <2>1 DEF OpAt, DeleteWrite
  <2>3. row \in [status : RowStatus, paid : BOOLEAN, online : BOOLEAN,
                 intent : Intent \cup {None}, refunded : BOOLEAN, link : BOOLEAN]
    BY DEF IInv, StateOK, Row
  <2> USE DEF FinalizeRead, FinalizeConfirm, FinalizeClaim, FinalizeRefund, StartRead,
              StartRetrieve, StartCreate, StartSave, ConfirmRead, ConfirmRetrieve,
              ReleaseRead, ReleaseRetrieve, ReleaseCancel, ReleaseWrite, StaffRead, SettleRead,
              SettleRetrieve, SettleCancel, StaffReread, StaffWrite, ReceiveRead, ReceiveWrite,
              Cancel, ManualRead, RefundRead, RefundClaim, RefundStripe, RefundUndo
  <2>4. CASE FinalizeConfirm(w) \/ FinalizeClaim(w) \/ StartSave(w)
    BY <2>3, <2>4
  <2>5. CASE ReleaseWrite(w) \/ StaffWrite(w) \/ ReceiveWrite(w) \/ Cancel(w)
    BY <2>3, <2>5
  <2>6. CASE RefundClaim(w) \/ RefundUndo(w)
    BY <2>3, <2>6
  <2>7. \/ UNCHANGED row
        \/ FinalizeConfirm(w) \/ FinalizeClaim(w) \/ StartSave(w)
        \/ ReleaseWrite(w) \/ StaffWrite(w) \/ ReceiveWrite(w) \/ Cancel(w)
        \/ RefundClaim(w) \/ RefundUndo(w)
    BY <1>3, <2>2 DEF Advance, AdvanceCall
  <2> QED  BY <2>4, <2>5, <2>6, <2>7
<1>4. ASSUME NEW w \in Worker, Arrive(w) \/ Expire(w) \/ \E i \in Intent : Deliver(w, i)
      PROVE  UNCHANGED row
  BY <1>4, ArriveFacts, BeginFacts DEF IInv
<1>5. [Next]_vars => \/ UNCHANGED row
                     \/ \E w \in Worker : Advance(w)
  BY <1>4 DEF Next, vars, Pay, TimeOut
<1> QED  BY <1>1, <1>2, <1>3, <1>5

(* Nothing is taken at first. *)
LEMMA SInit == Init => SInv /\ row.status # "DELETED"
BY DEF Init, SInv, Succeeded, NoCall, NewRow

(* When nothing is under way, what was accounted for is on the row or went  *)
(* back.                                                                    *)
LEMMA SStranded ==
    SInv /\ row.status # "DELETED" => NothingStranded
BY DEF SInv, Succeeded, Returned, NothingStranded, Quiet, AllIdle, Captured

(* Money taken from the customer is on the row or went back, whatever calls *)
(* overlap, while no row is deleted and no deposit received in cash.        *)
THEOREM DepositStrandsNothing == Spec => []OverlapStrandsNothing
<1> DEFINE Cond == Ops \cap {"delete", "receive"} = {} /\ ~ StripeFaults
           J == Cond => SInv /\ row.status # "DELETED"
<1>1. Init => J
  BY SInit
<1>2. IInv /\ MInv /\ J /\ [Next]_vars => J'
  <2> SUFFICES ASSUME IInv, MInv, J, [Next]_vars, Cond' PROVE SInv' /\ row'.status # "DELETED"
    OBVIOUS
  <2>1. Cond
    BY MixSame DEF Ops, StripeFaults
  <2>2. NoCash /\ "delete" \notin Ops
    BY <2>1 DEF NoCash
  <2> QED  BY <2>1, <2>2, SNext, NoDelete
<1>3. J => OverlapStrandsNothing
  BY SStranded DEF OverlapStrandsNothing
<1> HIDE DEF J
<1> QED  BY <1>1, <1>2, <1>3, MInit, MNext, DepositInvariant, PTL DEF Spec

----------------------------------------------------------------------------
(* HInv: what is paid is not about to be refunded *)

(* Two finalizers are not in progress together. *)
LEMMA OneFinalizerOnly ==
    ASSUME MInv, OneAtATime, NEW v \in Worker, NEW w \in Worker, v # w,
           call[v].op \in Finalizers, call[w].op \in Finalizers
    PROVE  FALSE
<1>1. pc[v] # "idle" /\ pc[w] # "idle"
  BY DEF MInv, OpsOK, OpAt, Finalizers, StaffOp
<1>2. {call[v].op, call[w].op} \in OneFinalizer
  BY DEF OneFinalizer
<1> QED  BY <1>1, <1>2 DEF MInv, Exclusive, OneAtATime

(* A finalizer finds no other call applying, or about to write the deposit. *)
LEMMA AloneToFinalize ==
    ASSUME MInv, OneAtATime, NEW w \in Worker, call[w].op \in Finalizers,
           NEW v \in Worker \ {w}
    PROVE  pc[v] \notin Applying \cup StartSteps \cup StaffSteps
                        \cup {"receive.read", "receive.write"}
<1>1. SUFFICES ASSUME pc[v] \in Applying \cup StartSteps \cup StaffSteps
                                 \cup {"receive.read", "receive.write"}
               PROVE  call[v].op \in Finalizers
  BY OneFinalizerOnly
<1> QED  BY <1>1 DEF MInv, OpsOK, OpAt, Finalizers

(* Reading, and writing a status, keep HInv. *)
LEMMA HCalm ==
    ASSUME HInv, NEW w \in Worker, Calm(w)
    PROVE  HInv'
BY DEF HInv, Calm, Others

(* The row a call sees is paid if the row is. *)
LEMMA HFinalizeRead ==
    ASSUME IInv, HInv, NEW w \in Worker, FinalizeRead(w)
    PROVE  HInv'
BY DEF FinalizeRead, stripe, IInv, StateOK, Goto, Others, HInv, Refunding

(* A payment is applied while no other call refunds, or given back when the *)
(* row shows it unpaid.                                                     *)
LEMMA HFinalizeConfirm ==
    ASSUME IInv, MInv, HInv, OneAtATime, NEW w \in Worker, FinalizeConfirm(w)
    PROVE  HInv'
<1>0. PICK i : i = call[w].intent
  OBVIOUS
<1>1. pc[w] = "finalize.confirm" /\ repaid' = repaid
  BY DEF FinalizeConfirm, stripe
<1>2. row.intent = i /\ call[w].seen.intent = i /\ call[w].op \in Finalizers
  BY <1>0, <1>1, AppliedOnRow DEF Applying, MInv, KnownOK, OpsOK, OpAt
<1>3. CASE row.status = "PENDING_PAYMENT"
  <2>1. /\ row' = [row EXCEPT !.status = "CONFIRMED", !.paid = TRUE, !.online = TRUE,
                              !.intent = i]
        /\ Return(w, "CONFIRMED")
    BY <1>0, <1>3 DEF FinalizeConfirm
  <2>2. row'.intent = i /\ row'.status = "CONFIRMED"
    BY <2>1 DEF IInv, StateOK, Row
  <2>3. Others(w) /\ pc'[w] \notin Refunding \cup {"finalize.confirm", "receive.write"}
    BY <2>1, ReturnFacts DEF IInv, Refunding
  <2>4. \A v \in Worker : pc'[v] \notin {"finalize.confirm", "receive.write"}
    BY <1>2, <2>3, AloneToFinalize DEF Others, Applying
  <2> QED  BY <1>1, <1>2, <1>3, <2>2, <2>3, <2>4 DEF HInv, Others
<1>4. CASE row.status # "PENDING_PAYMENT"
  BY <1>4, <1>0, <1>2, GotoFacts, ReturnFacts, <1>1
     DEF FinalizeConfirm, Late, AlreadyApplied, IInv, Others, Refunding, HInv
<1> QED  BY <1>3, <1>4

(* A refund is of a row that is not paid. *)
LEMMA HRefunds ==
    ASSUME IInv, MInv, HInv, ~ StripeFaults, NEW w \in Worker,
           FinalizeClaim(w) \/ FinalizeRefund(w) \/ RefundClaim(w) \/ RefundStripe(w)
    PROVE  HInv'
<1>1. /\ pc[w] \in Refunding \cup {"refund.claim"} /\ KnownOK(w)
      /\ repaid' = repaid \/ pc[w] \in Refunding
  BY DEF FinalizeClaim, FinalizeRefund, RefundClaim, RefundStripe, Refunding, stripe, MInv
<1>2. /\ Others(w) /\ pc'[w] \notin {"finalize.confirm", "receive.write"}
      /\ pc[w] = "refund.claim" =>
            \/ pc'[w] = "refund.stripe" /\ ~ row'.paid
            \/ pc'[w] = "idle" /\ row' = row
  <2>1. CASE FinalizeClaim(w) \/ FinalizeRefund(w)
    BY <2>1, GotoFacts, ReturnFacts DEF FinalizeClaim, FinalizeRefund, IInv, Others
  <2>2. CASE RefundClaim(w)
    <3>1. row' = [row EXCEPT !.paid = FALSE, !.refunded = TRUE] => ~ row'.paid
      BY DEF IInv, StateOK, Row
    <3>2. \/ Done(w) /\ row' = row
          \/ Goto(w, "refund.stripe") /\ UNCHANGED call /\ ~ row'.paid
      BY <2>2, <3>1 DEF RefundClaim
    <3> QED  BY <3>2, GotoFacts, DoneFacts DEF IInv, Others
  <2>3. CASE RefundStripe(w)
    BY <2>3, GotoFacts, DoneFacts DEF RefundStripe, IInv, Others
  <2> QED  BY <2>1, <2>2, <2>3
<1>3. /\ row'.status = row.status /\ row'.online = row.online
      /\ row'.paid => row.paid
      /\ row'.intent = row.intent \/ pc[w] = "finalize.claim"
  BY DEF FinalizeClaim, FinalizeRefund, RefundClaim, RefundStripe, IInv, StateOK, Row
<1>4. CASE row.status = "DELETED"
  BY <1>3, <1>4 DEF HInv
<1>5. CASE row.status # "DELETED"
  BY <1>1, <1>5, <1>2, <1>3 DEF HInv, KnownOK, Refunding, Others
<1> QED  BY <1>4, <1>5

(* The screen saves its intent on a row without payment, and cash is        *)
(* received, or taken back, on a row without payment online.                *)
LEMMA HWrites ==
    ASSUME IInv, MInv, HInv, OneAtATime, UNCHANGED mix, NEW w \in Worker,
           StartSave(w) \/ ReceiveWrite(w)
    PROVE  HInv'
<1>1. CASE StartSave(w)
  BY <1>1, StartSaveFacts DEF IInv, StateOK, Row, HInv, Others, Refunding
<1>2. CASE ReceiveWrite(w)
  BY <1>2, DoneFacts, AloneToFinalize
     DEF ReceiveWrite, stripe, IInv, StateOK, Row, HInv, MInv, OpsOK, OpAt, Finalizers,
         Others, Applying, Refunding
<1> QED  BY <1>1, <1>2

(* One finalizer at a time, and with Stripe at work, no step refunds what is paid. *)
LEMMA HNext ==
    IInv /\ MInv /\ HInv /\ OneAtATime /\ ~ StripeFaults /\ [Next]_vars
    => HInv'
<1> SUFFICES ASSUME IInv, MInv, HInv, OneAtATime, ~ StripeFaults, [Next]_vars PROVE HInv'
  OBVIOUS
<1>1. CASE UNCHANGED vars \/ TimeOut \/ \E i \in Intent : Pay(i)
  BY <1>1 DEF vars, TimeOut, Pay, stripe, HInv
<1>2. ASSUME NEW w \in Worker, Arrive(w) \/ Expire(w) \/ \E i \in Intent : Deliver(w, i)
      PROVE  HInv'
  BY <1>2, ArriveFacts, BeginFacts DEF IInv, Refunding, HInv, Others
<1>3. ASSUME NEW w \in Worker, Advance(w) PROVE HInv'
  BY <1>3, AdvanceCases, CalmSteps, HCalm, HFinalizeRead, HFinalizeConfirm, HRefunds,
     HWrites DEF MInv, OpsOK, OpAt, RefundUndo
<1> QED  BY <1>1, <1>2, <1>3 DEF Next

(* What is paid online and not refunded is held. *)
LEMMA HHeld == MInv /\ HInv => PaidMeansHeld
BY DEF MInv, RowSucceeded, HInv, Succeeded, PaidMeansHeld, Captured

(* One finalizer at a time: a deposit recorded as paid online is money the  *)
(* platform still holds, whatever the cancellations and refunds that        *)
(* overlap it (finalize, refundOnlineDeposit).                              *)
THEOREM DepositPaidMeansHeld == Spec => []SerialPaidMeansHeld
<1> DEFINE Cond == OneAtATime /\ ~ StripeFaults
           J == Cond => HInv
<1>1. Init => J
  BY DEF Init, HInv, NewRow, Refunding
<1>2. IInv /\ MInv /\ J /\ [Next]_vars => J'
  <2> SUFFICES ASSUME IInv, MInv, J, [Next]_vars, Cond' PROVE HInv'
    OBVIOUS
  <2>1. Cond
    BY MixSame DEF OneAtATime, Serial, StripeFaults
  <2> QED  BY <2>1, HNext
<1>3. MInv /\ J => SerialPaidMeansHeld
  BY HHeld DEF SerialPaidMeansHeld, OneAtATime
<1> HIDE DEF J
<1> QED  BY <1>1, <1>2, <1>3, MInit, MNext, DepositInvariant, PTL DEF Spec

----------------------------------------------------------------------------
(* KInv: what is cancelled is about to be returned *)

(* While a staff edit is in progress no other call finalizes or edits. *)
LEMMA StaffOnly ==
    ASSUME MInv, Apart, NEW v \in Worker, NEW w \in Worker, v # w,
           call[v].op \in StaffOp, call[w].op \in Finalizers
    PROVE  FALSE
<1>1. pc[v] # "idle" /\ pc[w] # "idle"
  BY DEF MInv, OpsOK, OpAt, Finalizers, StaffOp
<1>2. {call[v].op, call[w].op} \in StaffAlone
  BY DEF StaffAlone
<1> QED  BY <1>1, <1>2 DEF MInv, Exclusive, Apart

(* Steps that change neither status nor deposit *)
LEMMA KSame ==
    ASSUME KInv, NEW w \in Worker, Others(w),
           row'.status = row.status, row'.paid = row.paid, row'.online = row.online,
           row'.refunded = row.refunded,
           row.status = "CANCELLED" /\ row.paid /\ pc[w] \in {"refund.read", "refund.claim"} =>
              pc'[w] \in {"refund.read", "refund.claim"},
           row.status # "DELETED" => KnowsRow(w)'
    PROVE  KInv'
<1> SUFFICES ASSUME row.status # "DELETED" PROVE KInv'
  BY DEF KInv
<1>1. ASSUME NEW v \in Worker PROVE KnowsRow(v)'
  BY DEF KInv, KnowsRow, Others
<1>2. row.status = "CANCELLED" /\ row.paid =>
         \E v \in Worker : pc'[v] \in {"refund.read", "refund.claim"}
  BY DEF KInv, Others
<1> QED  BY <1>1, <1>2 DEF KInv

Silent == {"idle", "start.read", "start.retrieve", "start.create", "start.save", "confirm.read",
           "confirm.retrieve", "release.read", "release.retrieve", "release.cancel",
           "release.write", "staff.read", "staff.reread", "delete.write", "cancel", "manual.read",
           "refund.read", "refund.claim", "refund.stripe", "refund.undo", "receive.read",
           "receive.write"}

(* At most steps a call needs to know nothing of the row. *)
LEMMA KSilent ==
    ASSUME NEW w \in Worker,
           pc'[w] \in Silent \/ (pc'[w] \in {"finalize.read", "finalize.refund"}
                                 /\ call'[w].op \notin StaffOp)
    PROVE  KnowsRow(w)'
BY DEF KnowsRow, Silent

(* The customer's screen, the release of a hold until it writes, a call by hand *)
LEMMA KReads ==
    ASSUME IInv, MInv, KInv, NoCash, UNCHANGED mix, NEW w \in Worker,
           \/ StartRead(w) \/ StartRetrieve(w) \/ StartCreate(w)
           \/ ConfirmRead(w) \/ ConfirmRetrieve(w)
           \/ ReleaseRead(w) \/ ReleaseRetrieve(w) \/ ReleaseCancel(w)
           \/ ManualRead(w) \/ RefundRead(w)
    PROVE  KInv'
<1>1. /\ row' = row /\ Calm(w)
      /\ pc[w] \in StartSteps \cup {"confirm.read", "confirm.retrieve", "manual.read",
                                    "refund.read"} \cup HoldSteps
      /\ pc[w] = "refund.read" => RefundRead(w)
  BY CalmSteps DEF Calmly, StartRead, StartRetrieve, StartCreate, ConfirmRead, ConfirmRetrieve,
     ReleaseRead, ReleaseRetrieve, ReleaseCancel, ManualRead, RefundRead, StartSteps, HoldSteps
<1>2. OpAt(pc[w], call[w].op)
  BY DEF MInv, OpsOK
<1>3. /\ pc'[w] \in Silent \cup {"finalize.read"}
      /\ pc'[w] = "finalize.read" => call'[w].op \notin StaffOp
  <2>1. CASE pc'[w] = "idle"
    BY <2>1 DEF Silent
  <2>2. ASSUME ~ Done(w) PROVE \E step \in Silent \cup {"finalize.read"} : Goto(w, step)
    BY <2>2 DEF StartRead, StartRetrieve, StartCreate, ConfirmRead, ConfirmRetrieve,
       ReleaseRead, ReleaseRetrieve, ReleaseCancel, ManualRead, RefundRead, Silent
  <2>3. pc'[w] \in Silent \cup {"finalize.read"}
    BY <2>2, DoneFacts, GotoFacts DEF IInv, Silent
  <2>4. ASSUME pc'[w] = "finalize.read" PROVE call'[w].op \notin StaffOp
    BY <2>4, DoneFacts, GotoFacts, <1>1, <1>2
       DEF StartRead, StartRetrieve, StartCreate, ConfirmRead, ConfirmRetrieve,
           StartSteps, ReleaseRead, ReleaseRetrieve, ReleaseCancel, HoldSteps,
           ManualRead, RefundRead, IInv, Calm, OpAt, StaffOp
  <2> QED  BY <2>3, <2>4
<1>4. ASSUME row.status = "CANCELLED", row.paid, pc[w] = "refund.read"
      PROVE  pc'[w] = "refund.claim"
  BY <1>4, NoneAssumption, <1>1, GotoFacts
     DEF KInv, MInv, RowSucceeded, Succeeded, RefundRead, IInv
<1>5. pc[w] # "refund.claim"
  BY <1>1 DEF StartSteps, HoldSteps
<1> QED  BY <1>1, <1>3, <1>4, <1>5, KSame, KSilent DEF Calm

(* The staff's request up to its write *)
LEMMA KStaffReads ==
    ASSUME IInv, MInv, KInv, NoCash, UNCHANGED mix, NEW w \in Worker,
           StaffRead(w) \/ SettleRead(w) \/ SettleRetrieve(w) \/ SettleCancel(w) \/ StaffReread(w)
    PROVE  KInv'
<1> USE DEF StaffRead, SettleRead, SettleRetrieve, SettleCancel, StaffReread
<1>1. row' = row /\ Others(w) /\ pc[w] \in StaffSteps
  BY CalmSteps DEF Calmly, Calm, StaffSteps
<1>2. OpAt(pc[w], call[w].op) /\ (KnowsRow(w) \/ row.status = "DELETED")
  BY DEF MInv, OpsOK, KInv
<1>3. ASSUME row.status # "DELETED" PROVE KnowsRow(w)'
  BY DoneFacts, KSilent, <1>2, <1>3, <1>1, UnpaidFacts, GotoFacts
     DEF IInv, Silent, KnowsRow, StateOK, Read, KInv
<1>4. pc[w] \notin {"refund.read", "refund.claim"}
  BY <1>1 DEF StaffSteps
<1> QED  BY <1>1, <1>3, <1>4, KSame

(* finalize: the row it sees is the row; it applies a payment to a pending  *)
(* row, which no staff request is settling.                                 *)
LEMMA KFinalize ==
    ASSUME IInv, MInv, KInv, Apart, NEW w \in Worker,
           FinalizeRead(w) \/ FinalizeConfirm(w) \/ FinalizeClaim(w) \/ FinalizeRefund(w)
    PROVE  KInv'
<1>1. pc[w] \in Applying /\ OpAt(pc[w], call[w].op) /\ call[w].op \in Finalizers
  BY DEF FinalizeRead, FinalizeConfirm, FinalizeClaim, FinalizeRefund, Applying, MInv, OpsOK, OpAt
<1>2. CASE row.status = "DELETED"
  BY <1>2 DEF KInv, FinalizeRead, FinalizeConfirm, FinalizeClaim, FinalizeRefund
<1>3. ASSUME row.status # "DELETED", FinalizeRead(w) PROVE KInv'
  BY <1>3, KSame DEF FinalizeRead, IInv, StateOK, Goto, Others, KInv, KnowsRow
<1>4. ASSUME row.status # "DELETED", row.status # "PENDING_PAYMENT", FinalizeConfirm(w)
      PROVE  KInv'
  BY <1>4, GotoFacts, KSame, KSilent, DoneFacts
     DEF FinalizeConfirm, KInv, KnowsRow, Return, IInv, Others, Late, Silent
<1>5. ASSUME row.status = "PENDING_PAYMENT", FinalizeConfirm(w) PROVE KInv'
  <2>1. /\ row' = [row EXCEPT !.status = "CONFIRMED", !.paid = TRUE, !.online = TRUE,
                              !.intent = call[w].intent]
        /\ Return(w, "CONFIRMED")
    BY <1>5 DEF FinalizeConfirm
  <2>2. row'.status = "CONFIRMED" /\ row'.online /\ row'.refunded = row.refunded
    BY <2>1 DEF IInv, StateOK, Row
  <2>3. Others(w) /\ pc'[w] \in {"idle", "staff.reread"}
    BY <2>1, ReturnFacts DEF IInv
  <2>4. ASSUME NEW v \in Worker PROVE KnowsRow(v)'
    BY <2>3, KSilent, <1>1, StaffOnly, <1>5, <2>2
       DEF Silent, MInv, OpsOK, KInv, KnowsRow, Others, OpAt, StaffSteps
  <2> QED  BY <1>5, <2>2, <2>4 DEF KInv
<1>6. ASSUME row.status # "DELETED", FinalizeClaim(w) PROVE KInv'
  <2>1. pc[w] = "finalize.claim" /\ row.status # "PENDING_PAYMENT" /\ ~ row.paid
    BY <1>6 DEF FinalizeClaim, KInv, KnowsRow
  <2>2. call[w].op \notin StaffOp
    BY <1>6, <2>1 DEF KInv, KnowsRow
  <2>3. /\ row'.status = row.status /\ row'.paid = row.paid /\ row'.online = row.online
    BY <1>6 DEF FinalizeClaim, IInv, StateOK, Row
  <2>4. Others(w) /\ pc'[w] \in {"idle", "finalize.refund"}
        /\ (pc'[w] = "finalize.refund" => call'[w] = call[w])
    BY <1>6, <2>2, GotoFacts, DoneFacts DEF FinalizeClaim, Return, IInv, Others
  <2>5. ASSUME NEW v \in Worker PROVE KnowsRow(v)'
    BY <2>2, <2>4, KSilent, <1>6, <2>3 DEF Silent, KInv, KnowsRow, Others
  <2> QED  BY <2>1, <2>3, <2>5 DEF KInv
<1>7. ASSUME row.status # "DELETED", FinalizeRefund(w) PROVE KInv'
  BY <1>7, DoneFacts, KSilent, KSame
     DEF FinalizeRefund, KInv, KnowsRow, Return, IInv, Silent
<1> QED  BY <1>2, <1>3, <1>4, <1>5, <1>6, <1>7

(* What a row that is not deleted becomes when its status is written *)
LEMMA KStatus ==
    ASSUME KInv, NEW w \in Worker, Others(w),
           row.status = "DELETED" => row'.status = "DELETED",
           row'.paid = row.paid, row'.online = row.online, row'.refunded = row.refunded,
           row'.status \in {"CANCELLED", "CONFIRMED", "DELETED"},
           row.status # "DELETED" /\ row'.status = "CANCELLED" /\ row.paid =>
              \E v \in Worker : pc'[v] \in {"refund.read", "refund.claim"},
           row.status # "DELETED" => \A v \in Worker : KnowsRow(v)'
    PROVE  KInv'
BY DEF KInv

(* The hold is released: it was not paid. *)
LEMMA KReleaseWrite ==
    ASSUME IInv, MInv, KInv, NoCash, Apart, UNCHANGED mix, NEW w \in Worker, ReleaseWrite(w)
    PROVE  KInv'
<1>1. Calm(w) /\ pc[w] = "release.write" /\ Others(w)
  BY CalmSteps DEF Calmly, ReleaseWrite, Calm
<1>2. pc'[w] = "idle"
  BY DoneFacts DEF ReleaseWrite, IInv
<1>3. CASE row' = row
  BY <1>1, <1>2, <1>3, KSilent, KSame DEF Silent
<1>4. CASE row.status = "PENDING_PAYMENT" /\ row' = [row EXCEPT !.status = "CANCELLED"]
  BY <1>4, <1>1, <1>2, KSilent, StaffOnly, KStatus
     DEF IInv, StateOK, Row, KInv, MInv, OpsOK, OpAt, HoldSteps, Finalizers, Silent,
         Calm, KnowsRow, Others, StaffSteps
<1> QED  BY <1>3, <1>4 DEF ReleaseWrite

(* The staff writes what it knows of the row: if that is paid and was not   *)
(* cancelled yet, the cancellation returns it.                              *)
LEMMA KStaffWrite ==
    ASSUME IInv, MInv, KInv, NoCash, Apart, "staffKeep" \notin Ops, UNCHANGED mix,
           NEW w \in Worker, StaffWrite(w)
    PROVE  KInv'
<1>1. Calm(w) /\ pc[w] = "staff.write" /\ Others(w)
  BY CalmSteps DEF Calmly, StaffWrite, Calm
<1>2. pc'[w] \in {"idle", "refund.read"}
  BY DoneFacts, GotoFacts DEF StaffWrite, IInv
<1>3. call[w].op \in {"staffCancel", "staffConfirm"}
  BY <1>1 DEF MInv, OpsOK, OpAt, StaffSteps, StaffOp
<1>4. CASE row' = row
  BY <1>1, <1>2, <1>4, KSilent, KSame DEF Silent
<1>5. ASSUME row' # row PROVE KInv'
  <2>1. row.status # "DELETED" /\ KnowsRow(w)
    BY <1>5 DEF StaffWrite, KInv
  <2>2. row'.status = IF call[w].op = "staffCancel" THEN "CANCELLED" ELSE "CONFIRMED"
    BY <1>3, <1>5 DEF StaffWrite, IInv, StateOK, Row
  <2>3. ASSUME NEW v \in Worker PROVE KnowsRow(v)'
    BY <1>2, KSilent, <1>3, StaffOnly, <1>1
       DEF Silent, MInv, OpsOK, StaffOp, KnowsRow, Others, OpAt, StaffSteps, Applying,
           Finalizers
  <2>4. ASSUME row'.status = "CANCELLED", row.paid
        PROVE  \E v \in Worker : pc'[v] \in {"refund.read", "refund.claim"}
    <3>1. call[w].op = "staffCancel" /\ row.status # "PENDING_PAYMENT"
      BY <2>1, <2>2, <2>4 DEF KInv
    <3>2. call[w].snap.paid /\ call[w].snap.online
      BY <1>1, <2>1, <2>4, <3>1 DEF KnowsRow
    <3>3. CASE call[w].snap.status = "CANCELLED"
      <4>1. row.status = "CANCELLED"
        BY <1>1, <2>1, <3>1, <3>3 DEF KnowsRow
      <4>2. PICK v \in Worker : pc[v] \in {"refund.read", "refund.claim"}
        BY <2>4, <4>1 DEF KInv
      <4> QED  BY <1>1, <4>2 DEF Others
    <3>4. CASE call[w].snap.status # "CANCELLED"
      BY <1>5, <3>1, <3>2, <3>4, GotoFacts DEF StaffWrite, IInv
    <3> QED  BY <3>3, <3>4
  <2> QED  BY <1>1, <2>1, <2>2, <2>3, <2>4, KStatus DEF Calm
<1> QED  BY <1>4, <1>5

(* A confirmed reservation is cancelled: its refund follows. *)
LEMMA KCancel ==
    ASSUME IInv, MInv, KInv, UNCHANGED mix, NEW w \in Worker, Cancel(w) \/ DeleteWrite(w)
    PROVE  KInv'
<1>1. Calm(w) /\ Others(w) /\ pc[w] \in {"cancel", "delete.write"}
  BY CalmSteps DEF Calmly, Cancel, DeleteWrite, Calm
<1>2. pc'[w] \in {"idle", "refund.read"}
  BY DoneFacts, GotoFacts DEF Cancel, DeleteWrite, IInv
<1>3. CASE row' = row
  BY <1>1, <1>2, <1>3, KSilent, KSame DEF Silent
<1>4. CASE DeleteWrite(w)
  BY <1>4 DEF DeleteWrite, IInv, StateOK, Row, KInv
<1>5. ASSUME Cancel(w), row' # row PROVE KInv'
  BY <1>5, GotoFacts, <1>2, KSilent, <1>1, KStatus
     DEF Cancel, IInv, StateOK, Row, Silent, Calm, KInv, KnowsRow, Others
<1> QED  BY <1>3, <1>4, <1>5

(* Saving an intent changes neither status nor payment. *)
LEMMA KStartSave ==
    ASSUME IInv, MInv, KInv, UNCHANGED mix, NEW w \in Worker, StartSave(w)
    PROVE  KInv'
BY StartSaveFacts, KSilent, KSame DEF IInv, StateOK, Row, Silent

(* A refund that is still wanted takes the payment off the row. *)
LEMMA KRefund ==
    ASSUME IInv, MInv, KInv, ~ StripeFaults, NEW w \in Worker, RefundClaim(w) \/ RefundStripe(w)
    PROVE  KInv'
<1>1. CASE RefundStripe(w)
  BY <1>1, DoneFacts, KSilent, KSame DEF RefundStripe, IInv, Silent
<1>2. CASE RefundClaim(w)
  <2>1. pc[w] = "refund.claim"
    BY <1>2 DEF RefundClaim
  <2>2. Succeeded(call[w].intent)
    BY <2>1 DEF MInv, KnownOK
  <2>3. row.intent = call[w].intent
    BY <2>2 DEF Succeeded, IInv, PaidWasHanded, ChargeableOnRow
  <2>4. CASE row.status # "DELETED" /\ row.paid
    <3>1. /\ row' = [row EXCEPT !.paid = FALSE, !.refunded = TRUE]
          /\ Goto(w, "refund.stripe") /\ UNCHANGED call
      BY <1>2, <2>3, <2>4 DEF RefundClaim, KInv
    <3>2. ~ row'.paid /\ row'.status = row.status
      BY <3>1 DEF IInv, StateOK, Row
    <3>3. Others(w) /\ pc'[w] = "refund.stripe"
      BY <3>1, GotoFacts DEF IInv, Others
    <3>4. ASSUME NEW v \in Worker PROVE KnowsRow(v)'
      BY <3>3, KSilent, <2>4, <3>2 DEF Silent, KInv, KnowsRow, Others
    <3> QED  BY <2>4, <3>2, <3>4 DEF KInv
  <2>5. CASE ~ (row.status # "DELETED" /\ row.paid)
    BY <1>2, <2>5, DoneFacts, KSilent, KSame DEF RefundClaim, IInv, Silent
  <2> QED  BY <2>4, <2>5
<1> QED  BY <1>1, <1>2

(* A call that begins knows nothing of the row. *)
LEMMA KBegin ==
    ASSUME IInv, KInv, NEW w \in Worker, Arrive(w) \/ Expire(w) \/ \E i \in Intent : Deliver(w, i)
    PROVE  KInv'
<1>1. PICK op \in Op, step \in {"start.read", "confirm.read", "release.read", "staff.read",
                                "cancel", "manual.read", "receive.read", "finalize.read"},
           i \in Intent \cup {None} :
           Begin(w, op, step, i) /\ (Deliver(w, i) \/ step # "finalize.read")
  BY ArriveFacts
     DEF Arrive, Expire, Deliver, CallStart, CallConfirm, Close, CallStaff, CallCancel,
         CallManualRefund, CallReceive, StaffOp, Op
<1>2. /\ Others(w) /\ pc[w] = "idle" /\ pc'[w] = step /\ call'[w].op = op /\ row' = row
  BY <1>1, BeginFacts DEF IInv
<1>3. step = "finalize.read" => op \notin StaffOp
  BY BeginFacts, <1>1, <1>2 DEF Deliver, IInv, StaffOp
<1> QED  BY <1>2, <1>3, KSilent, KSame DEF Silent

(* No step leaves a cancelled reservation with a deposit nobody returns. *)
LEMMA KNext ==
    /\ IInv /\ MInv /\ KInv /\ NoCash /\ Apart /\ "staffKeep" \notin Ops
    /\ [Next]_vars
    => KInv'
<1> SUFFICES ASSUME IInv, MInv, KInv, NoCash, Apart, "staffKeep" \notin Ops, [Next]_vars
             PROVE  KInv'
  OBVIOUS
<1>1. CASE UNCHANGED vars \/ TimeOut \/ \E i \in Intent : Pay(i)
  BY <1>1 DEF vars, TimeOut, Pay, KInv, KnowsRow
<1>2. ASSUME NEW w \in Worker, Arrive(w) \/ Expire(w) \/ \E i \in Intent : Deliver(w, i)
      PROVE  KInv'
  BY <1>2, KBegin
<1>3. ASSUME NEW w \in Worker, Advance(w) PROVE KInv'
  BY <1>3, AdvanceCases, KReads, KStaffReads, KReleaseWrite, KStaffWrite, KCancel,
     KFinalize, KStartSave, KRefund
     DEF MInv, OpsOK, OpAt, NoCash, RefundUndo, ReceiveRead, ReceiveWrite, Calmly
<1> QED  BY <1>1, <1>2, <1>3 DEF Next

(* When nothing is under way, a cancelled row shows no payment, so what     *)
(* was taken went back.                                                     *)
LEMMA KReturned == SInv /\ KInv => CancelledKeepsNothing
BY DEF SInv, KInv, Succeeded, Returned, CancelledKeepsNothing, Quiet, AllIdle, Captured

(* While no staff edit overlaps a finalizer, a cancelled reservation keeps  *)
(* no deposit, whoever cancels it and whenever the customer pays            *)
(* (releaseUnpaidHold, updateAppointment, refundOnClientCancel).            *)
THEOREM DepositReturningKeepsNothing == Spec => []ReturningKeepsNothing
<1> DEFINE Cond == Ops \cap {"staffKeep", "receive"} = {} /\ Apart /\ ~ StripeFaults
           J == Cond => SInv /\ KInv
<1>1. Init => J
  BY SInit DEF Init, KInv, KnowsRow, NewRow, NoCall
<1>2. IInv /\ MInv /\ J /\ [Next]_vars => J'
  <2> SUFFICES ASSUME IInv, MInv, J, [Next]_vars, Cond' PROVE SInv' /\ KInv'
    OBVIOUS
  <2>1. Cond
    BY MixSame DEF Ops, Apart, Serial, StripeFaults
  <2>2. NoCash /\ "staffKeep" \notin Ops
    BY <2>1 DEF NoCash
  <2> QED  BY <2>1, <2>2, SNext, KNext
<1>3. J => ReturningKeepsNothing
  BY KReturned DEF ReturningKeepsNothing, Apart
<1> HIDE DEF J
<1> QED  BY <1>1, <1>2, <1>3, MInit, MNext, DepositInvariant, PTL DEF Spec

----------------------------------------------------------------------------
(* DInv: what is marked as refunded is about to be *)

(* The calls of such a mix, and where they can be *)
LEMMA DCalls ==
    ASSUME MInv, NeverLate, NEW w \in Worker
    PROVE  /\ call[w].op \in {"none", "start", "staffCancel", "clientCancel", "closeCancel",
                              "manualRefund"}
           /\ pc[w] \notin {"confirm.read", "confirm.retrieve", "receive.read", "receive.write",
                            "delete.write"} \cup HoldSteps
           /\ pc[w] \in PendingSteps => call[w].op \in Finalizers
BY DEF MInv, OpsOK, NeverLate, OpAt, PendingSteps, StartSteps, StaffSteps, Applying,
       Finalizers, StaffOp

(* No other call waits for the payment of the row. *)
LEMMA DAlone ==
    ASSUME MInv, NeverLate, OneAtATime, NEW w \in Worker, call[w].op \in Finalizers,
           NEW v \in Worker \ {w}
    PROVE  pc[v] \notin PendingSteps
BY DCalls, OneFinalizerOnly

(* Steps that leave the row alone *)
LEMMA DSame ==
    ASSUME DInv, NEW w \in Worker, Others(w), row' = row, repaid \subseteq repaid',
           pc'[w] \in PendingSteps => row.status = "PENDING_PAYMENT",
           pc'[w] \notin {"finalize.claim", "finalize.refund"},
           pc[w] \in {"refund.stripe", "refund.undo"} /\ row.refunded =>
              pc'[w] \in {"refund.stripe", "refund.undo"} \/ row.intent \in repaid'
    PROVE  DInv'
BY DEF Others, DInv

(* A call reads the row, or asks Stripe about it. *)
LEMMA DReads ==
    ASSUME IInv, MInv, DInv, NeverLate, UNCHANGED mix, NEW w \in Worker,
           \/ StartRead(w) \/ StartRetrieve(w) \/ StartCreate(w)
           \/ StaffRead(w) \/ SettleRead(w) \/ SettleRetrieve(w) \/ SettleCancel(w)
           \/ StaffReread(w) \/ ManualRead(w) \/ RefundRead(w)
    PROVE  DInv'
<1> USE DEF StartRead, StartRetrieve, StartCreate, StaffRead, SettleRead, SettleRetrieve,
            SettleCancel, StaffReread, ManualRead, RefundRead
<1>1. Calm(w) /\ row' = row
  BY CalmSteps DEF Calmly
<1>2. pc'[w] \in PendingSteps => row.status = "PENDING_PAYMENT"
  BY DoneFacts, UnpaidFacts, GotoFacts DEF IInv, PendingSteps, DInv
<1> QED  BY <1>1, <1>2, DSame DEF Calm, Critical, Refunding

(* The staff, or the customer, cancels while no other call waits for the payment. *)
LEMMA DWrites ==
    ASSUME IInv, MInv, DInv, NeverLate, OneAtATime, UNCHANGED mix, NEW w \in Worker,
           StaffWrite(w) \/ Cancel(w)
    PROVE  DInv'
<1>1. Calm(w) /\ Others(w) /\ repaid' = repaid /\ pc[w] \in {"staff.write", "cancel"}
  BY CalmSteps DEF Calmly, StaffWrite, Cancel, Calm
<1>2. pc'[w] \in {"idle", "refund.read"}
  BY DoneFacts, GotoFacts DEF StaffWrite, Cancel, IInv
<1>3. row' = row \/ row'.status \in {"CANCELLED", "CONFIRMED"}
  BY DEF StaffWrite, Cancel, IInv, StateOK, Row
<1>4. ASSUME row' # row, NEW v \in Worker PROVE pc'[v] \notin PendingSteps
  BY <1>2, <1>1, DAlone, <1>4
     DEF PendingSteps, MInv, OpsOK, OpAt, StaffWrite, StaffSteps, Finalizers, Others,
         Cancel, DInv
<1>5. CASE row' = row
  BY <1>1, <1>2, <1>5, DSame DEF PendingSteps
<1>6. ASSUME row' # row PROVE DInv'
  BY <1>1, <1>3, <1>6, <1>2, <1>4 DEF Calm, DInv, Others
<1> QED  BY <1>5, <1>6

(* The payment is applied to a pending row: it is never late. *)
LEMMA DFinalize ==
    ASSUME IInv, MInv, DInv, NeverLate, OneAtATime, NEW w \in Worker,
           FinalizeRead(w) \/ FinalizeConfirm(w)
    PROVE  DInv'
<1>1. CASE FinalizeRead(w)
  BY <1>1, DSame DEF FinalizeRead, IInv, StateOK, Goto, Others, stripe, DInv, PendingSteps
<1>2. CASE FinalizeConfirm(w)
  <2>1. pc[w] = "finalize.confirm" /\ row.status = "PENDING_PAYMENT" /\ repaid' = repaid
    BY <1>2 DEF FinalizeConfirm, DInv, PendingSteps, stripe
  <2>2. /\ row' = [row EXCEPT !.status = "CONFIRMED", !.paid = TRUE, !.online = TRUE,
                              !.intent = call[w].intent]
        /\ Return(w, "CONFIRMED")
    BY <1>2, <2>1 DEF FinalizeConfirm
  <2>3. row'.status = "CONFIRMED" /\ row'.refunded = row.refunded /\ ~ row'.refunded
    BY <2>1, <2>2 DEF IInv, StateOK, Row, DInv
  <2>4. Others(w) /\ pc'[w] \in {"idle", "staff.reread"}
    BY <2>2, ReturnFacts DEF IInv
  <2>5. \A v \in Worker : pc'[v] \notin PendingSteps
    BY <2>1, <2>4, DCalls, DAlone DEF Others, PendingSteps
  <2> QED  BY <2>3, <2>4, <2>5 DEF DInv, Others
<1> QED  BY <1>1, <1>2

(* The screen saves its intent on a row that was never refunded. *)
LEMMA DStartSave ==
    ASSUME IInv, MInv, DInv, UNCHANGED mix, NEW w \in Worker, StartSave(w)
    PROVE  DInv'
<1>1. /\ row'.status = row.status /\ row'.paid = row.paid /\ row'.refunded = row.refunded
      /\ repaid' = repaid
  BY StartSaveFacts DEF IInv, StateOK, Row
<1>2. Others(w) /\ pc[w] = "start.save" /\ pc'[w] \in {"idle", "start.read"}
  BY StartSaveFacts
<1>3. ~ row.refunded
  BY <1>2 DEF DInv, PendingSteps
<1> QED  BY <1>1, <1>2, <1>3 DEF DInv, Others, PendingSteps

(* The mark of a refund is set by who makes it, and taken back when Stripe refuses. *)
LEMMA DRefund ==
    ASSUME IInv, MInv, DInv, NEW w \in Worker, RefundClaim(w) \/ RefundStripe(w) \/ RefundUndo(w)
    PROVE  DInv'
<1>1. CASE RefundClaim(w)
  <2>1. CASE Done(w) /\ row' = row
    BY <1>1, <2>1, DoneFacts, DSame DEF RefundClaim, stripe, IInv, PendingSteps
  <2>2. CASE /\ row.paid /\ Goto(w, "refund.stripe") /\ UNCHANGED call
             /\ row' = [row EXCEPT !.paid = FALSE, !.refunded = TRUE]
    BY <2>2, GotoFacts DEF IInv, Others, StateOK, Row, DInv, PendingSteps
  <2> QED  BY <1>1, <2>1, <2>2 DEF RefundClaim
<1>2. CASE RefundStripe(w)
  BY <1>2, DoneFacts, GotoFacts, DSame
     DEF RefundStripe, MInv, KnownOK, Succeeded, IInv, PaidWasHanded, ChargeableOnRow,
         Others, PendingSteps
<1>3. CASE RefundUndo(w)
  BY <1>3, DoneFacts, DSame
     DEF RefundUndo, stripe, IInv, DInv, StateOK, Row, Others, PendingSteps
<1> QED  BY <1>1, <1>2, <1>3

(* Where the payment is never late, no step leaves a mark without a refund. *)
LEMMA DNext ==
    IInv /\ MInv /\ DInv /\ NeverLate /\ OneAtATime /\ [Next]_vars => DInv'
<1> SUFFICES ASSUME IInv, MInv, DInv, NeverLate, OneAtATime, [Next]_vars PROVE DInv'
  OBVIOUS
<1>1. CASE UNCHANGED vars \/ TimeOut \/ \E i \in Intent : Pay(i)
  BY <1>1 DEF vars, TimeOut, Pay, stripe, DInv
<1>2. ASSUME NEW w \in Worker, Arrive(w) \/ Expire(w) \/ \E i \in Intent : Deliver(w, i)
      PROVE  DInv'
  <2>1. /\ Others(w) /\ row' = row /\ repaid' = repaid /\ pc[w] = "idle"
        /\ pc'[w] \notin {"finalize.claim", "finalize.refund"} \cup (PendingSteps \ {"finalize.read"})
    BY <1>2, ArriveFacts, BeginFacts DEF IInv, PendingSteps
  <2>2. pc'[w] # "finalize.read"
    <3>1. ~ \E i \in Intent : Deliver(w, i)
      BY DEF Deliver, Begin, MayBegin, NeverLate
    <3>2. \E step \in {"start.read", "confirm.read", "release.read", "staff.read", "cancel",
                       "manual.read", "receive.read"}, op \in Op : Begin(w, op, step, None)
      BY <1>2, <3>1
         DEF Arrive, Expire, CallStart, CallConfirm, Close, CallStaff, CallCancel,
             CallManualRefund, CallReceive, StaffOp, Op
    <3> QED  BY <3>2, BeginFacts DEF IInv
  <2> QED  BY <2>1, <2>2, DSame
<1>3. ASSUME NEW w \in Worker, Advance(w) PROVE DInv'
  BY DCalls, <1>3, AdvanceCases, DReads, DWrites, DFinalize, DStartSave, DRefund
     DEF DInv, FinalizeClaim, FinalizeRefund, ConfirmRead, ConfirmRetrieve, ReceiveRead,
         ReceiveWrite, DeleteWrite, ReleaseRead, ReleaseRetrieve, ReleaseCancel,
         ReleaseWrite, HoldSteps, Calmly
<1> QED  BY <1>1, <1>2, <1>3 DEF Next

(* Stripe may refuse any refund: while the payment is applied only by the   *)
(* screen that resumes it, and never late, a mark of a refund that outlives *)
(* the calls is of money that went back (refundOnlineDeposit).              *)
THEOREM DepositRefundMarkTrue == Spec => []FaultyRefundMarkTrue
<1> DEFINE J == NeverLate /\ OneAtATime => DInv
<1>1. Init => J
  BY DEF Init, DInv, NewRow, PendingSteps
<1>2. IInv /\ MInv /\ J /\ [Next]_vars => J'
  <2> SUFFICES ASSUME IInv, MInv, J, [Next]_vars, NeverLate', OneAtATime' PROVE DInv'
    OBVIOUS
  <2>1. NeverLate /\ OneAtATime
    BY MixSame DEF NeverLate, OneAtATime, Ops, Serial
  <2> QED  BY <2>1, DNext
<1>3. DInv => RefundMarkTrue
  BY DEF DInv, RefundMarkTrue, AllIdle
<1>4. J => FaultyRefundMarkTrue
  BY <1>3 DEF FaultyRefundMarkTrue, NeverLate, OneAtATime
<1> HIDE DEF J
<1> QED  BY <1>1, <1>2, <1>4, MInit, MNext, DepositInvariant, PTL DEF Spec
=============================================================================
