----------------------------- MODULE MCDeposit ------------------------------
(***************************************************************************)
(* Small mixes of calls on the deposit of one reservation: two calls at a  *)
(* time, two PaymentIntents.                                               *)
(***************************************************************************)
EXTENDS Deposit, TLC

CONSTANTS w1, w2, i1, i2

Mix(ops, serial, faults) == [ops |-> ops, serial |-> serial, faults |-> faults]

(* Anything overlaps and Stripe fails at any call.  The four operations left *)
(* out run the code of the others with another outcome (staff edits) or      *)
(* another caller (expire).                                                  *)
Calls == Mix(Op \ {"staffKeep", "closeCancel", "staffConfirm", "expire"}, {}, TRUE)

(* Anything overlaps; no row is deleted and no deposit received in cash. *)
Overlapping == Mix(Op \ {"delete", "receive"}, {}, FALSE)

(* Every operation, one finalizer at a time *)
Serialized == Mix(Op, OneFinalizer, FALSE)

(* Staff edits overlap no finalizer, and no deposit is retained or received *)
(* in cash.                                                                 *)
Returning == Mix(Op \ {"staffKeep", "receive"}, StaffAlone, FALSE)

(* Stripe fails at any call; the payment is applied by the screen that      *)
(* resumes it, and never late.                                              *)
Faulty == Mix({"start", "staffCancel", "clientCancel", "closeCancel", "manualRefund"},
              OneFinalizer, TRUE)

PromiseMixes == {Calls, Overlapping, Serialized, Returning, Faulty}

(* The payment screen and the webhook: one screen and one webhook at a time *)
ScreenAndWebhook ==
    {Mix({"start", "confirm", "webhook"},
         {{"start"}, {"confirm"}, {"webhook"}, {"start", "confirm"}, {"start", "webhook"}},
         FALSE)}

MCSymmetry == Permutations(Worker) \cup Permutations(Intent)
=============================================================================
