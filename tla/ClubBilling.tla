----------------------------- MODULE ClubBilling ----------------------------
(***************************************************************************)
(* The subscriptions of one client to one plan of the club, here and at    *)
(* Stripe: subscribing under the lock of client and plan, pausing the      *)
(* charge while the shop, its network or its owner is blocked, and closing *)
(* the club with the unused part of the cycle given back.                  *)
(*                                                                         *)
(* Stripe is external: its calls answer or fail before doing anything, but *)
(* the transaction around the creation may be lost after it.  Stripe       *)
(* forgets idempotency keys after a day.                                   *)
(***************************************************************************)
EXTENDS Integers, FiniteSets

CONSTANTS
    Worker,     \* concurrent requests
    SubId,      \* subscriptions at Stripe
    Reason,     \* tokens that pause the charge: shop, network, owner
    None,
    CyclePaid   \* amount of the invoice of a cycle

VARIABLES
    row,        \* the rows of ClientSubscription and its payment
    stripe,     \* the subscriptions at Stripe
    key,        \* idempotency keys Stripe remembers: number of the attempt -> subscription
    job,        \* what each request read
    forgotten,  \* history: Stripe forgot a key whose row was lost
    crossed     \* history: two changes of the pause of one row overlapped

vars == <<row, stripe, key, job, forgotten, crossed>>

Row == [status : {"none", "INCOMPLETE", "ACTIVE", "PAST_DUE", "CANCELED"},
        reasons : SUBSET Reason, shopPaused : BOOLEAN, refunded : 0 .. CyclePaid]

Subscription == [live : BOOLEAN, paused : BOOLEAN, returned : Nat]

Job == [op : {"idle", "hold", "release", "pause", "resume", "close", "refund"},
        step : {"stripe", "write"}, sub : SubId \cup {None}, reason : Reason \cup {None},
        seen : Row \cup {None}, amount : 0 .. CyclePaid]

Idle == [op |-> "idle", step |-> "stripe", sub |-> None, reason |-> None, seen |-> None,
         amount |-> 0]

Ends(w) == job' = [job EXCEPT ![w] = Idle]
Attempt == 1 .. Cardinality(SubId)
Billable == {"ACTIVE", "PAST_DUE"}

Init ==
    /\ row = [s \in SubId |-> [status |-> "none", reasons |-> {}, shopPaused |-> FALSE,
                               refunded |-> 0]]
    /\ stripe = [s \in SubId |-> [live |-> FALSE, paused |-> FALSE, returned |-> 0]]
    /\ key = [n \in Attempt |-> None]
    /\ job = [w \in Worker |-> Idle]
    /\ forgotten = FALSE /\ crossed = FALSE

(***************************************************************************)
(* subscribeToPlan                                                         *)
(***************************************************************************)

Rows == {s \in SubId : row[s].status # "none"}
Existing == {s \in Rows : row[s].status \in {"INCOMPLETE", "ACTIVE", "PAST_DUE"}}
Fresh == {s \in SubId : s \notin Rows /\ ~stripe[s].live /\ \A n \in Attempt : key[n] # s}

(* What createSubscription returns for the key of the n-th attempt *)
Keyed(n) == IF key[n] # None THEN {key[n]} ELSE Fresh

(* One step holds the lock.  The row and the cancellation of the unfinished *)
(* one are committed, or lost after Stripe answered.                        *)
SubscribeToPlan ==
    LET n == Cardinality(Rows) + 1 IN
    /\ n \in Attempt
    /\ \A s \in Existing : row[s].status = "INCOMPLETE"
    /\ \E new \in Keyed(n), status \in {"INCOMPLETE", "ACTIVE"}, committed \in BOOLEAN :
         /\ key' = [key EXCEPT ![n] = new]
         /\ stripe' = [s \in SubId |->
                        IF s = new /\ key[n] # new THEN [stripe[s] EXCEPT !.live = TRUE]
                        ELSE IF s \in Existing THEN [stripe[s] EXCEPT !.live = FALSE]
                        ELSE stripe[s]]
         /\ row' = IF committed
                   THEN [s \in SubId |->
                          IF s = new THEN [row[s] EXCEPT !.status = status]
                          ELSE IF s \in Existing THEN [row[s] EXCEPT !.status = "CANCELED"]
                          ELSE row[s]]
                   ELSE row
    /\ UNCHANGED <<job, forgotten, crossed>>

StripeForgetsKey(n) ==
    /\ key[n] # None
    /\ key' = [key EXCEPT ![n] = None]
    /\ forgotten' = (forgotten \/ row[key[n]].status = "none")
    /\ UNCHANGED <<row, stripe, job, crossed>>

(* Events of the subscription: paid, unpaid, ended by Stripe *)
StatusEvent(s) ==
    /\ s \in Existing
    /\ \E status \in {"ACTIVE", "PAST_DUE", "CANCELED"} :
         /\ status # "CANCELED" => stripe[s].live
         /\ row' = [row EXCEPT ![s].status = status]
         /\ stripe' = IF status = "CANCELED" THEN [stripe EXCEPT ![s].live = FALSE] ELSE stripe
    /\ UNCHANGED <<key, job, forgotten, crossed>>

(***************************************************************************)
(* Pausing the charge                                                      *)
(***************************************************************************)

Pausing == {"hold", "release", "pause", "resume"}

(* Which rows the query of each change selects *)
Selected(op, s, reason) ==
    CASE op = "hold"    -> row[s].status \in Billable /\ reason \notin row[s].reasons
      [] op = "release" -> reason \in row[s].reasons
      [] op = "pause"   -> row[s].status \in Billable /\ ~row[s].shopPaused
      [] op = "resume"  -> row[s].shopPaused

PauseReads(w, op, s, reason) ==
    /\ job[w] = Idle /\ op \in Pausing /\ Selected(op, s, reason)
    /\ job' = [job EXCEPT ![w] = [op |-> op, step |-> "stripe", sub |-> s, reason |-> reason,
                                  seen |-> row[s], amount |-> 0]]
    /\ crossed' = (crossed \/ \E v \in Worker : job[v].sub = s)
    /\ UNCHANGED <<row, stripe, key, forgotten>>

MutHeldByOther(j) ==
    CASE j.op = "hold"    -> j.seen.shopPaused \/ j.seen.reasons # {}
      [] j.op = "release" -> j.seen.reasons \ {j.reason} # {}
      [] j.op = "pause"   -> FALSE
      [] j.op = "resume"  -> j.seen.reasons # {}

(* heldBySomeoneElse and stillHeld, on the row as it was read *)
HeldByOther(j) ==
    CASE j.op = "hold"    -> j.seen.shopPaused \/ j.seen.reasons # {}
      [] j.op = "release" -> j.seen.shopPaused \/ j.seen.reasons \ {j.reason} # {}
      [] j.op = "pause"   -> FALSE
      [] j.op = "resume"  -> j.seen.reasons # {}

TellsStripe(j) == ~HeldByOther(j) /\ (j.op \in {"hold", "pause"} \/ j.seen.status \in Billable)

(* Stripe refuses to change a subscription that ended: the row stays as it  *)
(* was, as after any other error.                                           *)
PauseCallsStripe(w) ==
    LET j == job[w] IN
    /\ j.op \in Pausing /\ j.step = "stripe"
    /\ \/ /\ ~TellsStripe(j) \/ stripe[j.sub].live
          /\ job' = [job EXCEPT ![w].step = "write"]
          /\ stripe' = IF TellsStripe(j)
                       THEN [stripe EXCEPT ![j.sub].paused = (j.op \in {"hold", "pause"})]
                       ELSE stripe
       \/ TellsStripe(j) /\ Ends(w) /\ UNCHANGED stripe
    /\ UNCHANGED <<row, key, forgotten, crossed>>

(* The token is appended to what the row holds now; a release writes back   *)
(* the reasons it read, less its own.                                       *)
PauseWrites(w) ==
    LET j == job[w] IN
    /\ j.op \in Pausing /\ j.step = "write"
    /\ row' = [row EXCEPT ![j.sub] =
                 CASE j.op = "hold"    -> [row[j.sub] EXCEPT !.reasons = @ \cup {j.reason}]
                   [] j.op = "release" -> [row[j.sub] EXCEPT !.reasons = j.seen.reasons \ {j.reason}]
                   [] j.op = "pause"   -> [row[j.sub] EXCEPT !.shopPaused = TRUE]
                   [] j.op = "resume"  -> [row[j.sub] EXCEPT !.shopPaused = FALSE]]
    /\ Ends(w)
    /\ UNCHANGED <<stripe, key, forgotten, crossed>>

(***************************************************************************)
(* Closing with the rest of the cycle given back                           *)
(***************************************************************************)

(* unusedClubCycles: some part of what is left of the payment, for a        *)
(* subscription in ACTIVE; nothing otherwise                                *)
Unused(s) == IF row[s].status = "ACTIVE" THEN 0 .. (CyclePaid - row[s].refunded) ELSE {0}

CloseReads(w, s) ==
    /\ job[w] = Idle /\ s \in Existing
    /\ \E amount \in Unused(s) :
         job' = [job EXCEPT ![w] = [Idle EXCEPT !.op = "close", !.sub = s, !.seen = row[s],
                                                !.amount = amount]]
    /\ UNCHANGED <<row, stripe, key, forgotten, crossed>>

(* A subscription that Stripe no longer has counts as cancelled; any other  *)
(* error stops the request. *)
CloseCancels(w) ==
    LET j == job[w] IN
    /\ j.op = "close"
    /\ \/ /\ stripe' = [stripe EXCEPT ![j.sub].live = FALSE]
          /\ row' = [row EXCEPT ![j.sub].status = "CANCELED"]
          /\ job' = [job EXCEPT ![w] = IF j.amount > 0 THEN [j EXCEPT !.op = "refund"] ELSE Idle]
       \/ Ends(w) /\ UNCHANGED <<row, stripe>>
    /\ UNCHANGED <<key, forgotten, crossed>>

(* refundUnusedClubCycle marks the amount before it asks Stripe, on the     *)
(* condition that nobody marked since it was read.                          *)
RefundClaims(w) ==
    LET j == job[w] IN
    /\ j.op = "refund" /\ j.step = "stripe"
    /\ \/ /\ row[j.sub].refunded = j.seen.refunded
          /\ row' = [row EXCEPT ![j.sub].refunded = j.seen.refunded + j.amount]
          /\ job' = [job EXCEPT ![w].step = "write"]
       \/ row[j.sub].refunded # j.seen.refunded /\ Ends(w) /\ UNCHANGED row
    /\ UNCHANGED <<stripe, key, forgotten, crossed>>

RefundAtStripe(w) ==
    LET j == job[w] IN
    /\ j.op = "refund" /\ j.step = "write"
    /\ \/ stripe' = [stripe EXCEPT ![j.sub].returned = @ + j.amount] /\ row' = row
       \/ /\ row' = IF row[j.sub].refunded = j.seen.refunded + j.amount
                    THEN [row EXCEPT ![j.sub].refunded = j.seen.refunded] ELSE row
          /\ UNCHANGED stripe
    /\ Ends(w)
    /\ UNCHANGED <<key, forgotten, crossed>>

Next ==
    \/ SubscribeToPlan
    \/ \E n \in Attempt : StripeForgetsKey(n)
    \/ \E s \in SubId : StatusEvent(s)
    \/ \E w \in Worker :
         \/ PauseCallsStripe(w) \/ PauseWrites(w)
         \/ CloseCancels(w) \/ RefundClaims(w) \/ RefundAtStripe(w)
         \/ \E s \in SubId : \/ CloseReads(w, s)
                             \/ \E op \in {"pause", "resume"} : PauseReads(w, op, s, None)
                             \/ \E op \in {"hold", "release"}, r \in Reason : PauseReads(w, op, s, r)

Spec == Init /\ [][Next]_vars

(***************************************************************************)
(* Properties                                                              *)
(***************************************************************************)

TypeOK ==
    /\ row \in [SubId -> Row]
    /\ stripe \in [SubId -> Subscription]
    /\ key \in [Attempt -> SubId \cup {None}]
    /\ job \in [Worker -> Job]
    /\ forgotten \in BOOLEAN /\ crossed \in BOOLEAN

(* However often the client asks and whatever is lost, Stripe charges one   *)
(* subscription of the plan, unless a lost attempt is repeated after Stripe *)
(* forgot its key (the lock and the key of subscribeToPlan).                *)
OneLiveSubscription == ~forgotten => Cardinality({s \in SubId : stripe[s].live}) <= 1

(* While the changes of the pause do not overlap, a subscription that is    *)
(* being charged is paused at Stripe exactly while somebody holds it        *)
(* (ClubBillingPauseService.apply, setClubBillingPaused).                   *)
PausedWhileHeld ==
    \A s \in SubId :
      (/\ ~crossed /\ stripe[s].live /\ row[s].status \in Billable
       /\ \A w \in Worker : job[w].sub # s)
      => (stripe[s].paused <=> (row[s].reasons # {} \/ row[s].shopPaused))

(* Closing twice gives the rest of a cycle back once: Stripe never returns  *)
(* more than the row says, nor more than was paid (refundUnusedClubCycle).  *)
CycleReturnedOnce ==
    \A s \in SubId : stripe[s].returned <= row[s].refunded
=============================================================================
