---------------------------- MODULE PlatformPlan ----------------------------
(***************************************************************************)
(* The plan of the platform: its renewals, and how it is bought.           *)
(***************************************************************************)
EXTENDS Integers, FiniteSets

CONSTANTS
    Part,      \* the flow that is explored: "renewal", "checkout"
    Worker,    \* runs of the job, of the screen and of the webhook; concurrent requests and
               \* webhook deliveries
    None,
    MaxClock,  \* bound of the time
    MaxTries,  \* bound of the attempts of one period
    Faults,    \* subset of {"crash", "upgrade", "plans"}: what may happen besides; subset of
               \* {"overlap", "ends", "lost"}
    User,
    IntentId,  \* charges at Stripe
    MaxUses    \* maxUses of the coupon

VARIABLES
    clock,
    sub,        \* the Subscription row
    free,       \* 1 when a Free subscription was opened as the plan ended
    rows,       \* Payment rows of renewals, by renewalKey
    charges,    \* what Stripe did for each renewalKey
    upgrades,   \* Payment rows of kind plan_upgrade, by the end of the period
    job,        \* what each run read and where it is
    rewound,    \* history: an upgrade wrote back an end of period that had moved
    plans,      \* how many paid subscriptions of each user are ACTIVE
    used,       \* UserCoupon.usedAt
    usedCount,  \* Coupon.usedCount
    held,       \* CouponReservation of each charge
    intents,    \* the charges
    payments    \* Payment rows: charges that activated a plan

(***************************************************************************)
(* "renewal". The plan of one owner that the platform itself charges: the  *)
(* renewal of a period that is over (daily job, backoffice, new card,      *)
(* webhook), its reconciliation after a crash, the cancellation, the       *)
(* change of plan and the refund by the team. Time is a counter; a period  *)
(* lasts Cycle units. The payment of a period is named by the end of the   *)
(* period before it, which is the prefix of renewalKey. A charge at Stripe *)
(* is named by the same key, since the key is its idempotency key.         *)
(***************************************************************************)

renewalVars == <<clock, sub, free, rows, charges, upgrades, job, rewound>>

Cycle == 2
Grace == 0
Period == {p \in 0 .. MaxClock : p % Cycle = 0}
Key == Period \X (1 .. MaxTries)

Status == {"none", "PENDING", "COMPLETED", "FAILED", "REFUNDED"}
Row == [status : Status, known : BOOLEAN, at : 0 .. MaxClock]
Sub == [active : BOOLEAN, end : Nat, cancel : BOOLEAN, plan : {1, 2},
        pending : {1, None}, failed : BOOLEAN]
RenewalOps == {"idle", "claim", "charge", "finalize", "fail", "reconcile", "expire",
        "upgrade", "record", "switch", "close"}
RenewalJob == [op : RenewalOps, key : Key, end : Nat, daily : BOOLEAN, then : RenewalOps]

NoRow == [status |-> "none", known |-> FALSE, at |-> 0]
RenewalIdle == [op |-> "idle", key |-> <<0, 1>>, end |-> 0, daily |-> FALSE, then |-> "idle"]
RenewalEnds(w) == job' = [job EXCEPT ![w] = RenewalIdle]
Goes(w, op) == job' = [job EXCEPT ![w].op = op]

(* The first period was paid at the checkout. *)
RenewalInit ==
    /\ clock = 0
    /\ sub \in [active : {TRUE}, end : {Cycle}, cancel : {FALSE},
                plan : IF "plans" \in Faults THEN {1, 2} ELSE {1},
                pending : {None}, failed : {FALSE}]
    /\ free = 0
    /\ rows = [k \in Key |-> IF k = <<0, 1>>
                             THEN [status |-> "COMPLETED", known |-> TRUE, at |-> 0] ELSE NoRow]
    /\ charges = [k \in Key |-> IF k = <<0, 1>> THEN "succeeded" ELSE "none"]
    /\ upgrades = [p \in Period |-> "none"]
    /\ job = [w \in Worker |-> RenewalIdle]
    /\ rewound = FALSE

Tick ==
    /\ clock < MaxClock
    /\ clock' = clock + 1
    /\ UNCHANGED <<sub, free, rows, charges, upgrades, job, rewound>>

(***************************************************************************)
(* renewSubscription                                                       *)
(***************************************************************************)

Due == sub.active /\ sub.end <= clock

(* The row, the early returns and the smaller plan that was scheduled *)
RenewReads(w, force) ==
    /\ job[w] = RenewalIdle /\ Due /\ sub.end \in Period
    /\ job' = [job EXCEPT ![w] =
                 [op |-> IF sub.cancel THEN "expire" ELSE "claim", key |-> <<sub.end, 1>>,
                  end |-> sub.end, daily |-> sub.failed /\ ~force, then |-> "idle"]]
    /\ sub' = IF ~sub.cancel /\ sub.pending # None
              THEN [sub EXCEPT !.plan = sub.pending, !.pending = None] ELSE sub
    /\ UNCHANGED <<clock, free, rows, charges, upgrades, rewound>>

Tried(end) == {n \in 1 .. MaxTries : rows[<<end, n>>].status # "none"}

(* Only the attempts that failed count *)
Attempt(end) == Cardinality({n \in Tried(end) : rows[<<end, n>>].status = "FAILED"}) + 1

TriedToday(end) == \E n \in Tried(end) : rows[<<end, n>>].at = clock

(* Creating the payment with its unique key is the claim of the attempt. *)
RenewClaims(w) ==
    LET j == job[w]
        pending == {n \in Tried(j.end) : rows[<<j.end, n>>].status = "PENDING"}
        key == <<j.end, Attempt(j.end)>>
    IN
    /\ j.op = "claim"
    /\ \/ /\ j.then = "idle" /\ pending # {}
          /\ \E n \in pending :
               job' = [job EXCEPT ![w].op = "reconcile", ![w].key = <<j.end, n>>,
                                  ![w].then = "claim"]
          /\ UNCHANGED rows
       \/ /\ j.then = "claim" \/ pending = {}
          /\ \/ /\ j.daily /\ TriedToday(j.end)
                /\ RenewalEnds(w) /\ UNCHANGED rows
             \/ /\ ~(j.daily /\ TriedToday(j.end)) /\ clock - j.end > Grace
                /\ Goes(w, "expire") /\ UNCHANGED rows
             \/ /\ ~(j.daily /\ TriedToday(j.end)) /\ clock - j.end <= Grace
                /\ key \in Key
                /\ IF rows[key].status # "none" THEN RenewalEnds(w) /\ UNCHANGED rows
                   ELSE /\ rows' = [rows EXCEPT ![key] = [status |-> "PENDING", known |-> FALSE,
                                                          at |-> clock]]
                        /\ job' = [job EXCEPT ![w].op = "charge", ![w].key = key,
                                              ![w].then = "idle"]
    /\ UNCHANGED <<clock, sub, free, charges, upgrades, rewound>>

(* No saved card, or the charge off session: its answer may be lost. *)
RenewCharges(w) ==
    LET key == job[w].key IN
    /\ job[w].op = "charge"
    /\ \/ Goes(w, "fail") /\ UNCHANGED <<rows, charges>>
       \/ \E result \in {"succeeded", "processing", "declined"} :
            /\ charges' = [charges EXCEPT ![key] = result]
            /\ \/ /\ rows' = [rows EXCEPT ![key].known = TRUE]
                  /\ CASE result = "succeeded" -> Goes(w, "finalize")
                       [] result = "declined" -> Goes(w, "fail")
                       [] OTHER -> RenewalEnds(w)
               \/ RenewalEnds(w) /\ UNCHANGED rows
    /\ UNCHANGED <<clock, sub, free, upgrades, rewound>>

(* External: a charge that waited for the bank or for the customer ends. *)
BankAnswers(key) ==
    /\ charges[key] = "processing"
    /\ \E result \in {"succeeded", "declined"} : charges' = [charges EXCEPT ![key] = result]
    /\ UNCHANGED <<clock, sub, free, rows, upgrades, job, rewound>>

Charging(key) == \E w \in Worker : job[w].op = "charge" /\ job[w].key = key

(* A payment without the id of its charge is looked up by its key, but only *)
(* an hour later, when the run that created it is no longer charging.       *)
ReconcileRenewalPayment(w) ==
    LET key == job[w].key IN
    /\ job[w].op = "reconcile"
    /\ IF rows[key].status # "PENDING" THEN Goes(w, "claim") /\ UNCHANGED rows
       ELSE IF ~rows[key].known /\ Charging(key) THEN RenewalEnds(w) /\ UNCHANGED rows
       ELSE IF charges[key] = "none" THEN Goes(w, "fail") /\ UNCHANGED rows
       ELSE /\ rows' = [rows EXCEPT ![key].known = TRUE]
            /\ CASE charges[key] = "succeeded" ->
                      job' = [job EXCEPT ![w].op = "finalize", ![w].then = "idle"]
                 [] charges[key] = "processing" -> RenewalEnds(w)
                 [] OTHER -> Goes(w, "fail")
    /\ UNCHANGED <<clock, sub, free, charges, upgrades, rewound>>

(* payment_intent.succeeded with renewalKey, delivered any number of times *)
Webhook(w, key) ==
    /\ job[w] = RenewalIdle /\ charges[key] = "succeeded" /\ rows[key].status # "none"
    /\ job' = [job EXCEPT ![w].op = "finalize", ![w].key = key]
    /\ UNCHANGED <<clock, sub, free, rows, charges, upgrades, rewound>>

MovesPeriod(key) == key[1] + Cycle

(* Only who closes the pending payment moves the end of the period. *)
FinalizeRenewalPayment(w) ==
    LET key == job[w].key IN
    /\ job[w].op = "finalize"
    /\ IF rows[key].status = "PENDING"
       THEN /\ rows' = [rows EXCEPT ![key].status = "COMPLETED"]
            /\ sub' = [sub EXCEPT !.end = MovesPeriod(key), !.failed = FALSE, !.active = TRUE]
       ELSE UNCHANGED <<rows, sub>>
    /\ RenewalEnds(w)
    /\ UNCHANGED <<clock, free, charges, upgrades, rewound>>

(* The status is written whatever it is now. *)
MarkRenewalFailed(w) ==
    /\ job[w].op = "fail"
    /\ rows' = [rows EXCEPT ![job[w].key].status = "FAILED"]
    /\ sub' = [sub EXCEPT !.failed = TRUE]
    /\ IF job[w].then = "claim" THEN Goes(w, "claim") ELSE RenewalEnds(w)
    /\ UNCHANGED <<clock, free, charges, upgrades, rewound>>

(* The plan falls to the free one. *)
ExpireSubscription(w) ==
    /\ job[w].op = "expire"
    /\ sub' = [sub EXCEPT !.active = FALSE]
    /\ free' = 1
    /\ RenewalEnds(w)
    /\ UNCHANGED <<clock, rows, charges, upgrades, rewound>>

Crash(w) ==
    /\ "crash" \in Faults /\ job[w] # RenewalIdle
    /\ RenewalEnds(w)
    /\ UNCHANGED <<clock, sub, free, rows, charges, upgrades, rewound>>

(***************************************************************************)
(* Cancellation and change of plan                                         *)
(***************************************************************************)

Unsubscribe(w) ==
    /\ job[w] = RenewalIdle /\ sub.active /\ ~sub.cancel
    /\ sub' = [sub EXCEPT !.cancel = TRUE, !.pending = None]
    /\ IF sub.end <= clock THEN Goes(w, "expire") ELSE UNCHANGED job
    /\ UNCHANGED <<clock, free, rows, charges, upgrades, rewound>>

(* changePlan to the same plan undoes, to a smaller one schedules. *)
UndoScheduled ==
    /\ "plans" \in Faults
    /\ sub.active /\ (sub.cancel \/ sub.pending # None)
    /\ sub' = [sub EXCEPT !.cancel = FALSE, !.pending = None]
    /\ UNCHANGED <<clock, free, rows, charges, upgrades, job, rewound>>

ScheduleSmaller ==
    /\ "plans" \in Faults
    /\ sub.active /\ sub.plan = 2 /\ sub.end > clock
    /\ sub' = [sub EXCEPT !.pending = 1, !.cancel = FALSE]
    /\ UNCHANGED <<clock, free, rows, charges, upgrades, job, rewound>>

(* A larger plan charges the difference first, under a key of the period. *)
UpgradeReads(w) ==
    /\ "upgrade" \in Faults
    /\ job[w] = RenewalIdle /\ sub.active /\ sub.plan = 1 /\ sub.end > clock /\ sub.end \in Period
    /\ job' = [job EXCEPT ![w].op = "upgrade", ![w].end = sub.end]
    /\ UNCHANGED <<clock, sub, free, rows, charges, upgrades, rewound>>

ChargeUpgrade(w) ==
    /\ job[w].op = "upgrade"
    /\ Goes(w, "record") \/ RenewalEnds(w)
    /\ UNCHANGED <<clock, sub, free, rows, charges, upgrades, rewound>>

UpgradeRecords(w) ==
    LET end == job[w].end IN
    /\ job[w].op = "record"
    /\ upgrades' = IF upgrades[end] = "none" THEN [upgrades EXCEPT ![end] = "COMPLETED"]
                   ELSE upgrades
    /\ Goes(w, "switch")
    /\ UNCHANGED <<clock, sub, free, rows, charges, rewound>>

UpgradeSwitches(w) ==
    /\ job[w].op = "switch"
    /\ sub' = [sub EXCEPT !.plan = 2, !.pending = None, !.cancel = FALSE, !.end = job[w].end]
    /\ rewound' = (rewound \/ sub.end # job[w].end)
    /\ RenewalEnds(w)
    /\ UNCHANGED <<clock, free, rows, charges, upgrades>>

(***************************************************************************)
(* Refund by the team or in the panel of Stripe                            *)
(***************************************************************************)

RefundPlanPayment(w, key) ==
    /\ job[w] = RenewalIdle /\ rows[key].status = "COMPLETED"
    /\ rows' = [rows EXCEPT ![key].status = "REFUNDED"]
    /\ job' = [job EXCEPT ![w].op = "close", ![w].key = key]
    /\ UNCHANGED <<clock, sub, free, charges, upgrades, rewound>>

Settled(status) == status \in {"COMPLETED", "REFUNDED"}

(* The last payment of the subscription, an upgrade included *)
IsLatest(key) ==
    /\ \A k \in Key : Settled(rows[k].status) => k[1] <= key[1]
    /\ \A end \in Period : Settled(upgrades[end]) => end <= key[1]

RefundCloses(w) ==
    /\ job[w].op = "close"
    /\ IF sub.active /\ IsLatest(job[w].key) THEN Goes(w, "expire") ELSE RenewalEnds(w)
    /\ UNCHANGED <<clock, sub, free, rows, charges, upgrades, rewound>>

(* The difference given back returns to the plan of before. *)
RefundUpgrade(end) ==
    /\ upgrades[end] = "COMPLETED"
    /\ upgrades' = [upgrades EXCEPT ![end] = "REFUNDED"]
    /\ sub' = IF sub.active THEN [sub EXCEPT !.plan = 1] ELSE sub
    /\ UNCHANGED <<clock, free, rows, charges, job, rewound>>

RenewalNext ==
    \/ Tick \/ UndoScheduled \/ ScheduleSmaller
    \/ \E key \in Key : BankAnswers(key)
    \/ \E end \in Period : RefundUpgrade(end)
    \/ \E w \in Worker :
         \/ RenewClaims(w) \/ RenewCharges(w) \/ ReconcileRenewalPayment(w)
         \/ FinalizeRenewalPayment(w) \/ MarkRenewalFailed(w) \/ ExpireSubscription(w)
         \/ Crash(w) \/ Unsubscribe(w) \/ RefundCloses(w)
         \/ UpgradeReads(w) \/ ChargeUpgrade(w) \/ UpgradeRecords(w) \/ UpgradeSwitches(w)
         \/ \E force \in BOOLEAN : RenewReads(w, force)
         \/ \E key \in Key : Webhook(w, key) \/ RefundPlanPayment(w, key)

(***************************************************************************)
(* Properties                                                              *)
(***************************************************************************)

RenewalTypeOK ==
    /\ clock \in 0 .. MaxClock /\ free \in {0, 1} /\ rewound \in BOOLEAN
    /\ sub \in Sub
    /\ rows \in [Key -> Row]
    /\ charges \in [Key -> {"none", "processing", "succeeded", "declined"}]
    /\ upgrades \in [Period -> {"none", "COMPLETED", "REFUNDED"}]
    /\ job \in [Worker -> RenewalJob]

(* Whatever runs together, crashes or gets no answer, one period is charged *)
(* at most once: the claim by renewalKey, the count of the attempts that    *)
(* failed and the reconciliation before a new attempt (renewSubscription).  *)
PeriodChargedOnce ==
    \A p \in Period :
      Cardinality({n \in 1 .. MaxTries : charges[<<p, n>>] \in {"succeeded", "processing"}}) <= 1

(* A renewal that is closed as paid has moved the end of the plan past its  *)
(* period, and no further than one period per payment (finalizeRenewal).    *)
PaidRenewalCounts ==
    ~rewound =>
      /\ \A k \in Key : Settled(rows[k].status) => sub.end >= k[1] + Cycle
      /\ \E k \in Key : Settled(rows[k].status) /\ sub.end = k[1] + Cycle

(* "Dinheiro devolvido nao deixa o plano valendo": when the payment of the  *)
(* current period was given back and nobody is still working on it, the     *)
(* plan is no longer active (staffRefundPlanPayment).                       *)
RefundEndsPlan ==
    \A k \in Key :
      (/\ rows[k].status = "REFUNDED" /\ sub.end = k[1] + Cycle
       /\ \A w \in Worker : job[w] = RenewalIdle) => ~sub.active

(***************************************************************************)
(* "checkout". Buying a plan with one discount coupon: the charge of the   *)
(* checkout, the reservation of a use of the coupon for it, the payment,   *)
(* and the activation of the plan by the screen and by the webhook. A      *)
(* reservation is "live" until its deadline and "late" after it. The       *)
(* coupon either lowers the price or covers it, and then nothing is        *)
(* charged. The value of the discount is left out.                         *)
(***************************************************************************)

checkoutVars == <<plans, used, usedCount, held, intents, payments, job>>

Intent == [state : {"none", "open", "succeeded", "canceled"}, owner : User \cup {None},
           coupon : BOOLEAN, refunded : BOOLEAN, seen : BOOLEAN]
CheckoutOps == {"idle", "create", "reserve", "cancel", "activate", "commit", "refund"}
CheckoutJob == [op : CheckoutOps, user : User \cup {None}, coupon : BOOLEAN, intent : IntentId \cup {None},
        old : SUBSET IntentId]

NoIntent == [state |-> "none", owner |-> None, coupon |-> FALSE, refunded |-> FALSE,
             seen |-> FALSE]
CheckoutIdle == [op |-> "idle", user |-> None, coupon |-> FALSE, intent |-> None, old |-> {}]
CheckoutEnds(w) == job' = [job EXCEPT ![w] = CheckoutIdle]

CheckoutInit ==
    /\ plans = [u \in User |-> 0]
    /\ used = [u \in User |-> FALSE]
    /\ usedCount = 0
    /\ held = [i \in IntentId |-> "none"]
    /\ intents = [i \in IntentId |-> NoIntent]
    /\ payments = {}
    /\ job = [w \in Worker |-> CheckoutIdle]

(***************************************************************************)
(* The coupon                                                              *)
(***************************************************************************)

HeldByOthers(u) == {i \in IntentId : held[i] = "live" /\ intents[i].owner # u}

Sold(u) == usedCount + Cardinality(HeldByOthers(u)) >= MaxUses

(* validateCoupon *)
Valid(u) == ~used[u] /\ ~Sold(u)

ReservationExpires(i) ==
    /\ held[i] = "live"
    /\ held' = [held EXCEPT ![i] = "late"]
    /\ UNCHANGED <<plans, used, usedCount, intents, payments, job>>

(***************************************************************************)
(* createPaymentIntentForCheckout                                          *)
(***************************************************************************)

Blocks(u) == plans[u] > 0

(* A coupon that covers the price goes straight to the activation. *)
CheckoutReads(w, u, coupon, covers) ==
    /\ job[w] = CheckoutIdle /\ ~Blocks(u)
    /\ coupon => Valid(u)
    /\ covers => coupon
    /\ job' = [job EXCEPT ![w].op = IF covers THEN "activate" ELSE "create",
                          ![w].user = u, ![w].coupon = coupon]
    /\ UNCHANGED <<plans, used, usedCount, held, intents, payments>>

CreatesIntent(w) ==
    /\ job[w].op = "create"
    /\ \E i \in IntentId :
         /\ intents[i] = NoIntent
         /\ intents' = [intents EXCEPT ![i].state = "open", ![i].owner = job[w].user,
                                       ![i].coupon = job[w].coupon]
         /\ IF job[w].coupon
            THEN job' = [job EXCEPT ![w].op = "reserve", ![w].intent = i]
            ELSE CheckoutEnds(w)
    /\ UNCHANGED <<plans, used, usedCount, held, payments>>

(* Under the lock of the coupon; the earlier reservations of the same       *)
(* person give way.  Without a use left the new charge is canceled.         *)
Reserve(w) ==
    LET i == job[w].intent
        u == job[w].user
        old == {k \in IntentId : held[k] # "none" /\ intents[k].owner = u}
    IN
    /\ job[w].op = "reserve"
    /\ IF used[u] \/ Sold(u)
       THEN /\ job' = [job EXCEPT ![w].op = "cancel", ![w].old = {i}]
            /\ UNCHANGED held
       ELSE /\ held' = [k \in IntentId |->
                          IF k = i THEN "live" ELSE IF k \in old THEN "none" ELSE held[k]]
            /\ job' = [job EXCEPT ![w].op = "cancel", ![w].old = old]
    /\ UNCHANGED <<plans, used, usedCount, intents, payments>>

(* Stripe cancels only what was not paid; an error is only logged. *)
CancelsOld(w) ==
    /\ job[w].op = "cancel"
    /\ \E gone \in {job[w].old} \cup (IF "lost" \in Faults THEN {{}} ELSE {}) :
         intents' = [i \in IntentId |->
                       IF i \in gone /\ intents[i].state = "open"
                       THEN [intents[i] EXCEPT !.state = "canceled"] ELSE intents[i]]
    /\ CheckoutEnds(w)
    /\ UNCHANGED <<plans, used, usedCount, held, payments>>

(* External: the customer pays on the form of Stripe, once the request that *)
(* created the charge has returned its secret.                              *)
Pays(i) ==
    /\ intents[i].state = "open"
    /\ \A w \in Worker : job[w].op \in {"reserve", "cancel"} => job[w].intent # i
    /\ intents' = [intents EXCEPT ![i].state = "succeeded"]
    /\ UNCHANGED <<plans, used, usedCount, held, payments, job>>

(***************************************************************************)
(* confirmPaymentIntent, createSubscriptionAfterPayment                    *)
(***************************************************************************)

(* The screen and the webhook confirm the same payment, any number of times *)
Confirm(w, i) ==
    /\ job[w] = CheckoutIdle /\ intents[i].state = "succeeded"
    /\ job' = [job EXCEPT ![w].op = "activate", ![w].user = intents[i].owner,
                          ![w].coupon = intents[i].coupon, ![w].intent = i]
    /\ UNCHANGED <<plans, used, usedCount, held, intents, payments>>

(* A transaction of the same charge waits for this one; with "overlap" the  *)
(* transactions of two charges of one user may run together.                *)
InTransaction(i, u) ==
    \E v \in Worker : /\ job[v].op = "commit"
                      /\ \/ i # None /\ job[v].intent = i
                         \/ "overlap" \notin Faults /\ job[v].user = u

ActivateReads(w) ==
    LET i == job[w].intent
        u == job[w].user
    IN
    /\ job[w].op = "activate" /\ ~InTransaction(i, u)
    /\ IF i \in payments THEN CheckoutEnds(w)
       ELSE IF Blocks(u) THEN IF i = None THEN CheckoutEnds(w) ELSE Goes(w, "refund")
       ELSE Goes(w, "commit")
    /\ UNCHANGED <<plans, used, usedCount, held, intents, payments>>

MutReservationOk(i) == TRUE

(* A charge needs its own reservation, live or late. *)
ReservationOk(i) == held[i] # "none"

(* claimUse: a live reservation was already counted in the limit. *)
ClaimOk(i, u) ==
    /\ i # None => ReservationOk(i)
    /\ (i # None /\ held[i] = "live") \/ ~Sold(u)
    /\ ~used[u]

(* The use of the coupon, the end of the earlier subscriptions it can see,  *)
(* the new one and its payment, committed together.                         *)
ActivateCommits(w) ==
    LET i == job[w].intent
        u == job[w].user
    IN
    /\ job[w].op = "commit"
    /\ held' = IF i # None /\ job[w].coupon THEN [held EXCEPT ![i] = "none"] ELSE held
    /\ IF job[w].coupon /\ ~ClaimOk(i, u)
       THEN /\ IF i = None THEN CheckoutEnds(w) ELSE Goes(w, "refund")
            /\ UNCHANGED <<plans, used, usedCount, intents, payments>>
       ELSE /\ used' = [used EXCEPT ![u] = @ \/ job[w].coupon]
            /\ usedCount' = IF job[w].coupon THEN usedCount + 1 ELSE usedCount
            /\ \E n \in {1, plans[u] + 1} : plans' = [plans EXCEPT ![u] = n]
            /\ payments' = payments \cup ({i} \ {None})
            /\ intents' = IF i = None THEN intents ELSE [intents EXCEPT ![i].seen = TRUE]
            /\ CheckoutEnds(w)

(* The charge that activated nothing is given back; an error is only logged *)
Refund(w) ==
    LET i == job[w].intent IN
    /\ job[w].op = "refund"
    /\ \/ intents' = [intents EXCEPT ![i].refunded = TRUE, ![i].seen = TRUE]
       \/ "lost" \in Faults /\ UNCHANGED intents
    /\ CheckoutEnds(w)
    /\ UNCHANGED <<plans, used, usedCount, held, payments>>

(* The paid period ends and the plan falls to the free one. *)
PlanEnds(u) ==
    /\ "ends" \in Faults /\ plans[u] > 0
    /\ plans' = [plans EXCEPT ![u] = 0]
    /\ UNCHANGED <<used, usedCount, held, intents, payments, job>>

CheckoutNext ==
    \/ \E i \in IntentId : ReservationExpires(i) \/ Pays(i)
    \/ \E u \in User : PlanEnds(u)
    \/ \E w \in Worker :
         \/ CreatesIntent(w) \/ Reserve(w) \/ CancelsOld(w)
         \/ ActivateReads(w) \/ ActivateCommits(w) \/ Refund(w)
         \/ \E i \in IntentId : Confirm(w, i)
         \/ \E u \in User, coupon, covers \in BOOLEAN : CheckoutReads(w, u, coupon, covers)

(***************************************************************************)
(* Properties                                                              *)
(***************************************************************************)

CheckoutTypeOK ==
    /\ plans \in [User -> Nat]
    /\ used \in [User -> BOOLEAN]
    /\ usedCount \in Nat
    /\ held \in [IntentId -> {"none", "live", "late"}]
    /\ intents \in [IntentId -> Intent]
    /\ payments \subseteq IntentId
    /\ job \in [Worker -> CheckoutJob]

(* However checkouts, deadlines and payments interleave, the coupon is used *)
(* at most maxUses times and once per user (reserve, claimUse).             *)
CouponWithinLimit ==
    /\ usedCount <= MaxUses
    /\ usedCount = Cardinality({u \in User : used[u]})

(* A payment that was treated and on which nobody works either activated a  *)
(* plan or was given back, never both, and a discounted plan without a use  *)
(* of the coupon does not exist (createSubscriptionAfterPayment).           *)
CheckoutSettled ==
    \A i \in IntentId :
      /\ i \in payments => ~intents[i].refunded
      /\ (i \in payments /\ intents[i].coupon) => used[intents[i].owner]
      /\ (intents[i].seen /\ ~intents[i].refunded) => i \in payments

(* While the transactions of one user do not overlap, nobody has two paid   *)
(* plans at once (blocksNewCheckout inside the transaction).                *)
OnePaidPlan == \A u \in User : plans[u] <= 1

(***************************************************************************)
(* The component: one part at a time. The other parts have no state then.  *)
(***************************************************************************)

vars == 
    <<clock, sub, free, rows, charges, upgrades, job, rewound, plans, used, usedCount,
      held, intents, payments>>

Init ==
    \/ /\ Part = "renewal" /\ RenewalInit
          /\ plans = None /\ used = None /\ usedCount = None /\ held = None /\ intents = None
          /\ payments = None
    \/ /\ Part = "checkout" /\ CheckoutInit
          /\ clock = None /\ sub = None /\ free = None /\ rows = None /\ charges = None
          /\ upgrades = None /\ rewound = None

Next ==
    \/ Part = "renewal" /\ RenewalNext /\ UNCHANGED <<plans, used, usedCount, held, intents, payments>>
    \/ Part = "checkout" /\ CheckoutNext /\ UNCHANGED <<clock, sub, free, rows, charges, upgrades, rewound>>

Spec == Init /\ [][Next]_vars

TypeOK ==
    /\ Part = "renewal" => RenewalTypeOK
    /\ Part = "checkout" => CheckoutTypeOK
=============================================================================
