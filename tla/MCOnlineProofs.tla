---------------------------- MODULE MCOnlineProofs ---------------------------
(***************************************************************************)
(* The invariants of MCOnline, for any finite number of requests and rows. *)
(* A behaviour of MCOnline is a behaviour of one subject, so each          *)
(* invariant follows from the theorems of OnlineProofs about the component *)
(* of that subject, with its parameters.                                   *)
(***************************************************************************)
EXTENDS MCOnline, FiniteSetTheorems, TLAPS

(* The constants and the variables of the components that a subject is not *)
(* about.                                                                  *)
CONSTANTS
    IntentId, Prices, Faults, Inviter, Friend, InviteId, MaxRewards, Part,
    ShopId, RowId, Limit, LastMonth, Overlap, UserId, MaxMonths, NewFor,
    MaxTime, PlanPart, MaxClock, MaxTries, PlanFaults, User, PlanIntentId,
    MaxUses

VARIABLES
    appt, intent, keys, price, news, heard, job, registered, invites,
    FriendsPaid, rowLock, FriendsJob, month, shop, pro, row, SoloLate, req,
    now, proUntil, created, same, referral, served, used, clock, sub,
    PlanFree, rows, charges, upgrades, PlanJob, rewound, plans, PlanUsed,
    usedCount, held, intents, payments

(* The subject of a behaviour does not change. *)
LEMMA SubjectKept == [MCNext]_mcVars => UNCHANGED subject
BY DEF MCNext, mcVars

LEMMA FewRows ==
    /\ IsFiniteSet({"i1", "i2"}) /\ IsFiniteSet({1, 2, 3})
<1>1. IsFiniteSet({"i1"}) /\ IsFiniteSet({1}) /\ IsFiniteSet({1, 2})
  <2>1. IsFiniteSet({"i1"}) /\ IsFiniteSet({1})
    BY FS_Singleton
  <2>2. IsFiniteSet({1} \cup {2})
    BY <2>1, FS_AddElement
  <2> QED  BY <2>1, <2>2
<1>2. IsFiniteSet({"i1"} \cup {"i2"}) /\ IsFiniteSet({1, 2} \cup {3})
  BY <1>1, FS_AddElement
<1>3. {"i1"} \cup {"i2"} = {"i1", "i2"} /\ {1, 2} \cup {3} = {1, 2, 3}
  OBVIOUS
<1> QED  BY <1>2, <1>3

(* A behaviour is about one of the subjects. *)
Subjects ==
    {"prepaid", "bill", "overlapBill", "panel", "renewal", "change", "refund", "coupon",
     "checkout", "invites", "proReferral", "solo", "soloRace"}

LEMMA OneSubject == MCSpec => [](subject \in Subjects)
<1> DEFINE In == subject \in Subjects
<1>1. MCInit => In
  BY DEF MCInit, Subjects
<1>2. In /\ [MCNext]_mcVars => In'
  BY SubjectKept DEF Subjects
<1> HIDE DEF In
<1>3. MCSpec => []In
  BY <1>1, <1>2, PTL DEF MCSpec
<1> QED  BY <1>3 DEF In

(* What the components promise, subject by subject. *)
PromisedByPrepayment ==
    /\ subject = "prepaid" => Prepaid!TypeOK /\ Prepaid!ChargedOnce /\ Prepaid!RefundsAgree
    /\ subject = "bill" =>
         Bill!TypeOK /\ Bill!ChargedOnce /\ Bill!PrepaymentSettled /\ Bill!RefundsAgree
    /\ subject = "overlapBill" => OverlapBill!TypeOK /\ OverlapBill!ChargedOnce
    /\ subject = "panel" => Panel!TypeOK /\ Panel!RefundsAgree

PromisedByPlan ==
    /\ subject = "renewal" =>
         Renew!TypeOK /\ Renew!PeriodChargedOnce /\ Renew!PaidRenewalCounts
    /\ subject = "change" =>
         Change!TypeOK /\ Change!PeriodChargedOnce /\ Change!PaidRenewalCounts
    /\ subject = "refund" => Refund!TypeOK /\ Refund!RefundEndsPlan
    /\ subject = "coupon" =>
         Coupon!TypeOK /\ Coupon!CheckoutSettled /\ Coupon!CouponWithinLimit
    /\ subject = "checkout" => Buy!TypeOK /\ Buy!CheckoutSettled /\ Buy!OnePaidPlan

PromisedByOthers ==
    /\ subject = "invites" =>
         Friends!TypeOK /\ Friends!FriendRewardedOnce /\ Friends!RewardsWithinLimit
    /\ subject = "proReferral" =>
         ProMonths!TypeOK /\ ProMonths!MonthsAddUp /\ ProMonths!ReferralsHonest
    /\ subject = "solo" =>
         SoloAgenda!TypeOK /\ SoloAgenda!OneSoloAgenda /\ SoloAgenda!QuotaHolds
    /\ subject = "soloRace" =>
         SoloRace!TypeOK /\ SoloRace!OneSoloAgenda /\ SoloRace!QuotaHolds

Promised == PromisedByPrepayment /\ PromisedByPlan /\ PromisedByOthers

LEMMA PromisedTypes == subject \in Subjects /\ Promised => TypesOK
<1>1. subject = "prepaid" /\ Promised => TypesOK
  BY DEF Promised, PromisedByPrepayment, PromisedByPlan, PromisedByOthers, TypesOK
<1>2. subject = "bill" /\ Promised => TypesOK
  BY DEF Promised, PromisedByPrepayment, PromisedByPlan, PromisedByOthers, TypesOK
<1>3. subject = "overlapBill" /\ Promised => TypesOK
  BY DEF Promised, PromisedByPrepayment, PromisedByPlan, PromisedByOthers, TypesOK
<1>4. subject = "panel" /\ Promised => TypesOK
  BY DEF Promised, PromisedByPrepayment, PromisedByPlan, PromisedByOthers, TypesOK
<1>5. subject = "renewal" /\ Promised => TypesOK
  BY DEF Promised, PromisedByPrepayment, PromisedByPlan, PromisedByOthers, TypesOK
<1>6. subject = "change" /\ Promised => TypesOK
  BY DEF Promised, PromisedByPrepayment, PromisedByPlan, PromisedByOthers, TypesOK
<1>7. subject = "refund" /\ Promised => TypesOK
  BY DEF Promised, PromisedByPrepayment, PromisedByPlan, PromisedByOthers, TypesOK
<1>8. subject = "coupon" /\ Promised => TypesOK
  BY DEF Promised, PromisedByPrepayment, PromisedByPlan, PromisedByOthers, TypesOK
<1>9. subject = "checkout" /\ Promised => TypesOK
  BY DEF Promised, PromisedByPrepayment, PromisedByPlan, PromisedByOthers, TypesOK
<1>10. subject = "invites" /\ Promised => TypesOK
  BY DEF Promised, PromisedByPrepayment, PromisedByPlan, PromisedByOthers, TypesOK
<1>11. subject = "proReferral" /\ Promised => TypesOK
  BY DEF Promised, PromisedByPrepayment, PromisedByPlan, PromisedByOthers, TypesOK
<1>12. subject = "solo" /\ Promised => TypesOK
  BY DEF Promised, PromisedByPrepayment, PromisedByPlan, PromisedByOthers, TypesOK
<1>13. subject = "soloRace" /\ Promised => TypesOK
  BY DEF Promised, PromisedByPrepayment, PromisedByPlan, PromisedByOthers, TypesOK
<1> QED  BY <1>1, <1>2, <1>3, <1>4, <1>5, <1>6, <1>7, <1>8, <1>9, <1>10, <1>11, <1>12,
            <1>13 DEF Subjects

LEMMA PromisedMoneyTakenOnce == Promised => MoneyTakenOnce
BY DEF Promised, PromisedByPrepayment, PromisedByPlan, PromisedByOthers, MoneyTakenOnce

LEMMA PromisedGrantsBacked == Promised => GrantsBacked
BY DEF Promised, PromisedByPrepayment, PromisedByPlan, PromisedByOthers, GrantsBacked

LEMMA PromisedRewardsWithinLimits == Promised => RewardsWithinLimits
BY DEF Promised, PromisedByPrepayment, PromisedByPlan, PromisedByOthers, RewardsWithinLimits

----------------------------------------------------------------------------
(* The proofs of OnlineProofs, for the parameters of coupon, prepaid, solo. *)
Online1 == INSTANCE OnlineProofs WITH
    PlanPart <- "checkout", User <- Two, PlanIntentId <- Three, MaxUses <- 1,
    PlanFaults <- {"lost", "overlap"}, MaxClock <- None, MaxTries <- None, clock <- v1,
    sub <- v2, PlanFree <- v3, rows <- v4, charges <- v5, upgrades <- v6, PlanJob <- v7,
    rewound <- v8, plans <- v9, PlanUsed <- v10, usedCount <- v11, held <- v12,
    intents <- v13, payments <- v14, IntentId <- Two, Prices <- {1, 2},
    Faults <- {"overlap"}, appt <- v1, intent <- v2, keys <- v3, price <- v4, news <- v5,
    heard <- v6, job <- v7, Part <- "agenda", ShopId <- {1, 2}, RowId <- Three, Limit <- 1,
    LastMonth <- 1, Overlap <- FALSE, UserId <- None, MaxMonths <- None, NewFor <- None,
    MaxTime <- None, month <- v1, shop <- v2, pro <- v3, row <- v4, SoloLate <- v5,
    req <- v6, now <- v7, proUntil <- v8, created <- v9, same <- v10, referral <- v11,
    served <- v12, used <- v13

(* "coupon" *)

LEMMA CouponSame ==
    /\ Online1!Plan!Init = Coupon!Init
    /\ Online1!Plan!Next = Coupon!Next
    /\ Online1!Plan!vars = Coupon!vars
    /\ Online1!Plan!TypeOK = Coupon!TypeOK
    /\ Online1!Plan!CheckoutSettled = Coupon!CheckoutSettled
    /\ Online1!Plan!CouponWithinLimit = Coupon!CouponWithinLimit
<1>1. /\ Online1!Plan!Init = Coupon!Init
      /\ Online1!Plan!vars = Coupon!vars
  BY DEF Online1!Plan!Init, Online1!Plan!vars, Online1!Plan!CheckoutInit,
         Online1!Plan!NoIntent, Online1!Plan!CheckoutIdle, Coupon!Init, Coupon!vars,
         Coupon!CheckoutInit, Coupon!NoIntent, Coupon!CheckoutIdle
<1>2. Online1!Plan!Next = Coupon!Next
  BY DEF Online1!Plan!Next, Online1!Plan!CheckoutNext, Online1!Plan!ReservationExpires,
         Online1!Plan!Pays, Online1!Plan!PlanEnds, Online1!Plan!CreatesIntent,
         Online1!Plan!Reserve, Online1!Plan!CancelsOld, Online1!Plan!ActivateReads,
         Online1!Plan!ActivateCommits, Online1!Plan!Refund, Online1!Plan!Confirm,
         Online1!Plan!CheckoutReads, Online1!Plan!NoIntent, Online1!Plan!CheckoutEnds,
         Online1!Plan!Sold, Online1!Plan!InTransaction, Online1!Plan!Blocks,
         Online1!Plan!Goes, Online1!Plan!ClaimOk, Online1!Plan!CheckoutIdle,
         Online1!Plan!Valid, Online1!Plan!Cardinality, Online1!Plan!HeldByOthers,
         Online1!Plan!ReservationOk, Coupon!Next, Coupon!CheckoutNext,
         Coupon!ReservationExpires, Coupon!Pays, Coupon!PlanEnds, Coupon!CreatesIntent,
         Coupon!Reserve, Coupon!CancelsOld, Coupon!ActivateReads, Coupon!ActivateCommits,
         Coupon!Refund, Coupon!Confirm, Coupon!CheckoutReads, Coupon!NoIntent,
         Coupon!CheckoutEnds, Coupon!Sold, Coupon!InTransaction, Coupon!Blocks, Coupon!Goes,
         Coupon!ClaimOk, Coupon!CheckoutIdle, Coupon!Valid, Coupon!Cardinality,
         Coupon!HeldByOthers, Coupon!ReservationOk
<1>3. /\ Online1!Plan!TypeOK = Coupon!TypeOK
      /\ Online1!Plan!CheckoutSettled = Coupon!CheckoutSettled
      /\ Online1!Plan!CouponWithinLimit = Coupon!CouponWithinLimit
  BY DEF Online1!Plan!TypeOK, Online1!Plan!CheckoutSettled, Online1!Plan!CouponWithinLimit,
         Online1!Plan!CheckoutTypeOK, Online1!Plan!Cardinality, Online1!Plan!Intent,
         Online1!Plan!CheckoutJob, Online1!Plan!CheckoutOps, Coupon!TypeOK,
         Coupon!CheckoutSettled, Coupon!CouponWithinLimit, Coupon!CheckoutTypeOK,
         Coupon!Cardinality, Coupon!Intent, Coupon!CheckoutJob, Coupon!CheckoutOps
<1> QED  BY <1>1, <1>2, <1>3

LEMMA CouponSafe ==
    MCSpec => [](subject = "coupon" => 
                 Coupon!TypeOK /\ Coupon!CheckoutSettled /\
                 Coupon!CouponWithinLimit)
<1> DEFINE Is == subject = "coupon"
<1>1. Online1!OfCheckout /\ "ends" \notin {"lost", "overlap"}
  <2>1. Online1!OfCheckout
    BY FewRows, Named DEF Online1!OfCheckout, Online1!IsFiniteSet, IsFiniteSet
  <2>2. "ends" \notin {"lost", "overlap"}
    OBVIOUS
  <2> QED  BY <2>1, <2>2
<1>2. Online1!Plan!Spec => [](Online1!Plan!TypeOK /\ Online1!Plan!CheckoutSettled /\ Online1!Plan!CouponWithinLimit)
  BY <1>1, Online1!PlanCheckoutTypes, Online1!PlanPaymentsSettled, Online1!PlanCouponWithinLimit, PTL
<1>3. MCInit /\ Is => Online1!Plan!Init
  BY CouponSame DEF MCInit
<1>4. Is /\ [MCNext]_mcVars => [Online1!Plan!Next]_(Online1!Plan!vars)
  <2>1. Is /\ MCNext => Online1!Plan!Next
    BY CouponSame DEF MCNext
  <2> QED  BY <2>1 DEF mcVars, Online1!Plan!vars
<1>5. (Is /\ [MCNext]_mcVars => Is') /\ (~ Is /\ [MCNext]_mcVars => ~ Is')
  BY SubjectKept
<1>6. Online1!Plan!TypeOK /\ Online1!Plan!CheckoutSettled /\ Online1!Plan!CouponWithinLimit => Coupon!TypeOK /\ Coupon!CheckoutSettled /\ Coupon!CouponWithinLimit
  BY CouponSame
<1> HIDE DEF Is
<1>7. MCSpec => [](Is => Coupon!TypeOK /\ Coupon!CheckoutSettled /\ Coupon!CouponWithinLimit)
  BY <1>2, <1>3, <1>4, <1>5, <1>6, PTL DEF MCSpec, Online1!Plan!Spec
<1> QED  BY <1>7 DEF Is

----------------------------------------------------------------------------
(* "prepaid" *)

LEMMA PrepaidSame ==
    /\ Online1!Init = Prepaid!Init
    /\ Online1!Next = Prepaid!Next
    /\ Online1!vars = Prepaid!vars
    /\ Online1!TypeOK = Prepaid!TypeOK
    /\ Online1!ChargedOnce = Prepaid!ChargedOnce
    /\ Online1!RefundsAgree = Prepaid!RefundsAgree
<1>1. /\ Online1!Init = Prepaid!Init
      /\ Online1!vars = Prepaid!vars
  BY DEF Online1!Init, Online1!vars, Online1!Idle, Prepaid!Init, Prepaid!vars, Prepaid!Idle
<1>2. Online1!Next = Prepaid!Next
  BY DEF Online1!Next, Online1!StartReads, Online1!StartEnds, Online1!Finalize,
         Online1!RefundReads, Online1!RefundClaims, Online1!RefundCalls,
         Online1!RefundReverts, Online1!SyncWrites, Online1!CancelReads,
         Online1!CancelWrites, Online1!SaleReads, Online1!SaleCommits,
         Online1!FinalizeReads, Online1!SyncReads, Online1!CustomerPays,
         Online1!PanelRefund, Online1!UpdateServices, Online1!CompleteAppointment,
         Online1!DeleteSale, Online1!Free, Online1!Payable, Online1!Doing, Online1!Ends,
         Online1!Cancelled, Online1!Saves, Online1!Late, Online1!Recorded,
         Online1!RefundExtra, Online1!Remaining, Online1!Claims, Online1!Left,
         Online1!Returns, Online1!Synced, Online1!Returned, Online1!Idle, Prepaid!Next,
         Prepaid!StartReads, Prepaid!StartEnds, Prepaid!Finalize, Prepaid!RefundReads,
         Prepaid!RefundClaims, Prepaid!RefundCalls, Prepaid!RefundReverts,
         Prepaid!SyncWrites, Prepaid!CancelReads, Prepaid!CancelWrites, Prepaid!SaleReads,
         Prepaid!SaleCommits, Prepaid!FinalizeReads, Prepaid!SyncReads,
         Prepaid!CustomerPays, Prepaid!PanelRefund, Prepaid!UpdateServices,
         Prepaid!CompleteAppointment, Prepaid!DeleteSale, Prepaid!Free, Prepaid!Payable,
         Prepaid!Doing, Prepaid!Ends, Prepaid!Cancelled, Prepaid!Saves, Prepaid!Late,
         Prepaid!Recorded, Prepaid!RefundExtra, Prepaid!Remaining, Prepaid!Claims,
         Prepaid!Left, Prepaid!Returns, Prepaid!Synced, Prepaid!Returned, Prepaid!Idle
<1>3. /\ Online1!TypeOK = Prepaid!TypeOK
      /\ Online1!ChargedOnce = Prepaid!ChargedOnce
      /\ Online1!RefundsAgree = Prepaid!RefundsAgree
  BY DEF Online1!TypeOK, Online1!ChargedOnce, Online1!RefundsAgree, Online1!Appointment,
         Online1!Intent, Online1!Job, Online1!Money, Online1!Left, Online1!Quiet,
         Online1!Top, Online1!Idle, Prepaid!TypeOK, Prepaid!ChargedOnce,
         Prepaid!RefundsAgree, Prepaid!Appointment, Prepaid!Intent, Prepaid!Job,
         Prepaid!Money, Prepaid!Left, Prepaid!Quiet, Prepaid!Top, Prepaid!Idle
<1> QED  BY <1>1, <1>2, <1>3

LEMMA PrepaidSafe ==
    MCSpec => [](subject = "prepaid" => 
                 Prepaid!TypeOK /\ Prepaid!ChargedOnce /\ Prepaid!RefundsAgree)
<1> DEFINE Is == subject = "prepaid"
<1>1. Online1!Tables /\ Online1!OverlapOnly
  <2> DEFINE most == 2
  <2>t1. {1, 2} \subseteq Nat \ {0} /\ \E p \in {1, 2} : \A q \in {1, 2} : q <= p
    <3>1. most \in {1, 2} /\ \A q \in {1, 2} : q <= most
      OBVIOUS
    <3> HIDE DEF most
    <3> QED  BY <3>1
  <2>1. Online1!Tables
    BY <2>t1, Named DEF Online1!Tables, Online1!IsFiniteSet, IsFiniteSet
  <2>2. Online1!OverlapOnly
    BY DEF Online1!OverlapOnly
  <2> QED  BY <2>1, <2>2
<1>2. Online1!Spec => [](Online1!TypeOK /\ Online1!ChargedOnce /\ Online1!RefundsAgree)
  BY <1>1, Online1!PrepaymentTypeOK, Online1!PrepaymentChargedOnce, Online1!PrepaymentRefundsOverlap, PTL
<1>3. MCInit /\ Is => Online1!Init
  BY PrepaidSame DEF MCInit
<1>4. Is /\ [MCNext]_mcVars => [Online1!Next]_(Online1!vars)
  <2>1. Is /\ MCNext => Online1!Next
    BY PrepaidSame DEF MCNext
  <2> QED  BY <2>1 DEF mcVars, Online1!vars
<1>5. (Is /\ [MCNext]_mcVars => Is') /\ (~ Is /\ [MCNext]_mcVars => ~ Is')
  BY SubjectKept
<1>6. Online1!TypeOK /\ Online1!ChargedOnce /\ Online1!RefundsAgree => Prepaid!TypeOK /\ Prepaid!ChargedOnce /\ Prepaid!RefundsAgree
  BY PrepaidSame
<1> HIDE DEF Is
<1>7. MCSpec => [](Is => Prepaid!TypeOK /\ Prepaid!ChargedOnce /\ Prepaid!RefundsAgree)
  BY <1>2, <1>3, <1>4, <1>5, <1>6, PTL DEF MCSpec, Online1!Spec
<1> QED  BY <1>7 DEF Is

----------------------------------------------------------------------------
(* "solo" *)

LEMMA SoloAgendaSame ==
    /\ Online1!Solo!Init = SoloAgenda!Init
    /\ Online1!Solo!Next = SoloAgenda!Next
    /\ Online1!Solo!vars = SoloAgenda!vars
    /\ Online1!Solo!TypeOK = SoloAgenda!TypeOK
    /\ Online1!Solo!OneSoloAgenda = SoloAgenda!OneSoloAgenda
    /\ Online1!Solo!QuotaHolds = SoloAgenda!QuotaHolds
<1>1. /\ Online1!Solo!Init = SoloAgenda!Init
      /\ Online1!Solo!vars = SoloAgenda!vars
  BY DEF Online1!Solo!Init, Online1!Solo!vars, Online1!Solo!AgendaInit,
         Online1!Solo!AgendaFree, SoloAgenda!Init, SoloAgenda!vars, SoloAgenda!AgendaInit,
         SoloAgenda!AgendaFree
<1>2. Online1!Solo!Next = SoloAgenda!Next
  BY DEF Online1!Solo!Next, Online1!Solo!AgendaNext, Online1!Solo!Start,
         Online1!Solo!StartTx, Online1!Solo!Months, Online1!Solo!Book, Online1!Solo!Write,
         Online1!Solo!ImportHistory, Online1!Solo!Finish, Online1!Solo!Close,
         Online1!Solo!NextMonth, Online1!Solo!May, Online1!Solo!OpenShops,
         Online1!Solo!MayOpen, Online1!Solo!AgendaDone, Online1!Solo!AssertAllowed,
         Online1!Solo!Idle, Online1!Solo!AgendaFree, Online1!Solo!SoloDecision,
         Online1!Solo!Completed, Online1!Solo!Cardinality, Online1!Solo!Counts,
         SoloAgenda!Next, SoloAgenda!AgendaNext, SoloAgenda!Start, SoloAgenda!StartTx,
         SoloAgenda!Months, SoloAgenda!Book, SoloAgenda!Write, SoloAgenda!ImportHistory,
         SoloAgenda!Finish, SoloAgenda!Close, SoloAgenda!NextMonth, SoloAgenda!May,
         SoloAgenda!OpenShops, SoloAgenda!MayOpen, SoloAgenda!AgendaDone,
         SoloAgenda!AssertAllowed, SoloAgenda!Idle, SoloAgenda!AgendaFree,
         SoloAgenda!SoloDecision, SoloAgenda!Completed, SoloAgenda!Cardinality,
         SoloAgenda!Counts
<1>3. /\ Online1!Solo!TypeOK = SoloAgenda!TypeOK
      /\ Online1!Solo!OneSoloAgenda = SoloAgenda!OneSoloAgenda
      /\ Online1!Solo!QuotaHolds = SoloAgenda!QuotaHolds
  BY DEF Online1!Solo!TypeOK, Online1!Solo!OneSoloAgenda, Online1!Solo!QuotaHolds,
         Online1!Solo!AgendaTypeOK, Online1!Solo!Cardinality, Online1!Solo!OpenShops,
         Online1!Solo!Months, Online1!Solo!AssertAllowed, Online1!Solo!Rows,
         Online1!Solo!SoloDecision, Online1!Solo!Completed, Online1!Solo!Counts,
         SoloAgenda!TypeOK, SoloAgenda!OneSoloAgenda, SoloAgenda!QuotaHolds,
         SoloAgenda!AgendaTypeOK, SoloAgenda!Cardinality, SoloAgenda!OpenShops,
         SoloAgenda!Months, SoloAgenda!AssertAllowed, SoloAgenda!Rows,
         SoloAgenda!SoloDecision, SoloAgenda!Completed, SoloAgenda!Counts
<1> QED  BY <1>1, <1>2, <1>3

LEMMA SoloAgendaSafe ==
    MCSpec => [](subject = "solo" => 
                 SoloAgenda!TypeOK /\ SoloAgenda!OneSoloAgenda /\
                 SoloAgenda!QuotaHolds)
<1> DEFINE Is == subject = "solo"
<1>1. Online1!OfAgenda
  BY Named DEF Online1!OfAgenda, Online1!Solo!Rows, SoloAgenda!Rows, Online1!Solo!Months, SoloAgenda!Months
<1>2. Online1!Solo!Spec => [](Online1!Solo!TypeOK /\ Online1!Solo!OneSoloAgenda /\ Online1!Solo!QuotaHolds)
  BY <1>1, Online1!SoloTypes, Online1!SoloOneAgenda, Online1!SoloQuotaHolds, PTL
<1>3. MCInit /\ Is => Online1!Solo!Init
  BY SoloAgendaSame DEF MCInit
<1>4. Is /\ [MCNext]_mcVars => [Online1!Solo!Next]_(Online1!Solo!vars)
  <2>1. Is /\ MCNext => Online1!Solo!Next
    BY SoloAgendaSame DEF MCNext
  <2> QED  BY <2>1 DEF mcVars, Online1!Solo!vars
<1>5. (Is /\ [MCNext]_mcVars => Is') /\ (~ Is /\ [MCNext]_mcVars => ~ Is')
  BY SubjectKept
<1>6. Online1!Solo!TypeOK /\ Online1!Solo!OneSoloAgenda /\ Online1!Solo!QuotaHolds => SoloAgenda!TypeOK /\ SoloAgenda!OneSoloAgenda /\ SoloAgenda!QuotaHolds
  BY SoloAgendaSame
<1> HIDE DEF Is
<1>7. MCSpec => [](Is => SoloAgenda!TypeOK /\ SoloAgenda!OneSoloAgenda /\ SoloAgenda!QuotaHolds)
  BY <1>2, <1>3, <1>4, <1>5, <1>6, PTL DEF MCSpec, Online1!Solo!Spec
<1> QED  BY <1>7 DEF Is

----------------------------------------------------------------------------
(* The proofs of OnlineProofs, for the parameters of checkout, bill, soloRace. *)
Online2 == INSTANCE OnlineProofs WITH
    PlanPart <- "checkout", User <- Two, PlanIntentId <- {"i1", "i2"}, MaxUses <- 1,
    PlanFaults <- {"lost"}, MaxClock <- None, MaxTries <- None, clock <- v1, sub <- v2,
    PlanFree <- v3, rows <- v4, charges <- v5, upgrades <- v6, PlanJob <- v7, rewound <- v8,
    plans <- v9, PlanUsed <- v10, usedCount <- v11, held <- v12, intents <- v13,
    payments <- v14, IntentId <- Two, Prices <- {1, 2}, Faults <- {"bill"}, appt <- v1,
    intent <- v2, keys <- v3, price <- v4, news <- v5, heard <- v6, job <- v7,
    Part <- "agenda", ShopId <- {1, 2}, RowId <- Two, Limit <- 1, LastMonth <- 1,
    Overlap <- TRUE, UserId <- None, MaxMonths <- None, NewFor <- None, MaxTime <- None,
    month <- v1, shop <- v2, pro <- v3, row <- v4, SoloLate <- v5, req <- v6, now <- v7,
    proUntil <- v8, created <- v9, same <- v10, referral <- v11, served <- v12, used <- v13

(* "checkout" *)

LEMMA BuySame ==
    /\ Online2!Plan!Init = Buy!Init
    /\ Online2!Plan!Next = Buy!Next
    /\ Online2!Plan!vars = Buy!vars
    /\ Online2!Plan!TypeOK = Buy!TypeOK
    /\ Online2!Plan!CheckoutSettled = Buy!CheckoutSettled
    /\ Online2!Plan!OnePaidPlan = Buy!OnePaidPlan
<1>1. /\ Online2!Plan!Init = Buy!Init
      /\ Online2!Plan!vars = Buy!vars
  BY DEF Online2!Plan!Init, Online2!Plan!vars, Online2!Plan!CheckoutInit,
         Online2!Plan!NoIntent, Online2!Plan!CheckoutIdle, Buy!Init, Buy!vars,
         Buy!CheckoutInit, Buy!NoIntent, Buy!CheckoutIdle
<1>2. Online2!Plan!Next = Buy!Next
  BY DEF Online2!Plan!Next, Online2!Plan!CheckoutNext, Online2!Plan!ReservationExpires,
         Online2!Plan!Pays, Online2!Plan!PlanEnds, Online2!Plan!CreatesIntent,
         Online2!Plan!Reserve, Online2!Plan!CancelsOld, Online2!Plan!ActivateReads,
         Online2!Plan!ActivateCommits, Online2!Plan!Refund, Online2!Plan!Confirm,
         Online2!Plan!CheckoutReads, Online2!Plan!NoIntent, Online2!Plan!CheckoutEnds,
         Online2!Plan!Sold, Online2!Plan!InTransaction, Online2!Plan!Blocks,
         Online2!Plan!Goes, Online2!Plan!ClaimOk, Online2!Plan!CheckoutIdle,
         Online2!Plan!Valid, Online2!Plan!Cardinality, Online2!Plan!HeldByOthers,
         Online2!Plan!ReservationOk, Buy!Next, Buy!CheckoutNext, Buy!ReservationExpires,
         Buy!Pays, Buy!PlanEnds, Buy!CreatesIntent, Buy!Reserve, Buy!CancelsOld,
         Buy!ActivateReads, Buy!ActivateCommits, Buy!Refund, Buy!Confirm, Buy!CheckoutReads,
         Buy!NoIntent, Buy!CheckoutEnds, Buy!Sold, Buy!InTransaction, Buy!Blocks, Buy!Goes,
         Buy!ClaimOk, Buy!CheckoutIdle, Buy!Valid, Buy!Cardinality, Buy!HeldByOthers,
         Buy!ReservationOk
<1>3. /\ Online2!Plan!TypeOK = Buy!TypeOK
      /\ Online2!Plan!CheckoutSettled = Buy!CheckoutSettled
      /\ Online2!Plan!OnePaidPlan = Buy!OnePaidPlan
  BY DEF Online2!Plan!TypeOK, Online2!Plan!CheckoutSettled, Online2!Plan!OnePaidPlan,
         Online2!Plan!CheckoutTypeOK, Online2!Plan!Intent, Online2!Plan!CheckoutJob,
         Online2!Plan!CheckoutOps, Buy!TypeOK, Buy!CheckoutSettled, Buy!OnePaidPlan,
         Buy!CheckoutTypeOK, Buy!Intent, Buy!CheckoutJob, Buy!CheckoutOps
<1> QED  BY <1>1, <1>2, <1>3

LEMMA BuySafe ==
    MCSpec => [](subject = "checkout" => 
                 Buy!TypeOK /\ Buy!CheckoutSettled /\ Buy!OnePaidPlan)
<1> DEFINE Is == subject = "checkout"
<1>1. Online2!OfCheckout /\ "ends" \notin {"lost"} /\ "overlap" \notin {"lost"}
  <2>1. Online2!OfCheckout
    BY FewRows, Named DEF Online2!OfCheckout, Online2!IsFiniteSet, IsFiniteSet
  <2>2. "ends" \notin {"lost"}
    OBVIOUS
  <2>3. "overlap" \notin {"lost"}
    OBVIOUS
  <2> QED  BY <2>1, <2>2, <2>3
<1>2. Online2!Plan!Spec => [](Online2!Plan!TypeOK /\ Online2!Plan!CheckoutSettled /\ Online2!Plan!OnePaidPlan)
  BY <1>1, Online2!PlanCheckoutTypes, Online2!PlanPaymentsSettled, Online2!PlanPaidOnce, PTL
<1>3. MCInit /\ Is => Online2!Plan!Init
  BY BuySame DEF MCInit
<1>4. Is /\ [MCNext]_mcVars => [Online2!Plan!Next]_(Online2!Plan!vars)
  <2>1. Is /\ MCNext => Online2!Plan!Next
    BY BuySame DEF MCNext
  <2> QED  BY <2>1 DEF mcVars, Online2!Plan!vars
<1>5. (Is /\ [MCNext]_mcVars => Is') /\ (~ Is /\ [MCNext]_mcVars => ~ Is')
  BY SubjectKept
<1>6. Online2!Plan!TypeOK /\ Online2!Plan!CheckoutSettled /\ Online2!Plan!OnePaidPlan => Buy!TypeOK /\ Buy!CheckoutSettled /\ Buy!OnePaidPlan
  BY BuySame
<1> HIDE DEF Is
<1>7. MCSpec => [](Is => Buy!TypeOK /\ Buy!CheckoutSettled /\ Buy!OnePaidPlan)
  BY <1>2, <1>3, <1>4, <1>5, <1>6, PTL DEF MCSpec, Online2!Plan!Spec
<1> QED  BY <1>7 DEF Is

----------------------------------------------------------------------------
(* "bill" *)

LEMMA BillSame ==
    /\ Online2!Init = Bill!Init
    /\ Online2!Next = Bill!Next
    /\ Online2!vars = Bill!vars
    /\ Online2!TypeOK = Bill!TypeOK
    /\ Online2!ChargedOnce = Bill!ChargedOnce
    /\ Online2!PrepaymentSettled = Bill!PrepaymentSettled
    /\ Online2!RefundsAgree = Bill!RefundsAgree
<1>1. /\ Online2!Init = Bill!Init
      /\ Online2!vars = Bill!vars
  BY DEF Online2!Init, Online2!vars, Online2!Idle, Bill!Init, Bill!vars, Bill!Idle
<1>2. Online2!Next = Bill!Next
  BY DEF Online2!Next, Online2!StartReads, Online2!StartEnds, Online2!Finalize,
         Online2!RefundReads, Online2!RefundClaims, Online2!RefundCalls,
         Online2!RefundReverts, Online2!SyncWrites, Online2!CancelReads,
         Online2!CancelWrites, Online2!SaleReads, Online2!SaleCommits,
         Online2!FinalizeReads, Online2!SyncReads, Online2!CustomerPays,
         Online2!PanelRefund, Online2!UpdateServices, Online2!CompleteAppointment,
         Online2!DeleteSale, Online2!Free, Online2!Payable, Online2!Doing, Online2!Ends,
         Online2!Cancelled, Online2!Saves, Online2!Late, Online2!Recorded,
         Online2!RefundExtra, Online2!Remaining, Online2!Claims, Online2!Left,
         Online2!Returns, Online2!Synced, Online2!Returned, Online2!Idle, Bill!Next,
         Bill!StartReads, Bill!StartEnds, Bill!Finalize, Bill!RefundReads,
         Bill!RefundClaims, Bill!RefundCalls, Bill!RefundReverts, Bill!SyncWrites,
         Bill!CancelReads, Bill!CancelWrites, Bill!SaleReads, Bill!SaleCommits,
         Bill!FinalizeReads, Bill!SyncReads, Bill!CustomerPays, Bill!PanelRefund,
         Bill!UpdateServices, Bill!CompleteAppointment, Bill!DeleteSale, Bill!Free,
         Bill!Payable, Bill!Doing, Bill!Ends, Bill!Cancelled, Bill!Saves, Bill!Late,
         Bill!Recorded, Bill!RefundExtra, Bill!Remaining, Bill!Claims, Bill!Left,
         Bill!Returns, Bill!Synced, Bill!Returned, Bill!Idle
<1>3. /\ Online2!TypeOK = Bill!TypeOK
      /\ Online2!ChargedOnce = Bill!ChargedOnce
      /\ Online2!PrepaymentSettled = Bill!PrepaymentSettled
      /\ Online2!RefundsAgree = Bill!RefundsAgree
  BY DEF Online2!TypeOK, Online2!ChargedOnce, Online2!PrepaymentSettled,
         Online2!RefundsAgree, Online2!Appointment, Online2!Intent, Online2!Job,
         Online2!Money, Online2!Left, Online2!Quiet, Online2!Remaining, Online2!Top,
         Online2!Idle, Bill!TypeOK, Bill!ChargedOnce, Bill!PrepaymentSettled,
         Bill!RefundsAgree, Bill!Appointment, Bill!Intent, Bill!Job, Bill!Money, Bill!Left,
         Bill!Quiet, Bill!Remaining, Bill!Top, Bill!Idle
<1> QED  BY <1>1, <1>2, <1>3

LEMMA BillSafe ==
    MCSpec => [](subject = "bill" => 
                 Bill!TypeOK /\ Bill!ChargedOnce /\ Bill!PrepaymentSettled /\
                 Bill!RefundsAgree)
<1> DEFINE Is == subject = "bill"
<1>1. Online2!Tables /\ Online2!Serial /\ Online2!BillOnly
  <2> DEFINE most == 2
  <2>t1. {1, 2} \subseteq Nat \ {0} /\ \E p \in {1, 2} : \A q \in {1, 2} : q <= p
    <3>1. most \in {1, 2} /\ \A q \in {1, 2} : q <= most
      OBVIOUS
    <3> HIDE DEF most
    <3> QED  BY <3>1
  <2>1. Online2!Tables
    BY <2>t1, Named DEF Online2!Tables, Online2!IsFiniteSet, IsFiniteSet
  <2>2. Online2!Serial
    BY DEF Online2!Serial
  <2>3. Online2!BillOnly
    BY DEF Online2!BillOnly
  <2> QED  BY <2>1, <2>2, <2>3
<1>2. Online2!Spec => [](Online2!TypeOK /\ Online2!ChargedOnce /\ Online2!PrepaymentSettled /\ Online2!RefundsAgree)
  BY <1>1, Online2!PrepaymentTypeOK, Online2!PrepaymentChargedOnce, Online2!PrepaymentIsSettled, Online2!PrepaymentRefundsAgree, PTL
<1>3. MCInit /\ Is => Online2!Init
  BY BillSame DEF MCInit
<1>4. Is /\ [MCNext]_mcVars => [Online2!Next]_(Online2!vars)
  <2>1. Is /\ MCNext => Online2!Next
    BY BillSame DEF MCNext
  <2> QED  BY <2>1 DEF mcVars, Online2!vars
<1>5. (Is /\ [MCNext]_mcVars => Is') /\ (~ Is /\ [MCNext]_mcVars => ~ Is')
  BY SubjectKept
<1>6. Online2!TypeOK /\ Online2!ChargedOnce /\ Online2!PrepaymentSettled /\ Online2!RefundsAgree => Bill!TypeOK /\ Bill!ChargedOnce /\ Bill!PrepaymentSettled /\ Bill!RefundsAgree
  BY BillSame
<1> HIDE DEF Is
<1>7. MCSpec => [](Is => Bill!TypeOK /\ Bill!ChargedOnce /\ Bill!PrepaymentSettled /\ Bill!RefundsAgree)
  BY <1>2, <1>3, <1>4, <1>5, <1>6, PTL DEF MCSpec, Online2!Spec
<1> QED  BY <1>7 DEF Is

----------------------------------------------------------------------------
(* "soloRace" *)

LEMMA SoloRaceSame ==
    /\ Online2!Solo!Init = SoloRace!Init
    /\ Online2!Solo!Next = SoloRace!Next
    /\ Online2!Solo!vars = SoloRace!vars
    /\ Online2!Solo!TypeOK = SoloRace!TypeOK
    /\ Online2!Solo!OneSoloAgenda = SoloRace!OneSoloAgenda
    /\ Online2!Solo!QuotaHolds = SoloRace!QuotaHolds
<1>1. /\ Online2!Solo!Init = SoloRace!Init
      /\ Online2!Solo!vars = SoloRace!vars
  BY DEF Online2!Solo!Init, Online2!Solo!vars, Online2!Solo!AgendaInit,
         Online2!Solo!AgendaFree, SoloRace!Init, SoloRace!vars, SoloRace!AgendaInit,
         SoloRace!AgendaFree
<1>2. Online2!Solo!Next = SoloRace!Next
  BY DEF Online2!Solo!Next, Online2!Solo!AgendaNext, Online2!Solo!Start,
         Online2!Solo!StartTx, Online2!Solo!Months, Online2!Solo!Book, Online2!Solo!Write,
         Online2!Solo!ImportHistory, Online2!Solo!Finish, Online2!Solo!Close,
         Online2!Solo!NextMonth, Online2!Solo!May, Online2!Solo!OpenShops,
         Online2!Solo!MayOpen, Online2!Solo!AgendaDone, Online2!Solo!AssertAllowed,
         Online2!Solo!Idle, Online2!Solo!AgendaFree, Online2!Solo!SoloDecision,
         Online2!Solo!Completed, Online2!Solo!Cardinality, Online2!Solo!Counts,
         SoloRace!Next, SoloRace!AgendaNext, SoloRace!Start, SoloRace!StartTx,
         SoloRace!Months, SoloRace!Book, SoloRace!Write, SoloRace!ImportHistory,
         SoloRace!Finish, SoloRace!Close, SoloRace!NextMonth, SoloRace!May,
         SoloRace!OpenShops, SoloRace!MayOpen, SoloRace!AgendaDone, SoloRace!AssertAllowed,
         SoloRace!Idle, SoloRace!AgendaFree, SoloRace!SoloDecision, SoloRace!Completed,
         SoloRace!Cardinality, SoloRace!Counts
<1>3. /\ Online2!Solo!TypeOK = SoloRace!TypeOK
      /\ Online2!Solo!OneSoloAgenda = SoloRace!OneSoloAgenda
      /\ Online2!Solo!QuotaHolds = SoloRace!QuotaHolds
  BY DEF Online2!Solo!TypeOK, Online2!Solo!OneSoloAgenda, Online2!Solo!QuotaHolds,
         Online2!Solo!AgendaTypeOK, Online2!Solo!Cardinality, Online2!Solo!OpenShops,
         Online2!Solo!Months, Online2!Solo!AssertAllowed, Online2!Solo!Rows,
         Online2!Solo!SoloDecision, Online2!Solo!Completed, Online2!Solo!Counts,
         SoloRace!TypeOK, SoloRace!OneSoloAgenda, SoloRace!QuotaHolds,
         SoloRace!AgendaTypeOK, SoloRace!Cardinality, SoloRace!OpenShops, SoloRace!Months,
         SoloRace!AssertAllowed, SoloRace!Rows, SoloRace!SoloDecision, SoloRace!Completed,
         SoloRace!Counts
<1> QED  BY <1>1, <1>2, <1>3

LEMMA SoloRaceSafe ==
    MCSpec => [](subject = "soloRace" => 
                 SoloRace!TypeOK /\ SoloRace!OneSoloAgenda /\
                 SoloRace!QuotaHolds)
<1> DEFINE Is == subject = "soloRace"
<1>1. Online2!OfAgenda
  BY Named DEF Online2!OfAgenda, Online2!Solo!Rows, SoloRace!Rows, Online2!Solo!Months, SoloRace!Months
<1>2. Online2!Solo!Spec => [](Online2!Solo!TypeOK /\ Online2!Solo!OneSoloAgenda /\ Online2!Solo!QuotaHolds)
  BY <1>1, Online2!SoloTypes, Online2!SoloOneAgenda, Online2!SoloQuotaHolds, PTL
<1>3. MCInit /\ Is => Online2!Solo!Init
  BY SoloRaceSame DEF MCInit
<1>4. Is /\ [MCNext]_mcVars => [Online2!Solo!Next]_(Online2!Solo!vars)
  <2>1. Is /\ MCNext => Online2!Solo!Next
    BY SoloRaceSame DEF MCNext
  <2> QED  BY <2>1 DEF mcVars, Online2!Solo!vars
<1>5. (Is /\ [MCNext]_mcVars => Is') /\ (~ Is /\ [MCNext]_mcVars => ~ Is')
  BY SubjectKept
<1>6. Online2!Solo!TypeOK /\ Online2!Solo!OneSoloAgenda /\ Online2!Solo!QuotaHolds => SoloRace!TypeOK /\ SoloRace!OneSoloAgenda /\ SoloRace!QuotaHolds
  BY SoloRaceSame
<1> HIDE DEF Is
<1>7. MCSpec => [](Is => SoloRace!TypeOK /\ SoloRace!OneSoloAgenda /\ SoloRace!QuotaHolds)
  BY <1>2, <1>3, <1>4, <1>5, <1>6, PTL DEF MCSpec, Online2!Solo!Spec
<1> QED  BY <1>7 DEF Is

----------------------------------------------------------------------------
(* The proofs of OnlineProofs, for the parameters of renewal, overlapBill, proReferral. *)
Online3 == INSTANCE OnlineProofs WITH
    PlanPart <- "renewal", MaxClock <- 3, MaxTries <- 2, PlanFaults <- {"crash"},
    User <- None, PlanIntentId <- None, MaxUses <- None, clock <- v1, sub <- v2,
    PlanFree <- v3, rows <- v4, charges <- v5, upgrades <- v6, PlanJob <- v7, rewound <- v8,
    plans <- v9, PlanUsed <- v10, usedCount <- v11, held <- v12, intents <- v13,
    payments <- v14, IntentId <- Two, Prices <- {1, 2}, Faults <- {"overlap", "bill"},
    appt <- v1, intent <- v2, keys <- v3, price <- v4, news <- v5, heard <- v6, job <- v7,
    Part <- "referral", UserId <- {1, 2, 3}, MaxMonths <- 1, NewFor <- 0, MaxTime <- 1,
    ShopId <- None, RowId <- None, Limit <- None, LastMonth <- None, Overlap <- None,
    month <- v1, shop <- v2, pro <- v3, row <- v4, SoloLate <- v5, req <- v6, now <- v7,
    proUntil <- v8, created <- v9, same <- v10, referral <- v11, served <- v12, used <- v13

(* "renewal" *)

LEMMA RenewSame ==
    /\ Online3!Plan!Init = Renew!Init
    /\ Online3!Plan!Next = Renew!Next
    /\ Online3!Plan!vars = Renew!vars
    /\ Online3!Plan!TypeOK = Renew!TypeOK
    /\ Online3!Plan!PeriodChargedOnce = Renew!PeriodChargedOnce
    /\ Online3!Plan!PaidRenewalCounts = Renew!PaidRenewalCounts
<1>1. /\ Online3!Plan!Init = Renew!Init
      /\ Online3!Plan!vars = Renew!vars
  BY DEF Online3!Plan!Init, Online3!Plan!vars, Online3!Plan!RenewalInit, Online3!Plan!Cycle,
         Online3!Plan!Key, Online3!Plan!NoRow, Online3!Plan!Period,
         Online3!Plan!RenewalIdle, Renew!Init, Renew!vars, Renew!RenewalInit, Renew!Cycle,
         Renew!Key, Renew!NoRow, Renew!Period, Renew!RenewalIdle
<1>2. Online3!Plan!Next = Renew!Next
  BY DEF Online3!Plan!Next, Online3!Plan!RenewalNext, Online3!Plan!Tick,
         Online3!Plan!UndoScheduled, Online3!Plan!ScheduleSmaller, Online3!Plan!Key,
         Online3!Plan!BankAnswers, Online3!Plan!Period, Online3!Plan!RefundUpgrade,
         Online3!Plan!RenewClaims, Online3!Plan!RenewCharges,
         Online3!Plan!ReconcileRenewalPayment, Online3!Plan!FinalizeRenewalPayment,
         Online3!Plan!MarkRenewalFailed, Online3!Plan!ExpireSubscription,
         Online3!Plan!Crash, Online3!Plan!Unsubscribe, Online3!Plan!RefundCloses,
         Online3!Plan!UpgradeReads, Online3!Plan!ChargeUpgrade, Online3!Plan!UpgradeRecords,
         Online3!Plan!UpgradeSwitches, Online3!Plan!RenewReads, Online3!Plan!Webhook,
         Online3!Plan!RefundPlanPayment, Online3!Plan!Cycle, Online3!Plan!Tried,
         Online3!Plan!Attempt, Online3!Plan!TriedToday, Online3!Plan!RenewalEnds,
         Online3!Plan!Grace, Online3!Plan!Goes, Online3!Plan!Charging,
         Online3!Plan!MovesPeriod, Online3!Plan!RenewalIdle, Online3!Plan!IsLatest,
         Online3!Plan!Due, Online3!Plan!Cardinality, Online3!Plan!Settled, Renew!Next,
         Renew!RenewalNext, Renew!Tick, Renew!UndoScheduled, Renew!ScheduleSmaller,
         Renew!Key, Renew!BankAnswers, Renew!Period, Renew!RefundUpgrade, Renew!RenewClaims,
         Renew!RenewCharges, Renew!ReconcileRenewalPayment, Renew!FinalizeRenewalPayment,
         Renew!MarkRenewalFailed, Renew!ExpireSubscription, Renew!Crash, Renew!Unsubscribe,
         Renew!RefundCloses, Renew!UpgradeReads, Renew!ChargeUpgrade, Renew!UpgradeRecords,
         Renew!UpgradeSwitches, Renew!RenewReads, Renew!Webhook, Renew!RefundPlanPayment,
         Renew!Cycle, Renew!Tried, Renew!Attempt, Renew!TriedToday, Renew!RenewalEnds,
         Renew!Grace, Renew!Goes, Renew!Charging, Renew!MovesPeriod, Renew!RenewalIdle,
         Renew!IsLatest, Renew!Due, Renew!Cardinality, Renew!Settled
<1>3. /\ Online3!Plan!TypeOK = Renew!TypeOK
      /\ Online3!Plan!PeriodChargedOnce = Renew!PeriodChargedOnce
      /\ Online3!Plan!PaidRenewalCounts = Renew!PaidRenewalCounts
  BY DEF Online3!Plan!TypeOK, Online3!Plan!PeriodChargedOnce,
         Online3!Plan!PaidRenewalCounts, Online3!Plan!RenewalTypeOK, Online3!Plan!Period,
         Online3!Plan!Cardinality, Online3!Plan!Key, Online3!Plan!Settled,
         Online3!Plan!Cycle, Online3!Plan!Sub, Online3!Plan!Row, Online3!Plan!RenewalJob,
         Online3!Plan!Status, Online3!Plan!RenewalOps, Renew!TypeOK,
         Renew!PeriodChargedOnce, Renew!PaidRenewalCounts, Renew!RenewalTypeOK,
         Renew!Period, Renew!Cardinality, Renew!Key, Renew!Settled, Renew!Cycle, Renew!Sub,
         Renew!Row, Renew!RenewalJob, Renew!Status, Renew!RenewalOps
<1> QED  BY <1>1, <1>2, <1>3

LEMMA RenewSafe ==
    MCSpec => [](subject = "renewal" => 
                 Renew!TypeOK /\ Renew!PeriodChargedOnce /\
                 Renew!PaidRenewalCounts)
<1> DEFINE Is == subject = "renewal"
<1>1. Online3!OfRenewal
  BY Named DEF Online3!OfRenewal
<1>2. Online3!Plan!Spec => [](Online3!Plan!TypeOK /\ Online3!Plan!PeriodChargedOnce /\ Online3!Plan!PaidRenewalCounts)
  BY <1>1, Online3!RenewalTypes, Online3!RenewalChargedOnce, Online3!RenewalsAddUp, PTL
<1>3. MCInit /\ Is => Online3!Plan!Init
  BY RenewSame DEF MCInit
<1>4. Is /\ [MCNext]_mcVars => [Online3!Plan!Next]_(Online3!Plan!vars)
  <2>1. Is /\ MCNext => Online3!Plan!Next
    BY RenewSame DEF MCNext
  <2> QED  BY <2>1 DEF mcVars, Online3!Plan!vars
<1>5. (Is /\ [MCNext]_mcVars => Is') /\ (~ Is /\ [MCNext]_mcVars => ~ Is')
  BY SubjectKept
<1>6. Online3!Plan!TypeOK /\ Online3!Plan!PeriodChargedOnce /\ Online3!Plan!PaidRenewalCounts => Renew!TypeOK /\ Renew!PeriodChargedOnce /\ Renew!PaidRenewalCounts
  BY RenewSame
<1> HIDE DEF Is
<1>7. MCSpec => [](Is => Renew!TypeOK /\ Renew!PeriodChargedOnce /\ Renew!PaidRenewalCounts)
  BY <1>2, <1>3, <1>4, <1>5, <1>6, PTL DEF MCSpec, Online3!Plan!Spec
<1> QED  BY <1>7 DEF Is

----------------------------------------------------------------------------
(* "overlapBill" *)

LEMMA OverlapBillSame ==
    /\ Online3!Init = OverlapBill!Init
    /\ Online3!Next = OverlapBill!Next
    /\ Online3!vars = OverlapBill!vars
    /\ Online3!TypeOK = OverlapBill!TypeOK
    /\ Online3!ChargedOnce = OverlapBill!ChargedOnce
<1>1. /\ Online3!Init = OverlapBill!Init
      /\ Online3!vars = OverlapBill!vars
  BY DEF Online3!Init, Online3!vars, Online3!Idle, OverlapBill!Init, OverlapBill!vars,
         OverlapBill!Idle
<1>2. Online3!Next = OverlapBill!Next
  BY DEF Online3!Next, Online3!StartReads, Online3!StartEnds, Online3!Finalize,
         Online3!RefundReads, Online3!RefundClaims, Online3!RefundCalls,
         Online3!RefundReverts, Online3!SyncWrites, Online3!CancelReads,
         Online3!CancelWrites, Online3!SaleReads, Online3!SaleCommits,
         Online3!FinalizeReads, Online3!SyncReads, Online3!CustomerPays,
         Online3!PanelRefund, Online3!UpdateServices, Online3!CompleteAppointment,
         Online3!DeleteSale, Online3!Free, Online3!Payable, Online3!Doing, Online3!Ends,
         Online3!Cancelled, Online3!Saves, Online3!Late, Online3!Recorded,
         Online3!RefundExtra, Online3!Remaining, Online3!Claims, Online3!Left,
         Online3!Returns, Online3!Synced, Online3!Returned, Online3!Idle, OverlapBill!Next,
         OverlapBill!StartReads, OverlapBill!StartEnds, OverlapBill!Finalize,
         OverlapBill!RefundReads, OverlapBill!RefundClaims, OverlapBill!RefundCalls,
         OverlapBill!RefundReverts, OverlapBill!SyncWrites, OverlapBill!CancelReads,
         OverlapBill!CancelWrites, OverlapBill!SaleReads, OverlapBill!SaleCommits,
         OverlapBill!FinalizeReads, OverlapBill!SyncReads, OverlapBill!CustomerPays,
         OverlapBill!PanelRefund, OverlapBill!UpdateServices,
         OverlapBill!CompleteAppointment, OverlapBill!DeleteSale, OverlapBill!Free,
         OverlapBill!Payable, OverlapBill!Doing, OverlapBill!Ends, OverlapBill!Cancelled,
         OverlapBill!Saves, OverlapBill!Late, OverlapBill!Recorded, OverlapBill!RefundExtra,
         OverlapBill!Remaining, OverlapBill!Claims, OverlapBill!Left, OverlapBill!Returns,
         OverlapBill!Synced, OverlapBill!Returned, OverlapBill!Idle
<1>3. /\ Online3!TypeOK = OverlapBill!TypeOK
      /\ Online3!ChargedOnce = OverlapBill!ChargedOnce
  BY DEF Online3!TypeOK, Online3!ChargedOnce, Online3!Appointment, Online3!Intent,
         Online3!Job, Online3!Money, Online3!Left, Online3!Top, OverlapBill!TypeOK,
         OverlapBill!ChargedOnce, OverlapBill!Appointment, OverlapBill!Intent,
         OverlapBill!Job, OverlapBill!Money, OverlapBill!Left, OverlapBill!Top
<1> QED  BY <1>1, <1>2, <1>3

LEMMA OverlapBillSafe ==
    MCSpec => [](subject = "overlapBill" => 
                 OverlapBill!TypeOK /\ OverlapBill!ChargedOnce)
<1> DEFINE Is == subject = "overlapBill"
<1>1. Online3!Tables
  <2> DEFINE most == 2
  <2>t1. {1, 2} \subseteq Nat \ {0} /\ \E p \in {1, 2} : \A q \in {1, 2} : q <= p
    <3>1. most \in {1, 2} /\ \A q \in {1, 2} : q <= most
      OBVIOUS
    <3> HIDE DEF most
    <3> QED  BY <3>1
  <2>1. Online3!Tables
    BY <2>t1, Named DEF Online3!Tables, Online3!IsFiniteSet, IsFiniteSet
  <2> QED  BY <2>1
<1>2. Online3!Spec => [](Online3!TypeOK /\ Online3!ChargedOnce)
  BY <1>1, Online3!PrepaymentTypeOK, Online3!PrepaymentChargedOnce, PTL
<1>3. MCInit /\ Is => Online3!Init
  BY OverlapBillSame DEF MCInit
<1>4. Is /\ [MCNext]_mcVars => [Online3!Next]_(Online3!vars)
  <2>1. Is /\ MCNext => Online3!Next
    BY OverlapBillSame DEF MCNext
  <2> QED  BY <2>1 DEF mcVars, Online3!vars
<1>5. (Is /\ [MCNext]_mcVars => Is') /\ (~ Is /\ [MCNext]_mcVars => ~ Is')
  BY SubjectKept
<1>6. Online3!TypeOK /\ Online3!ChargedOnce => OverlapBill!TypeOK /\ OverlapBill!ChargedOnce
  BY OverlapBillSame
<1> HIDE DEF Is
<1>7. MCSpec => [](Is => OverlapBill!TypeOK /\ OverlapBill!ChargedOnce)
  BY <1>2, <1>3, <1>4, <1>5, <1>6, PTL DEF MCSpec, Online3!Spec
<1> QED  BY <1>7 DEF Is

----------------------------------------------------------------------------
(* "proReferral" *)

LEMMA ProMonthsSame ==
    /\ Online3!Solo!Init = ProMonths!Init
    /\ Online3!Solo!Next = ProMonths!Next
    /\ Online3!Solo!vars = ProMonths!vars
    /\ Online3!Solo!TypeOK = ProMonths!TypeOK
    /\ Online3!Solo!MonthsAddUp = ProMonths!MonthsAddUp
    /\ Online3!Solo!ReferralsHonest = ProMonths!ReferralsHonest
<1>1. /\ Online3!Solo!Init = ProMonths!Init
      /\ Online3!Solo!vars = ProMonths!vars
  BY DEF Online3!Solo!Init, Online3!Solo!vars, Online3!Solo!ReferralInit,
         Online3!Solo!ReferralFree, ProMonths!Init, ProMonths!vars, ProMonths!ReferralInit,
         ProMonths!ReferralFree
<1>2. Online3!Solo!Next = ProMonths!Next
  BY DEF Online3!Solo!Next, Online3!Solo!ReferralNext, Online3!Solo!ClaimTx,
         Online3!Solo!ReleaseTx, Online3!Solo!Claim, Online3!Solo!ReleaseInviterMonths,
         Online3!Solo!SignUp, Online3!Solo!Serves, Online3!Solo!Tick, Online3!Solo!MayClaim,
         Online3!Solo!Grants, Online3!Solo!ReferralDone, Online3!Solo!Claimed,
         Online3!Solo!ReferralFree, Online3!Solo!IsNewProAccount, Online3!Solo!Pending,
         Online3!Solo!IsProActive, Online3!Solo!Sent, Online3!Solo!Cardinality,
         Online3!Solo!ExtendProUntil, ProMonths!Next, ProMonths!ReferralNext,
         ProMonths!ClaimTx, ProMonths!ReleaseTx, ProMonths!Claim,
         ProMonths!ReleaseInviterMonths, ProMonths!SignUp, ProMonths!Serves, ProMonths!Tick,
         ProMonths!MayClaim, ProMonths!Grants, ProMonths!ReferralDone, ProMonths!Claimed,
         ProMonths!ReferralFree, ProMonths!IsNewProAccount, ProMonths!Pending,
         ProMonths!IsProActive, ProMonths!Sent, ProMonths!Cardinality,
         ProMonths!ExtendProUntil
<1>3. /\ Online3!Solo!TypeOK = ProMonths!TypeOK
      /\ Online3!Solo!MonthsAddUp = ProMonths!MonthsAddUp
      /\ Online3!Solo!ReferralsHonest = ProMonths!ReferralsHonest
  BY DEF Online3!Solo!TypeOK, Online3!Solo!MonthsAddUp, Online3!Solo!ReferralsHonest,
         Online3!Solo!ReferralTypeOK, Online3!Solo!IsProActive, Online3!Solo!Cardinality,
         Online3!Solo!Sent, Online3!Solo!Pending, Online3!Solo!ProReferralRow,
         ProMonths!TypeOK, ProMonths!MonthsAddUp, ProMonths!ReferralsHonest,
         ProMonths!ReferralTypeOK, ProMonths!IsProActive, ProMonths!Cardinality,
         ProMonths!Sent, ProMonths!Pending, ProMonths!ProReferralRow
<1> QED  BY <1>1, <1>2, <1>3

LEMMA ProMonthsSafe ==
    MCSpec => [](subject = "proReferral" => 
                 ProMonths!TypeOK /\ ProMonths!MonthsAddUp /\
                 ProMonths!ReferralsHonest)
<1> DEFINE Is == subject = "proReferral"
<1>1. Online3!OfReferral
  <2>r. Online3!Solo!ProReferralRow = ProMonths!ProReferralRow
    BY DEF Online3!Solo!ProReferralRow, ProMonths!ProReferralRow
  <2>f. Online3!IsFiniteSet({1, 2, 3})
    BY FewRows DEF Online3!IsFiniteSet, IsFiniteSet
  <2>n. None \notin Online3!Solo!ProReferralRow
    BY <2>r, Named
  <2>1. Online3!OfReferral
    BY <2>f, <2>n DEF Online3!OfReferral
  <2> QED  BY <2>1
<1>2. Online3!Solo!Spec => [](Online3!Solo!TypeOK /\ Online3!Solo!MonthsAddUp /\ Online3!Solo!ReferralsHonest)
  BY <1>1, Online3!SoloTypes, Online3!ProMonthsAddUp, Online3!ProReferralsHonest, PTL
<1>3. MCInit /\ Is => Online3!Solo!Init
  BY ProMonthsSame DEF MCInit
<1>4. Is /\ [MCNext]_mcVars => [Online3!Solo!Next]_(Online3!Solo!vars)
  <2>1. Is /\ MCNext => Online3!Solo!Next
    BY ProMonthsSame DEF MCNext
  <2> QED  BY <2>1 DEF mcVars, Online3!Solo!vars
<1>5. (Is /\ [MCNext]_mcVars => Is') /\ (~ Is /\ [MCNext]_mcVars => ~ Is')
  BY SubjectKept
<1>6. Online3!Solo!TypeOK /\ Online3!Solo!MonthsAddUp /\ Online3!Solo!ReferralsHonest => ProMonths!TypeOK /\ ProMonths!MonthsAddUp /\ ProMonths!ReferralsHonest
  BY ProMonthsSame
<1> HIDE DEF Is
<1>7. MCSpec => [](Is => ProMonths!TypeOK /\ ProMonths!MonthsAddUp /\ ProMonths!ReferralsHonest)
  BY <1>2, <1>3, <1>4, <1>5, <1>6, PTL DEF MCSpec, Online3!Solo!Spec
<1> QED  BY <1>7 DEF Is

----------------------------------------------------------------------------
(* The proofs of OnlineProofs, for the parameters of change, panel, invites. *)
Online4 == INSTANCE OnlineProofs WITH
    PlanPart <- "renewal", MaxClock <- 3, MaxTries <- 2, PlanFaults <- {"upgrade", "plans"},
    User <- None, PlanIntentId <- None, MaxUses <- None, clock <- v1, sub <- v2,
    PlanFree <- v3, rows <- v4, charges <- v5, upgrades <- v6, PlanJob <- v7, rewound <- v8,
    plans <- v9, PlanUsed <- v10, usedCount <- v11, held <- v12, intents <- v13,
    payments <- v14, IntentId <- Two, Prices <- {1, 2}, Faults <- {"panel", "lost"},
    appt <- v1, intent <- v2, keys <- v3, price <- v4, news <- v5, heard <- v6, job <- v7,
    Inviter <- Two, Friend <- {"f1", "f2"}, InviteId <- Three, MaxRewards <- 1,
    registered <- v1, invites <- v2, FriendsPaid <- v3, rowLock <- v4, FriendsJob <- v5

(* "change" *)

LEMMA ChangeSame ==
    /\ Online4!Plan!Init = Change!Init
    /\ Online4!Plan!Next = Change!Next
    /\ Online4!Plan!vars = Change!vars
    /\ Online4!Plan!TypeOK = Change!TypeOK
    /\ Online4!Plan!PeriodChargedOnce = Change!PeriodChargedOnce
    /\ Online4!Plan!PaidRenewalCounts = Change!PaidRenewalCounts
<1>1. /\ Online4!Plan!Init = Change!Init
      /\ Online4!Plan!vars = Change!vars
  BY DEF Online4!Plan!Init, Online4!Plan!vars, Online4!Plan!RenewalInit, Online4!Plan!Cycle,
         Online4!Plan!Key, Online4!Plan!NoRow, Online4!Plan!Period,
         Online4!Plan!RenewalIdle, Change!Init, Change!vars, Change!RenewalInit,
         Change!Cycle, Change!Key, Change!NoRow, Change!Period, Change!RenewalIdle
<1>2. Online4!Plan!Next = Change!Next
  BY DEF Online4!Plan!Next, Online4!Plan!RenewalNext, Online4!Plan!Tick,
         Online4!Plan!UndoScheduled, Online4!Plan!ScheduleSmaller, Online4!Plan!Key,
         Online4!Plan!BankAnswers, Online4!Plan!Period, Online4!Plan!RefundUpgrade,
         Online4!Plan!RenewClaims, Online4!Plan!RenewCharges,
         Online4!Plan!ReconcileRenewalPayment, Online4!Plan!FinalizeRenewalPayment,
         Online4!Plan!MarkRenewalFailed, Online4!Plan!ExpireSubscription,
         Online4!Plan!Crash, Online4!Plan!Unsubscribe, Online4!Plan!RefundCloses,
         Online4!Plan!UpgradeReads, Online4!Plan!ChargeUpgrade, Online4!Plan!UpgradeRecords,
         Online4!Plan!UpgradeSwitches, Online4!Plan!RenewReads, Online4!Plan!Webhook,
         Online4!Plan!RefundPlanPayment, Online4!Plan!Cycle, Online4!Plan!Tried,
         Online4!Plan!Attempt, Online4!Plan!TriedToday, Online4!Plan!RenewalEnds,
         Online4!Plan!Grace, Online4!Plan!Goes, Online4!Plan!Charging,
         Online4!Plan!MovesPeriod, Online4!Plan!RenewalIdle, Online4!Plan!IsLatest,
         Online4!Plan!Due, Online4!Plan!Cardinality, Online4!Plan!Settled, Change!Next,
         Change!RenewalNext, Change!Tick, Change!UndoScheduled, Change!ScheduleSmaller,
         Change!Key, Change!BankAnswers, Change!Period, Change!RefundUpgrade,
         Change!RenewClaims, Change!RenewCharges, Change!ReconcileRenewalPayment,
         Change!FinalizeRenewalPayment, Change!MarkRenewalFailed, Change!ExpireSubscription,
         Change!Crash, Change!Unsubscribe, Change!RefundCloses, Change!UpgradeReads,
         Change!ChargeUpgrade, Change!UpgradeRecords, Change!UpgradeSwitches,
         Change!RenewReads, Change!Webhook, Change!RefundPlanPayment, Change!Cycle,
         Change!Tried, Change!Attempt, Change!TriedToday, Change!RenewalEnds, Change!Grace,
         Change!Goes, Change!Charging, Change!MovesPeriod, Change!RenewalIdle,
         Change!IsLatest, Change!Due, Change!Cardinality, Change!Settled
<1>3. /\ Online4!Plan!TypeOK = Change!TypeOK
      /\ Online4!Plan!PeriodChargedOnce = Change!PeriodChargedOnce
      /\ Online4!Plan!PaidRenewalCounts = Change!PaidRenewalCounts
  BY DEF Online4!Plan!TypeOK, Online4!Plan!PeriodChargedOnce,
         Online4!Plan!PaidRenewalCounts, Online4!Plan!RenewalTypeOK, Online4!Plan!Period,
         Online4!Plan!Cardinality, Online4!Plan!Key, Online4!Plan!Settled,
         Online4!Plan!Cycle, Online4!Plan!Sub, Online4!Plan!Row, Online4!Plan!RenewalJob,
         Online4!Plan!Status, Online4!Plan!RenewalOps, Change!TypeOK,
         Change!PeriodChargedOnce, Change!PaidRenewalCounts, Change!RenewalTypeOK,
         Change!Period, Change!Cardinality, Change!Key, Change!Settled, Change!Cycle,
         Change!Sub, Change!Row, Change!RenewalJob, Change!Status, Change!RenewalOps
<1> QED  BY <1>1, <1>2, <1>3

LEMMA ChangeSafe ==
    MCSpec => [](subject = "change" => 
                 Change!TypeOK /\ Change!PeriodChargedOnce /\
                 Change!PaidRenewalCounts)
<1> DEFINE Is == subject = "change"
<1>1. Online4!OfRenewal
  BY Named DEF Online4!OfRenewal
<1>2. Online4!Plan!Spec => [](Online4!Plan!TypeOK /\ Online4!Plan!PeriodChargedOnce /\ Online4!Plan!PaidRenewalCounts)
  BY <1>1, Online4!RenewalTypes, Online4!RenewalChargedOnce, Online4!RenewalsAddUp, PTL
<1>3. MCInit /\ Is => Online4!Plan!Init
  BY ChangeSame DEF MCInit
<1>4. Is /\ [MCNext]_mcVars => [Online4!Plan!Next]_(Online4!Plan!vars)
  <2>1. Is /\ MCNext => Online4!Plan!Next
    BY ChangeSame DEF MCNext
  <2> QED  BY <2>1 DEF mcVars, Online4!Plan!vars
<1>5. (Is /\ [MCNext]_mcVars => Is') /\ (~ Is /\ [MCNext]_mcVars => ~ Is')
  BY SubjectKept
<1>6. Online4!Plan!TypeOK /\ Online4!Plan!PeriodChargedOnce /\ Online4!Plan!PaidRenewalCounts => Change!TypeOK /\ Change!PeriodChargedOnce /\ Change!PaidRenewalCounts
  BY ChangeSame
<1> HIDE DEF Is
<1>7. MCSpec => [](Is => Change!TypeOK /\ Change!PeriodChargedOnce /\ Change!PaidRenewalCounts)
  BY <1>2, <1>3, <1>4, <1>5, <1>6, PTL DEF MCSpec, Online4!Plan!Spec
<1> QED  BY <1>7 DEF Is

----------------------------------------------------------------------------
(* "panel" *)

LEMMA PanelSame ==
    /\ Online4!Init = Panel!Init
    /\ Online4!Next = Panel!Next
    /\ Online4!vars = Panel!vars
    /\ Online4!TypeOK = Panel!TypeOK
    /\ Online4!RefundsAgree = Panel!RefundsAgree
<1>1. /\ Online4!Init = Panel!Init
      /\ Online4!vars = Panel!vars
  BY DEF Online4!Init, Online4!vars, Online4!Idle, Panel!Init, Panel!vars, Panel!Idle
<1>2. Online4!Next = Panel!Next
  BY DEF Online4!Next, Online4!StartReads, Online4!StartEnds, Online4!Finalize,
         Online4!RefundReads, Online4!RefundClaims, Online4!RefundCalls,
         Online4!RefundReverts, Online4!SyncWrites, Online4!CancelReads,
         Online4!CancelWrites, Online4!SaleReads, Online4!SaleCommits,
         Online4!FinalizeReads, Online4!SyncReads, Online4!CustomerPays,
         Online4!PanelRefund, Online4!UpdateServices, Online4!CompleteAppointment,
         Online4!DeleteSale, Online4!Free, Online4!Payable, Online4!Doing, Online4!Ends,
         Online4!Cancelled, Online4!Saves, Online4!Late, Online4!Recorded,
         Online4!RefundExtra, Online4!Remaining, Online4!Claims, Online4!Left,
         Online4!Returns, Online4!Synced, Online4!Returned, Online4!Idle, Panel!Next,
         Panel!StartReads, Panel!StartEnds, Panel!Finalize, Panel!RefundReads,
         Panel!RefundClaims, Panel!RefundCalls, Panel!RefundReverts, Panel!SyncWrites,
         Panel!CancelReads, Panel!CancelWrites, Panel!SaleReads, Panel!SaleCommits,
         Panel!FinalizeReads, Panel!SyncReads, Panel!CustomerPays, Panel!PanelRefund,
         Panel!UpdateServices, Panel!CompleteAppointment, Panel!DeleteSale, Panel!Free,
         Panel!Payable, Panel!Doing, Panel!Ends, Panel!Cancelled, Panel!Saves, Panel!Late,
         Panel!Recorded, Panel!RefundExtra, Panel!Remaining, Panel!Claims, Panel!Left,
         Panel!Returns, Panel!Synced, Panel!Returned, Panel!Idle
<1>3. /\ Online4!TypeOK = Panel!TypeOK
      /\ Online4!RefundsAgree = Panel!RefundsAgree
  BY DEF Online4!TypeOK, Online4!RefundsAgree, Online4!Appointment, Online4!Intent,
         Online4!Job, Online4!Money, Online4!Quiet, Online4!Top, Online4!Idle, Panel!TypeOK,
         Panel!RefundsAgree, Panel!Appointment, Panel!Intent, Panel!Job, Panel!Money,
         Panel!Quiet, Panel!Top, Panel!Idle
<1> QED  BY <1>1, <1>2, <1>3

LEMMA PanelSafe ==
    MCSpec => [](subject = "panel" => Panel!TypeOK /\ Panel!RefundsAgree)
<1> DEFINE Is == subject = "panel"
<1>1. Online4!Tables /\ Online4!Serial
  <2> DEFINE most == 2
  <2>t1. {1, 2} \subseteq Nat \ {0} /\ \E p \in {1, 2} : \A q \in {1, 2} : q <= p
    <3>1. most \in {1, 2} /\ \A q \in {1, 2} : q <= most
      OBVIOUS
    <3> HIDE DEF most
    <3> QED  BY <3>1
  <2>1. Online4!Tables
    BY <2>t1, Named DEF Online4!Tables, Online4!IsFiniteSet, IsFiniteSet
  <2>2. Online4!Serial
    BY DEF Online4!Serial
  <2> QED  BY <2>1, <2>2
<1>2. Online4!Spec => [](Online4!TypeOK /\ Online4!RefundsAgree)
  BY <1>1, Online4!PrepaymentTypeOK, Online4!PrepaymentRefundsAgree, PTL
<1>3. MCInit /\ Is => Online4!Init
  BY PanelSame DEF MCInit
<1>4. Is /\ [MCNext]_mcVars => [Online4!Next]_(Online4!vars)
  <2>1. Is /\ MCNext => Online4!Next
    BY PanelSame DEF MCNext
  <2> QED  BY <2>1 DEF mcVars, Online4!vars
<1>5. (Is /\ [MCNext]_mcVars => Is') /\ (~ Is /\ [MCNext]_mcVars => ~ Is')
  BY SubjectKept
<1>6. Online4!TypeOK /\ Online4!RefundsAgree => Panel!TypeOK /\ Panel!RefundsAgree
  BY PanelSame
<1> HIDE DEF Is
<1>7. MCSpec => [](Is => Panel!TypeOK /\ Panel!RefundsAgree)
  BY <1>2, <1>3, <1>4, <1>5, <1>6, PTL DEF MCSpec, Online4!Spec
<1> QED  BY <1>7 DEF Is

----------------------------------------------------------------------------
(* "invites" *)

LEMMA FriendsSame ==
    /\ Online4!Friends!Init = Friends!Init
    /\ Online4!Friends!Next = Friends!Next
    /\ Online4!Friends!vars = Friends!vars
    /\ Online4!Friends!TypeOK = Friends!TypeOK
    /\ Online4!Friends!FriendRewardedOnce = Friends!FriendRewardedOnce
    /\ Online4!Friends!RewardsWithinLimit = Friends!RewardsWithinLimit
<1>1. /\ Online4!Friends!Init = Friends!Init
      /\ Online4!Friends!vars = Friends!vars
  BY DEF Online4!Friends!Init, Online4!Friends!vars, Online4!Friends!NoInvite,
         Online4!Friends!Idle, Friends!Init, Friends!vars, Friends!NoInvite, Friends!Idle
<1>2. Online4!Friends!Next = Friends!Next
  BY DEF Online4!Friends!Next, Online4!Friends!Register, Online4!Friends!CreateInvite,
         Online4!Friends!RejectOlderAccount, Online4!Friends!AcceptClaims,
         Online4!Friends!AcceptChecks, Online4!Friends!AcceptCommits,
         Online4!Friends!DeadlockEnds, Online4!Friends!RewardCounts,
         Online4!Friends!RewardCommits, Online4!Friends!AcceptReads,
         Online4!Friends!PaymentReads, Online4!Friends!CreateReads,
         Online4!Friends!NoInvite, Online4!Friends!Ends, Online4!Friends!Free,
         Online4!Friends!Goes, Online4!Friends!OfFriend, Online4!Friends!Release,
         Online4!Friends!Others, Online4!Friends!InviterLocked, Online4!Friends!Rewards,
         Online4!Friends!Idle, Online4!Friends!Cardinality, Friends!Next, Friends!Register,
         Friends!CreateInvite, Friends!RejectOlderAccount, Friends!AcceptClaims,
         Friends!AcceptChecks, Friends!AcceptCommits, Friends!DeadlockEnds,
         Friends!RewardCounts, Friends!RewardCommits, Friends!AcceptReads,
         Friends!PaymentReads, Friends!CreateReads, Friends!NoInvite, Friends!Ends,
         Friends!Free, Friends!Goes, Friends!OfFriend, Friends!Release, Friends!Others,
         Friends!InviterLocked, Friends!Rewards, Friends!Idle, Friends!Cardinality
<1>3. /\ Online4!Friends!TypeOK = Friends!TypeOK
      /\ Online4!Friends!FriendRewardedOnce = Friends!FriendRewardedOnce
      /\ Online4!Friends!RewardsWithinLimit = Friends!RewardsWithinLimit
  BY DEF Online4!Friends!TypeOK, Online4!Friends!FriendRewardedOnce,
         Online4!Friends!RewardsWithinLimit, Online4!Friends!Invite, Online4!Friends!Job,
         Online4!Friends!Cardinality, Online4!Friends!OfFriend, Online4!Friends!Rewards,
         Online4!Friends!Ops, Friends!TypeOK, Friends!FriendRewardedOnce,
         Friends!RewardsWithinLimit, Friends!Invite, Friends!Job, Friends!Cardinality,
         Friends!OfFriend, Friends!Rewards, Friends!Ops
<1> QED  BY <1>1, <1>2, <1>3

LEMMA FriendsSafe ==
    MCSpec => [](subject = "invites" => 
                 Friends!TypeOK /\ Friends!FriendRewardedOnce /\
                 Friends!RewardsWithinLimit)
<1> DEFINE Is == subject = "invites"
<1>1. Online4!FriendsTables
  BY Named DEF Online4!FriendsTables, Online4!IsFiniteSet, IsFiniteSet
<1>2. Online4!Friends!Spec => [](Online4!Friends!TypeOK /\ Online4!Friends!FriendRewardedOnce /\ Online4!Friends!RewardsWithinLimit)
  BY <1>1, Online4!FriendInvitesTypeOK, Online4!FriendInvitesRewardedOnce, Online4!FriendInvitesRewardsWithinLimit, PTL
<1>3. MCInit /\ Is => Online4!Friends!Init
  BY FriendsSame DEF MCInit
<1>4. Is /\ [MCNext]_mcVars => [Online4!Friends!Next]_(Online4!Friends!vars)
  <2>1. Is /\ MCNext => Online4!Friends!Next
    BY FriendsSame DEF MCNext
  <2> QED  BY <2>1 DEF mcVars, Online4!Friends!vars
<1>5. (Is /\ [MCNext]_mcVars => Is') /\ (~ Is /\ [MCNext]_mcVars => ~ Is')
  BY SubjectKept
<1>6. Online4!Friends!TypeOK /\ Online4!Friends!FriendRewardedOnce /\ Online4!Friends!RewardsWithinLimit => Friends!TypeOK /\ Friends!FriendRewardedOnce /\ Friends!RewardsWithinLimit
  BY FriendsSame
<1> HIDE DEF Is
<1>7. MCSpec => [](Is => Friends!TypeOK /\ Friends!FriendRewardedOnce /\ Friends!RewardsWithinLimit)
  BY <1>2, <1>3, <1>4, <1>5, <1>6, PTL DEF MCSpec, Online4!Friends!Spec
<1> QED  BY <1>7 DEF Is

----------------------------------------------------------------------------
(* The proofs of OnlineProofs, for the parameters of refund. *)
Online5 == INSTANCE OnlineProofs WITH
    PlanPart <- "renewal", MaxClock <- 3, MaxTries <- 2, PlanFaults <- {}, User <- None,
    PlanIntentId <- None, MaxUses <- None, clock <- v1, sub <- v2, PlanFree <- v3,
    rows <- v4, charges <- v5, upgrades <- v6, PlanJob <- v7, rewound <- v8, plans <- v9,
    PlanUsed <- v10, usedCount <- v11, held <- v12, intents <- v13, payments <- v14

(* "refund" *)

LEMMA RefundSame ==
    /\ Online5!Plan!Init = Refund!Init
    /\ Online5!Plan!Next = Refund!Next
    /\ Online5!Plan!vars = Refund!vars
    /\ Online5!Plan!TypeOK = Refund!TypeOK
    /\ Online5!Plan!RefundEndsPlan = Refund!RefundEndsPlan
<1>1. /\ Online5!Plan!Init = Refund!Init
      /\ Online5!Plan!vars = Refund!vars
  BY DEF Online5!Plan!Init, Online5!Plan!vars, Online5!Plan!RenewalInit, Online5!Plan!Cycle,
         Online5!Plan!Key, Online5!Plan!NoRow, Online5!Plan!Period,
         Online5!Plan!RenewalIdle, Refund!Init, Refund!vars, Refund!RenewalInit,
         Refund!Cycle, Refund!Key, Refund!NoRow, Refund!Period, Refund!RenewalIdle
<1>2. Online5!Plan!Next = Refund!Next
  BY DEF Online5!Plan!Next, Online5!Plan!RenewalNext, Online5!Plan!Tick,
         Online5!Plan!UndoScheduled, Online5!Plan!ScheduleSmaller, Online5!Plan!Key,
         Online5!Plan!BankAnswers, Online5!Plan!Period, Online5!Plan!RefundUpgrade,
         Online5!Plan!RenewClaims, Online5!Plan!RenewCharges,
         Online5!Plan!ReconcileRenewalPayment, Online5!Plan!FinalizeRenewalPayment,
         Online5!Plan!MarkRenewalFailed, Online5!Plan!ExpireSubscription,
         Online5!Plan!Crash, Online5!Plan!Unsubscribe, Online5!Plan!RefundCloses,
         Online5!Plan!UpgradeReads, Online5!Plan!ChargeUpgrade, Online5!Plan!UpgradeRecords,
         Online5!Plan!UpgradeSwitches, Online5!Plan!RenewReads, Online5!Plan!Webhook,
         Online5!Plan!RefundPlanPayment, Online5!Plan!Cycle, Online5!Plan!Tried,
         Online5!Plan!Attempt, Online5!Plan!TriedToday, Online5!Plan!RenewalEnds,
         Online5!Plan!Grace, Online5!Plan!Goes, Online5!Plan!Charging,
         Online5!Plan!MovesPeriod, Online5!Plan!RenewalIdle, Online5!Plan!IsLatest,
         Online5!Plan!Due, Online5!Plan!Cardinality, Online5!Plan!Settled, Refund!Next,
         Refund!RenewalNext, Refund!Tick, Refund!UndoScheduled, Refund!ScheduleSmaller,
         Refund!Key, Refund!BankAnswers, Refund!Period, Refund!RefundUpgrade,
         Refund!RenewClaims, Refund!RenewCharges, Refund!ReconcileRenewalPayment,
         Refund!FinalizeRenewalPayment, Refund!MarkRenewalFailed, Refund!ExpireSubscription,
         Refund!Crash, Refund!Unsubscribe, Refund!RefundCloses, Refund!UpgradeReads,
         Refund!ChargeUpgrade, Refund!UpgradeRecords, Refund!UpgradeSwitches,
         Refund!RenewReads, Refund!Webhook, Refund!RefundPlanPayment, Refund!Cycle,
         Refund!Tried, Refund!Attempt, Refund!TriedToday, Refund!RenewalEnds, Refund!Grace,
         Refund!Goes, Refund!Charging, Refund!MovesPeriod, Refund!RenewalIdle,
         Refund!IsLatest, Refund!Due, Refund!Cardinality, Refund!Settled
<1>3. /\ Online5!Plan!TypeOK = Refund!TypeOK
      /\ Online5!Plan!RefundEndsPlan = Refund!RefundEndsPlan
  BY DEF Online5!Plan!TypeOK, Online5!Plan!RefundEndsPlan, Online5!Plan!RenewalTypeOK,
         Online5!Plan!Key, Online5!Plan!Cycle, Online5!Plan!RenewalIdle, Online5!Plan!Sub,
         Online5!Plan!Row, Online5!Plan!Period, Online5!Plan!RenewalJob,
         Online5!Plan!Status, Online5!Plan!RenewalOps, Refund!TypeOK, Refund!RefundEndsPlan,
         Refund!RenewalTypeOK, Refund!Key, Refund!Cycle, Refund!RenewalIdle, Refund!Sub,
         Refund!Row, Refund!Period, Refund!RenewalJob, Refund!Status, Refund!RenewalOps
<1> QED  BY <1>1, <1>2, <1>3

LEMMA RefundSafe ==
    MCSpec => [](subject = "refund" => Refund!TypeOK /\ Refund!RefundEndsPlan)
<1> DEFINE Is == subject = "refund"
<1>1. Online5!Uninterrupted /\ Online5!OfRenewal
  <2>1. Online5!Uninterrupted
    BY Named DEF Online5!Uninterrupted, Online5!OfRenewal
  <2>2. Online5!OfRenewal
    BY Named DEF Online5!OfRenewal
  <2> QED  BY <2>1, <2>2
<1>2. Online5!Plan!Spec => [](Online5!Plan!TypeOK /\ Online5!Plan!RefundEndsPlan)
  BY <1>1, Online5!RenewalTypes, Online5!RefundedPlanEnds, PTL
<1>3. MCInit /\ Is => Online5!Plan!Init
  BY RefundSame DEF MCInit
<1>4. Is /\ [MCNext]_mcVars => [Online5!Plan!Next]_(Online5!Plan!vars)
  <2>1. Is /\ MCNext => Online5!Plan!Next
    BY RefundSame DEF MCNext
  <2> QED  BY <2>1 DEF mcVars, Online5!Plan!vars
<1>5. (Is /\ [MCNext]_mcVars => Is') /\ (~ Is /\ [MCNext]_mcVars => ~ Is')
  BY SubjectKept
<1>6. Online5!Plan!TypeOK /\ Online5!Plan!RefundEndsPlan => Refund!TypeOK /\ Refund!RefundEndsPlan
  BY RefundSame
<1> HIDE DEF Is
<1>7. MCSpec => [](Is => Refund!TypeOK /\ Refund!RefundEndsPlan)
  BY <1>2, <1>3, <1>4, <1>5, <1>6, PTL DEF MCSpec, Online5!Plan!Spec
<1> QED  BY <1>7 DEF Is

----------------------------------------------------------------------------

LEMMA AlwaysPromised == MCSpec => []Promised
<1>1. MCSpec => []PromisedByPrepayment
  BY PrepaidSafe, BillSafe, OverlapBillSafe, PanelSafe, PTL DEF PromisedByPrepayment
<1>2. MCSpec => []PromisedByPlan
  BY RenewSafe, ChangeSafe, RefundSafe, CouponSafe, BuySafe, PTL DEF PromisedByPlan
<1>3. MCSpec => []PromisedByOthers
  BY FriendsSafe, ProMonthsSafe, SoloAgendaSafe, SoloRaceSafe, PTL DEF PromisedByOthers
<1> QED  BY <1>1, <1>2, <1>3, PTL DEF Promised

(* What is paid online keeps its types, whatever overlaps: what start,      *)
(* finalize, renewSubscription, confirmCheckout, accept and claim write is  *)
(* what the rows, the payments and the requests may hold.                   *)
THEOREM OnlineTypes == MCSpec => []TypesOK
BY AlwaysPromised, PromisedTypes, OneSubject, PTL

(* One purchase takes money once, and money that was taken bought something *)
(* or went back, for any number of requests and payments                    *)
(* (PrepaymentService.finalize and refundExtra, renewSubscription,          *)
(* confirmCheckout).                                                        *)
THEOREM OnlineMoneyTakenOnce == MCSpec => []MoneyTakenOnce
BY AlwaysPromised, PromisedMoneyTakenOnce, PTL

(* What the rows grant is what Stripe holds and what referrals earned: the  *)
(* refunds of an appointment, the period of a renewal, the plan after a     *)
(* refund, the months of Pro, the one agenda of a person (syncStripeRefund, *)
(* closeRefundedSubscription, ProReferralService, SoloService).             *)
THEOREM OnlineGrantsBacked == MCSpec => []GrantsBacked
BY AlwaysPromised, PromisedGrantsBacked, PTL

(* A coupon, the rewards of friends and of referrals and the quota of a     *)
(* solo agenda stay within their limits, though checkouts, deadlines and    *)
(* acceptances overlap (CouponsService.reserve, claimUse,                   *)
(* FriendInviteService).                                                    *)
THEOREM OnlineRewardsWithinLimits == MCSpec => []RewardsWithinLimits
BY AlwaysPromised, PromisedRewardsWithinLimits, PTL
=============================================================================
