------------------------------ MODULE MCOnline ------------------------------
(***************************************************************************)
(* Small instances of what is paid online: the appointment paid ahead, the *)
(* plan of the platform and its coupon, and the invitation of friends.     *)
(* They share no rows, so a behaviour is about one subject, and v1 .. v14  *)
(* hold the state of that subject.                                         *)
(***************************************************************************)
EXTENDS Integers, FiniteSets, TLC

CONSTANTS
    Worker,  \* two requests at a time
    Two,     \* two row ids
    Three,   \* three row ids
    None

VARIABLES subject, v1, v2, v3, v4, v5, v6, v7, v8, v9, v10, v11, v12, v13, v14

mcVars == <<subject, v1, v2, v3, v4, v5, v6, v7, v8, v9, v10, v11, v12, v13, v14>>

(* Requests run together *)
Prepaid == INSTANCE Prepayment WITH
    IntentId <- Two, Prices <- {1, 2}, Faults <- {"overlap"},
    appt <- v1, intent <- v2, keys <- v3, price <- v4, news <- v5, heard <- v6, job <- v7

(* The bill is closed meanwhile, one request at a time *)
Bill == INSTANCE Prepayment WITH
    IntentId <- Two, Prices <- {1, 2}, Faults <- {"bill"},
    appt <- v1, intent <- v2, keys <- v3, price <- v4, news <- v5, heard <- v6, job <- v7

(* The bill is closed while requests run together *)
OverlapBill == INSTANCE Prepayment WITH
    IntentId <- Two, Prices <- {1, 2}, Faults <- {"overlap", "bill"},
    appt <- v1, intent <- v2, keys <- v3, price <- v4, news <- v5, heard <- v6, job <- v7

(* Refunds on the panel of Stripe, and answers that are lost *)
Panel == INSTANCE Prepayment WITH
    IntentId <- Two, Prices <- {1, 2}, Faults <- {"panel", "lost"},
    appt <- v1, intent <- v2, keys <- v3, price <- v4, news <- v5, heard <- v6, job <- v7

(* Any run may crash *)
Renew == INSTANCE PlatformPlan WITH
    Part <- "renewal", MaxClock <- 3, MaxTries <- 2, Faults <- {"crash"}, User <- None,
    IntentId <- None, MaxUses <- None,
    clock <- v1, sub <- v2, free <- v3, rows <- v4, charges <- v5, upgrades <- v6,
    job <- v7, rewound <- v8, plans <- v9, used <- v10, usedCount <- v11, held <- v12,
    intents <- v13, payments <- v14

(* The plan is changed meanwhile *)
Change == INSTANCE PlatformPlan WITH
    Part <- "renewal", MaxClock <- 3, MaxTries <- 2, Faults <- {"upgrade", "plans"},
    User <- None, IntentId <- None, MaxUses <- None,
    clock <- v1, sub <- v2, free <- v3, rows <- v4, charges <- v5, upgrades <- v6,
    job <- v7, rewound <- v8, plans <- v9, used <- v10, usedCount <- v11, held <- v12,
    intents <- v13, payments <- v14

(* Nothing but renewals, cancellations and refunds *)
Refund == INSTANCE PlatformPlan WITH
    Part <- "renewal", MaxClock <- 3, MaxTries <- 2, Faults <- {}, User <- None,
    IntentId <- None, MaxUses <- None,
    clock <- v1, sub <- v2, free <- v3, rows <- v4, charges <- v5, upgrades <- v6,
    job <- v7, rewound <- v8, plans <- v9, used <- v10, usedCount <- v11, held <- v12,
    intents <- v13, payments <- v14

(* Checkouts overlap, Stripe may refuse *)
Coupon == INSTANCE PlatformPlan WITH
    Part <- "checkout", User <- Two, IntentId <- Three, MaxUses <- 1,
    Faults <- {"lost", "overlap"}, MaxClock <- None, MaxTries <- None,
    clock <- v1, sub <- v2, free <- v3, rows <- v4, charges <- v5, upgrades <- v6,
    job <- v7, rewound <- v8, plans <- v9, used <- v10, usedCount <- v11, held <- v12,
    intents <- v13, payments <- v14

(* One transaction of a user at a time *)
Buy == INSTANCE PlatformPlan WITH
    Part <- "checkout", User <- Two, IntentId <- {"i1", "i2"}, MaxUses <- 1,
    Faults <- {"lost"}, MaxClock <- None, MaxTries <- None,
    clock <- v1, sub <- v2, free <- v3, rows <- v4, charges <- v5, upgrades <- v6,
    job <- v7, rewound <- v8, plans <- v9, used <- v10, usedCount <- v11, held <- v12,
    intents <- v13, payments <- v14

(* Two people invite two friends *)
Friends == INSTANCE FriendInvites WITH
    Inviter <- Two, Friend <- {"f1", "f2"}, InviteId <- Three, MaxRewards <- 1,
    registered <- v1, invites <- v2, paid <- v3, rowLock <- v4, job <- v5

(* Three professionals refer each other, one month at most *)
ProMonths == INSTANCE SoloAgenda WITH
    Part <- "referral", UserId <- {1, 2, 3}, MaxMonths <- 1, NewFor <- 0, MaxTime <- 1,
    ShopId <- None, RowId <- None, Limit <- None, LastMonth <- None, Overlap <- None,
    month <- v1, shop <- v2, pro <- v3, row <- v4, late <- v5, req <- v6, now <- v7,
    proUntil <- v8, created <- v9, same <- v10, referral <- v11, served <- v12, used <- v13

(* Two solo agendas, one request at a time *)
SoloAgenda == INSTANCE SoloAgenda WITH
    Part <- "agenda", ShopId <- {1, 2}, RowId <- Three, Limit <- 1, LastMonth <- 1,
    Overlap <- FALSE, UserId <- None, MaxMonths <- None, NewFor <- None, MaxTime <- None,
    month <- v1, shop <- v2, pro <- v3, row <- v4, late <- v5, req <- v6, now <- v7,
    proUntil <- v8, created <- v9, same <- v10, referral <- v11, served <- v12, used <- v13

(* Two solo agendas, requests run together *)
SoloRace == INSTANCE SoloAgenda WITH
    Part <- "agenda", ShopId <- {1, 2}, RowId <- Two, Limit <- 1, LastMonth <- 1,
    Overlap <- TRUE, UserId <- None, MaxMonths <- None, NewFor <- None, MaxTime <- None,
    month <- v1, shop <- v2, pro <- v3, row <- v4, late <- v5, req <- v6, now <- v7,
    proUntil <- v8, created <- v9, same <- v10, referral <- v11, served <- v12, used <- v13

(* Requests and rows are finitely many, and None is none of them. *)
ASSUME Named ==
    /\ IsFiniteSet(Worker) /\ IsFiniteSet(Two) /\ IsFiniteSet(Three)
    /\ None \notin Worker /\ None \notin Two /\ None \notin Three
    /\ None # 1 /\ None \notin {"f1", "f2"} /\ None \notin {"i1", "i2"}
    /\ None \notin ProMonths!ProReferralRow
    /\ None \notin SoloAgenda!Rows /\ None \notin SoloRace!Rows

MCInit ==
    \/ subject = "prepaid" /\ Prepaid!Init /\ v8 = None /\ v9 = None /\ v10 = None /\ v11 = None /\ v12 = None /\ v13 = None /\ v14 = None
    \/ subject = "bill" /\ Bill!Init /\ v8 = None /\ v9 = None /\ v10 = None /\ v11 = None /\ v12 = None /\ v13 = None /\ v14 = None
    \/ subject = "overlapBill" /\ OverlapBill!Init /\ v8 = None /\ v9 = None /\ v10 = None /\ v11 = None /\ v12 = None /\ v13 = None /\ v14 = None
    \/ subject = "panel" /\ Panel!Init /\ v8 = None /\ v9 = None /\ v10 = None /\ v11 = None /\ v12 = None /\ v13 = None /\ v14 = None
    \/ subject = "renewal" /\ Renew!Init
    \/ subject = "change" /\ Change!Init
    \/ subject = "refund" /\ Refund!Init
    \/ subject = "coupon" /\ Coupon!Init
    \/ subject = "checkout" /\ Buy!Init
    \/ subject = "invites" /\ Friends!Init /\ v6 = None /\ v7 = None /\ v8 = None /\ v9 = None /\ v10 = None /\ v11 = None /\ v12 = None /\ v13 = None /\ v14 = None
    \/ subject = "proReferral" /\ ProMonths!Init /\ v14 = None
    \/ subject = "solo" /\ SoloAgenda!Init /\ v14 = None
    \/ subject = "soloRace" /\ SoloRace!Init /\ v14 = None

MCNext ==
    /\ \/ subject = "prepaid" /\ Prepaid!Next /\ UNCHANGED <<v8, v9, v10, v11, v12, v13, v14>>
       \/ subject = "bill" /\ Bill!Next /\ UNCHANGED <<v8, v9, v10, v11, v12, v13, v14>>
       \/ subject = "overlapBill" /\ OverlapBill!Next /\ UNCHANGED <<v8, v9, v10, v11, v12, v13, v14>>
       \/ subject = "panel" /\ Panel!Next /\ UNCHANGED <<v8, v9, v10, v11, v12, v13, v14>>
       \/ subject = "renewal" /\ Renew!Next
       \/ subject = "change" /\ Change!Next
       \/ subject = "refund" /\ Refund!Next
       \/ subject = "coupon" /\ Coupon!Next
       \/ subject = "checkout" /\ Buy!Next
       \/ subject = "invites" /\ Friends!Next /\ UNCHANGED <<v6, v7, v8, v9, v10, v11, v12, v13, v14>>
       \/ subject = "proReferral" /\ ProMonths!Next /\ UNCHANGED v14
       \/ subject = "solo" /\ SoloAgenda!Next /\ UNCHANGED v14
       \/ subject = "soloRace" /\ SoloRace!Next /\ UNCHANGED v14
    /\ UNCHANGED subject

MCSpec == MCInit /\ [][MCNext]_mcVars

(* The state of every subject is of its type. *)
TypesOK ==
    CASE subject = "prepaid" -> Prepaid!TypeOK
      [] subject = "bill" -> Bill!TypeOK
      [] subject = "overlapBill" -> OverlapBill!TypeOK
      [] subject = "panel" -> Panel!TypeOK
      [] subject = "renewal" -> Renew!TypeOK
      [] subject = "change" -> Change!TypeOK
      [] subject = "refund" -> Refund!TypeOK
      [] subject = "coupon" -> Coupon!TypeOK
      [] subject = "checkout" -> Buy!TypeOK
      [] subject = "invites" -> Friends!TypeOK
      [] subject = "proReferral" -> ProMonths!TypeOK
      [] subject = "solo" -> SoloAgenda!TypeOK
      [] subject = "soloRace" -> SoloRace!TypeOK

(* One purchase takes money once, and money that was taken bought something *)
(* or went back: the payment of an appointment, a period of the plan, a     *)
(* checkout with a coupon (PrepaymentService.finalize and refundExtra,      *)
(* renewSubscription, confirmCheckout).                                     *)
MoneyTakenOnce ==
    /\ subject = "prepaid" => Prepaid!ChargedOnce
    /\ subject = "bill" => Bill!ChargedOnce /\ Bill!PrepaymentSettled
    /\ subject = "overlapBill" => OverlapBill!ChargedOnce
    /\ subject = "renewal" => Renew!PeriodChargedOnce
    /\ subject = "change" => Change!PeriodChargedOnce
    /\ subject = "coupon" => Coupon!CheckoutSettled
    /\ subject = "checkout" => Buy!CheckoutSettled /\ Buy!OnePaidPlan

(* What the rows grant is what Stripe holds: refunds agree with the         *)
(* appointment, a renewal with its period, and a refund of the current      *)
(* period ends the plan (syncStripeRefund, closeRefundedSubscription); the  *)
(* months of Pro of a professional are the ones that referrals earned, and  *)
(* a person has one solo agenda (ProReferralService, SoloService).          *)
GrantsBacked ==
    /\ subject = "prepaid" => Prepaid!RefundsAgree
    /\ subject = "bill" => Bill!RefundsAgree
    /\ subject = "panel" => Panel!RefundsAgree
    /\ subject = "renewal" => Renew!PaidRenewalCounts
    /\ subject = "change" => Change!PaidRenewalCounts
    /\ subject = "refund" => Refund!RefundEndsPlan
    /\ subject = "proReferral" => ProMonths!MonthsAddUp
    /\ subject = "solo" => SoloAgenda!OneSoloAgenda
    /\ subject = "soloRace" => SoloRace!OneSoloAgenda

(* A coupon is used at most as often as it allows and once per user, a      *)
(* friend is rewarded once and an inviter up to the limit, a referral of a  *)
(* professional too, and a solo agenda keeps its quota of bookings, though  *)
(* checkouts, deadlines and acceptances overlap (CouponsService.reserve,    *)
(* claimUse, FriendInviteService).                                          *)
RewardsWithinLimits ==
    /\ subject = "coupon" => Coupon!CouponWithinLimit
    /\ subject = "invites" => Friends!FriendRewardedOnce /\ Friends!RewardsWithinLimit
    /\ subject = "proReferral" => ProMonths!ReferralsHonest
    /\ subject = "solo" => SoloAgenda!QuotaHolds
    /\ subject = "soloRace" => SoloRace!QuotaHolds

MCSymmetry == Permutations(Worker) \cup Permutations(Two)
=============================================================================
