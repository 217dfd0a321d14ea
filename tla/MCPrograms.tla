----------------------------- MODULE MCPrograms -----------------------------
(***************************************************************************)
(* Small instances of what a shop sells ahead, of what it owes and is      *)
(* owed, and of its counter: packages, the club, the payroll and the rent  *)
(* of a chair, the end of a shop, fees of who did not come, the free times *)
(* of its agenda, featured places and tips. Each part keeps its own rows   *)
(* and shares none with the others, so a behaviour is about one subject,   *)
(* and v1 .. v14 hold the state of that subject.                           *)
(***************************************************************************)
EXTENDS Integers, FiniteSets, TLC

CONSTANTS
    Worker,  \* two requests at a time
    One,     \* one row id
    Two,     \* two row ids
    Three,   \* three row ids
    None

VARIABLES subject, v1, v2, v3, v4, v5, v6, v7, v8, v9, v10, v11, v12, v13, v14

mcVars == <<subject, v1, v2, v3, v4, v5, v6, v7, v8, v9, v10, v11, v12, v13, v14>>

RentOnly == [e \in One |-> "rent"]
ByDay == [d \in {1, 2} |-> d]

\* Hours are [start, end); a shift may have a break.
OwnShift(on, from, to, b, e) == [on |-> on, s |-> from, e |-> to, bs |-> b, be |-> e]
ShopHours == {[s |-> 0, e |-> 4], [s |-> 1, e |-> 3]}
OwnShifts ==
    {OwnShift(TRUE, 0, 4, 1, 2), OwnShift(TRUE, 1, 4, None, None), OwnShift(FALSE, 0, 0, None, None)}
OtherShift == {OwnShift(TRUE, 2, 4, None, None)}

(* Two sessions, three uses of them, two crashes *)
Pack == INSTANCE SessionsSold WITH
    Part <- "package", UseId <- Three, MaxCrashes <- 2, TotalSessions <- 2, Limit <- None,
    LastCycle <- None,
    pkg <- v1, uses <- v2, job <- v3, lost <- v4, kept <- v5, overlap <- v6, sub <- v7,
    charged <- v8, paid <- v9, blurred <- v10

(* One session a month, two months *)
Club == INSTANCE SessionsSold WITH
    Part <- "club", UseId <- Three, Limit <- 1, LastCycle <- 2, MaxCrashes <- None,
    TotalSessions <- None,
    pkg <- v1, uses <- v2, job <- v3, lost <- v4, kept <- v5, overlap <- v6, sub <- v7,
    charged <- v8, paid <- v9, blurred <- v10

(* One subscription, paused by the shop and by the network *)
Pause == INSTANCE ClubBilling WITH
    SubId <- One, Reason <- {"shop", "network"}, CyclePaid <- 2,
    row <- v1, stripe <- v2, key <- v3, job <- v4, forgotten <- v5, crossed <- v6

(* Two subscriptions asked for one after the other *)
Join == INSTANCE ClubBilling WITH
    SubId <- Two, Reason <- {}, CyclePaid <- 1,
    row <- v1, stripe <- v2, key <- v3, job <- v4, forgotten <- v5, crossed <- v6

(* Two days, worth 1 and 2 *)
Pay == INSTANCE Payroll WITH
    EntryId <- Two, PayoutId <- Two, Day <- {1, 2}, Commission <- ByDay,
    PayTypes <- {"GREATER_OF"}, FixedPerDay <- 1, Types <- {"TIP", "ADVANCE"},
    Amounts <- {2},
    payType <- v1, entries <- v2, payouts <- v3, job <- v4, raced <- v5

(* Two subscriptions, two prices *)
Chair == INSTANCE ChairRent WITH
    Part <- "link", SubId <- Two, PriceId <- {"p1", "p2"}, Amounts <- {1, 2}, DueId <- None,
    InvoiceId <- None, Rent <- None, Together <- None,
    link <- v1, stripe <- v2, key <- v3, agreed <- v4, answers <- v5, stranded <- v6,
    today <- v7, due <- v8, invoice <- v9, paidUntil <- v10, expense <- v11, told <- v12,
    drawer <- v13, job <- v14

(* Two months by hand, one invoice of the card *)
Rents == INSTANCE ChairRent WITH
    Part <- "dues", DueId <- {1, 2}, InvoiceId <- One, Rent <- 2,
    Together <- {"dues", "record", "expense", "overdue"}, SubId <- None, PriceId <- None,
    Amounts <- None,
    link <- v1, stripe <- v2, key <- v3, agreed <- v4, answers <- v5, stranded <- v6,
    today <- v7, due <- v8, invoice <- v9, paidUntil <- v10, expense <- v11, told <- v12,
    drawer <- v13, job <- v14

(* A rent is received in cash while sessions are closed *)
Drawer == INSTANCE CashDrawer WITH
    Session <- Two, Entry <- One, KindOf <- RentOnly, MaxAmount <- 1, Overlap <- TRUE,
    status <- v1, expected <- v2, entries <- v3, lock <- v4, pc <- v5, call <- v6

(* A shop ends with two subscriptions, Stripe may refuse *)
Closing == INSTANCE Endings WITH
    Part <- "closing", ApptId <- One, SubId <- Two, Requests <- 2, Faults <- {"cancel"},
    RowId <- None, Kind <- None, Batch <- None, MaxTime <- None, Overlap <- None,
    shop <- v1, appt <- v2, sub <- v3, link <- v4, pack <- v5, owner <- v6, made <- v7,
    req <- v8, now <- v9, rows <- v10, lost <- v11, job <- v12

(* A shop ends with two deposits, refunds may fail *)
Refunds == INSTANCE Endings WITH
    Part <- "closing", ApptId <- Two, SubId <- One, Requests <- 3,
    Faults <- {"cancel", "refund"}, RowId <- None, Kind <- None, Batch <- None,
    MaxTime <- None, Overlap <- None,
    shop <- v1, appt <- v2, sub <- v3, link <- v4, pack <- v5, owner <- v6, made <- v7,
    req <- v8, now <- v9, rows <- v10, lost <- v11, job <- v12

(* Two requests end the shop together *)
Twice == INSTANCE Endings WITH
    Part <- "closing", ApptId <- Two, SubId <- One, Requests <- 2, Faults <- {"together"},
    RowId <- None, Kind <- None, Batch <- None, MaxTime <- None, Overlap <- None,
    shop <- v1, appt <- v2, sub <- v3, link <- v4, pack <- v5, owner <- v6, made <- v7,
    req <- v8, now <- v9, rows <- v10, lost <- v11, job <- v12

(* One professional, one day *)
Slots == INSTANCE Slots WITH
    Barber <- One, ApptId <- {"a"}, OffId <- {"o"}, Worker <- {"w"}, Hours <- ShopHours,
    Shifts <- OwnShifts, Elsewhere <- {}, Days <- {1}, LastDay <- 1, Cutoff <- 0, Grid <- 2,
    Durations <- {1, 2}, Overlap <- FALSE,
    hours <- v1, shift <- v2, elsewhere <- v3, closure <- v4, off <- v5, appt <- v6,
    req <- v7

(* Two professionals, one of another shop as well *)
Shifts == INSTANCE Slots WITH
    Barber <- Two, ApptId <- {}, OffId <- {}, Worker <- {"w"}, Hours <- ShopHours,
    Shifts <- OwnShifts, Elsewhere <- OtherShift, Days <- {1, 2}, LastDay <- 2, Cutoff <- 1,
    Grid <- 2, Durations <- {2}, Overlap <- FALSE,
    hours <- v1, shift <- v2, elsewhere <- v3, closure <- v4, off <- v5, appt <- v6,
    req <- v7

(* Two purchases, requests run together *)
Feat == INSTANCE Featured WITH
    PurchaseId <- Two, Offers <- {1}, Overlap <- TRUE,
    purchase <- v1, charge <- v2, offer <- v3, left <- v4, tip <- v5, dispute <- v6,
    job <- v7, crossed <- v8

(* The offer changes, one request at a time *)
Offer == INSTANCE Featured WITH
    Worker <- {"w"}, PurchaseId <- One, Offers <- {1, 2}, Overlap <- FALSE,
    purchase <- v1, charge <- v2, offer <- v3, left <- v4, tip <- v5, dispute <- v6,
    job <- v7, crossed <- v8

(* The status of one appointment changes four times *)
NoShow == INSTANCE NoShowFees WITH
    Fee <- 2, Dep <- 1, Pre <- 3, Changes <- 4, Faults <- {},
    status <- v1, deposit <- v2, prepaid <- v3, fee <- v4, sales <- v5, changes <- v6,
    req <- v7

(* Requests run together, Stripe may refuse *)
FeeRace == INSTANCE NoShowFees WITH
    Fee <- 2, Dep <- 1, Pre <- 2, Changes <- 2, Faults <- {"overlap", "undo", "stripe"},
    status <- v1, deposit <- v2, prepaid <- v3, fee <- v4, sales <- v5, changes <- v6,
    req <- v7

(* Requests and rows are finitely many, None is none of them, and the rows  *)
(* of the card are not the months.                                          *)
ASSUME Named ==
    /\ IsFiniteSet(Worker) /\ IsFiniteSet(One) /\ IsFiniteSet(Two) /\ IsFiniteSet(Three)
    /\ None \notin Worker /\ None \notin One /\ None \notin Two /\ None \notin Three
    /\ None \notin {1, 2} /\ None \notin {"paid", "w"} /\ One \cap {1, 2} = {}

MCInit ==
    \/ subject = "packages" /\ Pack!Init /\ v11 = None /\ v12 = None /\ v13 = None /\ v14 = None
    \/ subject = "sessions" /\ Club!Init /\ v11 = None /\ v12 = None /\ v13 = None /\ v14 = None
    \/ subject = "pause" /\ Pause!Init /\ v7 = None /\ v8 = None /\ v9 = None /\ v10 = None /\ v11 = None /\ v12 = None /\ v13 = None /\ v14 = None
    \/ subject = "join" /\ Join!Init /\ v7 = None /\ v8 = None /\ v9 = None /\ v10 = None /\ v11 = None /\ v12 = None /\ v13 = None /\ v14 = None
    \/ subject = "payroll" /\ Pay!Init /\ v6 = None /\ v7 = None /\ v8 = None /\ v9 = None /\ v10 = None /\ v11 = None /\ v12 = None /\ v13 = None /\ v14 = None
    \/ subject = "chair" /\ Chair!Init
    \/ subject = "rents" /\ Rents!Init
    \/ subject = "drawer" /\ Drawer!Init /\ v7 = None /\ v8 = None /\ v9 = None /\ v10 = None /\ v11 = None /\ v12 = None /\ v13 = None /\ v14 = None
    \/ subject = "closing" /\ Closing!Init /\ v13 = None /\ v14 = None
    \/ subject = "refunds" /\ Refunds!Init /\ v13 = None /\ v14 = None
    \/ subject = "twice" /\ Twice!Init /\ v13 = None /\ v14 = None
    \/ subject = "slots" /\ Slots!Init /\ v8 = None /\ v9 = None /\ v10 = None /\ v11 = None /\ v12 = None /\ v13 = None /\ v14 = None
    \/ subject = "shifts" /\ Shifts!Init /\ v8 = None /\ v9 = None /\ v10 = None /\ v11 = None /\ v12 = None /\ v13 = None /\ v14 = None
    \/ subject = "featured" /\ Feat!Init /\ v9 = None /\ v10 = None /\ v11 = None /\ v12 = None /\ v13 = None /\ v14 = None
    \/ subject = "offers" /\ Offer!Init /\ v9 = None /\ v10 = None /\ v11 = None /\ v12 = None /\ v13 = None /\ v14 = None
    \/ subject = "noShow" /\ NoShow!Init /\ v8 = None /\ v9 = None /\ v10 = None /\ v11 = None /\ v12 = None /\ v13 = None /\ v14 = None
    \/ subject = "feeRace" /\ FeeRace!Init /\ v8 = None /\ v9 = None /\ v10 = None /\ v11 = None /\ v12 = None /\ v13 = None /\ v14 = None

MCNext ==
    /\ \/ subject = "packages" /\ Pack!Next /\ UNCHANGED <<v11, v12, v13, v14>>
       \/ subject = "sessions" /\ Club!Next /\ UNCHANGED <<v11, v12, v13, v14>>
       \/ subject = "pause" /\ Pause!Next /\ UNCHANGED <<v7, v8, v9, v10, v11, v12, v13, v14>>
       \/ subject = "join" /\ Join!Next /\ UNCHANGED <<v7, v8, v9, v10, v11, v12, v13, v14>>
       \/ subject = "payroll" /\ Pay!Next /\ UNCHANGED <<v6, v7, v8, v9, v10, v11, v12, v13, v14>>
       \/ subject = "chair" /\ Chair!Next
       \/ subject = "rents" /\ Rents!Next
       \/ subject = "drawer" /\ Drawer!Next /\ UNCHANGED <<v7, v8, v9, v10, v11, v12, v13, v14>>
       \/ subject = "closing" /\ Closing!Next /\ UNCHANGED <<v13, v14>>
       \/ subject = "refunds" /\ Refunds!Next /\ UNCHANGED <<v13, v14>>
       \/ subject = "twice" /\ Twice!Next /\ UNCHANGED <<v13, v14>>
       \/ subject = "slots" /\ Slots!Next /\ UNCHANGED <<v8, v9, v10, v11, v12, v13, v14>>
       \/ subject = "shifts" /\ Shifts!Next /\ UNCHANGED <<v8, v9, v10, v11, v12, v13, v14>>
       \/ subject = "featured" /\ Feat!Next /\ UNCHANGED <<v9, v10, v11, v12, v13, v14>>
       \/ subject = "offers" /\ Offer!Next /\ UNCHANGED <<v9, v10, v11, v12, v13, v14>>
       \/ subject = "noShow" /\ NoShow!Next /\ UNCHANGED <<v8, v9, v10, v11, v12, v13, v14>>
       \/ subject = "feeRace" /\ FeeRace!Next /\ UNCHANGED <<v8, v9, v10, v11, v12, v13, v14>>
    /\ UNCHANGED subject

MCSpec == MCInit /\ [][MCNext]_mcVars

(* The state of every subject is of its type. *)
TypesOK ==
    CASE subject = "packages" -> Pack!TypeOK
      [] subject = "sessions" -> Club!TypeOK
      [] subject = "pause" -> Pause!TypeOK
      [] subject = "join" -> Join!TypeOK
      [] subject = "payroll" -> Pay!TypeOK
      [] subject = "chair" -> Chair!TypeOK
      [] subject = "rents" -> Rents!TypeOK
      [] subject = "drawer" -> Drawer!TypeOK
      [] subject = "closing" -> Closing!TypeOK
      [] subject = "refunds" -> Refunds!TypeOK
      [] subject = "twice" -> Twice!TypeOK
      [] subject = "slots" -> Slots!TypeOK
      [] subject = "shifts" -> Shifts!TypeOK
      [] subject = "featured" -> Feat!TypeOK
      [] subject = "offers" -> Offer!TypeOK
      [] subject = "noShow" -> NoShow!TypeOK
      [] subject = "feeRace" -> FeeRace!TypeOK

(* The sessions of a package or of the club are given once: the counter     *)
(* never passes what was sold and is the number of uses that stand, though  *)
(* uses, undos, sales, refunds, crashes and invoices overlap                *)
(* (debitClientPackageSession, restorePackageUses,                          *)
(* redeemClientSubscriptionSession,                                         *)
(* handleClientSubscriptionInvoiceSucceeded).                               *)
SessionsHonest ==
    /\ subject = "packages" => Pack!SessionsWithinTotal /\ Pack!SessionsAccounted
    /\ subject = "sessions" => Club!WithinLimit /\ Club!SessionsCounted

(* What Stripe charges month by month is what the shop and the customer, or *)
(* the two partners of a space, agreed on: one live subscription, no charge *)
(* while a reason to pause stands or after the end of the link, never above *)
(* the amount that was accepted, an unused cycle given back once, nothing   *)
(* charged after the shop ended, and the fee of who did not come never      *)
(* above what was agreed, asked once and dropped with its reason, a         *)
(* featured place shown for the days that were paid, and a tip as it was    *)
(* paid (subscribeToPlan, ClubBillingPauseService.apply,                    *)
(* refundUnusedClubCycle, ChairRentService, deleteBarbershop,               *)
(* markAppointmentNoShow, revokePlatformPurchase).                          *)
ChargesAsAgreed ==
    /\ subject = "pause" =>
          /\ Pause!OneLiveSubscription
          /\ Pause!PausedWhileHeld
          /\ Pause!CycleReturnedOnce
    /\ subject = "join" => Join!OneLiveSubscription /\ Join!CycleReturnedOnce
    /\ subject = "chair" =>
          /\ Chair!OneLiveRent
          /\ Chair!NeverAboveAgreed
          /\ Chair!LeavingStopsCharge
    /\ subject = "closing" =>
          /\ Closing!ClosedMeansEnded
          /\ Closing!DepositsReturned
          /\ Closing!CyclesReturned
    /\ subject = "refunds" =>
          /\ Refunds!ClosedMeansEnded
          /\ Refunds!DepositsReturned
          /\ Refunds!CyclesReturned
    /\ subject = "twice" =>
          /\ Twice!ClosedMeansEnded
          /\ Twice!DepositsReturned
          /\ Twice!CyclesReturned
    /\ subject = "featured" => Feat!DaysPaidFor /\ Feat!TipHonest
    /\ subject = "offers" => Offer!DaysPaidFor /\ Offer!TipHonest
    /\ subject = "noShow" =>
          /\ NoShow!NeverAboveFee
          /\ NoShow!CollectedOnce
          /\ NoShow!UndoneOwesNothing
    /\ subject = "feeRace" =>
          /\ FeeRace!NeverAboveFee
          /\ FeeRace!CollectedOnce
          /\ FeeRace!UndoneOwesNothing

(* What is owed is paid once and recorded as it was paid: no day of a       *)
(* professional is in two payouts and a payout is the sum of what it took,  *)
(* a month of rent is owed once, has one expense per payment and one        *)
(* overdue notice, though clicks, invoices and jobs overlap                 *)
(* (PayrollService.pay, ChairRentService.recordPayment, generateDues,       *)
(* notifyOverdue).                                                          *)
DuesPaidOnce ==
    /\ subject = "payroll" => Pay!DayPaidOnce /\ Pay!PayoutAddsUp
    /\ subject = "rents" =>
          /\ Rents!ExpensesMatchPayments
          /\ Rents!MonthOwedOnce
          /\ Rents!OverdueToldOnce

(* What is offered or announced is what the rows allow: a free time can be  *)
(* booked and is inside the hours of the shop, the next free time of the    *)
(* search is the first one that is offered, nothing is to be paid for a     *)
(* booking that a closed day cancelled, two shops do not hold one           *)
(* professional at the same time, and a change of hours announces every     *)
(* booking it leaves outside (computeSlots, getPublicNextAvailableSlot,     *)
(* ScheduleService, setBarberWorkingHours).                                 *)
ShownIsTrue ==
    /\ subject = "slots" =>
          /\ Slots!SlotsBookable
          /\ Slots!SlotsWithinShop
          /\ Slots!NextIsEarliest
          /\ Slots!NothingToPayWhenClosed
          /\ Slots!ShiftsApart
          /\ Slots!ImpactTellsAll
    /\ subject = "shifts" =>
          /\ Shifts!SlotsBookable
          /\ Shifts!SlotsWithinShop
          /\ Shifts!NextIsEarliest
          /\ Shifts!NothingToPayWhenClosed
          /\ Shifts!ShiftsApart
          /\ Shifts!ImpactTellsAll

(* A package that was cancelled or refunded, a rent that was paid, a        *)
(* dispute that Stripe closed and a cash session that was closed stay so,   *)
(* even when another request is halfway (RESTORABLE_PACKAGE,                *)
(* recordInvoicePayment, recordDispute, closeCashSession).                  *)
NothingReopens ==
    [][ /\ subject = "packages" => Pack!ClosedIsFinal
        /\ subject = "rents" => Rents!PaidStaysPaid
        /\ subject = "drawer" => Drawer!ClosedStays
        /\ subject = "offers" => Offer!DisputeNotReopened ]_mcVars

MCSymmetry == Permutations(Worker) \cup Permutations(Three)
=============================================================================
