---------------------------- MODULE OnlineProofs ---------------------------
(***************************************************************************)
(* Proofs about four components that share no state: the appointment that  *)
(* is paid ahead, the invitation of friends, the agenda and the referrals  *)
(* of a professional alone, and the plan of the platform.  Each theorem is *)
(* about the specification of one of them, for every value of its          *)
(* constants: Prepayment itself, and the others as Friends, Solo and Plan. *)
(* Only the requests and None are the same for all four.                   *)
(***************************************************************************)
EXTENDS Prepayment, FiniteSums

CONSTANTS
    Inviter, Friend, InviteId, MaxRewards,
    Part, ShopId, RowId, Limit, LastMonth, Overlap, UserId, MaxMonths,
    NewFor, MaxTime,
    PlanPart, MaxClock, MaxTries, PlanFaults, User, PlanIntentId, MaxUses

VARIABLES
    registered, invites, FriendsPaid, rowLock, FriendsJob,
    month, shop, pro, row, SoloLate, req, now, proUntil, created, same,
    referral, served, used,
    clock, sub, PlanFree, rows, charges, upgrades, PlanJob, rewound, plans,
    PlanUsed, usedCount, held, intents, payments

Friends == INSTANCE FriendInvites WITH
    paid <- FriendsPaid, job <- FriendsJob
Solo == INSTANCE SoloAgenda WITH
    late <- SoloLate
Plan == INSTANCE PlatformPlan WITH
    Part <- PlanPart, Faults <- PlanFaults, IntentId <- PlanIntentId, free <- PlanFree,
    job <- PlanJob, used <- PlanUsed

(* An instance brings its own copy of the operators of the library.  *)
LEMMA FriendsCounts == \A S : Friends!Cardinality(S) = Cardinality(S)
BY DEF Cardinality, Friends!Cardinality

LEMMA SoloCounts == \A S : Solo!Cardinality(S) = Cardinality(S)
BY DEF Cardinality, Solo!Cardinality

LEMMA PlanCounts == \A S : Plan!Cardinality(S) = Cardinality(S)
BY DEF Cardinality, Plan!Cardinality

----------------------------------------------------------------------------
(***************************************************************************)
(* Proofs about Prepayment, for any number of requests and intents.        *)
(*                                                                         *)
(* TInv says what a request remembers: the payment it saw recorded is      *)
(* still the payment of the appointment, the intent it works on is one     *)
(* that Stripe took, and what it is about to give back fits.  The refunds  *)
(* agree because every amount given back is on the row, in the hands of a  *)
(* request, or in an event that is still to arrive.                        *)

(* There are finitely many requests; prices are positive (the test of cents *)
(* in start) and have a largest one.                                        *)
Tables ==
    /\ IsFiniteSet(Worker) /\ None \notin IntentId
    /\ Prices \subseteq Nat \ {0} /\ \E p \in Prices : \A q \in Prices : q <= p

(***************************************************************************)
(* Types, and what a request remembers                                     *)
(***************************************************************************)

Refunding(j) == j.op \in {"refund", "claimed", "revert"}
Total(j) == j.seen.back + j.value

(* A payment that was recorded stays the payment of the appointment.        *)
PaidStays(a, b) == a.paid => b.paid /\ b.intent = a.intent /\ b.amount = a.amount

PaidOK(a) ==
    /\ a \in Appointment /\ a.back <= a.amount
    /\ a.paid => a.intent \in IntentId /\ a.amount > 0 /\ (a.closed <=> a.back = a.amount)
    /\ ~ a.paid => a.amount = 0 /\ a.back = 0 /\ ~ a.closed

RowOK(a, at) ==
    /\ PaidOK(a)
    /\ a.paid => at[a.intent].st = "succeeded" /\ at[a.intent].amount = a.amount

IntentsOK(at) ==
    /\ at \in [IntentId -> Intent]
    /\ \A i \in IntentId :
          /\ at[i].back <= at[i].amount
          /\ at[i].st \in {"open", "succeeded"} => at[i].amount > 0
          /\ at[i].st # "succeeded" => at[i].back = 0

(* Stripe keeps what it took and gave back.                                 *)
IntentsStay(at, to) ==
    \A i \in IntentId :
       /\ at[i].back <= to[i].back
       /\ at[i].st = "succeeded" => to[i].st = "succeeded" /\ to[i].amount = at[i].amount

Stays == PaidStays(appt, appt') /\ IntentsStay(intent, intent')

NewsOK(events, at) == events \subseteq IntentId \X Money /\ \A e \in events : e[2] <= at[e[1]].back

JobOK(j, a, at) ==
    /\ j.op # "idle" => PaidOK(j.seen) /\ PaidStays(j.seen, a)
    /\ j.op = "start" => ~ j.seen.paid /\ j.value \in Prices
    /\ j.op = "finalize" => j.intent \in IntentId /\ at[j.intent].st = "succeeded"
    /\ Refunding(j) => /\ j.seen.paid /\ ~ j.seen.closed /\ j.intent = j.seen.intent
                       /\ j.value > 0 /\ Total(j) <= j.seen.amount
    /\ j.op = "sync" => /\ j.seen.paid /\ ~ j.seen.closed /\ j.intent = j.seen.intent
                        /\ j.value <= at[j.intent].back

TInv ==
    /\ TypeOK
    /\ RowOK(appt, intent) /\ IntentsOK(intent) /\ NewsOK(news, intent)
    /\ \A w \in Worker : JobOK(job[w], appt, intent)

(***************************************************************************)
(* Charged once                                                            *)
(***************************************************************************)

CInv == \A i \in heard : /\ intent[i].st = "succeeded"
                         /\ (appt.paid /\ appt.intent = i) \/ Left(i) = 0

(***************************************************************************)
(* Requests that run together, and nothing else                            *)
(***************************************************************************)

OverlapOnly == Faults \subseteq {"overlap"}

Owing(j) == IF j.op = "claimed" THEN j.value ELSE 0
OwedBy(jobs) == SumFunctionOnSet([w \in Worker |-> Owing(jobs[w])], Worker)
KeyOf(j) == <<j.intent, Total(j)>>

(* What holds of one request when the row says `back` was given back.       *)
JobR(j, back, done) ==
    /\ j.op \notin {"revert", "sale"}
    /\ j.op # "idle" => ~ Late(j.seen)
    /\ j.op = "sync" => j.value <= j.seen.back
    /\ j.op = "claimed" => KeyOf(j) \notin done /\ Total(j) <= back

ClaimsDiffer(jobs) ==
    \A v, w \in Worker :
        jobs[v].op = "claimed" /\ jobs[w].op = "claimed" /\ Total(jobs[v]) = Total(jobs[w]) => v = w

RInv ==
    /\ ~ Late(appt)
    /\ \A w \in Worker : JobR(job[w], appt.back, keys)
    /\ ClaimsDiffer(job)
    /\ ~ appt.paid => \A i \in IntentId : intent[i].back = 0
    /\ appt.paid => appt.back = intent[appt.intent].back + OwedBy(job)
    /\ \A k \in keys : k[2] <= appt.back

(***************************************************************************)
(* One request at a time                                                   *)
(***************************************************************************)

Serial == "overlap" \notin Faults /\ "reopen" \notin Faults

(* The request that runs, or Idle.                                          *)
OneBusy(jobs) == \A v, w \in Worker : jobs[v] # Idle /\ jobs[w] # Idle => v = w
Current(jobs) == IF \E w \in Worker : jobs[w] # Idle THEN jobs[CHOOSE w \in Worker : jobs[w] # Idle] ELSE Idle

(* Its claim is in the row, and the call of Stripe or the undoing to come.  *)
Claimed(j) == j.op \in {"claimed", "revert"}
Base(j, a) == IF Claimed(j) THEN j.seen.back ELSE a.back

(* What it read is still so; only the bill changes the status behind it.    *)
SeenS(j, a) ==
    j.op # "idle" =>
       /\ j.seen.paid = a.paid /\ j.seen.sale = a.sale
       /\ IF Claimed(j) THEN a.back = Total(j) ELSE j.seen.back = a.back /\ j.seen.closed = a.closed
       /\ Refunding(j) \/ j.seen.status = a.status \/ (j.seen.status = "CONFIRMED" /\ a.status = "COMPLETED")

(* Money went back before the appointment was paid: the bill was closed.    *)
LateS(j, a, at) ==
    ~ a.paid /\ (\E i \in IntentId : at[i].back > 0) =>
        Late(a) /\ (j.op # "idle" => Late(j.seen) /\ j.op # "cancel")

(* An event tells the rest of what Stripe gave back of the payment, or a    *)
(* request read it.                                                         *)
Covers(back, i, at, events, j) ==
    /\ back <= at[i].back
    /\ back < at[i].back => <<i, at[i].back>> \in events \/ (j.op = "sync" /\ j.value = at[i].back)

KeysS(done, at) == \A k \in done : k[2] <= at[k[1]].back

S(j, a, at, events, done) ==
    /\ SeenS(j, a) /\ LateS(j, a, at) /\ KeysS(done, at)
    /\ j.op = "cancel" => ~ a.sale
    /\ a.paid => Covers(Base(j, a), a.intent, at, events, j)

SInv == OneBusy(job) /\ S(Current(job), appt, intent, news, keys)

(***************************************************************************)
(* The bill only                                                           *)
(***************************************************************************)
BillOnly == Faults \subseteq {"bill"}

B(j, a, at) ==
    /\ a.paid => Base(j, a) = at[a.intent].back
    /\ j.op # "revert"
    /\ a.sale => ~ Refunding(j)
    /\ j.op = "sale" => j.value = Remaining(a) /\ a.status # "CANCELLED"
    /\ a.paid /\ a.sale => a.applied = Remaining(a) /\ a.status # "CANCELLED"
    /\ a.paid /\ a.status = "CANCELLED" =>
          Remaining(a) <= a.kept \/ (j.op = "refund" /\ a.amount - Total(j) <= a.kept)

BInv == B(Current(job), appt, intent)

(***************************************************************************)
(* Types                                                                   *)
(***************************************************************************)

LEMMA TopMax == ASSUME Tables PROVE Top \in Prices /\ Top \in Nat /\ Prices \subseteq Money /\ 0 \in Money
<1>1. Top \in Prices /\ \A q \in Prices : q <= Top
  BY DEF Tables, Top
<1> QED  BY <1>1 DEF Tables, Money

LEMMA Moneys == ASSUME Tables PROVE Money \subseteq Nat /\ \A m \in Money, n \in Nat : n <= m => n \in Money
BY TopMax DEF Money

(* What a request remembers stays true while rows and intents only grow.    *)
LEMMA JobKept ==
    ASSUME Tables, NEW j \in Job, NEW a, NEW b, NEW at, NEW to, IntentsOK(at), IntentsOK(to), JobOK(j, a, at),
           PaidOK(a), PaidStays(a, b), IntentsStay(at, to)
    PROVE  JobOK(j, b, to)
<1>1. j.op # "idle" => PaidStays(j.seen, b)
  BY DEF JobOK, PaidStays
<1>2. j.op = "finalize" => to[j.intent].st = "succeeded"
  BY DEF JobOK, IntentsStay
<1>3. j.op = "sync" => j.value <= to[j.intent].back
  <2> SUFFICES ASSUME j.op = "sync" PROVE j.value <= to[j.intent].back
    OBVIOUS
  <2>1. j.intent \in IntentId
    BY DEF JobOK, PaidOK
  <2>2. j.value <= at[j.intent].back /\ at[j.intent].back <= to[j.intent].back
    BY <2>1 DEF JobOK, IntentsStay
  <2>3. j.value \in Nat /\ at[j.intent].back \in Nat /\ to[j.intent].back \in Nat
    BY <2>1, Moneys DEF IntentsOK, Intent, Job
  <2> QED  BY <2>2, <2>3
<1> QED  BY <1>1, <1>2, <1>3 DEF JobOK

LEMMA TStep ==
    ASSUME Tables, TInv, price' \in Prices, heard' \subseteq IntentId, keys' \subseteq IntentId \X Money,
           RowOK(appt', intent'), PaidStays(appt, appt'), IntentsOK(intent'), IntentsStay(intent, intent'),
           NewsOK(news', intent'), job' \in [Worker -> Job],
           \A w \in Worker : job'[w] = job[w] \/ JobOK(job'[w], appt', intent')
    PROVE  TInv' /\ Stays
BY JobKept DEF TypeOK, RowOK, PaidOK, IntentsOK, NewsOK, TInv, Stays

LEMMA SameStays == PaidStays(appt, appt) /\ (IntentsOK(intent) /\ Tables => IntentsStay(intent, intent))
BY Moneys DEF IntentsOK, Intent, PaidStays, IntentsStay

LEMMA Facts ==
    ASSUME Tables, TInv
    PROVE  /\ appt \in Appointment /\ RowOK(appt, intent) /\ IntentsOK(intent) /\ NewsOK(news, intent)
           /\ job \in [Worker -> Job] /\ heard \subseteq IntentId /\ keys \subseteq IntentId \X Money
           /\ price \in Prices /\ PaidStays(appt, appt) /\ IntentsStay(intent, intent)
           /\ \A w \in Worker : JobOK(job[w], appt, intent) /\ job[w] \in Job
BY SameStays DEF TInv, TypeOK, RowOK, PaidOK

(* A request that reads the row now.                                        *)
LEMMA ReadIsJob ==
    ASSUME Tables, TInv, NEW op \in {"start", "finalize", "refund", "cancel", "sale", "sync"},
           NEW i \in IntentId \cup {None}, NEW value \in Money
    PROVE  LET j == [op |-> op, intent |-> i, seen |-> appt, value |-> value] IN
           /\ j \in Job /\ PaidOK(j.seen) /\ PaidStays(j.seen, appt)
BY Facts DEF Job, RowOK

LEMMA IdleIsJob == ASSUME Tables, NEW a, NEW at PROVE Idle \in Job /\ JobOK(Idle, a, at)
BY TopMax DEF Idle, Job, JobOK, Refunding

(* Only requests change.                                                    *)
LEMMA TJob ==
    ASSUME Tables, TInv, UNCHANGED <<appt, intent, keys, price, heard>>, news' \subseteq news,
           NEW w \in Worker, NEW j \in Job, JobOK(j, appt, intent), job' = [job EXCEPT ![w] = j]
    PROVE  TInv' /\ Stays
BY Facts, TStep DEF NewsOK

LEMMA StartReadsT == ASSUME Tables, TInv, NEW w \in Worker, StartReads(w) PROVE TInv' /\ Stays
<1> DEFINE j == [op |-> "start", intent |-> None, seen |-> appt, value |-> price]
<1>1. job' = [job EXCEPT ![w] = j] /\ ~ appt.paid
  BY DEF StartReads, Doing
<1>2. price \in Prices /\ price \in Money
  BY Facts, TopMax
<1>3. j \in Job /\ PaidOK(j.seen) /\ PaidStays(j.seen, appt)
  BY <1>2, ReadIsJob
<1>4. JobOK(j, appt, intent)
  BY <1>1, <1>2, <1>3 DEF JobOK, Refunding
<1> QED  BY <1>1, <1>3, <1>4, TJob DEF StartReads

LEMMA FinalizeReadsT == ASSUME Tables, TInv, NEW w \in Worker, NEW i \in IntentId, FinalizeReads(w, i) PROVE TInv' /\ Stays
<1> DEFINE j == [op |-> "finalize", intent |-> i, seen |-> appt, value |-> 0]
<1>1. job' = [job EXCEPT ![w] = j] /\ intent[i].st = "succeeded"
  BY DEF FinalizeReads, Doing
<1>3. j \in Job /\ PaidOK(j.seen) /\ PaidStays(j.seen, appt)
  BY TopMax, ReadIsJob
<1>4. JobOK(j, appt, intent)
  BY <1>1, <1>3 DEF JobOK, Refunding
<1> QED  BY <1>1, <1>3, <1>4, TJob DEF FinalizeReads

LEMMA RefundReadsT == ASSUME Tables, TInv, NEW w \in Worker, RefundReads(w) PROVE TInv' /\ Stays
<1>1. PICK value \in 1 .. Remaining(appt) : Doing(w, "refund", appt.intent, value)
  BY DEF RefundReads
<1> DEFINE j == [op |-> "refund", intent |-> appt.intent, seen |-> appt, value |-> value]
<1>2. appt.amount \in Nat /\ appt.back \in Nat /\ appt.amount \in Money /\ appt.intent \in IntentId \cup {None}
  BY Facts, Moneys DEF Appointment
<1>3. value \in Nat /\ value > 0 /\ appt.back + value <= appt.amount /\ value <= appt.amount
  BY <1>2 DEF Remaining
<1>4. value \in Money
  BY <1>2, <1>3, Moneys
<1>5. j \in Job /\ PaidOK(j.seen) /\ PaidStays(j.seen, appt)
  BY <1>2, <1>4, ReadIsJob
<1>6. JobOK(j, appt, intent)
  BY <1>3, <1>5 DEF JobOK, Refunding, RefundReads, Total
<1> QED  BY <1>1, <1>5, <1>6, TJob DEF RefundReads, Doing

LEMMA CancelReadsT == ASSUME Tables, TInv, NEW w \in Worker, CancelReads(w) PROVE TInv' /\ Stays
<1> DEFINE j == [op |-> "cancel", intent |-> None, seen |-> appt, value |-> 0]
<1>3. j \in Job /\ PaidOK(j.seen) /\ PaidStays(j.seen, appt)
  BY TopMax, ReadIsJob
<1>4. JobOK(j, appt, intent)
  BY <1>3 DEF JobOK, Refunding
<1> QED  BY <1>3, <1>4, TJob DEF CancelReads, Doing

LEMMA SyncReadsT == ASSUME Tables, TInv, NEW w \in Worker, NEW e \in news, SyncReads(w, e) PROVE TInv' /\ Stays
<1> DEFINE j == [op |-> "sync", intent |-> e[1], seen |-> appt, value |-> e[2]]
<1>1. e[1] \in IntentId /\ e[2] \in Money /\ e[2] <= intent[e[1]].back
  BY Facts DEF NewsOK
<1>2. CASE appt.intent = e[1] /\ appt.paid /\ ~ appt.closed
  BY <1>1, ReadIsJob, <1>2, TJob DEF JobOK, Refunding, SyncReads, Doing
<1>3. CASE ~ (appt.intent = e[1] /\ appt.paid /\ ~ appt.closed)
  BY <1>3, Facts, TJob DEF SyncReads
<1> QED  BY <1>2, <1>3

LEMMA SaleCommitsT == ASSUME Tables, TInv, NEW w \in Worker, SaleCommits(w) PROVE TInv' /\ Stays
BY Facts, IdleIsJob, TStep
   DEF Job, SaleCommits, RowOK, PaidOK, PaidStays, Appointment, Ends

LEMMA DeleteSaleT == ASSUME Tables, TInv, DeleteSale PROVE TInv' /\ Stays
BY TopMax, Facts, TStep DEF DeleteSale, RowOK, PaidOK, PaidStays, Appointment

LEMMA CompleteT == ASSUME Tables, TInv, CompleteAppointment PROVE TInv' /\ Stays
BY Facts, TStep DEF CompleteAppointment, RowOK, PaidOK, PaidStays, Appointment

LEMMA UpdateServicesT == ASSUME Tables, TInv, UpdateServices PROVE TInv' /\ Stays
BY Facts, TStep DEF UpdateServices

(* Stripe: an intent is paid, canceled, or part of it given back.           *)
LEMMA CustomerPaysT == ASSUME Tables, TInv, NEW i \in IntentId, CustomerPays(i) PROVE TInv' /\ Stays
BY Facts, TStep DEF CustomerPays, IntentsOK, Intent, IntentsStay, RowOK, PaidOK, NewsOK

LEMMA ReturnsOK ==
    ASSUME Tables, TInv, NEW i \in IntentId, NEW value \in 1 .. Left(i), Returns(i, value),
           intent[i].st = "succeeded"
    PROVE  /\ IntentsOK(intent') /\ IntentsStay(intent, intent') /\ NewsOK(news', intent')
           /\ RowOK(appt, intent')
           /\ intent'[i] = [intent[i] EXCEPT !.back = intent[i].back + value]
           /\ \A k \in IntentId : k # i => intent'[k] = intent[k]
           /\ news' = news \cup {<<i, intent'[i].back>>}
<1>1. intent[i] \in Intent /\ intent[i].amount \in Nat /\ intent[i].back \in Nat /\ intent[i].amount \in Money
  BY Facts, Moneys DEF IntentsOK, Intent
<1>2. value \in Nat /\ value > 0 /\ intent[i].back + value \in Nat /\ intent[i].back + value <= intent[i].amount
  BY <1>1 DEF Left
<1>3. intent[i].back + value \in Money
  BY <1>1, <1>2, Moneys
<1>4. /\ intent' \in [IntentId -> Intent]
      /\ intent'[i] = [intent[i] EXCEPT !.back = intent[i].back + value]
      /\ \A k \in IntentId : k # i => intent'[k] = intent[k]
  BY <1>1, <1>3, Facts DEF Returns, IntentsOK, Intent
<1>5. intent'[i].back = intent[i].back + value /\ intent'[i].st = intent[i].st
      /\ intent'[i].amount = intent[i].amount
  BY <1>1, <1>4 DEF Intent
<1>6. news' = news \cup {<<i, intent'[i].back>>}
  BY <1>5 DEF Returns
<1>8. IntentsOK(intent')
  BY <1>2, <1>4, <1>5, Facts DEF IntentsOK
<1>9. IntentsStay(intent, intent')
  <2>1. \A k \in IntentId : intent[k].back <= intent[k].back
    BY Facts DEF IntentsStay
  <2>2. intent[i].back <= intent'[i].back
    BY <1>1, <1>2, <1>5
  <2> QED  BY <1>4, <1>5, <2>1, <2>2 DEF IntentsStay
<1>10. NewsOK(news', intent')
  BY Facts, Moneys, <1>4, <1>9, <1>2, <1>5, <1>3, <1>6
     DEF NewsOK, IntentsStay, IntentsOK, Intent
<1>11. RowOK(appt, intent')
  BY <1>4, <1>5, Facts DEF RowOK, PaidOK
<1> QED  BY <1>4, <1>6, <1>8, <1>9, <1>10, <1>11

LEMMA PanelRefundT == ASSUME Tables, TInv, NEW i \in IntentId, PanelRefund(i) PROVE TInv' /\ Stays
<1>1. PICK value \in 1 .. Left(i) : Returns(i, value)
  BY DEF PanelRefund
<1>2. intent[i].st = "succeeded"
  BY Facts DEF PanelRefund, RowOK
<1> QED  BY <1>1, <1>2, ReturnsOK, Facts, TStep DEF PanelRefund

(* Canceling an intent that was not paid.                                   *)
LEMMA CancelledOK ==
    ASSUME Tables, TInv, NEW i \in IntentId \cup {None}, NEW after \in Cancelled(i)
    PROVE  /\ IntentsOK(after) /\ IntentsStay(intent, after)
           /\ \A k \in IntentId : /\ after[k].back = intent[k].back /\ after[k].amount = intent[k].amount
                                  /\ after[k].st = "none" <=> intent[k].st = "none"
                                  /\ after[k].st = "succeeded" <=> intent[k].st = "succeeded"
<1>1. CASE after = intent
  BY <1>1, Facts
<1>2. CASE i # None /\ intent[i].st = "open" /\ after = [intent EXCEPT ![i].st = "canceled"]
  BY <1>2, Facts, Moneys DEF IntentsOK, Intent, IntentsStay
<1> QED  BY <1>1, <1>2 DEF Cancelled

LEMMA NewsKept ==
    ASSUME Tables, TInv, NEW to, IntentsOK(to), IntentsStay(intent, to)
    PROVE  NewsOK(news, to)
<1> SUFFICES ASSUME NEW e \in news PROVE e[2] <= to[e[1]].back
  BY Facts DEF NewsOK
<1>1. e[1] \in IntentId /\ e[2] \in Nat /\ e[2] <= intent[e[1]].back
  BY Facts, Moneys DEF NewsOK
<1>2. intent[e[1]].back <= to[e[1]].back /\ intent[e[1]].back \in Nat /\ to[e[1]].back \in Nat
  BY <1>1, Facts, Moneys DEF IntentsStay, IntentsOK, Intent
<1> QED  BY <1>1, <1>2

LEMMA RowKept ==
    ASSUME NEW a, NEW at, NEW to, RowOK(a, at), IntentsStay(at, to)
    PROVE  RowOK(a, to)
BY DEF RowOK, IntentsStay, PaidOK

LEMMA SaleReadsT == ASSUME Tables, TInv, NEW w \in Worker, SaleReads(w) PROVE TInv' /\ Stays
<1> DEFINE ahead == IF appt.paid /\ ~ appt.closed THEN Remaining(appt) ELSE 0
           j == [op |-> "sale", intent |-> None, seen |-> appt, value |-> ahead]
<1>1. job' = [job EXCEPT ![w] = j]
  BY DEF SaleReads, Doing
<1>2. ahead \in Money
  BY Facts, Moneys, TopMax DEF Appointment, RowOK, PaidOK, Remaining
<1>3. j \in Job /\ PaidOK(j.seen) /\ PaidStays(j.seen, appt)
  BY <1>2, ReadIsJob
<1>4. JobOK(j, appt, intent')
  BY <1>3 DEF JobOK, Refunding
<1>5. job' \in [Worker -> Job] /\ \A v \in Worker : job'[v] = job[v] \/ JobOK(job'[v], appt, intent')
  BY <1>1, <1>3, <1>4, Facts
<1>6. IntentsOK(intent') /\ IntentsStay(intent, intent')
  BY Facts, CancelledOK DEF Appointment, SaleReads
<1>7. RowOK(appt, intent') /\ NewsOK(news, intent')
  BY <1>6, NewsKept, RowKept, Facts
<1> QED  BY <1>5, <1>6, <1>7, Facts, TStep DEF SaleReads

LEMMA StartEndsT == ASSUME Tables, TInv, NEW w \in Worker, StartEnds(w) PROVE TInv' /\ Stays
<1> DEFINE seen == job[w].seen
           old == seen.intent
           value == job[w].value
<1>1. PaidOK(seen) /\ value \in Prices /\ value \in Money /\ value > 0 /\ old \in IntentId \cup {None}
  BY Facts, TopMax DEF StartEnds, JobOK, PaidOK, Appointment, Tables
<1>2. CASE old # None /\ intent[old].st = "succeeded"
  <2> DEFINE j == [op |-> "finalize", intent |-> old, seen |-> appt, value |-> 0]
  <2>1. j \in Job /\ PaidOK(j.seen) /\ PaidStays(j.seen, appt)
    BY <1>1, TopMax, ReadIsJob
  <2>2. JobOK(j, appt, intent)
    BY <1>1, <1>2, <2>1 DEF JobOK, Refunding
  <2> QED  BY <1>2, <2>1, <2>2, TJob DEF StartEnds, Doing
<1>3. CASE ~ (old # None /\ intent[old].st = "succeeded") /\ old # None /\ intent[old].st = "open"
           /\ intent[old].amount = value
  BY <1>3, IdleIsJob, TJob DEF StartEnds, Ends
<1>4. CASE ~ (old # None /\ intent[old].st = "succeeded")
           /\ ~ (old # None /\ intent[old].st = "open" /\ intent[old].amount = value)
  <2>1. PICK i \in IntentId, after \in Cancelled(old) :
           /\ intent[i].st = "none"
           /\ intent' = IF Saves(seen)
                        THEN [after EXCEPT ![i] = [st |-> "open", amount |-> value, back |-> 0]] ELSE after
           /\ appt' = IF Saves(seen) THEN [appt EXCEPT !.intent = i] ELSE appt
           /\ Ends(w)
    BY <1>4 DEF StartEnds
  <2>2. /\ IntentsOK(after) /\ IntentsStay(intent, after)
        /\ \A k \in IntentId : /\ after[k].back = intent[k].back /\ after[k].amount = intent[k].amount
                               /\ after[k].st = "none" <=> intent[k].st = "none"
                               /\ after[k].st = "succeeded" <=> intent[k].st = "succeeded"
    BY <1>1, CancelledOK
  <2>3. after[i].back = 0 /\ after[i].st = "none" /\ 0 \in Money
    BY <2>1, <2>2, TopMax DEF IntentsOK
  <2>4. IntentsOK(intent') /\ IntentsStay(intent, intent')
    <3>1. CASE Saves(seen)
      <4> DEFINE new == [st |-> "open", amount |-> value, back |-> 0]
      <4>1. new \in Intent /\ new.back = 0 /\ new.st = "open" /\ new.amount = value
        BY <1>1, <2>3 DEF Intent
      <4>2. intent' \in [IntentId -> Intent] /\ intent'[i] = new
            /\ \A k \in IntentId : k # i => intent'[k] = after[k]
        BY <2>1, <2>2, <3>1, <4>1 DEF IntentsOK
      <4> HIDE DEF new
      <4>3. IntentsOK(intent')
        BY <1>1, <2>2, <4>1, <4>2, Moneys DEF IntentsOK
      <4>4. IntentsStay(intent, intent')
        BY <2>2, <2>3, <4>1, <4>2 DEF IntentsStay
      <4> QED  BY <4>3, <4>4
    <3>2. CASE ~ Saves(seen)
      BY <2>1, <2>2, <3>2
    <3> QED  BY <3>1, <3>2
  <2>5. RowOK(appt', intent') /\ PaidStays(appt, appt')
    <3>1. CASE Saves(seen)
      BY <2>1, <3>1, Facts DEF Saves, RowOK, PaidOK, PaidStays, Appointment
    <3>2. CASE ~ Saves(seen)
      BY <2>1, <2>4, <3>2, RowKept, Facts
    <3> QED  BY <3>1, <3>2
  <2>6. NewsOK(news', intent')
    BY <2>4, NewsKept DEF StartEnds
  <2>7. job' \in [Worker -> Job] /\ \A v \in Worker : job'[v] = job[v] \/ JobOK(job'[v], appt', intent')
    BY <2>1, Facts, IdleIsJob DEF Ends
  <2> QED  BY <2>4, <2>5, <2>6, <2>7, Facts, TStep DEF StartEnds
<1> QED  BY <1>2, <1>3, <1>4

LEMMA RecordedOK ==
    ASSUME Tables, TInv, ~ appt.paid, NEW i \in IntentId, intent[i].st = "succeeded"
    PROVE  /\ RowOK(Recorded(i), intent) /\ PaidStays(appt, Recorded(i)) /\ Recorded(i).paid
           /\ Recorded(i).intent = i /\ Recorded(i).amount = intent[i].amount /\ Recorded(i).back = 0
           /\ ~ Recorded(i).closed /\ intent[i].amount \in Money /\ intent[i].amount \in Nat
           /\ intent[i].amount > 0
           /\ Recorded(i).status = appt.status /\ Recorded(i).sale = appt.sale
<1>1. intent[i].amount \in Money /\ intent[i].amount \in Nat /\ intent[i].amount > 0
  BY Facts, Moneys DEF IntentsOK, Intent
<1>2. appt \in Appointment /\ appt.back = 0 /\ ~ appt.closed
  BY Facts DEF RowOK, PaidOK
<1> DEFINE r == Recorded(i)
<1>3. /\ r \in Appointment /\ r.paid /\ r.intent = i /\ r.amount = intent[i].amount
      /\ r.back = 0 /\ ~ r.closed /\ r.status = appt.status /\ r.sale = appt.sale
  BY <1>1, <1>2 DEF Recorded, Appointment
<1> HIDE DEF r
<1>4. RowOK(r, intent) /\ PaidStays(appt, r)
  BY <1>1, <1>3 DEF RowOK, PaidOK, PaidStays
<1> QED  BY <1>1, <1>3, <1>4 DEF r

LEMMA ExtraOK ==
    ASSUME Tables, TInv, NEW i \in IntentId, intent[i].st = "succeeded", RefundExtra(i)
    PROVE  /\ IntentsOK(intent') /\ IntentsStay(intent, intent') /\ NewsOK(news', intent')
           /\ RowOK(appt, intent') /\ intent'[i].back = intent'[i].amount
           /\ \A k \in IntentId : k # i => intent'[k] = intent[k]
           /\ news \subseteq news'
           /\ intent'[i].back > intent[i].back => <<i, intent'[i].back>> \in news'
<1>1. intent[i].amount \in Nat /\ intent[i].back \in Nat /\ intent[i].back <= intent[i].amount /\ intent[i] \in Intent
  BY Facts, Moneys DEF IntentsOK, Intent
<1>2. CASE Left(i) > 0
  <2>1. Left(i) \in 1 .. Left(i) /\ Returns(i, Left(i))
    BY <1>1, <1>2 DEF Left, RefundExtra
  <2>2. /\ IntentsOK(intent') /\ IntentsStay(intent, intent') /\ NewsOK(news', intent')
        /\ RowOK(appt, intent')
        /\ intent'[i] = [intent[i] EXCEPT !.back = intent[i].back + Left(i)]
        /\ \A k \in IntentId : k # i => intent'[k] = intent[k]
        /\ news' = news \cup {<<i, intent'[i].back>>}
    BY <2>1, ReturnsOK
  <2>3. intent'[i].back = intent'[i].amount
    BY <1>1, <2>2 DEF Left, Intent
  <2> QED  BY <2>2, <2>3
<1>3. CASE ~ (Left(i) > 0)
  BY <1>1, <1>3, Facts DEF RefundExtra, Left
<1> QED  BY <1>2, <1>3

(* The three ways in which an approved payment ends.                        *)
LEMMA FinalizeCases ==
    ASSUME Tables, TInv, NEW w \in Worker, Finalize(w)
    PROVE  LET i == job[w].intent
               seen == job[w].seen
           IN
           /\ i \in IntentId /\ intent[i].st = "succeeded" /\ heard' = heard \cup {i}
           /\ PaidOK(seen) /\ PaidStays(seen, appt) /\ UNCHANGED <<keys, price>>
           /\ \/ /\ appt.paid /\ appt.intent = i
                 /\ UNCHANGED <<appt, intent, news>> /\ Ends(w)
              \/ /\ ~ seen.paid /\ ~ Late(seen) /\ ~ appt.paid /\ appt' = Recorded(i)
                 /\ \/ seen.status = "CANCELLED"
                       /\ job' = [job EXCEPT ![w] = [op |-> "refund", intent |-> i, seen |-> Recorded(i),
                                                     value |-> intent[i].amount]]
                    \/ seen.status # "CANCELLED" /\ Ends(w)
                 /\ UNCHANGED <<intent, news>>
              \/ /\ appt.paid => appt.intent # i \/ (~ seen.paid /\ Late(seen))
                 /\ ~ appt.paid => ~ seen.paid /\ Late(seen)
                 /\ RefundExtra(i) /\ UNCHANGED appt /\ Ends(w)
BY Facts DEF Finalize, JobOK, PaidStays

LEMMA FinalizeT == ASSUME Tables, TInv, NEW w \in Worker, Finalize(w) PROVE TInv' /\ Stays
<1> DEFINE i == job[w].intent
           seen == job[w].seen
<1>1. /\ i \in IntentId /\ intent[i].st = "succeeded" /\ heard' = heard \cup {i}
      /\ PaidOK(seen) /\ PaidStays(seen, appt) /\ UNCHANGED <<keys, price>>
  BY FinalizeCases
<1>2. heard' \subseteq IntentId
  BY <1>1, Facts
<1>3. CASE UNCHANGED <<appt, intent, news>> /\ Ends(w)
  BY <1>3, Facts, IdleIsJob, <1>1, <1>2, TStep DEF Ends
<1>4. CASE ~ appt.paid /\ appt' = Recorded(i) /\ UNCHANGED <<intent, news>>
           /\ (Ends(w) \/ job' = [job EXCEPT ![w] = [op |-> "refund", intent |-> i, seen |-> Recorded(i),
                                                     value |-> intent[i].amount]])
  <2> DEFINE new == Recorded(i)
             j == [op |-> "refund", intent |-> i, seen |-> new, value |-> intent[i].amount]
  <2>1. /\ RowOK(new, intent) /\ PaidStays(appt, new) /\ new.paid
        /\ new.intent = i /\ new.amount = intent[i].amount /\ new.back = 0
        /\ ~ new.closed /\ intent[i].amount \in Money /\ intent[i].amount \in Nat /\ intent[i].amount > 0
    BY <1>1, <1>4, RecordedOK
  <2> HIDE DEF new
  <2>2. j \in Job /\ JobOK(j, new, intent)
    BY <1>1, <2>1 DEF RowOK, PaidOK, Job, JobOK, Refunding, Total, PaidStays
  <2>3. job' \in [Worker -> Job] /\ \A v \in Worker : job'[v] = job[v] \/ JobOK(job'[v], new, intent)
    BY <1>4, <2>2, Facts, IdleIsJob DEF Ends, new
  <2> QED  BY <1>1, <1>2, <1>4, <2>1, <2>3, Facts, TStep DEF new
<1>5. CASE RefundExtra(i) /\ UNCHANGED appt /\ Ends(w)
  BY <1>5, Facts, IdleIsJob, <1>1, <1>2, ExtraOK, TStep DEF Ends
<1> QED  BY <1>3, <1>4, <1>5, FinalizeCases

(* The steps of a refund: its claim, the call of Stripe, the undoing.       *)
LEMMA RefundFacts ==
    ASSUME Tables, TInv, NEW w \in Worker, Refunding(job[w])
    PROVE  LET j == job[w] IN
           /\ j \in Job /\ JobOK(j, appt, intent) /\ j.seen \in Appointment
           /\ j.intent = appt.intent /\ appt.paid /\ j.intent \in IntentId /\ j.seen.amount = appt.amount
           /\ j.value \in Nat /\ j.value > 0 /\ j.seen.back \in Nat /\ j.seen.back < j.seen.amount
           /\ Total(j) \in Nat /\ Total(j) \in Money /\ Total(j) <= appt.amount /\ appt.amount \in Nat
           /\ intent[j.intent].st = "succeeded" /\ intent[j.intent].amount = appt.amount
           /\ intent[j.intent].back \in Nat /\ intent[j.intent].back <= appt.amount
<1> DEFINE j == job[w]
<1>1. /\ j \in Job /\ JobOK(j, appt, intent) /\ PaidOK(j.seen) /\ PaidStays(j.seen, appt) /\ j.seen.paid
      /\ ~ j.seen.closed /\ j.intent = j.seen.intent /\ j.value > 0 /\ Total(j) <= j.seen.amount
  BY Facts DEF JobOK, Refunding
<1>2. /\ j.seen \in Appointment /\ j.seen.back \in Nat /\ j.seen.amount \in Nat /\ j.seen.amount \in Money
      /\ j.value \in Nat /\ j.seen.intent \in IntentId
  BY <1>1, Moneys DEF PaidOK, Appointment, Job
<1>3. appt.paid /\ appt.intent = j.seen.intent /\ appt.amount = j.seen.amount
  BY <1>1 DEF PaidStays
<1>4. Total(j) \in Nat /\ Total(j) \in Money /\ j.seen.back < j.seen.amount
  BY <1>1, <1>2, Moneys DEF Total
<1>5. intent[j.intent].st = "succeeded" /\ intent[j.intent].amount = appt.amount
  BY <1>1, <1>3, Facts DEF RowOK
<1>6. intent[j.intent].back \in Nat /\ intent[j.intent].back <= appt.amount
  BY <1>1, <1>2, <1>5, Facts, Moneys DEF IntentsOK, Intent
<1> QED  BY <1>1, <1>2, <1>3, <1>4, <1>5, <1>6

(* The row says something else was given back, of the same payment.         *)
LEMMA BackChange ==
    ASSUME Tables, TInv, appt.paid, NEW n \in Nat, n <= appt.amount, NEW c \in BOOLEAN, c <=> n = appt.amount,
           appt' = [appt EXCEPT !.back = n, !.closed = c]
    PROVE  RowOK(appt', intent) /\ PaidStays(appt, appt') /\ appt'.back = n /\ appt'.closed = c
BY Facts, Moneys DEF RowOK, Appointment, PaidOK, PaidStays

LEMMA RefundClaimsT == ASSUME Tables, TInv, NEW w \in Worker, RefundClaims(w) PROVE TInv' /\ Stays
<1> DEFINE j == job[w]
           after == j.seen.back + j.value
<1>1. Refunding(j) /\ j.op = "refund"
  BY DEF RefundClaims, Refunding
<1>2. CASE Claims(j.seen)
  <2>1. /\ appt' = [appt EXCEPT !.back = after, !.closed = (after >= j.seen.amount)]
        /\ job' = [job EXCEPT ![w].op = "claimed"] /\ after = Total(j)
    BY <1>2 DEF RefundClaims, Total
  <2>2. RowOK(appt', intent) /\ PaidStays(appt, appt')
    <3>1. /\ appt.paid /\ after \in Nat /\ after <= appt.amount /\ j.seen.amount = appt.amount /\ appt.amount \in Nat
      BY <1>1, <2>1, RefundFacts
    <3> HIDE DEF after
    <3>2. (after >= appt.amount) \in BOOLEAN /\ ((after >= appt.amount) <=> after = appt.amount)
      BY <3>1
    <3> QED  BY <2>1, <3>1, <3>2, BackChange
  <2>3. job'[w] = [j EXCEPT !.op = "claimed"] /\ \A v \in Worker : v # w => job'[v] = job[v]
    BY <2>1, Facts
  <2>4. JobOK(j, appt', intent)
    BY <1>1, <2>2, JobKept, RefundFacts, Facts DEF RowOK
  <2>5. job'[w] \in Job /\ JobOK(job'[w], appt', intent) /\ job' \in [Worker -> Job]
    BY <1>1, <2>1, <2>3, <2>4, Facts, RefundFacts DEF Job, JobOK, Refunding, Total
  <2> QED  BY <2>2, <2>3, <2>5, Facts, TStep DEF RefundClaims
<1>3. CASE ~ Claims(j.seen)
  BY <1>3, IdleIsJob, Facts, TJob DEF RefundClaims, Ends
<1> QED  BY <1>2, <1>3

(* What the call of Stripe does: nothing, or the refund asked for.          *)
LEMMA CallCases ==
    ASSUME Tables, TInv, NEW w \in Worker, RefundCalls(w)
    PROVE  LET i == job[w].intent IN
           /\ Refunding(job[w]) /\ UNCHANGED <<appt, price, heard>>
           /\ \/ /\ UNCHANGED <<intent, news, keys>>
                 /\ KeyOf(job[w]) \in keys \/ job[w].value > Left(i)
              \/ /\ Returns(i, job[w].value) /\ job[w].value \in 1 .. Left(i)
                 /\ KeyOf(job[w]) \notin keys /\ keys' = keys \cup {KeyOf(job[w])}
           /\ \/ Ends(w) /\ (KeyOf(job[w]) \in keys \/ job[w].value <= Left(i) \/ Left(i) <= 0)
              \/ /\ job' = [job EXCEPT ![w].op = "revert"]
                 /\ "lost" \in Faults \/ (KeyOf(job[w]) \notin keys /\ job[w].value > Left(i))
<1>1. Refunding(job[w])
  BY DEF RefundCalls, Refunding
<1>2. Left(job[w].intent) \in Int /\ job[w].value \in Nat /\ job[w].value > 0
  BY <1>1, RefundFacts, Facts DEF Left
<1> DEFINE i == job[w].intent
           key == KeyOf(job[w])
           known == key \in keys
           refused == ~ known /\ job[w].value > Left(i)
<1>3. /\ UNCHANGED <<appt, price, heard>>
      /\ IF known \/ refused THEN UNCHANGED <<intent, news, keys>>
         ELSE Returns(i, job[w].value) /\ keys' = keys \cup {key}
      /\ \E lost \in {FALSE, "lost" \in Faults} :
            IF lost \/ (refused /\ Left(i) > 0)
            THEN job' = [job EXCEPT ![w].op = "revert"]
            ELSE Ends(w)
  BY DEF RefundCalls, KeyOf, Total
<1>4. \/ Ends(w) /\ (known \/ ~ (job[w].value > Left(i)) \/ ~ (Left(i) > 0))
      \/ job' = [job EXCEPT ![w].op = "revert"] /\ ("lost" \in Faults \/ refused)
  <2> HIDE DEF key, i
  <2> QED  BY <1>3, Zenon
<1>5. \/ UNCHANGED <<intent, news, keys>> /\ (known \/ job[w].value > Left(i))
      \/ Returns(i, job[w].value) /\ ~ known /\ ~ (job[w].value > Left(i)) /\ keys' = keys \cup {key}
  <2> HIDE DEF key, i
  <2> QED  BY <1>3, Zenon
<1>6. ~ (job[w].value > Left(i)) => job[w].value <= Left(i) /\ job[w].value \in 1 .. Left(i)
  BY <1>2
<1>7. ~ (Left(i) > 0) => Left(i) <= 0
  BY <1>2
<1> HIDE DEF key, i
<1>8. /\ Refunding(job[w]) /\ UNCHANGED <<appt, price, heard>>
      /\ \/ /\ UNCHANGED <<intent, news, keys>>
            /\ known \/ job[w].value > Left(i)
         \/ /\ Returns(i, job[w].value) /\ job[w].value \in 1 .. Left(i)
            /\ ~ known /\ keys' = keys \cup {key}
      /\ \/ Ends(w) /\ (known \/ job[w].value <= Left(i) \/ Left(i) <= 0)
         \/ /\ job' = [job EXCEPT ![w].op = "revert"]
            /\ "lost" \in Faults \/ (~ known /\ job[w].value > Left(i))
  BY <1>1, <1>3, <1>4, <1>5, <1>6, <1>7, Zenon
<1> QED  BY <1>8, Zenon DEF key, i

LEMMA RefundCallsT == ASSUME Tables, TInv, NEW w \in Worker, RefundCalls(w) PROVE TInv' /\ Stays
<1> DEFINE j == job[w]
           i == j.intent
<1>1. Refunding(j) /\ UNCHANGED <<appt, price, heard>>
  BY CallCases
<1>2. IntentsOK(intent') /\ IntentsStay(intent, intent') /\ NewsOK(news', intent') /\ RowOK(appt, intent')
      /\ keys' \subseteq IntentId \X Money
  <2>1. CASE UNCHANGED <<intent, news, keys>>
    BY <2>1, Facts
  <2>2. CASE Returns(i, j.value) /\ j.value \in 1 .. Left(i) /\ keys' = keys \cup {KeyOf(j)}
    <3>1. i \in IntentId /\ intent[i].st = "succeeded" /\ Total(j) \in Money
      BY <1>1, RefundFacts
    <3>2. keys' \subseteq IntentId \X Money
      BY <2>2, <3>1, Facts DEF KeyOf
    <3> HIDE DEF i, j
    <3>3. IntentsOK(intent') /\ IntentsStay(intent, intent') /\ NewsOK(news', intent') /\ RowOK(appt, intent')
      BY <2>2, <3>1, ReturnsOK
    <3> QED  BY <3>2, <3>3
  <2> QED  BY <2>1, <2>2, CallCases
<1>3. JobOK(j, appt, intent')
  BY <1>1, <1>2, JobKept, RefundFacts, Facts DEF RowOK
<1>4. job' \in [Worker -> Job] /\ \A v \in Worker : job'[v] = job[v] \/ JobOK(job'[v], appt, intent')
  <2>1. CASE Ends(w)
    BY <2>1, Facts, IdleIsJob DEF Ends
  <2>2. CASE job' = [job EXCEPT ![w].op = "revert"]
    BY <2>2, Facts, <1>1, <1>3, RefundFacts DEF Job, JobOK, Refunding, Total
  <2> QED  BY <2>1, <2>2, CallCases
<1> QED  BY <1>1, <1>2, <1>4, Facts, TStep

LEMMA RefundRevertsT == ASSUME Tables, TInv, NEW w \in Worker, RefundReverts(w) PROVE TInv' /\ Stays
<1> DEFINE seen == job[w].seen
<1>1. Refunding(job[w])
  BY DEF RefundReverts, Refunding
<1>2. RowOK(appt', intent) /\ PaidStays(appt, appt')
  <2>1. CASE appt' = appt
    BY <2>1, Facts
  <2>2. CASE appt' = [appt EXCEPT !.back = seen.back, !.closed = FALSE]
    <3>1. appt.paid /\ seen.back \in Nat /\ seen.back < appt.amount /\ appt.amount \in Nat
      BY <1>1, RefundFacts
    <3> HIDE DEF seen
    <3>2. FALSE \in BOOLEAN /\ (FALSE <=> seen.back = appt.amount) /\ seen.back <= appt.amount
      BY <3>1
    <3> QED  BY <2>2, <3>1, <3>2, BackChange
  <2> QED  BY <2>1, <2>2 DEF RefundReverts
<1>3. job' \in [Worker -> Job] /\ \A v \in Worker : job'[v] = job[v] \/ JobOK(job'[v], appt', intent)
  BY Facts, IdleIsJob DEF RefundReverts, Ends
<1> QED  BY <1>2, <1>3, Facts, TStep DEF RefundReverts

LEMMA SyncFacts ==
    ASSUME Tables, TInv, NEW w \in Worker, job[w].op = "sync"
    PROVE  LET j == job[w] IN
           /\ j.seen \in Appointment /\ j.intent = appt.intent /\ j.intent \in IntentId /\ appt.paid
           /\ j.seen.amount = appt.amount /\ appt.amount \in Nat /\ appt.amount \in Money
           /\ j.value \in Nat /\ j.value <= intent[j.intent].back
           /\ intent[j.intent].back \in Nat /\ intent[j.intent].back <= appt.amount
           /\ j.seen.back \in Nat /\ j.seen.back < appt.amount
           /\ Synced(j.seen, j.value) \in Nat /\ Synced(j.seen, j.value) <= appt.amount
           /\ Synced(j.seen, j.value) = IF j.value > j.seen.back THEN j.value ELSE j.seen.back
<1> DEFINE j == job[w]
<1>1. /\ j \in Job /\ JobOK(j, appt, intent) /\ PaidOK(j.seen) /\ PaidStays(j.seen, appt) /\ j.seen.paid
      /\ ~ j.seen.closed /\ j.intent = j.seen.intent /\ j.value <= intent[j.intent].back
  BY Facts DEF JobOK
<1>2. /\ j.seen \in Appointment /\ j.seen.back \in Nat /\ j.seen.amount \in Nat /\ j.seen.amount \in Money
      /\ j.value \in Nat /\ j.seen.intent \in IntentId
  BY <1>1, Moneys DEF PaidOK, Appointment, Job
<1>3. appt.paid /\ appt.intent = j.seen.intent /\ appt.amount = j.seen.amount
  BY <1>1 DEF PaidStays
<1>4. j.seen.back < j.seen.amount
  BY <1>1, <1>2 DEF PaidOK
<1>5. intent[j.intent].st = "succeeded" /\ intent[j.intent].amount = appt.amount
  BY <1>1, <1>3, Facts DEF RowOK
<1>6. intent[j.intent].back \in Nat /\ intent[j.intent].back <= appt.amount
  BY <1>1, <1>2, <1>5, Facts, Moneys DEF IntentsOK, Intent
<1>7. Synced(j.seen, j.value) = IF j.value > j.seen.back THEN j.value ELSE j.seen.back
  BY DEF Synced
<1> QED  BY <1>1, <1>2, <1>3, <1>4, <1>5, <1>6, <1>7

LEMMA SyncWritesT == ASSUME Tables, TInv, NEW w \in Worker, SyncWrites(w) PROVE TInv' /\ Stays
<1> DEFINE seen == job[w].seen
           next == Synced(seen, job[w].value)
<1>1. /\ appt.paid /\ seen.amount = appt.amount /\ appt.amount \in Nat /\ appt.amount \in Money
      /\ next \in Nat /\ next <= appt.amount
  BY SyncFacts DEF SyncWrites
<1>2. next \in Money
  BY <1>1, Moneys
<1>3. RowOK(appt', intent) /\ PaidStays(appt, appt')
  <2>1. CASE appt' = appt
    BY <2>1, Facts
  <2>2. CASE appt' = [appt EXCEPT !.back = next, !.closed = (next >= seen.amount)]
    <3> HIDE DEF next
    <3>1. (next >= appt.amount) \in BOOLEAN /\ ((next >= appt.amount) <=> next = appt.amount)
      BY <1>1
    <3> QED  BY <1>1, <2>2, <3>1, BackChange
  <2> QED  BY <2>1, <2>2 DEF SyncWrites
<1>4. job' \in [Worker -> Job] /\ \A v \in Worker : job'[v] = job[v] \/ JobOK(job'[v], appt', intent)
  BY Facts, IdleIsJob DEF SyncWrites, Ends
<1> QED  BY <1>3, <1>4, Facts, TStep DEF SyncWrites

(* A cancellation: the fee that stays, and the refund of the rest.          *)
LEMMA CancelCases ==
    ASSUME Tables, TInv, NEW w \in Worker, CancelWrites(w)
    PROVE  \E kept \in Money :
             LET seen == job[w].seen
                 rest == Returned(seen, kept)
                 pays == seen.paid /\ ~ seen.closed
             IN
             /\ job[w].op = "cancel" /\ PaidOK(seen) /\ PaidStays(seen, appt)
             /\ kept <= Remaining(seen) /\ (~ pays => kept = 0)
             /\ rest = seen.amount - seen.back - kept /\ rest \in Int
             /\ appt' = [appt EXCEPT !.status = "CANCELLED", !.kept = kept]
             /\ \/ /\ pays /\ rest > 0 /\ appt.back + rest <= appt.amount /\ rest \in Money
                   /\ job' = [job EXCEPT ![w] = [op |-> "refund", intent |-> appt.intent, seen |-> appt,
                                                 value |-> rest]]
                \/ Ends(w) /\ (pays => rest <= 0 \/ appt.back + rest > appt.amount)
<1> DEFINE seen == job[w].seen
<1>1. job[w].op = "cancel" /\ PaidOK(seen) /\ PaidStays(seen, appt)
  BY Facts DEF CancelWrites, JobOK
<1>2. seen.amount \in Nat /\ seen.amount \in Money /\ seen.back \in Nat /\ seen.back <= seen.amount /\ 0 \in Money
  BY <1>1, Moneys, TopMax DEF PaidOK, Appointment
<1>3. Remaining(seen) \in Nat /\ Remaining(seen) <= seen.amount /\ Remaining(seen) = seen.amount - seen.back
  BY <1>2 DEF Remaining
<1>4. PICK fee \in {0, 1} :
         LET pays == seen.paid /\ ~ seen.closed
             kept == IF ~ pays THEN 0 ELSE IF fee > Remaining(seen) THEN Remaining(seen) ELSE fee
         IN /\ appt' = [appt EXCEPT !.status = "CANCELLED", !.kept = kept]
            /\ IF pays /\ Returned(seen, kept) > 0 /\ appt.back + Returned(seen, kept) <= appt.amount
               THEN job' = [job EXCEPT ![w] = [op |-> "refund", intent |-> appt.intent, seen |-> appt,
                                               value |-> Returned(seen, kept)]]
               ELSE Ends(w)
  BY DEF CancelWrites
<1> DEFINE pays == seen.paid /\ ~ seen.closed
           kept == IF ~ pays THEN 0 ELSE IF fee > Remaining(seen) THEN Remaining(seen) ELSE fee
           rest == Returned(seen, kept)
<1>5. kept \in Nat /\ kept <= Remaining(seen) /\ kept \in Money /\ (~ pays => kept = 0)
  BY <1>2, <1>3, Moneys
<1>6. /\ appt' = [appt EXCEPT !.status = "CANCELLED", !.kept = kept]
      /\ IF pays /\ rest > 0 /\ appt.back + rest <= appt.amount
         THEN job' = [job EXCEPT ![w] = [op |-> "refund", intent |-> appt.intent, seen |-> appt, value |-> rest]]
         ELSE Ends(w)
  BY <1>4
<1> HIDE DEF kept
<1>7. rest = seen.amount - seen.back - kept /\ rest \in Nat /\ rest <= seen.amount
  BY <1>2, <1>3, <1>5 DEF Returned
<1>8. rest \in Money
  BY <1>2, <1>7, Moneys
<1>9. appt.back \in Nat /\ appt.amount \in Nat
  BY Facts, Moneys DEF Appointment
<1> HIDE DEF rest
<1>10. \/ /\ pays /\ rest > 0 /\ appt.back + rest <= appt.amount /\ rest \in Money
          /\ job' = [job EXCEPT ![w] = [op |-> "refund", intent |-> appt.intent, seen |-> appt, value |-> rest]]
       \/ Ends(w) /\ (pays => rest <= 0 \/ appt.back + rest > appt.amount)
  BY <1>6, <1>7, <1>8, <1>9
<1>11. /\ job[w].op = "cancel" /\ PaidOK(seen) /\ PaidStays(seen, appt)
       /\ kept <= Remaining(seen) /\ (~ pays => kept = 0)
       /\ rest = seen.amount - seen.back - kept /\ rest \in Int
       /\ appt' = [appt EXCEPT !.status = "CANCELLED", !.kept = kept]
  BY <1>1, <1>5, <1>6, <1>7
<1>12. \E k \in Money :
          /\ job[w].op = "cancel" /\ PaidOK(seen) /\ PaidStays(seen, appt)
          /\ k <= Remaining(seen) /\ (~ pays => k = 0)
          /\ Returned(seen, k) = seen.amount - seen.back - k /\ Returned(seen, k) \in Int
          /\ appt' = [appt EXCEPT !.status = "CANCELLED", !.kept = k]
          /\ \/ /\ pays /\ Returned(seen, k) > 0 /\ appt.back + Returned(seen, k) <= appt.amount
                /\ Returned(seen, k) \in Money
                /\ job' = [job EXCEPT ![w] = [op |-> "refund", intent |-> appt.intent, seen |-> appt,
                                              value |-> Returned(seen, k)]]
             \/ Ends(w) /\ (pays => Returned(seen, k) <= 0 \/ appt.back + Returned(seen, k) > appt.amount)
  BY <1>5, <1>10, <1>11, Zenon DEF rest
<1> QED  BY <1>12, Zenon

LEMMA CancelWritesT == ASSUME Tables, TInv, NEW w \in Worker, CancelWrites(w) PROVE TInv' /\ Stays
<1> DEFINE seen == job[w].seen
<1>1. PICK kept \in Money :
             /\ PaidOK(seen) /\ PaidStays(seen, appt)
             /\ appt' = [appt EXCEPT !.status = "CANCELLED", !.kept = kept]
             /\ \/ /\ seen.paid /\ Returned(seen, kept) > 0 /\ ~ seen.closed
                   /\ appt.back + Returned(seen, kept) <= appt.amount /\ Returned(seen, kept) \in Money
                   /\ job' = [job EXCEPT ![w] = [op |-> "refund", intent |-> appt.intent, seen |-> appt,
                                                 value |-> Returned(seen, kept)]]
                \/ Ends(w)
  BY CancelCases
<1> DEFINE rest == Returned(seen, kept)
           j == [op |-> "refund", intent |-> appt.intent, seen |-> appt, value |-> rest]
<1>2. RowOK(appt', intent) /\ PaidStays(appt, appt')
  BY <1>1, Facts DEF RowOK, PaidOK, PaidStays, Appointment
<1>3. job' \in [Worker -> Job] /\ \A v \in Worker : job'[v] = job[v] \/ JobOK(job'[v], appt', intent)
  <2>1. CASE Ends(w)
    BY <2>1, Facts, IdleIsJob DEF Ends
  <2>2. CASE /\ seen.paid /\ rest > 0 /\ appt.back + rest <= appt.amount /\ rest \in Money
             /\ job' = [job EXCEPT ![w] = j]
    <3>1. appt.paid /\ appt.intent \in IntentId /\ appt \in Appointment /\ PaidOK(appt)
      BY <1>1, <2>2, Facts DEF PaidStays, RowOK, PaidOK
    <3> HIDE DEF rest
    <3>2. j \in Job /\ PaidOK(j.seen)
      BY <2>2, <3>1 DEF Job
    <3>3. appt.back \in Nat /\ appt.amount \in Nat /\ ~ appt.closed
      BY <2>2, Facts, Moneys, <3>1 DEF Appointment, PaidOK
    <3>4. JobOK(j, appt', intent)
      BY <1>2, <2>2, <3>1, <3>2, <3>3 DEF JobOK, Refunding, Total
    <3> QED  BY <2>2, <3>2, <3>4, Facts
  <2> QED  BY <1>1, <2>1, <2>2
<1> QED  BY <1>2, <1>3, Facts, TStep DEF CancelWrites

LEMMA InitT == Tables /\ Init => TInv
<1> SUFFICES ASSUME Tables, Init PROVE TInv
  OBVIOUS
<1>1. 0 \in Money
  BY TopMax
<1>2. appt \in Appointment /\ ~ appt.paid /\ appt.amount = 0 /\ appt.back = 0 /\ ~ appt.closed
  BY <1>1 DEF Init, Appointment
<1>3. IntentsOK(intent)
  BY <1>1 DEF Init, IntentsOK, Intent
<1>4. \A w \in Worker : job[w] = Idle
  BY DEF Init
<1>5. job \in [Worker -> Job] /\ \A w \in Worker : JobOK(job[w], appt, intent)
  BY <1>4, IdleIsJob DEF Init
<1>6. RowOK(appt, intent)
  BY <1>2 DEF RowOK, PaidOK
<1>7. NewsOK(news, intent) /\ heard \subseteq IntentId /\ keys \subseteq IntentId \X Money /\ price \in Prices
  BY DEF Init, NewsOK
<1>8. TypeOK
  BY <1>2, <1>3, <1>5, <1>7 DEF TypeOK, IntentsOK, NewsOK
<1> QED  BY <1>3, <1>5, <1>6, <1>7, <1>8 DEF TInv

LEMMA NextT == Tables /\ TInv /\ [Next]_vars => TInv' /\ Stays
<1> SUFFICES ASSUME Tables, TInv, [Next]_vars PROVE TInv' /\ Stays
  OBVIOUS
<1>1. CASE UNCHANGED vars
  BY <1>1, Facts, TStep DEF vars
<1> QED  BY <1>1, StartReadsT, StartEndsT, FinalizeT, RefundReadsT, RefundClaimsT,
            RefundCallsT, RefundRevertsT,
            SyncWritesT, CancelReadsT, CancelWritesT, SaleReadsT, SaleCommitsT, FinalizeReadsT, SyncReadsT,
            CustomerPaysT, PanelRefundT, UpdateServicesT, CompleteT, DeleteSaleT DEF Next

(* The rows of an appointment paid ahead, what Stripe holds and what        *)
(* requests remember are well formed, whatever runs together or is lost;    *)
(* the row never says that more was given back than was paid.               *)
THEOREM PrepaymentTypeOK == Tables => (Spec => []TypeOK)
<1> SUFFICES ASSUME Tables PROVE Spec => []TypeOK
  OBVIOUS
<1>1. Init => TInv
  BY InitT
<1>2. TInv /\ [Next]_vars => TInv'
  BY NextT
<1>3. TInv => TypeOK
  BY DEF TInv
<1> QED  BY <1>1, <1>2, <1>3, PTL DEF Spec

(***************************************************************************)
(* Charged once                                                            *)
(***************************************************************************)

LEMMA CKept ==
    ASSUME Tables, TInv, CInv, IntentsOK(intent'), Stays, NEW i \in heard
    PROVE  intent'[i].st = "succeeded" /\ ((appt'.paid /\ appt'.intent = i) \/ Left(i)' = 0)
<1>1. i \in IntentId /\ intent[i].st = "succeeded" /\ intent[i] \in Intent /\ intent'[i] \in Intent
  BY Facts DEF CInv, IntentsOK
<1>2. intent'[i].st = "succeeded" /\ intent'[i].amount = intent[i].amount /\ intent[i].back <= intent'[i].back
  BY <1>1 DEF Stays, IntentsStay
<1>3. CASE appt.paid /\ appt.intent = i
  BY <1>2, <1>3 DEF Stays, PaidStays
<1>4. CASE Left(i) = 0
  BY <1>1, Moneys, <1>2, <1>4 DEF Intent, IntentsOK, Left
<1> QED  BY <1>3, <1>4 DEF CInv

LEMMA FinalizeC ==
    ASSUME Tables, TInv, CInv, TInv', Stays, NEW w \in Worker, Finalize(w)
    PROVE  CInv'
<1> DEFINE i == job[w].intent
<1>1. i \in IntentId /\ intent[i].st = "succeeded" /\ heard' = heard \cup {i} /\ IntentsOK(intent')
  BY FinalizeCases DEF TInv
<1>2. intent'[i].st = "succeeded"
  BY <1>1 DEF Stays, IntentsStay
<1>3. (appt'.paid /\ appt'.intent = i) \/ intent'[i].amount - intent'[i].back = 0
  <2>1. CASE appt.paid /\ appt.intent = i
    BY <2>1 DEF Stays, PaidStays
  <2>2. CASE ~ appt.paid /\ appt' = Recorded(i)
    BY <1>1, <2>2, RecordedOK
  <2>3. CASE RefundExtra(i)
    <3> HIDE DEF i
    <3>1. intent'[i].back = intent'[i].amount /\ intent'[i].amount \in Nat
      BY <1>1, <2>3, ExtraOK, Moneys DEF IntentsOK, Intent
    <3> QED  BY <3>1
  <2> QED  BY <2>1, <2>2, <2>3, FinalizeCases
<1>4. ASSUME NEW h \in heard'
      PROVE  intent'[h].st = "succeeded" /\ ((appt'.paid /\ appt'.intent = h) \/ Left(h)' = 0)
  BY <1>2, <1>3, <1>1, CKept DEF Left
<1> QED  BY <1>4 DEF CInv

LEMMA HeardKept ==
    ASSUME [Next]_vars
    PROVE  heard' = heard \/ \E w \in Worker : Finalize(w)
BY DEF Next, vars, StartReads, StartEnds, RefundReads, RefundClaims, RefundCalls,
       RefundReverts, SyncWrites,
       CancelReads, CancelWrites, SaleReads, SaleCommits, FinalizeReads, SyncReads, CustomerPays, PanelRefund,
       UpdateServices, CompleteAppointment, DeleteSale

LEMMA NextC == Tables /\ TInv /\ CInv /\ [Next]_vars => CInv'
<1> SUFFICES ASSUME Tables, TInv, CInv, [Next]_vars PROVE CInv'
  OBVIOUS
<1>1. TInv' /\ Stays
  BY NextT
<1>2. CASE heard' = heard
  BY <1>1, <1>2, CKept DEF CInv, TInv
<1> QED  BY <1>1, <1>2, FinalizeC, HeardKept

(* However many tabs pay one appointment, and whatever is refunded on the   *)
(* panel, lost or billed meanwhile, every approved payment is the one the   *)
(* appointment was paid with or is wholly given back.                       *)
THEOREM PrepaymentChargedOnce == Tables => (Spec => []ChargedOnce)
<1> SUFFICES ASSUME Tables PROVE Spec => []ChargedOnce
  OBVIOUS
<1>1. Init => TInv /\ CInv
  BY InitT DEF Init, CInv
<1>2. TInv /\ CInv /\ [Next]_vars => TInv' /\ CInv'
  BY NextT, NextC
<1>3. CInv => ChargedOnce
  BY DEF CInv, ChargedOnce
<1> QED  BY <1>1, <1>2, <1>3, PTL DEF Spec

(***************************************************************************)
(* Refunds of requests that run together                                   *)
(***************************************************************************)

(* What is claimed and not yet asked of Stripe.                             *)
LEMMA OwedNat ==
    ASSUME Tables, NEW jobs \in [Worker -> Job]
    PROVE  /\ \A w \in Worker : Owing(jobs[w]) \in Nat /\ Owing(jobs[w]) <= OwedBy(jobs)
           /\ OwedBy(jobs) \in Nat
           /\ (\A w \in Worker : Owing(jobs[w]) = 0) => OwedBy(jobs) = 0
<1> DEFINE f == [w \in Worker |-> Owing(jobs[w])]
<1>1. \A w \in Worker : f[w] = Owing(jobs[w]) /\ f[w] \in Nat
  BY Moneys DEF Owing, Job
<1>2. OwedBy(jobs) = SumFunctionOnSet(f, Worker) /\ IsFiniteSet(Worker)
  BY DEF OwedBy, Tables
<1> HIDE DEF f
<1>3. SumFunctionOnSet(f, Worker) \in Nat /\ \A w \in Worker : f[w] <= SumFunctionOnSet(f, Worker)
  BY <1>1, <1>2, SumNat, SumBounds
<1>4. (\A w \in Worker : f[w] = 0) => SumFunctionOnSet(f, Worker) = 0
  BY <1>2, SumZero
<1> QED  BY <1>1, <1>2, <1>3, <1>4

LEMMA OwedSame ==
    ASSUME Tables, NEW jobs, NEW to, \A w \in Worker : Owing(to[w]) = Owing(jobs[w])
    PROVE  OwedBy(to) = OwedBy(jobs)
BY DEF OwedBy

LEMMA OwedChange ==
    ASSUME Tables, NEW jobs \in [Worker -> Job], NEW to \in [Worker -> Job], NEW w \in Worker,
           \A v \in Worker : v # w => to[v] = jobs[v]
    PROVE  OwedBy(to) = OwedBy(jobs) + Owing(to[w]) - Owing(jobs[w])
<1> DEFINE f == [v \in Worker |-> Owing(jobs[v])]
           g == [v \in Worker |-> Owing(to[v])]
<1>1. \A v \in Worker : f[v] = Owing(jobs[v]) /\ f[v] \in Int /\ g[v] = Owing(to[v]) /\ g[v] \in Int
  BY Moneys DEF Owing, Job
<1>2. IsFiniteSet(Worker) /\ OwedBy(jobs) = SumFunctionOnSet(f, Worker) /\ OwedBy(to) = SumFunctionOnSet(g, Worker)
  BY DEF OwedBy, Tables
<1>3. \A v \in Worker : v # w => g[v] = f[v]
  OBVIOUS
<1> HIDE DEF f, g
<1>5. (\A v \in Worker : f[v] \in Int) /\ (\A v \in Worker : g[v] \in Int)
  BY <1>1
<1>4. SumFunctionOnSet(g, Worker) = SumFunctionOnSet(f, Worker) + g[w] - f[w]
  BY <1>2, <1>3, <1>5, SumChange
<1> QED  BY <1>1, <1>2, <1>4

(* A step that neither claims nor gives back anything of the payment.       *)
LEMMA RStep ==
    ASSUME Tables, TInv, RInv, Stays, ~ Late(appt'), appt'.back = appt.back, appt'.paid = appt.paid, keys' = keys,
           \A i \in IntentId : intent'[i].back = intent[i].back \/ (appt.paid /\ appt.intent # i),
           \A w \in Worker : job'[w] = job[w] \/ (/\ job[w].op # "claimed" /\ job'[w].op # "claimed"
                                                  /\ JobR(job'[w], appt.back, keys))
    PROVE  RInv'
BY OwedSame, Facts DEF RInv, ClaimsDiffer, Owing, Stays, PaidStays, RowOK, PaidOK

LEMMA IdleR == ASSUME NEW back, NEW done PROVE JobR(Idle, back, done) /\ Idle.op # "claimed"
BY DEF JobR, Idle

LEMMA SeenR ==
    ASSUME ~ Late(appt), NEW op \in {"start", "finalize", "refund", "cancel"}, NEW i, NEW value, NEW back, NEW done
    PROVE  JobR([op |-> op, intent |-> i, seen |-> appt, value |-> value], back, done)
BY DEF JobR

(* Requests that only read, and steps that touch no money.                  *)
LEMMA ReadsR ==
    ASSUME Tables, TInv, RInv, Stays, NEW w \in Worker,
           StartReads(w) \/ RefundReads(w) \/ CancelReads(w) \/ \E i \in IntentId : FinalizeReads(w, i)
    PROVE  RInv'
<1>1. PICK op, i, value : op \in {"start", "finalize", "refund", "cancel"} /\ Doing(w, op, i, value)
  BY DEF StartReads, RefundReads, CancelReads, FinalizeReads
<1> DEFINE j == [op |-> op, intent |-> i, seen |-> appt, value |-> value]
<1>2. JobR(j, appt.back, keys) /\ j.op # "claimed"
  BY <1>1, SeenR DEF RInv
<1>3. job[w].op # "claimed" /\ UNCHANGED <<appt, intent, keys>>
  BY DEF StartReads, RefundReads, CancelReads, FinalizeReads, Free, Idle
<1>4. \A v \in Worker : job'[v] = job[v] \/ (v = w /\ job'[v] = j)
  BY <1>1, Facts DEF Doing
<1> HIDE DEF j
<1>5. ~ Late(appt')
  BY <1>3 DEF RInv
<1> QED  BY <1>2, <1>3, <1>4, <1>5, RStep

LEMMA SyncReadsR ==
    ASSUME Tables, TInv, RInv, Stays, NEW w \in Worker, NEW e \in news, SyncReads(w, e)
    PROVE  RInv'
<1> DEFINE j == [op |-> "sync", intent |-> e[1], seen |-> appt, value |-> e[2]]
<1>1. job[w].op # "claimed" /\ UNCHANGED <<appt, intent, keys>> /\ ~ Late(appt)
  BY DEF SyncReads, Free, Idle, RInv
<1>2. CASE appt.intent = e[1] /\ appt.paid /\ ~ appt.closed
  <2>1. e[1] \in IntentId /\ e[2] \in Nat /\ e[2] <= intent[e[1]].back
    BY Facts, Moneys DEF NewsOK
  <2>2. OwedBy(job) \in Nat /\ intent[e[1]].back \in Nat /\ appt.back = intent[e[1]].back + OwedBy(job)
    BY <1>2, <2>1, OwedNat, Facts, Moneys DEF RInv, IntentsOK, Intent
  <2>3. e[2] <= appt.back
    BY <2>1, <2>2
  <2>4. JobR(j, appt.back, keys) /\ j.op # "claimed"
    BY <1>1, <2>3 DEF JobR
  <2>5. \A v \in Worker : job'[v] = job[v] \/ (v = w /\ job'[v] = j)
    BY <1>2, Facts DEF SyncReads, Doing
  <2> HIDE DEF j
  <2> QED  BY <1>1, <2>4, <2>5, RStep
<1>3. CASE ~ (appt.intent = e[1] /\ appt.paid /\ ~ appt.closed)
  BY <1>1, <1>3, RStep DEF SyncReads
<1> QED  BY <1>2, <1>3

LEMMA SyncWritesR ==
    ASSUME Tables, TInv, RInv, Stays, NEW w \in Worker, SyncWrites(w)
    PROVE  RInv'
<1> DEFINE j == job[w]
<1>1. j.op = "sync" /\ j.value <= j.seen.back
  BY DEF SyncWrites, RInv, JobR
<1>2. Synced(j.seen, j.value) = j.seen.back /\ j.seen.back < j.seen.amount
  BY <1>1, SyncFacts
<1>3. appt' = appt /\ UNCHANGED <<intent, keys>> /\ ~ Late(appt)
  BY <1>2 DEF SyncWrites, RInv
<1>4. \A v \in Worker : job'[v] = job[v] \/ (v = w /\ job'[v] = Idle)
  BY Facts DEF SyncWrites, Ends
<1> QED  BY <1>1, <1>3, <1>4, IdleR, RStep

LEMMA CancelWritesR ==
    ASSUME Tables, TInv, RInv, Stays, NEW w \in Worker, CancelWrites(w)
    PROVE  RInv'
<1>1. PICK kept, value :
         /\ appt' = [appt EXCEPT !.status = "CANCELLED", !.kept = kept]
         /\ Ends(w) \/ job' = [job EXCEPT ![w] = [op |-> "refund", intent |-> appt.intent, seen |-> appt,
                                                  value |-> value]]
  BY CancelCases
<1> DEFINE j == [op |-> "refund", intent |-> appt.intent, seen |-> appt, value |-> value]
<1>2. appt'.back = appt.back /\ appt'.paid = appt.paid /\ ~ Late(appt')
  BY <1>1, Facts DEF Appointment, Late, RInv
<1>3. JobR(j, appt.back, keys) /\ j.op # "claimed"
  BY SeenR DEF RInv
<1>4. \A v \in Worker : job'[v] = job[v] \/ (v = w /\ (job'[v] = Idle \/ job'[v] = j))
  BY <1>1, Facts DEF Ends
<1> HIDE DEF j
<1>5. job[w].op # "claimed" /\ UNCHANGED <<intent, keys>>
  BY DEF CancelWrites
<1> QED  BY <1>2, <1>3, <1>4, <1>5, IdleR, RStep

LEMMA StartEndsR ==
    ASSUME Tables, TInv, RInv, Stays, NEW w \in Worker, StartEnds(w)
    PROVE  RInv'
<1> DEFINE seen == job[w].seen
           old == seen.intent
           j == [op |-> "finalize", intent |-> old, seen |-> appt, value |-> 0]
<1>1. JobR(j, appt.back, keys) /\ j.op # "claimed"
  BY SeenR DEF RInv
<1>2. \A v \in Worker : job'[v] = job[v] \/ (v = w /\ (job'[v] = Idle \/ job'[v] = j))
  BY Facts DEF StartEnds, Ends, Doing
<1>3. job[w].op # "claimed" /\ keys' = keys /\ old \in IntentId \cup {None}
  BY Facts DEF StartEnds, JobOK, PaidOK, Appointment
<1>4. appt'.back = appt.back /\ appt'.paid = appt.paid /\ ~ Late(appt')
  BY Facts DEF StartEnds, RInv, Late, Appointment
<1>5. \A i \in IntentId : intent'[i].back = intent[i].back
  <2>1. CASE UNCHANGED intent
    BY <2>1
  <2>2. CASE \E i \in IntentId, after \in Cancelled(old) :
               /\ intent[i].st = "none"
               /\ intent' = after \/ intent' = [after EXCEPT ![i] = [st |-> "open", amount |-> job[w].value, back |-> 0]]
    <3>1. PICK i \in IntentId, after \in Cancelled(old) :
               /\ intent[i].st = "none"
               /\ intent' = after \/ intent' = [after EXCEPT ![i] = [st |-> "open", amount |-> job[w].value, back |-> 0]]
      BY <2>2
    <3>2. after \in [IntentId -> Intent] /\ \A k \in IntentId : after[k].back = intent[k].back
      BY <1>3, CancelledOK DEF IntentsOK
    <3>3. intent[i].back = 0
      BY <3>1, Facts DEF IntentsOK
    <3> QED  BY <3>1, <3>2, <3>3
  <2> QED  BY <2>1, <2>2 DEF StartEnds
<1> HIDE DEF j
<1> QED  BY <1>1, <1>2, <1>3, <1>4, <1>5, IdleR, RStep

LEMMA CustomerPaysR == ASSUME Tables, TInv, RInv, Stays, NEW i \in IntentId, CustomerPays(i) PROVE RInv'
BY Facts, RStep DEF CustomerPays, IntentsOK, Intent, RInv

LEMMA FinalizeR == ASSUME Tables, TInv, RInv, Stays, NEW w \in Worker, Finalize(w) PROVE RInv'
<1> DEFINE i == job[w].intent
           seen == job[w].seen
           new == Recorded(i)
           j == [op |-> "refund", intent |-> i, seen |-> new, value |-> intent[i].amount]
<1>1. i \in IntentId /\ intent[i].st = "succeeded" /\ UNCHANGED keys /\ job[w].op = "finalize"
  BY FinalizeCases DEF Finalize
<1>2. ~ Late(seen) /\ ~ Late(appt)
  BY <1>1 DEF RInv, JobR
<1>3. CASE UNCHANGED <<appt, intent>> /\ Ends(w)
  BY <1>3, Facts, <1>1, <1>2, IdleR, RStep DEF Ends
<1>4. CASE /\ ~ appt.paid /\ appt' = new /\ UNCHANGED intent
           /\ job' = [job EXCEPT ![w] = j] \/ Ends(w)
  <2>1. /\ new.paid /\ new.intent = i /\ new.back = 0 /\ new.status = appt.status /\ new.sale = appt.sale
        /\ appt.back = 0
    BY <1>1, <1>4, RecordedOK, Facts DEF RowOK, PaidOK
  <2> HIDE DEF new
  <2>2. ~ Late(new)
    BY <1>2, <2>1 DEF Late
  <2>3. \A v \in Worker : job[v].op # "claimed"
    BY <1>4, RefundFacts DEF Refunding
  <2>4. \A v \in Worker : job'[v] = job[v] \/ job'[v] = Idle \/ job'[v] = j
    BY <1>4, Facts DEF Ends
  <2>5. JobR(j, 0, keys) /\ j.op # "claimed"
    BY <2>2 DEF JobR
  <2> HIDE DEF j
  <2>6. \A v \in Worker : JobR(job'[v], 0, keys) /\ job'[v].op # "claimed"
    BY <2>1, <2>3, <2>4, <2>5, IdleR DEF RInv
  <2>7. OwedBy(job') = 0
    BY FinalizeT, <2>6, OwedNat DEF TInv, TypeOK, Owing
  <2>8. intent'[i].back = 0
    BY <1>1, <1>4 DEF RInv
  <2>9. ClaimsDiffer(job')
    BY <2>6 DEF ClaimsDiffer
  <2>10. \A k \in keys' : k[2] <= appt'.back
    BY <1>1, <1>4, <2>1 DEF RInv
  <2>11. appt'.back = intent'[appt'.intent].back + OwedBy(job')
    BY <1>4, <2>1, <2>7, <2>8
  <2> QED  BY <1>1, <1>4, <2>1, <2>2, <2>6, <2>9, <2>10, <2>11 DEF RInv
<1>5. CASE appt.paid /\ appt.intent # i /\ RefundExtra(i) /\ UNCHANGED appt /\ Ends(w)
  <2>1. \A v \in Worker : job'[v] = job[v] \/ (v = w /\ job'[v] = Idle)
    BY <1>5, Facts DEF Ends
  <2>2. \A k \in IntentId : k # i => intent'[k] = intent[k]
    <3> HIDE DEF i
    <3> QED  BY <1>1, <1>5, ExtraOK
  <2> QED  BY <1>1, <1>2, <1>5, <2>1, <2>2, IdleR, RStep
<1> QED  BY <1>2, <1>3, <1>4, <1>5, FinalizeCases

LEMMA RefundClaimsR == ASSUME Tables, TInv, RInv, Stays, NEW w \in Worker, RefundClaims(w) PROVE RInv'
<1> DEFINE j == job[w]
<1>1. Refunding(j) /\ j.op = "refund" /\ UNCHANGED <<intent, keys>> /\ ~ Late(j.seen)
  BY DEF RefundClaims, Refunding, RInv, JobR
<1>2. CASE ~ Claims(j.seen)
  BY <1>2, Facts, <1>1, IdleR, RStep DEF RefundClaims, Ends, RInv
<1>3. CASE Claims(j.seen)
  <2>1. /\ j \in Job /\ j.value \in Nat /\ j.value > 0 /\ appt.back = j.seen.back /\ appt.back \in Nat
        /\ Total(j) = appt.back + j.value /\ appt.paid /\ appt.intent \in IntentId
    BY <1>1, <1>3, RefundFacts DEF Claims, Total
  <2>2. job'[w] = [j EXCEPT !.op = "claimed"] /\ \A v \in Worker : v # w => job'[v] = job[v]
    BY <1>3, Facts DEF RefundClaims
  <2>3. /\ job'[w].op = "claimed" /\ job'[w].seen = j.seen /\ job'[w].value = j.value
        /\ job'[w].intent = j.intent /\ Total(job'[w]) = Total(j)
    BY <2>1, <2>2 DEF Job, Total
  <2>4. /\ appt'.back = Total(j) /\ appt'.paid /\ appt'.intent = appt.intent /\ ~ Late(appt')
    BY <1>3, <2>1, Facts DEF RefundClaims, Appointment, Late, RInv, Total
  <2>5. \A k \in keys : k[2] \in Nat /\ k[2] <= appt.back
    BY Facts, Moneys DEF RInv
  <2>6. KeyOf(job'[w]) \notin keys /\ Total(j) \in Nat
    BY <2>1, <2>3, <2>5 DEF KeyOf
  <2>7. JobR(job'[w], appt'.back, keys)
    BY <1>1, <2>3, <2>4, <2>6 DEF JobR
  <2>8. ASSUME NEW v \in Worker, v # w PROVE JobR(job'[v], appt'.back, keys) /\ (job'[v].op = "claimed" => Total(job'[v]) # Total(j))
    BY <2>2, <2>8, RefundFacts, <2>1, <2>4, <2>6 DEF RInv, Refunding, JobR
  <2>9. ClaimsDiffer(job')
    BY <2>2, <2>3, <2>8 DEF ClaimsDiffer, RInv
  <2>10. \A k \in keys' : k[2] <= appt'.back
    BY <1>1, <2>1, <2>4, <2>5, <2>6
  <2>11. OwedBy(job') = OwedBy(job) + j.value
    <3>1. job' \in [Worker -> Job] /\ job \in [Worker -> Job]
      BY RefundClaimsT, Facts DEF TInv, TypeOK
    <3>2. OwedBy(job') = OwedBy(job) + Owing(job'[w]) - Owing(job[w])
      BY <2>2, <3>1, OwedChange
    <3>3. Owing(job'[w]) = j.value /\ Owing(job[w]) = 0 /\ OwedBy(job) \in Nat
      BY <1>1, <2>3, <3>1, OwedNat DEF Owing
    <3> QED  BY <2>1, <3>2, <3>3
  <2>12. appt'.back = intent'[appt'.intent].back + OwedBy(job')
    BY <2>1, OwedNat, Facts, Moneys, <1>1, <2>4, <2>11 DEF RInv, IntentsOK, Intent
  <2>13. \A v \in Worker : JobR(job'[v], appt'.back, keys)
    BY <2>7, <2>8
  <2> QED  BY <1>1, <2>4, <2>9, <2>10, <2>12, <2>13 DEF RInv
<1> QED  BY <1>2, <1>3

LEMMA RefundCallsR ==
    ASSUME Tables, TInv, RInv, Stays, OverlapOnly, NEW w \in Worker, RefundCalls(w)
    PROVE  RInv'
<1> DEFINE j == job[w]
           i == j.intent
<1>1. Refunding(j) /\ j.op = "claimed" /\ UNCHANGED appt
  BY CallCases DEF RefundCalls
<1>2. KeyOf(j) \notin keys /\ Total(j) <= appt.back /\ ~ Late(j.seen)
  BY <1>1 DEF RInv, JobR
<1>3. /\ i = appt.intent /\ i \in IntentId /\ appt.paid /\ j.value \in Nat /\ j.value > 0 /\ appt.amount \in Nat
      /\ intent[i].st = "succeeded" /\ intent[i].amount = appt.amount /\ intent[i].back \in Nat
      /\ intent[i] \in Intent /\ appt.back <= appt.amount /\ appt.back \in Nat
  BY <1>1, RefundFacts, Facts, Moneys DEF RowOK, PaidOK, IntentsOK, Appointment
<1>4. /\ appt.back = intent[i].back + OwedBy(job) /\ OwedBy(job) \in Nat /\ j.value <= OwedBy(job)
  BY <1>1, <1>3, OwedNat, Facts DEF Owing, RInv
<1>5. j.value <= Left(i)
  BY <1>3, <1>4 DEF Left
<1>6. Returns(i, j.value) /\ j.value \in 1 .. Left(i) /\ keys' = keys \cup {KeyOf(j)}
  BY <1>3, <1>5, <1>2, CallCases DEF Left
<1>7. Ends(w)
  BY <1>3, <1>5, CallCases DEF OverlapOnly, Left
<1>8. job'[w] = Idle /\ \A v \in Worker : v # w => job'[v] = job[v]
  BY <1>7, Facts DEF Ends
<1>9. intent'[i].back = intent[i].back + j.value /\ i = appt'.intent
  <2> HIDE DEF i, j
  <2>1. intent'[i] = [intent[i] EXCEPT !.back = intent[i].back + j.value]
    BY <1>3, <1>6, ReturnsOK
  <2> QED  BY <1>1, <1>3, <2>1 DEF Intent
<1>10. OwedBy(job') = OwedBy(job) - j.value
  BY RefundCallsT, Facts, <1>8, OwedChange, <1>1, <1>3, <1>4 DEF TInv, TypeOK, Owing, Idle
<1>11. appt'.back = intent'[appt'.intent].back + OwedBy(job')
  BY <1>1, <1>3, <1>4, <1>9, <1>10
<1>12. ASSUME NEW v \in Worker PROVE JobR(job'[v], appt'.back, keys')
  BY <1>8, IdleR, <1>1, <1>6 DEF RInv, ClaimsDiffer, KeyOf, JobR
<1>13. ClaimsDiffer(job')
  BY <1>8 DEF ClaimsDiffer, RInv, Idle
<1>14. \A k \in keys' : k[2] <= appt'.back
  BY <1>1, <1>2, <1>6 DEF KeyOf, RInv
<1> QED  BY <1>1, <1>3, <1>11, <1>12, <1>13, <1>14 DEF RInv, Late

LEMMA NextR == Tables /\ OverlapOnly /\ TInv /\ RInv /\ [Next]_vars => RInv'
<1> SUFFICES ASSUME Tables, OverlapOnly, TInv, RInv, [Next]_vars PROVE RInv'
  OBVIOUS
<1>1. Stays
  BY NextT
<1>2. CASE UNCHANGED vars
  BY <1>1, <1>2, RStep DEF vars, RInv
<1>3. CASE UpdateServices
  BY <1>1, <1>3, RStep DEF UpdateServices, RInv
<1>4. /\ \A i \in IntentId : ~ PanelRefund(i)
      /\ ~ CompleteAppointment /\ ~ DeleteSale /\ \A w \in Worker : ~ SaleReads(w)
  BY DEF OverlapOnly, PanelRefund, CompleteAppointment, DeleteSale, SaleReads
<1>5. \A w \in Worker : ~ RefundReverts(w) /\ ~ SaleCommits(w)
  BY DEF RInv, JobR, RefundReverts, SaleCommits
<1> QED  BY <1>1, <1>2, <1>3, <1>4, <1>5, ReadsR, StartEndsR, FinalizeR, RefundClaimsR,
            RefundCallsR, SyncReadsR,
            SyncWritesR, CancelWritesR, CustomerPaysR DEF Next

LEMMA InitR == Tables /\ Init => RInv
<1> SUFFICES ASSUME Tables, Init PROVE RInv
  OBVIOUS
<1>1. /\ ~ Late(appt) /\ ~ appt.paid /\ keys = {} /\ \A i \in IntentId : intent[i].back = 0
      /\ \A w \in Worker : job[w] = Idle
  BY DEF Init, Late
<1>2. ClaimsDiffer(job)
  BY <1>1 DEF ClaimsDiffer, Idle
<1> QED  BY <1>1, <1>2, IdleR DEF RInv

(* However requests overlap, once all ended the row says of the payment     *)
(* what Stripe gave back: each claim is unique, and its call is made once.  *)
THEOREM PrepaymentRefundsOverlap == Tables /\ OverlapOnly => (Spec => []RefundsAgree)
<1> SUFFICES ASSUME Tables, OverlapOnly PROVE Spec => []RefundsAgree
  OBVIOUS
<1>1. Init => TInv /\ RInv
  BY InitT, InitR
<1>2. TInv /\ RInv /\ [Next]_vars => TInv' /\ RInv'
  BY NextT, NextR
<1>3. TInv /\ RInv => RefundsAgree
  <2> SUFFICES ASSUME TInv, RInv, Quiet, appt.paid PROVE appt.back = intent[appt.intent].back
    BY DEF RefundsAgree
  <2>1. \A w \in Worker : Owing(job[w]) = 0
    BY DEF Quiet, Owing, Idle
  <2>2. OwedBy(job) = 0
    BY <2>1, OwedNat, Facts
  <2>3. appt.intent \in IntentId /\ intent[appt.intent].back \in Nat
    BY Facts, Moneys DEF RowOK, PaidOK, IntentsOK, Intent
  <2> QED  BY <2>2, <2>3 DEF RInv
<1> QED  BY <1>1, <1>2, <1>3, PTL DEF Spec

(***************************************************************************)
(* One request at a time: refunds on the panel, answers lost, the bill     *)
(***************************************************************************)

LEMMA CurrentAt ==
    ASSUME NEW jobs, OneBusy(jobs), NEW w \in Worker, jobs[w] # Idle
    PROVE  Current(jobs) = jobs[w] /\ \A v \in Worker : v # w => jobs[v] = Idle
BY DEF OneBusy, Current

LEMMA CurrentIs ==
    ASSUME NEW jobs, NEW w \in Worker, \A v \in Worker : v # w => jobs[v] = Idle
    PROVE  OneBusy(jobs) /\ Current(jobs) = jobs[w]
BY DEF OneBusy, Current

LEMMA CurrentNone ==
    ASSUME NEW jobs, \A v \in Worker : jobs[v] = Idle
    PROVE  Current(jobs) = Idle
BY DEF Current

(* A request that runs is the only one; one that starts finds none.         *)
LEMMA Runs ==
    ASSUME Tables, TInv, SInv, NEW w \in Worker, job[w].op # "idle"
    PROVE  /\ S(job[w], appt, intent, news, keys) /\ \A v \in Worker : v # w => job[v] = Idle
           /\ BInv => B(job[w], appt, intent)
           /\ job[w] \in Job /\ PaidOK(job[w].seen) /\ PaidStays(job[w].seen, appt)
BY CurrentAt, Facts DEF Idle, SInv, JobOK, BInv

LEMMA Starts ==
    ASSUME SInv, Serial, NEW w \in Worker, Free(w)
    PROVE  /\ S(Idle, appt, intent, news, keys) /\ \A v \in Worker : job[v] = Idle
           /\ BInv => B(Idle, appt, intent)
BY CurrentNone DEF SInv, BInv, Serial, Free

(* The one request that runs, or ended, in the next state.                  *)
LEMMA SStep ==
    ASSUME Tables, TInv, NEW w \in Worker, \A v \in Worker : v # w => job[v] = Idle,
           NEW j, job' = [job EXCEPT ![w] = j], S(j, appt', intent', news', keys')
    PROVE  SInv' /\ (B(j, appt', intent') => BInv')
<1>1. job'[w] = j /\ \A v \in Worker : v # w => job'[v] = Idle
  BY Facts
<1>2. OneBusy(job') /\ Current(job') = j
  BY <1>1, CurrentIs
<1> QED  BY <1>2 DEF SInv, BInv

(* Only what was given back matters of an intent.                           *)
LEMMA SBacks ==
    ASSUME Tables, TInv, NEW j, NEW a, NEW at, NEW events, NEW to, a.paid => a.intent \in IntentId,
           \A i \in IntentId : to[i].back = at[i].back, S(j, a, at, events, keys)
    PROVE  S(j, a, to, events, keys) /\ (B(j, a, at) => B(j, a, to))
BY Facts DEF KeysS, S, LateS, Covers, B

LEMMA EndsS ==
    ASSUME NEW j, NEW a, NEW at, NEW events, NEW done, S(j, a, at, events, done), ~ Claimed(j), j.op # "sync"
    PROVE  S(Idle, a, at, events, done) /\ (B(j, a, at) /\ j.op # "refund" => B(Idle, a, at))
BY DEF Base, Claimed, Idle, SeenS, LateS, S, Covers, B, Refunding

(* A request that reads the row when nobody else runs.                      *)
LEMMA SeesS ==
    ASSUME NEW a, NEW at, NEW events, NEW done, S(Idle, a, at, events, done),
           NEW op \in {"start", "finalize", "refund", "cancel", "sale"}, NEW i, NEW value,
           op = "cancel" => ~ Late(a)
    PROVE  LET j == [op |-> op, intent |-> i, seen |-> a, value |-> value] IN
           /\ S(j, a, at, events, done)
           /\ /\ B(Idle, a, at) /\ (op = "refund" => ~ a.sale)
              /\ op = "sale" => value = Remaining(a) /\ a.status # "CANCELLED"
              => B(j, a, at)
<1> DEFINE j == [op |-> op, intent |-> i, seen |-> a, value |-> value]
<1>1. Base(j, a) = a.back /\ Base(Idle, a) = a.back /\ ~ Claimed(j) /\ j.op = op /\ j.seen = a /\ j.op # "idle"
      /\ j.value = value
  BY DEF Base, Claimed, Idle
<1> HIDE DEF j
<1>2. SeenS(j, a) /\ LateS(j, a, at)
  BY <1>1 DEF SeenS, LateS, Idle, S
<1>3. a.paid => Covers(Base(j, a), a.intent, at, events, j)
  BY <1>1 DEF Covers, S, Idle
<1>4. j.op = "cancel" => ~ a.sale
  BY <1>1 DEF Late
<1>5. /\ B(Idle, a, at) /\ (op = "refund" => ~ a.sale)
      /\ op = "sale" => value = Remaining(a) /\ a.status # "CANCELLED"
      => B(j, a, at)
  BY <1>1 DEF B, Idle, Refunding
<1>6. S(j, a, at, events, done)
  BY <1>2, <1>3, <1>4 DEF S
<1> QED  BY <1>5, <1>6 DEF j

LEMMA ReadsS ==
    ASSUME Tables, TInv, SInv, Serial, NEW w \in Worker,
           StartReads(w) \/ RefundReads(w) \/ CancelReads(w) \/ \E i \in IntentId : FinalizeReads(w, i)
    PROVE  SInv' /\ (BInv => BInv')
<1>1. PICK op, i, value : op \in {"start", "finalize", "refund", "cancel"} /\ Doing(w, op, i, value)
         /\ (op = "cancel" => ~ Late(appt)) /\ (op = "refund" => ~ appt.sale)
  BY DEF StartReads, RefundReads, CancelReads, FinalizeReads, Late
<1> DEFINE j == [op |-> op, intent |-> i, seen |-> appt, value |-> value]
<1>2. UNCHANGED <<appt, intent, news, keys>> /\ Free(w)
  BY DEF StartReads, RefundReads, CancelReads, FinalizeReads
<1>3. S(Idle, appt, intent, news, keys) /\ \A v \in Worker : job[v] = Idle
  BY <1>2, Starts
<1>4. S(j, appt, intent, news, keys) /\ (B(Idle, appt, intent) => B(j, appt, intent))
  BY <1>1, <1>3, SeesS
<1>5. job' = [job EXCEPT ![w] = j]
  BY <1>1 DEF Doing
<1> HIDE DEF j
<1>6. SInv' /\ (B(j, appt', intent') => BInv')
  BY <1>2, <1>3, <1>4, <1>5, SStep
<1> QED  BY <1>2, <1>4, <1>6, Starts

LEMMA PaidIntent == ASSUME Tables, TInv PROVE appt.paid => appt.intent \in IntentId
BY Facts DEF RowOK, PaidOK

LEMMA SaleReadsS ==
    ASSUME Tables, TInv, SInv, Serial, NEW w \in Worker, SaleReads(w)
    PROVE  SInv' /\ (BInv => BInv')
<1> DEFINE ahead == IF appt.paid /\ ~ appt.closed THEN Remaining(appt) ELSE 0
           j == [op |-> "sale", intent |-> None, seen |-> appt, value |-> ahead]
<1>1. job' = [job EXCEPT ![w] = j] /\ UNCHANGED <<appt, news, keys>> /\ Free(w) /\ appt.status # "CANCELLED"
  BY DEF SaleReads, Doing
<1>2. \A i \in IntentId : intent'[i].back = intent[i].back
  BY Facts, CancelledOK DEF Appointment, SaleReads
<1>3. ahead = Remaining(appt)
  BY Facts, Moneys DEF Appointment, RowOK, PaidOK, Remaining
<1>4. S(Idle, appt, intent, news, keys) /\ (\A v \in Worker : job[v] = Idle) /\ (BInv => B(Idle, appt, intent))
  BY <1>1, Starts
<1> HIDE DEF ahead
<1>5. S(j, appt, intent, news, keys) /\ (B(Idle, appt, intent) => B(j, appt, intent))
  BY <1>1, <1>3, <1>4, SeesS
<1> HIDE DEF j
<1>6. S(j, appt, intent', news, keys) /\ (B(j, appt, intent) => B(j, appt, intent'))
  BY <1>2, <1>5, SBacks, PaidIntent
<1>7. SInv' /\ (B(j, appt', intent') => BInv')
  BY <1>1, <1>4, <1>6, SStep
<1> QED  BY <1>1, <1>4, <1>5, <1>6, <1>7

(* The bill takes off what it read, which nobody changed meanwhile.         *)
LEMMA SaleCommitsS ==
    ASSUME Tables, TInv, SInv, NEW w \in Worker, SaleCommits(w)
    PROVE  SInv' /\ (BInv => BInv')
<1> DEFINE j == job[w]
<1>1. /\ j.op = "sale" /\ job' = [job EXCEPT ![w] = Idle] /\ UNCHANGED <<intent, news, keys>>
      /\ appt' = IF appt.sale THEN appt ELSE [appt EXCEPT !.sale = TRUE, !.applied = j.value]
  BY DEF SaleCommits, Ends
<1>2. S(j, appt, intent, news, keys) /\ (\A v \in Worker : v # w => job[v] = Idle) /\ (BInv => B(j, appt, intent))
  BY <1>1, Runs
<1>3. S(Idle, appt, intent, news, keys) /\ (B(j, appt, intent) => B(Idle, appt, intent))
  BY <1>1, <1>2, EndsS DEF Claimed
<1> HIDE DEF j
<1>4. /\ appt'.paid = appt.paid /\ appt'.back = appt.back /\ appt'.intent = appt.intent /\ appt'.status = appt.status
      /\ appt'.amount = appt.amount /\ appt'.closed = appt.closed /\ appt'.kept = appt.kept
      /\ ~ appt.sale => appt'.sale /\ appt'.applied = j.value
      /\ appt.sale => appt' = appt
      /\ Base(Idle, appt) = appt.back /\ Base(Idle, appt') = appt'.back /\ Remaining(appt') = Remaining(appt)
  BY <1>1, Facts DEF Appointment, Base, Idle, Claimed, Remaining
<1>5. SeenS(Idle, appt') /\ LateS(Idle, appt', intent)
  BY <1>3, <1>4 DEF SeenS, LateS, Idle, S, Late
<1>6. appt'.paid => Covers(Base(Idle, appt'), appt'.intent, intent, news, Idle)
  BY <1>3, <1>4 DEF Covers, S
<1>7. S(Idle, appt', intent, news, keys)
  BY <1>3, <1>5, <1>6 DEF S, Idle
<1>8. B(j, appt, intent) => B(Idle, appt', intent)
  BY <1>1, <1>3, <1>4 DEF B, Idle, Refunding
<1> QED  BY <1>1, <1>2, <1>7, <1>8, SStep

LEMMA StartEndsS ==
    ASSUME Tables, TInv, SInv, NEW w \in Worker, StartEnds(w)
    PROVE  SInv' /\ (BInv => BInv')
<1> DEFINE seen == job[w].seen
           old == seen.intent
           j == [op |-> "finalize", intent |-> old, seen |-> appt, value |-> 0]
<1>1. job[w].op = "start" /\ UNCHANGED <<keys, news>>
  BY DEF StartEnds
<1>2. /\ S(job[w], appt, intent, news, keys) /\ \A v \in Worker : v # w => job[v] = Idle
      /\ BInv => B(job[w], appt, intent)
  BY <1>1, Runs
<1>3. S(Idle, appt, intent, news, keys) /\ (B(job[w], appt, intent) => B(Idle, appt, intent))
  BY <1>1, <1>2, EndsS DEF Claimed
<1>4. CASE Doing(w, "finalize", old, 0) /\ UNCHANGED <<appt, intent>>
  <2>1. job' = [job EXCEPT ![w] = j]
    BY <1>4 DEF Doing
  <2>2. S(j, appt, intent, news, keys) /\ (B(Idle, appt, intent) => B(j, appt, intent))
    BY <1>3, SeesS
  <2> HIDE DEF j
  <2> QED  BY <1>1, <1>2, <1>3, <1>4, <2>1, <2>2, SStep
<1>5. CASE Ends(w) /\ UNCHANGED <<appt, intent>>
  BY <1>1, <1>2, <1>3, <1>5, SStep DEF Ends
<1>6. CASE \E i \in {n \in IntentId : intent[n].st = "none"}, after \in Cancelled(old) :
             /\ intent' = IF Saves(seen)
                          THEN [after EXCEPT ![i] = [st |-> "open", amount |-> job[w].value, back |-> 0]]
                          ELSE after
             /\ appt' = IF Saves(seen) THEN [appt EXCEPT !.intent = i] ELSE appt
             /\ Ends(w)
  <2>1. PICK i \in {n \in IntentId : intent[n].st = "none"}, after \in Cancelled(old) :
             /\ intent' = IF Saves(seen)
                          THEN [after EXCEPT ![i] = [st |-> "open", amount |-> job[w].value, back |-> 0]]
                          ELSE after
             /\ appt' = IF Saves(seen) THEN [appt EXCEPT !.intent = i] ELSE appt
             /\ Ends(w)
    BY <1>6
  <2>2. old \in IntentId \cup {None}
    BY <1>1, Runs DEF PaidOK, Appointment
  <2>3. after \in [IntentId -> Intent] /\ \A k \in IntentId : after[k].back = intent[k].back
    BY <2>2, CancelledOK DEF IntentsOK
  <2>4. intent[i].back = 0
    BY Facts DEF IntentsOK
  <2>5. \A k \in IntentId : intent'[k].back = intent[k].back
    BY <2>1, <2>3, <2>4
  <2>6. appt' = appt \/ (~ appt.paid /\ appt' = [appt EXCEPT !.intent = i])
    BY <2>1 DEF Saves
  <2>7. S(Idle, appt', intent, news, keys) /\ (B(Idle, appt, intent) => B(Idle, appt', intent))
    BY <1>3, Facts, <2>6 DEF Appointment, S, SeenS, LateS, Idle, Late, B, Refunding
  <2>8. appt'.paid => appt'.intent \in IntentId
    BY <2>6, PaidIntent, Facts DEF Appointment
  <2>9. S(Idle, appt', intent', news, keys) /\ (B(Idle, appt', intent) => B(Idle, appt', intent'))
    BY <2>5, <2>7, <2>8, SBacks
  <2> QED  BY <1>1, <1>2, <1>3, <2>1, <2>7, <2>9, SStep DEF Ends
<1> QED  BY <1>4, <1>5, <1>6 DEF StartEnds

(* A payment is recorded only if nothing of it went back.                   *)
LEMMA FinalizeS ==
    ASSUME Tables, TInv, SInv, NEW w \in Worker, Finalize(w)
    PROVE  SInv' /\ (BInv => BInv')
<1> DEFINE i == job[w].intent
           seen == job[w].seen
           new == Recorded(i)
           j == [op |-> "refund", intent |-> i, seen |-> new, value |-> intent[i].amount]
<1>1. i \in IntentId /\ intent[i].st = "succeeded" /\ UNCHANGED keys /\ job[w].op = "finalize"
  BY FinalizeCases DEF Finalize
<1>2. /\ S(job[w], appt, intent, news, keys) /\ \A v \in Worker : v # w => job[v] = Idle
      /\ BInv => B(job[w], appt, intent)
  BY <1>1, Runs
<1>3. S(Idle, appt, intent, news, keys) /\ (B(job[w], appt, intent) => B(Idle, appt, intent))
  BY <1>1, <1>2, EndsS DEF Claimed
<1>4. /\ seen.paid = appt.paid /\ seen.sale = appt.sale
      /\ seen.status = appt.status \/ (seen.status = "CONFIRMED" /\ appt.status = "COMPLETED")
  BY <1>1, <1>2 DEF S, SeenS, Refunding
<1>5. CASE UNCHANGED <<appt, intent, news>> /\ Ends(w)
  BY <1>1, <1>2, <1>3, <1>5, SStep DEF Ends
<1>6. CASE /\ ~ appt.paid /\ ~ Late(seen) /\ appt' = new /\ UNCHANGED <<intent, news>>
           /\ \/ seen.status = "CANCELLED" /\ job' = [job EXCEPT ![w] = j]
              \/ seen.status # "CANCELLED" /\ Ends(w)
  <2>1. /\ new.paid /\ new.intent = i /\ new.back = 0 /\ new.status = appt.status /\ new.sale = appt.sale
        /\ ~ new.closed /\ new.amount = intent[i].amount /\ intent[i].amount \in Nat
        /\ intent[i].amount > 0 /\ new \in Appointment
    BY <1>1, <1>6, RecordedOK DEF RowOK, PaidOK
  <2>2. \A k \in IntentId : ~ (intent[k].back > 0)
    BY <1>1, <1>2, <1>6 DEF S, LateS
  <2>3. intent[i].back = 0
    BY <1>1, Facts, Moneys, <2>2 DEF IntentsOK, Intent
  <2>4. ~ new.sale /\ (seen.status # "CANCELLED" => new.status # "CANCELLED")
    BY <1>4, <1>6, <2>1 DEF Late
  <2> HIDE DEF new
  <2>5. S(Idle, new, intent, news, keys)
    BY <1>3, <2>1, <2>3 DEF S, Covers, Base, Claimed, Idle, SeenS, LateS
  <2>6. S(j, new, intent, news, keys)
    BY <2>5, SeesS
  <2>7. Base(j, new) = 0 /\ Base(Idle, new) = 0
    BY <2>1 DEF Base, Claimed, Idle
  <2>8. Remaining(new) - intent[i].amount = 0 /\ new.kept \in Nat /\ Total(j) = intent[i].amount
    BY <2>1, Moneys DEF Remaining, Appointment, Total
  <2>9. new.amount - Total(j) <= new.kept /\ j.op = "refund"
    BY <2>1, <2>8
  <2>10. B(j, new, intent)
    <3> HIDE DEF j
    <3> QED  BY <2>1, <2>3, <2>4, <2>7, <2>9 DEF B
  <2>11. seen.status # "CANCELLED" => B(Idle, new, intent)
    BY <2>1, <2>3, <2>4, <2>7 DEF B, Idle
  <2>12. CASE seen.status = "CANCELLED" /\ job' = [job EXCEPT ![w] = j]
    <3> HIDE DEF j
    <3> QED  BY <1>1, <1>2, <1>6, <2>6, <2>10, <2>12, SStep
  <2>13. CASE seen.status # "CANCELLED" /\ Ends(w)
    BY <1>1, <1>2, <1>6, <2>5, <2>11, <2>13, SStep DEF Ends
  <2> QED  BY <1>6, <2>12, <2>13
<1>7. CASE /\ appt.paid => appt.intent # i
           /\ ~ appt.paid => Late(seen)
           /\ RefundExtra(i) /\ UNCHANGED appt /\ Ends(w)
  <2> HIDE DEF i
  <2>1. /\ IntentsOK(intent') /\ IntentsStay(intent, intent')
        /\ \A k \in IntentId : k # i => intent'[k] = intent[k]
        /\ news \subseteq news'
    BY <1>1, <1>7, ExtraOK
  <2>2. KeysS(keys, intent')
    BY <1>3, Facts, Moneys, <2>1 DEF S, KeysS, IntentsStay, IntentsOK, Intent
  <2>3. LateS(Idle, appt, intent')
    BY <1>4, <1>7 DEF LateS, Late, Idle
  <2>4. appt.paid => intent'[appt.intent] = intent[appt.intent]
    BY <1>7, <2>1, PaidIntent
  <2>5. appt.paid => Covers(Base(Idle, appt), appt.intent, intent', news', Idle)
    BY <1>3, <2>1, <2>4 DEF Covers, S
  <2>6. S(Idle, appt, intent', news', keys)
    BY <1>3, <2>2, <2>3, <2>5 DEF S
  <2>7. B(Idle, appt, intent) => B(Idle, appt, intent')
    BY <2>4 DEF B
  <2> QED  BY <1>1, <1>2, <1>3, <1>7, <2>6, <2>7, SStep DEF Ends
<1> QED  BY <1>4, <1>5, <1>6, <1>7, FinalizeCases

LEMMA RefundClaimsS ==
    ASSUME Tables, TInv, SInv, NEW w \in Worker, RefundClaims(w)
    PROVE  SInv' /\ (BInv => BInv')
<1> DEFINE j == job[w]
           to == [j EXCEPT !.op = "claimed"]
<1>1. Refunding(j) /\ j.op = "refund" /\ UNCHANGED <<intent, keys, news>>
  BY DEF RefundClaims, Refunding
<1>2. S(j, appt, intent, news, keys) /\ (\A v \in Worker : v # w => job[v] = Idle) /\ (BInv => B(j, appt, intent))
  BY <1>1, Runs
<1>3. /\ j \in Job /\ ~ j.seen.closed /\ j.value \in Nat /\ appt.paid /\ appt.amount \in Nat
      /\ Total(j) \in Nat /\ Total(j) <= appt.amount /\ j.seen.amount = appt.amount /\ j.seen.back \in Nat
  BY <1>1, RefundFacts DEF JobOK
<1>4. j.seen.back = appt.back /\ j.seen.closed = appt.closed /\ j.seen.paid = appt.paid /\ j.seen.sale = appt.sale
  BY <1>1, <1>2 DEF S, SeenS, Claimed
<1>5. Claims(j.seen)
  BY <1>3, <1>4 DEF Claims
<1>6. /\ appt' = [appt EXCEPT !.back = Total(j), !.closed = (Total(j) >= j.seen.amount)]
      /\ job' = [job EXCEPT ![w] = to]
  BY <1>5, Facts DEF RefundClaims, Total
<1>7. /\ appt'.back = Total(j) /\ appt'.paid = appt.paid /\ appt'.sale = appt.sale /\ appt'.status = appt.status
      /\ appt'.intent = appt.intent /\ appt'.amount = appt.amount /\ appt'.kept = appt.kept
  BY <1>6, Facts DEF Appointment
<1>8. /\ to.op = "claimed" /\ to.seen = j.seen /\ to.value = j.value /\ Total(to) = Total(j)
      /\ Base(to, appt') = appt.back /\ Base(j, appt) = appt.back
  BY <1>1, <1>3, <1>4 DEF Job, Total, Base, Claimed
<1> HIDE DEF to, j
<1>9. SeenS(to, appt')
  BY <1>4, <1>7, <1>8 DEF SeenS, Claimed, Refunding
<1>10. Covers(Base(to, appt'), appt'.intent, intent, news, to)
  BY <1>1, <1>2, <1>3, <1>7, <1>8 DEF S, Covers
<1>11. S(to, appt', intent, news, keys)
  BY <1>2, <1>3, <1>7, <1>8, <1>9, <1>10 DEF S, LateS
<1>12. B(j, appt, intent) => B(to, appt', intent)
  BY <1>1, <1>7, <1>3, <1>4, Facts, Moneys, <1>8 DEF B, Appointment, Total, Remaining
<1> QED  BY <1>1, <1>2, <1>6, <1>11, <1>12, SStep

(* What Stripe gives back is told by an event; the keys it knows are of     *)
(* totals it reached.                                                       *)
LEMMA KeysKept ==
    ASSUME Tables, TInv, KeysS(keys, intent), NEW to, IntentsOK(to), IntentsStay(intent, to)
    PROVE  KeysS(keys, to)
<1> SUFFICES ASSUME NEW k \in keys PROVE k[2] <= to[k[1]].back
  BY DEF KeysS
<1>1. k[1] \in IntentId /\ k[2] \in Nat /\ k[2] <= intent[k[1]].back
  BY Facts, Moneys DEF KeysS
<1>2. intent[k[1]].back <= to[k[1]].back /\ intent[k[1]].back \in Nat /\ to[k[1]].back \in Nat
  BY <1>1, Facts, Moneys DEF IntentsStay, IntentsOK, Intent
<1> QED  BY <1>1, <1>2

LEMMA RefundCallsS ==
    ASSUME Tables, TInv, SInv, NEW w \in Worker, RefundCalls(w)
    PROVE  SInv' /\ (BillOnly /\ BInv => BInv')
<1> DEFINE j == job[w]
           i == j.intent
           to == [j EXCEPT !.op = "revert"]
<1>1. Refunding(j) /\ j.op = "claimed" /\ UNCHANGED appt
  BY CallCases DEF RefundCalls
<1>2. S(j, appt, intent, news, keys) /\ (\A v \in Worker : v # w => job[v] = Idle) /\ (BInv => B(j, appt, intent))
  BY <1>1, Runs
<1>3. /\ j \in Job /\ j.value \in Nat /\ j.value > 0 /\ appt.paid /\ appt.amount \in Nat /\ i = appt.intent
      /\ i \in IntentId /\ Total(j) \in Nat /\ Total(j) <= appt.amount /\ j.seen.amount = appt.amount
      /\ j.seen.back \in Nat /\ intent[i].st = "succeeded" /\ intent[i].amount = appt.amount
      /\ intent[i].back \in Nat /\ intent[i].back <= appt.amount /\ Total(j) = j.seen.back + j.value
  BY <1>1, RefundFacts DEF Total
<1>4. appt.back = Total(j) /\ j.seen.paid = appt.paid /\ j.seen.sale = appt.sale
  BY <1>1, <1>2 DEF S, SeenS, Claimed
<1>5. j.seen.back <= intent[i].back /\ (j.seen.back < intent[i].back => <<i, intent[i].back>> \in news)
  BY <1>1, <1>2, <1>3 DEF S, Covers, Base, Claimed
<1>6. KeysS(keys, intent)
  BY <1>2 DEF S
<1>7. KeyOf(j) \in keys => Total(j) <= intent[i].back
  BY <1>6 DEF KeysS, KeyOf
(* The call changed Stripe, or nothing. *)
<1>8. \/ /\ UNCHANGED <<intent, news, keys>>
         /\ KeyOf(j) \in keys \/ j.value > Left(i)
      \/ /\ Returns(i, j.value) /\ j.value \in 1 .. Left(i) /\ keys' = keys \cup {KeyOf(j)}
         /\ intent'[i].back = intent[i].back + j.value /\ news' = news \cup {<<i, intent'[i].back>>}
         /\ \A k \in IntentId : k # i => intent'[k] = intent[k]
         /\ IntentsOK(intent') /\ IntentsStay(intent, intent')
  <2>1. CASE Returns(i, j.value) /\ j.value \in 1 .. Left(i) /\ keys' = keys \cup {KeyOf(j)}
    <3> HIDE DEF i, j
    <3>1. intent'[i] = [intent[i] EXCEPT !.back = intent[i].back + j.value] /\ intent[i] \in Intent
      BY <1>3, <2>1, ReturnsOK, Facts DEF IntentsOK
    <3>2. intent'[i].back = intent[i].back + j.value
      BY <3>1 DEF Intent
    <3> QED  BY <1>3, <2>1, <3>2, ReturnsOK
  <2> QED  BY <2>1, CallCases
<1>9. KeysS(keys', intent')
  BY <1>6, KeysKept, <1>3, <1>5, <1>8 DEF KeysS, KeyOf
<1>10. intent'[i].back \in Nat /\ j.seen.back <= intent'[i].back
       /\ (j.seen.back < intent'[i].back => <<i, intent'[i].back>> \in news')
  BY <1>3, <1>5, <1>8
<1>11. CASE job' = [job EXCEPT ![w].op = "revert"]
           /\ ("lost" \in Faults \/ (KeyOf(j) \notin keys /\ j.value > Left(i)))
  <2>1. to.op = "revert" /\ to.seen = j.seen /\ to.value = j.value /\ Total(to) = Total(j)
        /\ Base(to, appt) = j.seen.back /\ job' = [job EXCEPT ![w] = to]
    BY <1>1, <1>3, <1>11, Facts DEF Job, Total, Base, Claimed
  <2> HIDE DEF to
  <2>2. S(to, appt, intent', news', keys')
    BY <1>3, <1>4, <1>9, <1>10, <2>1 DEF S, SeenS, LateS, Covers, Claimed, Refunding
  <2>3. ~ (BillOnly /\ BInv)
    <3> SUFFICES ASSUME BillOnly, BInv PROVE FALSE
      OBVIOUS
    <3>1. j.seen.back = intent[i].back
      BY <1>1, <1>2, <1>3 DEF B, Base, Claimed
    <3>2. j.value <= Left(i)
      BY <1>3, <3>1 DEF Left
    <3>3. Left(i) \in Int
      BY <1>3 DEF Left
    <3>4. ~ (j.value > Left(i))
      BY <1>3, <3>2, <3>3
    <3> QED  BY <1>11, <3>4 DEF BillOnly
  <2> QED  BY <1>1, <1>2, <2>1, <2>2, <2>3, SStep
<1>12. CASE Ends(w) /\ (KeyOf(j) \in keys \/ j.value <= Left(i) \/ Left(i) <= 0)
  <2>1. Base(Idle, appt) = appt.back /\ Base(j, appt) = j.seen.back
    BY <1>1 DEF Base, Idle, Claimed
  (* What the row says is what Stripe gave back, or an event tells it. *)
  <2>2. appt.back <= intent'[i].back
    BY <1>4, <1>7, <1>3, <1>12, <1>5, <1>8 DEF Left
  <2>3. appt.back < intent'[i].back => <<i, intent'[i].back>> \in news'
    BY <1>3, <1>4, <1>10
  <2>4. S(Idle, appt, intent', news', keys')
    BY <1>3, <1>9, <2>1, <2>2, <2>3 DEF S, SeenS, LateS, Covers, Idle
  <2>5. BillOnly /\ BInv => B(Idle, appt, intent')
    <3> SUFFICES ASSUME BillOnly, BInv PROVE B(Idle, appt, intent')
      OBVIOUS
    <3>1. j.seen.back = intent[i].back
      BY <1>2, <1>3, <2>1 DEF B
    <3>2. KeyOf(j) \notin keys /\ ~ (j.value > Left(i))
      BY <1>3, <1>7, <3>1 DEF Left
    <3>3. intent'[i].back = appt.back
      BY <1>3, <1>4, <1>8, <3>1, <3>2
    <3>4. ~ appt.sale
      BY <1>1, <1>2 DEF B
    <3>5. appt.status = "CANCELLED" => Remaining(appt) <= appt.kept
      BY <1>1, <1>2, <1>3 DEF B
    <3> QED  BY <1>3, <2>1, <3>3, <3>4, <3>5 DEF B, Idle
  <2> QED  BY <1>1, <1>2, <1>12, <2>4, <2>5, SStep DEF Ends
<1> QED  BY <1>11, <1>12, CallCases

(* A failed refund is taken back from the row.                              *)
LEMMA RefundRevertsS ==
    ASSUME Tables, TInv, SInv, NEW w \in Worker, RefundReverts(w)
    PROVE  SInv' /\ (BInv => BInv')
<1> DEFINE j == job[w]
<1>1. Refunding(j) /\ j.op = "revert" /\ UNCHANGED <<intent, keys, news>>
  BY DEF RefundReverts, Refunding
<1>2. S(j, appt, intent, news, keys) /\ (\A v \in Worker : v # w => job[v] = Idle) /\ (BInv => B(j, appt, intent))
  BY <1>1, Runs
<1>3. ~ BInv
  BY <1>1, <1>2 DEF B
<1>4. appt.back = Total(j) /\ appt.paid
  BY <1>1, <1>2, RefundFacts DEF S, SeenS, Claimed
<1>5. appt' = [appt EXCEPT !.back = j.seen.back, !.closed = FALSE] /\ job' = [job EXCEPT ![w] = Idle]
  BY <1>4 DEF RefundReverts, Ends, Total
<1>6. appt'.back = j.seen.back /\ appt'.paid /\ appt'.intent = appt.intent
  BY <1>4, <1>5, Facts DEF Appointment
<1> HIDE DEF j
<1>7. S(Idle, appt', intent, news, keys)
  BY <1>1, <1>2, <1>4, <1>6 DEF S, SeenS, LateS, Covers, Base, Claimed, Idle
<1> QED  BY <1>1, <1>2, <1>3, <1>5, <1>7, SStep

LEMMA SyncReadsS ==
    ASSUME Tables, TInv, SInv, Serial, NEW w \in Worker, NEW e \in news, SyncReads(w, e)
    PROVE  SInv' /\ (BInv => BInv')
<1> DEFINE j == [op |-> "sync", intent |-> e[1], seen |-> appt, value |-> e[2]]
<1>1. Free(w) /\ news' = news \ {e} /\ UNCHANGED <<appt, intent, keys>>
  BY DEF SyncReads
<1>2. S(Idle, appt, intent, news, keys) /\ (\A v \in Worker : job[v] = Idle) /\ (BInv => B(Idle, appt, intent))
  BY <1>1, Starts
<1>3. Base(Idle, appt) = appt.back /\ Base(j, appt) = appt.back /\ e = <<e[1], e[2]>>
  BY Facts DEF Base, Claimed, Idle, NewsOK
<1>4. CASE appt.intent = e[1] /\ appt.paid /\ ~ appt.closed
  <2>1. job' = [job EXCEPT ![w] = j]
    BY <1>4 DEF SyncReads, Doing
  <2>2. /\ j.op = "sync" /\ j.seen = appt /\ j.value = e[2] /\ e[1] = appt.intent
    BY <1>4
  <2> HIDE DEF j
  <2>3. SeenS(j, appt) /\ LateS(j, appt, intent)
    BY <1>4, <2>2 DEF SeenS, LateS, Claimed
  <2>4. Covers(appt.back, appt.intent, intent, news', j)
    BY <1>1, <1>2, <1>3, <1>4, <2>2 DEF S, Covers, Idle
  <2>5. S(j, appt, intent, news', keys)
    BY <1>2, <1>3, <2>2, <2>3, <2>4 DEF S
  <2>6. B(Idle, appt, intent) => B(j, appt, intent)
    BY <1>3, <2>2 DEF B, Idle, Refunding
  <2> QED  BY <1>1, <1>2, <2>1, <2>5, <2>6, SStep
<1>5. CASE ~ (appt.intent = e[1] /\ appt.paid /\ ~ appt.closed)
  BY <1>2, <1>5, Facts, <1>1, <1>3, Moneys, SStep
     DEF SyncReads, S, Covers, Idle, RowOK, PaidOK, IntentsOK, Intent, Appointment
<1> QED  BY <1>4, <1>5

(* The event is written into the row as far as it says more than the row.   *)
LEMMA SyncWritesS ==
    ASSUME Tables, TInv, SInv, NEW w \in Worker, SyncWrites(w)
    PROVE  SInv' /\ (BInv => BInv')
<1> DEFINE j == job[w]
           next == Synced(j.seen, j.value)
<1>1. j.op = "sync" /\ UNCHANGED <<intent, keys, news>> /\ job' = [job EXCEPT ![w] = Idle]
  BY DEF SyncWrites, Ends
<1>2. S(j, appt, intent, news, keys) /\ (\A v \in Worker : v # w => job[v] = Idle) /\ (BInv => B(j, appt, intent))
  BY <1>1, Runs
<1>3. /\ j.intent = appt.intent /\ j.intent \in IntentId /\ appt.paid /\ j.seen.amount = appt.amount
      /\ appt.amount \in Nat /\ j.value \in Nat /\ j.value <= intent[appt.intent].back
      /\ intent[appt.intent].back \in Nat /\ j.seen.back \in Nat /\ j.seen.back < appt.amount
      /\ next = IF j.value > j.seen.back THEN j.value ELSE j.seen.back
  BY <1>1, SyncFacts
<1>4. j.seen.back = appt.back /\ j.seen.closed = appt.closed /\ Base(j, appt) = appt.back
  BY <1>1, <1>2 DEF S, SeenS, Base, Claimed
<1>5. /\ appt.back <= intent[appt.intent].back
      /\ appt.back < intent[appt.intent].back =>
           <<appt.intent, intent[appt.intent].back>> \in news \/ j.value = intent[appt.intent].back
  BY <1>2, <1>3, <1>4 DEF S, Covers
<1>6. \/ appt' = [appt EXCEPT !.back = next, !.closed = (next >= j.seen.amount)]
      \/ appt' = appt /\ (appt.closed \/ next = appt.back)
  BY <1>4 DEF SyncWrites
<1>7. appt.closed => appt.back = appt.amount
  BY <1>3, Facts DEF RowOK, PaidOK
<1>8. appt' = appt => next = appt.back
  <2>1. ~ appt.closed
    BY <1>3, <1>4, <1>7
  <2>2. appt' = [appt EXCEPT !.back = next, !.closed = (next >= j.seen.amount)] => appt'.back = next
    <3> HIDE DEF next
    <3> QED  BY Facts DEF Appointment
  <2> QED  BY <1>6, <2>1, <2>2
<1>9. /\ appt'.paid = appt.paid /\ appt'.sale = appt.sale /\ appt'.status = appt.status /\ appt'.kept = appt.kept
      /\ appt'.intent = appt.intent /\ appt'.back = next /\ appt'.applied = appt.applied /\ appt'.amount = appt.amount
  BY <1>6, <1>8, Facts DEF Appointment
<1> HIDE DEF next, j
<1>10. Covers(next, appt.intent, intent, news, Idle)
  BY <1>3, <1>4, <1>5 DEF Covers
<1>11. Base(Idle, appt') = appt'.back
  BY DEF Base, Claimed, Idle
<1>12. S(Idle, appt', intent, news, keys)
  BY <1>2, <1>3, <1>9, <1>10, <1>11 DEF S, SeenS, LateS, Idle
<1>13. B(j, appt, intent) => B(Idle, appt', intent)
  <2> SUFFICES ASSUME B(j, appt, intent) PROVE B(Idle, appt', intent)
    OBVIOUS
  <2>1. appt.back = intent[appt.intent].back
    BY <1>3, <1>4 DEF B
  <2>2. next = appt.back
    BY <1>3, <1>4, <2>1
  <2>3. Remaining(appt') = Remaining(appt)
    BY <1>9, <2>2 DEF Remaining
  <2> QED  BY <1>1, <1>3, <1>9, <1>11, <2>1, <2>2, <2>3 DEF B, Idle, Refunding
<1> QED  BY <1>1, <1>2, <1>12, <1>13, SStep

(* A cancellation asks for what is not kept as a fee.                       *)
LEMMA CancelWritesS ==
    ASSUME Tables, TInv, SInv, NEW w \in Worker, CancelWrites(w)
    PROVE  SInv' /\ (BInv => BInv')
<1> DEFINE j == job[w]
           seen == j.seen
           pays == seen.paid /\ ~ seen.closed
<1>1. j.op = "cancel" /\ UNCHANGED <<intent, keys, news>>
  BY DEF CancelWrites
<1>2. S(j, appt, intent, news, keys) /\ (\A v \in Worker : v # w => job[v] = Idle) /\ (BInv => B(j, appt, intent))
  BY <1>1, Runs
<1>3. PICK kept \in Money :
         /\ kept <= Remaining(seen) /\ (~ pays => kept = 0)
         /\ Returned(seen, kept) = seen.amount - seen.back - kept
         /\ appt' = [appt EXCEPT !.status = "CANCELLED", !.kept = kept]
         /\ \/ /\ pays /\ Returned(seen, kept) > 0
               /\ job' = [job EXCEPT ![w] = [op |-> "refund", intent |-> appt.intent, seen |-> appt,
                                             value |-> Returned(seen, kept)]]
            \/ /\ Ends(w)
               /\ pays => Returned(seen, kept) <= 0 \/ appt.back + Returned(seen, kept) > appt.amount
  BY CancelCases
<1> DEFINE rest == Returned(seen, kept)
           r == [op |-> "refund", intent |-> appt.intent, seen |-> appt, value |-> rest]
<1>4. seen.back = appt.back /\ seen.closed = appt.closed /\ seen.paid = appt.paid /\ ~ appt.sale
  BY <1>1, <1>2 DEF S, SeenS, Claimed
<1>5. appt.paid => seen.amount = appt.amount
  BY <1>1, <1>4, Runs DEF PaidStays
<1>6. /\ appt'.paid = appt.paid /\ appt'.sale = appt.sale /\ appt'.status = "CANCELLED" /\ appt'.kept = kept
      /\ appt'.intent = appt.intent /\ appt'.back = appt.back /\ appt'.amount = appt.amount
      /\ appt'.closed = appt.closed
  BY <1>3, Facts DEF Appointment
<1>7. ~ appt.paid => \A i \in IntentId : ~ (intent[i].back > 0)
  BY <1>1, <1>2 DEF S, LateS
<1>8. Base(j, appt) = appt.back /\ Base(Idle, appt') = appt.back /\ Base(r, appt') = appt.back
  BY <1>1, <1>6 DEF Base, Claimed, Idle
<1>9. appt.amount \in Nat /\ appt.back \in Nat /\ kept \in Nat /\ appt.back <= appt.amount
  BY Facts, Moneys DEF Appointment, RowOK, PaidOK
<1>10. SeenS(r, appt') /\ SeenS(Idle, appt')
  BY <1>6 DEF SeenS, Claimed, Refunding, Idle
<1>11. appt.paid => Covers(appt.back, appt.intent, intent, news, r) /\ Covers(appt.back, appt.intent, intent, news, Idle)
  BY <1>1, <1>2, <1>8 DEF Covers, S
<1>12. r.op = "refund" /\ Total(r) = appt.back + rest /\ Refunding(r)
  BY DEF Total, Refunding
<1> HIDE DEF r, rest
<1>13. S(r, appt', intent, news, keys) /\ S(Idle, appt', intent, news, keys)
  BY <1>2, <1>6, <1>7, <1>8, <1>10, <1>11, <1>12 DEF S, LateS, Idle
<1>14. CASE /\ pays /\ rest > 0 /\ job' = [job EXCEPT ![w] = r]
  <2>1. appt.amount - Total(r) <= appt'.kept
    BY <1>3, <1>4, <1>5, <1>6, <1>9, <1>12, <1>14 DEF rest
  <2>2. B(j, appt, intent) => B(r, appt', intent)
    BY <1>4, <1>6, <1>8, <1>12, <2>1 DEF B
  <2> QED  BY <1>1, <1>2, <1>13, <1>14, <2>2, SStep
<1>15. CASE Ends(w) /\ (pays => rest <= 0 \/ appt.back + rest > appt.amount)
  <2>1. appt.paid => Remaining(appt') <= kept
    BY <1>3, <1>4, <1>5, <1>9, <1>15, <1>6, Facts DEF rest, Remaining, RowOK, PaidOK
  <2>2. B(j, appt, intent) => B(Idle, appt', intent)
    BY <1>4, <1>6, <1>8, <2>1 DEF B, Idle
  <2> QED  BY <1>1, <1>2, <1>13, <1>15, <2>2, SStep DEF Ends
<1> QED  BY <1>3, <1>14, <1>15 DEF r, rest

(* Steps of Stripe and of the shop, whatever request runs.                  *)
LEMMA CustomerPaysS ==
    ASSUME Tables, TInv, SInv, NEW i \in IntentId, CustomerPays(i)
    PROVE  SInv' /\ (BInv => BInv')
<1>1. \A k \in IntentId : intent'[k].back = intent[k].back
  BY Facts DEF CustomerPays, IntentsOK, Intent
<1>2. UNCHANGED <<appt, news, keys, job>>
  BY DEF CustomerPays
<1>3. S(Current(job), appt, intent', news, keys)
      /\ (B(Current(job), appt, intent) => B(Current(job), appt, intent'))
  BY <1>1, SBacks, PaidIntent DEF SInv
<1> QED  BY <1>2, <1>3 DEF SInv, BInv

LEMMA PanelRefundS ==
    ASSUME Tables, TInv, SInv, NEW i \in IntentId, PanelRefund(i)
    PROVE  SInv' /\ ~ BillOnly
<1> DEFINE j == Current(job)
<1>1. PICK value \in 1 .. Left(i) : Returns(i, value)
  BY DEF PanelRefund
<1>2. intent[i].st = "succeeded" /\ appt.paid /\ appt.intent = i /\ UNCHANGED <<appt, keys, job>>
  BY Facts DEF PanelRefund, RowOK
<1>3. /\ IntentsOK(intent') /\ IntentsStay(intent, intent') /\ intent[i] \in Intent
      /\ intent'[i] = [intent[i] EXCEPT !.back = intent[i].back + value]
      /\ news' = news \cup {<<i, intent'[i].back>>}
  BY <1>1, <1>2, ReturnsOK, Facts DEF IntentsOK
<1>4. intent[i].back <= intent'[i].back /\ intent[i].back \in Nat /\ intent'[i].back \in Nat
  BY <1>3, Moneys DEF IntentsStay, IntentsOK, Intent
<1>5. KeysS(keys, intent')
  BY <1>3, KeysKept DEF SInv, S
<1>6. Base(j, appt) \in Nat /\ Base(j, appt) <= intent[i].back
  <2>1. Base(j, appt) <= intent[i].back
    BY <1>2 DEF SInv, S, Covers
  <2>2. Claimed(j) => j.seen.back \in Nat
    <3> SUFFICES ASSUME Claimed(j) PROVE j.seen.back \in Nat
      OBVIOUS
    <3>1. j # Idle
      BY DEF Claimed, Idle
    <3>2. PICK w \in Worker : j = job[w]
      BY <3>1 DEF Current
    <3> QED  BY <3>2, RefundFacts DEF Claimed, Refunding
  <2>3. appt.back \in Nat
    BY Facts, Moneys DEF Appointment
  <2> QED  BY <2>1, <2>2, <2>3 DEF Base
<1> HIDE DEF j
<1>7. Covers(Base(j, appt), i, intent', news', j)
  BY <1>3, <1>4, <1>6 DEF Covers
<1>8. S(j, appt, intent', news', keys)
  BY <1>2, <1>5, <1>7 DEF S, LateS, SInv, j
<1> QED  BY <1>2, <1>8 DEF SInv, j, PanelRefund, BillOnly

(* The service ends while a request that read the row runs.                 *)
LEMMA CompleteS ==
    ASSUME Tables, TInv, SInv, CompleteAppointment
    PROVE  SInv' /\ (BInv => BInv')
<1> DEFINE j == Current(job)
<1>1. UNCHANGED <<intent, keys, news, job>> /\ appt.status = "CONFIRMED"
  BY DEF CompleteAppointment
<1>2. /\ appt'.paid = appt.paid /\ appt'.sale = appt.sale /\ appt'.status = "COMPLETED" /\ appt'.kept = appt.kept
      /\ appt'.intent = appt.intent /\ appt'.back = appt.back /\ appt'.amount = appt.amount
      /\ appt'.closed = appt.closed /\ appt'.applied = appt.applied
  BY Facts DEF CompleteAppointment, Appointment
<1>3. S(j, appt, intent, news, keys)
  BY DEF SInv
<1> HIDE DEF j
<1>4. SeenS(j, appt')
  BY <1>1, <1>2, <1>3 DEF S, SeenS
<1>5. LateS(j, appt', intent)
  BY <1>2, <1>3 DEF S, LateS, Late
<1>6. Base(j, appt') = Base(j, appt) /\ Remaining(appt') = Remaining(appt)
  BY <1>2 DEF Base, Remaining
<1>7. S(j, appt', intent, news, keys)
  BY <1>2, <1>3, <1>4, <1>5, <1>6 DEF S
<1>8. B(j, appt, intent) => B(j, appt', intent)
  BY <1>1, <1>2, <1>6 DEF B
<1> QED  BY <1>1, <1>7, <1>8 DEF SInv, BInv, j

LEMMA NextS == Tables /\ Serial /\ TInv /\ SInv /\ [Next]_vars => SInv' /\ (BillOnly /\ BInv => BInv')
<1> SUFFICES ASSUME Tables, Serial, TInv, SInv, [Next]_vars PROVE SInv' /\ (BillOnly /\ BInv => BInv')
  OBVIOUS
<1>1. CASE UNCHANGED vars \/ UpdateServices
  BY <1>1 DEF vars, UpdateServices, SInv, BInv
<1>2. ~ DeleteSale
  BY DEF Serial, DeleteSale
<1>3. \A w \in Worker : SaleReads(w) => Free(w)
  BY DEF SaleReads
<1> QED  BY <1>1, <1>2, ReadsS, StartEndsS, FinalizeS, RefundClaimsS, RefundCallsS,
            RefundRevertsS, SyncReadsS,
            SyncWritesS, CancelWritesS, SaleReadsS, SaleCommitsS, CustomerPaysS, PanelRefundS, CompleteS DEF Next

LEMMA InitS == Tables /\ Init => SInv /\ BInv
<1> SUFFICES ASSUME Tables, Init PROVE SInv /\ BInv
  OBVIOUS
<1>1. /\ ~ appt.paid /\ keys = {} /\ (\A i \in IntentId : intent[i].back = 0) /\ ~ appt.sale
      /\ \A w \in Worker : job[w] = Idle
  BY DEF Init
<1>2. OneBusy(job) /\ Current(job) = Idle
  BY <1>1, CurrentNone DEF OneBusy
<1>3. S(Idle, appt, intent, news, keys) /\ B(Idle, appt, intent)
  BY <1>1 DEF S, B, SeenS, LateS, KeysS, Idle, Refunding
<1> QED  BY <1>2, <1>3 DEF SInv, BInv

(* With refunds on the panel of Stripe, lost answers and the bill, one      *)
(* request at a time: once the events were handled, the row says what       *)
(* Stripe gave back.                                                        *)
THEOREM PrepaymentRefundsAgree == Tables /\ Serial => (Spec => []RefundsAgree)
<1> SUFFICES ASSUME Tables, Serial PROVE Spec => []RefundsAgree
  OBVIOUS
<1>1. Init => TInv /\ SInv
  BY InitT, InitS
<1>2. TInv /\ SInv /\ [Next]_vars => TInv' /\ SInv'
  BY NextT, NextS
<1>3. TInv /\ SInv => RefundsAgree
  <2> SUFFICES ASSUME TInv, SInv, Quiet, news = {}, appt.paid PROVE appt.back = intent[appt.intent].back
    BY DEF RefundsAgree
  <2>1. Current(job) = Idle
    BY CurrentNone DEF Quiet
  <2>2. Covers(appt.back, appt.intent, intent, news, Idle)
    BY <2>1 DEF SInv, S, Base, Claimed, Idle
  <2>3. appt.back \in Nat /\ intent[appt.intent].back \in Nat
    BY Facts, PaidIntent, Moneys DEF Appointment, IntentsOK, Intent
  <2> QED  BY <2>2, <2>3 DEF Covers, Idle
<1> QED  BY <1>1, <1>2, <1>3, PTL DEF Spec

(* A cancelled appointment keeps a fee at most, and the bill took off what  *)
(* was not given back.                                                      *)
THEOREM PrepaymentIsSettled == Tables /\ BillOnly => (Spec => []PrepaymentSettled)
<1> SUFFICES ASSUME Tables, BillOnly PROVE Spec => []PrepaymentSettled
  OBVIOUS
<1>1. Init => TInv /\ SInv /\ BInv
  BY InitT, InitS
<1>2. TInv /\ SInv /\ BInv /\ [Next]_vars => TInv' /\ SInv' /\ BInv'
  BY NextT, NextS DEF Serial, BillOnly
<1>3. BInv => PrepaymentSettled
  BY CurrentNone DEF PrepaymentSettled, Quiet, BInv, B, Idle
<1> QED  BY <1>1, <1>2, <1>3, PTL DEF Spec

----------------------------------------------------------------------------
(***************************************************************************)
(* Proofs about FriendInvites, for any number of requests, inviters,       *)
(* friends and invitations.                                                *)
(*                                                                         *)
(* A friend gets one free month because who accepts holds the row of the   *)
(* invitation, still pending, until the commit, and a commit waits for     *)
(* every other pending row of the friend (LInv).  An inviter is rewarded   *)
(* up to the limit because who counted holds the lock of the inviter until *)
(* the reward is written (FriendsRInv).                                    *)
(***************************************************************************)

(* There are finitely many invitations, and None names no request, no row,  *)
(* no person.                                                               *)
FriendsTables ==
    /\ IsFiniteSet(InviteId) /\ MaxRewards \in Nat
    /\ None \notin Worker /\ None \notin InviteId /\ None \notin Inviter /\ None \notin Friend

Sent(i) == invites[i].status # "none"

FriendsRowOK(i) ==
    /\ Sent(i) => invites[i].inviter \in Inviter /\ invites[i].friend \in Friend
    /\ ~ Sent(i) => invites[i] = Friends!NoInvite

OnRow == {"reject", "accept", "prior", "others", "reward", "counted"}

FriendsJobOK(w) ==
    /\ FriendsJob[w].op = "create" => FriendsJob[w].inviter \in Inviter /\ FriendsJob[w].friend \in Friend
    /\ FriendsJob[w].op \in OnRow => FriendsJob[w].invite \in InviteId /\ Sent(FriendsJob[w].invite)

FriendsTInv ==
    /\ Friends!TypeOK
    /\ \A i \in InviteId : FriendsRowOK(i)
    /\ \A w \in Worker : FriendsJobOK(w)

Holds(w, i) == FriendsJob[w].op \in {"prior", "others"} /\ FriendsJob[w].invite = i

Taken(f) == \E i \in InviteId : invites[i].friend = f /\ invites[i].status = "ACCEPTED"

LInv ==
    /\ \A i \in InviteId, w \in Worker :
         /\ rowLock[i] = w <=> Holds(w, i)
         /\ Holds(w, i) => invites[i].status = "PENDING"
         /\ Holds(w, i) /\ FriendsJob[w].op = "others" => ~ Taken(invites[i].friend)
    /\ \A i \in InviteId : invites[i].friendCoupon => invites[i].status = "ACCEPTED"
    /\ \A i, k \in InviteId :
         invites[i].status = "ACCEPTED" /\ invites[k].status = "ACCEPTED"
           /\ invites[i].friend = invites[k].friend => i = k

FriendsRInv ==
    /\ \A i \in InviteId : invites[i].inviterCoupon =>
         invites[i].status = "ACCEPTED" /\ invites[i].friend \in FriendsPaid
    /\ \A w \in Worker : FriendsJob[w].op \in {"reward", "counted"} =>
         invites[FriendsJob[w].invite].status = "ACCEPTED"
    /\ \A w \in Worker, a \in Inviter :
         FriendsJob[w].op = "counted" /\ invites[FriendsJob[w].invite].inviter = a => Friends!Rewards(a) < MaxRewards
    /\ \A v, w \in Worker :
         FriendsJob[v].op = "counted" /\ FriendsJob[w].op = "counted"
           /\ invites[FriendsJob[v].invite].inviter = invites[FriendsJob[w].invite].inviter => v = w
    /\ \A a \in Inviter : Friends!Rewards(a) <= MaxRewards

----------------------------------------------------------------------------
(* Types *)

LEMMA Blank == Friends!NoInvite \in Friends!Invite /\ Friends!Idle \in Friends!Job /\ Friends!Idle.op = "idle"
BY DEF Friends!NoInvite, Friends!Invite, Friends!Idle, Friends!Job, Friends!Ops

(* The rows that are written have the type of a row. *)
LEMMA Edited ==
    \A x \in Friends!Invite : /\ [x EXCEPT !.status = "REJECTED"] \in Friends!Invite
                              /\ [x EXCEPT !.status = "ACCEPTED", !.friendCoupon = TRUE] \in Friends!Invite
                              /\ [x EXCEPT !.inviterCoupon = TRUE] \in Friends!Invite
BY DEF Friends!Invite

LEMMA Refused ==
    ASSUME NEW x \in Friends!Invite
    PROVE  LET y == [x EXCEPT !.status = "REJECTED"] IN
           /\ y.status = "REJECTED" /\ y.friend = x.friend /\ y.inviter = x.inviter
           /\ y.friendCoupon <=> x.friendCoupon
           /\ y.inviterCoupon <=> x.inviterCoupon
BY DEF Friends!Invite

LEMMA Rewarded ==
    ASSUME NEW x \in Friends!Invite
    PROVE  LET y == [x EXCEPT !.inviterCoupon = TRUE] IN
           /\ y.status = x.status /\ y.friend = x.friend /\ y.inviter = x.inviter
           /\ y.friendCoupon <=> x.friendCoupon
           /\ y.inviterCoupon
BY DEF Friends!Invite

LEMMA Accepted ==
    ASSUME NEW x \in Friends!Invite
    PROVE  LET y == [x EXCEPT !.status = "ACCEPTED", !.friendCoupon = TRUE] IN
           /\ y.status = "ACCEPTED" /\ y.friend = x.friend /\ y.inviter = x.inviter
           /\ y.inviterCoupon <=> x.inviterCoupon
BY DEF Friends!Invite

LEMMA Created ==
    ASSUME NEW a \in Inviter, NEW f \in Friend, NEW late \in BOOLEAN
    PROVE  [Friends!NoInvite EXCEPT !.status = "PENDING", !.inviter = a, !.friend = f,
                                    !.late = late] \in Friends!Invite
BY DEF Friends!Invite, Friends!NoInvite

LEMMA FriendsInitT == FriendsTables /\ Friends!Init => FriendsTInv
BY Blank
   DEF FriendsTables, Friends!Init, FriendsTInv, Friends!TypeOK, FriendsRowOK, Sent,
       FriendsJobOK, Friends!NoInvite, OnRow

(* A request ends, or takes a next step with the row it has. *)
LEMMA JobStep ==
    ASSUME FriendsTInv, NEW w \in Worker,
           \/ FriendsJob' = [FriendsJob EXCEPT ![w] = Friends!Idle]
           \/ \E op \in Friends!Ops : /\ FriendsJob' = [FriendsJob EXCEPT ![w].op = op]
                                      /\ op \in {"idle"} \cup OnRow /\ FriendsJob[w].op \in OnRow,
           \A i \in InviteId : Sent(i) => Sent(i)'
    PROVE  FriendsJob' \in [Worker -> Friends!Job] /\ \A v \in Worker : FriendsJobOK(v)'
BY Blank DEF FriendsTInv, Friends!TypeOK, FriendsJobOK, Friends!Job, OnRow

(* One field of one row that was sent changes, or nothing does. *)
LEMMA RowsKept ==
    ASSUME FriendsTInv, NEW i \in InviteId, Sent(i), NEW r \in Friends!Invite, r.status # "none",
           r.inviter = invites[i].inviter, r.friend = invites[i].friend,
           invites' = invites \/ invites' = [invites EXCEPT ![i] = r]
    PROVE  /\ invites' \in [InviteId -> Friends!Invite]
           /\ \A k \in InviteId : FriendsRowOK(k)' /\ (Sent(k) => Sent(k)')
BY DEF FriendsTInv, Friends!TypeOK, FriendsRowOK, Sent

LEMMA FriendsNextT == FriendsTables /\ FriendsTInv /\ [Friends!Next]_(Friends!vars) => FriendsTInv'
<1> SUFFICES ASSUME FriendsTables, FriendsTInv, [Friends!Next]_(Friends!vars) PROVE FriendsTInv'
  OBVIOUS
<1>t. /\ registered \subseteq Friend /\ FriendsPaid \subseteq Friend
      /\ invites \in [InviteId -> Friends!Invite] /\ FriendsJob \in [Worker -> Friends!Job]
      /\ rowLock \in [InviteId -> Worker \cup {None}]
      /\ \A i \in InviteId : FriendsRowOK(i)
      /\ \A w \in Worker : FriendsJobOK(w)
  BY DEF FriendsTInv, Friends!TypeOK
<1>1. CASE UNCHANGED Friends!vars
  BY <1>1 DEF Friends!vars, FriendsTInv, Friends!TypeOK, FriendsRowOK, FriendsJobOK, Sent
<1>2. ASSUME NEW f \in Friend, Friends!Register(f) PROVE FriendsTInv'
  BY <1>2
     DEF Friends!Register, FriendsTInv, Friends!TypeOK, FriendsRowOK, FriendsJobOK, Sent
<1>3. ASSUME NEW w \in Worker, Friends!CreateInvite(w) PROVE FriendsTInv'
  <2> DEFINE r == [Friends!NoInvite EXCEPT !.status = "PENDING", !.inviter = FriendsJob[w].inviter,
                                            !.friend = FriendsJob[w].friend, !.late = FriendsJob[w].friend \in registered]
  <2>1. PICK i \in InviteId :
          /\ invites[i] = Friends!NoInvite
          /\ invites' = [invites EXCEPT ![i] = r]
    BY <1>3 DEF Friends!CreateInvite
  <2>2. /\ FriendsJob[w].op = "create" /\ FriendsJob' = [FriendsJob EXCEPT ![w] = Friends!Idle]
        /\ UNCHANGED <<registered, FriendsPaid, rowLock>>
    BY <1>3 DEF Friends!CreateInvite, Friends!Ends
  <2>3. FriendsJob[w].inviter \in Inviter /\ FriendsJob[w].friend \in Friend
    BY <1>t, <2>2 DEF FriendsJobOK
  <2>r. r \in Friends!Invite
    <3>1. (FriendsJob[w].friend \in registered) \in BOOLEAN
      OBVIOUS
    <3> QED  BY <2>3, <3>1, Created
  <2>4. invites' \in [InviteId -> Friends!Invite]
    <3> HIDE DEF r
    <3> QED  BY <1>t, <2>1, <2>r
  <2>5. \A k \in InviteId : Sent(k) => invites'[k] = invites[k]
    BY <1>t, <2>1 DEF Sent, Friends!NoInvite
  <2>6. /\ invites'[i].status = "PENDING" /\ invites'[i].inviter \in Inviter
        /\ invites'[i].friend \in Friend
    BY <1>t, <2>1, <2>3 DEF Friends!NoInvite
  <2>7. \A k \in InviteId : FriendsRowOK(k)'
    BY <1>t, <2>1, <2>6 DEF FriendsRowOK, Sent
  <2>8. FriendsJob' \in [Worker -> Friends!Job] /\ \A v \in Worker : FriendsJobOK(v)'
    BY <2>2, <2>5, JobStep DEF Sent
  <2> QED  BY <1>t, <2>2, <2>4, <2>7, <2>8 DEF FriendsTInv, Friends!TypeOK
<1>4. ASSUME NEW w \in Worker, Friends!RejectOlderAccount(w) PROVE FriendsTInv'
  <2> DEFINE i == FriendsJob[w].invite
         r == [invites[i] EXCEPT !.status = "REJECTED"]
  <2>1. i \in InviteId /\ Sent(i)
    BY <1>t, <1>4 DEF Friends!RejectOlderAccount, FriendsJobOK, OnRow
  <2>2. /\ (invites' = invites \/ invites' = [invites EXCEPT ![i] = r])
        /\ FriendsJob' = [FriendsJob EXCEPT ![w] = Friends!Idle] /\ UNCHANGED <<registered, FriendsPaid, rowLock>>
    BY <1>4 DEF Friends!RejectOlderAccount, Friends!Ends
  <2>r. r \in Friends!Invite
    BY <1>t, <2>1, Edited
  <2>3. /\ r.inviter = invites[i].inviter /\ r.friend = invites[i].friend
        /\ r.status # "none"
    BY <1>t, <2>1 DEF Friends!Invite, Sent
  <2>4. /\ invites' \in [InviteId -> Friends!Invite]
        /\ \A k \in InviteId : FriendsRowOK(k)' /\ (Sent(k) => Sent(k)')
    <3> HIDE DEF r
    <3> QED  BY <2>1, <2>2, <2>r, <2>3, RowsKept
  <2>5. FriendsJob' \in [Worker -> Friends!Job] /\ \A v \in Worker : FriendsJobOK(v)'
    BY <2>2, <2>4, JobStep
  <2> QED  BY <1>t, <2>2, <2>4, <2>5 DEF FriendsTInv, Friends!TypeOK
<1>5. ASSUME NEW w \in Worker, Friends!AcceptClaims(w) PROVE FriendsTInv'
  BY <1>t, <1>5, JobStep
     DEF Friends!AcceptClaims, FriendsJobOK, OnRow, Friends!Ends, Friends!Goes, Sent,
         Friends!Ops, FriendsTInv, Friends!TypeOK, FriendsRowOK
<1>6. ASSUME NEW w \in Worker, Friends!AcceptChecks(w) PROVE FriendsTInv'
  <2> DEFINE i == FriendsJob[w].invite
         r == [invites[i] EXCEPT !.status = "REJECTED"]
  <2>1. FriendsJob[w].op = "prior" /\ i \in InviteId /\ Sent(i)
    BY <1>t, <1>6 DEF Friends!AcceptChecks, FriendsJobOK, OnRow
  <2>2. /\ UNCHANGED <<registered, FriendsPaid>> /\ rowLock' \in [InviteId -> Worker \cup {None}]
        /\ \/ FriendsJob' = [FriendsJob EXCEPT ![w].op = "others"] /\ invites' = invites
           \/ /\ FriendsJob' = [FriendsJob EXCEPT ![w] = Friends!Idle]
              /\ invites' = [invites EXCEPT ![i] = r]
    BY <1>6, <1>t DEF Friends!AcceptChecks, Friends!Ends, Friends!Goes, Friends!Release
  <2>r. r \in Friends!Invite
    BY <1>t, <2>1, Edited
  <2>3. /\ r.inviter = invites[i].inviter /\ r.friend = invites[i].friend
        /\ r.status # "none"
    BY <1>t, <2>1 DEF Friends!Invite, Sent
  <2>4. /\ invites' \in [InviteId -> Friends!Invite]
        /\ \A k \in InviteId : FriendsRowOK(k)' /\ (Sent(k) => Sent(k)')
    <3> HIDE DEF r
    <3> QED  BY <2>1, <2>2, <2>r, <2>3, RowsKept
  <2>5. FriendsJob' \in [Worker -> Friends!Job] /\ \A v \in Worker : FriendsJobOK(v)'
    BY <2>1, <2>2, <2>4, JobStep DEF OnRow, Friends!Ops
  <2> QED  BY <1>t, <2>2, <2>4, <2>5 DEF FriendsTInv, Friends!TypeOK
<1>7. ASSUME NEW w \in Worker, Friends!AcceptCommits(w) PROVE FriendsTInv'
  <2> DEFINE i == FriendsJob[w].invite
  <2>1. FriendsJob[w].op = "others" /\ i \in InviteId /\ Sent(i)
    BY <1>t, <1>7 DEF Friends!AcceptCommits, FriendsJobOK, OnRow
  <2>2. /\ UNCHANGED <<registered, FriendsPaid>> /\ rowLock' \in [InviteId -> Worker \cup {None}]
        /\ FriendsJob' = [FriendsJob EXCEPT ![w] = Friends!Idle]
    BY <1>7, <1>t DEF Friends!AcceptCommits, Friends!Ends, Friends!Release
  <2>3. invites' = [k \in InviteId |->
                     IF k = i THEN [invites[k] EXCEPT !.status = "ACCEPTED",
                                                      !.friendCoupon = TRUE]
                     ELSE IF k \in Friends!Others(i) THEN [invites[k] EXCEPT !.status = "REJECTED"]
                     ELSE invites[k]]
    BY <1>7 DEF Friends!AcceptCommits
  <2>4. \A k \in InviteId :
          /\ [invites[k] EXCEPT !.status = "ACCEPTED", !.friendCoupon = TRUE] \in Friends!Invite
          /\ [invites[k] EXCEPT !.status = "REJECTED"] \in Friends!Invite
    BY <1>t, Edited
  <2>5. invites' \in [InviteId -> Friends!Invite]
    BY <1>t, <2>3, <2>4
  <2>6. \A k \in InviteId : k \in Friends!Others(i) => Sent(k)
    BY DEF Friends!Others, Friends!OfFriend, Sent
  <2>7. \A k \in InviteId :
          /\ Sent(k) => Sent(k)' /\ invites'[k].inviter = invites[k].inviter
                        /\ invites'[k].friend = invites[k].friend
          /\ ~ Sent(k) => invites'[k] = invites[k]
    BY <1>t, <2>1, <2>3, <2>6 DEF Sent, Friends!Invite
  <2>8. \A k \in InviteId : FriendsRowOK(k)'
    BY <1>t, <2>7 DEF FriendsRowOK, Sent
  <2>9. FriendsJob' \in [Worker -> Friends!Job] /\ \A v \in Worker : FriendsJobOK(v)'
    BY <2>2, <2>7, JobStep
  <2> QED  BY <1>t, <2>2, <2>5, <2>8, <2>9 DEF FriendsTInv, Friends!TypeOK
<1>8. ASSUME NEW w \in Worker, Friends!DeadlockEnds(w) PROVE FriendsTInv'
  BY <1>8, <1>t, JobStep
     DEF Friends!DeadlockEnds, Friends!Ends, Friends!Release, Sent, FriendsTInv,
         Friends!TypeOK, FriendsRowOK
<1>9. ASSUME NEW w \in Worker, Friends!RewardCounts(w) PROVE FriendsTInv'
  BY <1>t, <1>9, JobStep
     DEF Friends!RewardCounts, FriendsJobOK, OnRow, Friends!Ends, Friends!Goes, Sent,
         Friends!Ops, FriendsRowOK, FriendsTInv, Friends!TypeOK
<1>10. ASSUME NEW w \in Worker, Friends!RewardCommits(w) PROVE FriendsTInv'
  <2> DEFINE i == FriendsJob[w].invite
         r == [invites[i] EXCEPT !.inviterCoupon = TRUE]
  <2>1. FriendsJob[w].op = "counted" /\ i \in InviteId /\ Sent(i)
    BY <1>t, <1>10 DEF Friends!RewardCommits, FriendsJobOK, OnRow
  <2>2. /\ UNCHANGED <<registered, rowLock>> /\ FriendsJob' = [FriendsJob EXCEPT ![w] = Friends!Idle]
        /\ \/ invites' = invites /\ FriendsPaid' = FriendsPaid
           \/ /\ invites' = [invites EXCEPT ![i] = r]
              /\ FriendsPaid' = FriendsPaid \cup {invites[i].friend}
    BY <1>10 DEF Friends!RewardCommits, Friends!Ends
  <2>r. r \in Friends!Invite
    BY <1>t, <2>1, Edited
  <2>3. /\ r.inviter = invites[i].inviter /\ r.friend = invites[i].friend
        /\ r.status # "none"
    BY <1>t, <2>1 DEF Friends!Invite, Sent
  <2>4. /\ invites' \in [InviteId -> Friends!Invite]
        /\ \A k \in InviteId : FriendsRowOK(k)' /\ (Sent(k) => Sent(k)')
    <3> HIDE DEF r
    <3> QED  BY <2>1, <2>2, <2>r, <2>3, RowsKept
  <2>5. FriendsJob' \in [Worker -> Friends!Job] /\ \A v \in Worker : FriendsJobOK(v)'
    BY <2>2, <2>4, JobStep
  <2>6. invites[i].friend \in Friend
    BY <1>t, <2>1 DEF FriendsRowOK
  <2> QED  BY <1>t, <2>2, <2>4, <2>5, <2>6 DEF FriendsTInv, Friends!TypeOK
<1>11. ASSUME NEW w \in Worker, NEW i \in InviteId, Friends!AcceptReads(w, i) PROVE FriendsTInv'
  <2>1. PICK op \in {"reject", "accept"} : FriendsJob' = [FriendsJob EXCEPT ![w].op = op, ![w].invite = i]
    BY <1>11 DEF Friends!AcceptReads
  <2>2. UNCHANGED <<registered, invites, FriendsPaid, rowLock>> /\ Sent(i)
    BY <1>11 DEF Friends!AcceptReads, Sent
  <2>3. FriendsJob' \in [Worker -> Friends!Job]
    BY <1>t, <2>1, ZenonT(60) DEF Friends!Job, Friends!Ops
  <2>4. \A v \in Worker : FriendsJobOK(v)'
    BY <1>t, <2>1, <2>2 DEF FriendsJobOK, Sent, OnRow, Friends!Job
  <2> QED  BY <1>t, <2>2, <2>3, <2>4 DEF FriendsTInv, Friends!TypeOK, FriendsRowOK, Sent
<1>12. ASSUME NEW w \in Worker, NEW f \in Friend, Friends!PaymentReads(w, f) PROVE FriendsTInv'
  BY <1>12, <1>t
     DEF Friends!PaymentReads, Friends!OfFriend, FriendsTInv, Friends!TypeOK,
         FriendsRowOK, FriendsJobOK, Sent, OnRow, Friends!Job, Friends!Ops
<1>13. ASSUME NEW w \in Worker, NEW a \in Inviter, NEW f \in Friend, Friends!CreateReads(w, a, f)
       PROVE FriendsTInv'
  <2>1. /\ UNCHANGED <<registered, invites, FriendsPaid, rowLock>> /\ FriendsJob[w] = Friends!Idle
        /\ FriendsJob' = [FriendsJob EXCEPT ![w].op = "create", ![w].inviter = a, ![w].friend = f]
    BY <1>13 DEF Friends!CreateReads
  <2>2. FriendsJob'[w] = [[[FriendsJob[w] EXCEPT !.op = "create"] EXCEPT !.inviter = a] EXCEPT !.friend = f]
    BY <1>t, <2>1
  <2>3. FriendsJob[w] \in Friends!Job
    BY <1>t
  <2>4. /\ FriendsJob'[w] \in Friends!Job /\ FriendsJob'[w].op = "create" /\ FriendsJob'[w].inviter = a
        /\ FriendsJob'[w].friend = f
    BY <2>2, <2>3 DEF Friends!Job, Friends!Ops
  <2>5. FriendsJob' \in [Worker -> Friends!Job]
    BY <1>t, <2>1, <2>4
  <2>6. \A v \in Worker : FriendsJobOK(v)'
    BY <1>t, <2>1, <2>4 DEF FriendsJobOK, Sent, OnRow
  <2> QED  BY <1>t, <2>1, <2>5, <2>6 DEF FriendsTInv, Friends!TypeOK, FriendsRowOK, Sent
<1> QED
  BY <1>1, <1>2, <1>3, <1>4, <1>5, <1>6, <1>7, <1>8, <1>9, <1>10, <1>11, <1>12, <1>13
     DEF Friends!Next

----------------------------------------------------------------------------
(* Who accepts *)

Accepting == {"prior", "others"}

(* What is accepted stays as it is, and a held row is not touched. *)
RowsStand ==
    \A i \in InviteId :
        /\ invites'[i].status = "ACCEPTED" <=> invites[i].status = "ACCEPTED"
        /\ invites[i].status = "ACCEPTED" => invites'[i].friend = invites[i].friend
        /\ invites'[i].friendCoupon => invites[i].friendCoupon
        /\ rowLock[i] # None => invites'[i] = invites[i]

LEMMA LKeep ==
    ASSUME FriendsTables, FriendsTInv, LInv, RowsStand, rowLock' = rowLock,
           \A v \in Worker : \/ FriendsJob'[v] = FriendsJob[v]
                             \/ FriendsJob[v].op \notin Accepting /\ FriendsJob'[v].op \notin Accepting
    PROVE  LInv'
BY DEF Holds, Accepting, LInv, FriendsTables, Taken, RowsStand

LEMMA InitL == FriendsTables /\ Friends!Init => LInv
BY DEF FriendsTables, Friends!Init, LInv, Holds, Friends!NoInvite, Friends!Idle

(* A request lets go of its row and, unless it commits, refuses it. *)
LEMMA LetsGo ==
    ASSUME FriendsTables, FriendsTInv, LInv, NEW w \in Worker, FriendsJob[w].op \in Accepting,
           Friends!Release(w), FriendsJob' = [FriendsJob EXCEPT ![w] = Friends!Idle],
           \A i \in InviteId :
             \/ invites'[i] = invites[i]
             \/ Holds(w, i) /\ invites'[i] = [invites[i] EXCEPT !.status = "REJECTED"]
    PROVE  LInv'
<1>1. FriendsJob \in [Worker -> Friends!Job] /\ invites \in [InviteId -> Friends!Invite]
  BY DEF FriendsTInv, Friends!TypeOK
<1>2. \A i \in InviteId, v \in Worker : Holds(v, i)' <=> v # w /\ Holds(v, i)
  BY <1>1 DEF Holds, Friends!Idle
<1>3. \A i \in InviteId, v \in Worker : rowLock'[i] = v <=> v # w /\ rowLock[i] = v
  BY DEF Friends!Release, FriendsTables
<1>4. \A i \in InviteId, v \in Worker : Holds(v, i) /\ v # w => invites'[i] = invites[i] /\ FriendsJob'[v] = FriendsJob[v]
  <2>1. \A i \in InviteId, v \in Worker : Holds(v, i) /\ Holds(w, i) => v = w
    BY DEF LInv
  <2> QED  BY <1>1, <2>1
<1>5. \A i \in InviteId : Holds(w, i) => invites[i].status = "PENDING"
  BY DEF LInv
<1>6. \A i \in InviteId :
        /\ invites'[i].status = "ACCEPTED" => invites'[i] = invites[i]
        /\ invites[i].status = "ACCEPTED" => invites'[i] = invites[i]
        /\ invites'[i].friendCoupon => invites[i].friendCoupon
        /\ invites'[i].friend = invites[i].friend
  BY <1>1, <1>5, ZenonT(60) DEF Friends!Invite
<1>7. \A f : Taken(f)' => Taken(f)
  BY <1>6 DEF Taken
<1>8. ASSUME NEW i \in InviteId, NEW v \in Worker
      PROVE  /\ (rowLock[i] = v <=> Holds(v, i))'
             /\ (Holds(v, i) => invites[i].status = "PENDING")'
             /\ (Holds(v, i) /\ FriendsJob[v].op = "others" => ~ Taken(invites[i].friend))'
  BY <1>2, <1>3, <1>4, <1>7 DEF LInv
<1>9. \A i \in InviteId : invites'[i].friendCoupon => invites'[i].status = "ACCEPTED"
  BY <1>6 DEF LInv
<1>10. \A i, k \in InviteId :
         invites'[i].status = "ACCEPTED" /\ invites'[k].status = "ACCEPTED"
           /\ invites'[i].friend = invites'[k].friend => i = k
  BY <1>6 DEF LInv
<1> QED  BY <1>8, <1>9, <1>10 DEF LInv

(* The commit accepts one row of the friend and leaves no other to accept. *)
LEMMA CommitL ==
    ASSUME FriendsTables, FriendsTInv, LInv, NEW w \in Worker, Friends!AcceptCommits(w)
    PROVE  LInv'
<1> DEFINE i == FriendsJob[w].invite
           f == invites[i].friend
<1>1. FriendsJob \in [Worker -> Friends!Job] /\ invites \in [InviteId -> Friends!Invite]
  BY DEF FriendsTInv, Friends!TypeOK
<1>2. FriendsJob[w].op = "others" /\ i \in InviteId /\ Holds(w, i) /\ ~ Taken(f)
  BY DEF Friends!AcceptCommits, FriendsTInv, FriendsJobOK, OnRow, Holds, LInv
<1>3. /\ FriendsJob' = [FriendsJob EXCEPT ![w] = Friends!Idle]
      /\ \A k \in InviteId : rowLock'[k] = IF rowLock[k] = w THEN None ELSE rowLock[k]
      /\ \A k \in Friends!Others(i) : rowLock[k] \in {None, w}
  BY DEF Friends!AcceptCommits, Friends!Ends, Friends!Release, Friends!Free
<1>4. \A k \in InviteId :
        invites'[k] = IF k = i THEN [invites[k] EXCEPT !.status = "ACCEPTED",
                                                       !.friendCoupon = TRUE]
                      ELSE IF k \in Friends!Others(i) THEN [invites[k] EXCEPT !.status = "REJECTED"]
                      ELSE invites[k]
  BY DEF Friends!AcceptCommits
<1>5. \A k \in InviteId, v \in Worker : Holds(v, k)' <=> v # w /\ Holds(v, k)
  BY <1>1, <1>3 DEF Holds, Friends!Idle
<1>6. \A k \in InviteId, v \in Worker : rowLock'[k] = v <=> v # w /\ rowLock[k] = v
  BY <1>3 DEF FriendsTables
<1>7. \A k \in InviteId, v \in Worker :
        Holds(v, k) /\ v # w => k # i /\ k \notin Friends!Others(i) /\ invites[k].friend # f
  <2> SUFFICES ASSUME NEW k \in InviteId, NEW v \in Worker, Holds(v, k), v # w
               PROVE  k # i /\ k \notin Friends!Others(i) /\ invites[k].friend # f
    OBVIOUS
  <2>1. rowLock[k] = v /\ rowLock[i] = w /\ invites[k].status = "PENDING"
    BY <1>2 DEF LInv
  <2>2. k # i
    BY <2>1
  <2>3. k \notin Friends!Others(i)
    BY <1>3, <2>1 DEF FriendsTables
  <2> QED  BY <2>1, <2>2, <2>3 DEF Friends!Others, Friends!OfFriend
<1>8. \A k \in InviteId :
        /\ invites'[k].friend = invites[k].friend
        /\ k # i => /\ invites'[k].status = "ACCEPTED" => invites[k].status = "ACCEPTED"
                    /\ invites[k].status = "ACCEPTED" => invites'[k].status = "ACCEPTED"
                    /\ invites'[k].friendCoupon => invites[k].friendCoupon
        /\ k = i => invites'[k].status = "ACCEPTED"
  BY <1>1, <1>4, ZenonT(60) DEF Friends!Invite, Friends!Others
<1>9. \A g : Taken(g)' => Taken(g) \/ g = f
  BY <1>8 DEF Taken
<1>10. ASSUME NEW k \in InviteId, NEW v \in Worker
       PROVE  /\ (rowLock[k] = v <=> Holds(v, k))'
              /\ (Holds(v, k) => invites[k].status = "PENDING")'
              /\ (Holds(v, k) /\ FriendsJob[v].op = "others" => ~ Taken(invites[k].friend))'
  <2>1. (rowLock[k] = v <=> Holds(v, k))'
    BY <1>5, <1>6 DEF LInv
  <2>2. Holds(v, k)' => invites'[k] = invites[k] /\ FriendsJob'[v] = FriendsJob[v] /\ Holds(v, k)
                          /\ invites[k].friend # f
    BY <1>1, <1>3, <1>4, <1>5, <1>7
  <2> QED  BY <2>1, <2>2, <1>9 DEF LInv
<1>11. \A k \in InviteId : invites'[k].friendCoupon => invites'[k].status = "ACCEPTED"
  BY <1>8 DEF LInv
<1>12. \A k \in InviteId : invites'[k].status = "ACCEPTED" /\ invites'[k].friend = f => k = i
  BY <1>2, <1>8 DEF Taken
<1>13. \A j, k \in InviteId :
         invites'[j].status = "ACCEPTED" /\ invites'[k].status = "ACCEPTED"
           /\ invites'[j].friend = invites'[k].friend => j = k
  BY <1>8, <1>12 DEF LInv
<1> QED  BY <1>10, <1>11, <1>13 DEF LInv

LEMMA NextL == FriendsTables /\ FriendsTInv /\ LInv /\ FriendsRInv /\ [Friends!Next]_(Friends!vars) => LInv'
<1> SUFFICES ASSUME FriendsTables, FriendsTInv, LInv, FriendsRInv, [Friends!Next]_(Friends!vars) PROVE LInv'
  OBVIOUS
<1>t. /\ invites \in [InviteId -> Friends!Invite] /\ FriendsJob \in [Worker -> Friends!Job]
      /\ rowLock \in [InviteId -> Worker \cup {None}]
      /\ \A w \in Worker : FriendsJobOK(w)
  BY DEF FriendsTInv, Friends!TypeOK
<1>u. ASSUME UNCHANGED <<invites, rowLock>>,
             \A v \in Worker : \/ FriendsJob'[v] = FriendsJob[v]
                               \/ FriendsJob[v].op \notin Accepting /\ FriendsJob'[v].op \notin Accepting
      PROVE  LInv'
  BY <1>u, LKeep DEF RowsStand
<1>v. ASSUME UNCHANGED <<invites, rowLock>>, NEW w \in Worker, FriendsJob[w].op \notin Accepting,
             \A v \in Worker : v # w => FriendsJob'[v] = FriendsJob[v], FriendsJob'[w].op \notin Accepting
      PROVE  LInv'
  BY <1>v, <1>u
<1>l. \A i \in InviteId : rowLock[i] # None =>
        /\ rowLock[i] \in Worker /\ Holds(rowLock[i], i) /\ invites[i].status = "PENDING"
  BY <1>t DEF LInv
<1>1. CASE UNCHANGED Friends!vars
  BY <1>1, <1>u DEF Friends!vars
<1>2. ASSUME NEW f \in Friend, Friends!Register(f) PROVE LInv'
  BY <1>2, <1>u DEF Friends!Register
<1>3. ASSUME NEW w \in Worker, Friends!CreateInvite(w) PROVE LInv'
  <2>1. FriendsJob[w].op = "create" /\ FriendsJob' = [FriendsJob EXCEPT ![w] = Friends!Idle] /\ rowLock' = rowLock
    BY <1>3 DEF Friends!CreateInvite, Friends!Ends
  <2>2. PICK i \in InviteId :
          /\ invites[i] = Friends!NoInvite
          /\ invites' = [invites EXCEPT ![i] =
                          [Friends!NoInvite EXCEPT !.status = "PENDING", !.inviter = FriendsJob[w].inviter,
                                                   !.friend = FriendsJob[w].friend,
                                                   !.late = FriendsJob[w].friend \in registered]]
    BY <1>3 DEF Friends!CreateInvite
  <2>3. /\ invites'[i].status = "PENDING" /\ invites'[i].friendCoupon = FALSE
        /\ \A k \in InviteId : k # i => invites'[k] = invites[k]
        /\ invites[i].status = "none"
    BY <1>t, <2>2 DEF Friends!NoInvite
  <2>4. RowsStand
    BY <1>l, <2>3 DEF RowsStand
  <2> QED  BY <1>t, <2>1, <2>4, LKeep DEF Accepting, Friends!Idle
<1>4. ASSUME NEW w \in Worker, Friends!RejectOlderAccount(w) PROVE LInv'
  <2> DEFINE i == FriendsJob[w].invite
  <2>1. /\ FriendsJob[w].op = "reject" /\ i \in InviteId /\ rowLock[i] \in {None, w}
        /\ FriendsJob' = [FriendsJob EXCEPT ![w] = Friends!Idle] /\ rowLock' = rowLock
    BY <1>t, <1>4
       DEF Friends!RejectOlderAccount, Friends!Ends, Friends!Free, FriendsJobOK, OnRow
  <2>2. rowLock[i] = None
    BY <1>l, <2>1 DEF Holds
  <2>3. \A k \in InviteId :
          \/ invites'[k] = invites[k]
          \/ k = i /\ invites[k].status = "PENDING"
                   /\ invites'[k] = [invites[k] EXCEPT !.status = "REJECTED"]
    BY <1>t, <1>4 DEF Friends!RejectOlderAccount
  <2>4. RowsStand
    <3>1. \A k \in InviteId :
            \/ invites'[k] = invites[k]
            \/ /\ k = i /\ invites[k].status = "PENDING" /\ invites'[k].status = "REJECTED"
               /\ invites'[k].friendCoupon => invites[k].friendCoupon
      <4> SUFFICES ASSUME NEW k \in InviteId, invites'[k] # invites[k]
                   PROVE  /\ k = i /\ invites[k].status = "PENDING"
                          /\ invites'[k].status = "REJECTED"
                          /\ invites'[k].friendCoupon => invites[k].friendCoupon
        OBVIOUS
      <4>1. invites[k] \in Friends!Invite
        BY <1>t
      <4>2. /\ k = i /\ invites[k].status = "PENDING"
            /\ invites'[k] = [invites[k] EXCEPT !.status = "REJECTED"]
        BY <2>3
      <4> QED  BY <4>1, <4>2, Refused
    <3> QED  BY <2>2, <3>1 DEF RowsStand
  <2> QED  BY <1>t, <2>1, <2>4, LKeep DEF Accepting, Friends!Idle
<1>5. ASSUME NEW w \in Worker, Friends!AcceptClaims(w) PROVE LInv'
  <2> DEFINE i == FriendsJob[w].invite
  <2>1. FriendsJob[w].op = "accept" /\ i \in InviteId /\ invites' = invites /\ rowLock[i] \in {None, w}
    BY <1>t, <1>5 DEF Friends!AcceptClaims, FriendsJobOK, OnRow, Friends!Free
  <2>2. CASE invites[i].status # "PENDING"
    BY <1>5, <2>2, <1>t, <1>u, <2>1
       DEF Friends!AcceptClaims, Friends!Ends, Accepting, Friends!Idle
  <2>3. CASE invites[i].status = "PENDING"
    BY <1>5, <2>3, <1>l, <2>1, <1>t
       DEF Friends!AcceptClaims, Friends!Goes, Holds, Friends!Job, LInv, FriendsTables,
           Taken
  <2> QED  BY <2>2, <2>3
<1>6. ASSUME NEW w \in Worker, Friends!AcceptChecks(w) PROVE LInv'
  <2> DEFINE i == FriendsJob[w].invite
  <2>1. FriendsJob[w].op = "prior" /\ i \in InviteId /\ Holds(w, i)
    BY <1>t, <1>6 DEF Friends!AcceptChecks, FriendsJobOK, OnRow, Holds
  <2>2. CASE {k \in Friends!OfFriend(invites[i].friend) : invites[k].status = "ACCEPTED"} # {}
    BY <1>6, <2>2, <1>t, <2>1, LetsGo DEF Friends!AcceptChecks, Friends!Ends, Accepting
  <2>3. CASE {k \in Friends!OfFriend(invites[i].friend) : invites[k].status = "ACCEPTED"} = {}
    BY <1>6, <2>3, <1>t, <2>1
       DEF Friends!AcceptChecks, Friends!Goes, Friends!OfFriend, Taken, Friends!Job,
           Holds, LInv
  <2> QED  BY <2>2, <2>3
<1>7. ASSUME NEW w \in Worker, Friends!AcceptCommits(w) PROVE LInv'
  BY <1>7, CommitL
<1>8. ASSUME NEW w \in Worker, Friends!DeadlockEnds(w) PROVE LInv'
  BY <1>8, LetsGo DEF Friends!DeadlockEnds, Friends!Ends, Accepting
<1>9. ASSUME NEW w \in Worker, Friends!RewardCounts(w) PROVE LInv'
  BY <1>9, <1>t, <1>v
     DEF Friends!RewardCounts, Friends!Ends, Friends!Goes, Friends!Idle, Friends!Job,
         Accepting
<1>10. ASSUME NEW w \in Worker, Friends!RewardCommits(w) PROVE LInv'
  <2> DEFINE i == FriendsJob[w].invite
  <2>1. /\ FriendsJob[w].op = "counted" /\ i \in InviteId
        /\ FriendsJob' = [FriendsJob EXCEPT ![w] = Friends!Idle] /\ rowLock' = rowLock
    BY <1>t, <1>10 DEF Friends!RewardCommits, Friends!Ends, FriendsJobOK, OnRow
  <2>2. \A k \in InviteId :
          \/ invites'[k] = invites[k]
          \/ k = i /\ invites'[k] = [invites[k] EXCEPT !.inviterCoupon = TRUE]
    BY <1>t, <1>10 DEF Friends!RewardCommits
  <2>3. invites[i].status = "ACCEPTED" /\ rowLock[i] = None
    BY <1>l, <2>1 DEF FriendsRInv
  <2>4. ASSUME NEW k \in InviteId, invites'[k] # invites[k]
        PROVE  /\ k = i /\ invites'[k].status = invites[k].status
               /\ invites'[k].friend = invites[k].friend
               /\ invites'[k].friendCoupon => invites[k].friendCoupon
    <3>1. invites[k] \in Friends!Invite /\ k = i
      BY <1>t, <2>2, <2>4
    <3>2. invites'[k] = [invites[k] EXCEPT !.inviterCoupon = TRUE]
      BY <2>2, <2>4
    <3> QED  BY <3>1, <3>2, Rewarded
  <2>5. RowsStand
    BY <2>3, <2>4 DEF RowsStand
  <2> QED  BY <1>t, <2>1, <2>5, LKeep DEF Accepting, Friends!Idle
<1>11. ASSUME NEW w \in Worker, NEW i \in InviteId, Friends!AcceptReads(w, i) PROVE LInv'
  BY <1>11, <1>t, <1>v DEF Friends!AcceptReads, Friends!Job, Accepting, Friends!Idle
<1>12. ASSUME NEW w \in Worker, NEW f \in Friend, Friends!PaymentReads(w, f) PROVE LInv'
  BY <1>12, <1>t, <1>v
     DEF Friends!PaymentReads, Friends!OfFriend, Friends!Job, Friends!Idle, Accepting
<1>13. ASSUME NEW w \in Worker, NEW a \in Inviter, NEW f \in Friend, Friends!CreateReads(w, a, f)
       PROVE LInv'
  BY <1>13, <1>t, <1>v DEF Friends!CreateReads, Friends!Job, Accepting, Friends!Idle
<1> QED
  BY <1>1, <1>2, <1>3, <1>4, <1>5, <1>6, <1>7, <1>8, <1>9, <1>10, <1>11, <1>12, <1>13
     DEF Friends!Next

----------------------------------------------------------------------------
(* Who is rewarded *)

Rewarding == {"reward", "counted"}

(* What was accepted stays accepted by the same people, and no reward is    *)
(* given.                                                                   *)
EarnedStands ==
    \A i \in InviteId :
        /\ invites'[i].inviterCoupon <=> invites[i].inviterCoupon
        /\ invites[i].status = "ACCEPTED" => /\ invites'[i].status = "ACCEPTED"
                                             /\ invites'[i].friend = invites[i].friend
                                             /\ invites'[i].inviter = invites[i].inviter

LEMMA RewardsFinite ==
    ASSUME FriendsTables, NEW a
    PROVE  Friends!Rewards(a) \in Nat
BY FriendsCounts, FS_Subset, FS_CardinalityType DEF FriendsTables, Friends!Rewards

LEMMA SameRewards ==
    ASSUME FriendsRInv, EarnedStands, NEW a
    PROVE  Friends!Rewards(a)' = Friends!Rewards(a)
BY DEF FriendsRInv, EarnedStands, Friends!Rewards

LEMMA RKeep ==
    ASSUME FriendsTables, FriendsTInv, FriendsRInv, EarnedStands, FriendsPaid \subseteq FriendsPaid',
           \A v \in Worker :
             \/ FriendsJob'[v] = FriendsJob[v]
             \/ FriendsJob'[v].op \notin Rewarding
             \/ FriendsJob'[v].op = "reward" /\ FriendsJob'[v].invite \in InviteId
                  /\ invites[FriendsJob'[v].invite].status = "ACCEPTED"
    PROVE  FriendsRInv'
<1>1. \A i \in InviteId : invites'[i].inviterCoupon =>
         invites'[i].status = "ACCEPTED" /\ invites'[i].friend \in FriendsPaid'
  BY DEF FriendsRInv, EarnedStands
<1>2. \A w \in Worker : FriendsJob[w].op \in Rewarding =>
        FriendsJob[w].invite \in InviteId /\ invites[FriendsJob[w].invite].status = "ACCEPTED"
  BY DEF FriendsTInv, FriendsJobOK, OnRow, FriendsRInv, Rewarding
<1>3. \A w \in Worker : FriendsJob'[w].op \in Rewarding =>
         FriendsJob'[w].invite \in InviteId /\ invites[FriendsJob'[w].invite].status = "ACCEPTED"
  BY <1>2
<1>4. \A w \in Worker : FriendsJob'[w].op = "counted" => FriendsJob'[w] = FriendsJob[w]
  BY DEF Rewarding
<1>5. \A w \in Worker : FriendsJob'[w].op \in Rewarding =>
        /\ invites'[FriendsJob'[w].invite].status = "ACCEPTED"
        /\ invites'[FriendsJob'[w].invite].inviter = invites[FriendsJob'[w].invite].inviter
  BY <1>3 DEF EarnedStands
<1>6. \A a : Friends!Rewards(a)' = Friends!Rewards(a)
  BY SameRewards
<1>7. \A w \in Worker : FriendsJob'[w].op = "counted" =>
        /\ invites'[FriendsJob'[w].invite].inviter = invites[FriendsJob[w].invite].inviter
        /\ FriendsJob[w].op = "counted"
  BY <1>4, <1>5 DEF Rewarding
<1>8. \A w \in Worker, a \in Inviter :
        FriendsJob'[w].op = "counted" /\ invites'[FriendsJob'[w].invite].inviter = a => Friends!Rewards(a)' < MaxRewards
  BY <1>6, <1>7 DEF FriendsRInv
<1>9. \A v, w \in Worker :
        FriendsJob'[v].op = "counted" /\ FriendsJob'[w].op = "counted"
          /\ invites'[FriendsJob'[v].invite].inviter = invites'[FriendsJob'[w].invite].inviter => v = w
  BY <1>7 DEF FriendsRInv
<1>10. \A a \in Inviter : Friends!Rewards(a)' <= MaxRewards
  BY <1>6 DEF FriendsRInv
<1> QED  BY <1>1, <1>5, <1>8, <1>9, <1>10 DEF FriendsRInv, Rewarding

LEMMA FriendsInitR == FriendsTables /\ Friends!Init => FriendsRInv
<1> SUFFICES ASSUME FriendsTables, Friends!Init PROVE FriendsRInv
  OBVIOUS
<1>1. \A i \in InviteId : ~ invites[i].inviterCoupon
  BY DEF Friends!Init, Friends!NoInvite
<1>2. \A w \in Worker : FriendsJob[w].op = "idle"
  BY DEF Friends!Init, Friends!Idle
<1>3. ASSUME NEW a PROVE Friends!Rewards(a) = 0
  BY <1>1, FriendsCounts, FS_EmptySet DEF Friends!Rewards
<1> QED  BY <1>1, <1>2, <1>3 DEF FriendsRInv, FriendsTables

(* One more reward, of who had counted fewer than the limit. *)
LEMMA CommitR ==
    ASSUME FriendsTables, FriendsTInv, FriendsRInv, NEW w \in Worker, Friends!RewardCommits(w)
    PROVE  FriendsRInv'
<1> DEFINE i == FriendsJob[w].invite
<1>1. FriendsJob \in [Worker -> Friends!Job] /\ invites \in [InviteId -> Friends!Invite]
  BY DEF FriendsTInv, Friends!TypeOK
<1>2. /\ FriendsJob[w].op = "counted" /\ i \in InviteId /\ Sent(i) /\ invites[i].inviter \in Inviter
      /\ FriendsJob' = [FriendsJob EXCEPT ![w] = Friends!Idle] /\ invites[i].status = "ACCEPTED"
  BY DEF Friends!RewardCommits, FriendsTInv, FriendsJobOK, OnRow, Friends!Ends,
         FriendsRowOK, FriendsRInv
<1>3. FriendsJob'[w].op = "idle" /\ \A v \in Worker : v # w => FriendsJob'[v] = FriendsJob[v]
  BY <1>1, <1>2 DEF Friends!Idle
<1>4. CASE invites[i].inviterCoupon
  BY <1>4, <1>3, RKeep DEF Friends!RewardCommits, EarnedStands, Rewarding
<1>5. CASE ~ invites[i].inviterCoupon
  <2>1. /\ invites' = [invites EXCEPT ![i].inviterCoupon = TRUE]
        /\ FriendsPaid' = FriendsPaid \cup {invites[i].friend}
    BY <1>5 DEF Friends!RewardCommits
  <2>2. PICK a \in Inviter : a = invites[i].inviter
    BY <1>2
  <2>3. /\ invites'[i].inviterCoupon
        /\ \A k \in InviteId :
             /\ invites'[k].status = invites[k].status /\ invites'[k].friend = invites[k].friend
             /\ invites'[k].inviter = invites[k].inviter
             /\ k # i => invites'[k] = invites[k]
    BY <1>1, <1>2, <2>1, Rewarded
  <2>4. ASSUME NEW b, b # a PROVE Friends!Rewards(b)' = Friends!Rewards(b)
    BY <2>2, <2>3, <2>4 DEF Friends!Rewards
  <2>5. Friends!Rewards(a)' <= Friends!Rewards(a) + 1
    <3>1. PICK aS : aS = {k \in InviteId : invites[k].inviter = a /\ invites[k].inviterCoupon}
      OBVIOUS
    <3>2. {k \in InviteId : invites'[k].inviter = a /\ invites'[k].inviterCoupon} = aS \cup {i}
      BY <1>2, <2>2, <2>3, <3>1
    <3>3. IsFiniteSet(aS)
      BY <3>1, FS_Subset DEF FriendsTables
    <3>4. ASSUME NEW k PROVE Cardinality(aS \cup {k}) <= Cardinality(aS) + 1
      <4>1. Cardinality(aS) \in Nat
        BY <3>3, FS_CardinalityType
      <4>2. Cardinality(aS \cup {k}) \in {Cardinality(aS), Cardinality(aS) + 1}
        BY <3>3, FS_AddElement
      <4> QED  BY <4>1, <4>2
    <3> QED  BY FriendsCounts, <3>1, <3>2, <3>4 DEF Friends!Rewards
  <2>6. Friends!Rewards(a) < MaxRewards
    BY <1>2, <2>2 DEF FriendsRInv
  <2>7. Friends!Rewards(a) \in Nat /\ Friends!Rewards(a)' \in Nat
    BY RewardsFinite, FriendsCounts, FS_Subset, FS_CardinalityType
       DEF Friends!Rewards, FriendsTables
  <2>8. \A v \in Worker : FriendsJob'[v].op = "counted" =>
          FriendsJob'[v] = FriendsJob[v] /\ FriendsJob[v].invite \in InviteId /\ invites[FriendsJob[v].invite].inviter # a
    BY <1>2, <1>3, <2>2 DEF FriendsRInv, FriendsTInv, FriendsJobOK, OnRow
  <2>9. \A k \in InviteId : invites'[k].inviterCoupon =>
          invites'[k].status = "ACCEPTED" /\ invites'[k].friend \in FriendsPaid'
    BY <1>2, <2>1, <2>3 DEF FriendsRInv
  <2>10. \A v \in Worker : FriendsJob'[v].op \in Rewarding =>
           /\ FriendsJob'[v] = FriendsJob[v] /\ FriendsJob[v].invite \in InviteId
           /\ invites'[FriendsJob'[v].invite].status = "ACCEPTED"
           /\ invites'[FriendsJob'[v].invite].inviter = invites[FriendsJob[v].invite].inviter
    BY <1>3, <2>3 DEF FriendsRInv, FriendsTInv, FriendsJobOK, OnRow, Rewarding
  <2>11. \A v \in Worker, b \in Inviter :
           FriendsJob'[v].op = "counted" /\ invites'[FriendsJob'[v].invite].inviter = b => Friends!Rewards(b)' < MaxRewards
    BY <2>4, <2>8, <2>10 DEF FriendsRInv, Rewarding
  <2>12. \A u, v \in Worker :
           FriendsJob'[u].op = "counted" /\ FriendsJob'[v].op = "counted"
             /\ invites'[FriendsJob'[u].invite].inviter = invites'[FriendsJob'[v].invite].inviter => u = v
    BY <2>10 DEF FriendsRInv, Rewarding
  <2>13. \A b \in Inviter : Friends!Rewards(b)' <= MaxRewards
    BY <2>4, <2>5, <2>6, <2>7 DEF FriendsRInv, FriendsTables
  <2> QED  BY <2>9, <2>10, <2>11, <2>12, <2>13 DEF FriendsRInv, Rewarding
<1> QED  BY <1>4, <1>5

LEMMA FriendsNextR == FriendsTables /\ FriendsTInv /\ LInv /\ FriendsRInv /\ [Friends!Next]_(Friends!vars) => FriendsRInv'
<1> SUFFICES ASSUME FriendsTables, FriendsTInv, LInv, FriendsRInv, [Friends!Next]_(Friends!vars) PROVE FriendsRInv'
  OBVIOUS
<1>t. /\ invites \in [InviteId -> Friends!Invite] /\ FriendsJob \in [Worker -> Friends!Job]
      /\ \A w \in Worker : FriendsJobOK(w)
  BY DEF FriendsTInv, Friends!TypeOK
<1>u. ASSUME EarnedStands, FriendsPaid \subseteq FriendsPaid', NEW w \in Worker,
             \A v \in Worker : v # w => FriendsJob'[v] = FriendsJob[v],
             FriendsJob'[w].op \notin Rewarding
      PROVE  FriendsRInv'
  BY <1>u, RKeep
<1>s. ASSUME invites' = invites PROVE EarnedStands
  BY <1>s DEF EarnedStands
<1>1. CASE UNCHANGED Friends!vars
  BY <1>1, <1>s, RKeep DEF Friends!vars
<1>2. ASSUME NEW f \in Friend, Friends!Register(f) PROVE FriendsRInv'
  BY <1>2, <1>s, RKeep DEF Friends!Register
<1>3. ASSUME NEW w \in Worker, Friends!CreateInvite(w) PROVE FriendsRInv'
  <2>1. FriendsJob' = [FriendsJob EXCEPT ![w] = Friends!Idle] /\ FriendsPaid' = FriendsPaid
    BY <1>3 DEF Friends!CreateInvite, Friends!Ends
  <2>2. PICK i \in InviteId :
          /\ invites[i] = Friends!NoInvite
          /\ invites' = [invites EXCEPT ![i] =
                          [Friends!NoInvite EXCEPT !.status = "PENDING", !.inviter = FriendsJob[w].inviter,
                                                   !.friend = FriendsJob[w].friend,
                                                   !.late = FriendsJob[w].friend \in registered]]
    BY <1>3 DEF Friends!CreateInvite
  <2>3. /\ ~ invites'[i].inviterCoupon /\ ~ invites[i].inviterCoupon
        /\ \A k \in InviteId : k # i => invites'[k] = invites[k]
        /\ invites[i].status = "none"
    BY <1>t, <2>2 DEF Friends!NoInvite
  <2>4. EarnedStands
    BY <2>3 DEF EarnedStands
  <2> QED  BY <1>t, <1>u, <2>1, <2>4 DEF Rewarding, Friends!Idle
<1>4. ASSUME NEW w \in Worker, NEW i \in InviteId, FriendsPaid' = FriendsPaid,
             \A v \in Worker : v # w => FriendsJob'[v] = FriendsJob[v], FriendsJob'[w].op \notin Rewarding,
             \A k \in InviteId :
               \/ invites'[k] = invites[k]
               \/ invites[k].status = "PENDING" /\ invites'[k] = [invites[k] EXCEPT !.status = "REJECTED"]
               \/ invites[k].status = "PENDING"
                    /\ invites'[k] = [invites[k] EXCEPT !.status = "ACCEPTED", !.friendCoupon = TRUE]
      PROVE  FriendsRInv'
  <2>1. ASSUME NEW k \in InviteId
        PROVE  /\ invites'[k].inviterCoupon <=> invites[k].inviterCoupon
               /\ invites[k].status = "ACCEPTED" => invites'[k] = invites[k]
    <3>1. CASE invites'[k] = invites[k]
      BY <3>1
    <3>2. CASE /\ invites[k].status = "PENDING"
               /\ invites'[k] = [invites[k] EXCEPT !.status = "REJECTED"]
      BY <1>t, <3>2, Refused
    <3>3. CASE /\ invites[k].status = "PENDING"
               /\ invites'[k] = [invites[k] EXCEPT !.status = "ACCEPTED", !.friendCoupon = TRUE]
      BY <1>t, <3>3, Accepted
    <3> QED  BY <1>4, <3>1, <3>2, <3>3
  <2>2. EarnedStands
    BY <2>1 DEF EarnedStands
  <2> QED  BY <1>4, <1>u, <2>2
<1>5. ASSUME NEW w \in Worker, Friends!RejectOlderAccount(w) PROVE FriendsRInv'
  BY <1>t, <1>5, <1>4
     DEF Friends!RejectOlderAccount, Friends!Ends, FriendsJobOK, OnRow, Friends!Idle,
         Rewarding
<1>6. ASSUME NEW w \in Worker, Friends!AcceptChecks(w) PROVE FriendsRInv'
  <2> DEFINE i == FriendsJob[w].invite
  <2>1. FriendsJob[w].op = "prior" /\ FriendsPaid' = FriendsPaid /\ i \in InviteId /\ invites[i].status = "PENDING"
    BY <1>t, <1>6 DEF Friends!AcceptChecks, FriendsJobOK, OnRow, LInv, Holds
  <2>2. \/ FriendsJob' = [FriendsJob EXCEPT ![w] = Friends!Idle] /\ invites' = [invites EXCEPT ![i].status = "REJECTED"]
        \/ FriendsJob' = [FriendsJob EXCEPT ![w].op = "others"] /\ invites' = invites
    BY <1>6 DEF Friends!AcceptChecks, Friends!Ends, Friends!Goes
  <2>3. \A k \in InviteId :
          \/ invites'[k] = invites[k]
          \/ invites[k].status = "PENDING" /\ invites'[k] = [invites[k] EXCEPT !.status = "REJECTED"]
    BY <1>t, <2>1, <2>2
  <2>4. FriendsJob'[w].op \notin Rewarding /\ \A v \in Worker : v # w => FriendsJob'[v] = FriendsJob[v]
    BY <1>t, <2>2 DEF Friends!Idle, Rewarding, Friends!Job
  <2> QED  BY <1>4, <2>1, <2>3, <2>4
<1>7. ASSUME NEW w \in Worker, Friends!AcceptCommits(w) PROVE FriendsRInv'
  <2> DEFINE i == FriendsJob[w].invite
  <2>1. /\ FriendsJob[w].op = "others" /\ FriendsPaid' = FriendsPaid /\ i \in InviteId /\ invites[i].status = "PENDING"
        /\ FriendsJob' = [FriendsJob EXCEPT ![w] = Friends!Idle]
    BY <1>t, <1>7 DEF Friends!AcceptCommits, FriendsJobOK, OnRow, LInv, Holds, Friends!Ends
  <2>2. \A k \in InviteId :
          invites'[k] = IF k = i THEN [invites[k] EXCEPT !.status = "ACCEPTED",
                                                         !.friendCoupon = TRUE]
                        ELSE IF k \in Friends!Others(i) THEN [invites[k] EXCEPT !.status = "REJECTED"]
                        ELSE invites[k]
    BY <1>7 DEF Friends!AcceptCommits
  <2>3. \A k \in Friends!Others(i) : invites[k].status = "PENDING"
    BY DEF Friends!Others
  <2>4. FriendsJob'[w].op \notin Rewarding /\ \A v \in Worker : v # w => FriendsJob'[v] = FriendsJob[v]
    BY <1>t, <2>1 DEF Friends!Idle, Rewarding
  <2> QED  BY <1>4, <2>1, <2>2, <2>3, <2>4
<1>8. ASSUME NEW w \in Worker, Friends!AcceptClaims(w) \/ Friends!DeadlockEnds(w) PROVE FriendsRInv'
  BY <1>8, <1>t, <1>s, <1>u
     DEF Friends!AcceptClaims, Friends!DeadlockEnds, Friends!Ends, Friends!Goes,
         Friends!Idle, Friends!Job, Rewarding
<1>9. ASSUME NEW w \in Worker, Friends!RewardCounts(w) PROVE FriendsRInv'
  <2> DEFINE i == FriendsJob[w].invite
  <2>1. /\ FriendsJob[w].op = "reward" /\ i \in InviteId /\ UNCHANGED invites
        /\ invites[i].inviter \in Inviter /\ invites[i].status = "ACCEPTED"
    BY <1>t, <1>9
       DEF Friends!RewardCounts, FriendsJobOK, OnRow, FriendsRInv, FriendsTInv,
           FriendsRowOK
  <2>2. CASE Friends!Rewards(invites[i].inviter) >= MaxRewards
    BY <1>9, <2>2, <1>t, <1>s, <1>u, <2>1
       DEF Friends!RewardCounts, Friends!Ends, Friends!Idle, Rewarding
  <2>3. CASE ~ (Friends!Rewards(invites[i].inviter) >= MaxRewards)
    <3>1. PICK a \in Inviter : a = invites[i].inviter
      BY <2>1
    <3>2. /\ FriendsJob' = [FriendsJob EXCEPT ![w].op = "counted"] /\ FriendsPaid' = FriendsPaid
          /\ \A v \in Worker : FriendsJob[v].op = "counted" => invites[FriendsJob[v].invite].inviter # a
      BY <1>9, <2>3, <3>1 DEF Friends!RewardCounts, Friends!Goes, Friends!InviterLocked
    <3>3. Friends!Rewards(a) < MaxRewards
      BY <2>3, <3>1, RewardsFinite DEF FriendsTables
    <3>4. \A b : Friends!Rewards(b)' = Friends!Rewards(b)
      BY <2>1 DEF Friends!Rewards
    <3>5. /\ FriendsJob'[w].op = "counted" /\ FriendsJob'[w].invite = i
          /\ \A v \in Worker : v # w => FriendsJob'[v] = FriendsJob[v]
      BY <1>t, <3>2 DEF Friends!Job
    <3>6. \A v \in Worker : FriendsJob'[v].op \in {"reward", "counted"} =>
            invites'[FriendsJob'[v].invite].status = "ACCEPTED"
      BY <2>1, <3>5 DEF FriendsRInv
    <3>7. \A v \in Worker, b \in Inviter :
            FriendsJob'[v].op = "counted" /\ invites'[FriendsJob'[v].invite].inviter = b => Friends!Rewards(b)' < MaxRewards
      BY <2>1, <3>1, <3>3, <3>4, <3>5 DEF FriendsRInv
    <3>8. \A u, v \in Worker :
            FriendsJob'[u].op = "counted" /\ FriendsJob'[v].op = "counted"
              /\ invites'[FriendsJob'[u].invite].inviter = invites'[FriendsJob'[v].invite].inviter => u = v
      BY <2>1, <3>1, <3>2, <3>5 DEF FriendsRInv
    <3> QED  BY <2>1, <3>2, <3>4, <3>6, <3>7, <3>8 DEF FriendsRInv
  <2> QED  BY <2>2, <2>3
<1>10. ASSUME NEW w \in Worker, Friends!RewardCommits(w) PROVE FriendsRInv'
  BY <1>10, CommitR
<1>11. ASSUME NEW w \in Worker, NEW i \in InviteId, Friends!AcceptReads(w, i) PROVE FriendsRInv'
  BY <1>11, <1>t, <1>s, <1>u DEF Friends!AcceptReads, Friends!Job, Rewarding
<1>12. ASSUME NEW w \in Worker, NEW f \in Friend, Friends!PaymentReads(w, f) PROVE FriendsRInv'
  BY <1>12, <1>t, <1>s, RKeep DEF Friends!PaymentReads, Friends!OfFriend, Friends!Job
<1>13. ASSUME NEW w \in Worker, NEW a \in Inviter, NEW f \in Friend, Friends!CreateReads(w, a, f)
       PROVE FriendsRInv'
  BY <1>13, <1>t, <1>s, <1>u DEF Friends!CreateReads, Friends!Job, Rewarding
<1> QED
  BY <1>1, <1>2, <1>3, <1>5, <1>6, <1>7, <1>8, <1>9, <1>10, <1>11, <1>12, <1>13
     DEF Friends!Next

----------------------------------------------------------------------------
(* What follows for every behaviour *)

LEMMA FriendInvariant == FriendsTables => (Friends!Spec => [](FriendsTInv /\ LInv /\ FriendsRInv))
<1> SUFFICES ASSUME FriendsTables PROVE Friends!Spec => [](FriendsTInv /\ LInv /\ FriendsRInv)
  OBVIOUS
<1>1. Friends!Init => FriendsTInv /\ LInv /\ FriendsRInv
  BY FriendsInitT, InitL, FriendsInitR
<1>2. (FriendsTInv /\ LInv /\ FriendsRInv) /\ [Friends!Next]_(Friends!vars) => (FriendsTInv /\ LInv /\ FriendsRInv)'
  BY FriendsNextT, NextL, FriendsNextR
<1> QED  BY <1>1, <1>2, PTL DEF Friends!Spec

(* The rows of the invitations and what the requests carry have their       *)
(* types: an id a request names is an invitation that was sent              *)
(* (FriendInviteService).                                                   *)
THEOREM FriendInvitesTypeOK == FriendsTables => (Friends!Spec => []Friends!TypeOK)
<1> SUFFICES ASSUME FriendsTables PROVE Friends!Spec => []Friends!TypeOK
  OBVIOUS
<1>1. FriendsTInv /\ LInv /\ FriendsRInv => Friends!TypeOK
  BY DEF FriendsTInv
<1> QED  BY <1>1, FriendInvariant, PTL

(* A friend who accepts several links gets one free month, however the      *)
(* transactions of acceptInvite interleave and whichever the database ends. *)
THEOREM FriendInvitesRewardedOnce == FriendsTables => (Friends!Spec => []Friends!FriendRewardedOnce)
<1> SUFFICES ASSUME FriendsTables PROVE Friends!Spec => []Friends!FriendRewardedOnce
  OBVIOUS
<1>1. FriendsTInv /\ LInv /\ FriendsRInv => Friends!FriendRewardedOnce
  <2> SUFFICES ASSUME LInv, NEW f \in Friend
               PROVE  Cardinality({i \in Friends!OfFriend(f) : invites[i].friendCoupon}) <= 1
    BY FriendsCounts DEF Friends!FriendRewardedOnce
  <2> DEFINE aS == {i \in Friends!OfFriend(f) : invites[i].friendCoupon}
  <2>1. \A i, k \in aS : i = k
    BY DEF LInv, Friends!OfFriend
  <2>2. CASE aS = {}
    BY <2>2, FS_EmptySet
  <2>3. CASE aS # {}
    <3>1. PICK i : aS = {i}
      BY <2>1, <2>3
    <3>2. Cardinality({i}) = 1
      BY FS_Singleton
    <3> QED  BY FriendsCounts, <3>1, <3>2
  <2> QED  BY <2>2, <2>3
<1> QED  BY <1>1, FriendInvariant, PTL

(* Friends who pay at the same time do not take an inviter past the limit,  *)
(* and every reward has a friend behind it who accepted and paid            *)
(* (rewardInviterOnFirstPayment).                                           *)
THEOREM FriendInvitesRewardsWithinLimit == FriendsTables => (Friends!Spec => []Friends!RewardsWithinLimit)
<1> SUFFICES ASSUME FriendsTables PROVE Friends!Spec => []Friends!RewardsWithinLimit
  OBVIOUS
<1>1. FriendsTInv /\ LInv /\ FriendsRInv => Friends!RewardsWithinLimit
  BY DEF FriendsRInv, Friends!RewardsWithinLimit
<1> QED  BY <1>1, FriendInvariant, PTL

----------------------------------------------------------------------------
(***************************************************************************)
(* Proofs about SoloAgenda, for any number of requests, agendas, bookings, *)
(* months and accounts.                                                    *)
(*                                                                         *)
(* While requests do not overlap, whoever is about to write a booking is   *)
(* the only one at work, so what was allowed when it was checked is still  *)
(* allowed (AInv).  The months of Pro add up because a release names a     *)
(* referral of its own inviter and is claimed once (SoloRInv).             *)
(***************************************************************************)

(* The clock of the agenda counts months; no booking is no row.             *)
OfAgenda ==
    /\ Part = "agenda"
    /\ LastMonth \in Nat /\ Overlap \in BOOLEAN /\ None \notin Solo!Rows

(* Finitely many accounts; being referred by nobody is no row. *)
OfReferral ==
    /\ Part = "referral"
    /\ IsFiniteSet(UserId) /\ MaxMonths \in Nat \ {0} /\ MaxTime \in Nat
    /\ None \notin Solo!ProReferralRow

----------------------------------------------------------------------------
(* The agenda *)

WritesOK(w) ==
    /\ req[w].op \in {"free", "start", "write"}
    /\ req[w].op = "write" =>
         /\ req[w].row \in Solo!Rows
         /\ \A kind, m : kind = req[w].row.kind /\ m = req[w].row.at /\ ~ Overlap
                           => Solo!AssertAllowed(kind, m)
    /\ req[w].op = "free" => req[w] = Solo!AgendaFree
    /\ ~ Overlap /\ req[w] # Solo!AgendaFree => \A v \in Worker : v # w => req[v] = Solo!AgendaFree

AInv ==
    /\ Solo!AgendaTypeOK /\ DOMAIN req = Worker /\ req = [w \in Worker |-> req[w]]
    /\ \A s, t \in Solo!OpenShops : s = t
    /\ ~ Overlap => SoloLate = {}
    /\ \A w \in Worker : WritesOK(w)

LEMMA InitA == OfAgenda /\ Solo!Init => AInv
<1> SUFFICES ASSUME OfAgenda, Solo!Init PROVE AInv
  OBVIOUS
<1>1. Solo!AgendaInit
  BY DEF Solo!Init, OfAgenda
<1>2. Solo!AgendaFree.op = "free"
  BY DEF Solo!AgendaFree
<1>3. Solo!AgendaTypeOK
  BY <1>1 DEF Solo!AgendaInit, Solo!AgendaTypeOK, Solo!Months, OfAgenda
<1>4. Solo!OpenShops = {}
  BY <1>1 DEF Solo!AgendaInit, Solo!OpenShops
<1>5. \A w \in Worker : req[w] = Solo!AgendaFree
  BY <1>1 DEF Solo!AgendaInit
<1> QED  BY <1>1, <1>2, <1>3, <1>4, <1>5 DEF AInv, WritesOK, Solo!AgendaInit

(* What was decided stays so while the rows and the kind of account stay *)
LEMMA SameRows ==
    ASSUME UNCHANGED <<row, pro>>
    PROVE  \A kind, m : Solo!AssertAllowed(kind, m)' <=> Solo!AssertAllowed(kind, m)
BY DEF Solo!Counts, Solo!Completed, Solo!AssertAllowed, Solo!SoloDecision

(* A request that begins, or ends, and what it leaves to the others *)
LEMMA RequestMoves ==
    ASSUME AInv, NEW w \in Worker, NEW j, req' = [req EXCEPT ![w] = j],
           Solo!Idle \/ Overlap \/ req[w] # Solo!AgendaFree,
           j.op \in {"free", "start", "write"}, j.op = "free" => j = Solo!AgendaFree,
           j.op = "write" =>
             /\ j.row \in Solo!Rows
             /\ \A kind, m : kind = j.row.kind /\ m = j.row.at /\ ~ Overlap => Solo!AssertAllowed(kind, m)'
    PROVE  /\ DOMAIN req' = Worker /\ req' = [v \in Worker |-> req'[v]]
           /\ \A v \in Worker : WritesOK(v)'
BY DEF AInv, WritesOK, Solo!Idle, Solo!AgendaFree

(* Steps that touch no request *)
LEMMA RequestsKept ==
    ASSUME AInv, UNCHANGED req, UNCHANGED <<row, pro>> \/ Solo!Idle \/ Overlap
    PROVE  /\ DOMAIN req' = Worker /\ req' = [v \in Worker |-> req'[v]]
           /\ \A v \in Worker : WritesOK(v)'
BY SameRows DEF AInv, Solo!AgendaFree, WritesOK, Solo!Idle

LEMMA StartA ==
    ASSUME OfAgenda, AInv, NEW w \in Worker, Solo!Start(w) PROVE AInv'
<1>1. UNCHANGED <<month, shop, pro, row, SoloLate>> /\ (Solo!Idle \/ Overlap)
  BY DEF Solo!Start, Solo!May
<1>2. PICK j : j = [op |-> "start", row |-> None] /\ req' = [req EXCEPT ![w] = j]
  BY DEF Solo!Start
<1>3. j.op = "start"
  BY <1>2
<1>4. /\ DOMAIN req' = Worker /\ req' = [v \in Worker |-> req'[v]]
      /\ \A v \in Worker : WritesOK(v)'
  BY <1>1, <1>2, <1>3, RequestMoves
<1> QED  BY <1>1, <1>4 DEF AInv, Solo!AgendaTypeOK, Solo!OpenShops

LEMMA StartTxA ==
    ASSUME OfAgenda, AInv, NEW w \in Worker, NEW s \in ShopId, Solo!StartTx(w, s) PROVE AInv'
BY RequestMoves
   DEF Solo!StartTx, Solo!AgendaFree, Solo!AgendaDone, AInv, Solo!AgendaTypeOK,
       Solo!MayOpen, Solo!OpenShops

LEMMA BookA ==
    ASSUME OfAgenda, AInv, NEW w \in Worker, NEW s \in ShopId, NEW kind \in {"service", "product"},
           NEW m \in Solo!Months, Solo!Book(w, s, kind, m)
    PROVE  AInv'
<1>1. UNCHANGED <<month, shop, pro, row, SoloLate>> /\ (Solo!Idle \/ Overlap) /\ Solo!AssertAllowed(kind, m)
  BY DEF Solo!Book, Solo!May
<1>2. PICK r \in Solo!Rows : /\ r = [shop |-> s, kind |-> kind, at |-> m, made |-> month, source |-> "STAFF",
                                     status |-> IF kind = "product" THEN "COMPLETED" ELSE "CONFIRMED"]
                             /\ r.kind = kind /\ r.at = m
  <2>1. month \in Solo!Months
    BY DEF AInv, Solo!AgendaTypeOK
  <2>2. PICK st \in {"CONFIRMED", "COMPLETED"} : st = IF kind = "product" THEN "COMPLETED" ELSE "CONFIRMED"
    OBVIOUS
  <2>3. [shop |-> s, kind |-> kind, at |-> m, made |-> month, source |-> "STAFF", status |-> st] \in Solo!Rows
    BY <2>1 DEF Solo!Rows
  <2> QED  BY <2>2, <2>3
<1>3. PICK j : j = [op |-> "write", row |-> r] /\ req' = [req EXCEPT ![w] = j]
  BY <1>2 DEF Solo!Book
<1>4. j.op = "write" /\ j.row = r
  BY <1>3
<1>5. Solo!AssertAllowed(kind, m)'
  BY <1>1, SameRows
<1>6. /\ DOMAIN req' = Worker /\ req' = [v \in Worker |-> req'[v]]
      /\ \A v \in Worker : WritesOK(v)'
  BY <1>2, <1>4, <1>5, <1>1, <1>3, RequestMoves
<1> QED  BY <1>1, <1>6 DEF AInv, Solo!AgendaTypeOK, Solo!OpenShops

LEMMA WriteA ==
    ASSUME OfAgenda, AInv, NEW w \in Worker, NEW r \in RowId, Solo!Write(w, r) PROVE AInv'
BY RequestMoves
   DEF Solo!Write, Solo!AgendaFree, Solo!AgendaDone, AInv, Solo!AgendaTypeOK, WritesOK,
       Solo!OpenShops

LEMMA OthersA ==
    ASSUME OfAgenda, AInv,
           \/ \E r \in RowId, s \in ShopId, m \in Solo!Months : Solo!ImportHistory(r, s, m)
           \/ \E r \in RowId, status \in {"COMPLETED", "CANCELLED"} : Solo!Finish(r, status)
           \/ \E s \in ShopId : Solo!Close(s)
           \/ Solo!NextMonth
    PROVE  AInv'
<1>1. UNCHANGED <<pro, SoloLate, req>> /\ (UNCHANGED row \/ Solo!Idle \/ Overlap)
  BY DEF Solo!ImportHistory, Solo!Finish, Solo!Close, Solo!NextMonth
<1>2. /\ DOMAIN req' = Worker /\ req' = [v \in Worker |-> req'[v]]
      /\ \A v \in Worker : WritesOK(v)'
  BY <1>1, RequestsKept
<1>3. row' \in [RowId -> Solo!Rows \cup {None}]
  <2>1. row \in [RowId -> Solo!Rows \cup {None}]
    BY DEF AInv, Solo!AgendaTypeOK
  <2>2. CASE UNCHANGED row
    BY <2>1, <2>2
  <2>3. ASSUME NEW r \in RowId, NEW s \in ShopId, NEW m \in Solo!Months, Solo!ImportHistory(r, s, m)
        PROVE  row' \in [RowId -> Solo!Rows \cup {None}]
    <3>1. PICK q \in Solo!Rows : q = [shop |-> s, kind |-> "service", at |-> m, made |-> month,
                                      status |-> "COMPLETED", source |-> "HISTORY"]
      BY DEF AInv, Solo!AgendaTypeOK, Solo!Rows
    <3>2. row' = [row EXCEPT ![r] = q]
      BY <2>3, <3>1 DEF Solo!ImportHistory
    <3> QED  BY <2>1, <3>2
  <2>4. ASSUME NEW r \in RowId, NEW status \in {"COMPLETED", "CANCELLED"}, Solo!Finish(r, status)
        PROVE  row' \in [RowId -> Solo!Rows \cup {None}]
    <3>1. row[r] \in Solo!Rows
      BY <2>1, <2>4 DEF Solo!Finish
    <3>2. PICK q \in Solo!Rows : q = [row[r] EXCEPT !.status = status]
      BY <3>1 DEF Solo!Rows
    <3>3. row' = [row EXCEPT ![r] = q]
      BY <2>4, <3>2 DEF Solo!Finish
    <3> QED  BY <2>1, <3>3
  <2>5. ASSUME \/ \E s \in ShopId : Solo!Close(s)
               \/ Solo!NextMonth
        PROVE  UNCHANGED row
    BY <2>5 DEF Solo!Close, Solo!NextMonth
  <2> QED  BY <2>2, <2>3, <2>4, <2>5
<1>4. /\ shop' \in [ShopId -> {"none", "open", "closed"}]
      /\ \A x, y \in Solo!OpenShops' : x = y
  BY DEF AInv, Solo!AgendaTypeOK, Solo!ImportHistory, Solo!Finish, Solo!Close,
         Solo!NextMonth, Solo!OpenShops
<1>5. month' \in Solo!Months
  BY DEF AInv, Solo!AgendaTypeOK, Solo!Months, Solo!ImportHistory, Solo!Finish,
         Solo!Close, Solo!NextMonth, OfAgenda
<1> QED  BY <1>1, <1>2, <1>3, <1>4, <1>5 DEF AInv, Solo!AgendaTypeOK

LEMMA NextA == OfAgenda /\ AInv /\ [Solo!Next]_(Solo!vars) => AInv'
<1> SUFFICES ASSUME OfAgenda, AInv, Solo!Next \/ UNCHANGED Solo!vars PROVE AInv'
  OBVIOUS
<1>1. CASE UNCHANGED <<month, shop, pro, row, SoloLate, req>>
  BY <1>1, RequestsKept DEF AInv, Solo!AgendaTypeOK, Solo!OpenShops
<1>2. CASE Solo!AgendaNext
  BY <1>2, StartA, StartTxA, BookA, WriteA, OthersA DEF Solo!AgendaNext
<1>3. CASE UNCHANGED Solo!vars
  BY <1>1, <1>3 DEF Solo!vars
<1> QED  BY <1>2, <1>3 DEF Solo!Next, OfAgenda

LEMMA AgendaInvariant == OfAgenda => (Solo!Spec => []AInv)
<1> SUFFICES ASSUME OfAgenda PROVE Solo!Spec => []AInv
  OBVIOUS
<1>1. Solo!Init => AInv
  BY InitA
<1>2. AInv /\ [Solo!Next]_(Solo!vars) => AInv'
  BY NextA
<1> QED  BY <1>1, <1>2, PTL DEF Solo!Spec

(* A professional has one open agenda at most, however many requests to    *)
(* begin meet (start).                                                     *)
THEOREM SoloOneAgenda == OfAgenda => (Solo!Spec => []Solo!OneSoloAgenda)
<1> SUFFICES ASSUME OfAgenda PROVE Solo!Spec => []Solo!OneSoloAgenda
  OBVIOUS
<1>1. AInv => Solo!OneSoloAgenda
  <2> SUFFICES ASSUME AInv PROVE Cardinality(Solo!OpenShops) <= 1
    BY SoloCounts DEF Solo!OneSoloAgenda
  <2>1. CASE Solo!OpenShops = {}
    BY <2>1, FS_EmptySet
  <2>2. CASE Solo!OpenShops # {}
    <3>1. PICK s \in Solo!OpenShops : Solo!OpenShops = {s}
      BY <2>2 DEF AInv
    <3>2. Cardinality(Solo!OpenShops) = 1
      BY <3>1, FS_Singleton
    <3> QED  BY <3>2
  <2> QED  BY <2>1, <2>2
<1> QED  BY <1>1, AgendaInvariant, PTL

(* While requests do not overlap, nothing new is written in a month that   *)
(* the quota stops, and what stops it is the second full month in a row of *)
(* what was served or sold here (soloDecision, assertSoloBookingAllowed,   *)
(* completedInRange).                                                      *)
THEOREM SoloQuotaHolds == OfAgenda => (Solo!Spec => []Solo!QuotaHolds)
<1> SUFFICES ASSUME OfAgenda PROVE Solo!Spec => []Solo!QuotaHolds
  OBVIOUS
<1>1. AInv => Solo!QuotaHolds
  <2> SUFFICES ASSUME AInv PROVE Solo!QuotaHolds
    OBVIOUS
  <2> DEFINE n(kind, k) == Cardinality({r \in RowId :
                row[r] # None /\ row[r].kind = kind /\ row[r].at = k
                /\ row[r].status = "COMPLETED" /\ row[r].source = "STAFF"})
  <2>1. \A r \in RowId : row[r] # None => (row[r].source = "STAFF" <=> row[r].source # "HISTORY")
    BY DEF AInv, Solo!AgendaTypeOK, Solo!Rows
  <2>2. \A kind, k : Solo!Completed(kind, k) = n(kind, k)
    <3> SUFFICES ASSUME NEW kind, NEW k PROVE Solo!Completed(kind, k) = n(kind, k)
      OBVIOUS
    <3>1. {r \in RowId : Solo!Counts(r, kind, k)}
            = {r \in RowId : row[r] # None /\ row[r].kind = kind /\ row[r].at = k
                             /\ row[r].status = "COMPLETED" /\ row[r].source = "STAFF"}
      BY <2>1 DEF Solo!Counts
    <3> QED  BY SoloCounts, <3>1 DEF Solo!Completed
  <2>3. \A kind, m : Solo!AssertAllowed(kind, m) <=>
          (~ pro => ~ (n(kind, m) >= Limit /\ m > 0 /\ n(kind, m - 1) >= Limit))
    <3> HIDE DEF n
    <3>1. \A kind, m : Solo!SoloDecision(kind, m).blocked <=>
            (n(kind, m) >= Limit /\ m > 0 /\ n(kind, m - 1) >= Limit)
      BY <2>2 DEF Solo!SoloDecision
    <3> QED  BY <3>1 DEF Solo!AssertAllowed
  <2>4. ~ Overlap => SoloLate = {}
    BY DEF AInv
  <2> QED  BY SoloCounts, <2>3, <2>4 DEF Solo!QuotaHolds
<1> QED  BY <1>1, AgendaInvariant, PTL

----------------------------------------------------------------------------
(* The referral *)

SoloLeft(u) == IF Solo!IsProActive(u) THEN proUntil[u] - now ELSE 0
Earned(u) == Solo!Sent(u) \ Solo!Pending(u)

ReferredOK(u) ==
    referral[u] # None =>
      /\ referral[u] \in Solo!ProReferralRow
      /\ \A v : v = referral[u].inviter =>
           /\ v # u /\ {u, v} \notin same
           /\ referral[v] # None => referral[v].inviter # u
      /\ referral[u].granted => u \in served

RequestOK(w) ==
    /\ req[w].op = "claim" =>
         /\ req[w].user \in UserId /\ req[w].of \in UserId /\ req[w].user # req[w].of
         /\ {req[w].user, req[w].of} \notin same
    /\ req[w].op = "release" =>
         /\ req[w].user \in UserId /\ req[w].user \in served /\ req[w].of \in UserId
         /\ referral[req[w].user] # None /\ referral[req[w].user].inviter = req[w].of

SoloRInv ==
    /\ now \in 0 .. MaxTime
    /\ proUntil \in [UserId -> Nat] /\ used \in [UserId -> Nat]
    /\ referral = [u \in UserId |-> referral[u]] /\ req = [w \in Worker |-> req[w]]
    /\ \A u \in UserId : ReferredOK(u) /\ used[u] <= now
    /\ \A v \in UserId : Cardinality(Solo!Sent(v)) <= MaxMonths
    /\ \A u \in UserId :
          used[u] + SoloLeft(u) = (IF referral[u] # None THEN 1 ELSE 0) + Cardinality(Earned(u))
    /\ \A w \in Worker : RequestOK(w)

(* The members of a set after one account joins it *)
LEMMA OneJoins ==
    ASSUME OfReferral, NEW A \in SUBSET UserId, NEW aB \in SUBSET UserId, NEW x \in UserId,
           \A y \in UserId : y # x => (y \in A <=> y \in aB)
    PROVE  /\ Cardinality(A) \in Nat /\ Cardinality(aB) \in Nat
           /\ (x \in A <=> x \in aB) => Cardinality(aB) = Cardinality(A)
           /\ x \notin A /\ x \in aB => Cardinality(aB) = Cardinality(A) + 1
BY FS_Subset, FS_AddElement, FS_CardinalityType DEF OfReferral

LEMMA SoloInitR == OfReferral /\ Solo!Init => SoloRInv
<1> SUFFICES ASSUME OfReferral, Solo!Init PROVE SoloRInv
  OBVIOUS
<1>1. Solo!ReferralInit
  BY DEF Solo!Init, OfReferral
<1>2. \A u \in UserId : referral[u] = None /\ used[u] = 0 /\ proUntil[u] = 0
  BY <1>1 DEF Solo!ReferralInit
<1>3. \A u \in UserId : Solo!Sent(u) = {} /\ Earned(u) = {}
  BY <1>2 DEF Solo!Sent, Solo!Pending, Earned
<1>4. Cardinality({}) = 0
  BY FS_EmptySet
<1>5. \A u \in UserId : SoloLeft(u) = 0
  BY <1>1, <1>2 DEF SoloLeft, Solo!IsProActive, Solo!ReferralInit
<1>6. \A w \in Worker : req[w].op = "free"
  BY <1>1 DEF Solo!ReferralInit, Solo!ReferralFree
<1>7. /\ now \in 0 .. MaxTime /\ proUntil \in [UserId -> Nat] /\ used \in [UserId -> Nat]
      /\ referral = [u \in UserId |-> referral[u]] /\ req = [w \in Worker |-> req[w]]
      /\ now = 0
  BY <1>1 DEF Solo!ReferralInit, OfReferral
<1>8. \A u \in UserId : ReferredOK(u) /\ used[u] <= now
  BY <1>2, <1>7 DEF ReferredOK
<1>9. \A u \in UserId : Cardinality(Solo!Sent(u)) <= MaxMonths
  BY <1>3, <1>4 DEF OfReferral
<1>10. \A u \in UserId :
          used[u] + SoloLeft(u) = (IF referral[u] # None THEN 1 ELSE 0) + Cardinality(Earned(u))
  BY <1>2, <1>3, <1>4, <1>5
<1>11. \A w \in Worker : RequestOK(w)
  BY <1>6 DEF RequestOK
<1> QED  BY <1>7, <1>8, <1>9, <1>10, <1>11 DEF SoloRInv

(* A month more for one account, none for the others *)
LEMMA MonthGranted ==
    ASSUME SoloRInv, OfReferral, NEW u \in UserId, Solo!Grants(u), UNCHANGED now
    PROVE  /\ proUntil' \in [UserId -> Nat] /\ SoloLeft(u)' = SoloLeft(u) + 1
           /\ \A v \in UserId : v # u => SoloLeft(v)' = SoloLeft(v)
BY DEF Solo!Grants, SoloRInv, OfReferral, Solo!ExtendProUntil, SoloLeft, Solo!IsProActive

(* Steps that only begin or end a request *)
LEMMA OnlyRequests ==
    ASSUME SoloRInv, NEW w \in Worker, NEW j, req' = [req EXCEPT ![w] = j],
           UNCHANGED <<now, proUntil, same, referral, served, used>>,
           j.op = "claim" => /\ j.user \in UserId /\ j.of \in UserId /\ j.user # j.of
                             /\ {j.user, j.of} \notin same,
           j.op = "release" => /\ j.user \in UserId /\ j.user \in served /\ j.of \in UserId
                               /\ referral[j.user] # None /\ referral[j.user].inviter = j.of
    PROVE  SoloRInv'
<1>1. \A u \in UserId : Solo!Sent(u)' = Solo!Sent(u) /\ Earned(u)' = Earned(u) /\ SoloLeft(u)' = SoloLeft(u)
  BY DEF Solo!Sent, Solo!Pending, Earned, SoloLeft, Solo!IsProActive
<1>2. \A u \in UserId : ReferredOK(u)'
  BY DEF SoloRInv, ReferredOK
<1>3. \A v \in Worker : RequestOK(v)'
  BY DEF SoloRInv, RequestOK
<1>4. req' = [v \in Worker |-> req'[v]]
  BY DEF SoloRInv
<1> QED  BY <1>1, <1>2, <1>3, <1>4 DEF SoloRInv

LEMMA BeginsR ==
    ASSUME OfReferral, SoloRInv, NEW w \in Worker, NEW u \in UserId,
           (\E v \in UserId : Solo!Claim(w, u, v)) \/ Solo!ReleaseInviterMonths(w, u)
    PROVE  SoloRInv'
<1>1. CASE \E v \in UserId : Solo!Claim(w, u, v)
  <2>1. PICK v \in UserId : Solo!Claim(w, u, v)
    BY <1>1
  <2>2. PICK j : j = [op |-> "claim", user |-> u, of |-> v] /\ req' = [req EXCEPT ![w] = j]
    BY <2>1 DEF Solo!Claim
  <2>3. j.op = "claim" /\ j.user = u /\ j.of = v
    BY <2>2
  <2>4. u # v /\ {u, v} \notin same /\ UNCHANGED <<now, proUntil, same, referral, served, used>>
    BY <2>1 DEF Solo!Claim
  <2> QED  BY <2>2, <2>3, <2>4, OnlyRequests
<1>2. CASE Solo!ReleaseInviterMonths(w, u)
  <2>1. PICK v \in Solo!Pending(u) \cap served : req' = [req EXCEPT ![w] = [op |-> "release", user |-> v, of |-> u]]
    BY <1>2 DEF Solo!ReleaseInviterMonths
  <2>2. PICK j : j = [op |-> "release", user |-> v, of |-> u] /\ req' = [req EXCEPT ![w] = j]
    BY <2>1
  <2>3. j.op = "release" /\ j.user = v /\ j.of = u
    BY <2>2
  <2>4. v \in UserId /\ v \in served /\ referral[v] # None /\ referral[v].inviter = u
    BY <2>1 DEF Solo!Pending, Solo!Sent
  <2>5. UNCHANGED <<now, proUntil, same, referral, served, used>>
    BY <1>2 DEF Solo!ReleaseInviterMonths
  <2> QED  BY <2>2, <2>3, <2>4, <2>5, OnlyRequests
<1> QED  BY <1>1, <1>2

LEMMA AccountsR ==
    ASSUME OfReferral, SoloRInv, NEW u \in UserId, Solo!SignUp(u) \/ Solo!Serves(u) PROVE SoloRInv'
<1>1. /\ UNCHANGED <<now, proUntil, same, referral, used, req>>
      /\ \A v : v \in served => v \in served'
  BY DEF Solo!SignUp, Solo!Serves
<1>2. \A v \in UserId : Solo!Sent(v)' = Solo!Sent(v) /\ Earned(v)' = Earned(v) /\ SoloLeft(v)' = SoloLeft(v)
  BY <1>1 DEF Solo!Sent, Solo!Pending, Earned, SoloLeft, Solo!IsProActive
<1>3. \A v \in UserId : ReferredOK(v)'
  BY <1>1 DEF SoloRInv, ReferredOK
<1>4. \A w \in Worker : RequestOK(w)'
  BY <1>1 DEF SoloRInv, RequestOK
<1> QED  BY <1>1, <1>2, <1>3, <1>4 DEF SoloRInv

LEMMA TickR ==
    ASSUME OfReferral, SoloRInv, Solo!Tick PROVE SoloRInv'
<1>1. /\ now \in Nat /\ now < MaxTime /\ now' = now + 1
      /\ used' = [u \in UserId |-> used[u] + (IF Solo!IsProActive(u) THEN 1 ELSE 0)]
      /\ UNCHANGED <<proUntil, same, referral, served, req>>
  BY DEF Solo!Tick, SoloRInv, OfReferral
<1>2. \A u \in UserId : /\ used[u] \in Nat /\ used[u] <= now /\ proUntil[u] \in Nat
                        /\ used'[u] = used[u] + (IF proUntil[u] > now THEN 1 ELSE 0)
  BY <1>1 DEF SoloRInv, Solo!IsProActive
<1>3. used' \in [UserId -> Nat] /\ \A u \in UserId : used'[u] <= now'
  BY <1>2, <1>1
<1>4. \A u \in UserId : used'[u] + SoloLeft(u)' = used[u] + SoloLeft(u)
  BY <1>1, <1>2 DEF SoloLeft, Solo!IsProActive
<1>5. \A u \in UserId : Solo!Sent(u)' = Solo!Sent(u) /\ Earned(u)' = Earned(u)
  BY <1>1 DEF Solo!Sent, Solo!Pending, Earned
<1>6. \A u \in UserId : ReferredOK(u)'
  BY <1>1 DEF SoloRInv, ReferredOK
<1>7. \A w \in Worker : RequestOK(w)'
  BY <1>1 DEF SoloRInv, RequestOK
<1>8. now' \in 0 .. MaxTime
  BY <1>1 DEF OfReferral
<1> QED  BY <1>1, <1>3, <1>4, <1>5, <1>6, <1>7, <1>8 DEF SoloRInv

(* The end of a request, when what the others count on stays *)
LEMMA RequestEnds ==
    ASSUME SoloRInv, NEW w \in Worker, Solo!ReferralDone(w), UNCHANGED <<same, served>>,
           \A u \in UserId : referral[u] # None =>
             referral'[u] # None /\ referral'[u].inviter = referral[u].inviter
    PROVE  req' = [v \in Worker |-> req'[v]] /\ \A v \in Worker : RequestOK(v)'
<1>1. /\ req' = [v \in Worker |-> req'[v]] /\ req'[w] = Solo!ReferralFree
      /\ \A v \in Worker : v # w => req'[v] = req[v]
  BY DEF SoloRInv, Solo!ReferralDone
<1>2. RequestOK(w)'
  BY <1>1 DEF RequestOK, Solo!ReferralFree
<1>3. ASSUME NEW v \in Worker, v # w PROVE RequestOK(v)'
  <2>1. req'[v] = req[v] /\ RequestOK(v)
    BY <1>1, <1>3 DEF SoloRInv
  <2> QED  BY <2>1 DEF RequestOK
<1> QED  BY <1>1, <1>2, <1>3

LEMMA ClaimTxR ==
    ASSUME OfReferral, SoloRInv, NEW w \in Worker, Solo!ClaimTx(w) PROVE SoloRInv'
<1>1. /\ req[w].op = "claim" /\ RequestOK(w) /\ Solo!ReferralDone(w)
      /\ UNCHANGED <<now, created, same, served, used>>
  BY DEF Solo!ClaimTx, SoloRInv
<1>2. PICK u \in UserId, v \in UserId : u = req[w].user /\ v = req[w].of
  BY <1>1 DEF RequestOK
<1>3. u # v /\ {u, v} \notin same
  BY <1>1, <1>2 DEF RequestOK
<1>4. CASE UNCHANGED <<referral, proUntil>>
  BY <1>1, <1>4, RequestEnds
     DEF Solo!Sent, Solo!Pending, Earned, SoloLeft, Solo!IsProActive, SoloRInv,
         ReferredOK
<1>5. CASE /\ Solo!MayClaim(u, v) /\ Solo!Grants(u)
           /\ referral' = [referral EXCEPT ![u] = [inviter |-> v, granted |-> FALSE]]
  <2>1. PICK q \in Solo!ProReferralRow : /\ q = [inviter |-> v, granted |-> FALSE]
                                         /\ q.inviter = v /\ ~ q.granted /\ q # None
    <3>1. [inviter |-> v, granted |-> FALSE] \in Solo!ProReferralRow
      BY DEF Solo!ProReferralRow
    <3>2. [inviter |-> v, granted |-> FALSE] # None
      BY <3>1 DEF OfReferral
    <3> QED  BY <3>1, <3>2
  <2>2. /\ referral' = [x \in UserId |-> referral'[x]] /\ referral'[u] = q
        /\ \A x \in UserId : x # u => referral'[x] = referral[x]
    BY <1>5, <2>1 DEF SoloRInv
  <2>3. referral[u] = None /\ v \notin Solo!Sent(u) /\ Cardinality(Solo!Sent(v)) < MaxMonths
    BY SoloCounts, <1>5 DEF Solo!MayClaim
  <2>4. req' = [x \in Worker |-> req'[x]] /\ \A x \in Worker : RequestOK(x)'
    BY <2>2, <2>3, <1>1, RequestEnds
  <2>5. \A x \in UserId : Solo!Sent(x) \in SUBSET UserId /\ Solo!Sent(x)' \in SUBSET UserId
    BY DEF Solo!Sent
  <2>6. /\ u \notin Solo!Sent(v) /\ u \in Solo!Sent(v)' /\ (\A y \in UserId : y # u => (y \in Solo!Sent(v) <=> y \in Solo!Sent(v)'))
        /\ \A x \in UserId : x # v => Solo!Sent(x)' = Solo!Sent(x)
    BY <2>1, <2>2, <2>3 DEF Solo!Sent
  <2>7. \A x \in UserId : Earned(x)' = Earned(x)
    BY <2>1, <2>2, <2>3 DEF Earned, Solo!Pending, Solo!Sent
  <2>8. \A x \in UserId : Cardinality(Solo!Sent(x)') <= MaxMonths
    BY <2>5, <2>6, OneJoins, <2>3 DEF OfReferral, SoloRInv
  <2>9. /\ proUntil' \in [UserId -> Nat] /\ SoloLeft(u)' = SoloLeft(u) + 1
        /\ \A x \in UserId : x # u => SoloLeft(x)' = SoloLeft(x)
    BY <1>1, <1>5, MonthGranted
  <2>10. \A x \in UserId :
          used'[x] + SoloLeft(x)' = (IF referral'[x] # None THEN 1 ELSE 0) + Cardinality(Earned(x)')
    <3> SUFFICES ASSUME NEW x \in UserId
                 PROVE used'[x] + SoloLeft(x)' = (IF referral'[x] # None THEN 1 ELSE 0) + Cardinality(Earned(x)')
      OBVIOUS
    <3>1. used[x] + SoloLeft(x) = (IF referral[x] # None THEN 1 ELSE 0) + Cardinality(Earned(x))
      BY DEF SoloRInv
    <3>2. CASE x = u
      <4>1. Cardinality(Earned(u)) \in Nat /\ used[u] \in Nat /\ SoloLeft(u) \in Int
        <5>1. Earned(u) \in SUBSET UserId
          BY DEF Earned, Solo!Sent
        <5>2. proUntil[u] \in Nat /\ now \in Nat /\ used[u] \in Nat
          BY DEF SoloRInv, OfReferral
        <5> QED  BY <5>1, <5>2, OneJoins DEF SoloLeft, Solo!IsProActive
      <4> QED  BY <1>1, <2>1, <2>2, <2>3, <2>7, <2>9, <3>1, <3>2, <4>1
    <3>3. CASE x # u
      BY <1>1, <2>2, <2>7, <2>9, <3>1, <3>3
    <3> QED  BY <3>2, <3>3
  <2>11. \A x \in UserId : ReferredOK(x)'
    <3> SUFFICES ASSUME NEW x \in UserId, referral'[x] # None PROVE ReferredOK(x)'
      BY DEF ReferredOK
    <3>1. CASE x = u
      BY <1>3, <2>2, <2>3, <1>1, <2>1, <3>1 DEF Solo!Sent, ReferredOK
    <3>2. CASE x # u
      <4>1. ReferredOK(x) /\ referral'[x] = referral[x]
        BY <2>2, <3>2 DEF SoloRInv
      <4>2. ASSUME NEW i, i = referral[x].inviter, referral'[i] # None
            PROVE  referral'[i].inviter # x
        <5>1. i \in UserId
          BY <4>1, <4>2 DEF ReferredOK, Solo!ProReferralRow
        <5>2. CASE i = u
          <6>1. x \in Solo!Sent(u)
            BY <4>1, <4>2, <5>2 DEF Solo!Sent
          <6> QED  BY <2>1, <2>2, <2>3, <5>2, <6>1
        <5>3. CASE i # u
          BY <2>2, <4>1, <4>2, <5>1, <5>3 DEF ReferredOK
        <5> QED  BY <5>2, <5>3
      <4> QED  BY <1>1, <4>1, <4>2 DEF ReferredOK
    <3> QED  BY <3>1, <3>2
  <2> QED  BY <1>1, <2>2, <2>4, <2>8, <2>9, <2>10, <2>11 DEF SoloRInv
<1> QED  BY <1>2, <1>4, <1>5 DEF Solo!ClaimTx

LEMMA ReleaseTxR ==
    ASSUME OfReferral, SoloRInv, NEW w \in Worker, Solo!ReleaseTx(w) PROVE SoloRInv'
<1>1. /\ req[w].op = "release" /\ RequestOK(w) /\ Solo!ReferralDone(w)
      /\ UNCHANGED <<now, created, same, served, used>>
  BY DEF Solo!ReleaseTx, SoloRInv
<1>2. PICK u \in UserId, v \in UserId : u = req[w].of /\ v = req[w].user
  BY <1>1 DEF RequestOK
<1>3. referral[v] # None /\ referral[v].inviter = u /\ v \in served /\ ReferredOK(v)
  BY <1>1, <1>2 DEF RequestOK, SoloRInv
<1>4. CASE UNCHANGED <<referral, proUntil>>
  BY <1>1, <1>4, RequestEnds
     DEF Solo!Sent, Solo!Pending, Earned, SoloLeft, Solo!IsProActive, SoloRInv,
         ReferredOK
<1>5. CASE /\ Solo!Claimed(v) /\ Solo!Grants(u)
           /\ referral' = [referral EXCEPT ![v].granted = TRUE]
  <2>1. PICK q \in Solo!ProReferralRow : /\ q = [referral[v] EXCEPT !.granted = TRUE]
                                         /\ q.inviter = u /\ q.granted /\ q # None
    <3>1. referral[v] \in Solo!ProReferralRow
      BY <1>3 DEF ReferredOK
    <3>2. \A r \in Solo!ProReferralRow : /\ [r EXCEPT !.granted = TRUE] \in Solo!ProReferralRow
                                         /\ [r EXCEPT !.granted = TRUE].inviter = r.inviter
                                         /\ [r EXCEPT !.granted = TRUE].granted
      BY DEF Solo!ProReferralRow
    <3> QED  BY <1>3, <3>1, <3>2 DEF OfReferral
  <2>2. /\ referral' = [x \in UserId |-> referral'[x]] /\ referral'[v] = q
        /\ \A x \in UserId : x # v => referral'[x] = referral[x]
    BY <1>5, <2>1 DEF SoloRInv
  <2>3. req' = [x \in Worker |-> req'[x]] /\ \A x \in Worker : RequestOK(x)'
    BY <1>3, <2>1, <2>2, <1>1, RequestEnds
  <2>4. \A x \in UserId : Solo!Sent(x)' = Solo!Sent(x)
    <3>1. \A y \in UserId : /\ referral'[y] # None <=> referral[y] # None
                            /\ referral[y] # None => referral'[y].inviter = referral[y].inviter
      BY <1>3, <2>1, <2>2
    <3> QED  BY <3>1 DEF Solo!Sent
  <2>5. \A x \in UserId : Earned(x) \in SUBSET UserId /\ Earned(x)' \in SUBSET UserId
    BY DEF Earned, Solo!Sent
  <2>6. \A x \in UserId : Earned(x) = {y \in Solo!Sent(x) : referral[y].granted}
    BY DEF Earned, Solo!Pending
  <2>7. \A x \in UserId : Earned(x)' = {y \in Solo!Sent(x) : referral'[y].granted}
    BY <2>4 DEF Earned, Solo!Pending
  <2>8. /\ v \notin Earned(u) /\ v \in Earned(u)'
        /\ \A y \in UserId : y # v => (y \in Earned(u) <=> y \in Earned(u)')
        /\ \A x \in UserId : x # u => Earned(x)' = Earned(x)
    <3>1. v \notin Earned(u)
      BY <1>5, <2>6 DEF Solo!Claimed
    <3>2. v \in Earned(u)'
      <4>1. v \in Solo!Sent(u)
        BY <1>3 DEF Solo!Sent
      <4>2. referral'[v].granted
        BY <2>1, <2>2
      <4> QED  BY <2>7, <4>1, <4>2
    <3>3. \A x \in UserId, y \in UserId : y # v => (y \in Earned(x) <=> y \in Earned(x)')
      BY <2>2, <2>6, <2>7
    <3>4. \A x \in UserId : x # u => v \notin Solo!Sent(x)
      BY <1>3 DEF Solo!Sent
    <3>5. ASSUME NEW x \in UserId, x # u PROVE Earned(x)' = Earned(x)
      <4>1. v \notin Earned(x) /\ v \notin Earned(x)'
        BY <2>6, <2>7, <3>4, <3>5
      <4>2. \A y \in UserId : y \in Earned(x) <=> y \in Earned(x)'
        BY <3>3, <4>1
      <4> QED  BY <2>5, <4>2
    <3> QED  BY <3>1, <3>2, <3>3, <3>5
  <2>9. /\ proUntil' \in [UserId -> Nat] /\ SoloLeft(u)' = SoloLeft(u) + 1
        /\ \A x \in UserId : x # u => SoloLeft(x)' = SoloLeft(x)
    BY <1>1, <1>5, MonthGranted
  <2>10. \A x \in UserId :
          used'[x] + SoloLeft(x)' = (IF referral'[x] # None THEN 1 ELSE 0) + Cardinality(Earned(x)')
    <3> SUFFICES ASSUME NEW x \in UserId
                 PROVE used'[x] + SoloLeft(x)' = (IF referral'[x] # None THEN 1 ELSE 0) + Cardinality(Earned(x)')
      OBVIOUS
    <3>1. used[x] + SoloLeft(x) = (IF referral[x] # None THEN 1 ELSE 0) + Cardinality(Earned(x))
      BY DEF SoloRInv
    <3>2. referral'[x] # None <=> referral[x] # None
      BY <1>3, <2>1, <2>2
    <3>3. CASE x = u
      <4>1. used[u] \in Nat /\ SoloLeft(u) \in Int
        BY DEF SoloRInv, OfReferral, SoloLeft, Solo!IsProActive
      <4>2. Cardinality(Earned(u)') = Cardinality(Earned(u)) + 1 /\ Cardinality(Earned(u)) \in Nat
        BY <2>5, <2>8, OneJoins
      <4> QED  BY <1>1, <2>9, <3>1, <3>2, <3>3, <4>1, <4>2
    <3>4. CASE x # u
      BY <1>1, <2>8, <2>9, <3>1, <3>2, <3>4
    <3> QED  BY <3>3, <3>4
  <2>11. \A x \in UserId : ReferredOK(x)'
    <3> SUFFICES ASSUME NEW x \in UserId, referral'[x] # None PROVE ReferredOK(x)'
      BY DEF ReferredOK
    <3>1. /\ ReferredOK(x) /\ referral[x] # None /\ referral'[x] \in Solo!ProReferralRow
          /\ referral'[x].inviter = referral[x].inviter
          /\ referral'[x].granted => x \in served
      BY <1>3, <2>1, <2>2 DEF SoloRInv, ReferredOK
    <3>2. ASSUME NEW i, i = referral[x].inviter, referral'[i] # None
          PROVE  referral'[i].inviter # x
      <4>1. i \in UserId
        BY <3>1, <3>2 DEF ReferredOK, Solo!ProReferralRow
      <4>2. referral[i] # None /\ referral'[i].inviter = referral[i].inviter
        BY <1>3, <2>1, <2>2, <3>2, <4>1
      <4> QED  BY <3>1, <3>2, <4>2 DEF ReferredOK
    <3> QED  BY <1>1, <3>1, <3>2 DEF ReferredOK
  <2> QED  BY <1>1, <2>2, <2>3, <2>4, <2>9, <2>10, <2>11 DEF SoloRInv
<1> QED  BY <1>2, <1>4, <1>5 DEF Solo!ReleaseTx

LEMMA SoloNextR == OfReferral /\ SoloRInv /\ [Solo!Next]_(Solo!vars) => SoloRInv'
<1> SUFFICES ASSUME OfReferral, SoloRInv, Solo!Next \/ UNCHANGED Solo!vars PROVE SoloRInv'
  OBVIOUS
<1>1. CASE UNCHANGED Solo!vars
  BY <1>1
     DEF Solo!vars, Solo!Sent, Solo!Pending, Earned, SoloLeft, Solo!IsProActive,
         SoloRInv, ReferredOK, RequestOK
<1>2. CASE Solo!ReferralNext
  BY <1>2, BeginsR, AccountsR, TickR, ClaimTxR, ReleaseTxR DEF Solo!ReferralNext
<1> QED  BY <1>1, <1>2 DEF Solo!Next, OfReferral

LEMMA ReferralInvariant == OfReferral => (Solo!Spec => []SoloRInv)
<1> SUFFICES ASSUME OfReferral PROVE Solo!Spec => []SoloRInv
  OBVIOUS
<1>1. Solo!Init => SoloRInv
  BY SoloInitR
<1>2. SoloRInv /\ [Solo!Next]_(Solo!vars) => SoloRInv'
  BY SoloNextR
<1> QED  BY <1>1, <1>2, PTL DEF Solo!Spec

(* Every month of Pro that was earned is had once: that of the claim, and  *)
(* one for each referred account that served a customer, however many      *)
(* readings of the same referrals are released together (extendProUntil,   *)
(* claim, releaseInviterMonths).                                           *)
THEOREM ProMonthsAddUp == OfReferral => (Solo!Spec => []Solo!MonthsAddUp)
<1> SUFFICES ASSUME OfReferral PROVE Solo!Spec => []Solo!MonthsAddUp
  OBVIOUS
<1>1. SoloRInv => Solo!MonthsAddUp
  BY SoloCounts DEF SoloRInv, Solo!MonthsAddUp, SoloLeft, Earned
<1> QED  BY <1>1, ReferralInvariant, PTL

(* Nobody is referred by themselves or by who they referred, nobody earns  *)
(* above the limit, and who referred waits for a real appointment (claim,  *)
(* releaseInviterMonths).                                                  *)
THEOREM ProReferralsHonest == OfReferral => (Solo!Spec => []Solo!ReferralsHonest)
<1> SUFFICES ASSUME OfReferral PROVE Solo!Spec => []Solo!ReferralsHonest
  OBVIOUS
<1>1. SoloRInv => Solo!ReferralsHonest
  BY SoloCounts DEF SoloRInv, ReferredOK, Solo!ReferralsHonest, Solo!ProReferralRow
<1> QED  BY <1>1, ReferralInvariant, PTL

(* The rows of a professional on their own keep their types; no Pro ends   *)
(* later than its months explain (start, createAppointment, claim).        *)
THEOREM SoloTypes == OfAgenda \/ OfReferral => (Solo!Spec => []Solo!TypeOK)
<1>1. OfAgenda /\ AInv => Solo!TypeOK
  BY DEF OfAgenda, AInv, Solo!TypeOK
<1>2. OfReferral /\ SoloRInv => Solo!TypeOK
  <2> SUFFICES ASSUME OfReferral, SoloRInv PROVE Solo!ReferralTypeOK
    BY DEF OfReferral, Solo!TypeOK
  <2>1. ASSUME NEW u \in UserId
        PROVE  used[u] \in 0 .. MaxTime /\ proUntil[u] \in 0 .. MaxTime + MaxMonths + 1
    <3>1. used[u] \in Nat /\ proUntil[u] \in Nat /\ now \in 0 .. MaxTime /\ used[u] <= now
      BY <2>1 DEF SoloRInv
    <3>2. used[u] + SoloLeft(u) = (IF referral[u] # None THEN 1 ELSE 0) + Cardinality(Earned(u))
      BY <2>1 DEF SoloRInv
    <3>3. Earned(u) \subseteq Solo!Sent(u) /\ Solo!Sent(u) \subseteq UserId
      BY DEF Earned, Solo!Sent
    <3>4. Cardinality(Earned(u)) \in Nat /\ Cardinality(Earned(u)) <= MaxMonths
      <4>1. IsFiniteSet(Solo!Sent(u)) /\ IsFiniteSet(Earned(u))
        BY <3>3, FS_Subset DEF OfReferral
      <4>2. /\ Cardinality(Earned(u)) \in Nat /\ Cardinality(Solo!Sent(u)) \in Nat
            /\ Cardinality(Earned(u)) <= Cardinality(Solo!Sent(u))
        BY <3>3, <4>1, FS_CardinalityType, FS_Subset
      <4>3. Cardinality(Solo!Sent(u)) <= MaxMonths
        BY <2>1 DEF SoloRInv
      <4> QED  BY <4>2, <4>3 DEF OfReferral
    <3>5. MaxMonths \in Nat /\ MaxTime \in Nat
      BY DEF OfReferral
    <3>6. used[u] \in 0 .. MaxTime
      BY <3>1, <3>5
    <3>7. CASE Solo!IsProActive(u)
      BY <3>1, <3>2, <3>4, <3>5, <3>7, <3>6 DEF SoloLeft
    <3>8. CASE ~ Solo!IsProActive(u)
      BY <3>1, <3>5, <3>6, <3>8 DEF Solo!IsProActive
    <3> QED  BY <3>7, <3>8
  <2>2. used \in [UserId -> 0 .. MaxTime] /\ proUntil \in [UserId -> 0 .. MaxTime + MaxMonths + 1]
    BY <2>1 DEF SoloRInv
  <2>3. \A u \in UserId : referral[u] # None => referral[u] \in Solo!ProReferralRow
    BY DEF SoloRInv, ReferredOK
  <2> QED  BY <2>2, <2>3 DEF Solo!ReferralTypeOK, SoloRInv
<1>3. ASSUME OfAgenda PROVE Solo!Spec => []Solo!TypeOK
  BY <1>1, <1>3, AgendaInvariant, PTL
<1>4. ASSUME OfReferral PROVE Solo!Spec => []Solo!TypeOK
  BY <1>2, <1>4, ReferralInvariant, PTL
<1> QED  BY <1>3, <1>4

----------------------------------------------------------------------------
(***************************************************************************)
(* Proofs about PlatformPlan, for any number of requests, users, charges,  *)
(* periods and attempts.                                                   *)
(*                                                                         *)
(* The coupon stays within its limit because what was used and the live    *)
(* reservations of those who may still use it never pass it together       *)
(* (Coupons): a reservation that is taken makes room first, and a use      *)
(* either had a reservation or found room.  A charge that was given back   *)
(* activates nothing later because whoever gives it back saw that nobody   *)
(* can commit it any more (Doomed).                                        *)
(*                                                                         *)
(* A period is charged once because an attempt follows only attempts that  *)
(* failed, and an attempt that failed was not taken and is charged by      *)
(* nobody (Renewals).  The end of the plan is the last period that was     *)
(* paid because the pending payment is always the one of the current end   *)
(* (PaidUntil).                                                            *)
(***************************************************************************)

(* Finitely many users and charges; nobody is no user. *)
OfCheckout ==
    /\ PlanPart = "checkout"
    /\ IsFiniteSet(User) /\ IsFiniteSet(PlanIntentId)
    /\ None \notin User /\ None \notin PlanIntentId
    /\ MaxUses \in Nat

----------------------------------------------------------------------------
(* The rows of a checkout *)

IntentOK(i) ==
    /\ intents[i].state # "none" => intents[i].owner \in User
    /\ held[i] # "none" => intents[i].state # "none"
    /\ i \in payments => /\ intents[i].state = "succeeded"
                         /\ intents[i].coupon => PlanUsed[intents[i].owner]
    /\ intents[i].refunded => intents[i].state = "succeeded"
    /\ intents[i].seen /\ ~ intents[i].refunded => i \in payments

Paid(w) == PlanJob[w].op \in {"activate", "commit", "refund"}

CheckoutJobOK(w) ==
    /\ PlanJob[w].op \notin {"idle", "cancel"} => PlanJob[w].user \in User
    /\ PlanJob[w].op = "reserve" =>
         /\ PlanJob[w].intent \in PlanIntentId
         /\ \A i : i = PlanJob[w].intent => /\ intents[i].state \in {"open", "canceled"}
                                            /\ intents[i].owner = PlanJob[w].user
    /\ Paid(w) /\ PlanJob[w].intent # None =>
         \A i : i = PlanJob[w].intent => /\ intents[i].state = "succeeded"
                                         /\ intents[i].owner = PlanJob[w].user
                                         /\ intents[i].coupon <=> PlanJob[w].coupon
    /\ PlanJob[w].op = "refund" => PlanJob[w].intent # None

PlanRows ==
    /\ Plan!CheckoutTypeOK
    /\ \A i \in PlanIntentId : IntentOK(i)
    /\ \A w \in Worker : CheckoutJobOK(w)

LEMMA CheckoutIdles ==
    OfCheckout => /\ Plan!CheckoutIdle \in Plan!CheckoutJob /\ Plan!CheckoutIdle.op = "idle" /\ Plan!CheckoutIdle.intent = None
                  /\ Plan!NoIntent \in Plan!Intent /\ Plan!NoIntent.state = "none" /\ Plan!NoIntent.owner = None
                  /\ ~ Plan!NoIntent.seen /\ ~ Plan!NoIntent.refunded
BY DEF Plan!CheckoutIdle, Plan!CheckoutJob, Plan!CheckoutOps, Plan!NoIntent, Plan!Intent

(* What a request is when it begins *)
LEMMA Begins ==
    ASSUME NEW r \in Plan!CheckoutJob, NEW op \in Plan!CheckoutOps, NEW u \in User, NEW b \in BOOLEAN,
           NEW i \in PlanIntentId
    PROVE  [r EXCEPT !.op = op, !.user = u, !.coupon = b, !.intent = i] \in Plan!CheckoutJob
BY DEF Plan!CheckoutJob

LEMMA BeginsFree ==
    ASSUME NEW r \in Plan!CheckoutJob, NEW op \in Plan!CheckoutOps, NEW u \in User, NEW b \in BOOLEAN
    PROVE  [r EXCEPT !.op = op, !.user = u, !.coupon = b] \in Plan!CheckoutJob
BY DEF Plan!CheckoutJob

LEMMA InitRows == OfCheckout /\ Plan!Init => PlanRows /\ Plan!CheckoutInit
<1> SUFFICES ASSUME OfCheckout, Plan!Init PROVE PlanRows /\ Plan!CheckoutInit
  OBVIOUS
<1>1. Plan!CheckoutInit
  BY DEF OfCheckout, Plan!Init
<1>2. Plan!CheckoutTypeOK
  BY <1>1, CheckoutIdles DEF Plan!CheckoutInit, Plan!CheckoutTypeOK
<1>3. \A i \in PlanIntentId : intents[i] = Plan!NoIntent /\ held[i] = "none" /\ i \notin payments
  BY <1>1 DEF Plan!CheckoutInit
<1>4. \A i \in PlanIntentId : IntentOK(i)
  BY <1>3, CheckoutIdles DEF IntentOK
<1>5. \A w \in Worker : PlanJob[w] = Plan!CheckoutIdle
  BY <1>1 DEF Plan!CheckoutInit
<1>6. \A w \in Worker : CheckoutJobOK(w)
  BY <1>5, CheckoutIdles DEF CheckoutJobOK, Paid
<1> QED  BY <1>1, <1>2, <1>4, <1>6 DEF PlanRows

LEMMA CheckoutJobsKept ==
    ASSUME PlanJob \in [Worker -> Plan!CheckoutJob], NEW w \in Worker, NEW j \in Plan!CheckoutJob,
           PlanJob' = [PlanJob EXCEPT ![w] = j]
    PROVE  /\ PlanJob' \in [Worker -> Plan!CheckoutJob]
           /\ PlanJob'[w] = j /\ \A v \in Worker : v # w => PlanJob'[v] = PlanJob[v]
OBVIOUS

(* What a request counts on about a charge that exists *)
StaysSo(i) ==
    intents[i].state # "none" =>
      /\ intents'[i].state # "none" /\ intents'[i].owner = intents[i].owner
      /\ intents'[i].coupon <=> intents[i].coupon
      /\ intents'[i].state = "succeeded" <=> intents[i].state = "succeeded"

LEMMA OthersStay ==
    ASSUME PlanRows, NEW w \in Worker, NEW j \in Plan!CheckoutJob, PlanJob' = [PlanJob EXCEPT ![w] = j],
           \A i \in PlanIntentId : StaysSo(i) /\ intents'[i] \in Plan!Intent,
           CheckoutJobOK(w)'
    PROVE  PlanJob' \in [Worker -> Plan!CheckoutJob] /\ \A v \in Worker : CheckoutJobOK(v)'
<1>1. PlanJob \in [Worker -> Plan!CheckoutJob]
  BY DEF PlanRows, Plan!CheckoutTypeOK
<1>2. /\ PlanJob' \in [Worker -> Plan!CheckoutJob]
      /\ PlanJob'[w] = j /\ \A v \in Worker : v # w => PlanJob'[v] = PlanJob[v]
  BY <1>1, CheckoutJobsKept
<1> SUFFICES ASSUME NEW v \in Worker, v # w PROVE CheckoutJobOK(v)'
  BY <1>2
<1>3. PlanJob'[v] = PlanJob[v] /\ CheckoutJobOK(v) /\ PlanJob[v] \in Plan!CheckoutJob
  BY <1>1, <1>2 DEF PlanRows
<1>4. PlanJob[v].intent \in PlanIntentId \cup {None}
  BY <1>3 DEF Plan!CheckoutJob
<1>5. ASSUME PlanJob[v].op = "reserve"
      PROVE  \A i : i = PlanJob[v].intent => /\ intents'[i].state \in {"open", "canceled"}
                                             /\ intents'[i].owner = PlanJob[v].user
  <2> SUFFICES ASSUME NEW i, i = PlanJob[v].intent
               PROVE  intents'[i].state \in {"open", "canceled"} /\ intents'[i].owner = PlanJob[v].user
    OBVIOUS
  <2>1. i \in PlanIntentId /\ intents[i].state \in {"open", "canceled"} /\ intents[i].owner = PlanJob[v].user
    BY <1>3, <1>5 DEF CheckoutJobOK
  <2>2. StaysSo(i) /\ intents'[i].state \in {"none", "open", "succeeded", "canceled"}
    BY <2>1 DEF Plan!Intent
  <2> QED  BY <2>1, <2>2 DEF StaysSo
<1>6. ASSUME Paid(v), PlanJob[v].intent # None
      PROVE  \A i : i = PlanJob[v].intent => /\ intents'[i].state = "succeeded"
                                             /\ intents'[i].owner = PlanJob[v].user
                                             /\ intents'[i].coupon <=> PlanJob[v].coupon
  <2> SUFFICES ASSUME NEW i, i = PlanJob[v].intent
               PROVE  /\ intents'[i].state = "succeeded"
                      /\ intents'[i].owner = PlanJob[v].user
                      /\ intents'[i].coupon <=> PlanJob[v].coupon
    OBVIOUS
  <2>1. /\ i \in PlanIntentId /\ intents[i].state = "succeeded"
        /\ intents[i].owner = PlanJob[v].user
        /\ intents[i].coupon <=> PlanJob[v].coupon
    BY <1>3, <1>4, <1>6 DEF CheckoutJobOK
  <2>2. StaysSo(i)
    BY <2>1
  <2> QED  BY <2>1, <2>2 DEF StaysSo
<1> QED  BY <1>3, <1>5, <1>6 DEF CheckoutJobOK, Paid

(***************************************************************************)
(* What each step does to the rows                                         *)
(***************************************************************************)

LEMMA ClocksRows ==
    ASSUME OfCheckout, PlanRows,
           (\E i \in PlanIntentId : Plan!ReservationExpires(i)) \/ \E u \in User : Plan!PlanEnds(u)
    PROVE  PlanRows'
BY DEF Plan!ReservationExpires, Plan!PlanEnds, PlanRows, Plan!CheckoutTypeOK, IntentOK,
       CheckoutJobOK, Paid

LEMMA PaysRows ==
    ASSUME OfCheckout, PlanRows, NEW i \in PlanIntentId, Plan!Pays(i) PROVE PlanRows'
<1>1. /\ intents[i].state = "open" /\ UNCHANGED <<plans, PlanUsed, usedCount, held, payments, PlanJob>>
      /\ \A w \in Worker : PlanJob[w].op = "reserve" => PlanJob[w].intent # i
  BY DEF Plan!Pays
<1>2. intents \in [PlanIntentId -> Plan!Intent]
  BY DEF PlanRows, Plan!CheckoutTypeOK
<1>3. PICK q \in Plan!Intent : /\ q = [intents[i] EXCEPT !.state = "succeeded"] /\ q.state = "succeeded"
                               /\ q.owner = intents[i].owner /\ (q.coupon <=> intents[i].coupon)
                               /\ (q.seen <=> intents[i].seen) /\ (q.refunded <=> intents[i].refunded)
  <2>1. \A r \in Plan!Intent : LET q == [r EXCEPT !.state = "succeeded"] IN
          /\ q \in Plan!Intent /\ q.state = "succeeded"
          /\ q.owner = r.owner /\ (q.coupon <=> r.coupon)
          /\ (q.seen <=> r.seen) /\ (q.refunded <=> r.refunded)
    BY DEF Plan!Intent
  <2> QED  BY <1>2, <2>1
<1>4. /\ intents' \in [PlanIntentId -> Plan!Intent] /\ intents'[i] = q
      /\ \A k \in PlanIntentId : k # i => intents'[k] = intents[k]
  BY <1>3, <1>2 DEF Plan!Pays
<1>5. Plan!CheckoutTypeOK'
  BY <1>1, <1>4 DEF PlanRows, Plan!CheckoutTypeOK
<1>6. \A k \in PlanIntentId : IntentOK(k)'
  <2> SUFFICES ASSUME NEW k \in PlanIntentId PROVE IntentOK(k)'
    OBVIOUS
  <2>1. IntentOK(k)
    BY DEF PlanRows
  <2>2. CASE k = i
    BY <1>1, <2>1, <2>2, <1>3, <1>4 DEF IntentOK
  <2>3. CASE k # i
    BY <1>1, <1>4, <2>1, <2>3 DEF IntentOK
  <2> QED  BY <2>2, <2>3
<1>7. \A w \in Worker : CheckoutJobOK(w)'
  <2> SUFFICES ASSUME NEW w \in Worker PROVE CheckoutJobOK(w)'
    OBVIOUS
  <2>1. CheckoutJobOK(w) /\ PlanJob' = PlanJob /\ PlanJob[w].intent \in PlanIntentId \cup {None}
    BY <1>1 DEF PlanRows, Plan!CheckoutTypeOK, Plan!CheckoutJob
  <2>2. \A k : k = PlanJob[w].intent /\ k \in PlanIntentId =>
           /\ intents'[k].owner = intents[k].owner /\ (intents'[k].coupon <=> intents[k].coupon)
           /\ intents[k].state = "succeeded" => intents'[k].state = "succeeded"
           /\ PlanJob[w].op = "reserve" => intents'[k].state = intents[k].state
    BY <1>1, <1>3, <1>4
  <2> QED  BY <2>1, <2>2 DEF CheckoutJobOK, Paid
<1> QED  BY <1>5, <1>6, <1>7 DEF PlanRows

(* Who neither begins to commit nor to refund *)
QuietJobs == \A v \in Worker : PlanJob'[v] = PlanJob[v] \/ PlanJob'[v].op \notin {"commit", "refund"}

LEMMA QuietJob ==
    ASSUME NEW w \in Worker, NEW j \in Plan!CheckoutJob, PlanJob \in [Worker -> Plan!CheckoutJob],
           PlanJob' = [PlanJob EXCEPT ![w] = j], j.op \notin {"commit", "refund"}
    PROVE  QuietJobs
BY DEF QuietJobs

(* Steps that only begin or move a request *)
LEMMA OnlyMoves ==
    ASSUME OfCheckout, PlanRows, NEW w \in Worker, NEW j \in Plan!CheckoutJob, PlanJob' = [PlanJob EXCEPT ![w] = j],
           UNCHANGED <<plans, PlanUsed, usedCount, held, intents, payments>>, CheckoutJobOK(w)'
    PROVE  PlanRows'
BY OthersStay DEF PlanRows, Plan!CheckoutTypeOK, StaysSo, IntentOK

LEMMA CheckoutReadsRows ==
    ASSUME OfCheckout, PlanRows, NEW w \in Worker, NEW u \in User, NEW coupon \in BOOLEAN,
           NEW covers \in BOOLEAN, Plan!CheckoutReads(w, u, coupon, covers)
    PROVE  PlanRows' /\ QuietJobs
<1>1. /\ UNCHANGED <<plans, PlanUsed, usedCount, held, intents, payments>> /\ PlanJob[w] = Plan!CheckoutIdle
      /\ PlanJob \in [Worker -> Plan!CheckoutJob]
  BY DEF Plan!CheckoutReads, PlanRows, Plan!CheckoutTypeOK
<1>2. PICK op \in {"activate", "create"} : op = IF covers THEN "activate" ELSE "create"
  OBVIOUS
<1>3. PICK j \in Plan!CheckoutJob :
         /\ j = [PlanJob[w] EXCEPT !.op = op, !.user = u, !.coupon = coupon]
         /\ j.op = op /\ j.user = u /\ j.intent = None
  <2>1. op \in Plan!CheckoutOps
    BY DEF Plan!CheckoutOps
  <2>2. PlanJob[w] \in Plan!CheckoutJob /\ PlanJob[w].intent = None
    BY <1>1, CheckoutIdles
  <2>3. PICK r \in Plan!CheckoutJob : r = PlanJob[w]
    BY <2>2
  <2> DEFINE q == [r EXCEPT !.op = op, !.user = u, !.coupon = coupon]
  <2>4. q \in Plan!CheckoutJob
    BY <2>1, BeginsFree
  <2>5. q.op = op /\ q.user = u /\ q.intent = r.intent /\ (q.coupon <=> coupon)
    BY DEF Plan!CheckoutJob
  <2>6. q = [r EXCEPT !.op = op, !.user = u, !.coupon = coupon]
    OBVIOUS
  <2> HIDE DEF q
  <2> QED  BY <2>2, <2>3, <2>4, <2>5, <2>6, Zenon
<1>4. PlanJob' = [PlanJob EXCEPT ![w] = j]
  BY <1>2, <1>1, <1>3 DEF Plan!CheckoutReads
<1>5. CheckoutJobOK(w)'
  BY <1>1, <1>3, <1>4 DEF CheckoutJobOK, Paid
<1>6. PlanRows'
  BY <1>1, <1>3, <1>4, <1>5, OnlyMoves
<1>7. QuietJobs
  BY <1>1, <1>2, <1>3, <1>4, QuietJob
<1> QED  BY <1>6, <1>7

LEMMA ConfirmRows ==
    ASSUME OfCheckout, PlanRows, NEW w \in Worker, NEW i \in PlanIntentId, Plan!Confirm(w, i)
    PROVE  PlanRows' /\ QuietJobs
<1>1. /\ UNCHANGED <<plans, PlanUsed, usedCount, held, intents, payments>> /\ PlanJob[w] = Plan!CheckoutIdle
      /\ PlanJob \in [Worker -> Plan!CheckoutJob] /\ intents[i].state = "succeeded"
      /\ intents[i] \in Plan!Intent /\ IntentOK(i)
  BY DEF Plan!Confirm, PlanRows, Plan!CheckoutTypeOK
<1>2. PICK b \in BOOLEAN : b = intents[i].coupon
  <2>1. intents[i].coupon \in BOOLEAN
    BY <1>1 DEF Plan!Intent
  <2> QED  BY <2>1, Zenon
<1>3. PICK u \in User : u = intents[i].owner
  BY <1>1 DEF IntentOK
<1>4. PICK j \in Plan!CheckoutJob :
         /\ j = [PlanJob[w] EXCEPT !.op = "activate", !.user = u, !.coupon = b, !.intent = i]
         /\ j.op = "activate" /\ j.user = u /\ j.intent = i /\ (j.coupon <=> b)
  <2>1. "activate" \in Plan!CheckoutOps
    BY DEF Plan!CheckoutOps
  <2>2. PlanJob[w] \in Plan!CheckoutJob
    BY <1>1, CheckoutIdles
  <2>3. PICK r \in Plan!CheckoutJob : r = PlanJob[w]
    BY <2>2
  <2> DEFINE q == [r EXCEPT !.op = "activate", !.user = u, !.coupon = b, !.intent = i]
  <2>4. q \in Plan!CheckoutJob
    BY <2>1, Begins
  <2>5. q.op = "activate" /\ q.user = u /\ q.intent = i /\ (q.coupon <=> b)
    BY DEF Plan!CheckoutJob
  <2>6. q = [r EXCEPT !.op = "activate", !.user = u, !.coupon = b, !.intent = i]
    OBVIOUS
  <2> HIDE DEF q
  <2> QED  BY <2>2, <2>3, <2>4, <2>5, <2>6, Zenon
<1>5. PlanJob' = [PlanJob EXCEPT ![w] = j]
  BY <1>2, <1>3, <1>1, <1>4 DEF Plan!Confirm
<1>6. CheckoutJobOK(w)'
  BY <1>1, <1>2, <1>3, <1>4, <1>5 DEF CheckoutJobOK, Paid
<1>7. PlanRows'
  BY <1>1, <1>4, <1>5, <1>6, OnlyMoves
<1>8. QuietJobs
  BY <1>1, <1>4, <1>5, QuietJob
<1> QED  BY <1>7, <1>8

(* A request that goes on, or ends *)
LEMMA GoesJob ==
    ASSUME NEW j \in Plan!CheckoutJob, NEW op \in Plan!CheckoutOps
    PROVE  LET q == [j EXCEPT !.op = op] IN
           /\ q \in Plan!CheckoutJob /\ q.op = op /\ q.user = j.user /\ q.intent = j.intent
           /\ q.coupon <=> j.coupon
BY DEF Plan!CheckoutJob

LEMMA ActivateReadsRows ==
    ASSUME OfCheckout, PlanRows, NEW w \in Worker, Plan!ActivateReads(w) PROVE PlanRows'
<1>1. /\ UNCHANGED <<plans, PlanUsed, usedCount, held, intents, payments>> /\ PlanJob[w].op = "activate"
      /\ PlanJob \in [Worker -> Plan!CheckoutJob] /\ PlanJob[w] \in Plan!CheckoutJob /\ CheckoutJobOK(w)
  BY DEF Plan!ActivateReads, PlanRows, Plan!CheckoutTypeOK
<1>2. CASE Plan!CheckoutEnds(w)
  <2>1. PICK j \in Plan!CheckoutJob : j = Plan!CheckoutIdle /\ j.op = "idle"
    BY CheckoutIdles
  <2>2. PlanJob' = [PlanJob EXCEPT ![w] = j]
    BY <1>2, <2>1 DEF Plan!CheckoutEnds
  <2>3. CheckoutJobOK(w)'
    BY <1>1, <2>1, <2>2 DEF CheckoutJobOK, Paid
  <2> QED  BY <1>1, <2>1, <2>2, <2>3, OnlyMoves
<1>3. ASSUME NEW op \in {"refund", "commit"}, Plan!Goes(w, op), op = "refund" => PlanJob[w].intent # None
      PROVE  PlanRows'
  <2>0. op \in Plan!CheckoutOps
    BY <1>3 DEF Plan!CheckoutOps
  <2>1. PICK j \in Plan!CheckoutJob : /\ j = [PlanJob[w] EXCEPT !.op = op] /\ j.op = op /\ j.user = PlanJob[w].user
                                      /\ j.intent = PlanJob[w].intent /\ (j.coupon <=> PlanJob[w].coupon)
    BY <1>1, <2>0, GoesJob
  <2>2. PlanJob' = [PlanJob EXCEPT ![w] = j]
    BY <1>1, <1>3, <2>1 DEF Plan!Goes
  <2>3. CheckoutJobOK(w)'
    BY <1>1, <1>3, <2>1, <2>2 DEF CheckoutJobOK, Paid
  <2> QED  BY <1>1, <2>1, <2>2, <2>3, OnlyMoves
<1> QED  BY <1>2, <1>3 DEF Plan!ActivateReads

(* A step of one request that changes the charges as the others count on *)
LEMMA StepRows ==
    ASSUME OfCheckout, PlanRows, NEW w \in Worker, NEW j \in Plan!CheckoutJob, PlanJob' = [PlanJob EXCEPT ![w] = j],
           \A i \in PlanIntentId : StaysSo(i) /\ intents'[i] \in Plan!Intent /\ IntentOK(i)',
           intents' = [i \in PlanIntentId |-> intents'[i]],
           plans' \in [User -> Nat], PlanUsed' \in [User -> BOOLEAN], usedCount' \in Nat,
           held' \in [PlanIntentId -> {"none", "live", "late"}], payments' \subseteq PlanIntentId,
           CheckoutJobOK(w)'
    PROVE  PlanRows'
BY OthersStay DEF Plan!CheckoutTypeOK, PlanRows

LEMMA EndsJob ==
    ASSUME OfCheckout, NEW w \in Worker, PlanJob \in [Worker -> Plan!CheckoutJob], Plan!CheckoutEnds(w)
    PROVE  /\ Plan!CheckoutIdle \in Plan!CheckoutJob /\ PlanJob' = [PlanJob EXCEPT ![w] = Plan!CheckoutIdle]
           /\ CheckoutJobOK(w)'
BY CheckoutIdles DEF Plan!CheckoutEnds, CheckoutJobOK, Paid

LEMMA NewIntent ==
    ASSUME NEW q \in Plan!Intent, NEW u \in User, NEW b \in BOOLEAN
    PROVE  [q EXCEPT !.state = "open", !.owner = u, !.coupon = b] \in Plan!Intent
BY DEF Plan!Intent

LEMMA ReserveJob ==
    ASSUME NEW r \in Plan!CheckoutJob, NEW i \in PlanIntentId
    PROVE  [r EXCEPT !.op = "reserve", !.intent = i] \in Plan!CheckoutJob
BY DEF Plan!CheckoutJob, Plan!CheckoutOps

LEMMA CreatesRows ==
    ASSUME OfCheckout, PlanRows, NEW w \in Worker, Plan!CreatesIntent(w)
    PROVE  /\ PlanRows' /\ QuietJobs
           /\ \A k \in PlanIntentId :
                /\ intents[k].state # "none" => intents'[k] = intents[k]
                /\ intents'[k].refunded => intents[k].refunded
<1>1. /\ UNCHANGED <<plans, PlanUsed, usedCount, held, payments>> /\ PlanJob[w].op = "create"
      /\ PlanJob \in [Worker -> Plan!CheckoutJob] /\ PlanJob[w] \in Plan!CheckoutJob /\ CheckoutJobOK(w)
      /\ intents \in [PlanIntentId -> Plan!Intent]
  BY DEF Plan!CreatesIntent, PlanRows, Plan!CheckoutTypeOK
<1>2. PICK i \in PlanIntentId :
         /\ intents[i] = Plan!NoIntent
         /\ intents' = [intents EXCEPT ![i].state = "open", ![i].owner = PlanJob[w].user,
                                       ![i].coupon = PlanJob[w].coupon]
         /\ IF PlanJob[w].coupon
            THEN PlanJob' = [PlanJob EXCEPT ![w].op = "reserve", ![w].intent = i]
            ELSE Plan!CheckoutEnds(w)
  BY DEF Plan!CreatesIntent
<1>3. PICK u \in User : u = PlanJob[w].user
  BY <1>1 DEF CheckoutJobOK
<1>4. PICK b \in BOOLEAN : b = PlanJob[w].coupon
  <2>1. PlanJob[w].coupon \in BOOLEAN
    BY <1>1 DEF Plan!CheckoutJob
  <2> QED  BY <2>1, Zenon
<1>5. PICK q \in Plan!Intent : /\ q = [intents[i] EXCEPT !.state = "open", !.owner = u, !.coupon = b]
                               /\ q.state = "open" /\ q.owner = u /\ ~ q.seen /\ ~ q.refunded
  <2>1. PICK r \in Plan!Intent : r = intents[i] /\ ~ r.seen /\ ~ r.refunded
    BY <1>1, <1>2, CheckoutIdles
  <2> DEFINE q == [r EXCEPT !.state = "open", !.owner = u, !.coupon = b]
  <2>2. q \in Plan!Intent
    BY NewIntent
  <2>3. q.state = "open" /\ q.owner = u /\ (q.seen <=> r.seen) /\ (q.refunded <=> r.refunded)
    BY DEF Plan!Intent
  <2>4. q = [r EXCEPT !.state = "open", !.owner = u, !.coupon = b]
    OBVIOUS
  <2> HIDE DEF q
  <2> QED  BY <2>1, <2>2, <2>3, <2>4, Zenon
<1>6. /\ intents' \in [PlanIntentId -> Plan!Intent] /\ intents'[i] = q
      /\ \A k \in PlanIntentId : k # i => intents'[k] = intents[k]
  BY <1>2, <1>3, <1>4, <1>5, <1>1
<1>7. \A k \in PlanIntentId : StaysSo(k) /\ intents'[k] \in Plan!Intent /\ IntentOK(k)'
  <2> SUFFICES ASSUME NEW k \in PlanIntentId PROVE StaysSo(k) /\ intents'[k] \in Plan!Intent /\ IntentOK(k)'
    OBVIOUS
  <2>1. IntentOK(k)
    BY DEF PlanRows
  <2>2. CASE k = i
    BY <1>2, <2>2, CheckoutIdles, <2>1, <1>1, <1>5, <1>6 DEF IntentOK, StaysSo
  <2>3. CASE k # i
    BY <1>1, <1>6, <2>1, <2>3 DEF IntentOK, StaysSo
  <2> QED  BY <2>2, <2>3
<1>8. /\ intents' = [k \in PlanIntentId |-> intents'[k]]
      /\ plans' \in [User -> Nat] /\ PlanUsed' \in [User -> BOOLEAN] /\ usedCount' \in Nat
      /\ held' \in [PlanIntentId -> {"none", "live", "late"}] /\ payments' \subseteq PlanIntentId
  BY <1>1, <1>6 DEF PlanRows, Plan!CheckoutTypeOK
<1>11. \A k \in PlanIntentId :
         /\ intents[k].state # "none" => intents'[k] = intents[k]
         /\ intents'[k].refunded => intents[k].refunded
  BY <1>2, <1>5, <1>6, CheckoutIdles
<1>9. CASE b
  <2>1. PICK r \in Plan!CheckoutJob : r = PlanJob[w]
    BY <1>1
  <2> DEFINE j == [r EXCEPT !.op = "reserve", !.intent = i]
  <2>2. j \in Plan!CheckoutJob
    BY ReserveJob
  <2>3. j.op = "reserve" /\ j.user = u /\ j.intent = i
    BY <1>3, <2>1 DEF Plan!CheckoutJob
  <2>4. PlanJob' = [PlanJob EXCEPT ![w] = j]
    BY <1>1, <1>2, <1>4, <1>9, <2>1
  <2> HIDE DEF j
  <2>5. PlanJob'[w] = j
    BY <1>1, <2>4
  <2>6. CheckoutJobOK(w)'
    BY <1>5, <1>6, <2>3, <2>5 DEF CheckoutJobOK, Paid
  <2>7. QuietJobs
    BY <1>1, <2>2, <2>3, <2>4, QuietJob
  <2>8. PlanRows'
    BY <1>7, <1>8, <2>2, <2>4, <2>6, StepRows
  <2> QED  BY <1>11, <2>7, <2>8
<1>10. CASE ~ b
  BY <1>2, <1>4, <1>10, <1>1, EndsJob, CheckoutIdles, QuietJob, <1>7, <1>8, StepRows,
     <1>11
<1> QED  BY <1>9, <1>10

LEMMA CancelJob ==
    ASSUME NEW r \in Plan!CheckoutJob, NEW old \in SUBSET PlanIntentId
    PROVE  [r EXCEPT !.op = "cancel", !.old = old] \in Plan!CheckoutJob
BY DEF Plan!CheckoutJob, Plan!CheckoutOps

LEMMA ReserveRows ==
    ASSUME OfCheckout, PlanRows, NEW w \in Worker, Plan!Reserve(w)
    PROVE  /\ PlanRows'
           /\ \E j \in Plan!CheckoutJob : j.op = "cancel" /\ PlanJob' = [PlanJob EXCEPT ![w] = j]
<1>1. /\ UNCHANGED <<plans, PlanUsed, usedCount, intents, payments>> /\ PlanJob[w].op = "reserve"
      /\ PlanJob \in [Worker -> Plan!CheckoutJob] /\ PlanJob[w] \in Plan!CheckoutJob /\ CheckoutJobOK(w)
      /\ intents \in [PlanIntentId -> Plan!Intent] /\ held \in [PlanIntentId -> {"none", "live", "late"}]
  BY DEF Plan!Reserve, PlanRows, Plan!CheckoutTypeOK
<1>2. PlanJob[w].intent \in PlanIntentId /\ \A i : i = PlanJob[w].intent => intents[i].state # "none"
  BY <1>1 DEF CheckoutJobOK
<1>3. PICK old \in SUBSET PlanIntentId : PlanJob' = [PlanJob EXCEPT ![w].op = "cancel", ![w].old = old]
  <2>1. {PlanJob[w].intent} \in SUBSET PlanIntentId
    BY <1>2
  <2>2. {k \in PlanIntentId : held[k] # "none" /\ intents[k].owner = PlanJob[w].user} \in SUBSET PlanIntentId
    OBVIOUS
  <2>3. CASE PlanUsed[PlanJob[w].user] \/ Plan!Sold(PlanJob[w].user)
    <3>1. PlanJob' = [PlanJob EXCEPT ![w].op = "cancel", ![w].old = {PlanJob[w].intent}]
      BY <2>3 DEF Plan!Reserve
    <3> QED  BY <2>1, <3>1, Zenon
  <2>4. CASE ~ (PlanUsed[PlanJob[w].user] \/ Plan!Sold(PlanJob[w].user))
    <3>1. PlanJob' = [PlanJob EXCEPT ![w].op = "cancel",
                     ![w].old = {k \in PlanIntentId : held[k] # "none" /\ intents[k].owner = PlanJob[w].user}]
      BY <2>4, Zenon DEF Plan!Reserve
    <3> QED  BY <2>2, <3>1, Zenon
  <2> QED  BY <2>3, <2>4
<1>4. /\ held' \in [PlanIntentId -> {"none", "live", "late"}]
      /\ \A k \in PlanIntentId : held'[k] # "none" => held[k] # "none" \/ k = PlanJob[w].intent
  BY <1>1 DEF Plan!Reserve
<1>5. \A k \in PlanIntentId : StaysSo(k) /\ intents'[k] \in Plan!Intent /\ IntentOK(k)'
  <2> SUFFICES ASSUME NEW k \in PlanIntentId PROVE StaysSo(k) /\ intents'[k] \in Plan!Intent /\ IntentOK(k)'
    OBVIOUS
  <2>1. IntentOK(k) /\ intents'[k] = intents[k]
    BY <1>1 DEF PlanRows
  <2>2. held'[k] # "none" => intents[k].state # "none"
    BY <1>2, <1>4, <2>1 DEF IntentOK
  <2> QED  BY <1>1, <2>1, <2>2 DEF IntentOK, StaysSo
<1>6. PICK r \in Plan!CheckoutJob : r = PlanJob[w]
  BY <1>1
<1> DEFINE j == [r EXCEPT !.op = "cancel", !.old = old]
<1>7. j \in Plan!CheckoutJob
  BY CancelJob
<1>8. j.op = "cancel"
  BY DEF Plan!CheckoutJob
<1>9. PlanJob' = [PlanJob EXCEPT ![w] = j]
  BY <1>1, <1>3, <1>6
<1> HIDE DEF j
<1>10. PlanJob'[w] = j
  BY <1>1, <1>9
<1>11. CheckoutJobOK(w)'
  BY <1>8, <1>10 DEF CheckoutJobOK, Paid
<1>12. /\ intents' = [k \in PlanIntentId |-> intents'[k]]
       /\ plans' \in [User -> Nat] /\ PlanUsed' \in [User -> BOOLEAN] /\ usedCount' \in Nat
       /\ payments' \subseteq PlanIntentId
  BY <1>1 DEF PlanRows, Plan!CheckoutTypeOK
<1> QED  BY <1>4, <1>5, <1>7, <1>8, <1>9, <1>11, <1>12, StepRows

LEMMA Canceled ==
    ASSUME NEW q \in Plan!Intent
    PROVE  LET r == [q EXCEPT !.state = "canceled"] IN
           /\ r \in Plan!Intent /\ r.state = "canceled" /\ r.owner = q.owner
           /\ (r.coupon <=> q.coupon) /\ (r.seen <=> q.seen) /\ (r.refunded <=> q.refunded)
BY DEF Plan!Intent

(* What a cancellation leaves of a charge *)
LEMMA CancelsOne ==
    ASSUME OfCheckout, PlanRows, NEW w \in Worker, Plan!CancelsOld(w), NEW k \in PlanIntentId
    PROVE  /\ intents'[k] \in Plan!Intent /\ intents'[k].owner = intents[k].owner
           /\ intents'[k].coupon <=> intents[k].coupon
           /\ intents'[k].seen <=> intents[k].seen
           /\ intents'[k].refunded <=> intents[k].refunded
           /\ \/ intents'[k].state = intents[k].state
              \/ intents[k].state = "open" /\ intents'[k].state = "canceled"
<1>1. intents \in [PlanIntentId -> Plan!Intent]
  BY DEF PlanRows, Plan!CheckoutTypeOK
<1>2. \/ intents'[k] = intents[k]
      \/ intents[k].state = "open" /\ intents'[k] = [intents[k] EXCEPT !.state = "canceled"]
  <2>1. PICK gone : intents' = [i \in PlanIntentId |->
                       IF i \in gone /\ intents[i].state = "open"
                       THEN [intents[i] EXCEPT !.state = "canceled"] ELSE intents[i]]
    BY DEF Plan!CancelsOld
  <2> QED  BY <2>1
<1>3. PICK q \in Plan!Intent : q = intents[k]
  BY <1>1
<1>4. CASE intents'[k] = intents[k]
  BY <1>3, <1>4
<1>5. CASE intents[k].state = "open" /\ intents'[k] = [intents[k] EXCEPT !.state = "canceled"]
  BY <1>3, <1>5, Canceled
<1> QED  BY <1>2, <1>4, <1>5

LEMMA CancelsRows ==
    ASSUME OfCheckout, PlanRows, NEW w \in Worker, Plan!CancelsOld(w) PROVE PlanRows'
<1>1. /\ UNCHANGED <<plans, PlanUsed, usedCount, held, payments>> /\ Plan!CheckoutEnds(w)
      /\ PlanJob \in [Worker -> Plan!CheckoutJob]
  BY DEF Plan!CancelsOld, PlanRows, Plan!CheckoutTypeOK
<1>2. \A k \in PlanIntentId : StaysSo(k) /\ intents'[k] \in Plan!Intent /\ IntentOK(k)'
  <2> SUFFICES ASSUME NEW k \in PlanIntentId PROVE StaysSo(k) /\ intents'[k] \in Plan!Intent /\ IntentOK(k)'
    OBVIOUS
  <2>1. IntentOK(k)
    BY DEF PlanRows
  <2> QED  BY <1>1, <2>1, CancelsOne DEF IntentOK, StaysSo
<1>3. /\ intents' = [k \in PlanIntentId |-> intents'[k]]
      /\ plans' \in [User -> Nat] /\ PlanUsed' \in [User -> BOOLEAN] /\ usedCount' \in Nat
      /\ held' \in [PlanIntentId -> {"none", "live", "late"}] /\ payments' \subseteq PlanIntentId
  BY <1>1 DEF Plan!CancelsOld, PlanRows, Plan!CheckoutTypeOK
<1> QED  BY <1>1, <1>2, <1>3, EndsJob, StepRows

(* The two outcomes of a commit *)
Refuses(w) ==
    /\ PlanJob[w].coupon /\ ~ Plan!ClaimOk(PlanJob[w].intent, PlanJob[w].user)
    /\ IF PlanJob[w].intent = None THEN Plan!CheckoutEnds(w) ELSE Plan!Goes(w, "refund")
    /\ UNCHANGED <<plans, PlanUsed, usedCount, intents, payments>>

Takes(w) ==
    /\ PlanJob[w].coupon => Plan!ClaimOk(PlanJob[w].intent, PlanJob[w].user)
    /\ PlanUsed' = [PlanUsed EXCEPT ![PlanJob[w].user] = @ \/ PlanJob[w].coupon]
    /\ usedCount' = IF PlanJob[w].coupon THEN usedCount + 1 ELSE usedCount
    /\ \E n \in {1, plans[PlanJob[w].user] + 1} : plans' = [plans EXCEPT ![PlanJob[w].user] = n]
    /\ payments' = payments \cup ({PlanJob[w].intent} \ {None})
    /\ intents' = IF PlanJob[w].intent = None THEN intents
                  ELSE [intents EXCEPT ![PlanJob[w].intent].seen = TRUE]
    /\ Plan!CheckoutEnds(w)

LEMMA CommitKinds ==
    ASSUME NEW w \in Worker, Plan!ActivateCommits(w)
    PROVE  /\ PlanJob[w].op = "commit"
           /\ held' = IF PlanJob[w].intent # None /\ PlanJob[w].coupon
                      THEN [held EXCEPT ![PlanJob[w].intent] = "none"] ELSE held
           /\ Refuses(w) \/ Takes(w)
BY DEF Plan!ActivateCommits, Refuses, Takes

LEMMA Seen ==
    ASSUME NEW q \in Plan!Intent
    PROVE  LET r == [q EXCEPT !.seen = TRUE] IN
           /\ r \in Plan!Intent /\ r.state = q.state /\ r.owner = q.owner
           /\ (r.coupon <=> q.coupon) /\ r.seen /\ (r.refunded <=> q.refunded)
BY DEF Plan!Intent

LEMMA GivenBack ==
    ASSUME NEW q \in Plan!Intent
    PROVE  LET r == [q EXCEPT !.refunded = TRUE, !.seen = TRUE] IN
           /\ r \in Plan!Intent /\ r.state = q.state /\ r.owner = q.owner
           /\ (r.coupon <=> q.coupon) /\ r.seen /\ r.refunded
BY DEF Plan!Intent

(* What a commit does to a charge *)
LEMMA TakesOne ==
    ASSUME OfCheckout, PlanRows, NEW w \in Worker, Takes(w), NEW k \in PlanIntentId
    PROVE  /\ intents'[k] \in Plan!Intent /\ intents'[k].owner = intents[k].owner
           /\ intents'[k].state = intents[k].state
           /\ intents'[k].coupon <=> intents[k].coupon
           /\ intents'[k].refunded <=> intents[k].refunded
           /\ intents'[k].seen <=> intents[k].seen \/ k = PlanJob[w].intent
<1>1. intents \in [PlanIntentId -> Plan!Intent] /\ None \notin PlanIntentId
  BY DEF PlanRows, Plan!CheckoutTypeOK, OfCheckout
<1>2. /\ k = PlanJob[w].intent => intents'[k] = [intents[k] EXCEPT !.seen = TRUE]
      /\ k # PlanJob[w].intent => intents'[k] = intents[k]
  BY <1>1 DEF Takes
<1>3. PICK q \in Plan!Intent : q = intents[k]
  BY <1>1
<1> QED  BY <1>2, <1>3, Seen

(* What it does to who uses the coupon *)
LEMMA TakesUsed ==
    ASSUME OfCheckout, PlanRows, NEW w \in Worker, Takes(w), PlanJob[w].user \in User,
           NEW u \in User
    PROVE  /\ PlanUsed'[u] \in BOOLEAN /\ PlanUsed[u] \in BOOLEAN
           /\ PlanUsed'[u] <=> PlanUsed[u] \/ (u = PlanJob[w].user /\ PlanJob[w].coupon)
BY DEF PlanRows, Plan!CheckoutTypeOK, Plan!CheckoutJob, Takes

LEMMA TakesRows ==
    ASSUME OfCheckout, PlanRows, NEW w \in Worker, Plan!ActivateCommits(w), Takes(w) PROVE PlanRows'
<1>1. /\ Plan!CheckoutEnds(w) /\ PlanJob[w].op = "commit" /\ CheckoutJobOK(w) /\ PlanJob[w].user \in User
      /\ PlanJob \in [Worker -> Plan!CheckoutJob] /\ PlanJob[w].intent \in PlanIntentId \cup {None}
      /\ held \in [PlanIntentId -> {"none", "live", "late"}]
  BY CommitKinds DEF Takes, PlanRows, Plan!CheckoutTypeOK, Plan!CheckoutJob, CheckoutJobOK
<1>2. /\ held' \in [PlanIntentId -> {"none", "live", "late"}]
      /\ \A k \in PlanIntentId : held'[k] # "none" => held[k] # "none"
  BY CommitKinds, <1>1
<1>3. \A k \in PlanIntentId : StaysSo(k) /\ intents'[k] \in Plan!Intent /\ IntentOK(k)'
  <2> SUFFICES ASSUME NEW k \in PlanIntentId PROVE StaysSo(k) /\ intents'[k] \in Plan!Intent /\ IntentOK(k)'
    OBVIOUS
  <2>1. IntentOK(k) /\ payments' = payments \cup ({PlanJob[w].intent} \ {None}) /\ k # None
    BY DEF PlanRows, Takes, OfCheckout
  <2>2. /\ intents'[k] \in Plan!Intent /\ intents'[k].owner = intents[k].owner
        /\ intents'[k].state = intents[k].state
        /\ intents'[k].coupon <=> intents[k].coupon
        /\ intents'[k].refunded <=> intents[k].refunded
        /\ intents'[k].seen <=> intents[k].seen \/ k = PlanJob[w].intent
    BY TakesOne
  <2>3. k = PlanJob[w].intent => /\ intents[k].state = "succeeded" /\ intents[k].owner = PlanJob[w].user
                                 /\ intents[k].coupon <=> PlanJob[w].coupon
    BY <1>1, <2>1 DEF CheckoutJobOK, Paid
  <2>4. k \in payments' => (intents[k].coupon => PlanUsed'[intents[k].owner])
    BY <1>1, <2>1, <2>3, TakesUsed DEF IntentOK
  <2>5. StaysSo(k)
    BY <2>2 DEF StaysSo
  <2>6. IntentOK(k)'
    BY <1>2, <2>1, <2>2, <2>3, <2>4 DEF IntentOK
  <2> QED  BY <2>2, <2>5, <2>6
<1>4. plans' \in [User -> Nat] /\ PlanUsed' \in [User -> BOOLEAN] /\ usedCount' \in Nat
  BY <1>1 DEF PlanRows, Plan!CheckoutTypeOK, Plan!CheckoutJob, Takes
<1>5. intents' = [k \in PlanIntentId |-> intents'[k]] /\ payments' \subseteq PlanIntentId
  BY <1>1 DEF PlanRows, Plan!CheckoutTypeOK, Takes
<1> QED  BY <1>1, <1>2, <1>3, <1>4, <1>5, EndsJob, StepRows

LEMMA RefusesRows ==
    ASSUME OfCheckout, PlanRows, NEW w \in Worker, Plan!ActivateCommits(w), Refuses(w) PROVE PlanRows'
<1>1. /\ PlanJob[w].op = "commit" /\ CheckoutJobOK(w) /\ PlanJob \in [Worker -> Plan!CheckoutJob]
      /\ PlanJob[w] \in Plan!CheckoutJob /\ PlanJob[w].intent \in PlanIntentId \cup {None}
      /\ held \in [PlanIntentId -> {"none", "live", "late"}]
      /\ UNCHANGED <<plans, PlanUsed, usedCount, intents, payments>>
  BY CommitKinds DEF Refuses, PlanRows, Plan!CheckoutTypeOK, Plan!CheckoutJob
<1>2. /\ held' \in [PlanIntentId -> {"none", "live", "late"}]
      /\ \A k \in PlanIntentId : held'[k] # "none" => held[k] # "none"
  BY CommitKinds, <1>1
<1>3. \A k \in PlanIntentId : StaysSo(k) /\ intents'[k] \in Plan!Intent /\ IntentOK(k)'
  <2> SUFFICES ASSUME NEW k \in PlanIntentId PROVE StaysSo(k) /\ intents'[k] \in Plan!Intent /\ IntentOK(k)'
    OBVIOUS
  <2>1. IntentOK(k) /\ intents'[k] = intents[k] /\ intents[k] \in Plan!Intent
    BY <1>1 DEF PlanRows, Plan!CheckoutTypeOK
  <2> QED  BY <1>1, <1>2, <2>1 DEF IntentOK, StaysSo
<1>4. /\ intents' = [k \in PlanIntentId |-> intents'[k]]
      /\ plans' \in [User -> Nat] /\ PlanUsed' \in [User -> BOOLEAN] /\ usedCount' \in Nat
      /\ payments' \subseteq PlanIntentId
  BY <1>1 DEF PlanRows, Plan!CheckoutTypeOK
<1>5. CASE Plan!CheckoutEnds(w)
  BY <1>1, <1>2, <1>3, <1>4, <1>5, EndsJob, StepRows
<1>6. CASE Plan!Goes(w, "refund") /\ PlanJob[w].intent # None
  <2>1. PICK op \in Plan!CheckoutOps : op = "refund"
    BY DEF Plan!CheckoutOps
  <2>2. PICK j \in Plan!CheckoutJob : /\ j = [PlanJob[w] EXCEPT !.op = op] /\ j.op = op
                                      /\ j.user = PlanJob[w].user /\ j.intent = PlanJob[w].intent
                                      /\ (j.coupon <=> PlanJob[w].coupon)
    <3>1. PlanJob[w] \in Plan!CheckoutJob
      BY <1>1
    <3> QED  BY <3>1, GoesJob
  <2>3. PlanJob' = [PlanJob EXCEPT ![w] = j]
    BY <1>1, <1>6, <2>1, <2>2 DEF Plan!Goes
  <2>4. PlanJob'[w] = j
    BY <1>1, <2>3
  <2>5. CheckoutJobOK(w)'
    BY <1>1, <1>6, <2>1, <2>2, <2>4 DEF CheckoutJobOK, Paid
  <2> QED  BY <1>2, <1>3, <1>4, <2>3, <2>5, StepRows
<1> QED  BY <1>5, <1>6 DEF Refuses

(* What a refund does to a charge *)
LEMMA RefundsOne ==
    ASSUME OfCheckout, PlanRows, NEW w \in Worker, Plan!Refund(w), NEW k \in PlanIntentId
    PROVE  /\ intents'[k] \in Plan!Intent /\ intents'[k].owner = intents[k].owner
           /\ intents'[k].state = intents[k].state
           /\ intents'[k].coupon <=> intents[k].coupon
           /\ \/ /\ intents'[k].refunded <=> intents[k].refunded
                 /\ intents'[k].seen <=> intents[k].seen
              \/ k = PlanJob[w].intent /\ intents'[k].refunded /\ intents'[k].seen
<1>1. intents \in [PlanIntentId -> Plan!Intent]
  BY DEF PlanRows, Plan!CheckoutTypeOK
<1>2. \/ intents'[k] = intents[k]
      \/ k = PlanJob[w].intent /\ intents'[k] = [intents[k] EXCEPT !.refunded = TRUE, !.seen = TRUE]
  BY <1>1 DEF Plan!Refund
<1>3. PICK q \in Plan!Intent : q = intents[k]
  BY <1>1
<1>4. CASE intents'[k] = intents[k]
  BY <1>3, <1>4
<1>5. CASE k = PlanJob[w].intent /\ intents'[k] = [intents[k] EXCEPT !.refunded = TRUE, !.seen = TRUE]
  BY <1>3, <1>5, GivenBack
<1> QED  BY <1>2, <1>4, <1>5

LEMMA RefundRows ==
    ASSUME OfCheckout, PlanRows, NEW w \in Worker, Plan!Refund(w) PROVE PlanRows'
<1>1. /\ UNCHANGED <<plans, PlanUsed, usedCount, held, payments>> /\ Plan!CheckoutEnds(w)
      /\ PlanJob \in [Worker -> Plan!CheckoutJob] /\ PlanJob[w].op = "refund" /\ CheckoutJobOK(w)
      /\ PlanJob[w].intent \in PlanIntentId \cup {None}
  BY DEF Plan!Refund, PlanRows, Plan!CheckoutTypeOK, Plan!CheckoutJob
<1>2. \A k \in PlanIntentId : StaysSo(k) /\ intents'[k] \in Plan!Intent /\ IntentOK(k)'
  <2> SUFFICES ASSUME NEW k \in PlanIntentId PROVE StaysSo(k) /\ intents'[k] \in Plan!Intent /\ IntentOK(k)'
    OBVIOUS
  <2>1. IntentOK(k)
    BY DEF PlanRows
  <2>2. k = PlanJob[w].intent => intents[k].state = "succeeded"
    BY <1>1 DEF CheckoutJobOK, Paid
  <2> QED  BY <1>1, <2>1, <2>2, RefundsOne DEF IntentOK, StaysSo
<1>3. /\ intents' = [k \in PlanIntentId |-> intents'[k]]
      /\ plans' \in [User -> Nat] /\ PlanUsed' \in [User -> BOOLEAN] /\ usedCount' \in Nat
      /\ held' \in [PlanIntentId -> {"none", "live", "late"}] /\ payments' \subseteq PlanIntentId
  BY <1>1 DEF PlanRows, Plan!CheckoutTypeOK, Plan!Refund
<1> QED  BY <1>1, <1>2, <1>3, EndsJob, StepRows

LEMMA NextRows ==
    ASSUME OfCheckout, PlanRows, Plan!CheckoutNext PROVE PlanRows'
BY ClocksRows, PaysRows, CreatesRows, ReserveRows, CancelsRows, ActivateReadsRows,
   RefundRows, ConfirmRows, CommitKinds, TakesRows, RefusesRows, CheckoutReadsRows
   DEF Plan!CheckoutNext

----------------------------------------------------------------------------
(* The coupon *)

Users == {u \in User : PlanUsed[u]}

(* Live reservations of those who may still use it *)
Usable == {i \in PlanIntentId : held[i] = "live" /\ ~ PlanUsed[intents[i].owner]}

Coupons ==
    /\ usedCount = Cardinality(Users)
    /\ usedCount + Cardinality(Usable) <= MaxUses

LEMMA Finites ==
    OfCheckout => /\ IsFiniteSet(Users) /\ Cardinality(Users) \in Nat
                  /\ IsFiniteSet(Usable) /\ Cardinality(Usable) \in Nat
                  /\ \A u : IsFiniteSet(Plan!HeldByOthers(u)) /\ Cardinality(Plan!HeldByOthers(u)) \in Nat
<1> SUFFICES ASSUME OfCheckout
             PROVE  /\ IsFiniteSet(Users) /\ IsFiniteSet(Usable)
                    /\ \A u : IsFiniteSet(Plan!HeldByOthers(u))
  BY FS_CardinalityType
<1>1. IsFiniteSet(Users)
  BY FS_Subset DEF OfCheckout, Users
<1>2. IsFiniteSet(Usable)
  BY FS_Subset DEF OfCheckout, Usable
<1>3. \A u : IsFiniteSet(Plan!HeldByOthers(u))
  BY FS_Subset DEF OfCheckout, Plan!HeldByOthers
<1> QED  BY <1>1, <1>2, <1>3

(* Nobody uses the coupon and no reservation becomes live. *)
LEMMA SameUses ==
    ASSUME OfCheckout, Coupons, usedCount' = usedCount, \A u \in User : PlanUsed'[u] <=> PlanUsed[u],
           \A i \in PlanIntentId : held'[i] = "live" =>
             held[i] = "live" /\ intents'[i].owner = intents[i].owner /\ intents[i].owner \in User
    PROVE  Coupons'
BY Finites, FS_Subset, FS_CardinalityType DEF Users, Usable, Coupons, OfCheckout

LEMMA LiveOwned ==
    ASSUME PlanRows, NEW i \in PlanIntentId, held[i] = "live"
    PROVE  intents[i].owner \in User /\ intents[i].state # "none"
BY DEF PlanRows, IntentOK

LEMMA ReserveCoupons ==
    ASSUME OfCheckout, PlanRows, Coupons, NEW w \in Worker, Plan!Reserve(w) PROVE Coupons'
<1>1. /\ UNCHANGED <<PlanUsed, usedCount, intents>> /\ PlanJob[w].op = "reserve" /\ CheckoutJobOK(w)
      /\ held \in [PlanIntentId -> {"none", "live", "late"}]
  BY DEF Plan!Reserve, PlanRows, Plan!CheckoutTypeOK
<1> DEFINE i == PlanJob[w].intent
           u == PlanJob[w].user
<1>2. i \in PlanIntentId /\ u \in User
  BY <1>1 DEF CheckoutJobOK
<1>3. CASE PlanUsed[u] \/ Plan!Sold(u)
  BY <1>3, <1>1, SameUses, LiveOwned DEF Plan!Reserve
<1>4. CASE ~ (PlanUsed[u] \/ Plan!Sold(u))
  <2>1. held' = [k \in PlanIntentId |->
                   IF k = i THEN "live"
                   ELSE IF k \in {n \in PlanIntentId : held[n] # "none" /\ intents[n].owner = u}
                        THEN "none" ELSE held[k]]
    BY <1>4 DEF Plan!Reserve
  <2>2. Usable' \subseteq Plan!HeldByOthers(u) \cup {i}
    BY <1>1, <2>1 DEF Usable, Plan!HeldByOthers
  <2>3. IsFiniteSet(Plan!HeldByOthers(u)) /\ Cardinality(Plan!HeldByOthers(u)) \in Nat
    BY Finites
  <2>4. /\ IsFiniteSet(Plan!HeldByOthers(u) \cup {i})
        /\ Cardinality(Plan!HeldByOthers(u) \cup {i}) <= Cardinality(Plan!HeldByOthers(u)) + 1
    <3> DEFINE H == Plan!HeldByOthers(u)
    <3>1. IsFiniteSet(H) /\ Cardinality(H) \in Nat
      BY <2>3
    <3> HIDE DEF H
    <3>2. IsFiniteSet(H \cup {i})
      BY <3>1, FS_AddElement
    <3>3. \/ Cardinality(H \cup {i}) = Cardinality(H)
          \/ Cardinality(H \cup {i}) = Cardinality(H) + 1
      BY <3>1, FS_AddElement
    <3>4. Cardinality(H \cup {i}) <= Cardinality(H) + 1
      BY <3>1, <3>3
    <3> QED  BY <3>2, <3>4 DEF H
  <2>5. Cardinality(Usable') <= Cardinality(Plan!HeldByOthers(u) \cup {i}) /\ Cardinality(Usable') \in Nat
        /\ Cardinality(Plan!HeldByOthers(u) \cup {i}) \in Nat
    BY <2>2, <2>4, FS_Subset, FS_CardinalityType
  <2>6. usedCount \in Nat /\ MaxUses \in Nat
    BY DEF PlanRows, Plan!CheckoutTypeOK, OfCheckout
  <2>7. usedCount + Cardinality(Plan!HeldByOthers(u)) < MaxUses
    BY PlanCounts, <1>4, <2>3, <2>6 DEF Plan!Sold
  <2>8. usedCount' + Cardinality(Usable') <= MaxUses
    BY <1>1, <2>3, <2>4, <2>5, <2>6, <2>7
  <2>9. usedCount' = Cardinality(Users')
    BY <1>1 DEF Users, Coupons
  <2> QED  BY <2>8, <2>9 DEF Coupons
<1> QED  BY <1>3, <1>4

LEMMA TakesCoupons ==
    ASSUME OfCheckout, PlanRows, Coupons, NEW w \in Worker, Plan!ActivateCommits(w), Takes(w)
    PROVE  Coupons'
<1> DEFINE i == PlanJob[w].intent
           u == PlanJob[w].user
<1>1. /\ PlanJob[w].op = "commit" /\ CheckoutJobOK(w) /\ u \in User
      /\ i \in PlanIntentId \cup {None} /\ PlanJob[w].coupon \in BOOLEAN
      /\ held \in [PlanIntentId -> {"none", "live", "late"}] /\ usedCount \in Nat /\ MaxUses \in Nat
  BY CommitKinds
     DEF PlanRows, Plan!CheckoutTypeOK, Plan!CheckoutJob, CheckoutJobOK, OfCheckout
<1>2. \A k \in PlanIntentId : intents'[k].owner = intents[k].owner
  BY TakesOne
<1>3. /\ \A k \in PlanIntentId : held'[k] = "live" => held[k] = "live"
      /\ i \in PlanIntentId /\ PlanJob[w].coupon => held'[i] # "live"
  BY CommitKinds, <1>1 DEF OfCheckout
<1>4. \A v \in User : PlanUsed'[v] <=> PlanUsed[v] \/ (v = u /\ PlanJob[w].coupon)
  BY <1>1, TakesUsed
<1>5. CASE ~ PlanJob[w].coupon
  BY <1>5, <1>2, <1>3, <1>4, SameUses, LiveOwned DEF Takes
<1>6. CASE PlanJob[w].coupon
  <2>1. Plan!ClaimOk(i, u) /\ usedCount' = usedCount + 1
    BY <1>6 DEF Takes
  <2>2. ~ PlanUsed[u]
    BY <2>1 DEF Plan!ClaimOk
  <2>3. Users' = Users \cup {u} /\ u \notin Users
    BY <1>1, <1>4, <1>6, <2>2 DEF Users
  <2>4. Cardinality(Users') = Cardinality(Users) + 1
    BY <2>3, Finites, FS_AddElement
  <2>5. usedCount' = Cardinality(Users')
    BY <2>1, <2>4 DEF Coupons
  <2>6. \A k \in Usable' : k \in Usable /\ intents[k].owner # u /\ k # i
    <3> SUFFICES ASSUME NEW k \in PlanIntentId, held'[k] = "live", ~ PlanUsed'[intents'[k].owner]
                 PROVE  k \in Usable /\ intents[k].owner # u /\ k # i
      BY DEF Usable
    <3>1. held[k] = "live" /\ intents[k].owner \in User /\ ~ PlanUsed'[intents[k].owner]
      BY <1>2, <1>3, LiveOwned
    <3>2. ~ PlanUsed[intents[k].owner] /\ intents[k].owner # u
      BY <1>1, <1>4, <1>6, <3>1
    <3>3. k # i
      BY <1>3, <1>6
    <3> QED  BY <3>1, <3>2, <3>3 DEF Usable
  <2>7. usedCount + 1 + Cardinality(Usable') <= MaxUses
    <3>1. CASE i # None /\ held[i] = "live"
      <4>1. i \in Usable
        BY <1>1, <1>6, <2>2, <3>1 DEF Usable, CheckoutJobOK, Paid
      <4>2. Usable' \subseteq Usable \ {i}
        BY <2>6
      <4>3. IsFiniteSet(Usable) /\ Cardinality(Usable) \in Nat
        BY Finites
      <4>4. IsFiniteSet(Usable \ {i}) /\ Cardinality(Usable \ {i}) = Cardinality(Usable) - 1
        BY <4>1, <4>3, FS_RemoveElement
      <4>5. Cardinality(Usable') <= Cardinality(Usable \ {i}) /\ Cardinality(Usable') \in Nat
        BY <4>2, <4>4, FS_Subset, FS_CardinalityType
      <4>6. usedCount + Cardinality(Usable) <= MaxUses
        BY DEF Coupons
      <4> QED  BY <1>1, <4>3, <4>4, <4>5, <4>6
    <3>2. CASE ~ Plan!Sold(u)
      <4>1. Usable' \subseteq Plan!HeldByOthers(u)
        BY <2>6 DEF Usable, Plan!HeldByOthers
      <4>2. IsFiniteSet(Plan!HeldByOthers(u)) /\ Cardinality(Plan!HeldByOthers(u)) \in Nat
        BY Finites
      <4>3. Cardinality(Usable') <= Cardinality(Plan!HeldByOthers(u)) /\ Cardinality(Usable') \in Nat
        BY <4>1, <4>2, FS_Subset, FS_CardinalityType
      <4>4. usedCount + Cardinality(Plan!HeldByOthers(u)) < MaxUses
        BY PlanCounts, <1>1, <3>2, <4>2 DEF Plan!Sold
      <4> QED  BY <1>1, <4>2, <4>3, <4>4
    <3> QED  BY <2>1, <3>1, <3>2 DEF Plan!ClaimOk
  <2> QED  BY <2>1, <2>5, <2>7 DEF Coupons
<1> QED  BY <1>1, <1>5, <1>6

LEMMA NextCoupons ==
    ASSUME OfCheckout, PlanRows, Coupons, Plan!CheckoutNext PROVE Coupons'
<1>1. ASSUME NEW i \in PlanIntentId, Plan!ReservationExpires(i) PROVE Coupons'
  BY <1>1, SameUses, LiveOwned DEF Plan!ReservationExpires, PlanRows, Plan!CheckoutTypeOK
<1>2. ASSUME NEW i \in PlanIntentId, Plan!Pays(i) PROVE Coupons'
  BY <1>2, SameUses, LiveOwned DEF Plan!Pays, PlanRows, Plan!CheckoutTypeOK, Plan!Intent
<1>3. ASSUME NEW u \in User, Plan!PlanEnds(u) PROVE Coupons'
  BY <1>3, SameUses, LiveOwned DEF Plan!PlanEnds
<1>4. ASSUME NEW w \in Worker, Plan!CreatesIntent(w) PROVE Coupons'
  BY <1>4, LiveOwned, CheckoutIdles, SameUses
     DEF Plan!CreatesIntent, PlanRows, Plan!CheckoutTypeOK
<1>5. ASSUME NEW w \in Worker, Plan!Reserve(w) PROVE Coupons'
  BY <1>5, ReserveCoupons
<1>6. ASSUME NEW w \in Worker, Plan!CancelsOld(w) PROVE Coupons'
  BY <1>6, CancelsOne, SameUses, LiveOwned DEF Plan!CancelsOld
<1>7. ASSUME NEW w \in Worker, Plan!Refund(w) PROVE Coupons'
  BY <1>7, RefundsOne, SameUses, LiveOwned DEF Plan!Refund
<1>8. ASSUME UNCHANGED <<plans, PlanUsed, usedCount, held, intents, payments>> PROVE Coupons'
  BY <1>8, SameUses, LiveOwned
<1>9. ASSUME NEW w \in Worker, Plan!ActivateCommits(w) PROVE Coupons'
  BY <1>9, CommitKinds, SameUses, LiveOwned, TakesCoupons
     DEF Refuses, PlanRows, Plan!CheckoutTypeOK
<1> QED
  <2>1. CASE \E w \in Worker : Plan!ActivateReads(w) \/ \E i \in PlanIntentId : Plan!Confirm(w, i)
    BY <1>8, <2>1 DEF Plan!ActivateReads, Plan!Confirm
  <2>2. CASE \E w \in Worker, u \in User, coupon \in BOOLEAN, covers \in BOOLEAN :
               Plan!CheckoutReads(w, u, coupon, covers)
    BY <1>8, <2>2 DEF Plan!CheckoutReads
  <2> QED  BY <1>1, <1>2, <1>3, <1>4, <1>5, <1>6, <1>7, <1>9, <2>1, <2>2
              DEF Plan!CheckoutNext

LEMMA StutterCheckout ==
    ASSUME OfCheckout, PlanRows, Coupons, UNCHANGED Plan!vars PROVE PlanRows' /\ Coupons'
BY SameUses, LiveOwned
   DEF Plan!vars, PlanRows, Plan!CheckoutTypeOK, IntentOK, CheckoutJobOK, Paid

LEMMA CheckoutOnly ==
    OfCheckout => /\ Plan!Init => Plan!CheckoutInit
                  /\ [Plan!Next]_(Plan!vars) => Plan!CheckoutNext \/ UNCHANGED Plan!vars
BY DEF OfCheckout, Plan!Init, Plan!Next

LEMMA InitCoupons == OfCheckout /\ Plan!Init => Coupons
<1> SUFFICES ASSUME OfCheckout, Plan!Init PROVE Coupons
  OBVIOUS
<1>1. PlanRows /\ Plan!CheckoutInit
  BY InitRows
<1>2. Users = {} /\ Usable = {} /\ usedCount = 0
  BY <1>1 DEF Plan!CheckoutInit, Users, Usable
<1> QED  BY <1>2, FS_EmptySet DEF Coupons, OfCheckout

(* However checkouts, deadlines and payments interleave, the coupon is used *)
(* at most maxUses times and once per user (CouponsService.reserve,         *)
(* claimUse).                                                               *)
THEOREM PlanCouponWithinLimit == OfCheckout => (Plan!Spec => []Plan!CouponWithinLimit)
<1> SUFFICES ASSUME OfCheckout PROVE Plan!Spec => []Plan!CouponWithinLimit
  OBVIOUS
<1>1. Plan!Init => PlanRows /\ Coupons
  BY InitRows, InitCoupons
<1>2. PlanRows /\ Coupons /\ [Plan!Next]_(Plan!vars) => (PlanRows /\ Coupons)'
  BY CheckoutOnly, NextRows, NextCoupons, StutterCheckout
<1>3. PlanRows /\ Coupons => Plan!CouponWithinLimit
  <2> SUFFICES ASSUME PlanRows, Coupons PROVE Plan!CouponWithinLimit
    OBVIOUS
  <2>1. Cardinality(Usable) \in Nat /\ usedCount \in Nat /\ MaxUses \in Nat
    BY Finites DEF PlanRows, Plan!CheckoutTypeOK, OfCheckout
  <2>2. usedCount <= MaxUses
    BY <2>1 DEF Coupons
  <2> QED  BY PlanCounts, <2>2 DEF Coupons, Plan!CouponWithinLimit, Users
<1> QED  BY <1>1, <1>2, <1>3, PTL DEF Plan!Spec

----------------------------------------------------------------------------
(* What became of a payment *)

On(w, ops, i) == PlanJob[w].op \in ops /\ PlanJob[w].intent = i

(* Nothing can activate a plan with this charge any more. *)
Doomed(i) ==
    \/ /\ plans[intents[i].owner] > 0
       /\ \A w \in Worker : ~ On(w, {"commit"}, i)
    \/ intents[i].coupon /\ held[i] = "none"

Settled1(i) ==
    /\ i \in payments =>
         /\ ~ intents[i].refunded
         /\ \A w \in Worker : ~ On(w, {"commit", "refund"}, i)
    /\ (intents[i].refunded \/ \E w \in Worker : On(w, {"refund"}, i)) => Doomed(i)
    /\ \A v, w \in Worker : On(v, {"commit"}, i) /\ On(w, {"commit"}, i) => v = w

Settles == \A i \in PlanIntentId : Settled1(i)

(* A charge on which somebody counts was paid. *)
LEMMA PaidCharge ==
    ASSUME PlanRows, NEW i \in PlanIntentId, NEW w \in Worker, On(w, {"activate", "commit", "refund"}, i), None \notin PlanIntentId
    PROVE  /\ intents[i].state = "succeeded" /\ intents[i].owner = PlanJob[w].user
           /\ intents[i].coupon <=> PlanJob[w].coupon
BY DEF PlanRows, CheckoutJobOK, Paid, On

(* The plans and the reservations of a charge that was paid only go one way. *)
Onwards(k) ==
    /\ intents[k].state # "none" => /\ intents'[k].owner = intents[k].owner
                                    /\ intents'[k].coupon <=> intents[k].coupon
    /\ intents[k].state = "succeeded" /\ plans[intents[k].owner] > 0 => plans'[intents[k].owner] > 0
    /\ intents[k].state = "succeeded" /\ held[k] = "none" => held'[k] = "none"

(* Who neither begins to commit nor to refund *)
LEMMA QuietSettles ==
    ASSUME OfCheckout, PlanRows, Settles, payments' = payments,
           \A v \in Worker : PlanJob'[v] = PlanJob[v] \/ PlanJob'[v].op \notin {"commit", "refund"},
           \A k \in PlanIntentId :
             /\ Onwards(k)
             /\ intents'[k].refunded => intents[k].refunded \/ \E v \in Worker : On(v, {"refund"}, k)
    PROVE  Settles'
<1> SUFFICES ASSUME NEW k \in PlanIntentId PROVE Settled1(k)'
  BY DEF Settles
<1>1. Settled1(k) /\ Onwards(k) /\ IntentOK(k) /\ None \notin PlanIntentId
  BY DEF Settles, PlanRows, OfCheckout
<1>2. \A v \in Worker : /\ On(v, {"commit"}, k)' => On(v, {"commit"}, k)
                        /\ On(v, {"refund"}, k)' => On(v, {"refund"}, k)
                        /\ On(v, {"commit", "refund"}, k)' => On(v, {"commit", "refund"}, k)
  BY DEF On
<1>3. \A v \in Worker : On(v, {"refund"}, k) => On(v, {"commit", "refund"}, k)
  BY DEF On
<1>4. k \in payments' => /\ ~ intents'[k].refunded
                         /\ \A w \in Worker : ~ On(w, {"commit", "refund"}, k)'
  BY <1>1, <1>2, <1>3 DEF Settled1
<1>5. ASSUME intents'[k].refunded \/ \E w \in Worker : On(w, {"refund"}, k)'
      PROVE  Doomed(k)'
  BY <1>2, <1>5, <1>1, PaidCharge DEF Settled1, On, IntentOK, Doomed, Onwards
<1>6. \A v, w \in Worker : On(v, {"commit"}, k)' /\ On(w, {"commit"}, k)' => v = w
  BY <1>1, <1>2 DEF Settled1
<1> QED  BY <1>4, <1>5, <1>6 DEF Settled1

LEMMA MovesJob ==
    ASSUME PlanRows, NEW w \in Worker, NEW op \in Plan!CheckoutOps, Plan!Goes(w, op)
    PROVE  /\ PlanJob'[w].op = op /\ PlanJob'[w].user = PlanJob[w].user /\ PlanJob'[w].intent = PlanJob[w].intent
           /\ PlanJob'[w].coupon <=> PlanJob[w].coupon
           /\ \A v \in Worker : v # w => PlanJob'[v] = PlanJob[v]
<1>1. PlanJob \in [Worker -> Plan!CheckoutJob]
  BY DEF PlanRows, Plan!CheckoutTypeOK
<1>2. PlanJob[w] \in Plan!CheckoutJob
  BY <1>1
<1>3. PICK j \in Plan!CheckoutJob : /\ j = [PlanJob[w] EXCEPT !.op = op] /\ j.op = op /\ j.user = PlanJob[w].user
                                    /\ j.intent = PlanJob[w].intent /\ (j.coupon <=> PlanJob[w].coupon)
  BY <1>2, GoesJob
<1>4. PlanJob' = [PlanJob EXCEPT ![w] = j]
  BY <1>1, <1>3 DEF Plan!Goes
<1> QED  BY <1>1, <1>3, <1>4

LEMMA EndedJob ==
    ASSUME OfCheckout, PlanRows, NEW w \in Worker, Plan!CheckoutEnds(w)
    PROVE  PlanJob'[w].op = "idle" /\ \A v \in Worker : v # w => PlanJob'[v] = PlanJob[v]
BY CheckoutIdles DEF PlanRows, Plan!CheckoutTypeOK, Plan!CheckoutEnds

LEMMA SameOnwards ==
    ASSUME UNCHANGED <<plans, held, intents>>, NEW k \in PlanIntentId
    PROVE  Onwards(k)
BY DEF Onwards

LEMMA QuietSteps ==
    ASSUME OfCheckout, PlanRows, Settles, NEW w \in Worker,
           \/ Plan!CreatesIntent(w) \/ Plan!Reserve(w) \/ Plan!CancelsOld(w) \/ Plan!Refund(w)
           \/ \E i \in PlanIntentId : Plan!Confirm(w, i)
           \/ \E u \in User, coupon \in BOOLEAN, covers \in BOOLEAN : Plan!CheckoutReads(w, u, coupon, covers)
           \/ /\ Plan!ActivateReads(w) /\ Plan!CheckoutEnds(w)
           \/ /\ Plan!ActivateCommits(w) /\ Refuses(w) /\ PlanJob[w].intent = None
    PROVE  Settles'
<1>1. /\ PlanJob \in [Worker -> Plan!CheckoutJob] /\ held \in [PlanIntentId -> {"none", "live", "late"}]
      /\ intents \in [PlanIntentId -> Plan!Intent]
  BY DEF PlanRows, Plan!CheckoutTypeOK
<1>2. CASE Plan!CreatesIntent(w)
  BY <1>2, CreatesRows, QuietSettles DEF Plan!CreatesIntent, QuietJobs, Onwards
<1>3. CASE Plan!Reserve(w)
  <2>1. UNCHANGED <<plans, intents, payments>> /\ PlanJob[w].op = "reserve" /\ CheckoutJobOK(w)
    BY <1>3 DEF Plan!Reserve, PlanRows
  <2>2. \A v \in Worker : PlanJob'[v] = PlanJob[v] \/ PlanJob'[v].op \notin {"commit", "refund"}
    BY <1>1, <1>3, ReserveRows
  <2>3. \A k \in PlanIntentId : intents[k].state = "succeeded" /\ held[k] = "none" => held'[k] = "none"
    <3> SUFFICES ASSUME NEW k \in PlanIntentId, intents[k].state = "succeeded", held[k] = "none"
                 PROVE  held'[k] = "none"
      OBVIOUS
    <3>1. k # PlanJob[w].intent
      BY <2>1 DEF CheckoutJobOK
    <3> QED  BY <1>1, <1>3, <3>1 DEF Plan!Reserve
  <2>4. \A k \in PlanIntentId : Onwards(k)
    BY <2>1, <2>3 DEF Onwards
  <2> QED  BY <2>1, <2>2, <2>4, QuietSettles
<1>4. CASE Plan!CancelsOld(w)
  BY <1>4, CancelsOne, EndedJob, QuietSettles DEF Plan!CancelsOld, Onwards
<1>5. CASE Plan!Refund(w)
  BY <1>5, RefundsOne, EndedJob, QuietSettles DEF Plan!Refund, Onwards, On
<1>6. CASE \E i \in PlanIntentId : Plan!Confirm(w, i)
  BY <1>6, ConfirmRows, SameOnwards, QuietSettles DEF Plan!Confirm, QuietJobs
<1>7. CASE \E u \in User, coupon \in BOOLEAN, covers \in BOOLEAN : Plan!CheckoutReads(w, u, coupon, covers)
  BY <1>7, CheckoutReadsRows, SameOnwards, QuietSettles DEF Plan!CheckoutReads, QuietJobs
<1>8. CASE Plan!ActivateReads(w) /\ Plan!CheckoutEnds(w)
  BY <1>8, EndedJob, SameOnwards, QuietSettles DEF Plan!ActivateReads
<1>9. CASE Plan!ActivateCommits(w) /\ Refuses(w) /\ PlanJob[w].intent = None
  BY <1>9, CommitKinds, EndedJob, SameOnwards, QuietSettles DEF Refuses
<1> QED  BY <1>2, <1>3, <1>4, <1>5, <1>6, <1>7, <1>8, <1>9

LEMMA CommitsSettle ==
    ASSUME OfCheckout, PlanRows, Settles, NEW w \in Worker, Plan!ActivateReads(w), Plan!Goes(w, "commit"),
           ~ Plan!Blocks(PlanJob[w].user), PlanJob[w].intent \notin payments
    PROVE  Settles'
<1> SUFFICES ASSUME NEW k \in PlanIntentId PROVE Settled1(k)'
  BY DEF Settles
<1>1. /\ Settled1(k) /\ UNCHANGED <<plans, PlanUsed, usedCount, held, intents, payments>>
      /\ PlanJob[w].op = "activate" /\ ~ Plan!InTransaction(PlanJob[w].intent, PlanJob[w].user)
      /\ None \notin PlanIntentId /\ intents[k] \in Plan!Intent
  BY DEF Settles, Plan!ActivateReads, OfCheckout, PlanRows, Plan!CheckoutTypeOK
<1>2. "commit" \in Plan!CheckoutOps
  BY DEF Plan!CheckoutOps
<1>3. /\ PlanJob'[w].op = "commit" /\ PlanJob'[w].intent = PlanJob[w].intent
      /\ \A v \in Worker : v # w => PlanJob'[v] = PlanJob[v]
  BY <1>2, MovesJob
<1>4. CASE k # PlanJob[w].intent
  BY <1>1, <1>3, <1>4 DEF On, Doomed, Settled1
<1>5. CASE k = PlanJob[w].intent
  BY <1>1, <1>5, PaidCharge, <1>3
     DEF On, Plan!InTransaction, Plan!Blocks, Doomed, Settled1
<1> QED  BY <1>4, <1>5

LEMMA RefundsSettle ==
    ASSUME OfCheckout, PlanRows, Settles, NEW w \in Worker, Plan!ActivateReads(w), Plan!Goes(w, "refund"),
           Plan!Blocks(PlanJob[w].user), PlanJob[w].intent \notin payments
    PROVE  Settles'
<1> SUFFICES ASSUME NEW k \in PlanIntentId PROVE Settled1(k)'
  BY DEF Settles
<1>1. /\ Settled1(k) /\ UNCHANGED <<plans, PlanUsed, usedCount, held, intents, payments>>
      /\ PlanJob[w].op = "activate" /\ ~ Plan!InTransaction(PlanJob[w].intent, PlanJob[w].user)
      /\ None \notin PlanIntentId /\ intents[k] \in Plan!Intent
  BY DEF Settles, Plan!ActivateReads, OfCheckout, PlanRows, Plan!CheckoutTypeOK
<1>2. "refund" \in Plan!CheckoutOps
  BY DEF Plan!CheckoutOps
<1>3. /\ PlanJob'[w].op = "refund" /\ PlanJob'[w].intent = PlanJob[w].intent
      /\ \A v \in Worker : v # w => PlanJob'[v] = PlanJob[v]
  BY <1>2, MovesJob
<1>4. \A v \in Worker : On(v, {"commit"}, k)' <=> On(v, {"commit"}, k)
  BY <1>1, <1>3 DEF On
<1>5. CASE k # PlanJob[w].intent
  BY <1>1, <1>3, <1>5, <1>4 DEF On, Doomed, Settled1
<1>6. CASE k = PlanJob[w].intent
  BY <1>1, <1>6, PaidCharge, <1>4
     DEF On, Plan!InTransaction, Doomed, Plan!Blocks, Settled1
<1> QED  BY <1>5, <1>6

LEMMA RefusalSettles ==
    ASSUME OfCheckout, PlanRows, Settles, NEW w \in Worker, Plan!ActivateCommits(w), Refuses(w),
           PlanJob[w].intent # None
    PROVE  Settles'
<1> SUFFICES ASSUME NEW k \in PlanIntentId PROVE Settled1(k)'
  BY DEF Settles
<1>1. /\ Settled1(k) /\ UNCHANGED <<plans, PlanUsed, usedCount, intents, payments>>
      /\ PlanJob[w].op = "commit" /\ PlanJob[w].coupon /\ Plan!Goes(w, "refund")
      /\ held' = [held EXCEPT ![PlanJob[w].intent] = "none"]
      /\ held \in [PlanIntentId -> {"none", "live", "late"}]
      /\ None \notin PlanIntentId /\ intents[k] \in Plan!Intent
  BY CommitKinds DEF Settles, Refuses, OfCheckout, PlanRows, Plan!CheckoutTypeOK
<1>2. "refund" \in Plan!CheckoutOps
  BY DEF Plan!CheckoutOps
<1>3. /\ PlanJob'[w].op = "refund" /\ PlanJob'[w].intent = PlanJob[w].intent
      /\ \A v \in Worker : v # w => PlanJob'[v] = PlanJob[v]
  BY <1>1, <1>2, MovesJob
<1>4. \A v \in Worker : On(v, {"commit"}, k)' => On(v, {"commit"}, k)
  BY <1>3 DEF On
<1>5. held[k] = "none" => held'[k] = "none"
  BY <1>1
<1>6. CASE k # PlanJob[w].intent
  BY <1>3, <1>6, <1>1, <1>4, <1>5 DEF On, Doomed, Settled1
<1>7. CASE k = PlanJob[w].intent
  BY <1>1, <1>7, PaidCharge, <1>4 DEF On, Doomed, Settled1
<1> QED  BY <1>6, <1>7

LEMMA TakesSettle ==
    ASSUME OfCheckout, PlanRows, Settles, NEW w \in Worker, Plan!ActivateCommits(w), Takes(w)
    PROVE  Settles'
<1> SUFFICES ASSUME NEW k \in PlanIntentId PROVE Settled1(k)'
  BY DEF Settles
<1>1. /\ Settled1(k) /\ IntentOK(k) /\ Plan!CheckoutEnds(w) /\ PlanJob[w].op = "commit" /\ PlanJob[w].user \in User
      /\ payments' = payments \cup ({PlanJob[w].intent} \ {None})
      /\ held \in [PlanIntentId -> {"none", "live", "late"}] /\ plans \in [User -> Nat]
      /\ None \notin PlanIntentId /\ intents[k] \in Plan!Intent
  BY CommitKinds
     DEF Settles, Takes, OfCheckout, PlanRows, Plan!CheckoutTypeOK, CheckoutJobOK
<1>2. PlanJob'[w].op = "idle" /\ \A v \in Worker : v # w => PlanJob'[v] = PlanJob[v]
  BY <1>1, EndedJob
<1>3. \A v \in Worker : /\ On(v, {"commit"}, k)' => On(v, {"commit"}, k) /\ v # w
                        /\ On(v, {"refund"}, k)' => On(v, {"refund"}, k)
                        /\ On(v, {"commit", "refund"}, k)' => On(v, {"commit", "refund"}, k) /\ v # w
  BY <1>2 DEF On
<1>4. /\ intents'[k].owner = intents[k].owner
      /\ intents'[k].coupon <=> intents[k].coupon
      /\ intents'[k].refunded <=> intents[k].refunded
  BY TakesOne
<1>5. held[k] = "none" => held'[k] = "none"
  BY CommitKinds, <1>1
<1>6. \A u \in User : plans[u] > 0 => plans'[u] > 0
  <2>1. PICK n \in {1, plans[PlanJob[w].user] + 1} : plans' = [plans EXCEPT ![PlanJob[w].user] = n]
    BY DEF Takes
  <2>2. n > 0
    BY <1>1
  <2> QED  BY <1>1, <2>1, <2>2
<1>7. CASE k # PlanJob[w].intent
  BY <1>1, <1>7, PaidCharge, <1>3, <1>4, <1>5, <1>6 DEF On, IntentOK, Settled1, Doomed
<1>8. CASE k = PlanJob[w].intent
  <2>1. On(w, {"activate", "commit", "refund"}, k) /\ On(w, {"commit"}, k)
    BY <1>1, <1>8 DEF On
  <2>2. ~ Doomed(k)
    <3> SUFFICES ASSUME Doomed(k) PROVE FALSE
      OBVIOUS
    <3>1. intents[k].coupon /\ held[k] = "none"
      BY <2>1 DEF Doomed
    <3>2. PlanJob[w].coupon
      BY <1>1, <2>1, <3>1, PaidCharge
    <3>3. Plan!ClaimOk(PlanJob[w].intent, PlanJob[w].user)
      BY <3>2 DEF Takes
    <3> QED  BY <1>1, <1>8, <3>1, <3>3 DEF Plan!ClaimOk, Plan!ReservationOk
  <2>3. ~ intents[k].refunded /\ \A v \in Worker : ~ On(v, {"refund"}, k)
    BY <1>1, <2>2 DEF Settled1
  <2>4. \A v \in Worker : On(v, {"commit"}, k) => v = w
    BY <1>1, <2>1 DEF Settled1
  <2>5. \A v \in Worker : On(v, {"commit", "refund"}, k) => On(v, {"commit"}, k) \/ On(v, {"refund"}, k)
    BY DEF On
  <2> QED  BY <1>3, <1>4, <2>3, <2>4, <2>5 DEF Settled1
<1> QED  BY <1>7, <1>8

LEMMA NextSettles ==
    ASSUME OfCheckout, PlanRows, Settles, "ends" \notin PlanFaults, Plan!CheckoutNext PROVE Settles'
<1>1. ASSUME NEW i \in PlanIntentId, Plan!ReservationExpires(i) \/ Plan!Pays(i) PROVE Settles'
  BY <1>1, QuietSettles
     DEF PlanRows, Plan!CheckoutTypeOK, Plan!ReservationExpires, Plan!Pays, Plan!Intent,
         Onwards
<1>2. ASSUME NEW w \in Worker, Plan!ActivateReads(w) PROVE Settles'
  BY <1>2, QuietSteps, CommitsSettle, RefundsSettle DEF Plan!ActivateReads
<1>3. ASSUME NEW w \in Worker, Plan!ActivateCommits(w) PROVE Settles'
  BY <1>3, CommitKinds, QuietSteps, RefusalSettles, TakesSettle
<1>4. ASSUME NEW w \in Worker,
             \/ Plan!CreatesIntent(w) \/ Plan!Reserve(w) \/ Plan!CancelsOld(w) \/ Plan!Refund(w)
             \/ \E i \in PlanIntentId : Plan!Confirm(w, i)
             \/ \E u \in User, coupon \in BOOLEAN, covers \in BOOLEAN : Plan!CheckoutReads(w, u, coupon, covers)
      PROVE  Settles'
  BY <1>4, QuietSteps
<1>5. ~ \E u \in User : Plan!PlanEnds(u)
  BY DEF Plan!PlanEnds
<1> QED  BY <1>1, <1>2, <1>3, <1>4, <1>5 DEF Plan!CheckoutNext

----------------------------------------------------------------------------
(* One paid plan *)

CommitsAlone ==
    /\ \A u \in User : plans[u] <= 1
    /\ \A w \in Worker : PlanJob[w].op = "commit" => \A u : u = PlanJob[w].user => plans[u] = 0
    /\ \A v, w \in Worker : PlanJob[v].op = "commit" /\ PlanJob[w].op = "commit" /\ v # w =>
         PlanJob[v].user # PlanJob[w].user

LEMMA QuietAlone ==
    ASSUME OfCheckout, PlanRows, CommitsAlone,
           \A v \in Worker : PlanJob'[v] = PlanJob[v] \/ PlanJob'[v].op # "commit",
           \A u \in User : plans'[u] = plans[u] \/ plans'[u] = 0
    PROVE  CommitsAlone'
BY DEF PlanRows, Plan!CheckoutTypeOK, CommitsAlone, CheckoutJobOK

LEMMA EntersAlone ==
    ASSUME OfCheckout, PlanRows, CommitsAlone, "overlap" \notin PlanFaults, NEW w \in Worker,
           Plan!ActivateReads(w), Plan!Goes(w, "commit"), ~ Plan!Blocks(PlanJob[w].user)
    PROVE  CommitsAlone'
BY MovesJob
   DEF Plan!ActivateReads, PlanRows, Plan!CheckoutTypeOK, Plan!CheckoutOps,
       CheckoutJobOK, Plan!Blocks, Plan!InTransaction, CommitsAlone

LEMMA LeavesAlone ==
    ASSUME OfCheckout, PlanRows, CommitsAlone, NEW w \in Worker, Plan!ActivateCommits(w), Takes(w)
    PROVE  CommitsAlone'
<1>1. /\ Plan!CheckoutEnds(w) /\ PlanJob[w].op = "commit" /\ PlanJob[w].user \in User /\ plans \in [User -> Nat]
  BY CommitKinds DEF Takes, PlanRows, Plan!CheckoutTypeOK, CheckoutJobOK
<1>2. PlanJob'[w].op = "idle" /\ \A v \in Worker : v # w => PlanJob'[v] = PlanJob[v]
  BY <1>1, EndedJob
<1>3. plans[PlanJob[w].user] = 0
  BY <1>1 DEF CommitsAlone
<1>4. plans' = [plans EXCEPT ![PlanJob[w].user] = 1]
  <2>1. PICK n \in {1, plans[PlanJob[w].user] + 1} : plans' = [plans EXCEPT ![PlanJob[w].user] = n]
    BY DEF Takes
  <2>2. n = 1
    BY <1>3
  <2> QED  BY <2>1, <2>2
<1>5. \A u \in User : plans'[u] <= 1
  BY <1>1, <1>4 DEF CommitsAlone
<1>6. ASSUME NEW v \in Worker, PlanJob'[v].op = "commit", NEW u, u = PlanJob'[v].user PROVE plans'[u] = 0
  BY <1>2, <1>6, <1>1, <1>4 DEF PlanRows, CommitsAlone, CheckoutJobOK
<1>7. ASSUME NEW v \in Worker, NEW x \in Worker, PlanJob'[v].op = "commit", PlanJob'[x].op = "commit", v # x
      PROVE  PlanJob'[v].user # PlanJob'[x].user
  BY <1>2, <1>7 DEF CommitsAlone
<1> QED  BY <1>5, <1>6, <1>7 DEF CommitsAlone

LEMMA NextAlone ==
    ASSUME OfCheckout, PlanRows, CommitsAlone, "overlap" \notin PlanFaults, Plan!CheckoutNext PROVE CommitsAlone'
<1>1. ASSUME UNCHANGED plans, QuietJobs PROVE CommitsAlone'
  BY <1>1, QuietAlone DEF QuietJobs
<1>2. ASSUME NEW w \in Worker, Plan!CheckoutEnds(w) PROVE QuietJobs
  BY <1>2, EndedJob DEF QuietJobs
<1>3. ASSUME NEW i \in PlanIntentId, Plan!ReservationExpires(i) \/ Plan!Pays(i) PROVE CommitsAlone'
  BY <1>1, <1>3 DEF Plan!ReservationExpires, Plan!Pays, QuietJobs
<1>4. ASSUME NEW u \in User, Plan!PlanEnds(u) PROVE CommitsAlone'
  BY <1>4, QuietAlone DEF Plan!PlanEnds, PlanRows, Plan!CheckoutTypeOK
<1>5. ASSUME NEW w \in Worker, Plan!ActivateReads(w) PROVE CommitsAlone'
  BY <1>5, <1>1, <1>2, MovesJob, QuietAlone, EntersAlone
     DEF Plan!ActivateReads, Plan!CheckoutOps
<1>6. ASSUME NEW w \in Worker, Plan!ActivateCommits(w) PROVE CommitsAlone'
  BY <1>6, LeavesAlone, <1>1, <1>2, MovesJob, QuietAlone, CommitKinds
     DEF Refuses, Plan!CheckoutOps
<1>7. ASSUME NEW w \in Worker, Plan!CreatesIntent(w) PROVE CommitsAlone'
  BY <1>1, <1>7, CreatesRows DEF Plan!CreatesIntent
<1>8. ASSUME NEW w \in Worker, Plan!Reserve(w) PROVE CommitsAlone'
  BY <1>8, ReserveRows, QuietJob, <1>1 DEF PlanRows, Plan!CheckoutTypeOK, Plan!Reserve
<1>9. ASSUME NEW w \in Worker, Plan!CancelsOld(w) \/ Plan!Refund(w) PROVE CommitsAlone'
  BY <1>1, <1>2, <1>9 DEF Plan!CancelsOld, Plan!Refund
<1>10. ASSUME NEW w \in Worker, NEW i \in PlanIntentId, Plan!Confirm(w, i) PROVE CommitsAlone'
  BY <1>1, <1>10, ConfirmRows DEF Plan!Confirm
<1>11. ASSUME NEW w \in Worker, NEW u \in User, NEW coupon \in BOOLEAN, NEW covers \in BOOLEAN,
              Plan!CheckoutReads(w, u, coupon, covers)
       PROVE  CommitsAlone'
  BY <1>1, <1>11, CheckoutReadsRows DEF Plan!CheckoutReads
<1> QED
  BY <1>3, <1>4, <1>5, <1>6, <1>7, <1>8, <1>9, <1>10, <1>11 DEF Plan!CheckoutNext

----------------------------------------------------------------------------

LEMMA InitSettles ==
    OfCheckout /\ Plan!Init => Settles /\ CommitsAlone
<1> SUFFICES ASSUME OfCheckout, Plan!Init PROVE Settles /\ CommitsAlone
  OBVIOUS
<1>1. PlanRows /\ Plan!CheckoutInit
  BY InitRows
<1>2. /\ \A i \in PlanIntentId : intents[i] = Plan!NoIntent /\ i \notin payments
      /\ \A w \in Worker : PlanJob[w].op = "idle"
      /\ \A u \in User : plans[u] = 0
  BY <1>1, CheckoutIdles DEF Plan!CheckoutInit
<1>3. Settles
  BY <1>2, CheckoutIdles DEF Settles, Settled1, On
<1>4. CommitsAlone
  BY <1>2 DEF CommitsAlone
<1> QED  BY <1>3, <1>4

LEMMA StutterSettles ==
    ASSUME UNCHANGED Plan!vars
    PROVE  /\ Settles => Settles'
           /\ CommitsAlone => CommitsAlone'
BY DEF Plan!vars, Settles, Settled1, Doomed, On, CommitsAlone

(* A payment that was treated either activated a plan or was given back,    *)
(* never both, when no plan ends meanwhile                                  *)
(* (createSubscriptionAfterPayment).                                        *)
THEOREM PlanPaymentsSettled ==
    OfCheckout /\ "ends" \notin PlanFaults => (Plan!Spec => []Plan!CheckoutSettled)
<1> SUFFICES ASSUME OfCheckout, "ends" \notin PlanFaults PROVE Plan!Spec => []Plan!CheckoutSettled
  OBVIOUS
<1>1. Plan!Init => PlanRows /\ Coupons /\ Settles
  BY InitRows, InitCoupons, InitSettles
<1>2. PlanRows /\ Coupons /\ Settles /\ [Plan!Next]_(Plan!vars) => (PlanRows /\ Coupons /\ Settles)'
  BY CheckoutOnly, NextRows, NextCoupons, NextSettles, StutterCheckout, StutterSettles
<1>3. PlanRows /\ Settles => Plan!CheckoutSettled
  <2> SUFFICES ASSUME PlanRows, Settles, NEW i \in PlanIntentId
               PROVE  /\ i \in payments => ~ intents[i].refunded
                      /\ (i \in payments /\ intents[i].coupon) => PlanUsed[intents[i].owner]
                      /\ (intents[i].seen /\ ~ intents[i].refunded) => i \in payments
    BY DEF Plan!CheckoutSettled
  <2>1. IntentOK(i) /\ Settled1(i)
    BY DEF PlanRows, Settles
  <2> QED  BY <2>1 DEF IntentOK, Settled1
<1> QED  BY <1>1, <1>2, <1>3, PTL DEF Plan!Spec

(* While the transactions of one user do not overlap, nobody has two paid   *)
(* plans at once (blocksNewCheckout inside the transaction).                *)
THEOREM PlanPaidOnce ==
    OfCheckout /\ "overlap" \notin PlanFaults => (Plan!Spec => []Plan!OnePaidPlan)
<1> SUFFICES ASSUME OfCheckout, "overlap" \notin PlanFaults PROVE Plan!Spec => []Plan!OnePaidPlan
  OBVIOUS
<1>1. Plan!Init => PlanRows /\ Coupons /\ CommitsAlone
  BY InitRows, InitCoupons, InitSettles
<1>2. PlanRows /\ Coupons /\ CommitsAlone /\ [Plan!Next]_(Plan!vars) => (PlanRows /\ Coupons /\ CommitsAlone)'
  BY CheckoutOnly, NextRows, NextCoupons, NextAlone, StutterCheckout, StutterSettles
<1>3. CommitsAlone => Plan!OnePaidPlan
  BY DEF CommitsAlone, Plan!OnePaidPlan
<1> QED  BY <1>1, <1>2, <1>3, PTL DEF Plan!Spec

(* The rows of a checkout are of their types. *)
THEOREM PlanCheckoutTypes == OfCheckout => (Plan!Spec => []Plan!TypeOK)
<1> SUFFICES ASSUME OfCheckout PROVE Plan!Spec => []Plan!TypeOK
  OBVIOUS
<1>1. Plan!Init => PlanRows /\ Coupons
  BY InitRows, InitCoupons
<1>2. PlanRows /\ Coupons /\ [Plan!Next]_(Plan!vars) => (PlanRows /\ Coupons)'
  BY CheckoutOnly, NextRows, NextCoupons, StutterCheckout
<1>3. PlanRows => Plan!TypeOK
  BY DEF PlanRows, Plan!TypeOK, OfCheckout
<1> QED  BY <1>1, <1>2, <1>3, PTL DEF Plan!Spec

----------------------------------------------------------------------------
(* The renewals *)

(* A period has at least one attempt; None is not the smaller plan. *)
OfRenewal ==
    /\ PlanPart = "renewal"
    /\ MaxClock \in Nat /\ MaxTries \in Nat \ {0}
    /\ None # 1

----------------------------------------------------------------------------
(* The jobs of a renewal *)

LEMMA KeyIs ==
    ASSUME NEW k \in Plan!Key
    PROVE  k[1] \in Plan!Period /\ k[2] \in 1 .. MaxTries /\ k = <<k[1], k[2]>>
BY DEF Plan!Key

LEMMA PlanKeyOf ==
    ASSUME NEW p \in Plan!Period, NEW n \in 1 .. MaxTries
    PROVE  <<p, n>> \in Plan!Key /\ <<p, n>>[1] = p /\ <<p, n>>[2] = n
BY DEF Plan!Key

LEMMA FirstKey == OfRenewal => 0 \in Plan!Period /\ 1 \in 1 .. MaxTries /\ <<0, 1>> \in Plan!Key
BY DEF OfRenewal, Plan!Period, Plan!Cycle, Plan!Key

LEMMA RenewalIdles ==
    OfRenewal => /\ Plan!RenewalIdle \in Plan!RenewalJob /\ Plan!RenewalIdle.op = "idle" /\ Plan!RenewalIdle.end = 0
                 /\ Plan!RenewalIdle.then = "idle" /\ 0 \in Plan!Period
BY FirstKey DEF Plan!RenewalIdle, Plan!RenewalJob, Plan!RenewalOps

(* Only the job of w changed, and so. *)
JobIs(w, op, key, end, then) ==
    /\ PlanJob' \in [Worker -> Plan!RenewalJob]
    /\ PlanJob'[w].op = op /\ PlanJob'[w].key = key /\ PlanJob'[w].end = end /\ PlanJob'[w].then = then
    /\ \A v \in Worker : v # w => PlanJob'[v] = PlanJob[v]

LEMMA JobEnds ==
    ASSUME OfRenewal, PlanJob \in [Worker -> Plan!RenewalJob], NEW w \in Worker, Plan!RenewalEnds(w)
    PROVE  JobIs(w, "idle", <<0, 1>>, 0, "idle")
BY RenewalIdles DEF Plan!RenewalIdle, Plan!RenewalEnds, JobIs

LEMMA JobGoes ==
    ASSUME PlanJob \in [Worker -> Plan!RenewalJob], NEW w \in Worker, NEW op \in Plan!RenewalOps, Plan!Goes(w, op)
    PROVE  JobIs(w, op, PlanJob[w].key, PlanJob[w].end, PlanJob[w].then)
BY DEF Plan!Goes, JobIs, Plan!RenewalJob

LEMMA JobKey ==
    ASSUME PlanJob \in [Worker -> Plan!RenewalJob], NEW w \in Worker, NEW op \in Plan!RenewalOps, NEW k \in Plan!Key,
           PlanJob' = [PlanJob EXCEPT ![w].op = op, ![w].key = k]
    PROVE  JobIs(w, op, k, PlanJob[w].end, PlanJob[w].then)
BY DEF JobIs, Plan!RenewalJob

LEMMA JobKeyThen ==
    ASSUME PlanJob \in [Worker -> Plan!RenewalJob], NEW w \in Worker, NEW op \in Plan!RenewalOps, NEW k \in Plan!Key,
           NEW then \in Plan!RenewalOps,
           PlanJob' = [PlanJob EXCEPT ![w].op = op, ![w].key = k, ![w].then = then]
    PROVE  JobIs(w, op, k, PlanJob[w].end, then)
BY DEF JobIs, Plan!RenewalJob

LEMMA JobThen ==
    ASSUME PlanJob \in [Worker -> Plan!RenewalJob], NEW w \in Worker, NEW op \in Plan!RenewalOps,
           NEW then \in Plan!RenewalOps, PlanJob' = [PlanJob EXCEPT ![w].op = op, ![w].then = then]
    PROVE  JobIs(w, op, PlanJob[w].key, PlanJob[w].end, then)
BY DEF JobIs, Plan!RenewalJob

LEMMA JobEnd ==
    ASSUME PlanJob \in [Worker -> Plan!RenewalJob], NEW w \in Worker, NEW op \in Plan!RenewalOps, NEW end \in Nat,
           PlanJob' = [PlanJob EXCEPT ![w].op = op, ![w].end = end]
    PROVE  JobIs(w, op, PlanJob[w].key, end, PlanJob[w].then)
BY DEF JobIs, Plan!RenewalJob

LEMMA JobReads ==
    ASSUME OfRenewal, PlanJob \in [Worker -> Plan!RenewalJob], NEW w \in Worker, NEW op \in Plan!RenewalOps,
           NEW end \in Plan!Period, NEW daily \in BOOLEAN,
           PlanJob' = [PlanJob EXCEPT ![w] = [op |-> op, key |-> <<end, 1>>, end |-> end,
                                              daily |-> daily, then |-> "idle"]]
    PROVE  JobIs(w, op, <<end, 1>>, end, "idle")
BY DEF OfRenewal, Plan!Key, Plan!Period, Plan!RenewalJob, Plan!RenewalOps, JobIs

----------------------------------------------------------------------------
(* The charges of the periods *)

ChargedBy(w, k) == PlanJob[w].op = "charge" /\ PlanJob[w].key = k

ChargeOK(k) ==
    /\ rows[k].status = "none" => charges[k] = "none"
    /\ rows[k].known => charges[k] # "none"
    /\ rows[k].status = "FAILED" => /\ charges[k] \in {"none", "declined"}
                                    /\ \A w \in Worker : ~ ChargedBy(w, k)
    /\ Plan!Settled(rows[k].status) => charges[k] = "succeeded"

RenewalJobOK(w) ==
    /\ PlanJob[w].end \in Plan!Period
    /\ \A k : k = PlanJob[w].key =>
         /\ PlanJob[w].op = "charge" => /\ rows[k].status = "PENDING" /\ ~ rows[k].known
                                        /\ charges[k] = "none"
         /\ PlanJob[w].op = "fail" => /\ rows[k].status # "none" /\ charges[k] \in {"none", "declined"}
                                      /\ \A v \in Worker : ~ ChargedBy(v, k)
         /\ PlanJob[w].op = "finalize" => rows[k].status # "none" /\ charges[k] = "succeeded"
         /\ PlanJob[w].op = "reconcile" => rows[k].status # "none"

(* An attempt follows only attempts that failed. *)
AfterFailures ==
    \A k, l \in Plan!Key :
      k[1] = l[1] /\ k[2] < l[2] /\ rows[l].status # "none" => rows[k].status = "FAILED"

OneCharges ==
    \A v, w \in Worker : PlanJob[v].op = "charge" /\ PlanJob[w].op = "charge" /\ PlanJob[v].key = PlanJob[w].key => v = w

Renewals ==
    /\ Plan!RenewalTypeOK
    /\ \A k \in Plan!Key : ChargeOK(k)
    /\ \A w \in Worker : RenewalJobOK(w)
    /\ AfterFailures /\ OneCharges

(* What a step of w does to the payment and the charge of one key, and what *)
(* it goes on to                                                            *)
StepOn(w, key, op) ==
    /\ \A k \in Plan!Key : k # key => rows'[k] = rows[k] /\ charges'[k] = charges[k]
    /\ \/ rows'[key] = rows[key] /\ charges'[key] = charges[key]
       \/ \A v \in Worker : v # w => ~ ChargedBy(v, key)
    /\ rows[key].status # "none" => rows'[key].status # "none"
    /\ rows[key].status = "FAILED" => rows'[key].status = "FAILED"
    /\ rows[key].status = "none" /\ rows'[key].status # "none" =>
         \A k \in Plan!Key : k[1] = key[1] => /\ k[2] < key[2] => rows[k].status = "FAILED"
                                              /\ k[2] > key[2] => rows[k].status = "none"
    /\ charges[key] = "succeeded" => charges'[key] = "succeeded"
    /\ charges[key] \in {"none", "declined"} /\ ~ ChargedBy(w, key) =>
         charges'[key] \in {"none", "declined"}
    /\ rows'[key].status = "none" => charges'[key] = "none"
    /\ rows'[key].known => charges'[key] # "none"
    /\ rows'[key].status = "FAILED" => /\ charges'[key] \in {"none", "declined"}
                                       /\ \A v \in Worker : v # w => ~ ChargedBy(v, key)
    /\ Plan!Settled(rows'[key].status) => charges'[key] = "succeeded"
    /\ op = "charge" => /\ rows[key].status = "none" /\ rows'[key].status = "PENDING"
                        /\ ~ rows'[key].known /\ charges'[key] = "none"
    /\ op = "fail" => /\ rows'[key].status # "none" /\ charges'[key] \in {"none", "declined"}
                      /\ \A v \in Worker : v # w => ~ ChargedBy(v, key)
    /\ op = "finalize" => rows'[key].status # "none" /\ charges'[key] = "succeeded"
    /\ op = "reconcile" => rows'[key].status # "none"

LEMMA StepKeeps ==
    ASSUME OfRenewal, Renewals, Plan!RenewalTypeOK', NEW w \in Worker, NEW key \in Plan!Key, NEW op, NEW jk \in Plan!Key,
           NEW end \in Plan!Period, NEW then, JobIs(w, op, jk, end, then), StepOn(w, key, op),
           op \in {"charge", "fail", "finalize", "reconcile"} => jk = key
    PROVE  Renewals'
<1>1. /\ PlanJob'[w].op = op /\ PlanJob'[w].key = jk /\ PlanJob'[w].end = end
      /\ \A v \in Worker : v # w => PlanJob'[v] = PlanJob[v]
      /\ PlanJob \in [Worker -> Plan!RenewalJob]
  BY DEF JobIs, Renewals, Plan!RenewalTypeOK
(* Who charges afterwards *)
<1>2. \A v \in Worker, k \in Plan!Key : ChargedBy(v, k)' =>
         \/ v # w /\ ChargedBy(v, k)
         \/ v = w /\ k = key /\ op = "charge"
  BY <1>1 DEF ChargedBy
<1>3. \A v \in Worker, k \in Plan!Key : ChargedBy(v, k) => /\ rows[k].status = "PENDING" /\ ~ rows[k].known
                                                           /\ charges[k] = "none"
  BY DEF Renewals, RenewalJobOK, ChargedBy
<1>4. \A k \in Plan!Key : ChargeOK(k)'
  <2> SUFFICES ASSUME NEW k \in Plan!Key PROVE ChargeOK(k)'
    OBVIOUS
  <2>1. ChargeOK(k)
    BY DEF Renewals
  <2>2. CASE k # key
    BY <2>2, <1>2, <2>1 DEF StepOn, ChargeOK
  <2>3. CASE k = key
    BY <2>3, <1>2 DEF StepOn, ChargeOK
  <2> QED  BY <2>2, <2>3
<1>5. RenewalJobOK(w)'
  BY <1>2, <1>1 DEF StepOn, RenewalJobOK
<1>6. ASSUME NEW v \in Worker, v # w PROVE RenewalJobOK(v)'
  <2>1. RenewalJobOK(v) /\ PlanJob'[v] = PlanJob[v] /\ PlanJob[v].key \in Plan!Key
    BY <1>1, <1>6 DEF Renewals, Plan!RenewalJob
  <2> SUFFICES ASSUME NEW k \in Plan!Key, k = PlanJob[v].key
               PROVE  /\ PlanJob[v].op = "charge" => /\ rows'[k].status = "PENDING" /\ ~ rows'[k].known
                                                     /\ charges'[k] = "none"
                      /\ PlanJob[v].op = "fail" => /\ rows'[k].status # "none"
                                                   /\ charges'[k] \in {"none", "declined"}
                                                   /\ \A x \in Worker : ~ ChargedBy(x, k)'
                      /\ PlanJob[v].op = "finalize" => rows'[k].status # "none" /\ charges'[k] = "succeeded"
                      /\ PlanJob[v].op = "reconcile" => rows'[k].status # "none"
    BY <2>1 DEF RenewalJobOK
  <2>2. CASE PlanJob[v].op = "charge"
    BY <2>2, <1>6, <1>3 DEF ChargedBy, StepOn
  <2>3. rows[k].status # "none" => rows'[k].status # "none"
    BY DEF StepOn
  <2>4. charges[k] = "succeeded" => charges'[k] = "succeeded"
    BY DEF StepOn
  <2>5. CASE PlanJob[v].op = "fail"
    BY <2>1, <2>5, <1>2, <2>3 DEF RenewalJobOK, StepOn
  <2> QED  BY <2>1, <2>2, <2>3, <2>4, <2>5 DEF RenewalJobOK
<1>7. AfterFailures'
  <2> SUFFICES ASSUME NEW k \in Plan!Key, NEW l \in Plan!Key, k[1] = l[1], k[2] < l[2], rows'[l].status # "none"
               PROVE  rows'[k].status = "FAILED"
    BY DEF AfterFailures
  <2>0. k[2] \in Nat /\ l[2] \in Nat
    BY KeyIs
  <2>1. CASE rows[l].status # "none"
    BY <2>1 DEF Renewals, AfterFailures, StepOn
  <2>2. CASE rows[l].status = "none"
    BY <2>2, <2>0 DEF StepOn
  <2> QED  BY <2>1, <2>2
<1>8. OneCharges'
  <2> SUFFICES ASSUME NEW v \in Worker, NEW x \in Worker, PlanJob'[v].op = "charge", PlanJob'[x].op = "charge",
                      PlanJob'[v].key = PlanJob'[x].key, v # x
               PROVE  FALSE
    BY DEF OneCharges
  <2>1. CASE v # w /\ x # w
    BY <1>1, <2>1 DEF Renewals, OneCharges
  <2>2. ASSUME NEW y \in Worker, y # w, PlanJob'[y].op = "charge", PlanJob'[w].op = "charge", PlanJob'[y].key = PlanJob'[w].key
        PROVE  FALSE
    BY <1>1, <2>2, <1>3 DEF ChargedBy, StepOn
  <2> QED  BY <2>1, <2>2
<1> QED  BY <1>4, <1>5, <1>6, <1>7, <1>8 DEF Renewals

----------------------------------------------------------------------------
(* The subscription after each kind of step *)

SubIs(end, active) == sub' \in Plan!Sub /\ sub'.end = end /\ (sub'.active <=> active)

LEMMA SubSteps ==
    ASSUME OfRenewal, sub \in Plan!Sub
    PROVE  /\ sub' = sub => SubIs(sub.end, sub.active)
           /\ sub' = [sub EXCEPT !.failed = TRUE] => SubIs(sub.end, sub.active)
           /\ sub' = [sub EXCEPT !.active = FALSE] => SubIs(sub.end, FALSE)
           /\ sub' = [sub EXCEPT !.plan = 1] => SubIs(sub.end, sub.active)
           /\ sub' = [sub EXCEPT !.cancel = TRUE, !.pending = None] => SubIs(sub.end, sub.active)
           /\ sub' = [sub EXCEPT !.cancel = FALSE, !.pending = None] => SubIs(sub.end, sub.active)
           /\ sub' = [sub EXCEPT !.pending = 1, !.cancel = FALSE] => SubIs(sub.end, sub.active)
           /\ sub.pending # None /\ sub' = [sub EXCEPT !.plan = sub.pending, !.pending = None]
                => SubIs(sub.end, sub.active)
<1>1. sub' = sub => SubIs(sub.end, sub.active)
  BY DEF SubIs
<1>2. sub' = [sub EXCEPT !.failed = TRUE] => SubIs(sub.end, sub.active)
  BY DEF SubIs, Plan!Sub
<1>3. sub' = [sub EXCEPT !.active = FALSE] => SubIs(sub.end, FALSE)
  BY DEF SubIs, Plan!Sub
<1>4. sub' = [sub EXCEPT !.plan = 1] => SubIs(sub.end, sub.active)
  BY DEF SubIs, Plan!Sub
<1>5. sub' = [sub EXCEPT !.cancel = TRUE, !.pending = None] => SubIs(sub.end, sub.active)
  BY DEF SubIs, Plan!Sub
<1>6. sub' = [sub EXCEPT !.cancel = FALSE, !.pending = None] => SubIs(sub.end, sub.active)
  BY DEF SubIs, Plan!Sub
<1>7. sub' = [sub EXCEPT !.pending = 1, !.cancel = FALSE] => SubIs(sub.end, sub.active)
  BY DEF SubIs, Plan!Sub
<1>8. sub.pending # None /\ sub' = [sub EXCEPT !.plan = sub.pending, !.pending = None]
        => SubIs(sub.end, sub.active)
  BY DEF SubIs, Plan!Sub
<1> QED  BY <1>1, <1>2, <1>3, <1>4, <1>5, <1>6, <1>7, <1>8

LEMMA SubEnds ==
    ASSUME OfRenewal, sub \in Plan!Sub, NEW end \in Nat
    PROVE  /\ sub' = [sub EXCEPT !.end = end, !.failed = FALSE, !.active = TRUE] => SubIs(end, TRUE)
           /\ sub' = [sub EXCEPT !.plan = 2, !.pending = None, !.cancel = FALSE, !.end = end]
                => SubIs(end, sub.active)
BY DEF SubIs, Plan!Sub

(* The payment of one key after each kind of step *)
RowIs(key, status, known) ==
    /\ rows' \in [Plan!Key -> Plan!Row]
    /\ rows'[key].status = status /\ (rows'[key].known <=> known)
    /\ \A k \in Plan!Key : k # key => rows'[k] = rows[k]

LEMMA RowSteps ==
    ASSUME rows \in [Plan!Key -> Plan!Row], NEW key \in Plan!Key, NEW status \in Plan!Status
    PROVE  /\ rows' = [rows EXCEPT ![key].status = status] => RowIs(key, status, rows[key].known)
           /\ rows' = [rows EXCEPT ![key].known = TRUE] => RowIs(key, rows[key].status, TRUE)
BY DEF RowIs, Plan!Row

LEMMA RowKnown ==
    ASSUME rows \in [Plan!Key -> Plan!Row], NEW key \in Plan!Key, rows' = [rows EXCEPT ![key].known = TRUE]
    PROVE  /\ RowIs(key, rows[key].status, TRUE) /\ rows' \in [Plan!Key -> Plan!Row]
           /\ rows'[key].status = rows[key].status /\ \A k \in Plan!Key : k # key => rows'[k] = rows[k]
BY DEF RowIs, Plan!Row

LEMMA RowNew ==
    ASSUME rows \in [Plan!Key -> Plan!Row], NEW key \in Plan!Key, clock \in 0 .. MaxClock,
           rows' = [rows EXCEPT ![key] = [status |-> "PENDING", known |-> FALSE, at |-> clock]]
    PROVE  RowIs(key, "PENDING", FALSE)
BY DEF Plan!Row, Plan!Status, RowIs

(* Steps that change no payment and no charge *)
LEMMA SameStep ==
    ASSUME Renewals, UNCHANGED <<rows, charges>>, NEW w \in Worker, NEW key \in Plan!Key, NEW op,
           op # "charge",
           op = "fail" => /\ rows[key].status # "none" /\ charges[key] \in {"none", "declined"}
                          /\ \A v \in Worker : v # w => ~ ChargedBy(v, key),
           op = "finalize" => rows[key].status # "none" /\ charges[key] = "succeeded",
           op = "reconcile" => rows[key].status # "none"
    PROVE  StepOn(w, key, op)
BY DEF Renewals, StepOn, ChargeOK

LEMMA SameJobs ==
    ASSUME Renewals, UNCHANGED <<rows, charges, PlanJob>>, Plan!RenewalTypeOK' PROVE Renewals'
BY DEF Renewals, ChargeOK, RenewalJobOK, AfterFailures, OneCharges, ChargedBy

LEMMA Typed ==
    ASSUME OfRenewal, Renewals
    PROVE  /\ clock \in 0 .. MaxClock /\ PlanFree \in {0, 1} /\ rewound \in BOOLEAN /\ sub \in Plan!Sub
           /\ sub.end \in Nat /\ rows \in [Plan!Key -> Plan!Row]
           /\ charges \in [Plan!Key -> {"none", "processing", "succeeded", "declined"}]
           /\ upgrades \in [Plan!Period -> {"none", "COMPLETED", "REFUNDED"}]
           /\ PlanJob \in [Worker -> Plan!RenewalJob]
           /\ \A w \in Worker : /\ PlanJob[w].key \in Plan!Key /\ PlanJob[w].end \in Plan!Period /\ PlanJob[w].end \in Nat
                                /\ PlanJob[w].then \in Plan!RenewalOps
BY DEF Renewals, Plan!RenewalTypeOK, Plan!Sub, Plan!RenewalJob, RenewalJobOK

LEMMA AloneKeeps ==
    ASSUME OfRenewal, Renewals,
           \/ Plan!Tick \/ Plan!UndoScheduled \/ Plan!ScheduleSmaller
           \/ \E end \in Plan!Period : Plan!RefundUpgrade(end)
    PROVE  Renewals'
BY Typed, SubSteps, SameJobs
   DEF Plan!Tick, Plan!UndoScheduled, Plan!ScheduleSmaller, Plan!RefundUpgrade,
       OfRenewal, SubIs, Plan!RenewalTypeOK

LEMMA BankKeeps ==
    ASSUME OfRenewal, Renewals, NEW key \in Plan!Key, Plan!BankAnswers(key) PROVE Renewals'
<1>1. /\ UNCHANGED <<clock, sub, PlanFree, rows, upgrades, PlanJob, rewound>> /\ charges[key] = "processing"
      /\ charges'[key] \in {"succeeded", "declined"}
      /\ \A k \in Plan!Key : k # key => charges'[k] = charges[k]
      /\ charges' \in [Plan!Key -> {"none", "processing", "succeeded", "declined"}]
  BY Typed DEF Plan!BankAnswers
<1>2. Plan!RenewalTypeOK'
  BY <1>1, Typed DEF Plan!RenewalTypeOK
<1>3. \A k \in Plan!Key : ChargeOK(k)'
  <2> SUFFICES ASSUME NEW k \in Plan!Key PROVE ChargeOK(k)'
    OBVIOUS
  <2>1. ChargeOK(k)
    BY DEF Renewals
  <2> QED  BY <1>1, <2>1 DEF ChargeOK, ChargedBy
<1>4. \A w \in Worker : RenewalJobOK(w)'
  <2> SUFFICES ASSUME NEW w \in Worker PROVE RenewalJobOK(w)'
    OBVIOUS
  <2>1. RenewalJobOK(w) /\ PlanJob[w].key \in Plan!Key
    BY Typed DEF Renewals
  <2> QED  BY <1>1, <2>1 DEF RenewalJobOK, ChargedBy
<1>5. AfterFailures' /\ OneCharges'
  BY <1>1 DEF Renewals, AfterFailures, OneCharges
<1> QED  BY <1>2, <1>3, <1>4, <1>5 DEF Renewals

(* A step of w that changes no payment and no charge *)
LEMMA QuietKeeps ==
    ASSUME OfRenewal, Renewals, UNCHANGED <<rows, charges>>, NEW w \in Worker,
           NEW op \in {"idle", "claim", "expire", "upgrade", "record", "switch", "close"},
           NEW key \in Plan!Key, NEW end \in Plan!Period, NEW then, JobIs(w, op, key, end, then),
           clock' = clock, PlanFree' \in {0, 1}, rewound' \in BOOLEAN, sub' \in Plan!Sub,
           upgrades' \in [Plan!Period -> {"none", "COMPLETED", "REFUNDED"}]
    PROVE  Renewals'
BY Typed, SameStep, StepKeeps DEF Plan!RenewalTypeOK, JobIs

LEMMA ReadsJob ==
    ASSUME OfRenewal, Renewals, NEW w \in Worker, NEW force \in BOOLEAN, Plan!RenewReads(w, force)
    PROVE  \E op \in {"expire", "claim"} : JobIs(w, op, <<sub.end, 1>>, sub.end, "idle")
<1>1. sub.end \in Plan!Period /\ sub \in Plan!Sub
  BY Typed DEF Plan!RenewReads
<1>2. PICK op \in {"expire", "claim"} : op = IF sub.cancel THEN "expire" ELSE "claim"
  OBVIOUS
<1>3. PICK daily \in BOOLEAN : daily = (sub.failed /\ ~ force)
  <2>1. (sub.failed /\ ~ force) \in BOOLEAN
    OBVIOUS
  <2> QED  BY <2>1, Zenon
<1>4. op \in Plan!RenewalOps
  BY DEF Plan!RenewalOps
<1>5. PlanJob' = [PlanJob EXCEPT ![w] = [op |-> op, key |-> <<sub.end, 1>>, end |-> sub.end,
                                         daily |-> daily, then |-> "idle"]]
  BY <1>2, <1>3 DEF Plan!RenewReads
<1> QED  BY <1>1, <1>4, <1>5, JobReads, Typed

LEMMA ReadsKeeps ==
    ASSUME OfRenewal, Renewals, NEW w \in Worker, NEW force \in BOOLEAN, Plan!RenewReads(w, force)
    PROVE  Renewals' /\ SubIs(sub.end, sub.active)
<1>1. /\ UNCHANGED <<clock, PlanFree, rows, charges, upgrades, rewound>> /\ sub.end \in Plan!Period
  BY DEF Plan!RenewReads
<1>2. SubIs(sub.end, sub.active)
  BY Typed, SubSteps DEF Plan!RenewReads
<1>3. PICK op \in {"expire", "claim"} : JobIs(w, op, <<sub.end, 1>>, sub.end, "idle")
  BY ReadsJob
<1>4. <<sub.end, 1>> \in Plan!Key
  BY <1>1, PlanKeyOf, FirstKey
<1>5. sub' \in Plan!Sub
  BY <1>2 DEF SubIs
<1> QED  BY <1>1, <1>2, <1>3, <1>4, <1>5, QuietKeeps, Typed

LEMMA EndKeeps ==
    ASSUME OfRenewal, Renewals, UNCHANGED <<rows, charges>>, NEW w \in Worker, Plan!RenewalEnds(w),
           clock' = clock, PlanFree' \in {0, 1}, rewound' \in BOOLEAN, sub' \in Plan!Sub,
           upgrades' \in [Plan!Period -> {"none", "COMPLETED", "REFUNDED"}]
    PROVE  Renewals' /\ JobIs(w, "idle", <<0, 1>>, 0, "idle")
BY Typed, JobEnds, FirstKey, QuietKeeps

LEMMA GoKeeps ==
    ASSUME OfRenewal, Renewals, UNCHANGED <<rows, charges>>, NEW w \in Worker,
           NEW op \in {"claim", "expire", "upgrade", "record", "switch", "close"}, Plan!Goes(w, op),
           clock' = clock, PlanFree' \in {0, 1}, rewound' \in BOOLEAN, sub' \in Plan!Sub,
           upgrades' \in [Plan!Period -> {"none", "COMPLETED", "REFUNDED"}]
    PROVE  Renewals' /\ JobIs(w, op, PlanJob[w].key, PlanJob[w].end, PlanJob[w].then)
BY Typed, JobGoes, QuietKeeps DEF Plan!RenewalOps

(* The steps that end a run or move it on *)
LEMMA RunKeeps ==
    ASSUME OfRenewal, Renewals, NEW w \in Worker,
           \/ Plan!ExpireSubscription(w) \/ Plan!Crash(w) \/ Plan!Unsubscribe(w) \/ Plan!RefundCloses(w)
           \/ Plan!ChargeUpgrade(w) \/ Plan!UpgradeRecords(w) \/ Plan!UpgradeSwitches(w)
    PROVE  Renewals'
<1>1. /\ UNCHANGED <<clock, rows, charges>> /\ PlanFree' \in {0, 1}
  BY Typed
     DEF Plan!ExpireSubscription, Plan!Crash, Plan!Unsubscribe, Plan!RefundCloses,
         Plan!ChargeUpgrade, Plan!UpgradeRecords,
               Plan!UpgradeSwitches
<1>2. rewound' \in BOOLEAN
  BY Typed
     DEF Plan!ExpireSubscription, Plan!Crash, Plan!Unsubscribe, Plan!RefundCloses,
         Plan!ChargeUpgrade, Plan!UpgradeRecords,
               Plan!UpgradeSwitches
<1>3. sub' \in Plan!Sub
  BY Typed, SubSteps, SubEnds
     DEF Plan!ExpireSubscription, Plan!Crash, Plan!Unsubscribe, Plan!RefundCloses, Plan!ChargeUpgrade, Plan!UpgradeRecords,
         Plan!UpgradeSwitches, SubIs
<1>4. upgrades' \in [Plan!Period -> {"none", "COMPLETED", "REFUNDED"}]
  BY Typed
     DEF Plan!ExpireSubscription, Plan!Crash, Plan!Unsubscribe, Plan!RefundCloses,
         Plan!ChargeUpgrade, Plan!UpgradeRecords,
               Plan!UpgradeSwitches
<1>5. \/ Plan!RenewalEnds(w) \/ UNCHANGED PlanJob
      \/ \E op \in {"claim", "expire", "upgrade", "record", "switch", "close"} : Plan!Goes(w, op)
  BY DEF Plan!ExpireSubscription, Plan!Crash, Plan!Unsubscribe, Plan!RefundCloses,
         Plan!ChargeUpgrade, Plan!UpgradeRecords,
         Plan!UpgradeSwitches
<1>6. CASE Plan!RenewalEnds(w)
  BY <1>1, <1>2, <1>3, <1>4, <1>6, EndKeeps
<1>7. CASE UNCHANGED PlanJob
  BY <1>1, <1>2, <1>3, <1>4, <1>7, Typed, SameJobs DEF Plan!RenewalTypeOK
<1>8. ASSUME NEW op \in {"claim", "expire", "upgrade", "record", "switch", "close"}, Plan!Goes(w, op)
      PROVE  Renewals'
  BY <1>1, <1>2, <1>3, <1>4, <1>8, GoKeeps
<1> QED  BY <1>5, <1>6, <1>7, <1>8

LEMMA UpgradeReadsKeeps ==
    ASSUME OfRenewal, Renewals, NEW w \in Worker, Plan!UpgradeReads(w)
    PROVE  Renewals' /\ JobIs(w, "upgrade", PlanJob[w].key, sub.end, PlanJob[w].then)
<1>1. /\ UNCHANGED <<clock, sub, PlanFree, rows, charges, upgrades, rewound>> /\ sub.end \in Plan!Period
      /\ PlanJob' = [PlanJob EXCEPT ![w].op = "upgrade", ![w].end = sub.end]
  BY DEF Plan!UpgradeReads
<1>2. PICK op \in Plan!RenewalOps : op = "upgrade"
  BY DEF Plan!RenewalOps
<1>3. JobIs(w, op, PlanJob[w].key, sub.end, PlanJob[w].then)
  BY <1>1, <1>2, Typed, JobEnd
<1> QED  BY <1>1, <1>2, <1>3, QuietKeeps, Typed

----------------------------------------------------------------------------
(* The attempt that is claimed is the first that was not tried. *)

LEMMA UpTo ==
    ASSUME NEW m \in Nat PROVE IsFiniteSet(1 .. m) /\ Cardinality(1 .. m) = m
<1>1. 1 \in Int /\ m \in Int
  OBVIOUS
<1>2. /\ IsFiniteSet(1 .. m)
      /\ Cardinality(1 .. m) = IF 1 > m THEN 0 ELSE m - 1 + 1
  BY <1>1, FS_Interval, Zenon
<1> QED  BY <1>2

LEMMA AttemptFollows ==
    ASSUME OfRenewal, Renewals, NEW end \in Plan!Period, NEW n \in 1 .. MaxTries, n = Plan!Attempt(end),
           rows[<<end, n>>].status = "none"
    PROVE  \A k \in Plan!Key : k[1] = end => /\ k[2] < n => rows[k].status = "FAILED"
                                             /\ k[2] > n => rows[k].status = "none"
<1> DEFINE F == {m \in Plan!Tried(end) : rows[<<end, m>>].status = "FAILED"}
<1>1. <<end, n>> \in Plan!Key /\ <<end, n>>[1] = end /\ <<end, n>>[2] = n /\ n \in Nat \ {0}
  BY PlanKeyOf
<1>2. \A k \in Plan!Key : k[1] = end /\ k[2] > n => rows[k].status = "none"
  <2> SUFFICES ASSUME NEW k \in Plan!Key, k[1] = end, k[2] > n, rows[k].status # "none" PROVE FALSE
    OBVIOUS
  <2>1. rows[<<end, n>>].status = "FAILED"
    BY <1>1 DEF Renewals, AfterFailures
  <2> QED  BY <2>1
<1>3. F \subseteq 1 .. (n - 1)
  <2> SUFFICES ASSUME NEW m \in F PROVE m \in 1 .. (n - 1)
    OBVIOUS
  <2>1. m \in 1 .. MaxTries /\ rows[<<end, m>>].status = "FAILED"
    BY DEF Plan!Tried
  <2>2. <<end, m>> \in Plan!Key /\ <<end, m>>[1] = end /\ <<end, m>>[2] = m
    BY <2>1, PlanKeyOf
  <2>3. ~ (m > n)
    BY <1>2, <2>1, <2>2
  <2>4. m # n
    BY <2>1
  <2> QED  BY <1>1, <2>1, <2>3, <2>4
<1>4. IsFiniteSet(1 .. (n - 1)) /\ Cardinality(1 .. (n - 1)) = n - 1
  <2>1. PICK m \in Nat : m = n - 1
    BY <1>1
  <2> QED  BY <2>1, UpTo
<1>5. Cardinality(F) = n - 1
  <2>1. F \subseteq 1 .. MaxTries /\ IsFiniteSet(1 .. MaxTries)
    BY FS_Interval DEF Plan!Tried, OfRenewal
  <2>2. Cardinality(F) \in Nat
    BY <2>1, FS_Subset, FS_CardinalityType
  <2> HIDE DEF F
  <2>3. n = Cardinality(F) + 1
    BY PlanCounts DEF Plan!Attempt, F
  <2> QED  BY <2>2, <2>3
<1>6. F = 1 .. (n - 1)
  <2> HIDE DEF F
  <2> QED  BY <1>3, <1>4, <1>5, FS_Subset
<1>7. \A k \in Plan!Key : k[1] = end /\ k[2] < n => rows[k].status = "FAILED"
  <2> SUFFICES ASSUME NEW k \in Plan!Key, k[1] = end, k[2] < n PROVE rows[k].status = "FAILED"
    OBVIOUS
  <2>1. k[2] \in 1 .. (n - 1) /\ k = <<end, k[2]>>
    BY <1>1, KeyIs
  <2>2. k[2] \in F
    BY <1>6, <2>1
  <2>3. rows[<<end, k[2]>>].status = "FAILED"
    BY <2>2
  <2> QED  BY <2>1, <2>3
<1> QED  BY <1>2, <1>7

(* A step of w on the key of its own run *)
LEMMA ClaimOfNew ==
    ASSUME OfRenewal, Renewals, NEW w \in Worker, NEW n \in 1 .. MaxTries, n = Plan!Attempt(PlanJob[w].end),
           rows[<<PlanJob[w].end, n>>].status = "none", UNCHANGED <<clock, sub, PlanFree, charges, upgrades, rewound>>,
           rows' = [rows EXCEPT ![<<PlanJob[w].end, n>>] = [status |-> "PENDING", known |-> FALSE, at |-> clock]],
           PlanJob' = [PlanJob EXCEPT ![w].op = "charge", ![w].key = <<PlanJob[w].end, n>>, ![w].then = "idle"]
    PROVE  Renewals'
<1>1. PICK end \in Plan!Period : end = PlanJob[w].end
  BY Typed
<1>2. PICK key \in Plan!Key : key = <<end, n>>
  BY PlanKeyOf
<1>2a. key[1] = end /\ key[2] = n
  BY <1>2
<1>3. PICK op \in Plan!RenewalOps : op = "charge"
  BY DEF Plan!RenewalOps
<1>4. PICK then \in Plan!RenewalOps : then = "idle"
  BY DEF Plan!RenewalOps
<1>5. JobIs(w, op, key, PlanJob[w].end, then)
  BY <1>1, <1>2, <1>3, <1>4, Typed, JobKeyThen
<1>6. RowIs(key, "PENDING", FALSE)
  BY <1>1, <1>2, Typed, RowNew
<1>7. Plan!RenewalTypeOK'
  BY <1>5, <1>6, Typed DEF Plan!RenewalTypeOK, JobIs, RowIs
<1>8. \A k \in Plan!Key : k[1] = key[1] => /\ k[2] < key[2] => rows[k].status = "FAILED"
                                           /\ k[2] > key[2] => rows[k].status = "none"
  BY <1>1, <1>2, <1>2a, AttemptFollows
<1>9. rows[key].status = "none" /\ charges[key] = "none" /\ charges' = charges
  BY <1>1, <1>2 DEF Renewals, ChargeOK
<1>10. \A v \in Worker : ~ ChargedBy(v, key)
  BY <1>9 DEF Renewals, RenewalJobOK, ChargedBy
<1>11. StepOn(w, key, op)
  BY <1>3, <1>6, <1>8, <1>9, <1>10 DEF StepOn, RowIs, Plan!Settled
<1> QED  BY <1>1, <1>5, <1>7, <1>11, StepKeeps, Typed

LEMMA ClaimsKeeps ==
    ASSUME OfRenewal, Renewals, NEW w \in Worker, Plan!RenewClaims(w)
    PROVE  Renewals'
<1>1. UNCHANGED <<clock, sub, PlanFree, charges, upgrades, rewound>>
  BY DEF Plan!RenewClaims
<1>2. PICK end \in Plan!Period : end = PlanJob[w].end
  BY Typed
<1>3. CASE /\ UNCHANGED rows
           /\ \E n \in {m \in Plan!Tried(end) : rows[<<end, m>>].status = "PENDING"} :
                PlanJob' = [PlanJob EXCEPT ![w].op = "reconcile", ![w].key = <<end, n>>, ![w].then = "claim"]
  <2>1. PICK n \in {m \in Plan!Tried(end) : rows[<<end, m>>].status = "PENDING"} :
               PlanJob' = [PlanJob EXCEPT ![w].op = "reconcile", ![w].key = <<end, n>>, ![w].then = "claim"]
    BY <1>3
  <2>2. n \in 1 .. MaxTries /\ rows[<<end, n>>].status = "PENDING"
    BY DEF Plan!Tried
  <2>3. PICK key \in Plan!Key : key = <<end, n>>
    BY <2>2, PlanKeyOf
  <2>4. PICK op \in Plan!RenewalOps : op = "reconcile"
    BY DEF Plan!RenewalOps
  <2>5. PICK then \in Plan!RenewalOps : then = "claim"
    BY DEF Plan!RenewalOps
  <2>6. JobIs(w, op, key, PlanJob[w].end, then)
    BY <2>1, <2>3, <2>4, <2>5, Typed, JobKeyThen
  <2>7. Plan!RenewalTypeOK'
    BY <1>1, <1>3, <2>6, Typed DEF Plan!RenewalTypeOK, JobIs
  <2>8. StepOn(w, key, op)
    BY <1>1, <1>3, <2>2, <2>3, <2>4, SameStep
  <2> QED  BY <2>6, <2>7, <2>8, StepKeeps, Typed
<1>4. CASE Plan!RenewalEnds(w) /\ UNCHANGED rows
  BY <1>1, <1>4, EndKeeps, Typed
<1>5. CASE Plan!Goes(w, "expire") /\ UNCHANGED rows
  BY <1>1, <1>5, GoKeeps, Typed
<1>6. CASE /\ <<end, Plan!Attempt(end)>> \in Plan!Key /\ rows[<<end, Plan!Attempt(end)>>].status = "none"
           /\ rows' = [rows EXCEPT ![<<end, Plan!Attempt(end)>>] = [status |-> "PENDING", known |-> FALSE,
                                                                at |-> clock]]
           /\ PlanJob' = [PlanJob EXCEPT ![w].op = "charge", ![w].key = <<end, Plan!Attempt(end)>>, ![w].then = "idle"]
  <2>1. PICK n \in 1 .. MaxTries : n = Plan!Attempt(end)
    BY <1>6 DEF Plan!Key
  <2> QED  BY <1>1, <1>2, <1>6, <2>1, ClaimOfNew
<1> QED  BY <1>2, <1>3, <1>4, <1>5, <1>6 DEF Plan!RenewClaims

----------------------------------------------------------------------------
(* The steps on a payment and its charge *)

LEMMA EveryKey ==
    ASSUME OfRenewal, Renewals, NEW w \in Worker, NEW key, key = PlanJob[w].key
    PROVE  /\ key \in Plan!Key /\ ChargeOK(key)
           /\ PlanJob[w].op = "charge" => /\ rows[key].status = "PENDING" /\ ~ rows[key].known
                                          /\ charges[key] = "none"
                                          /\ \A v \in Worker : v # w => ~ ChargedBy(v, key)
           /\ PlanJob[w].op = "fail" => /\ rows[key].status # "none" /\ charges[key] \in {"none", "declined"}
                                        /\ \A v \in Worker : ~ ChargedBy(v, key)
           /\ PlanJob[w].op = "finalize" => rows[key].status # "none" /\ charges[key] = "succeeded"
           /\ PlanJob[w].op = "reconcile" => rows[key].status # "none"
BY Typed DEF Renewals, RenewalJobOK, OneCharges, ChargedBy

(* What a run goes on to after an answer of Stripe *)
LEMMA AnswerKeeps ==
    ASSUME OfRenewal, Renewals, NEW w \in Worker, NEW key \in Plan!Key, key = PlanJob[w].key,
           NEW op, NEW jk \in Plan!Key, NEW end \in Plan!Period, NEW then, JobIs(w, op, jk, end, then),
           UNCHANGED <<clock, sub, PlanFree, upgrades, rewound>>, rows' \in [Plan!Key -> Plan!Row],
           charges' \in [Plan!Key -> {"none", "processing", "succeeded", "declined"}],
           StepOn(w, key, op), op \in {"charge", "fail", "finalize", "reconcile"} => jk = key
    PROVE  Renewals'
BY Typed, StepKeeps DEF Plan!RenewalTypeOK, JobIs

LEMMA ChargesOnward ==
    ASSUME OfRenewal, Renewals, NEW w \in Worker, NEW key, key = PlanJob[w].key, Plan!RenewCharges(w),
           NEW result \in {"succeeded", "processing", "declined"},
           charges' = [charges EXCEPT ![key] = result]
    PROVE  Renewals'
<1>0. PlanJob[w].op = "charge" /\ UNCHANGED <<clock, sub, PlanFree, upgrades, rewound>>
  BY DEF Plan!RenewCharges
<1>1. /\ key \in Plan!Key /\ rows[key].status = "PENDING" /\ ~ rows[key].known /\ charges[key] = "none"
      /\ \A v \in Worker : v # w => ~ ChargedBy(v, key)
      /\ PlanJob[w].end \in Plan!Period
  BY <1>0, EveryKey, Typed
<1>2. /\ charges' \in [Plan!Key -> {"none", "processing", "succeeded", "declined"}] /\ charges'[key] = result
      /\ \A k \in Plan!Key : k # key => charges'[k] = charges[k]
  BY <1>1, Typed
<1>3. \/ UNCHANGED rows
      \/ rows' = [rows EXCEPT ![key].known = TRUE]
  BY DEF Plan!RenewCharges
<1>4. rows' \in [Plan!Key -> Plan!Row] /\ rows'[key].status = "PENDING" /\ (\A k \in Plan!Key : k # key => rows'[k] = rows[k])
  BY <1>1, <1>3, Typed, RowKnown
<1>5. ChargedBy(w, key)
  BY <1>0 DEF ChargedBy
<1>6. ASSUME NEW op \in {"idle", "fail", "finalize"}, op = "fail" => result = "declined",
             op = "finalize" => result = "succeeded"
      PROVE  StepOn(w, key, op)
  BY <1>1, <1>2, <1>4, <1>5, <1>6 DEF StepOn, Plan!Settled
<1>7. \/ Plan!RenewalEnds(w)
      \/ Plan!Goes(w, "finalize") /\ result = "succeeded"
      \/ Plan!Goes(w, "fail") /\ result = "declined"
  <2>1. PICK r \in {"succeeded", "processing", "declined"} :
          /\ charges' = [charges EXCEPT ![key] = r]
          /\ \/ CASE r = "succeeded" -> Plan!Goes(w, "finalize")
                  [] r = "declined" -> Plan!Goes(w, "fail")
                  [] OTHER -> Plan!RenewalEnds(w)
             \/ Plan!RenewalEnds(w)
    BY <1>1, <1>2 DEF Plan!RenewCharges
  <2>2. r = result
    BY <1>1, <1>2, <2>1, Typed
  <2> QED  BY <2>1, <2>2
<1>8. CASE Plan!RenewalEnds(w)
  BY <1>0, <1>1, <1>2, <1>4, <1>6, <1>8, Typed, JobEnds, FirstKey, AnswerKeeps
<1>9. ASSUME NEW op \in {"finalize", "fail"}, Plan!Goes(w, op), op = "fail" => result = "declined",
             op = "finalize" => result = "succeeded"
      PROVE  Renewals'
  BY <1>9, Typed, JobGoes, <1>0, <1>1, <1>2, <1>4, <1>6, AnswerKeeps DEF Plan!RenewalOps
<1> QED  BY <1>7, <1>8, <1>9

LEMMA ChargesKeeps ==
    ASSUME OfRenewal, Renewals, NEW w \in Worker, Plan!RenewCharges(w)
    PROVE  Renewals'
<1>1. PICK key \in Plan!Key : key = PlanJob[w].key
  BY Typed
<1>2. PlanJob[w].op = "charge" /\ UNCHANGED <<clock, sub, PlanFree, upgrades, rewound>>
  BY DEF Plan!RenewCharges
<1>3. CASE Plan!Goes(w, "fail") /\ UNCHANGED <<rows, charges>>
  <2>1. PICK op \in Plan!RenewalOps : op = "fail"
    BY DEF Plan!RenewalOps
  <2>2. JobIs(w, op, key, PlanJob[w].end, PlanJob[w].then)
    BY <1>1, <1>3, <2>1, Typed, JobGoes
  <2>3. StepOn(w, key, op)
    BY <1>1, <1>2, <1>3, <2>1, EveryKey, SameStep
  <2> QED  BY <1>1, <1>2, <1>3, <2>1, <2>2, <2>3, Typed, AnswerKeeps
<1>4. ASSUME NEW result \in {"succeeded", "processing", "declined"}, charges' = [charges EXCEPT ![key] = result]
      PROVE  Renewals'
  BY <1>1, <1>4, ChargesOnward
<1> QED  BY <1>1, <1>3, <1>4 DEF Plan!RenewCharges

LEMMA FindKeeps ==
    ASSUME OfRenewal, Renewals, NEW w \in Worker, NEW key, key = PlanJob[w].key, PlanJob[w].op = "reconcile",
           UNCHANGED <<clock, sub, PlanFree, charges, upgrades, rewound>>, charges[key] # "none",
           rows[key].status = "PENDING", rows' = [rows EXCEPT ![key].known = TRUE],
           CASE charges[key] = "succeeded" ->
                  PlanJob' = [PlanJob EXCEPT ![w].op = "finalize", ![w].then = "idle"]
             [] charges[key] = "processing" -> Plan!RenewalEnds(w)
             [] OTHER -> Plan!Goes(w, "fail")
    PROVE  Renewals'
<1>1. /\ key \in Plan!Key /\ PlanJob[w].end \in Plan!Period /\ charges[key] \in {"processing", "succeeded", "declined"}
      /\ charges' \in [Plan!Key -> {"none", "processing", "succeeded", "declined"}]
  BY EveryKey, Typed
<1>2. rows' \in [Plan!Key -> Plan!Row] /\ rows'[key].status = "PENDING" /\ (\A k \in Plan!Key : k # key => rows'[k] = rows[k])
  BY <1>1, Typed, RowKnown
<1>3. \A v \in Worker : ~ ChargedBy(v, key)
  BY <1>1 DEF Renewals, RenewalJobOK, ChargedBy
<1>4. ASSUME NEW op \in {"idle", "fail", "finalize"}, op = "fail" => charges[key] = "declined",
             op = "finalize" => charges[key] = "succeeded"
      PROVE  StepOn(w, key, op)
  BY <1>1, <1>2, <1>3, <1>4 DEF StepOn, Plan!Settled
<1>5. CASE charges[key] = "succeeded"
  <2>1. PICK op \in Plan!RenewalOps : op = "finalize"
    BY DEF Plan!RenewalOps
  <2>2. PICK then \in Plan!RenewalOps : then = "idle"
    BY DEF Plan!RenewalOps
  <2>3. PlanJob' = [PlanJob EXCEPT ![w].op = op, ![w].then = then]
    BY <1>5, <2>1, <2>2
  <2>4. JobIs(w, op, key, PlanJob[w].end, then)
    BY <2>3, Typed, JobThen
  <2>5. StepOn(w, key, op)
    BY <1>4, <1>5, <2>1
  <2> QED  BY <1>1, <1>2, <2>4, <2>5, AnswerKeeps
<1>6. CASE charges[key] = "processing"
  BY <1>6, Typed, JobEnds, <1>4, <1>1, <1>2, AnswerKeeps, FirstKey
<1>7. CASE charges[key] = "declined"
  <2>1. PICK op \in Plan!RenewalOps : op = "fail"
    BY DEF Plan!RenewalOps
  <2>2. JobIs(w, op, key, PlanJob[w].end, PlanJob[w].then)
    BY <1>7, <2>1, Typed, JobGoes
  <2>3. StepOn(w, key, op)
    BY <1>4, <1>7, <2>1
  <2> QED  BY <1>1, <1>2, <2>2, <2>3, AnswerKeeps
<1> QED  BY <1>1, <1>5, <1>6, <1>7

LEMMA ReconcilesKeeps ==
    ASSUME OfRenewal, Renewals, NEW w \in Worker, Plan!ReconcileRenewalPayment(w)
    PROVE  Renewals'
<1>1. PICK key \in Plan!Key : key = PlanJob[w].key
  BY Typed
<1>2. PlanJob[w].op = "reconcile" /\ UNCHANGED <<clock, sub, PlanFree, charges, upgrades, rewound>>
  BY DEF Plan!ReconcileRenewalPayment
<1>3. CASE Plan!Goes(w, "claim") /\ UNCHANGED rows
  BY <1>2, <1>3, GoKeeps, Typed
<1>4. CASE Plan!RenewalEnds(w) /\ UNCHANGED rows
  BY <1>2, <1>4, EndKeeps, Typed
<1>5. CASE ~ (~ rows[key].known /\ Plan!Charging(key)) /\ charges[key] = "none" /\ Plan!Goes(w, "fail") /\ UNCHANGED rows
  <2>1. PICK op \in Plan!RenewalOps : op = "fail"
    BY DEF Plan!RenewalOps
  <2>2. JobIs(w, op, key, PlanJob[w].end, PlanJob[w].then)
    BY <1>1, <1>5, <2>1, Typed, JobGoes
  <2>3. rows[key].status # "none" /\ ~ rows[key].known
    BY <1>1, <1>2, <1>5, EveryKey DEF ChargeOK
  <2>4. \A v \in Worker : ~ ChargedBy(v, key)
    BY <1>5, <2>3 DEF Plan!Charging, ChargedBy
  <2>5. StepOn(w, key, op)
    BY <1>2, <1>5, <2>1, <2>3, <2>4, SameStep
  <2> QED  BY <1>1, <1>2, <1>5, <2>1, <2>2, <2>5, Typed, AnswerKeeps
<1>6. CASE /\ rows[key].status = "PENDING" /\ charges[key] # "none"
           /\ rows' = [rows EXCEPT ![key].known = TRUE]
           /\ CASE charges[key] = "succeeded" ->
                     PlanJob' = [PlanJob EXCEPT ![w].op = "finalize", ![w].then = "idle"]
                [] charges[key] = "processing" -> Plan!RenewalEnds(w)
                [] OTHER -> Plan!Goes(w, "fail")
  BY <1>1, <1>2, <1>6, FindKeeps
<1> QED  BY <1>1, <1>3, <1>4, <1>5, <1>6 DEF Plan!ReconcileRenewalPayment

LEMMA WebhookKeeps ==
    ASSUME OfRenewal, Renewals, NEW w \in Worker, NEW key \in Plan!Key, Plan!Webhook(w, key)
    PROVE  Renewals' /\ JobIs(w, "finalize", key, PlanJob[w].end, PlanJob[w].then)
<1>1. /\ UNCHANGED <<clock, sub, PlanFree, rows, charges, upgrades, rewound>>
      /\ charges[key] = "succeeded" /\ rows[key].status # "none"
      /\ PlanJob' = [PlanJob EXCEPT ![w].op = "finalize", ![w].key = key]
  BY DEF Plan!Webhook
<1>2. PICK op \in Plan!RenewalOps : op = "finalize"
  BY DEF Plan!RenewalOps
<1>3. JobIs(w, op, key, PlanJob[w].end, PlanJob[w].then)
  BY <1>1, <1>2, Typed, JobKey
<1>4. StepOn(w, key, op)
  BY <1>1, <1>2, SameStep
<1>5. Plan!RenewalTypeOK'
  BY <1>1, <1>3, Typed DEF Plan!RenewalTypeOK, JobIs
<1> QED  BY <1>2, <1>3, <1>4, <1>5, StepKeeps, Typed

(* Only the payment that was pending moves the end of the period. *)
LEMMA FinalizesStep ==
    ASSUME OfRenewal, Renewals, NEW w \in Worker, NEW key, key = PlanJob[w].key, Plan!FinalizeRenewalPayment(w)
    PROVE  \/ rows[key].status # "PENDING" /\ UNCHANGED <<rows, sub>>
           \/ /\ rows[key].status = "PENDING" /\ RowIs(key, "COMPLETED", rows[key].known)
              /\ SubIs(key[1] + 2, TRUE)
<1>1. key \in Plan!Key /\ key[1] + 2 \in Nat
  BY EveryKey, Typed, KeyIs DEF Plan!Period, OfRenewal
<1>2. PICK status \in Plan!Status : status = "COMPLETED"
  BY DEF Plan!Status
<1>3. CASE rows[key].status = "PENDING"
  BY <1>2, <1>3, <1>1, Typed, RowSteps, SubEnds
     DEF Plan!FinalizeRenewalPayment, Plan!MovesPeriod, Plan!Cycle
<1> QED  BY <1>3 DEF Plan!FinalizeRenewalPayment

LEMMA FinalizesKeeps ==
    ASSUME OfRenewal, Renewals, NEW w \in Worker, Plan!FinalizeRenewalPayment(w)
    PROVE  Renewals'
<1>1. PICK key \in Plan!Key : key = PlanJob[w].key
  BY Typed
<1>2. PlanJob[w].op = "finalize" /\ UNCHANGED <<clock, PlanFree, charges, upgrades, rewound>> /\ Plan!RenewalEnds(w)
  BY DEF Plan!FinalizeRenewalPayment
<1>3. JobIs(w, "idle", <<0, 1>>, 0, "idle")
  BY <1>2, Typed, JobEnds
<1>4. CASE UNCHANGED <<rows, sub>>
  BY <1>2, <1>4, EndKeeps, Typed
<1>5. CASE /\ rows[key].status = "PENDING" /\ RowIs(key, "COMPLETED", rows[key].known)
           /\ SubIs(key[1] + 2, TRUE)
  <2>1. charges[key] = "succeeded" /\ \A v \in Worker : ~ ChargedBy(v, key)
    BY <1>1, <1>2, EveryKey DEF Renewals, RenewalJobOK, ChargedBy
  <2>2. Plan!RenewalTypeOK'
    BY <1>2, <1>3, <1>5, Typed DEF Plan!RenewalTypeOK, JobIs, RowIs, SubIs
  <2>3. StepOn(w, key, "idle")
    BY <1>2, <1>5, <2>1 DEF StepOn, RowIs, Plan!Settled
  <2> QED  BY <1>1, <1>3, <2>2, <2>3, StepKeeps, FirstKey
<1> QED  BY <1>1, <1>4, <1>5, FinalizesStep

LEMMA FailsKeeps ==
    ASSUME OfRenewal, Renewals, NEW w \in Worker, Plan!MarkRenewalFailed(w)
    PROVE  Renewals'
<1>1. PICK key \in Plan!Key : key = PlanJob[w].key
  BY Typed
<1>2. /\ PlanJob[w].op = "fail" /\ UNCHANGED <<clock, PlanFree, charges, upgrades, rewound>>
      /\ sub' = [sub EXCEPT !.failed = TRUE] /\ (Plan!Goes(w, "claim") \/ Plan!RenewalEnds(w))
      /\ rows' = [rows EXCEPT ![key].status = "FAILED"]
  BY <1>1 DEF Plan!MarkRenewalFailed
<1>3. PICK status \in Plan!Status : status = "FAILED"
  BY DEF Plan!Status
<1>4. RowIs(key, status, rows[key].known) /\ sub' \in Plan!Sub
  BY <1>2, <1>3, Typed, RowSteps, SubSteps DEF SubIs
<1>5. /\ rows[key].status # "none" /\ charges[key] \in {"none", "declined"}
      /\ (\A v \in Worker : ~ ChargedBy(v, key)) /\ (rows[key].known => charges[key] # "none")
  BY <1>1, <1>2, EveryKey DEF ChargeOK
<1>6. ASSUME NEW op \in {"idle", "claim"} PROVE StepOn(w, key, op)
  BY <1>2, <1>3, <1>4, <1>5 DEF StepOn, RowIs, Plan!Settled
<1>7. CASE Plan!RenewalEnds(w)
  BY <1>7, Typed, JobEnds, <1>2, <1>4, <1>6, StepKeeps, FirstKey
     DEF Plan!RenewalTypeOK, JobIs, RowIs
<1>8. CASE Plan!Goes(w, "claim")
  <2>1. PICK op \in Plan!RenewalOps : op = "claim"
    BY DEF Plan!RenewalOps
  <2>2. JobIs(w, op, key, PlanJob[w].end, PlanJob[w].then)
    BY <1>1, <1>8, <2>1, Typed, JobGoes
  <2>3. Plan!RenewalTypeOK'
    BY <1>2, <1>4, <2>2, Typed DEF Plan!RenewalTypeOK, JobIs, RowIs
  <2> QED  BY <1>6, <2>1, <2>2, <2>3, Typed, StepKeeps
<1> QED  BY <1>2, <1>7, <1>8

LEMMA RefundsKeeps ==
    ASSUME OfRenewal, Renewals, NEW w \in Worker, NEW key \in Plan!Key, Plan!RefundPlanPayment(w, key)
    PROVE  /\ Renewals' /\ JobIs(w, "close", key, PlanJob[w].end, PlanJob[w].then)
           /\ RowIs(key, "REFUNDED", rows[key].known)
<1>1. /\ UNCHANGED <<clock, sub, PlanFree, charges, upgrades, rewound>>
      /\ rows[key].status = "COMPLETED"
      /\ rows' = [rows EXCEPT ![key].status = "REFUNDED"]
      /\ PlanJob' = [PlanJob EXCEPT ![w].op = "close", ![w].key = key]
  BY DEF Plan!RefundPlanPayment
<1>2. PICK op \in Plan!RenewalOps : op = "close"
  BY DEF Plan!RenewalOps
<1>3. PICK status \in Plan!Status : status = "REFUNDED"
  BY DEF Plan!Status
<1>4. JobIs(w, op, key, PlanJob[w].end, PlanJob[w].then)
  BY <1>1, <1>2, Typed, JobKey
<1>5. RowIs(key, status, rows[key].known)
  BY <1>1, <1>3, Typed, RowSteps
<1>6. charges[key] = "succeeded" /\ \A v \in Worker : ~ ChargedBy(v, key)
  BY <1>1 DEF Renewals, ChargeOK, Plan!Settled, RenewalJobOK, ChargedBy
<1>7. StepOn(w, key, op)
  BY <1>1, <1>2, <1>3, <1>5, <1>6 DEF StepOn, RowIs, Plan!Settled
<1>8. Plan!RenewalTypeOK'
  BY <1>1, <1>4, <1>5, Typed DEF Plan!RenewalTypeOK, JobIs, RowIs
<1> QED  BY <1>2, <1>3, <1>4, <1>5, <1>7, <1>8, StepKeeps, Typed

LEMMA RenewalKeeps == OfRenewal /\ Renewals /\ Plan!RenewalNext => Renewals'
BY AloneKeeps, BankKeeps, RunKeeps, ReadsKeeps, UpgradeReadsKeeps, ClaimsKeeps,
   ChargesKeeps, ReconcilesKeeps,
   WebhookKeeps, FinalizesKeeps, FailsKeeps, RefundsKeeps DEF Plan!RenewalNext

LEMMA RenewalStarts == OfRenewal /\ Plan!Init => Plan!RenewalInit
BY DEF OfRenewal, Plan!Init

LEMMA RenewalMoves == OfRenewal /\ [Plan!Next]_(Plan!vars) => Plan!RenewalNext \/ UNCHANGED Plan!renewalVars
BY DEF OfRenewal, Plan!Next, Plan!vars, Plan!renewalVars

LEMMA FirstSub ==
    ASSUME OfRenewal, Plan!RenewalInit
    PROVE  sub \in Plan!Sub /\ sub.end = 2 /\ sub.active
<1>1. /\ sub.active \in {TRUE} /\ sub.end \in {Plan!Cycle} /\ sub.cancel \in {FALSE} /\ sub.pending \in {None}
      /\ sub.failed \in {FALSE} /\ sub.plan \in {1, 2}
      /\ sub = [active |-> sub.active, end |-> sub.end, cancel |-> sub.cancel, plan |-> sub.plan,
                pending |-> sub.pending, failed |-> sub.failed]
  BY DEF Plan!RenewalInit
<1>2. sub.end = 2 /\ sub.active /\ sub.end \in Nat
  <2>1. sub.end = 2
    BY <1>1 DEF Plan!Cycle
  <2>2. sub.active = TRUE
    BY <1>1
  <2> QED  BY <2>1, <2>2
<1>3. sub.pending \in {1, None}
  BY <1>1
<1> QED  BY <1>1, <1>2, <1>3 DEF Plan!Sub

LEMMA FirstRows ==
    ASSUME OfRenewal, Plan!RenewalInit
    PROVE  /\ rows \in [Plan!Key -> Plan!Row] /\ charges \in [Plan!Key -> {"none", "processing", "succeeded", "declined"}]
           /\ rows[<<0, 1>>].status = "COMPLETED" /\ charges[<<0, 1>>] = "succeeded"
           /\ \A k \in Plan!Key : k # <<0, 1>> => rows[k].status = "none" /\ ~ rows[k].known /\ charges[k] = "none"
BY FirstKey DEF Plan!Row, Plan!Status, Plan!NoRow, OfRenewal, Plan!RenewalInit

LEMMA RenewalsStart == OfRenewal /\ Plan!RenewalInit => Renewals
<1> SUFFICES ASSUME OfRenewal, Plan!RenewalInit PROVE Renewals
  OBVIOUS
<1>1. PlanJob = [w \in Worker |-> Plan!RenewalIdle] /\ clock = 0 /\ PlanFree = 0 /\ rewound = FALSE
      /\ upgrades = [p \in Plan!Period |-> "none"]
  BY DEF Plan!RenewalInit
<1>2. Plan!RenewalTypeOK
  <2>1. clock \in 0 .. MaxClock /\ PlanFree \in {0, 1}
    BY <1>1 DEF OfRenewal
  <2>2. PlanJob \in [Worker -> Plan!RenewalJob]
    BY <1>1, RenewalIdles
  <2>3. upgrades \in [Plan!Period -> {"none", "COMPLETED", "REFUNDED"}] /\ rewound \in BOOLEAN
    BY <1>1
  <2> QED  BY <2>1, <2>2, <2>3, FirstSub, FirstRows DEF Plan!RenewalTypeOK
<1>3. \A w \in Worker : RenewalJobOK(w) /\ PlanJob[w].op = "idle"
  BY <1>1, RenewalIdles DEF RenewalJobOK
<1>4. \A k \in Plan!Key : ChargeOK(k)
  BY <1>3, FirstRows DEF ChargeOK, ChargedBy, Plan!Settled
<1>5. AfterFailures
  <2> SUFFICES ASSUME NEW k \in Plan!Key, NEW l \in Plan!Key, k[2] < l[2], rows[l].status # "none" PROVE FALSE
    BY DEF AfterFailures
  <2>1. l = <<0, 1>>
    BY FirstRows
  <2>2. l[2] = 1 /\ k[2] \in 1 .. MaxTries
    BY <2>1, KeyIs
  <2> QED  BY <2>2
<1>6. OneCharges
  BY <1>3 DEF OneCharges
<1> QED  BY <1>2, <1>3, <1>4, <1>5, <1>6 DEF Renewals

LEMMA RenewalsStutter == Renewals /\ UNCHANGED Plan!renewalVars => Renewals'
BY DEF Renewals, Plan!renewalVars, Plan!RenewalTypeOK, ChargeOK, RenewalJobOK,
       AfterFailures, OneCharges, ChargedBy

LEMMA RenewalsAlways == OfRenewal => (Plan!Spec => []Renewals)
<1> SUFFICES ASSUME OfRenewal PROVE Plan!Spec => []Renewals
  OBVIOUS
<1>1. Plan!Init => Renewals
  BY RenewalStarts, RenewalsStart
<1>2. Renewals /\ [Plan!Next]_(Plan!vars) => Renewals'
  BY RenewalMoves, RenewalKeeps, RenewalsStutter
<1> QED  BY <1>1, <1>2, PTL DEF Plan!Spec

LEMMA ChargedAreFew ==
    ASSUME OfRenewal, Renewals PROVE Plan!PeriodChargedOnce
<1> SUFFICES ASSUME NEW p \in Plan!Period
             PROVE  Cardinality({n \in 1 .. MaxTries : charges[<<p, n>>] \in {"succeeded", "processing"}}) <= 1
  BY PlanCounts DEF Plan!PeriodChargedOnce
<1> DEFINE C == {n \in 1 .. MaxTries : charges[<<p, n>>] \in {"succeeded", "processing"}}
<1>1. \A m, n \in C : ~ (m < n)
  <2> SUFFICES ASSUME NEW m \in C, NEW n \in C, m < n PROVE FALSE
    OBVIOUS
  <2>1. PICK k \in Plan!Key : k = <<p, m>> /\ k[1] = p /\ k[2] = m
    BY PlanKeyOf
  <2>2. PICK l \in Plan!Key : l = <<p, n>> /\ l[1] = p /\ l[2] = n
    BY PlanKeyOf
  <2>3. charges[k] \in {"succeeded", "processing"} /\ charges[l] \in {"succeeded", "processing"}
    BY <2>1, <2>2
  <2>4. rows[l].status # "none"
    BY <2>3 DEF Renewals, ChargeOK
  <2>5. rows[k].status = "FAILED"
    BY <2>1, <2>2, <2>4 DEF Renewals, AfterFailures
  <2>6. charges[k] \in {"none", "declined"}
    BY <2>5 DEF Renewals, ChargeOK
  <2> QED  BY <2>3, <2>6
<1>2. \A m, n \in C : m = n
  BY <1>1
<1>3. C = {} \/ \E n \in C : C = {n}
  <2> HIDE DEF C
  <2> QED  BY <1>2
<1> HIDE DEF C
<1>4. Cardinality(C) <= 1
  BY <1>3, FS_EmptySet, FS_Singleton
<1> QED  BY <1>4 DEF C

(* The renewal key is unique, only the attempts that failed are counted and *)
(* a pending one is reconciled first, so a period of a plan is never        *)
(* charged twice, however many runs, crashes and lost answers               *)
(* (renewSubscription).                                                     *)
THEOREM RenewalChargedOnce == OfRenewal => (Plan!Spec => []Plan!PeriodChargedOnce)
<1> SUFFICES ASSUME OfRenewal PROVE Plan!Spec => []Plan!PeriodChargedOnce
  OBVIOUS
<1>1. Renewals => Plan!PeriodChargedOnce
  BY ChargedAreFew
<1> QED  BY <1>1, RenewalsAlways, PTL

(* The rows, charges and runs of a renewal keep their types (Subscription,  *)
(* Payment, renewSubscription).                                             *)
THEOREM RenewalTypes == OfRenewal => (Plan!Spec => []Plan!TypeOK)
<1> SUFFICES ASSUME OfRenewal PROVE Plan!Spec => []Plan!TypeOK
  OBVIOUS
<1>1. Renewals => Plan!TypeOK
  BY DEF Renewals, Plan!TypeOK, OfRenewal
<1> QED  BY <1>1, RenewalsAlways, PTL

----------------------------------------------------------------------------
(* What the steps leave alone *)

(* The ends of the period that the runs read *)
ReadEnds == \A v \in Worker : PlanJob'[v].end \in {PlanJob[v].end, 0, sub.end}

(* The runs that end a plan go on. *)
EndingGoes == \A v \in Worker : PlanJob[v].op \in {"close", "expire"} => PlanJob'[v] = PlanJob[v]

LEMMA JobFoot ==
    ASSUME OfRenewal, Renewals, NEW w \in Worker, NEW op, NEW key, NEW end \in {PlanJob[w].end, 0, sub.end},
           NEW then, JobIs(w, op, key, end, then)
    PROVE  ReadEnds /\ (PlanJob[w].op \notin {"close", "expire"} => EndingGoes)
BY DEF JobIs, ReadEnds, EndingGoes

LEMMA EndFoot ==
    ASSUME OfRenewal, Renewals, NEW w \in Worker, Plan!RenewalEnds(w)
    PROVE  ReadEnds /\ (PlanJob[w].op \notin {"close", "expire"} => EndingGoes)
BY JobEnds, JobFoot, Typed

LEMMA GoFoot ==
    ASSUME OfRenewal, Renewals, NEW w \in Worker, NEW op \in Plan!RenewalOps, Plan!Goes(w, op)
    PROVE  ReadEnds /\ (PlanJob[w].op \notin {"close", "expire"} => EndingGoes)
BY JobGoes, JobFoot, Typed

LEMMA IdleFoot ==
    ASSUME OfRenewal, Renewals, NEW w \in Worker, PlanJob[w] = Plan!RenewalIdle
    PROVE  PlanJob[w].op = "idle" /\ PlanJob[w].end = 0
BY RenewalIdles

(* Every step but the last of a renewal *)
Other ==
    /\ sub'.end = sub.end /\ (sub'.active => sub.active)
    /\ \A k \in Plan!Key : Plan!Settled(rows'[k].status) <=> Plan!Settled(rows[k].status)

LEMMA AloneFoot ==
    ASSUME OfRenewal, Renewals,
           \/ Plan!Tick \/ Plan!UndoScheduled \/ Plan!ScheduleSmaller
           \/ \E end \in Plan!Period : Plan!RefundUpgrade(end)
           \/ \E key \in Plan!Key : Plan!BankAnswers(key)
    PROVE  /\ Other /\ UNCHANGED <<rows, PlanJob, rewound>>
           /\ SubIs(sub.end, sub.active)
BY Typed, SubSteps
   DEF Plan!Tick, Plan!UndoScheduled, Plan!ScheduleSmaller, Plan!RefundUpgrade,
       Plan!BankAnswers, Other, SubIs

LEMMA SubKept ==
    ASSUME SubIs(sub.end, sub.active), UNCHANGED rows PROVE Other
BY DEF SubIs, Other

LEMMA FreshFoot ==
    ASSUME OfRenewal, Renewals, NEW w \in Worker,
           \/ Plan!Unsubscribe(w) \/ Plan!UpgradeReads(w)
           \/ \E force \in BOOLEAN : Plan!RenewReads(w, force)
           \/ \E key \in Plan!Key : Plan!Webhook(w, key)
    PROVE  Other /\ ReadEnds /\ EndingGoes /\ UNCHANGED <<rows, rewound, upgrades>>
<1>1. UNCHANGED <<rows, rewound, upgrades>> /\ PlanJob[w] = Plan!RenewalIdle
  BY DEF Plan!Unsubscribe, Plan!UpgradeReads, Plan!RenewReads, Plan!Webhook
<1>2. PlanJob[w].op = "idle"
  BY <1>1, IdleFoot
<1>3. CASE Plan!Unsubscribe(w)
  BY <1>3, Typed, SubSteps, <1>2, GoFoot, <1>1, SubKept
     DEF Plan!Unsubscribe, Plan!RenewalOps, ReadEnds, EndingGoes
<1>4. CASE Plan!UpgradeReads(w)
  BY <1>4, Typed, SubSteps, <1>1, <1>2, SubKept, UpgradeReadsKeeps, JobFoot
     DEF Plan!UpgradeReads
<1>5. ASSUME NEW force \in BOOLEAN, Plan!RenewReads(w, force)
      PROVE  Other /\ ReadEnds /\ EndingGoes
  <2>1. SubIs(sub.end, sub.active)
    BY <1>5, ReadsKeeps
  <2>2. PICK op \in {"expire", "claim"} : JobIs(w, op, <<sub.end, 1>>, sub.end, "idle")
    BY <1>5, ReadsJob
  <2>3. ReadEnds /\ EndingGoes
    BY <1>2, <2>2, JobFoot
  <2> QED  BY <1>1, <2>1, <2>3, SubKept
<1>6. ASSUME NEW key \in Plan!Key, Plan!Webhook(w, key)
      PROVE  Other /\ ReadEnds /\ EndingGoes
  BY <1>6, Typed, SubSteps, <1>2, WebhookKeeps, JobFoot, <1>1, SubKept DEF Plan!Webhook
<1> QED  BY <1>1, <1>3, <1>4, <1>5, <1>6

(* The payments that exist and the ones that were given back, after a step *)
PlanRowsKept ==
    \A k \in Plan!Key : /\ rows'[k].status # "none" => rows[k].status # "none"
                        /\ rows'[k].status = "REFUNDED" => rows[k].status = "REFUNDED"
                        /\ Plan!Settled(rows'[k].status) <=> Plan!Settled(rows[k].status)

LEMMA KnownKept ==
    ASSUME OfRenewal, Renewals, NEW key \in Plan!Key, UNCHANGED rows \/ rows' = [rows EXCEPT ![key].known = TRUE]
    PROVE  PlanRowsKept
BY Typed, RowKnown DEF PlanRowsKept

LEMMA ChargesFoot ==
    ASSUME OfRenewal, Renewals, NEW w \in Worker, Plan!RenewCharges(w) \/ Plan!ReconcileRenewalPayment(w)
    PROVE  PlanRowsKept /\ ReadEnds /\ EndingGoes /\ UNCHANGED <<sub, rewound, upgrades>>
<1>0. PICK key \in Plan!Key : key = PlanJob[w].key
  BY Typed
<1>1. UNCHANGED <<sub, rewound, upgrades>> /\ PlanJob[w].op \in {"charge", "reconcile"}
  BY DEF Plan!RenewCharges, Plan!ReconcileRenewalPayment
<1>2. UNCHANGED rows \/ rows' = [rows EXCEPT ![key].known = TRUE]
  BY <1>0 DEF Plan!RenewCharges, Plan!ReconcileRenewalPayment
<1>3. \/ Plan!RenewalEnds(w)
      \/ \E op \in {"claim", "fail", "finalize"} : Plan!Goes(w, op)
      \/ PlanJob' = [PlanJob EXCEPT ![w].op = "finalize", ![w].then = "idle"]
  BY DEF Plan!RenewCharges, Plan!ReconcileRenewalPayment
<1>4. ReadEnds /\ EndingGoes
  <2>1. CASE Plan!RenewalEnds(w)
    BY <1>1, <2>1, EndFoot
  <2>2. ASSUME NEW op \in {"claim", "fail", "finalize"}, Plan!Goes(w, op) PROVE ReadEnds /\ EndingGoes
    BY <1>1, <2>2, GoFoot DEF Plan!RenewalOps
  <2>3. CASE PlanJob' = [PlanJob EXCEPT ![w].op = "finalize", ![w].then = "idle"]
    <3>1. PICK op \in Plan!RenewalOps : op = "finalize"
      BY DEF Plan!RenewalOps
    <3>2. PICK then \in Plan!RenewalOps : then = "idle"
      BY DEF Plan!RenewalOps
    <3>3. JobIs(w, op, PlanJob[w].key, PlanJob[w].end, then)
      BY <2>3, <3>1, <3>2, Typed, JobThen
    <3> QED  BY <1>1, <3>3, JobFoot
  <2> QED  BY <1>3, <2>1, <2>2, <2>3
<1>5. PlanRowsKept
  BY <1>2, KnownKept
<1> QED  BY <1>1, <1>4, <1>5

LEMMA ClaimsFoot ==
    ASSUME OfRenewal, Renewals, NEW w \in Worker, Plan!RenewClaims(w)
    PROVE  /\ Other /\ ReadEnds /\ EndingGoes /\ UNCHANGED <<sub, rewound, upgrades>>
           /\ \A k \in Plan!Key : /\ rows'[k].status # "none" => rows[k].status # "none" \/ k[1] = PlanJob[w].end
                                  /\ rows'[k].status = "REFUNDED" => rows[k].status = "REFUNDED"
<1>1. UNCHANGED <<sub, rewound, upgrades>> /\ PlanJob[w].op = "claim"
  BY DEF Plan!RenewClaims
<1>2. PICK end \in Plan!Period : end = PlanJob[w].end
  BY Typed
<1>3. CASE /\ UNCHANGED rows
           /\ \E n \in {m \in Plan!Tried(end) : rows[<<end, m>>].status = "PENDING"} :
                PlanJob' = [PlanJob EXCEPT ![w].op = "reconcile", ![w].key = <<end, n>>, ![w].then = "claim"]
  <2>1. PICK n \in {m \in Plan!Tried(end) : rows[<<end, m>>].status = "PENDING"} :
               PlanJob' = [PlanJob EXCEPT ![w].op = "reconcile", ![w].key = <<end, n>>, ![w].then = "claim"]
    BY <1>3
  <2>2. PICK key \in Plan!Key : key = <<end, n>>
    BY PlanKeyOf DEF Plan!Tried
  <2>3. PICK op \in Plan!RenewalOps : op = "reconcile"
    BY DEF Plan!RenewalOps
  <2>4. PICK then \in Plan!RenewalOps : then = "claim"
    BY DEF Plan!RenewalOps
  <2>5. JobIs(w, op, key, PlanJob[w].end, then)
    BY <2>1, <2>2, <2>3, <2>4, Typed, JobKeyThen
  <2>6. ReadEnds /\ EndingGoes
    BY <1>1, <2>5, JobFoot
  <2> QED  BY <1>1, <1>3, <2>6 DEF Other
<1>4. CASE Plan!RenewalEnds(w) /\ UNCHANGED rows
  BY <1>1, <1>4, EndFoot DEF Other
<1>5. CASE Plan!Goes(w, "expire") /\ UNCHANGED rows
  BY <1>1, <1>5, GoFoot DEF Plan!RenewalOps, Other
<1>6. CASE /\ <<end, Plan!Attempt(end)>> \in Plan!Key /\ rows[<<end, Plan!Attempt(end)>>].status = "none"
           /\ rows' = [rows EXCEPT ![<<end, Plan!Attempt(end)>>] = [status |-> "PENDING", known |-> FALSE,
                                                                at |-> clock]]
           /\ PlanJob' = [PlanJob EXCEPT ![w].op = "charge", ![w].key = <<end, Plan!Attempt(end)>>, ![w].then = "idle"]
  <2>1. PICK n \in 1 .. MaxTries : n = Plan!Attempt(end)
    BY <1>6 DEF Plan!Key
  <2>2. PICK key \in Plan!Key : key = <<end, n>> /\ key[1] = end
    BY <2>1, PlanKeyOf
  <2>3. PICK op \in Plan!RenewalOps : op = "charge"
    BY DEF Plan!RenewalOps
  <2>4. PICK then \in Plan!RenewalOps : then = "idle"
    BY DEF Plan!RenewalOps
  <2>5. JobIs(w, op, key, PlanJob[w].end, then)
    BY <1>6, <2>1, <2>2, <2>3, <2>4, Typed, JobKeyThen
  <2>6. ReadEnds /\ EndingGoes
    BY <1>1, <2>5, JobFoot
  <2>7. RowIs(key, "PENDING", FALSE)
    BY <1>6, <2>1, <2>2, Typed, RowNew
  <2>8. \A k \in Plan!Key : /\ rows'[k].status # "none" => rows[k].status # "none" \/ k[1] = PlanJob[w].end
                            /\ rows'[k].status = "REFUNDED" => rows[k].status = "REFUNDED"
                            /\ Plan!Settled(rows'[k].status) <=> Plan!Settled(rows[k].status)
    BY <1>6, <2>1, <2>2, <1>2, <2>7 DEF RowIs, Plan!Settled
  <2> QED  BY <1>1, <2>6, <2>8 DEF Other
<1> QED  BY <1>2, <1>3, <1>4, <1>5, <1>6 DEF Plan!RenewClaims

LEMMA FailsFoot ==
    ASSUME OfRenewal, Renewals, NEW w \in Worker, Plan!MarkRenewalFailed(w)
    PROVE  Other /\ PlanRowsKept /\ ReadEnds /\ EndingGoes /\ UNCHANGED <<rewound, upgrades>>
<1>1. PICK key \in Plan!Key : key = PlanJob[w].key
  BY Typed
<1>2. /\ PlanJob[w].op = "fail" /\ UNCHANGED <<rewound, upgrades>>
      /\ sub' = [sub EXCEPT !.failed = TRUE] /\ (Plan!Goes(w, "claim") \/ Plan!RenewalEnds(w))
      /\ rows' = [rows EXCEPT ![key].status = "FAILED"]
  BY <1>1 DEF Plan!MarkRenewalFailed
<1>3. PICK status \in Plan!Status : status = "FAILED"
  BY DEF Plan!Status
<1>4. RowIs(key, status, rows[key].known) /\ SubIs(sub.end, sub.active)
  BY <1>2, <1>3, Typed, RowSteps, SubSteps
<1>5. rows[key].status # "none" /\ ~ Plan!Settled(rows[key].status)
  BY <1>1, <1>2, EveryKey DEF ChargeOK
<1>6. PlanRowsKept
  BY <1>3, <1>4, <1>5 DEF PlanRowsKept, RowIs, Plan!Settled
<1>7. ReadEnds /\ EndingGoes
  BY <1>2, EndFoot, GoFoot DEF Plan!RenewalOps
<1> QED  BY <1>2, <1>4, <1>6, <1>7 DEF Other, PlanRowsKept, SubIs

LEMMA RefundsFoot ==
    ASSUME OfRenewal, Renewals, NEW w \in Worker, NEW key \in Plan!Key, Plan!RefundPlanPayment(w, key)
    PROVE  /\ Other /\ ReadEnds /\ EndingGoes /\ UNCHANGED <<sub, rewound, upgrades>>
           /\ \A k \in Plan!Key : /\ rows'[k].status # "none" => rows[k].status # "none"
                                  /\ rows'[k].status = "REFUNDED" => rows[k].status = "REFUNDED" \/ k = key
<1>1. UNCHANGED <<sub, rewound, upgrades>> /\ rows[key].status = "COMPLETED" /\ PlanJob[w] = Plan!RenewalIdle
  BY DEF Plan!RefundPlanPayment
<1>2. JobIs(w, "close", key, PlanJob[w].end, PlanJob[w].then) /\ RowIs(key, "REFUNDED", rows[key].known)
  BY RefundsKeeps
<1>3. ReadEnds /\ EndingGoes
  BY <1>1, <1>2, IdleFoot, JobFoot
<1> QED  BY <1>1, <1>2, <1>3 DEF Other, RowIs, Plan!Settled

LEMMA UpgradeFoot ==
    ASSUME OfRenewal, Renewals, NEW w \in Worker,
           Plan!ChargeUpgrade(w) \/ Plan!UpgradeRecords(w) \/ Plan!UpgradeSwitches(w)
    PROVE  /\ ReadEnds /\ EndingGoes /\ UNCHANGED rows /\ (~ rewound' => Other /\ ~ rewound)
           /\ PlanJob[w].op \in {"upgrade", "record", "switch"}
<1>1. UNCHANGED rows /\ PlanJob[w].op \in {"upgrade", "record", "switch"}
  BY DEF Plan!ChargeUpgrade, Plan!UpgradeRecords, Plan!UpgradeSwitches
<1>2. Plan!RenewalEnds(w) \/ Plan!Goes(w, "record") \/ Plan!Goes(w, "switch")
  BY DEF Plan!ChargeUpgrade, Plan!UpgradeRecords, Plan!UpgradeSwitches
<1>3. ReadEnds /\ EndingGoes
  BY <1>1, <1>2, EndFoot, GoFoot DEF Plan!RenewalOps
<1>4. ~ rewound' => SubIs(sub.end, sub.active) /\ ~ rewound
  <2>1. CASE Plan!UpgradeSwitches(w)
    <3>1. PICK end \in Nat : end = PlanJob[w].end
      BY Typed
    <3>2. sub' = [sub EXCEPT !.plan = 2, !.pending = None, !.cancel = FALSE, !.end = end]
      BY <2>1, <3>1 DEF Plan!UpgradeSwitches
    <3>3. SubIs(end, sub.active)
      BY <3>2, Typed, SubEnds
    <3>4. ~ rewound' => ~ rewound /\ sub.end = end
      BY <2>1, <3>1 DEF Plan!UpgradeSwitches
    <3> QED  BY <3>3, <3>4
  <2>2. CASE Plan!ChargeUpgrade(w) \/ Plan!UpgradeRecords(w)
    BY <2>2, Typed, SubSteps DEF Plan!ChargeUpgrade, Plan!UpgradeRecords
  <2> QED  BY <2>1, <2>2
<1> QED  BY <1>1, <1>3, <1>4, SubKept

LEMMA ClosingFoot ==
    ASSUME OfRenewal, Renewals, NEW w \in Worker,
           Plan!ExpireSubscription(w) \/ Plan!RefundCloses(w) \/ Plan!Crash(w)
    PROVE  Other /\ ReadEnds /\ UNCHANGED <<rows, rewound, upgrades>>
BY EndFoot, GoFoot, Typed, SubSteps
   DEF Plan!ExpireSubscription, Plan!RefundCloses, Plan!Crash, Plan!RenewalOps, Other,
       SubIs

----------------------------------------------------------------------------
(* The end of the period and the payments that moved it *)

PaidUntil ==
    /\ \A w \in Worker : PlanJob[w].end <= sub.end
    /\ \A k \in Plan!Key : rows[k].status # "none" => k[1] <= sub.end
    /\ \A k \in Plan!Key : Plan!Settled(rows[k].status) => k[1] + 2 <= sub.end
    /\ \E k \in Plan!Key : Plan!Settled(rows[k].status) /\ sub.end = k[1] + 2
    /\ \A p \in Plan!Period : p < sub.end => \E k \in Plan!Key : k[1] = p /\ Plan!Settled(rows[k].status)

PaidUp == ~ rewound => PaidUntil

LEMMA PaidKept ==
    ASSUME OfRenewal, Renewals, PaidUntil, Other, ReadEnds,
           \A k \in Plan!Key : rows'[k].status # "none" =>
             rows[k].status # "none" \/ \E w \in Worker : k[1] = PlanJob[w].end
    PROVE  PaidUntil'
BY Typed DEF Other, ReadEnds, PaidUntil

LEMMA PendingIsCurrent ==
    ASSUME OfRenewal, Renewals, PaidUntil, NEW key \in Plan!Key, rows[key].status = "PENDING"
    PROVE  key[1] = sub.end /\ \A k \in Plan!Key : k[1] = key[1] => ~ Plan!Settled(rows[k].status)
<1>1. \A k \in Plan!Key : k[1] = key[1] => ~ Plan!Settled(rows[k].status)
  <2> SUFFICES ASSUME NEW k \in Plan!Key, k[1] = key[1], Plan!Settled(rows[k].status) PROVE FALSE
    OBVIOUS
  <2>1. k[2] \in Nat /\ key[2] \in Nat /\ rows[k].status # "PENDING" /\ rows[k].status # "FAILED"
        /\ rows[k].status # "none"
    BY KeyIs DEF Plan!Settled
  <2>2. k[2] # key[2]
    BY <2>1, KeyIs
  <2>3. ~ (k[2] < key[2]) /\ ~ (key[2] < k[2])
    BY <2>1 DEF Renewals, AfterFailures
  <2> QED  BY <2>1, <2>2, <2>3
<1>2. key[1] \in Plan!Period /\ key[1] \in Nat /\ sub.end \in Nat
  BY KeyIs, Typed DEF Plan!Period
<1>3. key[1] <= sub.end
  BY DEF PaidUntil
<1>4. ~ (key[1] < sub.end)
  BY <1>1, <1>2 DEF PaidUntil
<1> QED  BY <1>1, <1>2, <1>3, <1>4

LEMMA FinalizePays ==
    ASSUME OfRenewal, Renewals, PaidUntil, NEW w \in Worker, NEW key, key = PlanJob[w].key,
           Plan!RenewalEnds(w), rows[key].status = "PENDING", RowIs(key, "COMPLETED", rows[key].known),
           SubIs(key[1] + 2, TRUE)
    PROVE  PaidUntil'
<1>1. key \in Plan!Key /\ key[1] \in Plan!Period /\ key[1] \in Nat
  BY Typed, KeyIs DEF Plan!Period
<1>2. key[1] = sub.end
  BY <1>1, PendingIsCurrent
<1>3. sub'.end = sub.end + 2 /\ sub.end \in Nat /\ sub.end \in Plan!Period
  BY <1>1, <1>2 DEF SubIs
<1>4. ReadEnds
  BY EndFoot
<1>5. \A v \in Worker : PlanJob'[v].end <= sub.end + 2
  BY <1>3, <1>4, Typed DEF ReadEnds, PaidUntil
<1>6. rows'[key].status = "COMPLETED" /\ \A k \in Plan!Key : k # key => rows'[k] = rows[k]
  BY DEF RowIs
<1>7. \A k \in Plan!Key : rows'[k].status # "none" => k[1] <= sub.end + 2
  <2> SUFFICES ASSUME NEW k \in Plan!Key, rows'[k].status # "none" PROVE k[1] <= sub.end + 2
    OBVIOUS
  <2>1. k[1] \in Nat
    BY KeyIs DEF Plan!Period
  <2>2. k[1] <= sub.end
    BY <1>2, <1>3, <1>6 DEF PaidUntil
  <2> QED  BY <1>3, <2>1, <2>2
<1>8. \A k \in Plan!Key : Plan!Settled(rows'[k].status) => k[1] + 2 <= sub.end + 2
  <2> SUFFICES ASSUME NEW k \in Plan!Key, Plan!Settled(rows'[k].status) PROVE k[1] + 2 <= sub.end + 2
    OBVIOUS
  <2>1. k[1] \in Nat
    BY KeyIs DEF Plan!Period
  <2>2. k = key \/ k[1] + 2 <= sub.end
    BY <1>6 DEF PaidUntil
  <2> QED  BY <1>2, <1>3, <2>1, <2>2
<1>9. \E k \in Plan!Key : Plan!Settled(rows'[k].status) /\ sub.end + 2 = k[1] + 2
  BY <1>1, <1>2, <1>6 DEF Plan!Settled
<1>10. \A p \in Plan!Period : p < sub.end + 2 => \E k \in Plan!Key : k[1] = p /\ Plan!Settled(rows'[k].status)
  <2> SUFFICES ASSUME NEW p \in Plan!Period, p < sub.end + 2
               PROVE  \E k \in Plan!Key : k[1] = p /\ Plan!Settled(rows'[k].status)
    OBVIOUS
  <2>1. p \in Nat /\ p % 2 = 0 /\ sub.end % 2 = 0
    BY <1>3 DEF Plan!Period, Plan!Cycle
  <2>2. p <= sub.end
    BY <1>3, <2>1
  <2>3. CASE p = sub.end
    BY <1>1, <1>2, <1>6, <2>3 DEF Plan!Settled
  <2>4. CASE p < sub.end
    <3>1. PICK k \in Plan!Key : k[1] = p /\ Plan!Settled(rows[k].status)
      BY <2>4 DEF PaidUntil
    <3>2. k # key
      BY <1>2, <1>3, <2>1, <2>4, <3>1
    <3> QED  BY <1>6, <3>1, <3>2
  <2> QED  BY <1>3, <2>1, <2>2, <2>3, <2>4
<1> QED  BY <1>3, <1>5, <1>7, <1>8, <1>9, <1>10 DEF PaidUntil

LEMMA PaidKeeps ==
    ASSUME OfRenewal, Renewals, PaidUp, Plan!RenewalNext PROVE PaidUp'
<1> SUFFICES ASSUME ~ rewound' PROVE PaidUntil'
  BY DEF PaidUp
<1>1. CASE \/ Plan!Tick \/ Plan!UndoScheduled \/ Plan!ScheduleSmaller
           \/ \E end \in Plan!Period : Plan!RefundUpgrade(end)
           \/ \E key \in Plan!Key : Plan!BankAnswers(key)
  BY <1>1, AloneFoot, PaidKept DEF ReadEnds, PaidUp
<1>2. ASSUME NEW w \in Worker,
             \/ Plan!Unsubscribe(w) \/ Plan!UpgradeReads(w)
             \/ \E force \in BOOLEAN : Plan!RenewReads(w, force)
             \/ \E key \in Plan!Key : Plan!Webhook(w, key)
      PROVE  PaidUntil'
  BY <1>2, FreshFoot, PaidKept DEF PaidUp
<1>3. ASSUME NEW w \in Worker, Plan!RenewCharges(w) \/ Plan!ReconcileRenewalPayment(w) PROVE PaidUntil'
  BY <1>3, ChargesFoot, PaidKept DEF Other, PlanRowsKept, PaidUp
<1>4. ASSUME NEW w \in Worker, Plan!RenewClaims(w) PROVE PaidUntil'
  BY <1>4, ClaimsFoot, PaidKept DEF PaidUp
<1>5. ASSUME NEW w \in Worker, Plan!MarkRenewalFailed(w) PROVE PaidUntil'
  BY <1>5, FailsFoot, PaidKept DEF PaidUp, PlanRowsKept
<1>6. ASSUME NEW w \in Worker, NEW key \in Plan!Key, Plan!RefundPlanPayment(w, key) PROVE PaidUntil'
  BY <1>6, RefundsFoot, PaidKept DEF PaidUp
<1>7. ASSUME NEW w \in Worker, Plan!ChargeUpgrade(w) \/ Plan!UpgradeRecords(w) \/ Plan!UpgradeSwitches(w) PROVE PaidUntil'
  BY <1>7, UpgradeFoot, PaidKept DEF PaidUp
<1>8. ASSUME NEW w \in Worker, Plan!ExpireSubscription(w) \/ Plan!RefundCloses(w) \/ Plan!Crash(w) PROVE PaidUntil'
  BY <1>8, ClosingFoot, PaidKept DEF PaidUp
<1>9. ASSUME NEW w \in Worker, Plan!FinalizeRenewalPayment(w) PROVE PaidUntil'
  <2>1. PICK key \in Plan!Key : key = PlanJob[w].key
    BY Typed
  <2>2. Plan!RenewalEnds(w) /\ rewound' = rewound
    BY <1>9 DEF Plan!FinalizeRenewalPayment
  <2>3. PaidUntil
    BY <2>2 DEF PaidUp
  <2>4. CASE UNCHANGED <<rows, sub>>
    BY <2>2, <2>4, EndFoot, <2>3, PaidKept DEF Other
  <2> QED  BY <1>9, <2>1, <2>2, <2>3, <2>4, FinalizesStep, FinalizePays
<1> QED  BY <1>1, <1>2, <1>3, <1>4, <1>5, <1>6, <1>7, <1>8, <1>9 DEF Plan!RenewalNext

LEMMA PaidStarts == OfRenewal /\ Plan!RenewalInit => PaidUntil
<1> SUFFICES ASSUME OfRenewal, Plan!RenewalInit PROVE PaidUntil
  OBVIOUS
<1>1. sub.end = 2
  BY FirstSub
<1>2. \A w \in Worker : PlanJob[w].end = 0
  BY RenewalIdles DEF Plan!RenewalInit
<1>3. \A k \in Plan!Key : rows[k].status # "none" => k = <<0, 1>>
  BY FirstRows
<1>4. <<0, 1>> \in Plan!Key /\ <<0, 1>>[1] = 0 /\ Plan!Settled(rows[<<0, 1>>].status)
  BY FirstRows, FirstKey DEF Plan!Settled
<1>5. \A p \in Plan!Period : p < 2 => p = 0
  BY DEF Plan!Period, Plan!Cycle, OfRenewal
<1>6. \A k \in Plan!Key : rows[k].status # "none" => k[1] = 0
  BY <1>3, <1>4
<1>7. \A k \in Plan!Key : Plan!Settled(rows[k].status) => rows[k].status # "none"
  BY DEF Plan!Settled
<1>8. /\ \A k \in Plan!Key : rows[k].status # "none" => k[1] <= sub.end
      /\ \A k \in Plan!Key : Plan!Settled(rows[k].status) => k[1] + 2 <= sub.end
  BY <1>1, <1>6, <1>7
<1>9. \E k \in Plan!Key : Plan!Settled(rows[k].status) /\ sub.end = k[1] + 2
  BY <1>1, <1>4
<1>10. \A p \in Plan!Period : p < sub.end => \E k \in Plan!Key : k[1] = p /\ Plan!Settled(rows[k].status)
  BY <1>1, <1>4, <1>5
<1>11. \A w \in Worker : PlanJob[w].end <= sub.end
  BY <1>1, <1>2
<1> QED  BY <1>8, <1>9, <1>10, <1>11 DEF PaidUntil

LEMMA PaidAlways == OfRenewal => (Plan!Spec => [](Renewals /\ PaidUp))
<1> SUFFICES ASSUME OfRenewal PROVE Plan!Spec => [](Renewals /\ PaidUp)
  OBVIOUS
<1>1. Plan!Init => PaidUp
  BY RenewalStarts, PaidStarts DEF PaidUp
<1>2. Renewals /\ PaidUp /\ [Plan!Next]_(Plan!vars) => PaidUp'
  BY RenewalMoves, PaidKeeps DEF Plan!renewalVars, PaidUp, PaidUntil
<1> QED  BY <1>1, <1>2, RenewalsAlways, PTL DEF Plan!Spec

(* Only the run that closes the pending payment moves the end of the plan,  *)
(* by one period, and only after the attempts before it failed; so the end  *)
(* is the last period that was paid, unless an upgrade wrote an older end   *)
(* back (finalizeRenewalPayment).                                           *)
THEOREM RenewalsAddUp == OfRenewal => (Plan!Spec => []Plan!PaidRenewalCounts)
<1> SUFFICES ASSUME OfRenewal PROVE Plan!Spec => []Plan!PaidRenewalCounts
  OBVIOUS
<1>1. Renewals /\ PaidUp => Plan!PaidRenewalCounts
  <2> SUFFICES ASSUME Renewals, PaidUp, ~ rewound
               PROVE  /\ \A k \in Plan!Key : Plan!Settled(rows[k].status) => sub.end >= k[1] + 2
                      /\ \E k \in Plan!Key : Plan!Settled(rows[k].status) /\ sub.end = k[1] + 2
    BY DEF Plan!PaidRenewalCounts, Plan!Cycle
  <2>1. \A k \in Plan!Key : k[1] \in Nat
    BY KeyIs DEF Plan!Period
  <2> QED  BY <2>1, Typed DEF PaidUp, PaidUntil
<1> QED  BY <1>1, PaidAlways, PTL

----------------------------------------------------------------------------
(* The payment of the current period that was given back *)

Uninterrupted == OfRenewal /\ "crash" \notin PlanFaults /\ "upgrade" \notin PlanFaults

NoUpgrades ==
    /\ ~ rewound /\ \A p \in Plan!Period : upgrades[p] = "none"
    /\ \A w \in Worker : PlanJob[w].op \notin {"upgrade", "record", "switch"}

ClosesFor(w, k) ==
    \/ PlanJob[w].op = "expire"
    \/ PlanJob[w].op = "close" /\ PlanJob[w].key[1] = k[1]

Closing ==
    \A k \in Plan!Key : rows[k].status = "REFUNDED" /\ sub.end = k[1] + 2 /\ sub.active =>
      \E w \in Worker : ClosesFor(w, k)

LEMMA NoUpgradesKeeps ==
    ASSUME Uninterrupted, Renewals, NoUpgrades, Plan!RenewalNext PROVE NoUpgrades'
<1>1. \A w \in Worker : /\ ~ Plan!UpgradeReads(w) /\ ~ Plan!ChargeUpgrade(w) /\ ~ Plan!UpgradeRecords(w)
                        /\ ~ Plan!UpgradeSwitches(w)
  BY DEF Uninterrupted, NoUpgrades, Plan!UpgradeReads, Plan!ChargeUpgrade,
         Plan!UpgradeRecords, Plan!UpgradeSwitches
<1>2. \A end \in Plan!Period : ~ Plan!RefundUpgrade(end)
  BY DEF NoUpgrades, Plan!RefundUpgrade
<1>3. UNCHANGED <<rewound, upgrades>>
  BY <1>1, <1>2
     DEF Plan!RenewalNext, Plan!Tick, Plan!UndoScheduled, Plan!ScheduleSmaller, Plan!BankAnswers, Plan!RenewClaims, Plan!RenewCharges,
         Plan!ReconcileRenewalPayment, Plan!FinalizeRenewalPayment, Plan!MarkRenewalFailed, Plan!ExpireSubscription, Plan!Crash,
         Plan!Unsubscribe, Plan!RefundCloses, Plan!RenewReads, Plan!Webhook, Plan!RefundPlanPayment
<1>4. \A v \in Worker : PlanJob'[v].op \notin {"upgrade", "record", "switch"}
  <2>1. CASE UNCHANGED PlanJob
    BY <2>1 DEF NoUpgrades
  <2>2. ASSUME NEW w \in Worker, NEW op, op \notin {"upgrade", "record", "switch"}, NEW key, NEW end, NEW then,
               JobIs(w, op, key, end, then)
        PROVE  \A v \in Worker : PlanJob'[v].op \notin {"upgrade", "record", "switch"}
    BY <2>2 DEF JobIs, NoUpgrades
  <2>3. OfRenewal
    BY DEF Uninterrupted
  <2>4. ASSUME NEW w \in Worker, Plan!RenewalEnds(w)
        PROVE  \A v \in Worker : PlanJob'[v].op \notin {"upgrade", "record", "switch"}
    BY <2>2, <2>3, <2>4, JobEnds, Typed
  <2>5. ASSUME NEW w \in Worker, NEW op \in {"claim", "finalize", "fail", "expire"}, Plan!Goes(w, op)
        PROVE  \A v \in Worker : PlanJob'[v].op \notin {"upgrade", "record", "switch"}
    <3>1. op \in Plan!RenewalOps
      BY DEF Plan!RenewalOps
    <3> QED  BY <2>2, <2>3, <2>5, <3>1, JobGoes, Typed
  <2>6. ASSUME NEW w \in Worker, Plan!RenewCharges(w) \/ Plan!ReconcileRenewalPayment(w) \/ Plan!RenewClaims(w)
        PROVE  \A v \in Worker : PlanJob'[v].op \notin {"upgrade", "record", "switch"}
    <3>1. PlanJob \in [Worker -> Plan!RenewalJob]
      BY <2>3, Typed
    <3>2. CASE \E key : PlanJob' = [PlanJob EXCEPT ![w].op = "reconcile", ![w].key = key, ![w].then = "claim"]
      BY <3>1, <3>2 DEF Plan!RenewalJob, NoUpgrades
    <3>3. CASE \E key : PlanJob' = [PlanJob EXCEPT ![w].op = "charge", ![w].key = key, ![w].then = "idle"]
      BY <3>1, <3>3 DEF Plan!RenewalJob, NoUpgrades
    <3>4. CASE PlanJob' = [PlanJob EXCEPT ![w].op = "finalize", ![w].then = "idle"]
      BY <3>1, <3>4 DEF Plan!RenewalJob, NoUpgrades
    <3>5. \/ Plan!RenewalEnds(w)
          \/ \E op \in {"claim", "finalize", "fail", "expire"} : Plan!Goes(w, op)
          \/ PlanJob' = [PlanJob EXCEPT ![w].op = "finalize", ![w].then = "idle"]
          \/ \E key : PlanJob' = [PlanJob EXCEPT ![w].op = "reconcile", ![w].key = key, ![w].then = "claim"]
          \/ \E key : PlanJob' = [PlanJob EXCEPT ![w].op = "charge", ![w].key = key, ![w].then = "idle"]
      BY <2>6 DEF Plan!RenewClaims, Plan!RenewCharges, Plan!ReconcileRenewalPayment
    <3> QED  BY <2>4, <2>5, <2>6, <3>2, <3>3, <3>4, <3>5
  <2>7. ASSUME NEW w \in Worker, NEW force \in BOOLEAN, Plan!RenewReads(w, force)
        PROVE  \A v \in Worker : PlanJob'[v].op \notin {"upgrade", "record", "switch"}
    BY <2>2, <2>3, <2>7, ReadsJob
  <2>8. ASSUME NEW w \in Worker, NEW key \in Plan!Key, Plan!Webhook(w, key) \/ Plan!RefundPlanPayment(w, key)
        PROVE  \A v \in Worker : PlanJob'[v].op \notin {"upgrade", "record", "switch"}
    BY <2>2, <2>3, <2>8, WebhookKeeps, RefundsKeeps
  <2>9. ASSUME NEW w \in Worker, \/ Plan!FinalizeRenewalPayment(w) \/ Plan!MarkRenewalFailed(w) \/ Plan!ExpireSubscription(w)
                                 \/ Plan!Crash(w) \/ Plan!Unsubscribe(w) \/ Plan!RefundCloses(w)
        PROVE  \A v \in Worker : PlanJob'[v].op \notin {"upgrade", "record", "switch"}
    BY <2>9, <2>1, <2>4, <2>5
       DEF Plan!FinalizeRenewalPayment, Plan!MarkRenewalFailed, Plan!ExpireSubscription,
           Plan!Crash, Plan!Unsubscribe, Plan!RefundCloses
  <2>10. Plan!Tick \/ Plan!UndoScheduled \/ Plan!ScheduleSmaller \/ (\E key \in Plan!Key : Plan!BankAnswers(key)) => UNCHANGED PlanJob
    BY DEF Plan!Tick, Plan!UndoScheduled, Plan!ScheduleSmaller, Plan!BankAnswers
  <2> QED  BY <1>1, <1>2, <2>1, <2>6, <2>7, <2>8, <2>9, <2>10 DEF Plan!RenewalNext
<1> QED  BY <1>3, <1>4 DEF NoUpgrades

LEMMA ClosingKept ==
    ASSUME OfRenewal, Renewals, Closing, Other, EndingGoes,
           \A k \in Plan!Key : rows'[k].status = "REFUNDED" =>
             \/ rows[k].status = "REFUNDED"
             \/ \E w \in Worker : ClosesFor(w, k)'
    PROVE  Closing'
<1> SUFFICES ASSUME NEW k \in Plan!Key, rows'[k].status = "REFUNDED", sub'.end = k[1] + 2, sub'.active
             PROVE  \E w \in Worker : ClosesFor(w, k)'
  BY DEF Closing
<1>1. sub.end = k[1] + 2 /\ sub.active
  BY DEF Other
<1>2. ASSUME NEW w \in Worker, ClosesFor(w, k) PROVE ClosesFor(w, k)'
  BY <1>2 DEF ClosesFor, EndingGoes
<1> QED  BY <1>1, <1>2 DEF Closing

(* The refund of the last payment goes on to the end of the plan. *)
LEMMA RefundClosesEnds ==
    ASSUME Uninterrupted, Renewals, PaidUp, NoUpgrades, Closing, NEW w \in Worker, Plan!RefundCloses(w)
    PROVE  Closing'
<1>0. OfRenewal
  BY DEF Uninterrupted
<1>1. UNCHANGED <<rows, sub>> /\ PlanJob[w].op = "close"
  BY DEF Plan!RefundCloses
<1> SUFFICES ASSUME NEW k \in Plan!Key, rows[k].status = "REFUNDED", sub.end = k[1] + 2, sub.active
             PROVE  \E v \in Worker : ClosesFor(v, k)'
  BY <1>1 DEF Closing
<1>2. PICK x \in Worker : ClosesFor(x, k)
  BY DEF Closing
<1>3. CASE x # w
  BY <1>0, <1>3, Typed, <1>2 DEF Plan!RefundCloses, Plan!Goes, Plan!RenewalEnds, ClosesFor
<1>4. CASE x = w
  <2>1. PICK key \in Plan!Key : key = PlanJob[w].key
    BY <1>0, Typed
  <2>2. key[1] = k[1]
    BY <1>1, <1>2, <1>4, <2>1 DEF ClosesFor
  <2>3. Plan!IsLatest(key)
    BY KeyIs, <2>2
       DEF NoUpgrades, PaidUp, PaidUntil, Plan!Period, Plan!Settled, Plan!IsLatest
  <2>4. Plan!Goes(w, "expire")
    BY <2>1, <2>3 DEF Plan!RefundCloses
  <2>5. "expire" \in Plan!RenewalOps
    BY DEF Plan!RenewalOps
  <2>6. PlanJob'[w].op = "expire"
    BY <1>0, <2>4, <2>5, Typed, JobGoes DEF JobIs
  <2> QED  BY <2>6 DEF ClosesFor
<1> QED  BY <1>3, <1>4

LEMMA FinalizeStartsPeriod ==
    ASSUME Uninterrupted, Renewals, PaidUp, NoUpgrades, Closing, NEW w \in Worker, Plan!FinalizeRenewalPayment(w)
    PROVE  Closing'
<1>0. OfRenewal /\ PaidUntil
  BY DEF Uninterrupted, PaidUp, NoUpgrades
<1>1. PICK key \in Plan!Key : key = PlanJob[w].key
  BY <1>0, Typed
<1>2. Plan!RenewalEnds(w) /\ PlanJob[w].op = "finalize"
  BY DEF Plan!FinalizeRenewalPayment
<1>3. EndingGoes
  BY <1>0, <1>2, EndFoot
<1>4. CASE UNCHANGED <<rows, sub>>
  BY <1>0, <1>3, <1>4, ClosingKept DEF Other
<1>5. CASE /\ rows[key].status = "PENDING" /\ RowIs(key, "COMPLETED", rows[key].known)
           /\ SubIs(key[1] + 2, TRUE)
  <2>1. \A k \in Plan!Key : k[1] = key[1] => ~ Plan!Settled(rows[k].status)
    BY <1>0, <1>5, PendingIsCurrent
  <2> SUFFICES ASSUME NEW k \in Plan!Key, rows'[k].status = "REFUNDED", sub'.end = k[1] + 2 PROVE FALSE
    BY DEF Closing
  <2>2. k[1] \in Nat /\ key[1] \in Nat
    BY KeyIs DEF Plan!Period
  <2>3. k[1] = key[1]
    BY <1>5, <2>2 DEF SubIs
  <2>4. rows[k].status = "REFUNDED"
    BY <1>5 DEF RowIs
  <2> QED  BY <2>1, <2>3, <2>4 DEF Plan!Settled
<1> QED  BY <1>0, <1>1, <1>4, <1>5, FinalizesStep

LEMMA ClosingKeeps ==
    ASSUME Uninterrupted, Renewals, PaidUp, NoUpgrades, Closing, Plan!RenewalNext PROVE Closing'
<1>0. OfRenewal
  BY DEF Uninterrupted
<1>1. CASE \/ Plan!Tick \/ Plan!UndoScheduled \/ Plan!ScheduleSmaller
           \/ \E end \in Plan!Period : Plan!RefundUpgrade(end)
           \/ \E key \in Plan!Key : Plan!BankAnswers(key)
  BY <1>0, <1>1, AloneFoot, ClosingKept DEF EndingGoes
<1>2. ASSUME NEW w \in Worker,
             \/ Plan!Unsubscribe(w) \/ Plan!UpgradeReads(w)
             \/ \E force \in BOOLEAN : Plan!RenewReads(w, force)
             \/ \E key \in Plan!Key : Plan!Webhook(w, key)
      PROVE  Closing'
  BY <1>0, <1>2, FreshFoot, ClosingKept
<1>3. ASSUME NEW w \in Worker, Plan!RenewCharges(w) \/ Plan!ReconcileRenewalPayment(w) PROVE Closing'
  BY <1>0, <1>3, ChargesFoot, ClosingKept DEF Other, PlanRowsKept
<1>4. ASSUME NEW w \in Worker, Plan!RenewClaims(w) PROVE Closing'
  BY <1>0, <1>4, ClaimsFoot, ClosingKept
<1>5. ASSUME NEW w \in Worker, Plan!MarkRenewalFailed(w) PROVE Closing'
  BY <1>0, <1>5, FailsFoot, ClosingKept DEF PlanRowsKept
<1>6. ASSUME NEW w \in Worker, NEW key \in Plan!Key, Plan!RefundPlanPayment(w, key) PROVE Closing'
  BY <1>0, <1>6, RefundsKeeps, RefundsFoot, ClosingKept DEF JobIs, ClosesFor
<1>7. \A w \in Worker : ~ Plan!ChargeUpgrade(w) /\ ~ Plan!UpgradeRecords(w) /\ ~ Plan!UpgradeSwitches(w) /\ ~ Plan!Crash(w)
  BY DEF Uninterrupted, NoUpgrades, Plan!ChargeUpgrade, Plan!UpgradeRecords,
         Plan!UpgradeSwitches, Plan!Crash
<1>8. ASSUME NEW w \in Worker, Plan!ExpireSubscription(w) PROVE Closing'
  BY <1>0, <1>8, Typed, SubSteps DEF Plan!ExpireSubscription, Closing, SubIs
<1> QED  BY <1>1, <1>2, <1>3, <1>4, <1>5, <1>6, <1>7, <1>8, RefundClosesEnds,
            FinalizeStartsPeriod
         DEF Plan!RenewalNext

(* Money given back does not leave the plan valid: the refund of the last   *)
(* payment ends the plan, whatever renewals, webhooks and cancellations run *)
(* besides it (staffRefundPlanPayment).                                     *)
THEOREM RefundedPlanEnds == Uninterrupted => (Plan!Spec => []Plan!RefundEndsPlan)
<1> SUFFICES ASSUME Uninterrupted PROVE Plan!Spec => []Plan!RefundEndsPlan
  OBVIOUS
<1>0. OfRenewal
  BY DEF Uninterrupted
<1>1. Plan!Init => NoUpgrades /\ Closing
  <2> SUFFICES ASSUME Plan!RenewalInit PROVE NoUpgrades /\ Closing
    BY <1>0, RenewalStarts
  <2>1. \A w \in Worker : PlanJob[w].op = "idle"
    BY <1>0, RenewalIdles DEF Plan!RenewalInit
  <2>2. \A k \in Plan!Key : rows[k].status # "REFUNDED"
    BY <1>0, FirstRows
  <2>3. ~ rewound /\ \A p \in Plan!Period : upgrades[p] = "none"
    BY DEF Plan!RenewalInit
  <2> QED  BY <2>1, <2>2, <2>3 DEF NoUpgrades, Closing
<1>2. Renewals /\ PaidUp /\ NoUpgrades /\ Closing /\ [Plan!Next]_(Plan!vars) => NoUpgrades' /\ Closing'
  BY <1>0, RenewalMoves, NoUpgradesKeeps, ClosingKeeps
     DEF Plan!renewalVars, NoUpgrades, Closing, ClosesFor
<1>3. Renewals /\ Closing => Plan!RefundEndsPlan
  <2> SUFFICES ASSUME Renewals, Closing, NEW k \in Plan!Key, rows[k].status = "REFUNDED", sub.end = k[1] + 2,
                      \A w \in Worker : PlanJob[w] = Plan!RenewalIdle, sub.active
               PROVE  FALSE
    BY DEF Plan!RefundEndsPlan, Plan!Cycle
  <2>1. PICK w \in Worker : ClosesFor(w, k)
    BY DEF Closing
  <2>2. PlanJob[w].op = "idle"
    BY <1>0, RenewalIdles
  <2> QED  BY <2>1, <2>2 DEF ClosesFor
<1> QED  BY <1>0, <1>1, <1>2, <1>3, PaidAlways, PTL DEF Plan!Spec
=============================================================================
