---------------------------- MODULE MCProgramsProofs ---------------------------
(***************************************************************************)
(* Properties of MCPrograms, for any finite number of requests and rows.   *)
(* A behaviour of MCPrograms is a behaviour of one subject, so each of     *)
(* them follows from the theorems of ProgramProofs about the component of  *)
(* that subject, with its parameters.                                      *)
(***************************************************************************)
EXTENDS MCPrograms, TLAPS

(* The constants and the variables of the components that a subject is not *)
(* about.                                                                  *)
CONSTANTS
    Session, Entry, KindOf, MaxAmount, Overlap, EntryId, Slot, Blocked,
    MaxFreed, MayCrash, SubId, Reason, CyclePaid, PayoutId, Day, Commission,
    PayTypes, FixedPerDay, Types, Amounts, Part, UseId, MaxCrashes,
    TotalSessions, Limit, LastCycle, PriceId, DueId, InvoiceId, Rent,
    Together, PurchaseId, Offers, FeatWorker

VARIABLES
    status, expected, entries, lock, pc, call, entry, slot, booked, job,
    freed, crashed, row, stripe, key, forgotten, crossed, payType, payouts,
    raced, pkg, uses, lost, kept, overlap, SessSub, charged, SessPaid,
    blurred, link, agreed, answers, stranded, today, due, ChairInvoice,
    paidUntil, ChairExpense, told, drawer, purchase, charge, offer, daysLeft,
    tip, dispute, PayJob, FeatJob

(* The subject of a behaviour does not change. *)
LEMMA SubjectKept == [MCNext]_mcVars => UNCHANGED subject
BY DEF MCNext, mcVars

(* The assumptions of the proofs about the cash drawer. *)
LEMMA DrawerTables ==
    /\ RentOnly \in [One -> {"sale", "refund", "expense", "pay", "tip", "rent", "deposit"}]
    /\ 1 \in Nat \ {0}
    /\ None \notin Two \cup One \cup Worker /\ None # "paid"
    /\ TRUE \in BOOLEAN
BY Named DEF RentOnly

(* The assumptions of the proofs about payroll and about dues. *)
LEMMA DayTables ==
    /\ {1, 2} \subseteq Nat /\ {2} \subseteq Nat /\ 1 \in Nat
    /\ \A from, to \in {1, 2} : \A d \in from .. to : ByDay[d] \in Nat
BY DEF ByDay

LEMMA RentTables == {1, 2} \subseteq Nat /\ 1 \in {1, 2} /\ 2 \in Nat /\ {1, 2} \cap One = {}
BY Named

(* What the components promise, subject by subject. *)
PromisedBySessions ==
    /\ subject = "packages" =>
         Pack!TypeOK /\ Pack!SessionsWithinTotal /\ Pack!SessionsAccounted
    /\ subject = "sessions" => Club!TypeOK /\ Club!WithinLimit /\ Club!SessionsCounted

PromisedByDues ==
    /\ subject = "payroll" => Pay!TypeOK /\ Pay!DayPaidOnce /\ Pay!PayoutAddsUp
    /\ subject = "rents" =>
         Rents!TypeOK /\ Rents!ExpensesMatchPayments /\ Rents!MonthOwedOnce /\
         Rents!OverdueToldOnce

Promised == PromisedBySessions /\ PromisedByDues

LEMMA PromisedSessionsHonest == Promised => SessionsHonest
BY DEF Promised, PromisedBySessions, PromisedByDues, SessionsHonest

LEMMA PromisedDuesPaidOnce == Promised => DuesPaidOnce
BY DEF Promised, PromisedBySessions, PromisedByDues, DuesPaidOnce

----------------------------------------------------------------------------
(* The proofs of ProgramProofs, for the parameters of rents, drawer. *)
Program1 == INSTANCE ProgramProofs WITH
    Part <- "dues", DueId <- {1, 2}, InvoiceId <- One, Rent <- 2,
    Together <- {"dues", "record", "expense", "overdue"}, SubId <- None, PriceId <- None,
    Amounts <- None, link <- v1, stripe <- v2, key <- v3, agreed <- v4, answers <- v5,
    stranded <- v6, today <- v7, due <- v8, ChairInvoice <- v9, paidUntil <- v10,
    ChairExpense <- v11, told <- v12, drawer <- v13, job <- v14, Session <- Two,
    Entry <- One, KindOf <- RentOnly, MaxAmount <- 1, Overlap <- TRUE, status <- v1,
    expected <- v2, entries <- v3, lock <- v4, pc <- v5, call <- v6

(* "rents" *)

LEMMA RentsSame ==
    /\ Program1!Chair!Init = Rents!Init
    /\ Program1!Chair!Next = Rents!Next
    /\ Program1!Chair!vars = Rents!vars
    /\ Program1!Chair!TypeOK = Rents!TypeOK
    /\ Program1!Chair!ExpensesMatchPayments = Rents!ExpensesMatchPayments
    /\ Program1!Chair!MonthOwedOnce = Rents!MonthOwedOnce
    /\ Program1!Chair!OverdueToldOnce = Rents!OverdueToldOnce
<1>1. /\ Program1!Chair!Init = Rents!Init
      /\ Program1!Chair!vars = Rents!vars
  BY DEF Program1!Chair!Init, Program1!Chair!vars, Program1!Chair!DuesInit,
         Program1!Chair!Payment, Program1!Chair!Idle, Rents!Init, Rents!vars,
         Rents!DuesInit, Rents!Payment, Rents!Idle
<1>2. Program1!Chair!Next = Rents!Next
  BY DEF Program1!Chair!Next, Program1!Chair!DuesNext, Program1!Chair!MonthBegins,
         Program1!Chair!CashClosing, Program1!Chair!DuesReads, Program1!Chair!EnsureDues,
         Program1!Chair!RecordPayment, Program1!Chair!RecordsExpense,
         Program1!Chair!UndoPayment, Program1!Chair!SyncRefund,
         Program1!Chair!ProcessManualDues, Program1!Chair!RecordReads,
         Program1!Chair!UndoReads, Program1!Chair!OverdueReads,
         Program1!Chair!HandleInvoice, Program1!Chair!RefundReads, Program1!Chair!Free,
         Program1!Chair!Idle, Program1!Chair!Created, Program1!Chair!Ends,
         Program1!Chair!ClaimsDue, Program1!Chair!Doing, Program1!Chair!Undone,
         Program1!Chair!Grows, Program1!Chair!Notices, Program1!Chair!Keeps, Rents!Next,
         Rents!DuesNext, Rents!MonthBegins, Rents!CashClosing, Rents!DuesReads,
         Rents!EnsureDues, Rents!RecordPayment, Rents!RecordsExpense, Rents!UndoPayment,
         Rents!SyncRefund, Rents!ProcessManualDues, Rents!RecordReads, Rents!UndoReads,
         Rents!OverdueReads, Rents!HandleInvoice, Rents!RefundReads, Rents!Free, Rents!Idle,
         Rents!Created, Rents!Ends, Rents!ClaimsDue, Rents!Doing, Rents!Undone, Rents!Grows,
         Rents!Notices, Rents!Keeps
<1>3. /\ Program1!Chair!TypeOK = Rents!TypeOK
      /\ Program1!Chair!ExpensesMatchPayments = Rents!ExpensesMatchPayments
      /\ Program1!Chair!MonthOwedOnce = Rents!MonthOwedOnce
      /\ Program1!Chair!OverdueToldOnce = Rents!OverdueToldOnce
  BY DEF Program1!Chair!TypeOK, Program1!Chair!ExpensesMatchPayments,
         Program1!Chair!MonthOwedOnce, Program1!Chair!OverdueToldOnce,
         Program1!Chair!DuesTypeOK, Program1!Chair!Touching, Program1!Chair!Due,
         Program1!Chair!Invoice, Program1!Chair!Payment, Program1!Chair!Job, Rents!TypeOK,
         Rents!ExpensesMatchPayments, Rents!MonthOwedOnce, Rents!OverdueToldOnce,
         Rents!DuesTypeOK, Rents!Touching, Rents!Due, Rents!Invoice, Rents!Payment,
         Rents!Job
<1> QED  BY <1>1, <1>2, <1>3

LEMMA RentsSafe ==
    MCSpec => [](subject = "rents" => 
                 Rents!TypeOK /\ Rents!ExpensesMatchPayments /\
                 Rents!MonthOwedOnce /\ Rents!OverdueToldOnce)
<1> DEFINE Is == subject = "rents"
<1>0. /\ RentOnly \in [One -> Program1!Kind]
      /\ 1 \in Nat \ {0}
      /\ None \notin Two \cup One \cup Worker /\ None # "paid"
      /\ TRUE \in BOOLEAN
  BY DrawerTables DEF Program1!Kind
<1>1. Program1!OfDues
  BY Named, RentTables DEF Program1!OfDues
<1>2. Program1!Chair!Spec => [](Program1!Chair!TypeOK /\ Program1!Chair!ExpensesMatchPayments /\ Program1!Chair!MonthOwedOnce /\ Program1!Chair!OverdueToldOnce)
  BY <1>0, <1>1, Program1!DuesTypes, Program1!RentIsBooked, Program1!DuesOwedOnce, Program1!DuesToldOnce, PTL
<1>3. MCInit /\ Is => Program1!Chair!Init
  BY RentsSame DEF MCInit
<1>4. Is /\ [MCNext]_mcVars => [Program1!Chair!Next]_(Program1!Chair!vars)
  <2>1. Is /\ MCNext => Program1!Chair!Next
    BY RentsSame DEF MCNext
  <2> QED  BY <2>1 DEF mcVars, Program1!Chair!vars
<1>5. (Is /\ [MCNext]_mcVars => Is') /\ (~ Is /\ [MCNext]_mcVars => ~ Is')
  BY SubjectKept
<1>6. Program1!Chair!TypeOK /\ Program1!Chair!ExpensesMatchPayments /\ Program1!Chair!MonthOwedOnce /\ Program1!Chair!OverdueToldOnce => Rents!TypeOK /\ Rents!ExpensesMatchPayments /\ Rents!MonthOwedOnce /\ Rents!OverdueToldOnce
  BY RentsSame
<1> HIDE DEF Is
<1>7. MCSpec => [](Is => Rents!TypeOK /\ Rents!ExpensesMatchPayments /\ Rents!MonthOwedOnce /\ Rents!OverdueToldOnce)
  BY <1>2, <1>3, <1>4, <1>5, <1>6, PTL DEF MCSpec, Program1!Chair!Spec
<1> QED  BY <1>7 DEF Is

LEMMA RentsStays ==
    MCSpec => [][subject = "rents" => Rents!PaidStaysPaid]_mcVars
<1> DEFINE Is == subject = "rents"
<1>0. /\ RentOnly \in [One -> Program1!Kind]
      /\ 1 \in Nat \ {0}
      /\ None \notin Two \cup One \cup Worker /\ None # "paid"
      /\ TRUE \in BOOLEAN
  BY DrawerTables DEF Program1!Kind
<1>1. Program1!OfDues
  BY Named, RentTables DEF Program1!OfDues
<1>2. Program1!Chair!Spec => [][Program1!Chair!PaidStaysPaid]_(Program1!Chair!vars)
  BY <1>0, <1>1, Program1!InvoiceStaysPaid
<1>3. MCInit /\ Is => Program1!Chair!Init
  BY RentsSame DEF MCInit
<1>4. Is /\ [MCNext]_mcVars => [Program1!Chair!Next]_(Program1!Chair!vars)
  <2>1. Is /\ MCNext => Program1!Chair!Next
    BY RentsSame DEF MCNext
  <2> QED  BY <2>1 DEF mcVars, Program1!Chair!vars
<1>5. (Is /\ [MCNext]_mcVars => Is') /\ (~ Is /\ [MCNext]_mcVars => ~ Is')
  BY SubjectKept
<1>6. [Program1!Chair!PaidStaysPaid]_(Program1!Chair!vars) /\ [MCNext]_mcVars => [Is => Rents!PaidStaysPaid]_mcVars
  BY SubjectKept DEF Program1!Chair!PaidStaysPaid, Rents!PaidStaysPaid, Program1!Chair!vars, mcVars
<1> HIDE DEF Is
<1>7. MCSpec => [][Is => Rents!PaidStaysPaid]_mcVars
  BY <1>2, <1>3, <1>4, <1>5, <1>6, PTL DEF MCSpec, Program1!Chair!Spec
<1> QED  BY <1>7 DEF Is

----------------------------------------------------------------------------
(* "drawer" *)

LEMMA DrawerSame ==
    /\ Program1!Init = Drawer!Init
    /\ Program1!Next = Drawer!Next
    /\ Program1!vars = Drawer!vars
<1>1. /\ Program1!Init = Drawer!Init
      /\ Program1!vars = Drawer!vars
  BY DEF Program1!Init, Program1!vars, Program1!NoTerms, Program1!NoRow, Program1!NoCall,
         Program1!Due, Program1!Unpaid, Program1!Absent, Program1!NoEdit, Drawer!Init,
         Drawer!vars, Drawer!NoTerms, Drawer!NoRow, Drawer!NoCall, Drawer!Due,
         Drawer!Unpaid, Drawer!Absent, Drawer!NoEdit
<1>2. Program1!Next = Drawer!Next
  BY DEF Program1!Next, Program1!OpenCheck, Program1!CloseRead, Program1!Advance,
         Program1!Request, Program1!OpenSessions, Program1!Begin, Program1!NoCall,
         Program1!MayClose, Program1!Sums, Program1!OpenCreate, Program1!CloseSum,
         Program1!CloseWrite, Program1!RecordSession, Program1!RecordWrite,
         Program1!UndoCheck, Program1!UndoWrite, Program1!EditSession, Program1!EditWrite,
         Program1!CreateSale, Program1!CollectNoShowFee, Program1!RefundIssuedRemainder,
         Program1!CreateExpense, Program1!RecordPay, Program1!AddTip, Program1!Receive,
         Program1!Delete, Program1!Undo, Program1!UpdateSale, Program1!LowerPending,
         Program1!Goto, Program1!Absent, Program1!NoEdit, Program1!NoTerms,
         Program1!Writing, Program1!Kind, Program1!Done, Program1!Terms, Program1!CashOnly,
         Program1!IsClosed, Program1!NoRow, Program1!FoundSession, Program1!Merge,
         Program1!Amount, Program1!Insert, Program1!Paid, Program1!MayWrite, Program1!Due,
         Program1!Edit, Program1!EditAllowed, Program1!TermOf, Program1!Unpaid,
         Program1!Fresh, Program1!Closing, Program1!MoneyChanged, Drawer!Next,
         Drawer!OpenCheck, Drawer!CloseRead, Drawer!Advance, Drawer!Request,
         Drawer!OpenSessions, Drawer!Begin, Drawer!NoCall, Drawer!MayClose, Drawer!Sums,
         Drawer!OpenCreate, Drawer!CloseSum, Drawer!CloseWrite, Drawer!RecordSession,
         Drawer!RecordWrite, Drawer!UndoCheck, Drawer!UndoWrite, Drawer!EditSession,
         Drawer!EditWrite, Drawer!CreateSale, Drawer!CollectNoShowFee,
         Drawer!RefundIssuedRemainder, Drawer!CreateExpense, Drawer!RecordPay,
         Drawer!AddTip, Drawer!Receive, Drawer!Delete, Drawer!Undo, Drawer!UpdateSale,
         Drawer!LowerPending, Drawer!Goto, Drawer!Absent, Drawer!NoEdit, Drawer!NoTerms,
         Drawer!Writing, Drawer!Kind, Drawer!Done, Drawer!Terms, Drawer!CashOnly,
         Drawer!IsClosed, Drawer!NoRow, Drawer!FoundSession, Drawer!Merge, Drawer!Amount,
         Drawer!Insert, Drawer!Paid, Drawer!MayWrite, Drawer!Due, Drawer!Edit,
         Drawer!EditAllowed, Drawer!TermOf, Drawer!Unpaid, Drawer!Fresh, Drawer!Closing,
         Drawer!MoneyChanged
<1> QED  BY <1>1, <1>2

LEMMA DrawerStays ==
    MCSpec => [][subject = "drawer" => Drawer!ClosedStays]_mcVars
<1> DEFINE Is == subject = "drawer"
<1>0. /\ RentOnly \in [One -> Program1!Kind]
      /\ 1 \in Nat \ {0}
      /\ None \notin Two \cup One \cup Worker /\ None # "paid"
      /\ TRUE \in BOOLEAN
  BY DrawerTables DEF Program1!Kind
<1>2. Program1!Spec => [][Program1!ClosedStays]_(Program1!vars)
  BY <1>0, Program1!CashDrawerCloseIsFinal DEF Program1!CloseIsFinal
<1>3. MCInit /\ Is => Program1!Init
  BY DrawerSame DEF MCInit
<1>4. Is /\ [MCNext]_mcVars => [Program1!Next]_(Program1!vars)
  <2>1. Is /\ MCNext => Program1!Next
    BY DrawerSame DEF MCNext
  <2> QED  BY <2>1 DEF mcVars, Program1!vars
<1>5. (Is /\ [MCNext]_mcVars => Is') /\ (~ Is /\ [MCNext]_mcVars => ~ Is')
  BY SubjectKept
<1>6. [Program1!ClosedStays]_(Program1!vars) => Drawer!ClosedStays
  BY DEF Program1!ClosedStays, Drawer!ClosedStays, Program1!vars
<1> HIDE DEF Is
<1>7. MCSpec => [][Is => Drawer!ClosedStays]_mcVars
  BY <1>2, <1>3, <1>4, <1>5, <1>6, PTL DEF MCSpec, Program1!Spec
<1> QED  BY <1>7 DEF Is

----------------------------------------------------------------------------
(* The proofs of ProgramProofs, for the parameters of packages, offers, payroll. *)
Program2 == INSTANCE ProgramProofs WITH
    Session <- Two, Entry <- One, KindOf <- RentOnly, MaxAmount <- 1, Part <- "package",
    UseId <- Three, MaxCrashes <- 2, TotalSessions <- 2, Limit <- None, LastCycle <- None,
    pkg <- v1, uses <- v2, job <- v3, lost <- v4, kept <- v5, overlap <- v6, SessSub <- v7,
    charged <- v8, SessPaid <- v9, blurred <- v10, FeatWorker <- {"w"}, PurchaseId <- One,
    Offers <- {1, 2}, Overlap <- FALSE, purchase <- v1, charge <- v2, offer <- v3,
    daysLeft <- v4, tip <- v5, dispute <- v6, FeatJob <- v7, crossed <- v8, EntryId <- Two,
    PayoutId <- Two, Day <- {1, 2}, Commission <- ByDay, PayTypes <- {"GREATER_OF"},
    FixedPerDay <- 1, Types <- {"TIP", "ADVANCE"}, Amounts <- {2}, payType <- v1,
    entries <- v2, payouts <- v3, PayJob <- v4, raced <- v5

(* "packages" *)

LEMMA PackSame ==
    /\ Program2!Sess!Init = Pack!Init
    /\ Program2!Sess!Next = Pack!Next
    /\ Program2!Sess!vars = Pack!vars
    /\ Program2!Sess!TypeOK = Pack!TypeOK
    /\ Program2!Sess!SessionsWithinTotal = Pack!SessionsWithinTotal
    /\ Program2!Sess!SessionsAccounted = Pack!SessionsAccounted
<1>1. /\ Program2!Sess!Init = Pack!Init
      /\ Program2!Sess!vars = Pack!vars
  BY DEF Program2!Sess!Init, Program2!Sess!vars, Program2!Sess!PackageInit,
         Program2!Sess!PackageIdle, Pack!Init, Pack!vars, Pack!PackageInit, Pack!PackageIdle
<1>2. Program2!Sess!Next = Pack!Next
  BY DEF Program2!Sess!Next, Program2!Sess!PackageNext, Program2!Sess!PurchaseClientPackage,
         Program2!Sess!Expire, Program2!Sess!CancelIssuedIfUnused,
         Program2!Sess!RefundIssuedRemainder, Program2!Sess!DeleteBarbershop,
         Program2!Sess!RestorePackageUses, Program2!Sess!DebitReads,
         Program2!Sess!DebitClientPackageSession, Program2!Sess!PreparePackageSession,
         Program2!Sess!UndoClientPackageUse, Program2!Sess!UndoMarks, Program2!Sess!Crash,
         Program2!Sess!RecordUse, Program2!Sess!SaleWithSession,
         Program2!Sess!PackageUndoReads, Program2!Sess!CanRestore, Program2!Sess!Restored,
         Program2!Sess!PackageIdle, Program2!Sess!Usable, Program2!Sess!Doing,
         Program2!Sess!CanDebit, Program2!Sess!Debited, Program2!Sess!PackageEnds,
         Pack!Next, Pack!PackageNext, Pack!PurchaseClientPackage, Pack!Expire,
         Pack!CancelIssuedIfUnused, Pack!RefundIssuedRemainder, Pack!DeleteBarbershop,
         Pack!RestorePackageUses, Pack!DebitReads, Pack!DebitClientPackageSession,
         Pack!PreparePackageSession, Pack!UndoClientPackageUse, Pack!UndoMarks, Pack!Crash,
         Pack!RecordUse, Pack!SaleWithSession, Pack!PackageUndoReads, Pack!CanRestore,
         Pack!Restored, Pack!PackageIdle, Pack!Usable, Pack!Doing, Pack!CanDebit,
         Pack!Debited, Pack!PackageEnds
<1>3. /\ Program2!Sess!TypeOK = Pack!TypeOK
      /\ Program2!Sess!SessionsWithinTotal = Pack!SessionsWithinTotal
      /\ Program2!Sess!SessionsAccounted = Pack!SessionsAccounted
  BY DEF Program2!Sess!TypeOK, Program2!Sess!SessionsWithinTotal,
         Program2!Sess!SessionsAccounted, Program2!Sess!PackageTypeOK,
         Program2!Sess!Cardinality, Program2!Sess!InFlight, Program2!Sess!Package,
         Program2!Sess!PackageUse, Program2!Sess!PackageJob, Pack!TypeOK,
         Pack!SessionsWithinTotal, Pack!SessionsAccounted, Pack!PackageTypeOK,
         Pack!Cardinality, Pack!InFlight, Pack!Package, Pack!PackageUse, Pack!PackageJob
<1> QED  BY <1>1, <1>2, <1>3

LEMMA PackSafe ==
    MCSpec => [](subject = "packages" => 
                 Pack!TypeOK /\ Pack!SessionsWithinTotal /\
                 Pack!SessionsAccounted)
<1> DEFINE Is == subject = "packages"
<1>0. /\ RentOnly \in [One -> Program2!Kind]
      /\ 1 \in Nat \ {0}
      /\ None \notin Two \cup One \cup Worker /\ None # "paid"
      /\ FALSE \in BOOLEAN
  BY DrawerTables DEF Program2!Kind
<1>1. Program2!OfPackage
  <2>1. Program2!IsFiniteSet(Worker) /\ Program2!IsFiniteSet(Three)
    BY Named DEF Program2!IsFiniteSet, IsFiniteSet
  <2> QED  BY <2>1, Named DEF Program2!OfPackage
<1>2. Program2!Sess!Spec => [](Program2!Sess!TypeOK /\ Program2!Sess!SessionsWithinTotal /\ Program2!Sess!SessionsAccounted)
  BY <1>0, <1>1, Program2!SessionsSoldTypeOK, Program2!PackageSessionsWithinTotal, Program2!PackageSessionsAccounted, PTL
<1>3. MCInit /\ Is => Program2!Sess!Init
  BY PackSame DEF MCInit
<1>4. Is /\ [MCNext]_mcVars => [Program2!Sess!Next]_(Program2!Sess!vars)
  <2>1. Is /\ MCNext => Program2!Sess!Next
    BY PackSame DEF MCNext
  <2> QED  BY <2>1 DEF mcVars, Program2!Sess!vars
<1>5. (Is /\ [MCNext]_mcVars => Is') /\ (~ Is /\ [MCNext]_mcVars => ~ Is')
  BY SubjectKept
<1>6. Program2!Sess!TypeOK /\ Program2!Sess!SessionsWithinTotal /\ Program2!Sess!SessionsAccounted => Pack!TypeOK /\ Pack!SessionsWithinTotal /\ Pack!SessionsAccounted
  BY PackSame
<1> HIDE DEF Is
<1>7. MCSpec => [](Is => Pack!TypeOK /\ Pack!SessionsWithinTotal /\ Pack!SessionsAccounted)
  BY <1>2, <1>3, <1>4, <1>5, <1>6, PTL DEF MCSpec, Program2!Sess!Spec
<1> QED  BY <1>7 DEF Is

LEMMA PackStays ==
    MCSpec => [][subject = "packages" => Pack!ClosedIsFinal]_mcVars
<1> DEFINE Is == subject = "packages"
<1>0. /\ RentOnly \in [One -> Program2!Kind]
      /\ 1 \in Nat \ {0}
      /\ None \notin Two \cup One \cup Worker /\ None # "paid"
      /\ FALSE \in BOOLEAN
  BY DrawerTables DEF Program2!Kind
<1>1. Program2!OfPackage
  <2>1. Program2!IsFiniteSet(Worker) /\ Program2!IsFiniteSet(Three)
    BY Named DEF Program2!IsFiniteSet, IsFiniteSet
  <2> QED  BY <2>1, Named DEF Program2!OfPackage
<1>2. Program2!Sess!Spec => [][Program2!Sess!ClosedIsFinal]_(Program2!Sess!vars)
  BY <1>0, <1>1, Program2!PackageClosedIsFinal
<1>3. MCInit /\ Is => Program2!Sess!Init
  BY PackSame DEF MCInit
<1>4. Is /\ [MCNext]_mcVars => [Program2!Sess!Next]_(Program2!Sess!vars)
  <2>1. Is /\ MCNext => Program2!Sess!Next
    BY PackSame DEF MCNext
  <2> QED  BY <2>1 DEF mcVars, Program2!Sess!vars
<1>5. (Is /\ [MCNext]_mcVars => Is') /\ (~ Is /\ [MCNext]_mcVars => ~ Is')
  BY SubjectKept
<1>6. [Program2!Sess!ClosedIsFinal]_(Program2!Sess!vars) => Pack!ClosedIsFinal
  BY DEF Program2!Sess!ClosedIsFinal, Pack!ClosedIsFinal, Program2!Sess!vars
<1> HIDE DEF Is
<1>7. MCSpec => [][Is => Pack!ClosedIsFinal]_mcVars
  BY <1>2, <1>3, <1>4, <1>5, <1>6, PTL DEF MCSpec, Program2!Sess!Spec
<1> QED  BY <1>7 DEF Is

----------------------------------------------------------------------------
(* "offers" *)

LEMMA OfferSame ==
    /\ Program2!Feat!Init = Offer!Init
    /\ Program2!Feat!Next = Offer!Next
    /\ Program2!Feat!vars = Offer!vars
<1>1. /\ Program2!Feat!Init = Offer!Init
      /\ Program2!Feat!vars = Offer!vars
  BY DEF Program2!Feat!Init, Program2!Feat!vars, Program2!Feat!Idle, Offer!Init, Offer!vars,
         Offer!Idle
<1>2. Program2!Feat!Next = Offer!Next
  BY DEF Program2!Feat!Next, Program2!Feat!Start, Program2!Feat!StartDrops,
         Program2!Feat!StartCreates, Program2!Feat!Finalize, Program2!Feat!FinalizeAdds,
         Program2!Feat!DisputeReads, Program2!Feat!RecordDispute,
         Program2!Feat!RevokeClaims, Program2!Feat!RevokeTakes, Program2!Feat!RefundTip,
         Program2!Feat!RefundTipCalls, Program2!Feat!RefundTipUndoes,
         Program2!Feat!FinalizeReads, Program2!Feat!RevokeReads, Program2!Feat!CustomerPays,
         Program2!Feat!MoneyReturned, Program2!Feat!OfferChanges,
         Program2!Feat!DisputeMoves, Program2!Feat!StartAppTip, Program2!Feat!TipPaid,
         Program2!Feat!FinalizeAppTip, Program2!Feat!TipReturnedAtStripe,
         Program2!Feat!SyncTipRefund, Program2!Feat!Free, Program2!Feat!Pending,
         Program2!Feat!Unused, Program2!Feat!NewPurchase, Program2!Feat!Doing,
         Program2!Feat!Ends, Program2!Feat!Claims, Program2!Feat!KeepsClosed,
         Program2!Feat!Revokes, Program2!Feat!Busy, Program2!Feat!Taken,
         Program2!Feat!Closed, Program2!Feat!TipRows, Program2!Feat!Idle,
         Program2!Feat!Settled, Offer!Next, Offer!Start, Offer!StartDrops,
         Offer!StartCreates, Offer!Finalize, Offer!FinalizeAdds, Offer!DisputeReads,
         Offer!RecordDispute, Offer!RevokeClaims, Offer!RevokeTakes, Offer!RefundTip,
         Offer!RefundTipCalls, Offer!RefundTipUndoes, Offer!FinalizeReads,
         Offer!RevokeReads, Offer!CustomerPays, Offer!MoneyReturned, Offer!OfferChanges,
         Offer!DisputeMoves, Offer!StartAppTip, Offer!TipPaid, Offer!FinalizeAppTip,
         Offer!TipReturnedAtStripe, Offer!SyncTipRefund, Offer!Free, Offer!Pending,
         Offer!Unused, Offer!NewPurchase, Offer!Doing, Offer!Ends, Offer!Claims,
         Offer!KeepsClosed, Offer!Revokes, Offer!Busy, Offer!Taken, Offer!Closed,
         Offer!TipRows, Offer!Idle, Offer!Settled
<1> QED  BY <1>1, <1>2

LEMMA OfferStays ==
    MCSpec => [][subject = "offers" => Offer!DisputeNotReopened]_mcVars
<1> DEFINE Is == subject = "offers"
<1>0. /\ RentOnly \in [One -> Program2!Kind]
      /\ 1 \in Nat \ {0}
      /\ None \notin Two \cup One \cup Worker /\ None # "paid"
      /\ FALSE \in BOOLEAN
  BY DrawerTables DEF Program2!Kind
<1>1. ~ FALSE /\ None \notin One
  BY Named
<1>2. Program2!Feat!Spec => [][Program2!Feat!DisputeNotReopened]_(Program2!Feat!vars)
  BY <1>0, <1>1, Program2!FeaturedDisputeNotReopened
<1>3. MCInit /\ Is => Program2!Feat!Init
  BY OfferSame DEF MCInit
<1>4. Is /\ [MCNext]_mcVars => [Program2!Feat!Next]_(Program2!Feat!vars)
  <2>1. Is /\ MCNext => Program2!Feat!Next
    BY OfferSame DEF MCNext
  <2> QED  BY <2>1 DEF mcVars, Program2!Feat!vars
<1>5. (Is /\ [MCNext]_mcVars => Is') /\ (~ Is /\ [MCNext]_mcVars => ~ Is')
  BY SubjectKept
<1>6. [Program2!Feat!DisputeNotReopened]_(Program2!Feat!vars) => Offer!DisputeNotReopened
  BY DEF Program2!Feat!DisputeNotReopened, Program2!Feat!Closed, Offer!DisputeNotReopened,
         Offer!Closed, Program2!Feat!vars
<1> HIDE DEF Is
<1>7. MCSpec => [][Is => Offer!DisputeNotReopened]_mcVars
  BY <1>2, <1>3, <1>4, <1>5, <1>6, PTL DEF MCSpec, Program2!Feat!Spec
<1> QED  BY <1>7 DEF Is

----------------------------------------------------------------------------
(* "payroll" *)

LEMMA PaySame ==
    /\ Program2!Pay!Init = Pay!Init
    /\ Program2!Pay!Next = Pay!Next
    /\ Program2!Pay!vars = Pay!vars
    /\ Program2!Pay!TypeOK = Pay!TypeOK
    /\ Program2!Pay!DayPaidOnce = Pay!DayPaidOnce
    /\ Program2!Pay!PayoutAddsUp = Pay!PayoutAddsUp
<1>1. /\ Program2!Pay!Init = Pay!Init
      /\ Program2!Pay!vars = Pay!vars
  BY DEF Program2!Pay!Init, Program2!Pay!vars, Program2!Pay!NoEntry, Program2!Pay!NoPayout,
         Program2!Pay!Idle, Pay!Init, Pay!vars, Pay!NoEntry, Pay!NoPayout, Pay!Idle
<1>2. Program2!Pay!Next = Pay!Next
  BY DEF Program2!Pay!Next, Program2!Pay!SetConfig, Program2!Pay!AddEntry,
         Program2!Pay!DeleteEntry, Program2!Pay!Pay, Program2!Pay!UndoPayout,
         Program2!Pay!DeleteReads, Program2!Pay!UndoReads, Program2!Pay!PayComputes,
         Program2!Pay!Unused, Program2!Pay!Ends, Program2!Pay!BaseAmount,
         Program2!Pay!CarryOf, Program2!Pay!NoPayout, Program2!Pay!MaxOf, Program2!Pay!Idle,
         Program2!Pay!OpenUntil, Program2!Pay!Locked, Program2!Pay!Overlapping,
         Program2!Pay!SumOf, Program2!Pay!NoEntry, Program2!Pay!CommissionOf,
         Program2!Pay!SumFunctionOnSet, Program2!Pay!Signed, Program2!Pay!FoldFunctionOnSet,
         Program2!Pay!MapThenFoldSet, Pay!Next, Pay!SetConfig, Pay!AddEntry,
         Pay!DeleteEntry, Pay!Pay, Pay!UndoPayout, Pay!DeleteReads, Pay!UndoReads,
         Pay!PayComputes, Pay!Unused, Pay!Ends, Pay!BaseAmount, Pay!CarryOf, Pay!NoPayout,
         Pay!MaxOf, Pay!Idle, Pay!OpenUntil, Pay!Locked, Pay!Overlapping, Pay!SumOf,
         Pay!NoEntry, Pay!CommissionOf, Pay!SumFunctionOnSet, Pay!Signed,
         Pay!FoldFunctionOnSet, Pay!MapThenFoldSet
<1>3. /\ Program2!Pay!TypeOK = Pay!TypeOK
      /\ Program2!Pay!DayPaidOnce = Pay!DayPaidOnce
      /\ Program2!Pay!PayoutAddsUp = Pay!PayoutAddsUp
  BY DEF Program2!Pay!TypeOK, Program2!Pay!DayPaidOnce, Program2!Pay!PayoutAddsUp,
         Program2!Pay!Entry, Program2!Pay!Payout, Program2!Pay!Job, Program2!Pay!Standing,
         Program2!Pay!Covers, Program2!Pay!SumOf, Program2!Pay!MaxOf,
         Program2!Pay!EntryType, Program2!Pay!SumFunctionOnSet, Program2!Pay!Signed,
         Program2!Pay!FoldFunctionOnSet, Program2!Pay!MapThenFoldSet, Pay!TypeOK,
         Pay!DayPaidOnce, Pay!PayoutAddsUp, Pay!Entry, Pay!Payout, Pay!Job, Pay!Standing,
         Pay!Covers, Pay!SumOf, Pay!MaxOf, Pay!EntryType, Pay!SumFunctionOnSet, Pay!Signed,
         Pay!FoldFunctionOnSet, Pay!MapThenFoldSet
<1> QED  BY <1>1, <1>2, <1>3

LEMMA PaySafe ==
    MCSpec => [](subject = "payroll" => 
                 Pay!TypeOK /\ Pay!DayPaidOnce /\ Pay!PayoutAddsUp)
<1> DEFINE Is == subject = "payroll"
<1>0. /\ RentOnly \in [One -> Program2!Kind]
      /\ 1 \in Nat \ {0}
      /\ None \notin Two \cup One \cup Worker /\ None # "paid"
      /\ FALSE \in BOOLEAN
  BY DrawerTables DEF Program2!Kind
<1>1. Program2!PayTables
  <2>1. Program2!IsFiniteSet(Two)
    BY Named DEF Program2!IsFiniteSet, IsFiniteSet
  <2> QED  BY <2>1, Named, DayTables DEF Program2!PayTables, Program2!Pay!EntryType
<1>2. Program2!Pay!Spec => [](Program2!Pay!TypeOK /\ Program2!Pay!DayPaidOnce /\ Program2!Pay!PayoutAddsUp)
  BY <1>0, <1>1, Program2!PayrollTypeOK, Program2!PayrollDayPaidOnce, Program2!PayrollAddsUp, PTL
<1>3. MCInit /\ Is => Program2!Pay!Init
  BY PaySame DEF MCInit
<1>4. Is /\ [MCNext]_mcVars => [Program2!Pay!Next]_(Program2!Pay!vars)
  <2>1. Is /\ MCNext => Program2!Pay!Next
    BY PaySame DEF MCNext
  <2> QED  BY <2>1 DEF mcVars, Program2!Pay!vars
<1>5. (Is /\ [MCNext]_mcVars => Is') /\ (~ Is /\ [MCNext]_mcVars => ~ Is')
  BY SubjectKept
<1>6. Program2!Pay!TypeOK /\ Program2!Pay!DayPaidOnce /\ Program2!Pay!PayoutAddsUp => Pay!TypeOK /\ Pay!DayPaidOnce /\ Pay!PayoutAddsUp
  BY PaySame
<1> HIDE DEF Is
<1>7. MCSpec => [](Is => Pay!TypeOK /\ Pay!DayPaidOnce /\ Pay!PayoutAddsUp)
  BY <1>2, <1>3, <1>4, <1>5, <1>6, PTL DEF MCSpec, Program2!Pay!Spec
<1> QED  BY <1>7 DEF Is

----------------------------------------------------------------------------
(* The proofs of ProgramProofs, for the parameters of sessions. *)
Program3 == INSTANCE ProgramProofs WITH
    Session <- Two, Entry <- One, KindOf <- RentOnly, MaxAmount <- 1, Overlap <- TRUE,
    Part <- "club", UseId <- Three, Limit <- 1, LastCycle <- 2, MaxCrashes <- None,
    TotalSessions <- None, pkg <- v1, uses <- v2, job <- v3, lost <- v4, kept <- v5,
    overlap <- v6, SessSub <- v7, charged <- v8, SessPaid <- v9, blurred <- v10

(* "sessions" *)

LEMMA ClubSame ==
    /\ Program3!Sess!Init = Club!Init
    /\ Program3!Sess!Next = Club!Next
    /\ Program3!Sess!vars = Club!vars
    /\ Program3!Sess!TypeOK = Club!TypeOK
    /\ Program3!Sess!WithinLimit = Club!WithinLimit
    /\ Program3!Sess!SessionsCounted = Club!SessionsCounted
<1>1. /\ Program3!Sess!Init = Club!Init
      /\ Program3!Sess!vars = Club!vars
  BY DEF Program3!Sess!Init, Program3!Sess!vars, Program3!Sess!ClubInit,
         Program3!Sess!ClubIdle, Club!Init, Club!vars, Club!ClubInit, Club!ClubIdle
<1>2. Program3!Sess!Next = Club!Next
  BY DEF Program3!Sess!Next, Program3!Sess!ClubNext, Program3!Sess!StripeTurnsCycle,
         Program3!Sess!InvoiceFailed, Program3!Sess!SyncClientClub,
         Program3!Sess!SubscriptionDeleted, Program3!Sess!DeleteSale,
         Program3!Sess!RedeemReads, Program3!Sess!PrepareClubSession,
         Program3!Sess!UndoClientSubscriptionUse, Program3!Sess!InvoiceSucceeded,
         Program3!Sess!UseSession, Program3!Sess!ClubUndoReads, Program3!Sess!Cycle,
         Program3!Sess!InvoiceReads, Program3!Sess!StatusEvent, Program3!Sess!SameCycle,
         Program3!Sess!Blurs, Program3!Sess!ClubIdle, Program3!Sess!HasSession,
         Program3!Sess!ClubEnds, Program3!Sess!UsedIn, Program3!Sess!Standing,
         Program3!Sess!AdvancesCycle, Club!Next, Club!ClubNext, Club!StripeTurnsCycle,
         Club!InvoiceFailed, Club!SyncClientClub, Club!SubscriptionDeleted, Club!DeleteSale,
         Club!RedeemReads, Club!PrepareClubSession, Club!UndoClientSubscriptionUse,
         Club!InvoiceSucceeded, Club!UseSession, Club!ClubUndoReads, Club!Cycle,
         Club!InvoiceReads, Club!StatusEvent, Club!SameCycle, Club!Blurs, Club!ClubIdle,
         Club!HasSession, Club!ClubEnds, Club!UsedIn, Club!Standing, Club!AdvancesCycle
<1>3. /\ Program3!Sess!TypeOK = Club!TypeOK
      /\ Program3!Sess!WithinLimit = Club!WithinLimit
      /\ Program3!Sess!SessionsCounted = Club!SessionsCounted
  BY DEF Program3!Sess!TypeOK, Program3!Sess!WithinLimit, Program3!Sess!SessionsCounted,
         Program3!Sess!ClubTypeOK, Program3!Sess!Cardinality, Program3!Sess!UsedIn,
         Program3!Sess!Subscription, Program3!Sess!ClubUse, Program3!Sess!Cycle,
         Program3!Sess!ClubJob, Program3!Sess!Status, Club!TypeOK, Club!WithinLimit,
         Club!SessionsCounted, Club!ClubTypeOK, Club!Cardinality, Club!UsedIn,
         Club!Subscription, Club!ClubUse, Club!Cycle, Club!ClubJob, Club!Status
<1> QED  BY <1>1, <1>2, <1>3

LEMMA ClubSafe ==
    MCSpec => [](subject = "sessions" => 
                 Club!TypeOK /\ Club!WithinLimit /\ Club!SessionsCounted)
<1> DEFINE Is == subject = "sessions"
<1>0. /\ RentOnly \in [One -> Program3!Kind]
      /\ 1 \in Nat \ {0}
      /\ None \notin Two \cup One \cup Worker /\ None # "paid"
      /\ TRUE \in BOOLEAN
  BY DrawerTables DEF Program3!Kind
<1>1. Program3!OfClub
  <2>1. Program3!IsFiniteSet(Three)
    BY Named DEF Program3!IsFiniteSet, IsFiniteSet
  <2> QED  BY <2>1 DEF Program3!OfClub
<1>2. Program3!Sess!Spec => [](Program3!Sess!TypeOK /\ Program3!Sess!WithinLimit /\ Program3!Sess!SessionsCounted)
  BY <1>0, <1>1, Program3!SessionsSoldTypeOK, Program3!ClubWithinLimit, Program3!ClubSessionsCounted, PTL
<1>3. MCInit /\ Is => Program3!Sess!Init
  BY ClubSame DEF MCInit
<1>4. Is /\ [MCNext]_mcVars => [Program3!Sess!Next]_(Program3!Sess!vars)
  <2>1. Is /\ MCNext => Program3!Sess!Next
    BY ClubSame DEF MCNext
  <2> QED  BY <2>1 DEF mcVars, Program3!Sess!vars
<1>5. (Is /\ [MCNext]_mcVars => Is') /\ (~ Is /\ [MCNext]_mcVars => ~ Is')
  BY SubjectKept
<1>6. Program3!Sess!TypeOK /\ Program3!Sess!WithinLimit /\ Program3!Sess!SessionsCounted => Club!TypeOK /\ Club!WithinLimit /\ Club!SessionsCounted
  BY ClubSame
<1> HIDE DEF Is
<1>7. MCSpec => [](Is => Club!TypeOK /\ Club!WithinLimit /\ Club!SessionsCounted)
  BY <1>2, <1>3, <1>4, <1>5, <1>6, PTL DEF MCSpec, Program3!Sess!Spec
<1> QED  BY <1>7 DEF Is

----------------------------------------------------------------------------

LEMMA AlwaysPromised == MCSpec => []Promised
<1>1. MCSpec => []PromisedBySessions
  BY PackSafe, ClubSafe, PTL DEF PromisedBySessions
<1>2. MCSpec => []PromisedByDues
  BY PaySafe, RentsSafe, PTL DEF PromisedByDues
<1> QED  BY <1>1, <1>2, PTL DEF Promised

(* The sessions of a package or of the club are given once, for any number  *)
(* of requests and uses (debitClientPackageSession, restorePackageUses,     *)
(* redeemClientSubscriptionSession,                                         *)
(* handleClientSubscriptionInvoiceSucceeded).                               *)
THEOREM ProgramSessionsHonest == MCSpec => []SessionsHonest
BY AlwaysPromised, PromisedSessionsHonest, PTL

(* A day of a professional is in one payout, which is the sum of what it    *)
(* took, and a month of rent is owed once, with one expense per payment and *)
(* one overdue notice, for any number of requests (PayrollService.pay,      *)
(* ChairRentService.recordPayment, generateDues, notifyOverdue).            *)
THEOREM ProgramDuesPaidOnce == MCSpec => []DuesPaidOnce
BY AlwaysPromised, PromisedDuesPaidOnce, PTL

(* A package that was cancelled or refunded, a rent that was paid, a        *)
(* dispute that Stripe closed and a cash session that was closed stay so,   *)
(* for any number of requests and rows (RESTORABLE_PACKAGE,                 *)
(* recordInvoicePayment, recordDispute, closeCashSession).                  *)
THEOREM ProgramNothingReopens == MCSpec => NothingReopens
BY PackStays, RentsStays, DrawerStays, OfferStays, PTL DEF NothingReopens
=============================================================================
