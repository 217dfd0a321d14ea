---------------------------- MODULE SessionsSold ----------------------------
(***************************************************************************)
(* The sessions that a shop sells ahead: packages, and the plans of the    *)
(* club.                                                                   *)
(***************************************************************************)
EXTENDS Integers, FiniteSets

CONSTANTS
    Part,           \* the flow that is explored: "package", "club"
    Worker,         \* concurrent requests; requests and webhook deliveries in progress
    UseId,          \* rows of ClientPackageUse; rows of ClientSubscriptionUse
    None,
    MaxCrashes,     \* bound on the crashes between two statements
    TotalSessions,  \* sessions of the package that is sold
    Limit,          \* sessionsPerCycle
    LastCycle       \* bound on the cycles Stripe charges

VARIABLES
    pkg,      \* the row of ClientPackage
    uses,     \* the rows of ClientPackageUse; the rows of ClientSubscriptionUse
    job,      \* what each request is doing; what each request read
    lost,     \* history: sessions debited whose use was never recorded
    kept,     \* history: uses given back by hand that were never marked
    overlap,  \* history: two undos worked on one use at once
    sub,      \* the row of ClientSubscription
    charged,  \* the cycle Stripe is in
    paid,     \* invoices recorded as SUCCEEDED (ClientSubscriptionPayment)
    blurred   \* history: a cycle was confused, see Blurs

(***************************************************************************)
(* "package". One package of sessions a customer bought (ClientPackage)    *)
(* and the rows of its uses (ClientPackageUse). A use recorded by hand     *)
(* takes two statements without a transaction, as does its undo; inside a  *)
(* sale the use is part of the transaction of the sale.                    *)
(***************************************************************************)

packageVars == <<pkg, uses, job, lost, kept, overlap>>

Package == [status : {"none", "ACTIVE", "COMPLETED", "CANCELLED"}, used : Nat, total : Nat,
            refunded : BOOLEAN, expired : BOOLEAN]

(* A use made in a sale keeps the id of the sale after the sale is deleted. *)
PackageUse == [state : {"absent", "standing", "undone"}, inSale : BOOLEAN]

PackageJob == [op : {"idle", "debit", "record", "sell", "undo", "mark"}, use : UseId \cup {None}]

PackageIdle == [op |-> "idle", use |-> None]
Doing(op, u) == [op |-> op, use |-> u]
PackageEnds(w) == job' = [job EXCEPT ![w] = PackageIdle]

PackageInit ==
    /\ pkg = [status |-> "none", used |-> 0, total |-> TotalSessions,
              refunded |-> FALSE, expired |-> FALSE]
    /\ uses = [u \in UseId |-> [state |-> "absent", inSale |-> FALSE]]
    /\ job = [w \in Worker |-> PackageIdle]
    /\ lost = 0 /\ kept = 0 /\ overlap = FALSE

(***************************************************************************)
(* The two conditional updates                                             *)
(***************************************************************************)

Usable == pkg.status = "ACTIVE" /\ ~pkg.expired

CanDebit == Usable /\ pkg.used < pkg.total

Debited ==
    [pkg EXCEPT !.used = @ + 1,
                !.status = IF pkg.used + 1 >= pkg.total THEN "COMPLETED" ELSE "ACTIVE"]

MutCanRestore == pkg.status \in {"ACTIVE", "COMPLETED"} /\ pkg.used > 0

MutNoFloor == pkg.status \in {"ACTIVE", "COMPLETED"} /\ ~pkg.refunded

(* RESTORABLE_PACKAGE and a session to give back *)
CanRestore == pkg.status \in {"ACTIVE", "COMPLETED"} /\ ~pkg.refunded /\ pkg.used > 0

Restored(n) == [pkg EXCEPT !.used = @ - n, !.status = "ACTIVE"]

(***************************************************************************)
(* Operations                                                              *)
(***************************************************************************)

(* Sold with its own sale in one transaction (recordStandaloneSale) *)
PurchaseClientPackage ==
    /\ pkg.status = "none"
    /\ pkg' = [pkg EXCEPT !.status = "ACTIVE"]
    /\ UNCHANGED <<uses, job, lost, kept, overlap>>

Expire ==
    /\ pkg.status # "none" /\ ~pkg.expired
    /\ pkg' = [pkg EXCEPT !.expired = TRUE]
    /\ UNCHANGED <<uses, job, lost, kept, overlap>>

DebitReads(w) ==
    /\ job[w] = PackageIdle /\ Usable
    /\ job' = [job EXCEPT ![w] = Doing("debit", None)]
    /\ UNCHANGED <<pkg, uses, lost, kept, overlap>>

DebitClientPackageSession(w) ==
    /\ job[w].op = "debit"
    /\ \/ CanDebit /\ pkg' = Debited /\ job' = [job EXCEPT ![w] = Doing("record", None)]
       \/ ~CanDebit /\ pkg' = pkg /\ PackageEnds(w)
    /\ UNCHANGED <<uses, lost, kept, overlap>>

RecordUse(w, u) ==
    /\ job[w].op = "record" /\ uses[u].state = "absent"
    /\ uses' = [uses EXCEPT ![u] = [state |-> "standing", inSale |-> FALSE]]
    /\ PackageEnds(w)
    /\ UNCHANGED <<pkg, lost, kept, overlap>>

PreparePackageSession(w) ==
    /\ job[w] = PackageIdle /\ CanDebit
    /\ job' = [job EXCEPT ![w] = Doing("sell", None)]
    /\ UNCHANGED <<pkg, uses, lost, kept, overlap>>

(* The sale is committed with the debit and the use, or not at all. *)
SaleWithSession(w, u) ==
    /\ job[w].op = "sell" /\ uses[u].state = "absent"
    /\ \/ /\ CanDebit
          /\ pkg' = Debited
          /\ uses' = [uses EXCEPT ![u] = [state |-> "standing", inSale |-> TRUE]]
       \/ ~CanDebit /\ UNCHANGED <<pkg, uses>>
    /\ PackageEnds(w)
    /\ UNCHANGED <<lost, kept, overlap>>

MutRestorePackageUses(u) ==
    /\ uses[u] = [state |-> "standing", inSale |-> TRUE]
    /\ pkg' = IF CanRestore THEN Restored(1) ELSE pkg
    /\ uses' = [uses EXCEPT ![u].state = "undone"]
    /\ UNCHANGED <<job, lost, kept, overlap>>

(* deleteSale of a sale with a session: the sale goes, the session comes    *)
(* back only when the package may still gain one (restorePackageUses).      *)
RestorePackageUses(u) ==
    /\ uses[u] = [state |-> "standing", inSale |-> TRUE] /\ CanRestore
    /\ pkg' = Restored(1)
    /\ uses' = [uses EXCEPT ![u].state = "undone"]
    /\ UNCHANGED <<job, lost, kept, overlap>>

PackageUndoReads(w, u) ==
    /\ job[w] = PackageIdle
    /\ uses[u] = [state |-> "standing", inSale |-> FALSE]
    /\ pkg.status # "CANCELLED" /\ ~pkg.refunded
    /\ job' = [job EXCEPT ![w] = Doing("undo", u)]
    /\ overlap' = (overlap \/ \E v \in Worker : job[v].use = u)
    /\ UNCHANGED <<pkg, uses, lost, kept>>

UndoClientPackageUse(w) ==
    /\ job[w].op = "undo"
    /\ \/ CanRestore /\ pkg' = Restored(1) /\ job' = [job EXCEPT ![w].op = "mark"]
       \/ ~CanRestore /\ pkg' = pkg /\ PackageEnds(w)
    /\ UNCHANGED <<uses, lost, kept, overlap>>

UndoMarks(w) ==
    /\ job[w].op = "mark"
    /\ uses' = [uses EXCEPT ![job[w].use].state = "undone"]
    /\ PackageEnds(w)
    /\ UNCHANGED <<pkg, lost, kept, overlap>>

(* The process stops: what it committed stays, what came next never runs. *)
Crash(w) ==
    /\ job[w] # PackageIdle /\ lost + kept < MaxCrashes
    /\ lost' = lost + (IF job[w].op = "record" THEN 1 ELSE 0)
    /\ kept' = kept + (IF job[w].op = "mark" THEN 1 ELSE 0)
    /\ PackageEnds(w)
    /\ UNCHANGED <<pkg, uses, overlap>>

(* deleteSale of the sale that issued the package *)
CancelIssuedIfUnused ==
    /\ pkg.status = "ACTIVE" /\ pkg.used = 0
    /\ pkg' = [pkg EXCEPT !.status = "CANCELLED"]
    /\ UNCHANGED <<uses, job, lost, kept, overlap>>

RefundIssuedRemainder ==
    /\ pkg.status = "ACTIVE" /\ pkg.used > 0 /\ pkg.used < pkg.total
    /\ pkg' = [pkg EXCEPT !.total = pkg.used, !.status = "COMPLETED", !.refunded = TRUE]
    /\ UNCHANGED <<uses, job, lost, kept, overlap>>

(* deleteBarbershop ends the packages that are in use. *)
DeleteBarbershop ==
    /\ pkg.status = "ACTIVE"
    /\ pkg' = [pkg EXCEPT !.status = "CANCELLED"]
    /\ UNCHANGED <<uses, job, lost, kept, overlap>>

PackageNext ==
    \/ PurchaseClientPackage \/ Expire
    \/ CancelIssuedIfUnused \/ RefundIssuedRemainder \/ DeleteBarbershop
    \/ \E u \in UseId : RestorePackageUses(u)
    \/ \E w \in Worker : \/ DebitReads(w) \/ DebitClientPackageSession(w)
                         \/ PreparePackageSession(w)
                         \/ UndoClientPackageUse(w) \/ UndoMarks(w) \/ Crash(w)
                         \/ \E u \in UseId : \/ RecordUse(w, u) \/ SaleWithSession(w, u)
                                             \/ PackageUndoReads(w, u)

(***************************************************************************)
(* Properties                                                              *)
(***************************************************************************)

PackageTypeOK ==
    /\ pkg \in Package
    /\ uses \in [UseId -> PackageUse]
    /\ job \in [Worker -> PackageJob]
    /\ lost \in Nat /\ kept \in Nat /\ overlap \in BOOLEAN

(* A package is in use exactly while it has sessions left and finished      *)
(* exactly when none is, however debits, undos, refunds and sales overlap   *)
(* (the CASE of the debit, RESTORABLE_PACKAGE).                             *)
SessionsWithinTotal ==
    /\ pkg.status = "ACTIVE" => pkg.used < pkg.total
    /\ pkg.status = "COMPLETED" => pkg.used = pkg.total

InFlight(op) == Cardinality({w \in Worker : job[w].op = op})

(* While no two undos work on one use, the sessions used are the uses that  *)
(* stand, but for the statements a crash or a running request still owes    *)
(* (debitClientPackageSession, undoClientPackageUse, restorePackageUses).   *)
SessionsAccounted ==
    ~overlap => pkg.used = Cardinality({u \in UseId : uses[u].state = "standing"})
                           + lost + InFlight("record") - kept - InFlight("mark")

(* A package that was cancelled, or whose remainder was paid back, never    *)
(* gains or loses a session again (cancelIssuedIfUnused, the refund mark).  *)
ClosedIsFinal ==
    (pkg.status = "CANCELLED" \/ pkg.refunded) =>
       /\ pkg'.status = pkg.status
       /\ pkg'.used = pkg.used /\ pkg'.total = pkg.total

(***************************************************************************)
(* "club". One subscription of a client to the club of a shop: the         *)
(* sessions used in its cycle, the rows of its uses, and the invoices      *)
(* Stripe charges. Cycles are numbered; the row holds the cycle it         *)
(* believes in (currentPeriodStart) and Stripe turns to the next one on    *)
(* its own. Webhooks are delivered late, twice and out of order.           *)
(***************************************************************************)

Cycle == 1 .. LastCycle

clubVars == <<sub, uses, charged, paid, job, blurred>>

Status == {"INCOMPLETE", "ACTIVE", "PAST_DUE", "CANCELED"}

Subscription == [status : Status, used : Int, cycle : Cycle]

(* periodStart is the cycle of the row when the session was used; createdAt *)
(* is the cycle Stripe was in, which is what the clock says.                *)
ClubUse == [state : {"absent", "standing", "undone"}, inSale : BOOLEAN,
        periodStart : Cycle, createdAt : Cycle]

ClubJob == [op : {"idle", "redeem", "sell", "undo", "invoice"}, use : UseId \cup {None},
        invoice : Cycle, advances : BOOLEAN, current : Cycle]

ClubIdle == [op |-> "idle", use |-> None, invoice |-> 1, advances |-> FALSE, current |-> 1]

ClubEnds(w) == job' = [job EXCEPT ![w] = ClubIdle]

ClubInit ==
    /\ sub \in [status : {"INCOMPLETE", "ACTIVE"}, used : {0}, cycle : {1}]
    /\ uses = [u \in UseId |-> [state |-> "absent", inSale |-> FALSE,
                                periodStart |-> 1, createdAt |-> 1]]
    /\ charged = 1 /\ paid = {}
    /\ job = [w \in Worker |-> ClubIdle]
    /\ blurred = FALSE

UsedIn(cycle) == {u \in UseId : uses[u].state = "standing" /\ uses[u].periodStart = cycle}

(* What the history marks: a session given back to another cycle than its   *)
(* own, and an invoice that opens a cycle in which sessions were used.      *)
Blurs(condition) == blurred' = (blurred \/ condition)

(***************************************************************************)
(* Stripe                                                                  *)
(***************************************************************************)

StripeTurnsCycle ==
    /\ charged < LastCycle
    /\ charged' = charged + 1
    /\ UNCHANGED <<sub, uses, paid, job, blurred>>

(***************************************************************************)
(* Using a session and giving it back                                      *)
(***************************************************************************)

HasSession == sub.status = "ACTIVE" /\ sub.used < Limit

(* recordClubUse *)
Standing(inSale) == [state |-> "standing", inSale |-> inSale,
                     periodStart |-> sub.cycle, createdAt |-> charged]

RedeemReads(w) ==
    /\ job[w] = ClubIdle /\ sub.status = "ACTIVE"
    /\ job' = [job EXCEPT ![w].op = "redeem"]
    /\ UNCHANGED <<sub, uses, charged, paid, blurred>>

PrepareClubSession(w) ==
    /\ job[w] = ClubIdle /\ HasSession
    /\ job' = [job EXCEPT ![w].op = "sell"]
    /\ UNCHANGED <<sub, uses, charged, paid, blurred>>

(* The conditional update and the use, in the transaction of the request or *)
(* of the sale *)
UseSession(w, u) ==
    /\ job[w].op \in {"redeem", "sell"} /\ uses[u].state = "absent"
    /\ \/ /\ HasSession
          /\ sub' = [sub EXCEPT !.used = @ + 1]
          /\ uses' = [uses EXCEPT ![u] = Standing(job[w].op = "sell")]
       \/ ~HasSession /\ UNCHANGED <<sub, uses>>
    /\ ClubEnds(w)
    /\ UNCHANGED <<charged, paid, blurred>>

ClubUndoReads(w, u) ==
    /\ job[w] = ClubIdle
    /\ uses[u].state = "standing" /\ ~uses[u].inSale
    /\ uses[u].periodStart = sub.cycle
    /\ job' = [job EXCEPT ![w].op = "undo", ![w].use = u]
    /\ UNCHANGED <<sub, uses, charged, paid, blurred>>

(* The mark is conditional, the decrement does not ask for the cycle again. *)
UndoClientSubscriptionUse(w) ==
    LET u == job[w].use IN
    /\ job[w].op = "undo"
    /\ \/ /\ uses[u].state = "standing"
          /\ uses' = [uses EXCEPT ![u].state = "undone"]
          /\ sub' = [sub EXCEPT !.used = IF @ > 0 THEN @ - 1 ELSE @]
          /\ Blurs(uses[u].periodStart # sub.cycle)
       \/ uses[u].state # "standing" /\ UNCHANGED <<sub, uses, blurred>>
    /\ ClubEnds(w)
    /\ UNCHANGED <<charged, paid>>

(* deleteSale gives the session back when the sale was made after the cycle *)
(* of the row began; the use is marked in any case. *)
SameCycle(u) == sub.cycle <= uses[u].createdAt

DeleteSale(u) ==
    /\ uses[u].state = "standing" /\ uses[u].inSale
    /\ sub' = [sub EXCEPT !.used = IF @ > 0 /\ SameCycle(u) THEN @ - 1 ELSE @]
    /\ uses' = [uses EXCEPT ![u].state = "undone"]
    /\ Blurs(SameCycle(u) /\ uses[u].periodStart # sub.cycle)
    /\ UNCHANGED <<charged, paid, job>>

(***************************************************************************)
(* Webhooks                                                                *)
(***************************************************************************)

(* The period of the invoice ends where the next cycle starts. *)
AdvancesCycle(invoice) == invoice + 1 > sub.cycle

InvoiceReads(w, invoice) ==
    /\ job[w] = ClubIdle /\ invoice <= charged
    /\ job' = [job EXCEPT ![w] = [op |-> "invoice", use |-> None, invoice |-> invoice,
                                  advances |-> AdvancesCycle(invoice),
                                  current |-> charged]]
    /\ UNCHANGED <<sub, uses, charged, paid, blurred>>

(* handleClientSubscriptionInvoiceSucceeded, under the lock of the invoice. *)
(* What it writes was read before the lock. *)
InvoiceSucceeded(w) ==
    LET j == job[w] IN
    /\ j.op = "invoice"
    /\ \/ /\ j.invoice \notin paid
          /\ paid' = paid \cup {j.invoice}
          /\ sub' = IF j.advances
                    THEN [status |-> "ACTIVE", used |-> 0, cycle |-> j.current] ELSE sub
          /\ Blurs(j.advances /\ UsedIn(j.current) # {})
       \/ j.invoice \in paid /\ UNCHANGED <<sub, paid, blurred>>
    /\ ClubEnds(w)
    /\ UNCHANGED <<uses, charged>>

(* invoice.payment_failed, customer.subscription.updated and .deleted set   *)
(* the status the event carries. *)
StatusEvent(status) ==
    /\ sub.status # status
    /\ sub' = [sub EXCEPT !.status = status]
    /\ UNCHANGED <<uses, charged, paid, job, blurred>>

InvoiceFailed == StatusEvent("PAST_DUE")
SyncClientClub == \E status \in {"ACTIVE", "PAST_DUE", "CANCELED"} : StatusEvent(status)
SubscriptionDeleted == StatusEvent("CANCELED")

ClubNext ==
    \/ StripeTurnsCycle \/ InvoiceFailed \/ SyncClientClub \/ SubscriptionDeleted
    \/ \E u \in UseId : DeleteSale(u)
    \/ \E w \in Worker : \/ RedeemReads(w) \/ PrepareClubSession(w)
                         \/ UndoClientSubscriptionUse(w) \/ InvoiceSucceeded(w)
                         \/ \E u \in UseId : UseSession(w, u) \/ ClubUndoReads(w, u)
                         \/ \E invoice \in Cycle : InvoiceReads(w, invoice)

(***************************************************************************)
(* Properties                                                              *)
(***************************************************************************)

ClubTypeOK ==
    /\ sub \in Subscription
    /\ uses \in [UseId -> ClubUse]
    /\ charged \in Cycle /\ paid \subseteq Cycle
    /\ job \in [Worker -> ClubJob]
    /\ blurred \in BOOLEAN

(* The sessions used in the cycle never pass the limit of the plan nor fall *)
(* below zero, whatever overlaps (the conditional updates).                 *)
WithinLimit == sub.used \in 0 .. Limit

(* While every step saw one cycle, the counter is the number of uses that   *)
(* stand in the cycle: repeated invoices free nothing, and undone sessions  *)
(* and deleted sales come back once.                                        *)
SessionsCounted == ~blurred => sub.used = Cardinality(UsedIn(sub.cycle))

(* A deleted sale gives its session back only to the cycle it was taken     *)
(* from (the comment at deleteSale: "volta, se ainda é o mesmo ciclo").     *)
SaleGivesBackItsCycle ==
    [][\A u \in UseId :
          (/\ uses[u].inSale /\ uses[u].state = "standing" /\ uses'[u].state = "undone"
           /\ sub'.used < sub.used)
          => uses[u].periodStart = sub.cycle]_clubVars

(***************************************************************************)
(* The component: one part at a time. The other parts have no state then.  *)
(***************************************************************************)

vars == <<pkg, uses, job, lost, kept, overlap, sub, charged, paid, blurred>>

Init ==
    \/ /\ Part = "package" /\ PackageInit
          /\ sub = None /\ charged = None /\ paid = None /\ blurred = None
    \/ /\ Part = "club" /\ ClubInit
          /\ pkg = None /\ lost = None /\ kept = None /\ overlap = None

Next ==
    \/ Part = "package" /\ PackageNext /\ UNCHANGED <<sub, charged, paid, blurred>>
    \/ Part = "club" /\ ClubNext /\ UNCHANGED <<pkg, lost, kept, overlap>>

Spec == Init /\ [][Next]_vars

TypeOK ==
    /\ Part = "package" => PackageTypeOK
    /\ Part = "club" => ClubTypeOK
=============================================================================
