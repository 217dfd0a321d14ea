------------------------------- MODULE Endings ------------------------------
(***************************************************************************)
(* What ends: a shop that closes or an account that is erased, and data    *)
(* that is too old.                                                        *)
(***************************************************************************)
EXTENDS Integers, FiniteSets

CONSTANTS
    Part,      \* the flow that is explored: "closing", "retention"
    Worker,
    None,
    ApptId,
    SubId,
    Requests,  \* bound on the requests of the owner
    Faults,    \* "cancel", "refund": these calls to Stripe may fail; "customers": customers
               \* act while a request is halfway; "together": two requests run together
    RowId,     \* rows of one table
    Kind,      \* what the rows are
    Batch,     \* rows of a batch
    MaxTime,   \* bound on the clock
    Overlap    \* whether people act while the job is halfway

VARIABLES
    shop,   \* "open", "closed"
    appt,   \* the appointments that are to come, with their deposit
    sub,    \* the subscriptions of the customers, with the paid cycle
    link,   \* the shared space: its row, and whether the rent is charged
    pack,   \* what counts while the shop is open: a package, an entry of the waiting list, a
            \* planned post: "ACTIVE", "CANCELLED"
    owner,  \* the account of the owner: its row, and its plan at Stripe
    made,   \* number of requests of the owner
    req,
    now,
    rows,   \* the rows of the table
    lost,   \* rows that were erased while they were due to stay
    job     \* the run of the job: what was due when it began, and its batch

(***************************************************************************)
(* "closing". The end of a shop, and of the account of its owner: the      *)
(* subscriptions of the customers and the rent of a chair end at Stripe,   *)
(* the future appointments are cancelled and what was paid for them goes   *)
(* back, and one transaction closes the shop. A call to Stripe that fails  *)
(* stops the request, which the owner repeats.                             *)
(***************************************************************************)

closingVars == <<shop, appt, sub, link, pack, owner, made, req>>

AppointmentRow == [status : {"none", "PENDING_PAYMENT", "CONFIRMED", "CANCELLED"}, paid : BOOLEAN,
                   money : {"none", "taken", "back"}]
SubscriptionRow == [status : {"none", "ACTIVE", "PAST_DUE", "CANCELED"}, live : BOOLEAN,
                    cycle : {"none", "paid", "claimed", "back"}]
LinkRow == [status : {"ACTIVE", "REMOVED"}, live : BOOLEAN]

(* What a request has to do, in order; to erase an account is to do it     *)
(* twice, the second time as the closing of the shop.                      *)
Free == [op |-> "free", pc |-> "free", todo |-> {}, at |-> None, refunds |-> {}]
Idle == \A w \in Worker : req[w] = Free
Customers == Idle \/ "customers" \in Faults

ClosingInit ==
    /\ shop = "open"
    /\ appt = [a \in ApptId |-> [status |-> "none", paid |-> FALSE, money |-> "none"]]
    /\ sub = [s \in SubId |-> [status |-> "none", live |-> FALSE, cycle |-> "none"]]
    /\ link = [status |-> "ACTIVE", live |-> TRUE]
    /\ pack = "ACTIVE" /\ owner = [row |-> "active", plan |-> TRUE] /\ made = 0
    /\ req = [w \in Worker |-> Free]

Leaves(w) == req' = [req EXCEPT ![w] = Free]

(***************************************************************************)
(* The customers                                                           *)
(***************************************************************************)

Book(a) ==
    /\ Customers /\ shop = "open" /\ appt[a].status = "none"
    /\ appt' = [appt EXCEPT ![a].status = "PENDING_PAYMENT"]
    /\ UNCHANGED <<shop, sub, link, pack, owner, made, req>>

(* the webhook of the deposit; a payment that comes too late is refunded   *)
Pays(a) ==
    /\ Customers /\ appt[a].status = "PENDING_PAYMENT"
    /\ appt' = [appt EXCEPT ![a] = [status |-> "CONFIRMED", paid |-> TRUE, money |-> "taken"]]
    /\ UNCHANGED <<shop, sub, link, pack, owner, made, req>>

Joins(s) ==
    /\ Customers /\ shop = "open" /\ sub[s].status = "none"
    /\ sub' = [sub EXCEPT ![s] = [status |-> "ACTIVE", live |-> TRUE, cycle |-> "paid"]]
    /\ UNCHANGED <<shop, appt, link, pack, owner, made, req>>

(* an invoice of the next cycle that the card refuses *)
FallsDue(s) ==
    /\ Customers /\ sub[s].status = "ACTIVE"
    /\ sub' = [sub EXCEPT ![s] = [@ EXCEPT !.status = "PAST_DUE", !.cycle = "none"]]
    /\ UNCHANGED <<shop, appt, link, pack, owner, made, req>>

(***************************************************************************)
(* deleteBarbershop and erase, and their steps                             *)
(***************************************************************************)

ToCancel == {s \in SubId : sub[s].status \notin {"none", "CANCELED"}}

UnusedClubCycles == {s \in SubId : sub[s].status = "ACTIVE" /\ sub[s].cycle = "paid"}

(* ensureBarbershopAccess: the owner, of a shop that is not closed; the    *)
(* account, while it exists                                                *)
Start(w, op) ==
    /\ req[w] = Free /\ (Idle \/ "together" \in Faults)
    /\ IF op = "close" THEN shop = "open" ELSE owner.row = "active"
    /\ made < Requests /\ made' = made + 1
    /\ req' = [req EXCEPT ![w] = [op |-> op, pc |-> "subs", todo |-> ToCancel, at |-> None, refunds |-> UnusedClubCycles]]
    /\ UNCHANGED <<shop, appt, sub, link, pack, owner>>

(* cancelClientSubscriptionsOfBarbershops: what Stripe does not know any   *)
(* more is as good as cancelled                                            *)
CancelSub(w) ==
    /\ req[w].pc = "subs"
    /\ \E s \in req[w].todo :
          /\ sub' = [sub EXCEPT ![s].status = "CANCELED", ![s].live = FALSE]
          /\ req' = [req EXCEPT ![w].todo = @ \ {s}]
    /\ UNCHANGED <<shop, appt, link, pack, owner, made>>

(* any other error of Stripe, of a subscription or of the rent *)
CancelFails(w) ==
    /\ "cancel" \in Faults
    /\ (req[w].pc = "subs" /\ req[w].todo # {}) \/ (req[w].pc = "rent" /\ link.live)
    /\ Leaves(w)
    /\ UNCHANGED <<shop, appt, sub, link, pack, owner, made>>

(* refundUnusedClubCycle: the row is claimed, Stripe is asked, and an      *)
(* error puts the row back and is only logged                              *)
ClaimCycle(w) ==
    /\ req[w].pc = "subs" /\ req[w].todo = {} /\ req[w].at = None
    /\ IF req[w].refunds = {} THEN req' = [req EXCEPT ![w].pc = "rent"] /\ UNCHANGED sub
       ELSE \E s \in req[w].refunds :
               /\ sub' = [sub EXCEPT ![s].cycle = IF @ = "paid" THEN "claimed" ELSE @]
               /\ req' = [req EXCEPT ![w].at = IF sub[s].cycle = "paid" THEN s ELSE None, ![w].refunds = @ \ {s}]
    /\ UNCHANGED <<shop, appt, link, pack, owner, made>>

RefundCycle(w) ==
    /\ req[w].pc = "subs" /\ req[w].at \in SubId
    /\ \E answer \in {"back"} \cup (IF "refund" \in Faults THEN {"paid"} ELSE {}) :
          sub' = [sub EXCEPT ![req[w].at].cycle = answer]
    /\ req' = [req EXCEPT ![w].at = None]
    /\ UNCHANGED <<shop, appt, link, pack, owner, made>>

(* futureAppointmentsWhere, with the deposits that the list saw *)
ToEnd == {<<a, appt[a].paid>> : a \in {b \in ApptId : appt[b].status \in {"CONFIRMED", "PENDING_PAYMENT"}}}

(* endSharedLocationsOfBarbershops; for an account only the charge of the  *)
(* rent ends, cancelChairRentsOfBarbershops, and the link with each shop   *)
EndLink(w) ==
    /\ req[w].pc = "rent"
    /\ link' = [status |-> IF req[w].op = "erase" THEN link.status ELSE "REMOVED", live |-> FALSE]
    /\ req' = [req EXCEPT ![w].pc = "appts", ![w].todo = ToEnd]
    /\ UNCHANGED <<shop, appt, sub, pack, owner, made>>

(* refundOnlineDeposit claims the row *)
Claims(a) == appt[a].paid

(* cancelFutureAppointmentsOfBarbershops: one at a time *)
TakeAppointment(w) ==
    /\ req[w].pc = "appts" /\ req[w].at = None
    /\ \E t \in req[w].todo :
          /\ req' = [req EXCEPT ![w].at = <<t[1], t[2] /\ Claims(t[1])>>, ![w].todo = @ \ {t}]
          /\ appt' = [appt EXCEPT ![t[1]].paid = @ /\ ~t[2]]
    /\ UNCHANGED <<shop, sub, link, pack, owner, made>>

EndAppointment(w) ==
    /\ req[w].pc = "appts" /\ req[w].at # None
    /\ LET a == req[w].at[1] IN
       appt' = [appt EXCEPT ![a].status = "CANCELLED", ![a].money = IF req[w].at[2] THEN "back" ELSE @]
    /\ req' = [req EXCEPT ![w].at = None]
    /\ UNCHANGED <<shop, sub, link, pack, owner, made>>

MarkBack(a) == TRUE

(* Stripe refuses the refund: the mark is undone and the request stops.    *)
RefundFails(w) ==
    /\ "refund" \in Faults /\ req[w].pc = "appts" /\ req[w].at # None /\ req[w].at[2]
    /\ LET a == req[w].at[1] IN appt' = [appt EXCEPT ![a].paid = MarkBack(a)]
    /\ Leaves(w)
    /\ UNCHANGED <<shop, sub, link, pack, owner, made>>

AppointmentsEnded(w) == req[w].pc = "appts" /\ req[w].todo = {} /\ req[w].at = None

(* the openings (closeOpeningsOfBarbershop) and the transaction of         *)
(* deleteBarbershop: the shop, its packages, waiting list, posts, invites  *)
CloseShop(w) ==
    /\ AppointmentsEnded(w) /\ req[w].op \in {"close", "closing"}
    /\ shop' = "closed" /\ pack' = "CANCELLED"
    /\ IF req[w].op = "close" THEN Leaves(w) ELSE req' = [req EXCEPT ![w].op = "erase", ![w].pc = "plan"]
    /\ UNCHANGED <<appt, sub, link, owner, made>>

(* erase: each shop that is still open is closed like any other *)
EraseShops(w) ==
    /\ AppointmentsEnded(w) /\ req[w].op = "erase"
    /\ req' = [req EXCEPT ![w] = IF shop = "closed" THEN [@ EXCEPT !.pc = "plan"]
                                 ELSE [@ EXCEPT !.op = "closing", !.pc = "subs", !.todo = ToCancel, !.refunds = UnusedClubCycles]]
    /\ UNCHANGED <<shop, appt, sub, link, pack, owner, made>>

(* the plans at Stripe; an error other than an unknown plan stops it *)
EndPlan(w) ==
    /\ req[w].pc = "plan"
    /\ \/ owner' = [owner EXCEPT !.plan = FALSE] /\ req' = [req EXCEPT ![w].pc = "erase"]
       \/ "cancel" \in Faults /\ UNCHANGED owner /\ Leaves(w)
    /\ UNCHANGED <<shop, appt, sub, link, pack, made>>

EraseAccount(w) ==
    /\ req[w].pc = "erase" /\ owner' = [owner EXCEPT !.row = "deleted"] /\ Leaves(w)
    /\ UNCHANGED <<shop, appt, sub, link, pack, made>>

ClosingNext ==
    \/ \E a \in ApptId : Book(a) \/ Pays(a)
    \/ \E s \in SubId : Joins(s) \/ FallsDue(s)
    \/ \E w \in Worker :
          \/ Start(w, "close") \/ Start(w, "erase")
          \/ CancelSub(w) \/ CancelFails(w) \/ ClaimCycle(w) \/ RefundCycle(w)
          \/ EndLink(w) \/ TakeAppointment(w) \/ EndAppointment(w) \/ RefundFails(w)
          \/ CloseShop(w) \/ EraseShops(w) \/ EndPlan(w) \/ EraseAccount(w)

(***************************************************************************)
(* Properties                                                              *)
(***************************************************************************)

ClosingTypeOK ==
    /\ shop \in {"open", "closed"} /\ appt \in [ApptId -> AppointmentRow] /\ sub \in [SubId -> SubscriptionRow]
    /\ link \in LinkRow /\ pack \in {"ACTIVE", "CANCELLED"}
    /\ owner \in [row : {"active", "deleted"}, plan : BOOLEAN] /\ made \in 0 .. Requests
    /\ \A w \in Worker : /\ req[w].op \in {"free", "close", "erase", "closing"}
                         /\ req[w].pc \in {"free", "subs", "rent", "appts", "plan", "erase"}
                         /\ req[w].refunds \subseteq SubId

(* Nothing of a closed shop goes on: nobody is charged for a subscription  *)
(* or a rent, no appointment stands, no package counts; and an account     *)
(* that was erased left no open shop and no plan that is charged           *)
(* (deleteBarbershop, erase). What customers do while the request is       *)
(* halfway stays in the closed shop: no step locks the shop.               *)
ClosedMeansEnded ==
    /\ "customers" \notin Faults /\ shop = "closed"
          => /\ \A s \in SubId : ~sub[s].live
             /\ ~link.live /\ pack = "CANCELLED"
             /\ \A a \in ApptId : appt[a].status \notin {"CONFIRMED", "PENDING_PAYMENT"}
    /\ owner.row = "deleted" => shop = "closed" /\ ~owner.plan

(* An appointment that the closing cancelled gave its deposit back, and    *)
(* one whose refund failed is still there, marked as paid, for the next    *)
(* try (cancelFutureAppointmentsOfBarbershops, refundOnlineDeposit): two   *)
(* closings together lose that try, and a deposit that is paid between the *)
(* list and the cancellation is kept.                                      *)
DepositsReturned ==
    Idle /\ "customers" \notin Faults /\ ~({"together", "refund"} \subseteq Faults)
    => \A a \in ApptId : /\ appt[a].status = "CANCELLED" => appt[a].money # "taken"
                         /\ appt[a].money = "taken" <=> appt[a].paid

(* The cycle that a customer paid and will not use went back when the shop *)
(* closed (unusedClubCycles). With several subscriptions a call that fails *)
(* loses the refund of those that were cancelled before it: the next try   *)
(* only looks at the active ones.                                          *)
CyclesReturned ==
    /\ shop = "closed" /\ Idle /\ Faults \cap {"customers", "refund"} = {}
    /\ "cancel" \notin Faults \/ Cardinality(SubId) = 1
    => \A s \in SubId : sub[s].cycle # "paid"

(***************************************************************************)
(* "retention". The daily job that erases personal data whose purpose is   *)
(* over: it reads the ids of a batch and then erases them, until a batch   *)
(* is not full. Time is counted in terms: every limit but the doubled ones *)
(* is one term.                                                            *)
(***************************************************************************)

retentionVars == <<now, rows, lost, job>>

Time == 0 .. MaxTime

(* at: last message, last activity, creation or expiry; until: retainUntil *)
(* of a conversation, or the last appointment of the person of a note;     *)
(* open: an invitation that still holds a place of the team, or a change   *)
(* that was made by the platform; done: a link that was used, or an        *)
(* invitation that was accepted                                            *)
Row == [at : Time, until : Time \cup {None}, open : BOOLEAN, done : BOOLEAN]

Resting == [on |-> FALSE, due |-> {}, batch |-> {}, full |-> FALSE]
People == Overlap \/ ~job.on

RetentionInit ==
    /\ now = 0 /\ rows = [r \in RowId |-> None] /\ lost = {} /\ job = Resting

Due(r) ==
    CASE Kind = "conversation" -> r.at < now - 1 /\ (r.until = None \/ r.until < now)
      [] Kind = "conduct"      -> r.at < now - 1 /\ (r.until = None \/ r.until < now - 1)
      [] Kind = "invitation"   -> ~r.done /\ r.at < now - 1 /\ ~r.open
      [] Kind = "link"         -> r.done \/ r.at < now
      [] Kind = "change"       -> r.at < now - 2 \/ (r.at < now - 1 /\ ~r.open)
      [] OTHER                 -> r.at < now - 1

(* What a row is still needed for: it was used within the term, a dispute  *)
(* holds it, its person came back, it holds a place or a link somebody     *)
(* joined by, or it shows what the platform did.                           *)
Needed(r) ==
    \/ r.at >= now - 1 /\ Kind # "link"
    \/ Kind = "link" /\ ~r.done /\ r.at >= now
    \/ Kind = "conversation" /\ r.until # None /\ r.until >= now
    \/ Kind = "conduct" /\ r.until # None /\ r.until >= now - 1
    \/ Kind = "invitation" /\ (r.open \/ r.done)
    \/ Kind = "change" /\ r.open /\ r.at >= now - 2

Present == {i \in RowId : rows[i] # None}
DueIds == {i \in Present : Due(rows[i])}

(***************************************************************************)
(* The people                                                              *)
(***************************************************************************)

Write(i) ==
    /\ People /\ rows[i] = None
    /\ \E open \in BOOLEAN : rows' = [rows EXCEPT ![i] = [at |-> now, until |-> None, open |-> open, done |-> FALSE]]
    /\ UNCHANGED <<now, lost, job>>

(* A new message, a report that holds the conversation until later, a new  *)
(* appointment, an invitation that is sent again.                          *)
Use(i) ==
    /\ People /\ i \in Present
    /\ rows' = [rows EXCEPT ![i] =
          IF Kind = "conduct" THEN [@ EXCEPT !.until = now]
          ELSE IF Kind = "link" THEN [@ EXCEPT !.done = TRUE] ELSE [@ EXCEPT !.at = now]]
    /\ UNCHANGED <<now, lost, job>>

Hold(i) ==
    /\ People /\ Kind = "conversation" /\ i \in Present /\ now + 1 \in Time
    /\ rows' = [rows EXCEPT ![i].until = now + 1]
    /\ UNCHANGED <<now, lost, job>>

(* the invitation is accepted, or the member it is for leaves the team     *)
Settle(i) ==
    /\ People /\ Kind = "invitation" /\ i \in Present /\ ~rows[i].done
    /\ rows' = [rows EXCEPT ![i] = IF @.open THEN [@ EXCEPT !.open = FALSE] ELSE [@ EXCEPT !.done = TRUE]]
    /\ UNCHANGED <<now, lost, job>>

(***************************************************************************)
(* RetentionService.run, deleteInBatches                                   *)
(***************************************************************************)

Run ==
    /\ ~job.on /\ job' = [on |-> TRUE, due |-> DueIds, batch |-> {}, full |-> TRUE]
    /\ UNCHANGED <<now, rows, lost>>

(* findIds *)
FindIds ==
    /\ job.on /\ job.full /\ job.batch = {}
    /\ IF DueIds = {} THEN job' = Resting
       ELSE \E b \in SUBSET DueIds :
               /\ Cardinality(b) = IF Cardinality(DueIds) < Batch THEN Cardinality(DueIds) ELSE Batch
               /\ job' = [job EXCEPT !.batch = b]
    /\ UNCHANGED <<now, rows, lost>>

GoesOn(n) == n >= Batch

(* remove: by id, whatever happened since *)
Remove ==
    /\ job.on /\ job.batch # {}
    /\ rows' = [i \in RowId |-> IF i \in job.batch THEN None ELSE rows[i]]
    /\ lost' = lost \cup {i \in job.batch : rows[i] # None /\ Needed(rows[i])}
    /\ job' = IF GoesOn(Cardinality(job.batch)) THEN [job EXCEPT !.batch = {}] ELSE [job EXCEPT !.batch = {}, !.full = FALSE]
    /\ UNCHANGED now

Finish ==
    /\ job.on /\ ~job.full /\ job' = Resting
    /\ UNCHANGED <<now, rows, lost>>

Tick ==
    /\ now < MaxTime /\ ~job.on /\ now' = now + 1
    /\ UNCHANGED <<rows, lost, job>>

RetentionNext ==
    \/ \E i \in RowId : Write(i) \/ Use(i) \/ Hold(i) \/ Settle(i)
    \/ Run \/ FindIds \/ Remove \/ Finish \/ Tick

(***************************************************************************)
(* Properties                                                              *)
(***************************************************************************)

RetentionTypeOK ==
    /\ now \in Time /\ rows \in [RowId -> Row \cup {None}] /\ lost \subseteq RowId
    /\ job \in [on : BOOLEAN, due : SUBSET RowId, batch : SUBSET RowId, full : BOOLEAN]

(* What must stay is not erased: a conversation under dispute, a note on   *)
(* somebody who came back, an invitation that holds a place. The batch is  *)
(* erased by its ids, so a dispute that is opened between the reading and  *)
(* the erasing loses its conversation when people act meanwhile.           *)
NeededIsKept == Overlap \/ lost = {}

(* A run leaves nothing that was due when it began, however many batches   *)
(* it takes (deleteInBatches).                                             *)
RunErasesAllDue == (job.on /\ ~job.full) => \A i \in job.due : rows[i] = None \/ ~Due(rows[i])

(***************************************************************************)
(* The component: one part at a time. The other parts have no state then.  *)
(***************************************************************************)

vars == <<shop, appt, sub, link, pack, owner, made, req, now, rows, lost, job>>

Init ==
    \/ /\ Part = "closing" /\ ClosingInit
          /\ now = None /\ rows = None /\ lost = None /\ job = None
    \/ /\ Part = "retention" /\ RetentionInit
          /\ shop = None /\ appt = None /\ sub = None /\ link = None /\ pack = None
          /\ owner = None /\ made = None /\ req = None

Next ==
    \/ Part = "closing" /\ ClosingNext /\ UNCHANGED <<now, rows, lost, job>>
    \/ Part = "retention" /\ RetentionNext /\ UNCHANGED <<shop, appt, sub, link, pack, owner, made, req>>

Spec == Init /\ [][Next]_vars

TypeOK ==
    /\ Part = "closing" => ClosingTypeOK
    /\ Part = "retention" => RetentionTypeOK
=============================================================================
