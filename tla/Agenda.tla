------------------------------- MODULE Agenda -------------------------------
(***************************************************************************)
(* The appointment book of src/barbershop: staff and public requests that  *)
(* create, edit, move, cancel and delete appointments.                     *)
(*                                                                         *)
(* Every request runs in its own HTTP call.  It reads the row, works on    *)
(* that snapshot, opens a transaction, takes the advisory locks of         *)
(* lockSchedule (the person, then the resource), checks for conflicts and  *)
(* writes.  Only the fields named in the request are written; the checks   *)
(* use the snapshot for the others.  A transaction's write, its commit and *)
(* the release of its locks are one step: advisory xact locks are released *)
(* by the commit.                                                          *)
(*                                                                         *)
(* Left out: prices, notes, e-mails, the staff member's access level and   *)
(* every other refusal that happens before the transaction and changes     *)
(* nothing (a refused request is one that never starts here).              *)
(***************************************************************************)
EXTENDS Integers, FiniteSets

CONSTANTS
    Request,          \* concurrent HTTP requests
    Appt,             \* appointment ids, taken from the table's sequence
    Barber,           \* a professional's engagement at one shop
    Resource,         \* chairs, rooms
    Customer,         \* a customer of the network, identified by phone
    Person,           \* who works: the account behind one or more engagements
    Shop,
    None,             \* null, undefined, nobody
    PersonOf,         \* the person behind each Barber
    ShopOf,           \* the shop of each Barber and Resource
    Engagement,       \* the times at which each Barber may take bookings
    Horizon,          \* bound: times are 0..Horizon
    Edits,            \* the bodies updateAppointment may be called with
    Handlers,         \* the entry points in use
    PublicLimit,      \* PUBLIC_UPCOMING_LIMIT
    SharedRows,       \* may two requests work on one appointment at once?
    NoShowGrace,      \* NO_SHOW_GRACE_MINUTES
    InProgressEarly   \* IN_PROGRESS_EARLY_MINUTES

Time == 0..Horizon

(* The statuses staff may set, and the one only the public page sets. *)
StaffStatus == {"DRAFT", "CONFIRMED", "IN_PROGRESS", "COMPLETED", "CANCELLED", "NO_SHOW"}
Status == StaffStatus \cup {"PENDING_PAYMENT"}

(* A row of the appointment table; "DELETED" stands for a removed row. *)
Booking == [status   : Status \cup {"DELETED"},
            barber   : Barber,
            resource : Resource \cup {None},
            customer : Customer,
            start    : Time,
            end      : Time]

(* An id that was never used. *)
NoRow == [status |-> "ABSENT", barber |-> None, resource |-> None,
          customer |-> None, start |-> None, end |-> None]

(* The fields a request writes: None is a field the request does not name. *)
Edit == [status   : Status \cup {None},
         barber   : Barber \cup {None},
         resource : Resource \cup {None},
         customer : Customer \cup {None},
         start    : Time \cup {None},
         end      : Time \cup {None}]

NoEdit == [status |-> None, barber |-> None, resource |-> None,
           customer |-> None, start |-> None, end |-> None]

Op == {"none", "create", "public", "update", "reschedule", "delete"}

(* What a request carries through its awaits: the row it read, what it will *)
(* write and, for a public booking, the professionals left to try.          *)
Job == [op : Op, appt : Appt \cup {None}, snap : Booking \cup {NoRow},
        put : Edit, free : SUBSET Barber]

NoJob == [op |-> "none", appt |-> None, snap |-> NoRow, put |-> NoEdit, free |-> {}]

PC == {"idle", "settle", "phone", "customer", "person", "resource", "check", "write"}

ASSUME NoneAssumption ==
    /\ None \notin Request \cup Appt \cup Barber \cup Resource \cup Customer
    /\ None \notin Int
    /\ None \notin Status \cup {"DELETED", "ABSENT"}

ASSUME MapAssumption ==
    /\ PersonOf \in [Barber -> Person]
    /\ ShopOf \in [Barber \cup Resource -> Shop]
    /\ Engagement \in [Barber -> SUBSET Time]

ASSUME BoundAssumption ==
    /\ Horizon \in Nat
    /\ PublicLimit \in Nat \ {0}
    /\ NoShowGrace \in Nat
    /\ InProgressEarly \in Nat
    /\ SharedRows \in BOOLEAN
    /\ Edits \subseteq Edit

VARIABLES
    rows,           \* the appointment table
    pc,             \* where each request is
    job,            \* what each request carries
    personLock,     \* advisory locks of spaces 1 and 3: one per person
    resourceLock,   \* advisory lock of space 2
    phoneLock,      \* advisory lock of "public-customer:<network>:<phone>"
    now

vars == <<rows, pc, job, personLock, resourceLock, phoneLock, now>>
locks == <<personLock, resourceLock, phoneLock>>

(* Every variable holds values of its kind, and no appointment ends before  *)
(* it starts: such a row overlaps nothing and hides from the conflict check.*)
TypeOK ==
    /\ rows \in [Appt -> Booking \cup {NoRow}]
    /\ \A a \in Appt : rows[a] # NoRow => rows[a].start < rows[a].end
    /\ pc \in [Request -> PC]
    /\ job \in [Request -> Job]
    /\ personLock \in [Person -> Request \cup {None}]
    /\ resourceLock \in [Resource -> Request \cup {None}]
    /\ phoneLock \in [Customer -> Request \cup {None}]
    /\ now \in Time

Init ==
    /\ rows = [a \in Appt |-> NoRow]
    /\ pc = [r \in Request |-> "idle"]
    /\ job = [r \in Request |-> NoJob]
    /\ personLock = [p \in Person |-> None]
    /\ resourceLock = [x \in Resource |-> None]
    /\ phoneLock = [c \in Customer |-> None]
    /\ now = 0

----------------------------------------------------------------------------
(* Reading the agenda *)

Default(x, y) == IF x = None THEN y ELSE x    \* x ?? y

(* The row that results from writing the named fields of put over row. *)
Merge(row, put) ==
    [status   |-> Default(put.status, row.status),
     barber   |-> Default(put.barber, row.barber),
     resource |-> Default(put.resource, row.resource),
     customer |-> Default(put.customer, row.customer),
     start    |-> Default(put.start, row.start),
     end      |-> Default(put.end, row.end)]

(* The appointment as the request sees it, for its locks and its checks. *)
Want(r) == Merge(job[r].snap, job[r].put)

Gone == {"ABSENT", "DELETED"}

Occupies(row) == row.status \notin Gone \cup {"CANCELLED", "NO_SHOW"}

(* Mutant: accepts any new end. *)
MutValidSpan(s, e) == TRUE

(* "O fim tem que ser depois do inicio" *)
ValidSpan(s, e) == s < e

Overlap(row, s, e) == row.start < e /\ row.end > s

(* Mutant: looks only at the engagement itself, not at the same person's    *)
(* engagements in other shops.                                              *)
MutBarberFree(b, s, e, a) ==
    /\ s \in Engagement[b]
    /\ \A x \in Appt \ {a} :
          ~ (Occupies(rows[x]) /\ rows[x].barber = b /\ Overlap(rows[x], s, e))

(* ensureBarberAvailable: inside the engagement, and none of the person's   *)
(* engagements has an appointment then (a, when editing, does not count).   *)
BarberFree(b, s, e, a) ==
    /\ s \in Engagement[b]
    /\ \A x \in Appt \ {a} :
          ~ (/\ Occupies(rows[x])
             /\ PersonOf[rows[x].barber] = PersonOf[b]
             /\ Overlap(rows[x], s, e))

(* Mutant: forgets the end of the other appointment. *)
MutResourceFree(x, s, e, a) ==
    \A y \in Appt \ {a} :
        ~ (Occupies(rows[y]) /\ rows[y].resource = x /\ rows[y].start = s)

(* ensureResourceAvailable *)
ResourceFree(x, s, e, a) ==
    \A y \in Appt \ {a} :
        ~ (Occupies(rows[y]) /\ rows[y].resource = x /\ Overlap(rows[y], s, e))

Upcoming(c, a) ==
    {x \in Appt \ {a} : /\ rows[x].customer = c
                        /\ rows[x].status \in {"CONFIRMED", "PENDING_PAYMENT"}
                        /\ rows[x].start > now}

(* assertPublicCustomerCanBook *)
CustomerCanBook(c, s, e, a) ==
    /\ \A x \in Appt \ {a} :
          ~ (Occupies(rows[x]) /\ rows[x].customer = c /\ Overlap(rows[x], s, e))
    /\ Cardinality(Upcoming(c, a)) < PublicLimit

(* assertStatusFitsTime *)
StatusFitsTime(status, start) ==
    /\ status = "NO_SHOW" => now >= start + NoShowGrace
    /\ status = "IN_PROGRESS" => now >= start - InProgressEarly
    /\ status = "COMPLETED" => now >= start

InFlight(a) == \E q \in Request : pc[q] # "idle" /\ job[q].appt = a

(* The table's sequence never hands out an id twice. *)
FreshId(a) == rows[a] = NoRow /\ ~ InFlight(a)

(* The row exists and, unless rows may be shared, nobody is editing it. *)
MayEdit(a) == rows[a].status \notin Gone /\ (SharedRows \/ ~ InFlight(a))

----------------------------------------------------------------------------
(* Starting and ending a request *)

Arrives(r, handler) == pc[r] = "idle" /\ handler \in Handlers

Begin(r, step, j) ==
    /\ pc' = [pc EXCEPT ![r] = step]
    /\ job' = [job EXCEPT ![r] = j]
    /\ UNCHANGED <<rows, locks, now>>

Released(lock, r) == [k \in DOMAIN lock |-> IF lock[k] = r THEN None ELSE lock[k]]

(* Mutant: session locks (pg_advisory_lock), which an ended transaction     *)
(* keeps.                                                                   *)
MutEndTransaction(r) == UNCHANGED locks

(* Commit or rollback: every advisory xact lock of the request is released. *)
EndTransaction(r) ==
    /\ personLock' = Released(personLock, r)
    /\ resourceLock' = Released(resourceLock, r)
    /\ phoneLock' = Released(phoneLock, r)

Finish(r) ==
    /\ pc' = [pc EXCEPT ![r] = "idle"]
    /\ job' = [job EXCEPT ![r] = NoJob]
    /\ EndTransaction(r)
    /\ UNCHANGED now

(* A status that leaves the schedule is written without lock or check. *)
EntryStep(row) == IF Occupies(row) THEN "person" ELSE "write"

----------------------------------------------------------------------------
(* The entry points *)

(* createAppointment, also called for each date of a recurring series *)
CreateAppointment(r) ==
    /\ Arrives(r, "createAppointment")
    /\ \E a \in Appt, b \in Barber, x \in Resource \cup {None}, c \in Customer,
          s \in Time, e \in Time :
          /\ FreshId(a)
          /\ ValidSpan(s, e)
          /\ x # None => ShopOf[x] = ShopOf[b]
          /\ Begin(r, "person",
                   [op |-> "create", appt |-> a, snap |-> NoRow, free |-> {},
                    put |-> [status |-> "CONFIRMED", barber |-> b, resource |-> x,
                             customer |-> c, start |-> s, end |-> e]])

(* createPublicAppointment up to its transaction: the professionals that    *)
(* looked free, in an unlocked read, are tried one after the other.         *)
CreatePublicAppointment(r) ==
    /\ Arrives(r, "createPublicAppointment")
    /\ \E a \in Appt, sh \in Shop, c \in Customer, s \in Time, e \in Time,
          status \in {"CONFIRMED", "PENDING_PAYMENT"} :
          /\ FreshId(a)
          /\ now < s
          /\ s < e                    \* the services' duration is positive
          /\ CustomerCanBook(c, s, e, a)
          /\ \E candidates \in SUBSET {b \in Barber : ShopOf[b] = sh /\ BarberFree(b, s, e, a)} :
             \E b \in candidates :
                Begin(r, "phone",
                      [op |-> "public", appt |-> a, snap |-> NoRow, free |-> candidates \ {b},
                       put |-> [status |-> status, barber |-> b, resource |-> None,
                                customer |-> c, start |-> s, end |-> e]])

(* A new start without a new end keeps the duration. *)
KeepDuration(put, row) ==
    IF put.start # None /\ put.end = None
    THEN [put EXCEPT !.end = put.start + (row.end - row.start)]
    ELSE put

(* The refusals of updateAppointment that depend on the row and the body. *)
EditAllowed(row, put) ==
    LET new == Merge(row, put)
    IN  /\ new.end \in Time
        /\ ValidSpan(new.start, new.end)
        /\ ShopOf[new.barber] = ShopOf[row.barber]
        /\ put.resource # None => ShopOf[put.resource] = ShopOf[row.barber]
        /\ put.status \notin {None, row.status} =>
              put.status \in StaffStatus /\ StatusFitsTime(put.status, new.start)

(* updateAppointment up to its transaction.  A reservation that waits for   *)
(* its deposit first settles the open payment with Stripe.                  *)
UpdateAppointment(r) ==
    /\ Arrives(r, "updateAppointment")
    /\ \E a \in Appt, body \in Edits :
          LET row == rows[a]
              put == KeepDuration(body, row)
          IN  /\ MayEdit(a)
              /\ EditAllowed(row, put)
              /\ Begin(r, IF /\ row.status = "PENDING_PAYMENT"
                            /\ put.status \notin {None, "PENDING_PAYMENT"}
                         THEN "settle" ELSE EntryStep(Merge(row, put)),
                       [op |-> "update", appt |-> a, snap |-> row, put |-> put, free |-> {}])

(* The customer's move names the two times only. *)
MoveTo(s, e) == [status |-> None, barber |-> None, resource |-> None,
                 customer |-> None, start |-> s, end |-> e]

(* rescheduleManagedAppointment, from the customer's link *)
RescheduleManagedAppointment(r) ==
    /\ Arrives(r, "rescheduleManagedAppointment")
    /\ \E a \in Appt, s \in Time :
          LET row == rows[a]
              e   == s + (row.end - row.start)
          IN  /\ MayEdit(a)
              /\ row.status = "CONFIRMED"
              /\ now < row.start
              /\ now < s
              /\ s # row.start
              /\ e \in Time
              /\ Begin(r, "customer",
                       [op |-> "reschedule", appt |-> a, snap |-> row, free |-> {},
                        put |-> MoveTo(s, e)])

Happened == {"COMPLETED", "IN_PROGRESS", "NO_SHOW"}

(* Mutant: the guard on what already happened forgets a no-show. *)
MutDeletable(row) == row.status \notin {"COMPLETED", "IN_PROGRESS"}

Deletable(row) == row.status \notin Happened

(* deleteAppointment up to its transaction *)
DeleteAppointment(r) ==
    /\ Arrives(r, "deleteAppointment")
    /\ \E a \in Appt :
          /\ MayEdit(a)
          /\ Deletable(rows[a])
          /\ Begin(r, IF rows[a].status = "PENDING_PAYMENT" THEN "settle" ELSE "write",
                   [op |-> "delete", appt |-> a, snap |-> rows[a], put |-> NoEdit,
                    free |-> {}])

----------------------------------------------------------------------------
(* The steps of a request *)

SetStatus(a, status) == rows' = [rows EXCEPT ![a].status = status]

Goto(r, step) == pc' = [pc EXCEPT ![r] = step]

(* settleDepositHold found the deposit paid: the row is confirmed and read  *)
(* again.  A deletion is refused then.                                      *)
SettlePaid(r) ==
    LET a == job[r].appt
    IN  /\ pc[r] = "settle"
        /\ rows[a].status = "PENDING_PAYMENT"
        /\ SetStatus(a, "CONFIRMED")
        /\ IF job[r].op = "delete"
           THEN Finish(r)
           ELSE /\ job' = [job EXCEPT ![r].snap = rows'[a]]
                /\ Goto(r, EntryStep(Merge(rows'[a], job[r].put)))
                /\ UNCHANGED <<locks, now>>

(* The open payment was cancelled, or there was none. *)
SettleReleased(r) ==
    /\ pc[r] = "settle"
    /\ Goto(r, IF job[r].op = "delete" THEN "write" ELSE EntryStep(Want(r)))
    /\ UNCHANGED <<rows, job, locks, now>>

(* Stripe is unreachable: the request is refused. *)
SettleFails(r) ==
    /\ pc[r] = "settle"
    /\ Finish(r)
    /\ UNCHANGED rows

(* The public booking's lock on the customer's phone *)
LockPhone(r) ==
    LET c == Want(r).customer
    IN  /\ pc[r] = "phone"
        /\ phoneLock[c] = None
        /\ phoneLock' = [phoneLock EXCEPT ![c] = r]
        /\ Goto(r, "customer")
        /\ UNCHANGED <<rows, job, personLock, resourceLock, now>>

(* Mutant: trusts the check made before the transaction. *)
MutCheckCustomer(r) ==
    /\ pc[r] = "customer"
    /\ Goto(r, "person")
    /\ UNCHANGED <<rows, job, locks, now>>

(* The customer's own conflicts, inside the transaction.  Its refusal ends  *)
(* the request: the next professional is not tried.                         *)
CheckCustomer(r) ==
    LET w == Want(r)
    IN  /\ pc[r] = "customer"
        /\ IF CustomerCanBook(w.customer, w.start, w.end, job[r].appt)
           THEN Goto(r, "person") /\ UNCHANGED <<job, locks, now>>
           ELSE Finish(r)
        /\ UNCHANGED rows

(* Mutant: checks and writes without the person's lock. *)
MutLockPerson(r) ==
    /\ pc[r] = "person"
    /\ Goto(r, IF Want(r).resource = None THEN "check" ELSE "resource")
    /\ UNCHANGED <<rows, job, locks, now>>

(* lockSchedule: the person, then the resource if there is one *)
LockPerson(r) ==
    LET w == Want(r)
        p == PersonOf[w.barber]
    IN  /\ pc[r] = "person"
        /\ personLock[p] = None
        /\ personLock' = [personLock EXCEPT ![p] = r]
        /\ Goto(r, IF w.resource = None THEN "check" ELSE "resource")
        /\ UNCHANGED <<rows, job, resourceLock, phoneLock, now>>

LockResource(r) ==
    LET x == Want(r).resource
    IN  /\ pc[r] = "resource"
        /\ resourceLock[x] = None
        /\ resourceLock' = [resourceLock EXCEPT ![x] = r]
        /\ Goto(r, "check")
        /\ UNCHANGED <<rows, job, personLock, phoneLock, now>>

SlotFree(r) ==
    LET w == Want(r)
        a == job[r].appt
    IN  /\ BarberFree(w.barber, w.start, w.end, a)
        /\ w.resource # None => ResourceFree(w.resource, w.start, w.end, a)

CheckSucceeds(r) ==
    /\ pc[r] = "check"
    /\ SlotFree(r)
    /\ Goto(r, "write")
    /\ UNCHANGED <<rows, job, locks, now>>

(* The transaction rolls back.  A public booking that may take any          *)
(* professional goes on with the next one, in a transaction of its own.     *)
CheckFails(r) ==
    /\ pc[r] = "check"
    /\ ~ SlotFree(r)
    /\ UNCHANGED rows
    /\ \/ job[r].free = {} /\ Finish(r)
       \/ \E b \in job[r].free :
             /\ job' = [job EXCEPT ![r].put.barber = b, ![r].free = @ \ {b}]
             /\ Goto(r, "phone")
             /\ EndTransaction(r)
             /\ UNCHANGED now

(* The row the write finds: a missing row throws; the customer's move is    *)
(* conditional on the status and the start it had read.                     *)
Writable(r) ==
    LET row == rows[job[r].appt]
    IN  CASE job[r].op \in {"create", "public"} -> TRUE
          [] job[r].op = "reschedule" -> row.status = "CONFIRMED" /\ row.start = job[r].snap.start
          [] OTHER -> row.status \notin Gone

(* Write and commit: the named fields only. *)
Write(r) ==
    LET a == job[r].appt
    IN  /\ pc[r] = "write"
        /\ IF ~ Writable(r) THEN UNCHANGED rows
           ELSE IF job[r].op = "delete" THEN SetStatus(a, "DELETED")
           ELSE rows' = [rows EXCEPT ![a] = Merge(rows[a], job[r].put)]
        /\ Finish(r)

----------------------------------------------------------------------------
(* Conditional writes: one updateMany ... where status = ... each *)

MoveStatus(handler, a, from, to) ==
    /\ handler \in Handlers
    /\ rows[a].status = from
    /\ SetStatus(a, to)
    /\ UNCHANGED <<pc, job, locks, now>>

(* cancelManagedAppointment, from the customer's link *)
CancelManagedAppointment(a) ==
    /\ MoveStatus("cancelManagedAppointment", a, "CONFIRMED", "CANCELLED")
    /\ now < rows[a].start

(* cancelFromHere: each remaining appointment of a series, one by one *)
CancelFromHere(a) ==
    /\ MoveStatus("cancelFromHere", a, "CONFIRMED", "CANCELLED")
    /\ now <= rows[a].start

(* The closure of a day cancels what falls on it and did not start, one by  *)
(* one.                                                                     *)
CancelAffected(a) ==
    /\ MoveStatus("setClosure", a, "CONFIRMED", "CANCELLED")
    /\ now <= rows[a].start

(* finalize: the deposit of a reservation arrived. *)
ConfirmPaidHold(a) == MoveStatus("finalize", a, "PENDING_PAYMENT", "CONFIRMED")

(* releaseUnpaidHold: the reservation expired or its day was closed. *)
ReleaseUnpaidHold(a) == MoveStatus("releaseUnpaidHold", a, "PENDING_PAYMENT", "CANCELLED")

Tick ==
    /\ now < Horizon
    /\ now' = now + 1
    /\ UNCHANGED <<rows, pc, job, locks>>

----------------------------------------------------------------------------

Start(r) ==
    \/ CreateAppointment(r)
    \/ CreatePublicAppointment(r)
    \/ UpdateAppointment(r)
    \/ RescheduleManagedAppointment(r)
    \/ DeleteAppointment(r)

Advance(r) ==
    \/ SettlePaid(r) \/ SettleReleased(r) \/ SettleFails(r)
    \/ CheckCustomer(r)
    \/ CheckSucceeds(r) \/ CheckFails(r)
    \/ Write(r)

Next ==
    \/ \E r \in Request :
          Start(r) \/ Advance(r) \/ LockPhone(r) \/ LockPerson(r) \/ LockResource(r)
    \/ \E a \in Appt :
          \/ CancelManagedAppointment(a) \/ CancelFromHere(a) \/ CancelAffected(a)
          \/ ConfirmPaidHold(a) \/ ReleaseUnpaidHold(a)
    \/ Tick

Spec == Init /\ [][Next]_vars

(* A request runs until it ends.  Waiters on a PostgreSQL advisory lock are *)
(* queued, so one that is passed over again and again is granted the lock.  *)
Fairness ==
    \A r \in Request :
        /\ WF_vars(Advance(r))
        /\ SF_vars(LockPhone(r))
        /\ SF_vars(LockPerson(r))
        /\ SF_vars(LockResource(r))

FairSpec == Spec /\ Fairness
----------------------------------------------------------------------------
(* Properties *)

(* A person is never sold twice: two appointments that hold the schedule,   *)
(* in whatever shops, overlap only for different people.  lockSchedule and  *)
(* ensureBarberAvailable exist for this.                                    *)
NoDoubleBooking ==
    \A a1, a2 \in Appt :
        /\ a1 # a2
        /\ Occupies(rows[a1])
        /\ Occupies(rows[a2])
        /\ PersonOf[rows[a1].barber] = PersonOf[rows[a2].barber]
        => ~ Overlap(rows[a1], rows[a2].start, rows[a2].end)

(* The same for a chair or room (lockSchedule, ensureResourceAvailable). *)
NoResourceClash ==
    \A a1, a2 \in Appt :
        /\ a1 # a2
        /\ Occupies(rows[a1])
        /\ Occupies(rows[a2])
        /\ rows[a1].resource = rows[a2].resource
        /\ rows[a1].resource # None
        => ~ Overlap(rows[a1], rows[a2].start, rows[a2].end)

(* Through the public page one customer holds no two appointments at the    *)
(* same time and at most PublicLimit upcoming ones, however many tabs book  *)
(* at once (assertPublicCustomerCanBook under the phone lock).              *)
CustomerWithinLimits ==
    \A c \in Customer :
        /\ \A a1, a2 \in Appt :
              /\ a1 # a2
              /\ Occupies(rows[a1]) /\ rows[a1].customer = c
              /\ Occupies(rows[a2]) /\ rows[a2].customer = c
              => ~ Overlap(rows[a1], rows[a2].start, rows[a2].end)
        /\ Cardinality(Upcoming(c, None)) <= PublicLimit

(* rescheduleManagedAppointment takes no phone lock: while it runs its      *)
(* customer neither books nor moves another appointment.                    *)
OfOneCustomer(q, r) == Want(q).customer = Want(r).customer
MovesAlone ==
    \A q, r \in Request :
        q # r /\ job'[q].op = "reschedule" /\ job'[r].op \in {"public", "reschedule"}
            => ~ OfOneCustomer(q, r)'

(* An appointment that already happened is never deleted (deleteAppointment *)
(* refuses it, on the row it read before its transaction).                  *)
HappenedNeverDeleted ==
    [][\A a \in Appt : rows[a].status \in Happened => rows'[a].status # "DELETED"]_vars

(* What each appointment takes from the calendar. *)
SlotOf(row) ==
    IF Occupies(row)
    THEN [who |-> PersonOf[row.barber], chair |-> row.resource,
          start |-> row.start, end |-> row.end]
    ELSE None

Book == [a \in Appt |-> SlotOf(rows[a])]

CalendarView ==
    INSTANCE Calendar WITH
        Slot <- [who : Person, chair : Resource \cup {None}, start : Time, end : Time],
        NoSlot <- None,
        NoChair <- None,
        book <- Book

(* The requests, with their locks and stale snapshots, change the calendar  *)
(* one booking at a time and never to a slot already sold.                  *)
ImplementsCalendar == CalendarView!Spec
=============================================================================
