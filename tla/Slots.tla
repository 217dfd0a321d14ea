------------------------------- MODULE Slots -------------------------------
(***************************************************************************)
(* The free times of a shop: the hours of the shop, the shift of each      *)
(* professional, closed days, time off and what is booked already. A slot  *)
(* is listed by one computation, announced as the next one by a second and *)
(* accepted by a third. Times of a day are small numbers; day 1 is today.  *)
(* All days of the model are the same weekday.                             *)
(***************************************************************************)
EXTENDS Integers, FiniteSets, FiniteSetsExt

CONSTANTS
    None,
    Barber,    \* the professionals of the shop
    ApptId, OffId,
    Worker,
    Hours,     \* hours a shop may have, records [s, e]
    Shifts,    \* shifts of a professional: Hours with "on" and a break
    Elsewhere, \* shifts they may have in another shop
    Days,      \* 1 .. the last day that may be asked for
    LastDay,   \* the last day that is open for booking
    Cutoff,    \* the minute of day 1 before which nothing is booked
    Grid,      \* SLOT_GRANULARITY_MIN
    Durations,
    Overlap    \* whether requests run together

VARIABLES
    hours,     \* of the shop
    shift,     \* own shift of a professional, or None
    elsewhere, \* own shift of the same person in another shop, or None
    closure,   \* of a day: None, closed, or special hours
    off,       \* time off
    appt,
    req

vars == <<hours, shift, elsewhere, closure, off, appt, req>>

Times == 0 .. Max({h.e : h \in Hours})
Shut == [s |-> 0, e |-> 0]
Open(h) == [s |-> h.s, e |-> h.e, bs |-> None, be |-> None]
Earlier(a, b) == IF a < b THEN a ELSE b
Later(a, b) == IF a > b THEN a ELSE b
Free == [op |-> "free", barber |-> None, day |-> 0, s |-> 0, e |-> 0, from |-> None]
Idle == \A w \in Worker : req[w] = Free
May(w) == req[w] = Free /\ (Idle \/ Overlap)
Done(w) == req' = [req EXCEPT ![w] = Free]

(* BarberSchedule: a row that is off is a fixed day off *)
ShiftRow == [on : BOOLEAN, s : Times, e : Times, bs : Times \cup {None}, be : Times \cup {None}]
(* BarberTimeOff *)
OffRow == [barber : Barber, day : Days, s : Times, e : Times]
(* BarbershopClosure: without hours it closes the day *)
ClosureRow == [s : Times, e : Times]

Init ==
    /\ hours \in Hours /\ shift = [b \in Barber |-> None] /\ elsewhere = [b \in Barber |-> None]
    /\ closure = [d \in Days |-> None]
    /\ off = [o \in OffId |-> None] /\ appt = [a \in ApptId |-> None]
    /\ req = [w \in Worker |-> Free]

(***************************************************************************)
(* Windows                                                                 *)
(***************************************************************************)

(* clipToShopHours *)
Clip(w, h) ==
    IF h = None \/ Later(w.s, h.s) >= Earlier(w.e, h.e) THEN None
    ELSE [w EXCEPT !.s = Later(w.s, h.s), !.e = Earlier(w.e, h.e)]

RowWindow(row) == [s |-> row.s, e |-> row.e, bs |-> row.bs, be |-> row.be]

GetWorkingWindow(row, h) ==
    CASE row = None -> IF h = None THEN None ELSE Open(h)
      [] row # None /\ ~row.on -> None
      [] OTHER -> Clip(RowWindow(row), h)

(* The closed days come on top: special hours cut the window, or open a    *)
(* day for who has no shift of their own.                                  *)
GetWorkingWindowOn(row, h, c) ==
    LET w == GetWorkingWindow(row, h) IN
    CASE c = None -> w
      [] c = Shut -> None
      [] c \notin {None, Shut} /\ w = None -> IF row # None THEN None ELSE Open(c)
      [] OTHER -> Clip(w, c)

(* windowOnDate: the same from rows that were read at once, where an own   *)
(* shift is not cut by the hours of the shop                               *)
WindowOnDate(row, h, c) ==
    LET w == CASE row = None -> IF h = None THEN None ELSE Open(h)
               [] row # None /\ ~row.on -> None
               [] OTHER -> RowWindow(row)
    IN CASE c = None -> w
         [] c = Shut -> None
         [] c \notin {None, Shut} /\ w = None -> IF row # None THEN None ELSE Open(c)
         [] OTHER -> Clip(w, c)

Inside(w, s, e) == w.s <= s /\ e <= w.e
InBreak(w, s, e) == w.bs # None /\ w.be # None /\ s < w.be /\ e > w.bs

(* fitsWindow *)
FitsWindow(w, s, e) == w # None /\ Inside(w, s, e) /\ ~InBreak(w, s, e)

(***************************************************************************)
(* Slots                                                                   *)
(***************************************************************************)

Meets(r, d, s, e) == r # None /\ r.day = d /\ s < r.e /\ e > r.s
Live(a) == appt[a] # None /\ appt[a].status # "CANCELLED"
Booked(b, d, s, e) == \E a \in ApptId : Live(a) /\ appt[a].barber = b /\ Meets(appt[a], d, s, e)
OffAt(b, d, s, e) == \E o \in OffId : off[o] # None /\ off[o].barber = b /\ Meets(off[o], d, s, e)
NotBefore(d, s) == d > 1 \/ s > Cutoff

(* Mutant: the end of the day does not bound the last slot. *)
MutComputeSlots(b, d, n, w) ==
    IF w = None THEN {}
    ELSE {s \in Times : /\ s >= w.s /\ (s - w.s) % Grid = 0 /\ s < w.e /\ ~InBreak(w, s, s + n)
                        /\ NotBefore(d, s) /\ ~Booked(b, d, s, s + n) /\ ~OffAt(b, d, s, s + n)}

ComputeSlots(b, d, n, w) ==
    IF w = None THEN {}
    ELSE {s \in Times : /\ s >= w.s /\ (s - w.s) % Grid = 0 /\ s + n <= w.e /\ ~InBreak(w, s, s + n)
                        /\ NotBefore(d, s) /\ ~Booked(b, d, s, s + n) /\ ~OffAt(b, d, s, s + n)}

SlotsForBarber(b, d, n) == ComputeSlots(b, d, n, GetWorkingWindowOn(shift[b], hours, closure[d]))

GetPublicAvailableSlots(bs, d, n) == IF d > LastDay THEN {} ELSE UNION {SlotsForBarber(b, d, n) : b \in bs}

GetPublicNextAvailableSlot(bs, n) ==
    LET on(d) == UNION {ComputeSlots(b, d, n, WindowOnDate(shift[b], hours, closure[d])) : b \in bs}
        ds == {d \in Days : d <= LastDay /\ on(d) # {}}
    IN IF ds = {} THEN None ELSE LET d == Min(ds) IN [day |-> d, s |-> Min(on(d))]

(* ensurePublicSlot; what is booked is looked at later, under the lock *)
EnsurePublicSlot(b, d, s, n) ==
    LET w == GetWorkingWindowOn(shift[b], hours, closure[d]) IN
    /\ NotBefore(d, s) /\ d <= LastDay
    /\ w # None /\ (s - w.s) % Grid = 0 /\ Inside(w, s, s + n) /\ ~InBreak(w, s, s + n)
    /\ ~OffAt(b, d, s, s + n)

(***************************************************************************)
(* The public page: a booking, with or without a deposit to be paid        *)
(***************************************************************************)

Choose(w, b, d, s, n) ==
    /\ May(w) /\ EnsurePublicSlot(b, d, s, n)
    /\ req' = [req EXCEPT ![w] = [op |-> "book", barber |-> b, day |-> d, s |-> s, e |-> s + n, from |-> None]]
    /\ UNCHANGED <<hours, shift, elsewhere, closure, off, appt>>

Book(w) ==
    /\ req[w].op = "book" /\ Done(w)
    /\ LET r == req[w] left == {a \in ApptId : ~Live(a)} IN
       /\ left # {}
       /\ \E status \in {"CONFIRMED", "PENDING_PAYMENT"} :
             appt' = IF Booked(r.barber, r.day, r.s, r.e) THEN appt
                     ELSE [appt EXCEPT ![CHOOSE a \in left : TRUE] =
                             [barber |-> r.barber, day |-> r.day, s |-> r.s, e |-> r.e, status |-> status]]
    /\ UNCHANGED <<hours, shift, elsewhere, closure, off>>

(***************************************************************************)
(* The hours of the shop and the shifts of its professionals: checked,     *)
(* then written.                                                           *)
(***************************************************************************)

FitsShopHours(row, h) == h # None /\ row.s < row.e /\ h.s <= row.s /\ row.e <= h.e
On(row) == row # None /\ row.on

(* ensureShiftFreeAcrossShops *)
ShiftFree(row, other) == On(other) => row.e <= other.s \/ other.e <= row.s

Write(w, b, where, row) ==
    req' = [req EXCEPT ![w] = [op |-> where, barber |-> b, day |-> 0, s |-> 0, e |-> 0, from |-> row]]

(* who follows the hours of the shop may work elsewhere *)
SetBusinessHours(w, h) ==
    /\ May(w) /\ h # hours
    /\ h # None => \A b \in Barber : shift[b] = None => ShiftFree(h, elsewhere[b])
    /\ Write(w, None, "hours", h)
    /\ UNCHANGED <<hours, shift, elsewhere, closure, off, appt>>

(* setWeeklySchedule: the day follows the shop, is off, or has a shift *)
SetWeeklySchedule(w, b, row) ==
    /\ May(w) /\ row # shift[b]
    /\ On(row) => FitsShopHours(row, hours) /\ ShiftFree(row, elsewhere[b])
    /\ (row = None /\ hours # None) => ShiftFree(hours, elsewhere[b])
    /\ Write(w, b, "shift", row)
    /\ UNCHANGED <<hours, shift, elsewhere, closure, off, appt>>

(* createBarberSchedule, updateBarberSchedule: any shift that is free *)
WriteBarberSchedule(w, b, row) ==
    /\ May(w) /\ row # None /\ row # shift[b]
    /\ (shift[b] = None => row.on) /\ (row.on => ShiftFree(row, elsewhere[b]))
    /\ Write(w, b, "shift", row)
    /\ UNCHANGED <<hours, shift, elsewhere, closure, off, appt>>

DeleteBarberSchedule(w, b) ==
    /\ May(w) /\ shift[b] # None /\ Write(w, b, "shift", None)
    /\ UNCHANGED <<hours, shift, elsewhere, closure, off, appt>>

(* the other shop does the same *)
WriteElsewhere(w, b, row) ==
    /\ May(w) /\ row # elsewhere[b] /\ (On(row) => ShiftFree(row, shift[b]))
    /\ Write(w, b, "elsewhere", row)
    /\ UNCHANGED <<hours, shift, elsewhere, closure, off, appt>>

Written(w) ==
    /\ req[w].op \in {"hours", "shift", "elsewhere"} /\ Done(w)
    /\ LET r == req[w] IN
       /\ hours' = IF r.op = "hours" THEN r.from ELSE hours
       /\ shift' = IF r.op = "shift" THEN [shift EXCEPT ![r.barber] = r.from] ELSE shift
       /\ elsewhere' = IF r.op = "elsewhere" THEN [elsewhere EXCEPT ![r.barber] = r.from] ELSE elsewhere
    /\ UNCHANGED <<closure, off, appt>>

(* outside: the bookings that a window would leave out, but for days that  *)
(* have hours of their own                                                 *)
Outside(b, w) ==
    {a \in ApptId : /\ Live(a) /\ appt[a].barber = b
                    /\ NotBefore(appt[a].day, appt[a].s) /\ closure[appt[a].day] = None
                    /\ ~FitsWindow(w, appt[a].s, appt[a].e)}

ShownWindow(row, h) == IF row = None THEN (IF h = None THEN None ELSE Open(h)) ELSE IF row.on THEN RowWindow(row) ELSE None
WeeklyScheduleImpact(b, row) == Outside(b, ShownWindow(row, hours))
BusinessHoursImpact(h) == UNION {Outside(b, ShownWindow(shift[b], h)) : b \in Barber}

(***************************************************************************)
(* Closed days and time off                                                *)
(***************************************************************************)

(* closureAffectsAppointment: what was confirmed and has begun stays *)
ClosureAffects(a, c) ==
    /\ appt[a].status = "CONFIRMED" => NotBefore(appt[a].day, appt[a].s)
    /\ c = Shut \/ appt[a].s < c.s \/ appt[a].e > c.e

SetClosure(w, from, to, c) ==
    /\ May(w) /\ from <= to /\ \E d \in from .. to : closure[d] # c
    /\ closure' = [d \in Days |-> IF d \in from .. to THEN c ELSE closure[d]]
    /\ \E cancel \in BOOLEAN :
          req' = [req EXCEPT ![w] = [op |-> IF cancel THEN "cancel" ELSE "release", barber |-> None, day |-> from, s |-> c.s,
                                     e |-> c.e, from |-> to]]
    /\ UNCHANGED <<hours, shift, elsewhere, off, appt>>

Released(st, cancel) == st = "PENDING_PAYMENT" \/ (st = "CONFIRMED" /\ cancel)

ReleaseClosed(w) ==
    /\ req[w].op \in {"cancel", "release"} /\ Done(w)
    /\ LET r == req[w]
           gone(a) == /\ Live(a) /\ appt[a].day \in r.day .. r.from
                      /\ Released(appt[a].status, r.op = "cancel") /\ ClosureAffects(a, [s |-> r.s, e |-> r.e])
       IN appt' = [a \in ApptId |-> IF gone(a) THEN [appt[a] EXCEPT !.status = "CANCELLED"] ELSE appt[a]]
    /\ UNCHANGED <<hours, shift, elsewhere, closure, off>>

(* the days that follow with the same hours *)
RemoveClosure(d, to) ==
    /\ Idle \/ Overlap
    /\ closure[d] # None
    /\ closure' = [x \in Days |-> IF x \in d .. to /\ \A y \in d .. x : closure[y] = closure[d] THEN None ELSE closure[x]]
    /\ UNCHANGED <<hours, shift, elsewhere, off, appt, req>>

CreateBarberTimeOff(w, b, d, h) ==
    /\ May(w)
    /\ \E o \in OffId : off[o] = None /\ off' = [off EXCEPT ![o] = [barber |-> b, day |-> d, s |-> h.s, e |-> h.e]]
    /\ req' = [req EXCEPT ![w] = [op |-> "off", barber |-> b, day |-> d, s |-> h.s, e |-> h.e, from |-> None]]
    /\ UNCHANGED <<hours, shift, elsewhere, closure, appt>>

InOff(a, r) == appt[a].barber = r.barber /\ Meets(appt[a], r.day, r.s, r.e)

ReleaseOff(w) ==
    /\ req[w].op = "off" /\ Done(w)
    /\ appt' = [a \in ApptId |-> IF Live(a) /\ appt[a].status = "PENDING_PAYMENT" /\ InOff(a, req[w])
                                 THEN [appt[a] EXCEPT !.status = "CANCELLED"] ELSE appt[a]]
    /\ UNCHANGED <<hours, shift, elsewhere, closure, off>>

DeleteBarberTimeOff(o) ==
    /\ Idle \/ Overlap
    /\ off[o] # None /\ off' = [off EXCEPT ![o] = None]
    /\ UNCHANGED <<hours, shift, elsewhere, closure, appt, req>>

Next ==
    \/ \E w \in Worker :
          \/ \E b \in Barber, d \in Days, s \in Times, n \in Durations : Choose(w, b, d, s, n)
          \/ Book(w)
          \/ \E d, to \in Days, c \in Hours \cup {Shut} : SetClosure(w, d, to, c)
          \/ ReleaseClosed(w)
          \/ \E b \in Barber, d \in Days, h \in Hours : CreateBarberTimeOff(w, b, d, h)
          \/ ReleaseOff(w)
          \/ \E h \in Hours \cup {None} : SetBusinessHours(w, h)
          \/ \E b \in Barber, row \in Shifts \cup {None} : SetWeeklySchedule(w, b, row) \/ WriteBarberSchedule(w, b, row)
          \/ \E b \in Barber, row \in Elsewhere \cup {None} : WriteElsewhere(w, b, row)
          \/ \E b \in Barber : DeleteBarberSchedule(w, b)
          \/ Written(w)
    \/ \E d, to \in Days : RemoveClosure(d, to)
    \/ \E o \in OffId : DeleteBarberTimeOff(o)

Spec == Init /\ [][Next]_vars

(***************************************************************************)
(* Properties                                                              *)
(***************************************************************************)

TypeOK ==
    /\ hours \in Hours \cup {None} /\ shift \in [Barber -> ShiftRow \cup {None}]
    /\ elsewhere \in [Barber -> ShiftRow \cup {None}]
    /\ closure \in [Days -> ClosureRow \cup {None}]
    /\ \A o \in OffId : off[o] \in OffRow \cup {None}
    /\ \A a \in ApptId : appt[a] # None => appt[a].status \in {"CONFIRMED", "PENDING_PAYMENT", "CANCELLED"}

(* What the page lists is what the shop accepts: a slot is listed exactly  *)
(* when ensurePublicSlot and the check under the lock would take it        *)
(* (getPublicAvailableSlots against ensurePublicSlot).                     *)
SlotsBookable ==
    \A b \in Barber, d \in Days, n \in Durations, s \in Times :
        s \in GetPublicAvailableSlots({b}, d, n) <=> EnsurePublicSlot(b, d, s, n) /\ ~Booked(b, d, s, s + n)

(* Nothing is listed while the shop is closed: before it opens, after it   *)
(* closes, outside special hours, on a closed day (getWorkingWindowOn).    *)
SlotsWithinShop ==
    \A b \in Barber, d \in Days, n \in Durations : \A s \in GetPublicAvailableSlots({b}, d, n) :
        /\ closure[d] # Shut
        /\ closure[d] # None => closure[d].s <= s /\ s + n <= closure[d].e
        /\ (closure[d] = None \/ shift[b] # None) => hours # None /\ hours.s <= s /\ s + n <= hours.e

ShiftsFit(h) == \A b \in Barber : On(shift[b]) => FitsShopHours(shift[b], h)

(* The next slot that is announced is the first one of the lists. It is    *)
(* not, when a shift passes the hours of the shop, which                   *)
(* createBarberSchedule allows and a change of the hours leaves behind:    *)
(* windowOnDate does not cut the shift (getPublicNextAvailableSlot).       *)
NextIsEarliest ==
    ShiftsFit(hours) =>
    \A bs \in SUBSET Barber, n \in Durations :
        LET free(d) == GetPublicAvailableSlots(bs, d, n)
            next == GetPublicNextAvailableSlot(bs, n) IN
        IF next = None THEN \A d \in Days : free(d) = {}
        ELSE next.s \in free(next.day) /\ \A d \in Days : d < next.day => free(d) = {}
                                       /\ \A s \in free(next.day) : next.s <= s

(* No reservation waits for the payment of a time that the shop closed or  *)
(* the professional took off. A booking that passed its checks before the  *)
(* closing still lands on the closed day, so it holds for requests that do *)
(* not overlap (ClosureService.set, createBarberTimeOff).                  *)
NothingToPayWhenClosed ==
    (Idle /\ ~Overlap) => \A a \in ApptId : (Live(a) /\ appt[a].status = "PENDING_PAYMENT") =>
        /\ closure[appt[a].day] # None => ~ClosureAffects(a, closure[appt[a].day])
        /\ ~OffAt(appt[a].barber, appt[a].day, appt[a].s, appt[a].e)

(* Nobody has two shifts at a time in two shops, unless both are set at    *)
(* once: the check and the writing are two steps                           *)
(* (ensureShiftFreeAcrossShops).                                           *)
ShiftsApart ==
    Overlap \/ \A b \in Barber : (On(shift[b]) /\ On(elsewhere[b])) =>
                   shift[b].e <= elsewhere[b].s \/ elsewhere[b].e <= shift[b].s

(* The preview of new hours tells of every booking they leave out, and of  *)
(* no other, while the shifts fit the hours (businessHoursImpact,          *)
(* weeklyScheduleImpact against getWorkingWindowOn).                       *)
ImpactTellsAll ==
    LET left(b, row, h) == {a \in ApptId : /\ Live(a) /\ appt[a].barber = b /\ NotBefore(appt[a].day, appt[a].s)
                                           /\ closure[appt[a].day] = None
                                           /\ ~FitsWindow(GetWorkingWindowOn(row, h, None), appt[a].s, appt[a].e)}
    IN /\ \A b \in Barber, row \in Shifts \cup {None} : (On(row) => FitsShopHours(row, hours))
              => WeeklyScheduleImpact(b, row) = left(b, row, hours)
       /\ \A h \in Hours : ShiftsFit(h) => BusinessHoursImpact(h) = UNION {left(b, shift[b], h) : b \in Barber}

=============================================================================
