------------------------------ MODULE Calendar ------------------------------
(***************************************************************************)
(* What the appointment book promises, without requests, locks or stale    *)
(* reads: a set of bookings in which no person and no chair is in two      *)
(* places at once, changed one booking at a time.                          *)
(***************************************************************************)
EXTENDS Integers

CONSTANTS
    Appt,        \* booking ids
    Slot,        \* [who, chair, start, end]: what a booking takes
    NoSlot,      \* a booking that takes nothing
    NoChair      \* a slot that needs no chair

VARIABLE book    \* [Appt -> Slot \cup {NoSlot}]

(* Two slots that cannot both be sold *)
Clash(x, y) ==
    /\ x.who = y.who \/ (x.chair = y.chair /\ x.chair # NoChair)
    /\ x.start < y.end
    /\ y.start < x.end

Fits(a, slot) == \A b \in Appt \ {a} : book[b] # NoSlot => ~ Clash(slot, book[b])

Init == book = [a \in Appt |-> NoSlot]

(* A booking is made or moved to a slot that clashes with no other... *)
Place(a) ==
    \E slot \in Slot :
        /\ book' = [book EXCEPT ![a] = slot]
        /\ Fits(a, slot)

(* ... or gives its slot up. *)
Free(a) == book' = [book EXCEPT ![a] = NoSlot]

Next == \E a \in Appt : Place(a) \/ Free(a)

Spec == Init /\ [][Next]_book
=============================================================================
