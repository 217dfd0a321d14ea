------------------------------ MODULE MCAgenda ------------------------------
(***************************************************************************)
(* Small instances of Agenda.  Barbers b1 and b2 are one person working in *)
(* two shops; b3 shares b1's shop and its chair.  The run of the public    *)
(* page has two requests of two customers, three appointments and one      *)
(* shop, with the staff that hands bookings over, cancels and deletes them.*)
(***************************************************************************)
EXTENDS Agenda, TLC

CONSTANTS r1, r2, a1, a2, a3, b1, b2, b3, x1, c1, c2, ana, bia, s1, s2

(* Each map is cut to the barbers, shops and resources of the run. *)
Cut(f, S) == [k \in S |-> f[k]]
MCPersonOf == Cut(b1 :> ana @@ b2 :> ana @@ b3 :> bia, Barber)
MCShopOf == Cut(b1 :> s1 @@ b2 :> s2 @@ b3 :> s1 @@ x1 :> s1, Barber \cup Resource)
(* b3 leaves the shop before the last slot. *)
MCEngagement == Cut(b1 :> Time @@ b2 :> Time @@ b3 :> Time \ {Horizon - 1}, Barber)

(* What the calendar screen sends: drag, resize, hand over, assign a chair, *)
(* change the status.                                                       *)
Drags == {[NoEdit EXCEPT !.start = s] : s \in Time}
Resizes == {[NoEdit EXCEPT !.end = e] : e \in Time}
HandOvers == {[NoEdit EXCEPT !.barber = b] : b \in Barber}
Chairs == {[NoEdit EXCEPT !.resource = x] : x \in Resource}
Statuses == {[NoEdit EXCEPT !.status = t] : t \in {"CONFIRMED", "CANCELLED", "NO_SHOW"}}

StaffEdits == Drags \cup Resizes \cup HandOvers \cup Chairs \cup Statuses
SharedEdits == Drags \cup HandOvers

StaffHandlers ==
    {"createAppointment", "updateAppointment", "deleteAppointment", "cancelFromHere", "setClosure"}
SharedHandlers == {"createAppointment", "updateAppointment"}

MCSymmetry == Permutations(Request) \cup Permutations(Appt)

----------------------------------------------------------------------------
(* The public page *)

PublicHandlers == {"createPublicAppointment", "rescheduleManagedAppointment",
    "cancelManagedAppointment", "finalize", "releaseUnpaidHold",
    "updateAppointment", "deleteAppointment"}

(* The staff gives the appointment to a barber, or cancels it. *)
ReceptionEdits == HandOvers \cup {[NoEdit EXCEPT !.status = "CANCELLED"]}

(* The third appointment is there for the limit of one customer: edits,     *)
(* moves and a second customer appear while two are known.                  *)
Known == {a \in Appt : rows[a] # NoRow \/ InFlight(a)}
Clients == {rows[a].customer : a \in Known} \cup {job[r].put.customer : r \in Request}
Simple ==
    /\ \A r \in Request : job[r].op \notin {"update", "reschedule", "delete"}
    /\ Cardinality(Clients \ {None}) <= 1
ThirdIsSimple == Simple' \/ Cardinality(Known') <= 2

PublicSymmetry == MCSymmetry \cup Permutations(Customer)
=============================================================================
