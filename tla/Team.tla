-------------------------------- MODULE Team --------------------------------
(***************************************************************************)
(* The team of a shop: invitations and seats, and who leaves.              *)
(***************************************************************************)
EXTENDS Integers, FiniteSetsExt, FiniteSets

CONSTANTS
    Part,       \* the flow that is explored: "seats", "leaving"
    Worker,
    None,
    SeatId,
    InviteId,   \* numbers
    PlanSeats,  \* people who attend, by the plan
    Overlap,    \* whether requests run together
    Barber,
    ApptId,
    EntryId,
    Seats,      \* professionals that the plan allows
    MaxTime,    \* bound on the clock
    Faults      \* "overlap": requests run together; "crash": a process stops after a
                \* departure; "leaves": who waits leaves meanwhile

VARIABLES
    seat,     \* rows of Barber
    invite,   \* rows of EmployeeInvite, all to the same e-mail
    account,  \* whether the e-mail has an account
    req,
    now,
    barber,   \* active, role, takes (None follows the role), from, to
    appt,     \* bookings: barber, at, status
    entry,    \* the waiting list: barber, status, late (made after they left)
    told      \* professionals whose departure managers were told of

(***************************************************************************)
(* "seats". The team of a shop: its seats (rows of Barber), the            *)
(* invitations that bring one person in by e-mail, and the limit of the    *)
(* plan.                                                                   *)
(***************************************************************************)

seatsVars == <<seat, invite, account, req>>

SeatRow == [made : BOOLEAN, active : BOOLEAN, mine : BOOLEAN, user : BOOLEAN]
InviteRow == [status : {"none", "PENDING", "ACCEPTED", "EXPIRED", "CANCELLED"},
              seat : SeatId \cup {None}, late : BOOLEAN]

SeatsFree == [op |-> "free", seat |-> None, invite |-> None, freed |-> {}]
Step(w, op, s, i) == req' = [req EXCEPT ![w] = [SeatsFree EXCEPT !.op = op, !.seat = s, !.invite = i]]
Goes(w, op) == req' = [req EXCEPT ![w].op = op]
Ends(w) == req' = [req EXCEPT ![w] = SeatsFree]
MayStart(w) == req[w] = SeatsFree /\ (Overlap \/ \A v \in Worker : req[v] = SeatsFree)

Unused(rows) == {s \in SeatId : ~rows[s].made}
NewInvite == {i \in InviteId : invite[i].status = "none"}
Pending(i) == invite[i].status = "PENDING"
NewSeat(person) == [made |-> TRUE, active |-> TRUE, mine |-> person, user |-> FALSE]

SeatsInit ==
    /\ seat = [s \in SeatId |-> [made |-> FALSE, active |-> FALSE, mine |-> FALSE, user |-> FALSE]]
    /\ invite = [i \in InviteId |-> [status |-> "none", seat |-> None, late |-> FALSE]]
    /\ account = FALSE
    /\ req = [w \in Worker |-> SeatsFree]

(***************************************************************************)
(* Seats                                                                   *)
(***************************************************************************)

Taken == Cardinality({s \in SeatId : seat[s].active})

(* ensureBarberLimitNotExceeded *)
HasSeat == Taken < PlanSeats

(* createBarber: somebody else, with no invitation *)
CreateBarber(w) ==
    /\ MayStart(w) /\ HasSeat /\ Unused(seat) # {}
    /\ Step(w, "hire", None, None)
    /\ UNCHANGED <<seat, invite, account>>

Hire(w) ==
    /\ req[w].op = "hire"
    /\ seat' = IF Unused(seat) = {} THEN seat ELSE [seat EXCEPT ![Min(Unused(seat))] = NewSeat(FALSE)]
    /\ Ends(w)
    /\ UNCHANGED <<invite, account>>

(* updateBarber: back to the team, if the plan has a seat *)
SeatsUpdateBarber(w, s) ==
    /\ MayStart(w) /\ seat[s].made /\ ~seat[s].active /\ HasSeat
    /\ Step(w, "reactivate", s, None)
    /\ UNCHANGED <<seat, invite, account>>

Reactivate(w) ==
    /\ req[w].op = "reactivate"
    /\ seat' = [seat EXCEPT ![req[w].seat].active = TRUE]
    /\ Ends(w)
    /\ UNCHANGED <<invite, account>>

(* deleteBarber, and updateBarber when "active" is taken away: the seat and *)
(* its invitation in one transaction                                        *)
Cancelling(rows, s) == [i \in InviteId |-> IF rows[i].seat = s /\ rows[i].status = "PENDING"
                                          THEN [rows[i] EXCEPT !.status = "CANCELLED"] ELSE rows[i]]

SeatsDeleteBarber(s) ==
    /\ seat[s].made /\ seat[s].active
    /\ seat' = [seat EXCEPT ![s].active = FALSE]
    /\ invite' = Cancelling(invite, s)
    /\ UNCHANGED <<account, req>>

(***************************************************************************)
(* The invitation                                                          *)
(***************************************************************************)

InviteLapses(i) ==
    /\ Pending(i) /\ ~invite[i].late
    /\ invite' = [invite EXCEPT ![i].late = TRUE]
    /\ UNCHANGED <<seat, account, req>>

(* An invitation that nobody took closes, and its seat leaves the team. *)
ExpiredSeats(i) == [seat EXCEPT ![invite[i].seat].active = @ /\ seat[invite[i].seat].user]
Expired(i) == [invite EXCEPT ![i].status = "EXPIRED"]

(* releaseBatch of the job openings *)
ReleaseInvite(i) ==
    /\ Pending(i) /\ invite[i].late
    /\ seat' = ExpiredSeats(i)
    /\ invite' = Expired(i)
    /\ UNCHANGED <<account, req>>

StandsInTheWay(i) == Pending(i) /\ ~invite[i].late

(* createInvite: what forbids it, then an invitation past its day closes *)
CreateInvite(w) ==
    LET old == {i \in InviteId : Pending(i)} IN
    /\ MayStart(w) /\ NewInvite # {}
    /\ ~\E s \in SeatId : account /\ seat[s].user /\ seat[s].active
    /\ ~\E i \in InviteId : StandsInTheWay(i)
    /\ IF old = {} THEN UNCHANGED <<seat, invite>>
       ELSE \E i \in old : seat' = ExpiredSeats(i) /\ invite' = Expired(i)
    /\ Step(w, "invite", None, None)
    /\ UNCHANGED account

CreateSeat(w) ==
    /\ req[w].op = "invite"
    /\ IF HasSeat /\ Unused(seat) # {} /\ ~\E s \in SeatId : seat[s].active /\ seat[s].mine
       THEN LET s == Min(Unused(seat)) IN
            seat' = [seat EXCEPT ![s] = NewSeat(TRUE)] /\ Step(w, "send", s, None)
       ELSE UNCHANGED seat /\ Ends(w)
    /\ UNCHANGED <<invite, account>>

SendInvite(w) ==
    /\ req[w].op = "send"
    /\ invite' = IF NewInvite = {} THEN invite
                 ELSE [invite EXCEPT ![Min(NewInvite)] = [status |-> "PENDING", seat |-> req[w].seat,
                                                          late |-> FALSE]]
    /\ Ends(w)
    /\ UNCHANGED <<seat, account>>

(* resendInvite, resendByStaff: thirty more days, even past the first ones *)
Reissue(i) ==
    /\ Pending(i) /\ seat[invite[i].seat].active /\ invite[i].late
    /\ invite' = [invite EXCEPT ![i].late = FALSE]
    /\ UNCHANGED <<seat, account, req>>

(***************************************************************************)
(* Accepting                                                               *)
(***************************************************************************)

(* acceptInvite and acceptInviteAsUser: the row, before the transaction *)
AcceptReads(w, i) ==
    /\ MayStart(w) /\ Pending(i) /\ ~invite[i].late /\ seat[invite[i].seat].active
    /\ Step(w, IF account THEN "asUser" ELSE "asNew", invite[i].seat, i)
    /\ UNCHANGED <<seat, invite, account>>

(* In the transaction: the seat is still of the team; the rows of a past    *)
(* engagement let the account go                                            *)
AcceptChecks(w) ==
    LET s == req[w].seat
        past == {t \in SeatId \ {s} : seat[t].user /\ ~seat[t].active}
        active == \E t \in SeatId : seat[t].user /\ seat[t].active
    IN
    /\ req[w].op \in {"asUser", "asNew"}
    /\ IF seat[s].active /\ (req[w].op = "asUser" => account /\ ~active)
       THEN req' = [req EXCEPT ![w].op = IF @ = "asUser" THEN "linkUser" ELSE "linkNew",
                               ![w].freed = IF req[w].op = "asUser" THEN past ELSE {}]
       ELSE Ends(w)
    /\ UNCHANGED <<seat, invite, account>>

Claims(i) == Pending(i)

(* The person is tied to the seat and the invitation is claimed, or the     *)
(* whole transaction is undone; the database ties one seat to an account.   *)
AcceptCommits(w) ==
    LET s == req[w].seat
        others == {t \in SeatId \ ({s} \cup req[w].freed) : seat[t].user}
    IN
    /\ req[w].op \in {"linkUser", "linkNew"}
    /\ IF Claims(req[w].invite) /\ (IF req[w].op = "linkNew" THEN ~account ELSE account /\ others = {})
       THEN /\ seat' = [t \in SeatId |-> [seat[t] EXCEPT !.user = t = s \/ (@ /\ t \notin req[w].freed)]]
            /\ invite' = [invite EXCEPT ![req[w].invite].status = "ACCEPTED"]
            /\ account' = TRUE
       ELSE UNCHANGED <<seat, invite, account>>
    /\ Ends(w)

(* The person signs up by another way. *)
SignUp ==
    /\ ~account /\ account' = TRUE
    /\ UNCHANGED <<seat, invite, req>>

(* erase of the account of the person: what waits for the e-mail is over,   *)
(* and the seats stay with the shop                                         *)
EraseAccount ==
    /\ account /\ account' = FALSE
    /\ seat' = [s \in SeatId |-> [seat[s] EXCEPT !.user = FALSE]]
    /\ invite' = [i \in InviteId |-> IF Pending(i) THEN [invite[i] EXCEPT !.status = "CANCELLED"] ELSE invite[i]]
    /\ UNCHANGED req

SeatsNext ==
    \/ SignUp \/ EraseAccount
    \/ \E s \in SeatId : SeatsDeleteBarber(s)
    \/ \E i \in InviteId : InviteLapses(i) \/ ReleaseInvite(i) \/ Reissue(i)
    \/ \E w \in Worker :
         \/ CreateBarber(w) \/ Hire(w) \/ Reactivate(w) \/ CreateInvite(w) \/ CreateSeat(w) \/ SendInvite(w)
         \/ AcceptChecks(w) \/ AcceptCommits(w)
         \/ \E s \in SeatId : SeatsUpdateBarber(w, s)
         \/ \E i \in InviteId : AcceptReads(w, i)

(***************************************************************************)
(* Properties                                                              *)
(***************************************************************************)

Op == {"free", "hire", "reactivate", "invite", "send", "asUser", "asNew", "linkUser", "linkNew"}

SeatsTypeOK ==
    /\ seat \in [SeatId -> SeatRow]
    /\ invite \in [InviteId -> InviteRow]
    /\ account \in BOOLEAN
    /\ req \in [Worker -> [op : Op, seat : SeatId \cup {None}, invite : InviteId \cup {None},
                           freed : SUBSET SeatId]]

(* The seats that are taken fit the plan, when one request runs at a time:  *)
(* hiring, inviting, coming back (ensureBarberLimitNotExceeded).            *)
SeatsWithinPlan == ~Overlap => Taken <= PlanSeats

(* One invitation at a time waits for a person, one request at a time,      *)
(* though invitations lapse, are sent again and close (createInvite).       *)
OneLiveInvite == ~Overlap => Cardinality({i \in InviteId : StandsInTheWay(i)}) <= 1

(* Nobody enters the team by a seat that is out of it, even when the seat   *)
(* is taken away while the invitation is being accepted (acceptInvite).     *)
EntersOpenSeat == \A s \in SeatId : (seat'[s].user /\ ~seat[s].user) => seat[s].active

(***************************************************************************)
(* "leaving". A professional of a shop changes role, period or leaves the  *)
(* team: the bookings they have, the people who wait for them, the places  *)
(* of the plan and who is told. A request checks and then writes; what     *)
(* follows a departure are steps of their own.                             *)
(***************************************************************************)

leavingVars == <<now, barber, appt, entry, told, req>>

Time == 0 .. MaxTime
Bound == Time \cup {None}
Roles == {"reception", "barber"}
LeavingFree == [op |-> "free", barber |-> None, row |-> None, ids |-> {}]
Idle == \A w \in Worker : req[w] = LeavingFree
May(w) == req[w] = LeavingFree /\ (Idle \/ "overlap" \in Faults)
Done(w) == req' = [req EXCEPT ![w] = LeavingFree]

BarberRow == [active : BOOLEAN, role : Roles, takes : BOOLEAN \cup {None}, from : Bound, to : Bound]
New == [active |-> TRUE, role |-> "barber", takes |-> None, from |-> None, to |-> None]

LeavingInit ==
    /\ now = 0
    /\ \E team \in SUBSET Barber : Cardinality(team) = Seats /\ barber = [b \in Barber |-> [New EXCEPT !.active = b \in team]]
    /\ appt = [a \in ApptId |-> None] /\ entry = [e \in EntryId |-> None]
    /\ told = {} /\ req = [w \in Worker |-> LeavingFree]

TakesAppointments(r) == IF r.takes = None THEN r.role # "reception" ELSE r.takes
WithinEngagement(r, t) == (r.from # None => t >= r.from) /\ (r.to # None => t <= r.to)
InPeriod(r) == r.to # None => r.to >= now
Future(b) == {a \in ApptId : appt[a] # None /\ appt[a].barber = b /\ appt[a].status = "CONFIRMED" /\ appt[a].at >= now}
Seated(S) == {b \in S : barber[b].active /\ TakesAppointments(barber[b]) /\ InPeriod(barber[b])}
EnsureSeatFor(b) == Cardinality(Seated(Barber)) < Seats

(***************************************************************************)
(* Customers                                                               *)
(***************************************************************************)

Book(a, b, t) ==
    /\ appt[a] = None /\ t > now /\ (Idle \/ "overlap" \in Faults)
    /\ barber[b].active /\ TakesAppointments(barber[b]) /\ WithinEngagement(barber[b], t)
    /\ appt' = [appt EXCEPT ![a] = [barber |-> b, at |-> t, status |-> "CONFIRMED"]]
    /\ UNCHANGED <<now, barber, entry, told, req>>

Cancel(a) ==
    /\ appt[a] # None /\ appt[a].status = "CONFIRMED"
    /\ appt' = [appt EXCEPT ![a].status = "CANCELLED"]
    /\ UNCHANGED <<now, barber, entry, told, req>>

(* createWaitlistEntry: the team may name any professional of the shop *)
CreateWaitlistEntry(e, b) ==
    /\ entry[e] = None /\ Idle
    /\ entry' = [entry EXCEPT ![e] = [barber |-> b, status |-> "WAITING", late |-> ~barber[b].active]]
    /\ UNCHANGED <<now, barber, appt, told, req>>

Leave(e) ==
    /\ entry[e] # None /\ entry[e].status = "WAITING" /\ (Idle \/ "leaves" \in Faults)
    /\ entry' = [entry EXCEPT ![e].status = "CANCELLED"]
    /\ UNCHANGED <<now, barber, appt, told, req>>

(***************************************************************************)
(* updateBarber                                                            *)
(***************************************************************************)

(* parseEngagementPeriod *)
Valid(r) == (r.from # None /\ r.to # None) => r.from <= r.to

Stranded(b, r) == {a \in Future(b) : ~WithinEngagement(r, appt[a].at)}

TakesSeat(b, r) ==
    /\ r.active /\ TakesAppointments(r) /\ InPeriod(r)
    /\ ~(barber[b].active /\ TakesAppointments(barber[b]) /\ InPeriod(barber[b]))

(* one field is changed; a new role without saying so follows the role *)
Changed(b) ==
    LET r == barber[b] IN
    {[r EXCEPT !.role = x, !.takes = None] : x \in Roles \ {r.role}} \cup {[r EXCEPT !.takes = x] : x \in BOOLEAN}
    \cup {[r EXCEPT !.active = x] : x \in BOOLEAN} \cup {[r EXCEPT !.from = x] : x \in Bound} \cup {[r EXCEPT !.to = x] : x \in Bound}

LeavingUpdateBarber(w, b, r) ==
    /\ May(w) /\ r # barber[b] /\ Valid(r)
    /\ (TakesAppointments(barber[b]) /\ ~TakesAppointments(r)) => Future(b) = {}
    /\ (r.from # barber[b].from \/ r.to # barber[b].to) => Stranded(b, r) = {}
    /\ TakesSeat(b, r) => EnsureSeatFor(b)
    /\ req' = [req EXCEPT ![w] = [op |-> "write", barber |-> b, row |-> r, ids |-> {}]]
    /\ UNCHANGED <<now, barber, appt, entry, told>>

(* only the fields that were sent are written; who leaves is told of *)
WriteBarber(w) ==
    /\ req[w].op = "write"
    /\ LET b == req[w].barber r == req[w].row leaves == barber[b].active /\ ~r.active IN
       /\ barber' = [barber EXCEPT ![b] = r]
       /\ told' = IF r.active THEN told \ {b} ELSE told
       /\ req' = [req EXCEPT ![w] = IF leaves THEN [op |-> "warn", barber |-> b, row |-> None, ids |-> {}] ELSE LeavingFree]
    /\ UNCHANGED <<now, appt, entry>>

LeavingDeleteBarber(w, b) ==
    /\ May(w)
    /\ barber' = [barber EXCEPT ![b].active = FALSE]
    /\ req' = [req EXCEPT ![w] = [op |-> "warn", barber |-> b, row |-> None, ids |-> {}]]
    /\ UNCHANGED <<now, appt, entry, told>>

ReactivateBarber(w, b) ==
    /\ May(w)
    /\ (~barber[b].active /\ TakesAppointments(barber[b])) => EnsureSeatFor(b)
    /\ req' = [req EXCEPT ![w] = [op |-> "write", barber |-> b, row |-> [barber[b] EXCEPT !.active = TRUE], ids |-> {}]]
    /\ UNCHANGED <<now, barber, appt, entry, told>>

(***************************************************************************)
(* After a departure                                                       *)
(***************************************************************************)

Tells(b) == Future(b) # {}

WarnFutureAppointments(w) ==
    /\ req[w].op = "warn"
    /\ told' = IF Tells(req[w].barber) THEN told \cup {req[w].barber} ELSE told
    /\ req' = [req EXCEPT ![w].op = "waiting"]
    /\ UNCHANGED <<now, barber, appt, entry>>

WaitsFor(e, b) == entry[e] # None /\ entry[e].barber = b /\ entry[e].status \in {"WAITING", "NOTIFIED"}

(* releaseBarberWaitlist reads who waits ... *)
ReadWaiting(w) ==
    /\ req[w].op = "waiting"
    /\ LET b == req[w].barber ids == {e \in EntryId : WaitsFor(e, b)} IN
       req' = [req EXCEPT ![w] = IF ids = {} THEN LeavingFree ELSE [op |-> "release", barber |-> b, row |-> None, ids |-> ids]]
    /\ UNCHANGED <<now, barber, appt, entry, told>>

Released(e) == [entry[e] EXCEPT !.barber = None, !.status = "WAITING"]

(* ... and writes by id, whatever happened to the entry since *)
ReleaseBarberWaitlist(w) ==
    /\ req[w].op = "release"
    /\ entry' = [e \in EntryId |-> IF e \in req[w].ids THEN Released(e) ELSE entry[e]]
    /\ Done(w) /\ UNCHANGED <<now, barber, appt, told>>

Crash(w) ==
    /\ "crash" \in Faults /\ req[w].op \in {"warn", "waiting", "release"}
    /\ Done(w) /\ UNCHANGED <<now, barber, appt, entry, told>>

Tick ==
    /\ now < MaxTime /\ Idle /\ now' = now + 1
    /\ UNCHANGED <<barber, appt, entry, told, req>>

LeavingNext ==
    \/ Tick
    \/ \E a \in ApptId : Cancel(a) \/ \E b \in Barber, t \in Time : Book(a, b, t)
    \/ \E e \in EntryId : Leave(e) \/ \E b \in Barber : CreateWaitlistEntry(e, b)
    \/ \E w \in Worker : \/ \E b \in Barber : \/ \E r \in Changed(b) : LeavingUpdateBarber(w, b, r)
                                              \/ LeavingDeleteBarber(w, b) \/ ReactivateBarber(w, b)
                         \/ WriteBarber(w) \/ WarnFutureAppointments(w) \/ ReadWaiting(w) \/ ReleaseBarberWaitlist(w) \/ Crash(w)

(***************************************************************************)
(* Properties                                                              *)
(***************************************************************************)

LeavingTypeOK ==
    /\ now \in Time /\ barber \in [Barber -> BarberRow] /\ told \subseteq Barber
    /\ \A w \in Worker : req[w].op \in {"free", "write", "warn", "waiting", "release"}

Serial == "overlap" \notin Faults

(* A booking that is to come is with somebody who works at that time and   *)
(* takes bookings, or with somebody who left, and then the managers were   *)
(* told of it. It holds for requests that do not overlap: the bookings are *)
(* counted before the row is written, and a process that stops after a     *)
(* departure tells nobody (updateBarber, warnFutureAppointments).          *)
NobodyStranded ==
    (Serial /\ Idle) => \A b \in Barber : \A a \in Future(b) :
        /\ WithinEngagement(barber[b], appt[a].at)
        /\ barber[b].active => TakesAppointments(barber[b])
        /\ (~barber[b].active /\ "crash" \notin Faults) => b \in told

(* Nobody goes on waiting for a professional who left, but for who was put *)
(* on the list afterwards (releaseBarberWaitlist).                         *)
NobodyWaitsForWhoLeft ==
    (Idle /\ Serial /\ "crash" \notin Faults) =>
        \A e \in EntryId, b \in Barber : (WaitsFor(e, b) /\ ~entry[e].late) => barber[b].active

(* Who left the list stays out, though a professional leaves meanwhile.    *)
(* The list is written by the ids that were read, so it fails when they    *)
(* leave in between (releaseBarberWaitlist).                               *)
LeftStaysOut == "leaves" \in Faults \/ \A e \in EntryId : (entry[e] # None /\ entry[e].status = "CANCELLED") => entry'[e] = entry[e]

(* The professionals who take bookings fit the plan of the shop, however   *)
(* they came to take them: a new role, a renewed period, a return          *)
(* (ensureSeatFor).                                                        *)
TeamFitsPlan == Serial => Cardinality(Seated(Barber)) <= Seats

(***************************************************************************)
(* The component: one part at a time. The other parts have no state then.  *)
(***************************************************************************)

vars == <<seat, invite, account, req, now, barber, appt, entry, told>>

Init ==
    \/ /\ Part = "seats" /\ SeatsInit
          /\ now = None /\ barber = None /\ appt = None /\ entry = None /\ told = None
    \/ /\ Part = "leaving" /\ LeavingInit
          /\ seat = None /\ invite = None /\ account = None

Next ==
    \/ Part = "seats" /\ SeatsNext /\ UNCHANGED <<now, barber, appt, entry, told>>
    \/ Part = "leaving" /\ LeavingNext /\ UNCHANGED <<seat, invite, account>>

Spec == Init /\ [][Next]_vars

TypeOK ==
    /\ Part = "seats" => SeatsTypeOK
    /\ Part = "leaving" => LeavingTypeOK
=============================================================================
